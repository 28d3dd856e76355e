--------------------------- MODULE BoundedBuffer ---------------------------
(***************************************************************************)
(* What the class Blockqueue promises its callers, whatever it is built    *)
(* from: the operations QueuePush / QueuePush_back and QueuePop each take  *)
(* effect at one instant, the items form one first-in first-out queue of   *)
(* at most Capacity items, every item is handed to exactly one consumer,   *)
(* and a producer's items enter the queue in the order it made them.       *)
(* pro_cus.cpp (CondQueue) and sem.cpp (SemQueue) implement it.            *)
(***************************************************************************)
EXTENDS Naturals, Sequences

CONSTANTS Producers, Consumers, Capacity,
          Wrap,     \* a producer's counter i is taken modulo Wrap
          NoItem    \* a consumer's variable before its first QueuePop

VARIABLES content,  \* the items in the queue, oldest first
          next,     \* [Producers -> the number of the next item]
          data      \* [Consumers -> the item obtained last]

bufferVars == <<content, next, data>>

Item == Producers \X (0 .. Wrap - 1)

Init == /\ content = <<>>
        /\ next = [p \in Producers |-> 0]
        /\ data = [c \in Consumers |-> NoItem]

Put(p) == /\ Len(content) < Capacity
          /\ content' = Append(content, <<p, next[p]>>)
          /\ next' = [next EXCEPT ![p] = (@ + 1) % Wrap]
          /\ UNCHANGED data

Get(c) == /\ content # <<>>
          /\ data' = [data EXCEPT ![c] = Head(content)]
          /\ content' = Tail(content)
          /\ UNCHANGED next

Next == \/ \E p \in Producers : Put(p)
        \/ \E c \in Consumers : Get(c)

Spec == Init /\ [][Next]_bufferVars
=============================================================================
