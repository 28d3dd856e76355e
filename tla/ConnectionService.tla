------------------------- MODULE ConnectionService -------------------------
(***************************************************************************)
(* What the TCP servers of this repository promise a client that makes one *)
(* connection: it is admitted or turned away; an answer goes only to a     *)
(* client something of whose input was taken since the last answer, or,    *)
(* from a server that is blind to what its reads return, to one that has   *)
(* left; and a client that was admitted is dismissed only when it has      *)
(* left, or after an answer that the server means to be the last.  The     *)
(* server may stop at any time.                                            *)
(***************************************************************************)
EXTENDS Naturals

CONSTANTS Clients

VARIABLES state,        \* [Clients -> "out", "in", "answered" or "done"]
          sent,         \* [Clients -> the input not yet taken]
          owed,         \* clients to be answered
          gone,         \* clients that have left
          blind,        \* reads are not looked at: the same all the time
          running

vars == <<state, sent, owed, gone, blind, running>>

Init == /\ state = [c \in Clients |-> "out"]
        /\ sent = [c \in Clients |-> 0]
        /\ owed = {} /\ gone = {} /\ blind \in BOOLEAN /\ running = TRUE

Step(c, from, to) == /\ running /\ state[c] = from
                     /\ state' = [state EXCEPT ![c] = to]
                     /\ UNCHANGED <<gone, blind, running>>

Admit(c) == Step(c, "out", "in") /\ UNCHANGED <<sent, owed>>
TurnAway(c) == Step(c, "out", "done") /\ UNCHANGED <<sent, owed>>

(* Some of the input is taken, or all of it.                               *)
Take(c) == /\ Step(c, "in", "in")
           /\ sent[c] > 0 /\ \E n \in 0 .. sent[c] - 1 : sent' = [sent EXCEPT ![c] = n]
           /\ owed' = owed \cup {c}
TakeNothing(c) == /\ Step(c, "in", "in")
                  /\ blind /\ c \in gone /\ sent[c] = 0
                  /\ owed' = owed \cup {c}
                  /\ UNCHANGED sent

Answer(c, last) == /\ Step(c, "in", IF last THEN "answered" ELSE "in")
                   /\ c \in owed /\ owed' = owed \ {c}
                   /\ UNCHANGED sent
Dismiss(c) == /\ \/ Step(c, "in", "done") /\ c \in gone
                 \/ Step(c, "answered", "done")
              /\ owed' = owed \ {c}
              /\ UNCHANGED sent

Put(c) == /\ c \notin gone
          /\ sent' = [sent EXCEPT ![c] = @ + 1]
          /\ UNCHANGED <<state, owed, gone, blind, running>>
Leave(c) == /\ gone' = gone \cup {c}
            /\ UNCHANGED <<state, sent, owed, blind, running>>

Stop == /\ running /\ running' = FALSE
        /\ state' = [c \in Clients |-> "done"] /\ owed' = {}
        /\ UNCHANGED <<sent, gone, blind>>

Next == \/ \E c \in Clients : \/ Admit(c) \/ TurnAway(c) \/ Take(c) \/ TakeNothing(c)
                              \/ Answer(c, FALSE) \/ Answer(c, TRUE)
                              \/ Dismiss(c) \/ Put(c) \/ Leave(c)
        \/ Stop

Spec == Init /\ [][Next]_vars
=============================================================================
