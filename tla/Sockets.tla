------------------------------ MODULE Sockets ------------------------------
(***************************************************************************)
(* What the TCP servers of this repository see of the kernel: one          *)
(* listening socket with its queue of connections, and the descriptors of  *)
(* the server process.  A client makes one connection, is counted for the  *)
(* input it has sent and the server has not read, may leave what it is     *)
(* sent unread until the buffers are full, and ends the connection in      *)
(* order or, with answers unread, by a reset.  Payload is left out.        *)
(*                                                                         *)
(* A module that instantiates this one supplies the four variables.        *)
(***************************************************************************)
EXTENDS Naturals, Sequences

CONSTANTS Clients, NoClient,
          Fds,          \* the descriptors accept can return, as numbers
          MaxUnread     \* bound: messages a client has under way

VARIABLES peer,         \* [Clients -> what the client did with its end: "up", or
                        \*  "full" while no more can be sent to it, ...]
          backlog,      \* the connections not yet accepted, oldest first
          open,         \* [Fds -> the connection a descriptor refers to]
          unread        \* [Clients -> messages sent and not read]

SocketsInit == /\ peer = [c \in Clients |-> "idle"]
               /\ backlog = <<>>
               /\ open = [f \in Fds |-> NoClient]
               /\ unread = [c \in Clients |-> 0]

-----------------------------------------------------------------------------
(* The clients                                                             *)
Connect(c) == /\ peer[c] = "idle"
              /\ peer' = [peer EXCEPT ![c] = "up"]
              /\ backlog' = Append(backlog, c)
              /\ UNCHANGED <<open, unread>>

Up(c) == peer[c] \in {"up", "full"}
SendMessage(c) == /\ Up(c) /\ unread[c] < MaxUnread
                  /\ unread' = [unread EXCEPT ![c] = @ + 1]
                  /\ UNCHANGED <<peer, backlog, open>>

ReadAnswers(c) == /\ peer[c] = "full"
                  /\ peer' = [peer EXCEPT ![c] = "up"]
                  /\ UNCHANGED <<backlog, open, unread>>

Hangup(c, how) == /\ Up(c) /\ (peer[c] = "full" => how = "rst")
                  /\ peer' = [peer EXCEPT ![c] = how]
                  /\ UNCHANGED <<backlog, open, unread>>

ClientStep == \E c \in Clients : \/ Connect(c) \/ SendMessage(c) \/ ReadAnswers(c)
                                 \/ \E how \in {"fin", "rst"} : Hangup(c, how)

-----------------------------------------------------------------------------
(* accept returns the lowest free descriptor, for the oldest connection.   *)
FreeFds == {f \in Fds : open[f] = NoClient}
Accept(f) == /\ backlog # <<>>
             /\ f \in FreeFds /\ \A g \in FreeFds : f <= g
             /\ open' = [open EXCEPT ![f] = Head(backlog)]
             /\ backlog' = Tail(backlog)
             /\ UNCHANGED <<peer, unread>>

(* A read on connection c returns the input, then an error or end of file; *)
(* while none of these holds it blocks.                                    *)
HasInput(c) == unread[c] > 0
AtEnd(c) == unread[c] = 0 /\ peer[c] = "fin"
Failed(c) == unread[c] = 0 /\ peer[c] = "rst"

Readable(c) == HasInput(c) \/ peer[c] \in {"fin", "rst"}
ReadInput(c) == /\ HasInput(c)
                /\ unread' = [unread EXCEPT ![c] = 0]
                /\ UNCHANGED <<peer, backlog, open>>

(* What is sent to a client that has closed its end may be answered with a *)
(* reset; only on a connection that was reset does a send raise SIGPIPE.   *)
SendShort(c) == /\ \/ UNCHANGED peer
                   \/ peer[c] = "fin" /\ peer' = [peer EXCEPT ![c] = "rst"]
                /\ UNCHANGED <<backlog, open, unread>>

(* A send may fill the buffers, and one that finds them full blocks.       *)
Fill(c) == /\ peer[c] = "up" /\ peer' = [peer EXCEPT ![c] = "full"]
           /\ UNCHANGED <<backlog, open, unread>>
Send(c) == peer[c] # "full" /\ (SendShort(c) \/ Fill(c))

(* close: on a descriptor that is not open it fails and changes nothing.   *)
Close(f) == /\ open' = [g \in Fds |-> IF g = f THEN NoClient ELSE open[g]]
            /\ UNCHANGED <<peer, backlog, unread>>
=============================================================================
