-------------------------------- MODULE Chat --------------------------------
(***************************************************************************)
(* Presence in the chat program Myqq: every window announces its user by   *)
(* UDP broadcast when it opens and when it closes, and announces it again  *)
(* whenever it hears of a user it has not listed.                          *)
(*                                                                         *)
(* A window belongs to one run of the program, called a host here, and     *)
(* speaks for one name of the contact list, which is the same on every     *)
(* host.  A program is one thread, so each handler is one step.  A         *)
(* broadcast is for the sockets open when it is sent; reading it may take  *)
(* any time, and a socket gets what several windows have sent in any       *)
(* order, what one window has sent in the order of sending.  Chat messages *)
(* (Msg) touch no list and are left out.                                   *)
(***************************************************************************)
EXTENDS Naturals, Sequences

CONSTANTS Windows,     \* pairs <<host, name>>
          MaxOpens,    \* bound: windows opened over time
          MaxPending   \* bound: datagrams of one window unread at another

ASSUME SizeAssumption == MaxOpens \in Nat /\ MaxPending \in Nat \ {0}

VARIABLES isShow,      \* [Windows -> whether the window is open]
          pending,     \* pending[w][v]: what w has yet to read from v
          users,       \* [Windows -> the names in userTblWidget]
          opens,       \* windows opened so far
          troubled,    \* history: a datagram was lost or a program was killed
          shared       \* history: a name was taken while another host used it

vars == <<isShow, pending, users, opens, troubled, shared>>

Host(w) == w[1]
Name(w) == w[2]
Names == {Name(w) : w \in Windows}
Open == {w \in Windows : isShow[w]}

(* A datagram: "UsrEnter" or "UsrLeft", with the name of its sender.       *)
Datagram == {"UsrEnter", "UsrLeft"}
Nothing == [v \in Windows |-> <<>>]

Init == /\ isShow = [w \in Windows |-> FALSE]
        /\ pending = [w \in Windows |-> Nothing]
        /\ users = [w \in Windows |-> {}]
        /\ opens = 0
        /\ troubled = FALSE /\ shared = FALSE

-----------------------------------------------------------------------------
(* A broadcast of v reaches the sockets in S, its own among them; a buffer *)
(* that is full drops it.                                                  *)
Full(w, v, before) == Len(before[w][v]) = MaxPending
Delivered(d, v, S, before) ==
  [w \in Windows |-> IF w \in S /\ ~Full(w, v, before)
                     THEN [before[w] EXCEPT ![v] = Append(@, d)] ELSE before[w]]
sndMsg(d, v, S, before) ==
  /\ pending' = Delivered(d, v, S, before)
  /\ troubled' = (troubled \/ \E w \in S : Full(w, v, before))

(* Another host has a window open for the name, or what it has sent is     *)
(* still under way: users are told apart by name only.                     *)
Present(v) == v \in Open \/ \E w \in Windows : pending[w][v] # <<>>
InUse(w) == \E v \in Windows \ {w} : Name(v) = Name(w) /\ Present(v)

(* A click on a contact that is not shown makes a new Widget.              *)
clicked(w) == ~isShow[w] /\ isShow' = [isShow EXCEPT ![w] = TRUE]
Widget(w) == /\ opens < MaxOpens
             /\ clicked(w)
             /\ users' = [users EXCEPT ![w] = {}]
             /\ opens' = opens + 1
             /\ sndMsg("UsrEnter", w, Open \cup {w}, pending)
             /\ shared' = (shared \/ InUse(w))

(* ReceiveMessage reads one datagram, here one of v.                       *)
Received(w, v) == Head(pending[w][v])
Rest(w, v) == [pending EXCEPT ![w][v] = Tail(@)]

AnswerAlways(w, v) ==                                             \* mutant
  /\ pending[w][v] # <<>> /\ Received(w, v) = "UsrEnter"
  /\ users' = [users EXCEPT ![w] = @ \cup {Name(v)}]
  /\ sndMsg("UsrEnter", w, Open, Rest(w, v))
  /\ UNCHANGED <<isShow, opens, shared>>
NoAnswer(w, v) ==                                                 \* mutant
  /\ pending[w][v] # <<>> /\ Received(w, v) = "UsrEnter"
  /\ Name(v) \notin users[w]
  /\ users' = [users EXCEPT ![w] = @ \cup {Name(v)}]
  /\ pending' = Rest(w, v)
  /\ UNCHANGED <<isShow, opens, troubled, shared>>
ReceiveNewUser(w, v) ==
  /\ pending[w][v] # <<>> /\ Received(w, v) = "UsrEnter"
  /\ Name(v) \notin users[w]
  /\ users' = [users EXCEPT ![w] = @ \cup {Name(v)}]
  /\ sndMsg("UsrEnter", w, Open, Rest(w, v))
  /\ UNCHANGED <<isShow, opens, shared>>

ReceiveKnownUser(w, v) ==
  /\ pending[w][v] # <<>> /\ Received(w, v) = "UsrEnter"
  /\ Name(v) \in users[w]
  /\ pending' = Rest(w, v)
  /\ UNCHANGED <<isShow, users, opens, troubled, shared>>

usrLeft(w, v) ==
  /\ pending[w][v] # <<>> /\ Received(w, v) = "UsrLeft"
  /\ users' = [users EXCEPT ![w] = @ \ {Name(v)}]
  /\ pending' = Rest(w, v)
  /\ UNCHANGED <<isShow, opens, troubled, shared>>

ReceiveMessage(w) ==
  \E v \in Windows : ReceiveNewUser(w, v) \/ ReceiveKnownUser(w, v) \/ usrLeft(w, v)

(* The window's own socket is closed, with what it has not read; its list  *)
(* is seen no more, as another click makes a new Widget.                   *)
KeepSocket(w) ==                                                  \* mutant
  /\ isShow[w]
  /\ isShow' = [isShow EXCEPT ![w] = FALSE]
  /\ users' = [users EXCEPT ![w] = {}]
  /\ sndMsg("UsrLeft", w, Open, pending)
  /\ UNCHANGED <<opens, shared>>
closeEvent(w) ==
  /\ isShow[w]
  /\ isShow' = [isShow EXCEPT ![w] = FALSE]
  /\ users' = [users EXCEPT ![w] = {}]
  /\ sndMsg("UsrLeft", w, Open \ {w}, [pending EXCEPT ![w] = Nothing])
  /\ UNCHANGED <<opens, shared>>

-----------------------------------------------------------------------------
(* Faults.  Bound: a single one, beside buffers that overflow.             *)
Lose(w) == /\ ~troubled /\ troubled' = TRUE
           /\ \E v \in Windows : pending[w][v] # <<>> /\ pending' = Rest(w, v)
           /\ UNCHANGED <<isShow, users, opens, shared>>

(* A program that is killed sends no UsrLeft.                              *)
Kill(h) ==
  LET killed == {w \in Open : Host(w) = h}
  IN /\ ~troubled /\ troubled' = TRUE
     /\ killed # {}
     /\ isShow' = [w \in Windows |-> isShow[w] /\ w \notin killed]
     /\ users' = [w \in Windows |-> IF w \in killed THEN {} ELSE users[w]]
     /\ pending' = [w \in Windows |-> IF w \in killed THEN Nothing ELSE pending[w]]
     /\ UNCHANGED <<opens, shared>>

-----------------------------------------------------------------------------
Next == \/ \E w \in Windows : \/ Widget(w) \/ ReceiveMessage(w) \/ closeEvent(w)
                              \/ Lose(w)
        \/ \E w \in Windows : Kill(Host(w))

Spec == Init /\ [][Next]_vars

(* The event loop calls readyRead's slot as long as datagrams are pending. *)
FairSpec == Spec /\ \A w \in Windows : WF_vars(ReceiveMessage(w))

-----------------------------------------------------------------------------
(* Every variable keeps its range; a closed window has nothing to read.    *)
TypeOK == /\ isShow \in [Windows -> BOOLEAN]
          /\ pending \in [Windows -> [Windows -> Seq(Datagram)]]
          /\ users \in [Windows -> SUBSET Names]
          /\ opens \in 0 .. MaxOpens /\ troubled \in BOOLEAN /\ shared \in BOOLEAN
          /\ \A w, v \in Windows : /\ Len(pending[w][v]) <= MaxPending
                                   /\ ~isShow[w] => pending[w][v] = <<>>

(* Without faults, and as long as no name was taken while another host     *)
(* used it, whenever nothing is under way every open window lists exactly  *)
(* the users whose windows are open, itself among them: in whatever order  *)
(* windows opened, closed and read the datagrams of the others.            *)
Quiet == \A w, v \in Windows : pending[w][v] = <<>>
QuietAgrees == Quiet /\ ~troubled /\ ~shared =>
                 \A w \in Open : users[w] = {Name(v) : v \in Open}

(* Announcements that answer announcements come to an end, with lost       *)
(* datagrams too: a user is answered only when it is new to the list.      *)
ChatSettles == <>[]Quiet
=============================================================================
