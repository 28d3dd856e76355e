----------------------------- MODULE ChatProofs -----------------------------
(***************************************************************************)
(* Why the windows of Myqq agree on who is there, for any number of users  *)
(* and hosts and any order of reading: what a window will have listed when *)
(* it has read all it has yet to read, and who will answer whom before.    *)
(***************************************************************************)
EXTENDS Chat, SequenceTheorems, TLAPS

Last(q) == q[Len(q)]
OpenNames == {Name(v) : v \in Open}

(* A name is present on one host only.                                     *)
OneEach == \A u, v \in Windows :
             Present(u) /\ Present(v) /\ Name(u) = Name(v) => u = v

(* Whether a window that has p to read and lists s will list the name when *)
(* it has read everything: the last word on it is that it entered.         *)
Silent(p, n) == \A v \in Windows : Name(v) = n => p[v] = <<>>
Lists(p, s, n) ==
  \/ \E v \in Windows : Name(v) = n /\ p[v] # <<>> /\ Last(p[v]) = "UsrEnter"
  \/ n \in s /\ Silent(p, n)
WillList(w, n) == Lists(pending[w], users[w], n)

(* Nobody will list a user who has left, for UsrLeft is the last word.     *)
NoGhosts == \A w \in Open : \A n \in Names \ OpenNames : ~WillList(w, n)

(* Of two windows the later one was announced to the earlier one.          *)
OneWillList == \A v, w \in Open : WillList(v, Name(w)) \/ WillList(w, Name(v))

(* A window that w will not list does not list w, or will not when it has  *)
(* read that w left: then it answers when it hears of w.                   *)
WillUnlist(v, w) == \E k \in 1 .. Len(pending[v][w]) : pending[v][w][k] = "UsrLeft"
WillAnswer == \A v, w \in Open :
                \/ WillList(w, Name(v))
                \/ Name(w) \notin users[v]
                \/ WillUnlist(v, w)

Agreement == OneEach /\ NoGhosts /\ OneWillList /\ WillAnswer
Calm == ~troubled /\ ~shared
IInv == TypeOK /\ (Calm => Agreement)

Row == [Windows -> Seq(Datagram)]
Adding(p, v, d) == [p EXCEPT ![v] = Append(@, d)]
Taking(p, v) == [p EXCEPT ![v] = Tail(@)]

-----------------------------------------------------------------------------
(* A datagram that is received is the last word of its sender.             *)
LEMMA Appended ==
  ASSUME NEW q \in Seq(Datagram), NEW d \in Datagram
  PROVE  LET r == Append(q, d)
         IN  /\ r \in Seq(Datagram) /\ Len(r) = Len(q) + 1 /\ r # <<>>
             /\ Last(r) = d
             /\ \A k \in 1 .. Len(q) : r[k] = q[k]
BY DEF Last

(* Reading takes the first datagram away, which is the last word as well   *)
(* when it is the only one.                                                *)
LEMMA Tailed ==
  ASSUME NEW q \in Seq(Datagram), q # <<>>
  PROVE  /\ Tail(q) \in Seq(Datagram) /\ Len(Tail(q)) = Len(q) - 1
         /\ Len(q) \in Nat \ {0} /\ Head(q) = q[1] /\ Head(q) \in Datagram
         /\ Tail(q) # <<>> => Last(Tail(q)) = Last(q)
         /\ Tail(q) = <<>> => Last(q) = Head(q)
         /\ \A k \in 2 .. Len(q) : k - 1 \in 1 .. Len(Tail(q)) /\ Tail(q)[k - 1] = q[k]
<1>1. /\ Tail(q) \in Seq(Datagram) /\ Len(Tail(q)) = Len(q) - 1
      /\ Len(q) \in Nat \ {0} /\ Head(q) = q[1] /\ Head(q) \in Datagram
      /\ \A k \in 1 .. Len(Tail(q)) : Tail(q)[k] = q[k + 1]
  BY HeadTailProperties, EmptySeq
<1>2. \A k \in 2 .. Len(q) : k - 1 \in 1 .. Len(Tail(q)) /\ Tail(q)[k - 1] = q[k]
  <2> SUFFICES ASSUME NEW k \in 2 .. Len(q)
               PROVE  k - 1 \in 1 .. Len(Tail(q)) /\ Tail(q)[k - 1] = q[k]
    OBVIOUS
  <2>1. k - 1 \in 1 .. Len(Tail(q)) /\ (k - 1) + 1 = k
    BY <1>1
  <2> QED
    BY <1>1, <2>1
<1>3. Tail(q) # <<>> => Last(Tail(q)) = Last(q)
  <2> SUFFICES ASSUME Tail(q) # <<>> PROVE Last(Tail(q)) = Last(q)
    OBVIOUS
  <2>1. Len(q) \in 2 .. Len(q)
    BY <1>1, EmptySeq
  <2> QED
    BY <1>1, <1>2, <2>1 DEF Last
<1>4. Tail(q) = <<>> => Last(q) = Head(q)
  <2> SUFFICES ASSUME Tail(q) = <<>> PROVE Len(q) = 1
    BY <1>1 DEF Last
  <2> QED
    BY <1>1, EmptySeq
<1> QED
  BY <1>1, <1>2, <1>3, <1>4

(* What a window will list does not change when it reads, if only one      *)
(* window speaks for the name: reading is all it takes to list it.         *)
LEMMA Reading ==
  ASSUME NEW p \in Row, NEW s \in SUBSET Names, NEW t \in SUBSET Names,
         NEW v \in Windows, p[v] # <<>>,
         \A u \in Windows \ {v} : Name(u) = Name(v) => p[u] = <<>>,
         t = IF Head(p[v]) = "UsrEnter" THEN s \cup {Name(v)} ELSE s \ {Name(v)},
         NEW n
  PROVE  Lists(Taking(p, v), t, n) <=> Lists(p, s, n)
<1> DEFINE r == Taking(p, v)
<1>1. /\ r[v] = Tail(p[v]) /\ \A u \in Windows \ {v} : r[u] = p[u]
      /\ p[v] \in Seq(Datagram)
  BY DEF Row, Taking
<1>2. /\ r[v] # <<>> => Last(r[v]) = Last(p[v])
      /\ r[v] = <<>> => Last(p[v]) = Head(p[v])
      /\ Head(p[v]) \in Datagram
  BY <1>1, Tailed
<1> HIDE DEF r
<1>3. CASE n # Name(v)
  <2>1. n \in t <=> n \in s
    BY <1>3
  <2>2. \A u \in Windows : Name(u) = n => r[u] = p[u]
    BY <1>1, <1>3
  <2> QED
    BY <2>1, <2>2, Zenon DEF Lists, Silent, r
<1>4. CASE n = Name(v)
  <2>1. Lists(p, s, n) <=> Last(p[v]) = "UsrEnter"
    BY <1>4, Zenon DEF Lists, Silent
  <2>2. \A u \in Windows \ {v} : Name(u) = n => r[u] = <<>>
    BY <1>1, <1>4
  <2>3. Lists(r, t, n) <=> \/ r[v] # <<>> /\ Last(r[v]) = "UsrEnter"
                           \/ n \in t /\ r[v] = <<>>
    BY <1>4, <2>2, Zenon DEF Lists, Silent
  <2>4. n \in t <=> Head(p[v]) = "UsrEnter"
    BY <1>4
  <2> QED
    BY <1>2, <2>1, <2>3, <2>4 DEF r
<1> QED
  BY <1>3, <1>4

(* An announcement that is received decides on its name, and on no other.  *)
LEMMA Hearing ==
  ASSUME NEW p \in Row, NEW s, NEW v \in Windows, NEW d \in Datagram
  PROVE  LET r == Adding(p, v, d)
         IN  /\ r \in Row /\ r[v] = Append(p[v], d)
             /\ d = "UsrEnter" => Lists(r, s, Name(v))
             /\ d = "UsrLeft"
                /\ (\A u \in Windows \ {v} : Name(u) = Name(v) => p[u] = <<>>)
                  => ~Lists(r, s, Name(v))
             /\ \A n : n # Name(v) => (Lists(r, s, n) <=> Lists(p, s, n))
<1> DEFINE r == Adding(p, v, d)
<1>1. /\ r \in Row /\ r[v] = Append(p[v], d)
      /\ \A u \in Windows \ {v} : r[u] = p[u]
      /\ p[v] \in Seq(Datagram)
  BY DEF Row, Adding
<1>2. r[v] # <<>> /\ Last(r[v]) = d
  BY <1>1, Appended
<1> HIDE DEF r
<1>3. d = "UsrEnter" => Lists(r, s, Name(v))
  BY <1>2, Zenon DEF Lists
<1>4. ASSUME d = "UsrLeft",
             \A u \in Windows \ {v} : Name(u) = Name(v) => p[u] = <<>>
      PROVE  ~Lists(r, s, Name(v))
  <2>1. ~Silent(r, Name(v))
    BY <1>2, Zenon DEF Silent
  <2>2. \A u \in Windows : Name(u) = Name(v) /\ r[u] # <<>> => u = v
    BY <1>1, <1>4
  <2>3. Last(r[v]) # "UsrEnter"
    BY <1>2, <1>4
  <2> QED
    BY <2>1, <2>2, <2>3, Zenon DEF Lists
<1>5. ASSUME NEW n, n # Name(v) PROVE Lists(r, s, n) <=> Lists(p, s, n)
  <2>1. \A u \in Windows : Name(u) = n => r[u] = p[u]
    BY <1>1, <1>5
  <2> QED
    BY <2>1, Zenon DEF Lists, Silent
<1> QED
  BY <1>1, <1>3, <1>4, <1>5 DEF r

-----------------------------------------------------------------------------
(* A broadcast adds a datagram of its sender where the buffer has room.    *)
LEMMA Broadcast ==
  ASSUME NEW before \in [Windows -> Row], NEW v \in Windows, NEW d \in Datagram,
         NEW S \in SUBSET Windows,
         \A w, u \in Windows : Len(before[w][u]) <= MaxPending
  PROVE  LET after == Delivered(d, v, S, before)
         IN  /\ after \in [Windows -> Row]
             /\ \A w, u \in Windows : /\ Len(after[w][u]) <= MaxPending
                                      /\ u # v => after[w][u] = before[w][u]
             /\ \A w \in Windows \ S : after[w] = before[w]
             /\ (\A w \in S : ~Full(w, v, before)) =>
                  \A w \in S : after[w] = Adding(before[w], v, d)
<1> DEFINE after == Delivered(d, v, S, before)
<1>1. ASSUME NEW w \in Windows
      PROVE  /\ after[w] \in Row
             /\ \A u \in Windows : /\ Len(after[w][u]) <= MaxPending
                                   /\ u # v => after[w][u] = before[w][u]
             /\ w \notin S => after[w] = before[w]
             /\ w \in S /\ ~Full(w, v, before) => after[w] = Adding(before[w], v, d)
  <2>1. CASE w \in S /\ ~Full(w, v, before)
    <3>1. after[w] = Adding(before[w], v, d)
      BY <2>1 DEF Delivered, Adding
    <3>2. before[w] \in Row /\ before[w][v] \in Seq(Datagram)
      BY DEF Row
    <3>3. after[w] \in Row
      BY <3>1, <3>2, Appended DEF Row, Adding
    <3>4. /\ after[w][v] = Append(before[w][v], d)
          /\ \A u \in Windows \ {v} : after[w][u] = before[w][u]
      BY <3>1, <3>2 DEF Row, Adding
    <3>5. Len(before[w][v]) # MaxPending /\ Len(before[w][v]) \in Nat
      BY <2>1, <3>2 DEF Full
    <3>6. Len(after[w][v]) <= MaxPending
      BY <3>2, <3>4, <3>5, Appended, SizeAssumption
    <3> QED
      BY <2>1, <3>1, <3>3, <3>4, <3>6
  <2>2. CASE ~(w \in S /\ ~Full(w, v, before))
    <3>1. after[w] = before[w]
      BY <2>2 DEF Delivered
    <3> QED
      BY <2>2, <3>1
  <2> QED
    BY <2>1, <2>2
<1>2. after = [w \in Windows |-> after[w]]
  BY DEF Delivered
<1> HIDE DEF after
<1>3. after \in [Windows -> Row]
  BY <1>1, <1>2
<1> QED
  BY <1>1, <1>3 DEF after

(* The buffers after one datagram was read or lost.                        *)
LEMMA RestRow ==
  ASSUME TypeOK, NEW w \in Windows, NEW v \in Windows, pending[w][v] # <<>>
  PROVE  /\ Rest(w, v) \in [Windows -> Row]
         /\ Rest(w, v)[w] = Taking(pending[w], v)
         /\ \A u \in Windows \ {w} : Rest(w, v)[u] = pending[u]
         /\ Rest(w, v)[w][v] = Tail(pending[w][v])
         /\ \A u \in Windows \ {v} : Rest(w, v)[w][u] = pending[w][u]
         /\ \A x, u \in Windows : /\ Len(Rest(w, v)[x][u]) <= MaxPending
                                  /\ Rest(w, v)[x][u] # <<>> => pending[x][u] # <<>>
         /\ pending \in [Windows -> Row] /\ pending[w] \in Row
         /\ pending[w][v] \in Seq(Datagram) /\ isShow[w]
<1>1. /\ pending \in [Windows -> Row] /\ pending[w] \in Row
      /\ pending[w][v] \in Seq(Datagram) /\ isShow[w]
  BY DEF TypeOK, Row
<1>2. /\ Tail(pending[w][v]) \in Seq(Datagram)
      /\ Len(Tail(pending[w][v])) = Len(pending[w][v]) - 1
      /\ Len(pending[w][v]) \in Nat \ {0}
  BY <1>1, Tailed
<1>3. /\ Rest(w, v)[w] = Taking(pending[w], v)
      /\ \A u \in Windows \ {w} : Rest(w, v)[u] = pending[u]
      /\ DOMAIN Rest(w, v) = Windows
      /\ Rest(w, v) = [u \in Windows |-> Rest(w, v)[u]]
  BY <1>1 DEF Rest, Taking
<1>4. /\ Rest(w, v)[w][v] = Tail(pending[w][v])
      /\ \A u \in Windows \ {v} : Rest(w, v)[w][u] = pending[w][u]
      /\ Rest(w, v)[w] \in Row
  BY <1>1, <1>2, <1>3 DEF Row, Taking
<1>5. Rest(w, v) \in [Windows -> Row]
  BY <1>1, <1>3, <1>4
<1>6. \A x, u \in Windows : Len(pending[x][u]) <= MaxPending
  BY DEF TypeOK
<1>7. Len(Rest(w, v)[w][v]) <= MaxPending
  BY <1>2, <1>4, <1>6, SizeAssumption
<1>8. \A x, u \in Windows : /\ Len(Rest(w, v)[x][u]) <= MaxPending
                            /\ Rest(w, v)[x][u] # <<>> => pending[x][u] # <<>>
  <2>1. ASSUME NEW x \in Windows, NEW u \in Windows, x # w
        PROVE  Rest(w, v)[x][u] = pending[x][u]
    BY <1>3, <2>1
  <2>2. ASSUME NEW u \in Windows, u # v
        PROVE  Rest(w, v)[w][u] = pending[w][u]
    BY <1>4, <2>2
  <2> QED
    BY <1>6, <1>7, <2>1, <2>2
<1> QED
  BY <1>1, <1>3, <1>4, <1>5, <1>8

-----------------------------------------------------------------------------
(* Every step keeps the type invariant.                                    *)
LEMMA TypeStep == TypeOK /\ [Next]_vars => TypeOK'
<1> SUFFICES ASSUME TypeOK, [Next]_vars PROVE TypeOK'
  OBVIOUS
<1> DEFINE Kept(p) == /\ p \in [Windows -> Row]
                      /\ \A w, v \in Windows : Len(p[w][v]) <= MaxPending
           Heeded(p, sh) == \A w, v \in Windows : ~sh[w] => p[w][v] = <<>>
<1>1. /\ Kept(pending) /\ Heeded(pending, isShow)
      /\ Open \in SUBSET Windows /\ SizeAssumption
  BY SizeAssumption DEF TypeOK, Row, Open
<1>2. TypeOK' <=> /\ isShow' \in [Windows -> BOOLEAN]
                  /\ users' \in [Windows -> SUBSET Names]
                  /\ opens' \in 0 .. MaxOpens
                  /\ troubled' \in BOOLEAN /\ shared' \in BOOLEAN
                  /\ Kept(pending') /\ Heeded(pending', isShow')
  <2>1. TypeOK' <=> /\ isShow' \in [Windows -> BOOLEAN]
                    /\ pending' \in [Windows -> Row]
                    /\ users' \in [Windows -> SUBSET Names]
                    /\ opens' \in 0 .. MaxOpens
                    /\ troubled' \in BOOLEAN /\ shared' \in BOOLEAN
                    /\ \A w, v \in Windows : /\ Len(pending'[w][v]) <= MaxPending
                                             /\ ~isShow'[w] => pending'[w][v] = <<>>
    BY DEF TypeOK, Row
  <2> QED
    BY <2>1
<1>3. ASSUME NEW w \in Windows, NEW v \in Windows, pending[w][v] # <<>>
      PROVE  Kept(Rest(w, v)) /\ Heeded(Rest(w, v), isShow)
  <2>1. /\ Rest(w, v) \in [Windows -> Row]
        /\ \A x, u \in Windows : /\ Len(Rest(w, v)[x][u]) <= MaxPending
                                 /\ Rest(w, v)[x][u] # <<>> => pending[x][u] # <<>>
    BY <1>3, RestRow
  <2> QED
    BY <1>1, <2>1
<1>4. ASSUME NEW before, Kept(before), NEW w \in Windows, NEW d \in Datagram,
             NEW S \in SUBSET Windows, sndMsg(d, w, S, before),
             NEW sh, Heeded(before, sh), \A u \in S : sh[u]
      PROVE  Kept(pending') /\ Heeded(pending', sh) /\ troubled' \in BOOLEAN
  <2>1. /\ pending' \in [Windows -> Row]
        /\ \A x, u \in Windows : Len(pending'[x][u]) <= MaxPending
        /\ \A x \in Windows \ S : pending'[x] = before[x]
    BY <1>4, Broadcast DEF sndMsg
  <2>2. troubled' \in BOOLEAN
    BY <1>4 DEF sndMsg, TypeOK
  <2> QED
    BY <1>4, <2>1, <2>2
<1> HIDE DEF Kept, Heeded
<1>5. CASE UNCHANGED vars
  <2>1. /\ isShow' = isShow /\ pending' = pending /\ users' = users
        /\ opens' = opens /\ troubled' = troubled /\ shared' = shared
    BY <1>5 DEF vars
  <2> QED
    BY <1>1, <1>2, <2>1 DEF TypeOK
<1>6. ASSUME NEW w \in Windows, Widget(w) PROVE TypeOK'
  <2>1. /\ isShow' = [isShow EXCEPT ![w] = TRUE]
        /\ users' = [users EXCEPT ![w] = {}]
        /\ opens < MaxOpens /\ opens' = opens + 1
        /\ sndMsg("UsrEnter", w, Open \cup {w}, pending)
        /\ shared' \in BOOLEAN
    BY <1>6 DEF Widget, clicked, TypeOK
  <2>2. Open \cup {w} \in SUBSET Windows /\ \A u \in Open \cup {w} : isShow'[u]
    BY <1>1, <2>1 DEF Open, TypeOK
  <2>3. Heeded(pending, isShow')
    BY <1>1, <2>1 DEF Heeded, TypeOK
  <2>4. Kept(pending') /\ Heeded(pending', isShow') /\ troubled' \in BOOLEAN
    BY <1>1, <1>4, <2>1, <2>2, <2>3 DEF Datagram
  <2> QED
    BY <1>1, <1>2, <2>1, <2>4 DEF TypeOK
<1>7. ASSUME NEW w \in Windows, NEW v \in Windows, ReceiveNewUser(w, v)
      PROVE  TypeOK'
  <2>1. /\ pending[w][v] # <<>> /\ isShow' = isShow
        /\ users' = [users EXCEPT ![w] = @ \cup {Name(v)}]
        /\ opens' = opens /\ shared' = shared
        /\ sndMsg("UsrEnter", w, Open, Rest(w, v))
    BY <1>7 DEF ReceiveNewUser
  <2>2. Kept(pending') /\ Heeded(pending', isShow) /\ troubled' \in BOOLEAN
    BY <1>1, <1>3, <1>4, <2>1 DEF Datagram, Open
  <2> QED
    BY <1>2, <2>1, <2>2 DEF TypeOK, Names
<1>8. ASSUME NEW w \in Windows, NEW v \in Windows,
             ReceiveKnownUser(w, v) \/ usrLeft(w, v)
      PROVE  TypeOK'
  <2>1. /\ pending[w][v] # <<>> /\ isShow' = isShow /\ pending' = Rest(w, v)
        /\ users' = users \/ users' = [users EXCEPT ![w] = @ \ {Name(v)}]
        /\ opens' = opens /\ shared' = shared /\ troubled' = troubled
    BY <1>8 DEF ReceiveKnownUser, usrLeft
  <2> QED
    BY <1>2, <1>3, <2>1 DEF TypeOK
<1>9. ASSUME NEW w \in Windows, closeEvent(w) PROVE TypeOK'
  <2> DEFINE before == [pending EXCEPT ![w] = Nothing]
  <2>1. /\ isShow' = [isShow EXCEPT ![w] = FALSE]
        /\ users' = [users EXCEPT ![w] = {}]
        /\ sndMsg("UsrLeft", w, Open \ {w}, before)
        /\ opens' = opens /\ shared' = shared
    BY <1>9 DEF closeEvent
  <2>2. Kept(before) /\ Heeded(before, isShow')
    BY <1>1, <2>1 DEF Kept, Heeded, Nothing, Row, TypeOK
  <2>3. Open \ {w} \in SUBSET Windows /\ \A u \in Open \ {w} : isShow'[u]
    BY <1>1, <2>1 DEF Open, TypeOK
  <2> HIDE DEF before
  <2>4. Kept(pending') /\ Heeded(pending', isShow') /\ troubled' \in BOOLEAN
    BY <1>4, <2>1, <2>2, <2>3 DEF Datagram
  <2> QED
    BY <1>2, <2>1, <2>4 DEF TypeOK
<1>10. ASSUME NEW w \in Windows, Lose(w) PROVE TypeOK'
  <2>1. PICK v \in Windows : pending[w][v] # <<>> /\ pending' = Rest(w, v)
    BY <1>10 DEF Lose
  <2> QED
    BY <1>2, <1>3, <1>10, <2>1 DEF Lose, TypeOK
<1>11. ASSUME NEW h, Kill(h) PROVE TypeOK'
  <2> DEFINE killed == {w \in Open : Host(w) = h}
  <2>1. /\ isShow' = [w \in Windows |-> isShow[w] /\ w \notin killed]
        /\ users' = [w \in Windows |-> IF w \in killed THEN {} ELSE users[w]]
        /\ pending' = [w \in Windows |-> IF w \in killed THEN Nothing ELSE pending[w]]
        /\ troubled' = TRUE /\ opens' = opens /\ shared' = shared
    BY <1>11 DEF Kill
  <2> HIDE DEF killed
  <2>2. Kept(pending') /\ Heeded(pending', isShow')
    BY <1>1, <2>1 DEF Kept, Heeded, Nothing, Row, TypeOK
  <2> QED
    BY <1>2, <2>1, <2>2 DEF TypeOK
<1> QED
  BY <1>5, <1>6, <1>7, <1>8, <1>9, <1>10, <1>11 DEF Next, ReceiveMessage

-----------------------------------------------------------------------------
(* A new window is announced to all that are open, itself among them.      *)
LEMMA WidgetStep ==
  ASSUME TypeOK, TypeOK', Calm => Agreement, Calm', NEW x \in Windows, Widget(x)
  PROVE  Agreement'
<1>1. /\ Calm /\ ~InUse(x) /\ sndMsg("UsrEnter", x, Open \cup {x}, pending)
      /\ isShow' = [isShow EXCEPT ![x] = TRUE] /\ ~isShow[x]
      /\ users' = [users EXCEPT ![x] = {}]
  BY DEF Widget, clicked, Calm, sndMsg, TypeOK
<1>2. Agreement
  BY <1>1
<1>3. /\ pending \in [Windows -> Row] /\ users \in [Windows -> SUBSET Names]
      /\ \A w, u \in Windows : /\ Len(pending[w][u]) <= MaxPending
                               /\ w \notin Open => pending[w][u] = <<>>
      /\ \A w \in Windows : pending[w] \in Row
  BY DEF TypeOK, Row, Open
<1>4. /\ Open' = Open \cup {x} /\ Open' \in SUBSET Windows /\ x \notin Open
      /\ Open \in SUBSET Windows /\ OpenNames' = OpenNames \cup {Name(x)}
  BY <1>1 DEF Open, OpenNames, TypeOK
<1>5. /\ \A w, u \in Windows : u # x => pending'[w][u] = pending[w][u]
      /\ \A w \in Windows \ Open' : pending'[w] = pending[w]
      /\ \A w \in Open' : pending'[w] = Adding(pending[w], x, "UsrEnter")
  <2>1. /\ pending' = Delivered("UsrEnter", x, Open', pending)
        /\ \A w \in Open' : ~Full(w, x, pending)
        /\ "UsrEnter" \in Datagram /\ Open' \in SUBSET Windows
    BY <1>1, <1>4 DEF Calm, Datagram, sndMsg
  <2> QED
    BY <1>3, <2>1, Broadcast
<1>6. ASSUME NEW w \in Open'
      PROVE  /\ Lists(pending'[w], users'[w], Name(x))
             /\ \A n : n # Name(x) =>
                  (Lists(pending'[w], users'[w], n) <=> Lists(pending[w], users'[w], n))
  <2>1. pending'[w] = Adding(pending[w], x, "UsrEnter") /\ pending[w] \in Row
    BY <1>3, <1>4, <1>5
  <2>2. "UsrEnter" \in Datagram
    BY DEF Datagram
  <2>3. \A p \in Row : \A y : Lists(Adding(p, x, "UsrEnter"), y, Name(x))
    BY <2>2, Hearing
  <2>4. \A p \in Row : \A y, n : n # Name(x) =>
           (Lists(Adding(p, x, "UsrEnter"), y, n) <=> Lists(p, y, n))
    BY <2>2, Hearing
  <2> QED
    BY <2>1, <2>3, <2>4
<1>7. \A u \in Windows \ {x} : Name(u) = Name(x) => ~Present(u)
  BY <1>1 DEF InUse
<1>8. \A u \in Windows : Present(u)' => Present(u) \/ u = x
  BY <1>4, <1>5 DEF Present
<1>9. OneEach'
  BY <1>2, <1>7, <1>8 DEF OneEach, Agreement
<1>10. /\ \A w \in Open : users'[w] = users[w] /\ Name(w) # Name(x)
       /\ users'[x] = {}
       /\ Name(x) \notin OpenNames
  BY <1>1, <1>3, <1>4, <1>7 DEF Present, OpenNames
<1>11. NoGhosts'
  <2> SUFFICES ASSUME NEW w \in Open', NEW n \in Names \ OpenNames'
               PROVE  ~Lists(pending'[w], users'[w], n)
    BY DEF NoGhosts, WillList
  <2>1. n # Name(x) /\ n \notin OpenNames
    BY <1>4
  <2>2. ~Lists(pending[w], users'[w], n)
    <3>1. CASE w = x
      BY <1>3, <1>4, <1>10, <3>1 DEF Lists
    <3>2. CASE w \in Open
      <4>1. ~Lists(pending[w], users[w], n)
        BY <1>2, <2>1, <3>2 DEF NoGhosts, WillList, Agreement
      <4> QED
        BY <1>10, <3>2, <4>1
    <3> QED
      BY <1>4, <3>1, <3>2
  <2> QED
    BY <1>6, <2>1, <2>2
<1>12. \A v, w \in Open : Lists(pending'[v], users'[v], Name(w))
                            <=> Lists(pending[v], users[v], Name(w))
  BY <1>4, <1>6, <1>10
<1>13. OneWillList'
  <2> SUFFICES ASSUME NEW v \in Open', NEW w \in Open'
               PROVE  \/ Lists(pending'[v], users'[v], Name(w))
                      \/ Lists(pending'[w], users'[w], Name(v))
    BY DEF OneWillList, WillList
  <2>1. CASE v = x \/ w = x
    BY <1>6, <2>1
  <2>2. CASE v \in Open /\ w \in Open
    BY <1>2, <1>12, <2>2 DEF OneWillList, WillList, Agreement
  <2> QED
    BY <1>4, <2>1, <2>2
<1>14. WillAnswer'
  <2> SUFFICES ASSUME NEW v \in Open', NEW w \in Open'
               PROVE  \/ Lists(pending'[w], users'[w], Name(v))
                      \/ Name(w) \notin users'[v]
                      \/ WillUnlist(v, w)'
    BY DEF WillAnswer, WillList
  <2>1. CASE v = x
    BY <1>10, <2>1
  <2>2. CASE v \in Open /\ w = x
    <3>1. ~Lists(pending[v], users[v], Name(x))
      BY <1>2, <1>10, <2>2 DEF NoGhosts, WillList, Agreement, Names
    <3>2. \A u \in Windows \ {x} : Name(u) = Name(x) => pending[v][u] = <<>>
      BY <1>4, <1>7, <2>2 DEF Present
    <3>3. CASE pending[v][x] = <<>>
      <4>1. Silent(pending[v], Name(x))
        BY <3>2, <3>3 DEF Silent
      <4> QED
        BY <1>10, <2>2, <3>1, <4>1 DEF Lists
    <3>4. CASE pending[v][x] # <<>>
      <4> DEFINE q == pending[v][x]
      <4>1. q \in Seq(Datagram) /\ Last(q) # "UsrEnter"
        BY <1>3, <1>4, <2>2, <3>1, <3>4 DEF Lists, Row
      <4>2. Len(q) \in 1 .. Len(q) /\ q[Len(q)] = "UsrLeft"
        BY <3>4, <4>1, EmptySeq DEF Last, Datagram
      <4>3. pending'[v][x] = Append(q, "UsrEnter")
        BY <1>3, <1>4, <1>5, <2>2, Hearing DEF Datagram
      <4>4. Len(Append(q, "UsrEnter")) = Len(q) + 1
            /\ Append(q, "UsrEnter")[Len(q)] = "UsrLeft"
        BY <4>1, <4>2, Appended DEF Datagram
      <4>5. Len(q) \in 1 .. Len(pending'[v][x]) /\ pending'[v][x][Len(q)] = "UsrLeft"
        BY <4>1, <4>2, <4>3, <4>4
      <4> QED
        BY <2>2, <4>5 DEF WillUnlist
    <3> QED
      BY <3>3, <3>4
  <2>3. CASE v \in Open /\ w \in Open
    <3>1. pending'[v][w] = pending[v][w]
      BY <1>4, <1>5, <2>3
    <3>2. WillUnlist(v, w)' <=> WillUnlist(v, w)
      BY <3>1 DEF WillUnlist
    <3> QED
      BY <1>2, <1>10, <1>12, <2>3, <3>2 DEF WillAnswer, WillList, Agreement
  <2> QED
    BY <1>4, <2>1, <2>2, <2>3
<1> QED
  BY <1>9, <1>11, <1>13, <1>14 DEF Agreement

(* Reading a datagram changes nothing of what a window will list; and it   *)
(* lists the sender, or lists it no more.                                  *)
LEMMA ReadFirst ==
  ASSUME TypeOK, OneEach, NEW w \in Windows, NEW v \in Windows, pending[w][v] # <<>>,
         NEW t \in SUBSET Names,
         t = IF Received(w, v) = "UsrEnter" THEN users[w] \cup {Name(v)}
                                            ELSE users[w] \ {Name(v)}
  PROVE  \A n : Lists(Rest(w, v)[w], t, n) <=> Lists(pending[w], users[w], n)
<1>1. /\ Rest(w, v)[w] = Taking(pending[w], v)
      /\ pending[w] \in Row /\ users[w] \in SUBSET Names
  BY RestRow DEF TypeOK
<1>2. \A u \in Windows \ {v} : Name(u) = Name(v) => pending[w][u] = <<>>
  BY DEF OneEach, Present
<1> QED
  BY <1>1, <1>2, Reading DEF Received

(* What a window reads makes it forget a user who left, or is not about    *)
(* that; the rest is still to be read.                                     *)
LEMMA StillUnlists ==
  ASSUME TypeOK, NEW w \in Windows, NEW v \in Windows, pending[w][v] # <<>>,
         NEW t, Received(w, v) = "UsrLeft" => Name(v) \notin t, WillUnlist(w, v)
  PROVE  \/ Name(v) \notin t
         \/ \E k \in 1 .. Len(Rest(w, v)[w][v]) : Rest(w, v)[w][v][k] = "UsrLeft"
<1>1. PICK k \in 1 .. Len(pending[w][v]) : pending[w][v][k] = "UsrLeft"
  BY DEF WillUnlist
<1>2. pending[w][v] \in Seq(Datagram) /\ Rest(w, v)[w][v] = Tail(pending[w][v])
  BY RestRow
<1>3. CASE k = 1
  BY <1>1, <1>2, <1>3, Tailed DEF Received
<1>4. CASE k # 1
  <2>1. k \in 2 .. Len(pending[w][v])
    BY <1>1, <1>4
  <2>2. /\ k - 1 \in 1 .. Len(Tail(pending[w][v]))
        /\ Tail(pending[w][v])[k - 1] = "UsrLeft"
    BY <1>1, <1>2, <2>1, Tailed
  <2> QED
    BY <1>2, <2>2
<1> QED
  BY <1>3, <1>4

(* A window that hears of a new user lists it and announces itself again.  *)
LEMMA NewUserStep ==
  ASSUME TypeOK, TypeOK', Calm => Agreement, Calm', NEW x \in Windows, NEW y \in Windows,
         ReceiveNewUser(x, y)
  PROVE  Agreement'
<1>1. /\ Calm /\ pending[x][y] # <<>> /\ Received(x, y) = "UsrEnter"
      /\ sndMsg("UsrEnter", x, Open, Rest(x, y))
      /\ isShow' = isShow /\ users' = [users EXCEPT ![x] = @ \cup {Name(y)}]
  BY DEF ReceiveNewUser, Calm, sndMsg, TypeOK
<1>2. Agreement
  BY <1>1
<1> DEFINE before == Rest(x, y)
<1>3. /\ before \in [Windows -> Row]
      /\ \A w, u \in Windows : /\ Len(before[w][u]) <= MaxPending
                               /\ before[w][u] # <<>> => pending[w][u] # <<>>
      /\ \A w \in Windows \ {x} : before[w] = pending[w]
      /\ before[x][y] = Tail(pending[x][y])
      /\ \A u \in Windows \ {y} : before[x][u] = pending[x][u]
      /\ x \in Open /\ Open \in SUBSET Windows /\ Open' = Open /\ OpenNames' = OpenNames
      /\ pending[x][y] \in Seq(Datagram)
  BY <1>1, RestRow DEF Open, OpenNames
<1>4. /\ users \in [Windows -> SUBSET Names] /\ users' \in [Windows -> SUBSET Names]
      /\ users'[x] = users[x] \cup {Name(y)}
      /\ \A w \in Windows \ {x} : users'[w] = users[w]
  BY <1>1 DEF TypeOK
<1>5. \A n : Lists(before[x], users'[x], n) <=> Lists(pending[x], users[x], n)
  BY <1>1, <1>2, <1>4, ReadFirst DEF Agreement
<1> HIDE DEF before
<1>6. /\ \A w, u \in Windows : u # x => pending'[w][u] = before[w][u]
      /\ \A w \in Windows \ Open : pending'[w] = before[w]
      /\ \A w \in Open : pending'[w] = Adding(before[w], x, "UsrEnter")
      /\ "UsrEnter" \in Datagram
  <2>1. /\ pending' = Delivered("UsrEnter", x, Open, before)
        /\ \A w \in Open : ~Full(w, x, before)
        /\ "UsrEnter" \in Datagram
    BY <1>1 DEF Calm, Datagram, sndMsg, before
  <2> DEFINE after == Delivered("UsrEnter", x, Open, before)
  <2>2. /\ before \in [Windows -> Row] /\ Open \in SUBSET Windows
        /\ \A w, u \in Windows : Len(before[w][u]) <= MaxPending
    BY <1>3
  <2>3. /\ \A w, u \in Windows : u # x => after[w][u] = before[w][u]
        /\ \A w \in Windows \ Open : after[w] = before[w]
        /\ \A w \in Open : after[w] = Adding(before[w], x, "UsrEnter")
    BY <2>1, <2>2, Broadcast
  <2> HIDE DEF after
  <2>4. pending' = after
    BY <2>1 DEF after
  <2> QED
    BY <2>1, <2>3, <2>4
<1>7. /\ \A p \in Row : \A s : Lists(Adding(p, x, "UsrEnter"), s, Name(x))
      /\ \A p \in Row : \A s, n : n # Name(x) =>
           (Lists(Adding(p, x, "UsrEnter"), s, n) <=> Lists(p, s, n))
      /\ \A p \in Row : Adding(p, x, "UsrEnter")[x] = Append(p[x], "UsrEnter")
  BY <1>6, Hearing
<1>8. ASSUME NEW w \in Open
      PROVE  /\ Lists(pending'[w], users'[w], Name(x))
             /\ \A n : n # Name(x) =>
                  (Lists(pending'[w], users'[w], n) <=> Lists(pending[w], users[w], n))
  <2>1. pending'[w] = Adding(before[w], x, "UsrEnter") /\ before[w] \in Row
    BY <1>3, <1>6
  <2>2. \A n : Lists(before[w], users'[w], n) <=> Lists(pending[w], users[w], n)
    <3>1. CASE w = x
      BY <1>5, <3>1
    <3>2. CASE w # x
      <4>1. before[w] = pending[w] /\ users'[w] = users[w]
        BY <1>3, <1>4, <3>2
      <4> QED
        BY <4>1
    <3> QED
      BY <3>1, <3>2
  <2> QED
    BY <1>7, <2>1, <2>2
<1>9. OneEach'
  <2>1. \A u \in Windows : Present(u)' => Present(u)
    BY <1>3, <1>6 DEF Present
  <2> QED
    BY <1>2, <2>1 DEF OneEach, Agreement
<1>10. NoGhosts'
  <2>1. Name(x) \in OpenNames
    BY <1>3 DEF OpenNames
  <2> QED
    BY <1>2, <1>3, <1>8, <2>1 DEF NoGhosts, WillList, Agreement
<1>11. OneWillList'
  <2> SUFFICES ASSUME NEW v \in Open, NEW w \in Open
               PROVE  \/ Lists(pending'[v], users'[v], Name(w))
                      \/ Lists(pending'[w], users'[w], Name(v))
    BY <1>3 DEF OneWillList, WillList
  <2>1. CASE Name(v) = Name(x) \/ Name(w) = Name(x)
    BY <1>8, <2>1
  <2>2. CASE Name(v) # Name(x) /\ Name(w) # Name(x)
    BY <1>2, <1>8, <2>2 DEF OneWillList, WillList, Agreement
  <2> QED
    BY <2>1, <2>2
<1>12. WillAnswer'
  <2> SUFFICES ASSUME NEW v \in Open, NEW w \in Open
               PROVE  \/ Lists(pending'[w], users'[w], Name(v))
                      \/ Name(w) \notin users'[v]
                      \/ WillUnlist(v, w)'
    BY <1>3 DEF WillAnswer, WillList
  <2>1. CASE Name(v) = Name(x)
    BY <1>8, <2>1
  <2>2. CASE Name(v) # Name(x)
    <3>1. v # x /\ pending[v] \in Row /\ pending[v][w] \in Seq(Datagram)
      BY <1>3, <2>2 DEF TypeOK, Row
    <3>2. /\ before[v] = pending[v] /\ users'[v] = users[v]
          /\ pending'[v] = Adding(pending[v], x, "UsrEnter")
      BY <1>3, <1>4, <1>6, <3>1
    <3>3. CASE w = x
      <4>1. pending'[v][w] = Append(pending[v][w], "UsrEnter")
        BY <1>7, <3>1, <3>2, <3>3
      <4>2. WillUnlist(v, w) => WillUnlist(v, w)'
        BY <1>6, <3>1, <4>1, Appended DEF WillUnlist
      <4>3. Lists(pending[w], users[w], Name(v)) => Lists(pending'[w], users'[w], Name(v))
        BY <1>8, <2>2
      <4> QED
        BY <1>2, <3>2, <4>2, <4>3 DEF WillAnswer, WillList, Agreement
    <3>4. CASE w # x
      <4>1. pending'[v][w] = pending[v][w]
        BY <1>3, <1>6, <3>2, <3>4
      <4>2. WillUnlist(v, w)' <=> WillUnlist(v, w)
        BY <4>1 DEF WillUnlist
      <4>3. Lists(pending[w], users[w], Name(v)) => Lists(pending'[w], users'[w], Name(v))
        BY <1>8, <2>2
      <4> QED
        BY <1>2, <3>2, <4>2, <4>3 DEF WillAnswer, WillList, Agreement
    <3> QED
      BY <3>3, <3>4
  <2> QED
    BY <2>1, <2>2
<1> QED
  BY <1>9, <1>10, <1>11, <1>12 DEF Agreement

(* Any other datagram changes the window's own list, or nothing.           *)
LEMMA ReadStep ==
  ASSUME TypeOK, TypeOK', Calm => Agreement, Calm', NEW x \in Windows, NEW y \in Windows,
         ReceiveKnownUser(x, y) \/ usrLeft(x, y)
  PROVE  Agreement'
<1>1. /\ Calm /\ pending[x][y] # <<>> /\ pending' = Rest(x, y) /\ isShow' = isShow
      /\ \/ /\ Received(x, y) = "UsrEnter" /\ Name(y) \in users[x] /\ users' = users
         \/ /\ Received(x, y) = "UsrLeft"
            /\ users' = [users EXCEPT ![x] = @ \ {Name(y)}]
  BY DEF ReceiveKnownUser, usrLeft, Calm
<1>2. Agreement
  BY <1>1
<1>3. /\ \A w, u \in Windows : pending'[w][u] # <<>> => pending[w][u] # <<>>
      /\ \A w \in Windows \ {x} : pending'[w] = pending[w]
      /\ \A u \in Windows \ {y} : pending'[x][u] = pending[x][u]
      /\ x \in Open /\ Open \in SUBSET Windows /\ Open' = Open /\ OpenNames' = OpenNames
  BY <1>1, RestRow DEF Open, OpenNames
<1>4. /\ users' \in [Windows -> SUBSET Names]
      /\ users'[x] = IF Received(x, y) = "UsrEnter" THEN users[x] \cup {Name(y)}
                                                    ELSE users[x] \ {Name(y)}
      /\ \A w \in Windows \ {x} : users'[w] = users[w]
  BY <1>1 DEF TypeOK
<1>5. \A n : Lists(pending'[x], users'[x], n) <=> Lists(pending[x], users[x], n)
  BY <1>1, <1>2, <1>4, ReadFirst DEF Agreement
<1>6. \A w \in Windows : \A n : Lists(pending'[w], users'[w], n)
                                  <=> Lists(pending[w], users[w], n)
  <2> SUFFICES ASSUME NEW w \in Windows, w # x
               PROVE  pending'[w] = pending[w] /\ users'[w] = users[w]
    BY <1>5
  <2> QED
    BY <1>3, <1>4
<1>7. OneEach'
  <2>1. \A u \in Windows : Present(u)' => Present(u)
    BY <1>3 DEF Present
  <2> QED
    BY <1>2, <2>1 DEF OneEach, Agreement
<1>8. NoGhosts' /\ OneWillList'
  BY <1>2, <1>3, <1>6 DEF NoGhosts, OneWillList, WillList, Agreement
<1>9. WillAnswer'
  <2> SUFFICES ASSUME NEW v \in Open, NEW w \in Open, ~Lists(pending[w], users[w], Name(v))
               PROVE  Name(w) \notin users'[v] \/ WillUnlist(v, w)'
    BY <1>3, <1>6 DEF WillAnswer, WillList
  <2>1. Name(w) \notin users[v] \/ WillUnlist(v, w)
    BY <1>2 DEF WillAnswer, WillList, Agreement
  <2>2. CASE Name(w) \notin users[v]
    BY <1>1, <1>3, <1>4, <2>2
  <2>3. CASE WillUnlist(v, w) /\ v = x /\ w = y
    <3>1. Received(x, y) = "UsrLeft" => Name(y) \notin users'[x]
      BY <1>4
    <3> QED
      BY <1>1, <1>3, <2>3, <3>1, StillUnlists DEF WillUnlist
  <2>4. CASE WillUnlist(v, w) /\ ~(v = x /\ w = y)
    <3>1. pending'[v][w] = pending[v][w]
      BY <1>3, <2>4
    <3> QED
      BY <2>4, <3>1 DEF WillUnlist
  <2> QED
    BY <2>1, <2>2, <2>3, <2>4
<1> QED
  BY <1>7, <1>8, <1>9 DEF Agreement

(* A window that closes says so to all that stay open.                     *)
LEMMA CloseStep ==
  ASSUME TypeOK, TypeOK', Calm => Agreement, Calm', NEW x \in Windows, closeEvent(x)
  PROVE  Agreement'
<1> DEFINE before == [pending EXCEPT ![x] = Nothing]
<1>1. /\ Calm /\ isShow[x] /\ sndMsg("UsrLeft", x, Open \ {x}, before)
      /\ isShow' = [isShow EXCEPT ![x] = FALSE]
      /\ users' = [users EXCEPT ![x] = {}]
  BY DEF closeEvent, Calm, sndMsg, TypeOK
<1>2. Agreement
  BY <1>1
<1>3. /\ before \in [Windows -> Row]
      /\ \A w, u \in Windows : /\ Len(before[w][u]) <= MaxPending
                               /\ before[w][u] # <<>> => pending[w][u] # <<>>
      /\ \A w \in Windows \ {x} : before[w] = pending[w] /\ pending[w] \in Row
  BY SizeAssumption DEF TypeOK, Row, Nothing
<1>4. /\ x \in Open /\ Open \in SUBSET Windows /\ Open' = Open \ {x}
      /\ \A w \in Windows \ {x} : users'[w] = users[w]
  BY <1>1 DEF Open, TypeOK
<1> HIDE DEF before
<1>5. /\ \A w, u \in Windows : u # x => pending'[w][u] = before[w][u]
      /\ \A w \in Windows \ Open' : pending'[w] = before[w]
      /\ \A w \in Open' : pending'[w] = Adding(pending[w], x, "UsrLeft")
      /\ "UsrLeft" \in Datagram
  <2>1. /\ pending' = Delivered("UsrLeft", x, Open', before)
        /\ \A w \in Open' : ~Full(w, x, before)
        /\ "UsrLeft" \in Datagram /\ Open' \in SUBSET Windows
    BY <1>1, <1>4 DEF Calm, Datagram, sndMsg
  <2>2. \A w \in Open' : before[w] = pending[w]
    BY <1>3, <1>4
  <2>3. /\ \A w, u \in Windows : u # x => pending'[w][u] = before[w][u]
        /\ \A w \in Windows \ Open' : pending'[w] = before[w]
        /\ \A w \in Open' : pending'[w] = Adding(before[w], x, "UsrLeft")
    BY <1>3, <2>1, Broadcast
  <2> QED
    BY <2>1, <2>2, <2>3
<1>6. \A u \in Windows \ {x} : Name(u) = Name(x) => ~Present(u)
  BY <1>2, <1>4 DEF OneEach, Present, Agreement
<1>7. ASSUME NEW w \in Open'
      PROVE  /\ ~Lists(pending'[w], users'[w], Name(x))
             /\ \A n : n # Name(x) =>
                  (Lists(pending'[w], users'[w], n) <=> Lists(pending[w], users[w], n))
  <2>1. /\ pending'[w] = Adding(pending[w], x, "UsrLeft") /\ pending[w] \in Row
        /\ users'[w] = users[w]
    BY <1>3, <1>4, <1>5
  <2>2. \A u \in Windows \ {x} : Name(u) = Name(x) => pending[w][u] = <<>>
    BY <1>4, <1>6 DEF Present
  <2>3. \A p \in Row : \A s, n : n # Name(x) =>
           (Lists(Adding(p, x, "UsrLeft"), s, n) <=> Lists(p, s, n))
    BY <1>5, Hearing
  <2>4. ~Lists(Adding(pending[w], x, "UsrLeft"), users[w], Name(x))
    BY <1>5, <2>1, <2>2, Hearing
  <2> QED
    BY <2>1, <2>3, <2>4
<1>8. OneEach'
  <2>1. \A u \in Windows : Present(u)' => Present(u)
    BY <1>3, <1>4, <1>5 DEF Present
  <2> QED
    BY <1>2, <2>1 DEF OneEach, Agreement
<1>9. NoGhosts'
  <2> SUFFICES ASSUME NEW w \in Open', NEW n \in Names \ OpenNames', n # Name(x)
               PROVE  ~Lists(pending[w], users[w], n)
    BY <1>7 DEF NoGhosts, WillList
  <2>1. n \notin OpenNames
    BY <1>4 DEF OpenNames
  <2> QED
    BY <1>2, <1>4, <2>1 DEF NoGhosts, WillList, Agreement
<1>10. \A w \in Open' : Name(w) # Name(x)
  BY <1>4, <1>6 DEF Present
<1>11. \A v, w \in Open' : Lists(pending'[v], users'[v], Name(w))
                             <=> Lists(pending[v], users[v], Name(w))
  BY <1>7, <1>10
<1>12. OneWillList'
  BY <1>2, <1>4, <1>11 DEF OneWillList, WillList, Agreement
<1>13. \A v, w \in Open' : users'[v] = users[v] /\ pending'[v][w] = pending[v][w]
  BY <1>3, <1>4, <1>5
<1>14. \A v, w \in Open' : WillUnlist(v, w)' <=> WillUnlist(v, w)
  BY <1>13 DEF WillUnlist
<1>15. WillAnswer'
  BY <1>2, <1>4, <1>11, <1>13, <1>14 DEF WillAnswer, WillList, Agreement
<1> QED
  BY <1>8, <1>9, <1>12, <1>15 DEF Agreement

-----------------------------------------------------------------------------
(* The invariant holds at first, and no step breaks it: a step that loses  *)
(* a datagram or kills a program ends the calm.                            *)
LEMMA InitIInv == Init => IInv
<1> SUFFICES ASSUME Init PROVE IInv
  OBVIOUS
<1>1. Nothing \in [Windows -> Seq(Datagram)] /\ \A v \in Windows : Nothing[v] = <<>>
  BY DEF Nothing
<1>2. TypeOK
  <2>1. pending \in [Windows -> [Windows -> Seq(Datagram)]]
    BY <1>1 DEF Init
  <2>2. /\ \A w, v \in Windows : pending[w][v] = <<>>
        /\ Len(<<>>) = 0 /\ 0 <= MaxPending /\ 0 \in 0 .. MaxOpens
    BY <1>1, SizeAssumption DEF Init
  <2>3. isShow \in [Windows -> BOOLEAN] /\ users \in [Windows -> SUBSET Names]
    BY DEF Init
  <2>4. /\ opens \in 0 .. MaxOpens /\ troubled \in BOOLEAN /\ shared \in BOOLEAN
        /\ \A w, v \in Windows : Len(pending[w][v]) <= MaxPending
    <3>1. \A w, v \in Windows : Len(pending[w][v]) = 0
      BY <2>2
    <3> QED
      BY <2>2, <3>1 DEF Init
  <2> QED
    BY <2>1, <2>2, <2>3, <2>4 DEF TypeOK
<1>3. Open = {} /\ \A v \in Windows : ~Present(v)
  BY <1>1 DEF Init, Open, Present
<1> QED
  BY <1>2, <1>3 DEF IInv, Agreement, OneEach, NoGhosts, OneWillList, WillAnswer

LEMMA NextIInv == IInv /\ [Next]_vars => IInv'
<1> SUFFICES ASSUME IInv, [Next]_vars PROVE IInv'
  OBVIOUS
<1>1. TypeOK /\ TypeOK' /\ (Calm => Agreement)
  BY TypeStep DEF IInv
<1> SUFFICES ASSUME Calm' PROVE Agreement'
  BY <1>1 DEF IInv
<1>2. CASE UNCHANGED vars
  <2>1. /\ isShow' = isShow /\ pending' = pending /\ users' = users
        /\ troubled' = troubled /\ shared' = shared
    BY <1>2 DEF vars
  <2>2. Agreement
    BY <1>1, <2>1 DEF Calm
  <2>3. Open' = Open /\ OpenNames' = OpenNames
    BY <2>1 DEF Open, OpenNames
  <2>4. \A v \in Windows : Present(v)' <=> Present(v)
    BY <2>1, <2>3 DEF Present
  <2>5. \A v, w \in Windows : WillUnlist(v, w)' <=> WillUnlist(v, w)
    BY <2>1 DEF WillUnlist
  <2>6. OneEach'
    BY <2>2, <2>4 DEF OneEach, Agreement
  <2>7. NoGhosts' /\ OneWillList'
    BY <2>1, <2>2, <2>3 DEF NoGhosts, OneWillList, WillList, Agreement
  <2>8. WillAnswer'
    BY <2>1, <2>2, <2>3, <2>5 DEF WillAnswer, WillList, Agreement, Open
  <2> QED
    BY <2>6, <2>7, <2>8 DEF Agreement
<1>3. ASSUME NEW x \in Windows, Widget(x) PROVE Agreement'
  BY <1>1, <1>3, WidgetStep
<1>4. ASSUME NEW x \in Windows, NEW y \in Windows, ReceiveNewUser(x, y)
      PROVE  Agreement'
  BY <1>1, <1>4, NewUserStep
<1>5. ASSUME NEW x \in Windows, NEW y \in Windows,
             ReceiveKnownUser(x, y) \/ usrLeft(x, y)
      PROVE  Agreement'
  BY <1>1, <1>5, ReadStep
<1>6. ASSUME NEW x \in Windows, closeEvent(x) PROVE Agreement'
  BY <1>1, <1>6, CloseStep
<1>7. ASSUME NEW x \in Windows, Lose(x) \/ Kill(Host(x)) PROVE FALSE
  BY <1>7 DEF Lose, Kill, Calm
<1> QED
  BY <1>2, <1>3, <1>4, <1>5, <1>6, <1>7 DEF Next, ReceiveMessage

-----------------------------------------------------------------------------
(* Every reachable state keeps the ranges of the variables, and a window   *)
(* that is closed has nothing to read, whatever is lost or killed.         *)
THEOREM TypeCorrect == Spec => []TypeOK
<1>1. Init => TypeOK
  BY InitIInv DEF IInv
<1> QED
  BY <1>1, TypeStep, PTL DEF Spec

(* When nothing was lost or killed, no name was taken while another host   *)
(* used it and nothing is under way, every open window lists exactly the   *)
(* users whose windows are open: for any windows, in whatever order they   *)
(* open and close, and in whatever order what several of them have sent is *)
(* read.                                                                   *)
THEOREM QuietWindowsAgree == Spec => []QuietAgrees
<1>1. IInv => QuietAgrees
  <2> SUFFICES ASSUME IInv, Quiet, Calm, NEW w \in Open
               PROVE  users[w] = {Name(v) : v \in Open}
    BY DEF QuietAgrees, Calm
  <2>1. /\ TypeOK /\ NoGhosts /\ OneWillList /\ WillAnswer
        /\ Open \subseteq Windows /\ users[w] \subseteq Names
    BY DEF IInv, Agreement, Open, TypeOK
  <2>2. \A x \in Open : \A n : WillList(x, n) <=> n \in users[x]
    BY <2>1 DEF Quiet, WillList, Lists, Silent
  <2>3. \A x, v \in Open : ~WillUnlist(x, v)
    BY <2>1 DEF Quiet, WillUnlist
  <2>4. \A v \in Open : Name(v) \in users[w]
    BY <2>1, <2>2, <2>3 DEF OneWillList, WillAnswer
  <2>5. \A n \in Names : n \in users[w] => n \in OpenNames
    BY <2>1, <2>2 DEF NoGhosts
  <2> QED
    BY <2>1, <2>4, <2>5 DEF OpenNames
<1> QED
  BY <1>1, InitIInv, NextIInv, PTL DEF Spec
=============================================================================
