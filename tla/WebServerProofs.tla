-------------------------- MODULE WebServerProofs --------------------------
(***************************************************************************)
(* What holds of the loop of web_server/epoll_server.c for any number of   *)
(* clients, descriptors and segments, whatever http_request answers: no    *)
(* edge is lost, no event outlives its connection, and no client is cut    *)
(* off.                                                                    *)
(***************************************************************************)
EXTENDS WebServer, SequenceTheorems, TLAPS

(* A client has one connection: it is yet to come, in the backlog, or      *)
(* accepted, or it is over.                                                *)
OneConnection ==
  /\ \A f, g \in Fds : open[f] = open[g] /\ open[f] # NoClient => f = g
  /\ \A j, k \in DOMAIN backlog : backlog[j] = backlog[k] => j = k
  /\ \A k \in DOMAIN backlog : /\ peer[backlog[k]] # "idle"
                               /\ \A f \in Fds : open[f] # backlog[k]
  /\ \A f \in Fds : open[f] # NoClient => peer[open[f]] # "idle"

(* The ready list and the batch hold what is open, the batch is used up    *)
(* before the next epoll_wait, and do_read's descriptor has left it.       *)
EventsOK == /\ \A f \in edge : open[f] # NoClient
            /\ lfd \in batch => backlog # <<>>
            /\ pc = "wait" => batch = {}
            /\ InRead => cfd \notin batch

(* Where do_read stands says what it has seen: it starts on a connection   *)
(* that is readable, and ends with an answer, after the end of file, or    *)
(* when stat has found what http_request passes over.                      *)
ReadOK == /\ pc = "line" /\ line = <<>> => Readable(Peer)
          /\ pc = "send" => todo # <<>>
          /\ pc = "disconnect" => \/ answer[Peer] # <<>> \/ peer[Peer] = "fin"
                                \/ stat = "other"

IInv == /\ TypeOK /\ OneConnection /\ EventsOK /\ ReadOK
        /\ NoInputForgotten /\ EventsStayValid

-----------------------------------------------------------------------------
(* The conjuncts of TypeOK: connections, what do_read holds, and where.    *)
Heads == {"asked", "404", "other"}
Said == {"none", "known", "failed", "other"}
Places == {"wait", "handle", "line", "drain", "request", "send", "disconnect", "exited"}
ConnectionsTypeOK == /\ peer \in [Clients -> {"idle", "up", "fin"}]
                     /\ sent \in [Clients -> 0 .. MaxSegments] /\ began \subseteq Clients
                     /\ backlog \in Seq(Clients)
                     /\ open \in [Fds -> Clients \cup {NoClient}]
InputTypeOK == input \in [Clients -> Seq(Tokens)]
EventsTypeOK == edge \subseteq Fds /\ batch \subseteq Fds \cup {lfd}
AnswersTypeOK == todo \in Seq(Heads) /\ answer \in [Clients -> Seq(Heads)]
ReadTypeOK == /\ cfd \in Fds \cup {lfd} /\ line \in Seq(Tokens) /\ pc \in Places
              /\ stat \in Said
              /\ InRead => cfd \in Fds /\ open[cfd] # NoClient

LEMMA TypeOKParts ==
  /\ TypeOK <=> /\ ConnectionsTypeOK /\ InputTypeOK /\ EventsTypeOK /\ AnswersTypeOK
                /\ ReadTypeOK
  /\ TypeOK' <=> /\ ConnectionsTypeOK' /\ InputTypeOK' /\ EventsTypeOK' /\ AnswersTypeOK'
                 /\ ReadTypeOK'
BY DEF TypeOK, ConnectionsTypeOK, InputTypeOK, EventsTypeOK, AnswersTypeOK, ReadTypeOK,
       Heads, Places, Said

LEMMA InitIInv == Init => IInv
<1> SUFFICES ASSUME Init PROVE IInv
  OBVIOUS
<1> USE DescriptorAssumption, ClientAssumption DEF Init
<1>1. ConnectionsTypeOK
  BY EmptySeq DEF ConnectionsTypeOK
<1>2. InputTypeOK /\ EventsTypeOK /\ AnswersTypeOK /\ ReadTypeOK
  BY EmptySeq DEF InputTypeOK, EventsTypeOK, AnswersTypeOK, ReadTypeOK, Places, Said,
                      InRead
<1>3. OneConnection /\ EventsOK /\ ReadOK
  BY DEF OneConnection, EventsOK, ReadOK, InRead
<1>4. NoInputForgotten /\ EventsStayValid
  BY DEF NoInputForgotten, EventsStayValid
<1> QED
  BY <1>1, <1>2, <1>3, <1>4, TypeOKParts DEF IInv

-----------------------------------------------------------------------------
(* What a client sends, and its end of file, is an event for its           *)
(* descriptor, or will be found when it is accepted.                       *)
LEMMA ConnectIInv == ASSUME NEW c \in Clients, IInv, Connect(c),
                            UNCHANGED <<open, batch, cfd, line, stat, todo, answer, pc>>
                     PROVE  IInv'
<1> USE DEF IInv
<1>1. /\ ConnectionsTypeOK /\ InputTypeOK /\ EventsTypeOK /\ AnswersTypeOK /\ ReadTypeOK
  BY TypeOKParts
<1>2. /\ UNCHANGED <<sent, began, input, edge, open, batch, cfd, line, stat, todo, answer, pc>>
      /\ peer[c] = "idle" /\ backlog' = Append(backlog, c)
      /\ \A d \in Clients : peer'[d] = IF d = c THEN "up" ELSE peer[d]
  BY <1>1 DEF Connect, ConnectionsTypeOK
<1>3. ConnectionsTypeOK'
  BY <1>1, <1>2, AppendProperties DEF ConnectionsTypeOK, Connect
<1>4. InputTypeOK' /\ EventsTypeOK' /\ AnswersTypeOK' /\ ReadTypeOK'
  BY <1>1, <1>2 DEF InputTypeOK, EventsTypeOK, AnswersTypeOK, ReadTypeOK, InRead
<1>5. /\ DOMAIN backlog' = 1 .. Len(backlog) + 1 /\ DOMAIN backlog = 1 .. Len(backlog)
      /\ Len(backlog) \in Nat /\ backlog'[Len(backlog) + 1] = c /\ backlog' # <<>>
      /\ \A k \in 1 .. Len(backlog) : backlog'[k] = backlog[k]
  BY <1>1, <1>2, AppendProperties, EmptySeq DEF ConnectionsTypeOK
<1>6. /\ \A k \in DOMAIN backlog : backlog[k] # c /\ backlog[k] \in Clients
      /\ \A f \in Fds : open[f] # c
  BY <1>1, <1>2, ClientAssumption DEF OneConnection, ConnectionsTypeOK
<1>7. OneConnection'
  BY <1>1, <1>2, <1>5, <1>6 DEF OneConnection, ConnectionsTypeOK
<1>8. \A d \in Clients : Readable(d)' <=> Readable(d)
  BY <1>2 DEF Readable
<1>9. EventsOK' /\ NoInputForgotten'
  BY <1>2, <1>5 DEF EventsOK, InRead, NoInputForgotten, Alive
<1>10. EventsStayValid'
  BY <1>1, <1>2, <1>8 DEF EventsStayValid, ConnectionsTypeOK, EventsTypeOK
<1>11. ReadOK'
  BY <1>1, <1>2, <1>8 DEF ReadOK, Peer, ReadTypeOK, InRead, ConnectionsTypeOK
<1> QED
  BY <1>3, <1>4, <1>7, <1>9, <1>10, <1>11, TypeOKParts

LEMMA SendIInv == ASSUME NEW c \in Clients, NEW s \in Segments, IInv, SendSegment(c, s),
                         UNCHANGED <<open, batch, cfd, line, stat, todo, answer, pc>>
                  PROVE  IInv'
<1> USE DEF IInv
<1>1. /\ ConnectionsTypeOK /\ InputTypeOK /\ EventsTypeOK /\ AnswersTypeOK /\ ReadTypeOK
  BY TypeOKParts
<1>2. s \in Seq(Tokens)
  <2>1. {"get", "rest"} = Tokens
    BY DEF Tokens
  <2>2. /\ <<"get", "rest">> \in Seq({"get", "rest"})
        /\ <<"get">> \in Seq({"get", "rest"}) /\ <<"rest">> \in Seq({"get", "rest"})
    OBVIOUS
  <2>3. s \in Seq({"get", "rest"})
    BY <2>2 DEF Segments, Whole
  <2> QED
    BY <2>1, <2>3
<1>3. /\ UNCHANGED <<peer, backlog, open, batch, cfd, line, stat, todo, answer, pc>>
      /\ edge' = edge \cup FdOf(c) /\ input' = [input EXCEPT ![c] = @ \o s]
  BY DEF SendSegment
<1>4. ConnectionsTypeOK'
  <2>1. sent[c] \in 0 .. MaxSegments /\ sent[c] + 1 \in 0 .. MaxSegments
    BY <1>1, ClientAssumption DEF ConnectionsTypeOK, SendSegment
  <2>2. sent' \in [Clients -> 0 .. MaxSegments] /\ began' \subseteq Clients
    BY <1>1, <2>1 DEF ConnectionsTypeOK, SendSegment
  <2> QED
    BY <1>1, <1>3, <2>2 DEF ConnectionsTypeOK
<1>5. input[c] \o s \in Seq(Tokens) /\ (input[c] # <<>> => input[c] \o s # <<>>)
  <2>1. input[c] \in Seq(Tokens)
    BY <1>1 DEF InputTypeOK
  <2> QED
    BY <1>2, <2>1, ConcatProperties, EmptySeq
<1>6. InputTypeOK'
  BY <1>1, <1>3, <1>5 DEF InputTypeOK
<1>7. EventsTypeOK' /\ AnswersTypeOK' /\ ReadTypeOK'
  BY <1>1, <1>3 DEF EventsTypeOK, AnswersTypeOK, ReadTypeOK, InRead, FdOf
<1>8. \A d \in Clients : /\ d # c => input'[d] = input[d]
                         /\ Readable(d) => Readable(d)'
  BY <1>1, <1>3, <1>5 DEF InputTypeOK, Readable
<1>9. OneConnection' /\ EventsOK'
  BY <1>3, ClientAssumption DEF OneConnection, EventsOK, InRead, FdOf
<1>10. ReadOK'
  BY <1>1, <1>3, <1>8 DEF ReadOK, Peer, ReadTypeOK, InRead, ConnectionsTypeOK
<1>11. EventsStayValid'
  BY <1>1, <1>3, <1>8 DEF EventsStayValid, ConnectionsTypeOK, EventsTypeOK
<1>12. NoInputForgotten'
  BY <1>1, <1>3, <1>8 DEF NoInputForgotten, Alive, FdOf, ConnectionsTypeOK
<1> QED
  BY <1>4, <1>6, <1>7, <1>9, <1>10, <1>11, <1>12, TypeOKParts

LEMMA HangupIInv == ASSUME NEW c \in Clients, IInv, Hangup(c),
                           UNCHANGED <<open, batch, cfd, line, stat, todo, answer, pc>>
                    PROVE  IInv'
<1> USE DEF IInv
<1>1. /\ ConnectionsTypeOK /\ InputTypeOK /\ EventsTypeOK /\ AnswersTypeOK /\ ReadTypeOK
  BY TypeOKParts
<1>2. /\ UNCHANGED <<sent, began, backlog, input, open, batch, cfd, line, stat, todo, answer, pc>>
      /\ edge' = edge \cup FdOf(c) /\ peer' = [peer EXCEPT ![c] = "fin"]
      /\ \A d \in Clients : peer'[d] = IF d = c THEN "fin" ELSE peer[d]
  BY <1>1 DEF Hangup, ConnectionsTypeOK
<1>3. ConnectionsTypeOK'
  BY <1>1, <1>2 DEF ConnectionsTypeOK
<1>4. InputTypeOK' /\ EventsTypeOK' /\ AnswersTypeOK' /\ ReadTypeOK'
  BY <1>1, <1>2 DEF InputTypeOK, EventsTypeOK, AnswersTypeOK, ReadTypeOK, InRead, FdOf
<1>5. \A d \in Clients : Readable(d) => Readable(d)'
  BY <1>2 DEF Readable
<1>6. OneConnection'
  BY <1>1, <1>2 DEF OneConnection, ConnectionsTypeOK
<1>7. EventsOK' /\ NoInputForgotten'
  BY <1>2, ClientAssumption DEF EventsOK, InRead, FdOf, NoInputForgotten, Alive
<1>8. ReadOK'
  BY <1>1, <1>2, <1>5 DEF ReadOK, Peer, ReadTypeOK, InRead, ConnectionsTypeOK
<1>9. EventsStayValid'
  BY <1>1, <1>2, <1>5 DEF EventsStayValid, ConnectionsTypeOK, EventsTypeOK
<1> QED
  BY <1>3, <1>4, <1>6, <1>7, <1>8, <1>9, TypeOKParts

-----------------------------------------------------------------------------
(* epoll_run outside do_read                                               *)
LEMMA AcceptIInv == IInv /\ do_accept => IInv'
<1> SUFFICES ASSUME IInv, do_accept PROVE IInv'
  OBVIOUS
<1> USE DEF IInv
<1>1. /\ ConnectionsTypeOK /\ InputTypeOK /\ EventsTypeOK /\ AnswersTypeOK /\ ReadTypeOK
  BY TypeOKParts
<1> DEFINE c == Head(backlog)
<1>2. PICK f \in FreeFds : /\ open' = [open EXCEPT ![f] = c]
                           /\ edge' = edge \cup IF Readable(c) THEN {f} ELSE {}
  BY DEF do_accept
<1>3. /\ f \in Fds /\ open[f] = NoClient /\ lfd \in batch /\ batch' = batch \ {lfd}
      /\ pc = "handle" /\ backlog' = Tail(backlog)
      /\ UNCHANGED <<peer, sent, began, input, cfd, line, stat, todo, answer, pc>>
      /\ \A g \in Fds : open'[g] = IF g = f THEN c ELSE open[g]
  BY <1>1, <1>2 DEF do_accept, FreeFds, ConnectionsTypeOK
<1>4. /\ c = backlog[1] /\ c \in Clients
      /\ Tail(backlog) \in Seq(Clients) /\ DOMAIN Tail(backlog) = 1 .. Len(backlog) - 1
      /\ \A k \in 1 .. Len(backlog) - 1 : Tail(backlog)[k] = backlog[k + 1]
      /\ DOMAIN backlog = 1 .. Len(backlog) /\ Len(backlog) \in Nat /\ 1 \in DOMAIN backlog
  BY <1>1, <1>3, HeadTailProperties, EmptySeq DEF EventsOK, ConnectionsTypeOK
<1> HIDE DEF c
<1>5. ConnectionsTypeOK'
  BY <1>1, <1>2, <1>3, <1>4 DEF ConnectionsTypeOK
<1>6. InputTypeOK' /\ EventsTypeOK' /\ AnswersTypeOK' /\ ReadTypeOK'
  BY <1>1, <1>2, <1>3 DEF InputTypeOK, EventsTypeOK, AnswersTypeOK, ReadTypeOK, InRead
<1>7. OneConnection'
  <2>1. \A g, h \in Fds : open'[g] = open'[h] /\ open'[g] # NoClient => g = h
    BY <1>3, <1>4 DEF OneConnection
  <2>2. \A j, k \in DOMAIN backlog' : backlog'[j] = backlog'[k] => j = k
    BY <1>3, <1>4 DEF OneConnection
  <2>3. \A k \in DOMAIN backlog' : /\ peer'[backlog'[k]] # "idle"
                                   /\ \A g \in Fds : open'[g] # backlog'[k]
    BY <1>3, <1>4 DEF OneConnection
  <2>4. \A g \in Fds : open'[g] # NoClient => peer'[open'[g]] # "idle"
    BY <1>3, <1>4 DEF OneConnection
  <2> QED
    BY <2>1, <2>2, <2>3, <2>4 DEF OneConnection
<1>8. EventsOK' /\ ReadOK'
  BY <1>1, <1>2, <1>3, <1>4, ClientAssumption DEF EventsOK, EventsTypeOK, InRead, ReadOK
<1>9. f \notin batch /\ f # lfd
  BY <1>3, DescriptorAssumption DEF EventsStayValid
<1>10. EventsStayValid'
  BY <1>1, <1>3, <1>9 DEF EventsStayValid, EventsTypeOK, Readable
<1>11. NoInputForgotten'
  <2> SUFFICES ASSUME NEW g \in Fds, open'[g] # NoClient, input[open'[g]] # <<>>
               PROVE  g \in edge' \cup batch'
    BY <1>3 DEF NoInputForgotten, Alive
  <2>1. CASE g = f
    BY <1>2, <1>3, <2>1 DEF Readable
  <2>2. CASE g # f
    BY <1>2, <1>3, <2>2, DescriptorAssumption DEF NoInputForgotten, Alive
  <2> QED
    BY <2>1, <2>2
<1> QED
  BY <1>5, <1>6, <1>7, <1>8, <1>10, <1>11, TypeOKParts

LEMMA LoopIInv == IInv /\ (EpollWait \/ BatchDone \/ accept_error \/ do_read) => IInv'
<1> SUFFICES ASSUME IInv, EpollWait \/ BatchDone \/ accept_error \/ do_read
             PROVE  IInv'
  OBVIOUS
<1> USE DEF IInv, clientVars
<1>1. /\ ConnectionsTypeOK /\ InputTypeOK /\ EventsTypeOK /\ AnswersTypeOK /\ ReadTypeOK
  BY TypeOKParts
<1>2. UNCHANGED <<peer, sent, began, backlog, input, open, todo, answer>>
  BY DEF EpollWait, BatchDone, accept_error, do_read
<1>3. ConnectionsTypeOK' /\ InputTypeOK' /\ AnswersTypeOK' /\ OneConnection'
  BY <1>1, <1>2 DEF ConnectionsTypeOK, InputTypeOK, AnswersTypeOK, OneConnection
<1>4. CASE EpollWait
  <2>1. /\ pc = "wait" /\ pc' = "handle" /\ edge' = {} /\ UNCHANGED <<cfd, line, stat>>
        /\ \A f : f \in batch' <=> \/ f \in edge /\ Readable(open[f])
                                   \/ f = lfd /\ backlog # <<>>
    BY <1>4 DEF EpollWait
  <2>2. EventsTypeOK' /\ ReadTypeOK'
    BY <1>1, <1>2, <2>1 DEF EventsTypeOK, ReadTypeOK, Places, InRead
  <2>3. EventsOK' /\ ReadOK'
    BY <1>1, <1>2, <2>1, DescriptorAssumption DEF EventsOK, EventsTypeOK, ReadOK, InRead
  <2>4. EventsStayValid'
    BY <1>1, <1>2, <2>1 DEF EventsOK, EventsStayValid, Readable
  <2>5. NoInputForgotten'
    BY <1>2, <2>1 DEF EventsOK, NoInputForgotten, Alive, Readable
  <2> QED
    BY <1>3, <2>2, <2>3, <2>4, <2>5, TypeOKParts
<1>5. CASE BatchDone \/ accept_error
  <2>1. /\ UNCHANGED <<edge, batch, cfd, line, stat>> /\ pc = "handle"
        /\ (pc' = "wait" /\ batch = {}) \/ pc' = "exited"
    BY <1>5 DEF BatchDone, accept_error
  <2>2. EventsTypeOK' /\ ReadTypeOK'
    BY <1>1, <1>2, <2>1 DEF EventsTypeOK, ReadTypeOK, Places, InRead
  <2>3. EventsOK' /\ ReadOK' /\ EventsStayValid' /\ NoInputForgotten'
    BY <1>1, <1>2, <2>1
       DEF EventsOK, ReadOK, InRead, EventsStayValid, Readable, NoInputForgotten, Alive
  <2> QED
    BY <1>3, <2>2, <2>3, TypeOKParts
<1>6. CASE do_read
  <2>1. /\ pc = "handle" /\ pc' = "line" /\ line' = <<>> /\ UNCHANGED <<edge, stat>>
        /\ cfd' \in batch /\ cfd' # lfd /\ batch' = batch \ {cfd'}
    BY <1>6 DEF do_read
  <2>2. cfd' \in Fds /\ open[cfd'] # NoClient /\ Readable(open[cfd'])
    BY <1>1, <2>1 DEF EventsTypeOK, EventsStayValid
  <2>3. EventsTypeOK' /\ ReadTypeOK'
    BY <1>1, <1>2, <2>1, <2>2, EmptySeq DEF EventsTypeOK, ReadTypeOK, Places, InRead
  <2>4. EventsOK' /\ ReadOK'
    BY <1>1, <1>2, <2>1, <2>2 DEF EventsOK, ReadOK, InRead, Peer, Readable
  <2>5. EventsStayValid' /\ NoInputForgotten'
    BY <1>2, <2>1 DEF EventsStayValid, Readable, NoInputForgotten, Alive
  <2> QED
    BY <1>3, <2>3, <2>4, <2>5, TypeOKParts
<1> QED
  BY <1>4, <1>5, <1>6

-----------------------------------------------------------------------------
(* do_read: the input of no other connection changes.                      *)
LEMMA InputIInv == IInv /\ (get_line \/ drain) => IInv'
<1> SUFFICES ASSUME IInv, get_line \/ drain PROVE IInv'
  OBVIOUS
<1> USE DEF IInv, clientVars
<1>1. /\ ConnectionsTypeOK /\ InputTypeOK /\ EventsTypeOK /\ AnswersTypeOK /\ ReadTypeOK
  BY TypeOKParts
<1>2. /\ UNCHANGED <<peer, sent, began, backlog, open, edge, batch, cfd, stat,
                     todo, answer>>
      /\ pc \in {"line", "drain"} /\ pc' \in {"line", "drain"}
      /\ input[Peer] # <<>> /\ input' = [input EXCEPT ![Peer] = Tail(input[Peer])]
      /\ line' = line \/ line' = Append(line, Head(input[Peer]))
      /\ line' = line => pc' # "line"
  BY AppendProperties DEF get_line, drain
<1>3. cfd \in Fds /\ Peer \in Clients
  BY <1>1, <1>2 DEF ReadTypeOK, InRead, Peer, ConnectionsTypeOK
<1>4. input[Peer] \in Seq(Tokens) /\ Head(input[Peer]) \in Tokens
      /\ Tail(input[Peer]) \in Seq(Tokens)
  BY <1>1, <1>2, <1>3, HeadTailProperties DEF InputTypeOK
<1>5. line' \in Seq(Tokens) /\ ~(pc' = "line" /\ line' = <<>>)
  BY <1>1, <1>2, <1>4, AppendProperties, EmptySeq DEF ReadTypeOK
<1>6. ConnectionsTypeOK' /\ EventsTypeOK' /\ AnswersTypeOK' /\ OneConnection'
  BY <1>1, <1>2 DEF ConnectionsTypeOK, EventsTypeOK, AnswersTypeOK, OneConnection
<1>7. InputTypeOK' /\ ReadTypeOK'
  BY <1>1, <1>2, <1>4, <1>5 DEF InputTypeOK, ReadTypeOK, Places, InRead
<1>8. EventsOK' /\ ReadOK'
  BY <1>2, <1>5 DEF EventsOK, ReadOK, InRead
<1>9. ASSUME NEW g \in Fds, open[g] # NoClient, g # cfd
      PROVE  input'[open[g]] = input[open[g]]
  BY <1>1, <1>2, <1>3, <1>9 DEF OneConnection, Peer, InputTypeOK, ConnectionsTypeOK
<1>10. EventsStayValid'
  <2>1. cfd \notin batch
    BY <1>2 DEF EventsOK, InRead
  <2> QED
    BY <1>1, <1>2, <1>9, <2>1 DEF EventsStayValid, EventsTypeOK, Readable
<1>11. NoInputForgotten'
  BY <1>2, <1>9 DEF NoInputForgotten, Alive
<1> QED
  BY <1>6, <1>7, <1>8, <1>10, <1>11, TypeOKParts

LEMMA AnswersNotEmpty ==
  ASSUME NEW found \in {"known", "failed", "other"}, NEW right,
         NEW heads \in Answers(found, right)
  PROVE  heads \in Seq(Heads) /\ (heads = <<>> => found = "other")
<1>1. /\ "asked" \in Heads /\ "404" \in Heads /\ "other" \in Heads
  BY DEF Heads
<1> DEFINE head == IF right THEN "404" ELSE "other"
<1>2. CASE found = "known"
  <2>1. heads = <<IF right THEN "asked" ELSE "other">>
    BY <1>2 DEF Answers
  <2> QED
    BY <1>1, <2>1
<1>3. CASE found = "failed"
  <2>1. heads = <<head>> \/ heads = <<head, "other">>
    BY <1>3 DEF Answers
  <2>2. head \in Heads
    BY <1>1
  <2> HIDE DEF head
  <2>3. /\ <<head>> \in Seq(Heads) /\ <<head>> # <<>>
        /\ <<head, "other">> \in Seq(Heads) /\ <<head, "other">> # <<>>
    BY <1>1, <2>2
  <2> QED
    BY <2>1, <2>3
<1>4. CASE found = "other"
  BY <1>4, EmptySeq DEF Answers
<1> QED
  BY <1>2, <1>3, <1>4

(* The steps that move do_read on; none of them leaves input behind.       *)
LEMMA ReadIInv ==
  ASSUME IInv, get_line_none \/ drained \/ http_request \/ send_answer \/ broken_pipe
  PROVE  IInv'
<1> USE DEF IInv, clientVars
<1>1. /\ ConnectionsTypeOK /\ InputTypeOK /\ EventsTypeOK /\ AnswersTypeOK /\ ReadTypeOK
  BY TypeOKParts
<1>2. UNCHANGED <<peer, sent, began, backlog, input, open, edge, batch>>
  BY DEF get_line_none, drained, http_request, send_answer, broken_pipe
<1>3. pc \in {"line", "drain", "request", "send"}
  BY DEF get_line_none, drained, http_request, send_answer, broken_pipe
<1>4. /\ cfd \in Fds /\ open[cfd] # NoClient /\ Peer \in Clients /\ cfd \notin batch
  BY <1>1, <1>3 DEF ReadTypeOK, InRead, EventsOK, Peer, ConnectionsTypeOK
<1>5. ConnectionsTypeOK' /\ InputTypeOK' /\ EventsTypeOK' /\ OneConnection'
      /\ EventsStayValid'
  BY <1>1, <1>2 DEF ConnectionsTypeOK, InputTypeOK, EventsTypeOK, OneConnection,
                    EventsStayValid, Readable
<1>12. stat \in Said
  BY <1>1 DEF ReadTypeOK
<1>6. ASSUME pc \in {"line", "drain"} => pc' \in {"line", "drain"} \/ input[Peer] = <<>>,
             stat' \in Said,
             \/ cfd' = cfd /\ line' = line /\ pc' \in Places
                /\ pc' \notin {"wait", "line"}
             \/ cfd' = lfd /\ line' = <<>> /\ pc' = "handle"
      PROVE  EventsOK' /\ ReadTypeOK' /\ NoInputForgotten'
  <2>1. EventsOK'
    BY <1>2, <1>4, <1>6 DEF EventsOK, InRead
  <2>2. ReadTypeOK'
    BY <1>1, <1>2, <1>4, <1>6, EmptySeq DEF ReadTypeOK, Places, InRead
  <2>3. ASSUME cfd' # cfd PROVE pc' = "handle"
    BY <1>6, <2>3
  <2>4. NoInputForgotten'
    BY <1>2, <1>3, <1>6, <2>3 DEF NoInputForgotten, Alive, Peer
  <2> QED
    BY <2>1, <2>2, <2>4
<1>7. CASE get_line_none
  <2>1. /\ UNCHANGED <<cfd, line, stat, todo, answer>> /\ pc = "line" /\ input[Peer] = <<>>
        /\ pc' = IF line = <<>> THEN "disconnect" ELSE "drain"
    BY <1>7 DEF get_line_none
  <2>2. AnswersTypeOK' /\ ReadOK'
    BY <1>1, <1>2, <2>1 DEF AnswersTypeOK, ReadOK, Readable, Peer
  <2> QED
    BY <1>5, <1>6, <1>12, <2>1, <2>2, TypeOKParts DEF Places, Said
<1>8. CASE drained
  <2>1. /\ UNCHANGED <<todo, answer>> /\ pc = "drain" /\ input[Peer] = <<>>
        /\ \/ pc' = "request" /\ UNCHANGED <<cfd, line, stat>>
           \/ pc' = "handle" /\ cfd' = lfd /\ line' = <<>> /\ stat' = "none"
    BY <1>8 DEF drained, Returned
  <2>2. AnswersTypeOK' /\ ReadOK'
    BY <1>1, <2>1 DEF AnswersTypeOK, ReadOK
  <2> QED
    BY <1>5, <1>6, <1>12, <2>1, <2>2, TypeOKParts DEF Places, Said
<1>9. CASE http_request
  <2>1. /\ UNCHANGED <<cfd, line, answer>> /\ pc = "request"
        /\ pc' = IF todo' = <<>> THEN "disconnect" ELSE "send"
    BY <1>9 DEF http_request
  <2>2. \E path, right : stat' = Stat(path) /\ todo' \in Answers(stat', right)
    <3>1. PICK name \in Paths :
            \E path \in IF line = Whole THEN {decode_str(encode_str(1024, name))} ELSE Paths :
              /\ stat' = Stat(path)
              /\ todo' \in Answers(stat', line = Whole /\ path = name)
      BY <1>9, Zenon DEF http_request
    <3>2. PICK path \in IF line = Whole THEN {decode_str(encode_str(1024, name))} ELSE Paths :
            /\ stat' = Stat(path)
            /\ todo' \in Answers(stat', line = Whole /\ path = name)
      BY <3>1, Zenon
    <3>3. PICK right : right = (line = Whole /\ path = name)
      OBVIOUS
    <3>4. todo' \in Answers(stat', right)
      BY <3>2, <3>3, Zenon
    <3> QED
      BY <3>2, <3>4, Zenon
  <2>3. stat' \in {"known", "failed", "other"}
    BY <2>2 DEF Stat
  <2>4. todo' \in Seq(Heads) /\ (todo' = <<>> => stat' = "other")
    BY <2>2, <2>3, AnswersNotEmpty
  <2>5. AnswersTypeOK' /\ ReadOK'
    BY <1>1, <2>1, <2>4 DEF AnswersTypeOK, ReadOK
  <2> QED
    BY <1>5, <1>6, <2>1, <2>3, <2>5, TypeOKParts DEF Places, Said
<1>10. CASE send_answer
  <2>1. /\ UNCHANGED <<cfd, line, stat>> /\ pc = "send"
        /\ pc' \in {"disconnect", "send"}
        /\ answer' = [answer EXCEPT ![Peer] = Append(answer[Peer], Head(todo))]
        /\ todo' = Tail(todo) /\ (pc' = "send" => Len(todo) # 1) /\ todo # <<>>
    BY <1>10 DEF send_answer, ReadOK
  <2>2. /\ Head(todo) \in Heads /\ todo' \in Seq(Heads) /\ (pc' = "send" => todo' # <<>>)
    <3>1. todo \in Seq(Heads) /\ todo # <<>>
      BY <1>1, <2>1 DEF AnswersTypeOK
    <3>2. /\ Head(todo) \in Heads /\ Tail(todo) \in Seq(Heads)
          /\ Len(Tail(todo)) = Len(todo) - 1 /\ Len(todo) \in Nat
      BY <3>1, HeadTailProperties, LenProperties
    <3>3. Len(todo) # 1 => Tail(todo) # <<>>
      <4>1. Len(todo) # 0
        BY <3>1, EmptySeq
      <4>2. Len(todo) # 1 => Len(Tail(todo)) # 0
        BY <3>2, <4>1
      <4> QED
        BY <3>2, <4>2, EmptySeq
    <3> QED
      BY <2>1, <3>2, <3>3
  <2>3. /\ Append(answer[Peer], Head(todo)) \in Seq(Heads)
        /\ Append(answer[Peer], Head(todo)) # <<>>
    BY <1>1, <1>4, <2>2, AppendProperties, EmptySeq DEF AnswersTypeOK
  <2>4. AnswersTypeOK' /\ answer'[Peer] # <<>>
    BY <1>1, <1>4, <2>1, <2>2, <2>3 DEF AnswersTypeOK
  <2>5. ReadOK'
    BY <1>2, <2>1, <2>2, <2>4 DEF ReadOK, Peer
  <2> QED
    BY <1>5, <1>6, <1>12, <2>1, <2>4, <2>5, TypeOKParts DEF Places, Said
<1>11. CASE broken_pipe
  <2>1. UNCHANGED <<cfd, line, stat, todo, answer>> /\ pc = "send" /\ pc' = "exited"
    BY <1>11 DEF broken_pipe
  <2>2. AnswersTypeOK' /\ ReadOK'
    BY <1>1, <2>1 DEF AnswersTypeOK, ReadOK
  <2> QED
    BY <1>5, <1>6, <1>12, <2>1, <2>2, TypeOKParts DEF Places, Said
<1> QED
  BY <1>7, <1>8, <1>9, <1>10, <1>11

(* Closing cfd takes its events along, and no other descriptor's.          *)
LEMMA DisconnectIInv == IInv /\ disconnect => IInv'
<1> SUFFICES ASSUME IInv, disconnect PROVE IInv'
  OBVIOUS
<1> USE DEF IInv, clientVars
<1>1. /\ ConnectionsTypeOK /\ InputTypeOK /\ EventsTypeOK /\ AnswersTypeOK /\ ReadTypeOK
  BY TypeOKParts
<1>2. /\ UNCHANGED <<peer, sent, began, backlog, input, batch, todo, answer>>
      /\ pc = "disconnect" /\ pc' = "handle" /\ cfd' = lfd /\ line' = <<>>
      /\ stat' = "none"
      /\ edge' = edge \ {cfd} /\ open' = [open EXCEPT ![cfd] = NoClient]
      /\ \A g \in Fds : open'[g] = IF g = cfd THEN NoClient ELSE open[g]
  BY <1>1 DEF disconnect, Returned, ConnectionsTypeOK
<1>3. cfd \notin batch
  BY <1>2 DEF EventsOK, InRead
<1>4. ConnectionsTypeOK' /\ InputTypeOK' /\ EventsTypeOK' /\ AnswersTypeOK' /\ ReadTypeOK'
  <2>1. ConnectionsTypeOK'
    BY <1>1, <1>2 DEF ConnectionsTypeOK
  <2> QED
    BY <1>1, <1>2, <2>1, EmptySeq
       DEF InputTypeOK, EventsTypeOK, AnswersTypeOK, ReadTypeOK, Places, Said, InRead
<1>5. OneConnection'
  <2>1. \A k \in DOMAIN backlog : backlog[k] \in Clients
    BY <1>1 DEF ConnectionsTypeOK
  <2> QED
    BY <1>2, <2>1, ClientAssumption DEF OneConnection
<1>6. EventsOK' /\ ReadOK'
  BY <1>1, <1>2 DEF EventsOK, EventsTypeOK, ReadOK, InRead
<1>7. EventsStayValid'
  BY <1>1, <1>2, <1>3 DEF EventsStayValid, EventsTypeOK, Readable
<1>8. NoInputForgotten'
  BY <1>2 DEF NoInputForgotten, Alive
<1> QED
  BY <1>4, <1>5, <1>6, <1>7, <1>8, TypeOKParts

-----------------------------------------------------------------------------
LEMMA NextIInv == IInv /\ [Next]_vars => IInv'
<1> SUFFICES ASSUME IInv, [Next]_vars PROVE IInv'
  OBVIOUS
<1>1. CASE ClientStep
  <2>1. UNCHANGED <<open, batch, cfd, line, stat, todo, answer, pc>>
    BY <1>1 DEF ClientStep
  <2> QED
    BY <1>1, <2>1, ConnectIInv, SendIInv, HangupIInv DEF ClientStep
<1>2. CASE epoll_run
  BY <1>2, AcceptIInv, LoopIInv, InputIInv, ReadIInv, DisconnectIInv DEF epoll_run
<1>3. CASE UNCHANGED vars
  <2>1. TypeOK' /\ OneConnection' /\ EventsOK' /\ ReadOK'
    BY <1>3 DEF vars, IInv, TypeOK, InRead, OneConnection, EventsOK, ReadOK, Peer, Readable
  <2>2. NoInputForgotten' /\ EventsStayValid'
    BY <1>3 DEF vars, IInv, NoInputForgotten, Alive, EventsStayValid, Readable
  <2> QED
    BY <2>1, <2>2 DEF IInv
<1> QED
  BY <1>1, <1>2, <1>3 DEF Next

LEMMA Invariance == Spec => []IInv
BY InitIInv, NextIInv, PTL DEF Spec

-----------------------------------------------------------------------------
(* Every variable keeps its range, and do_read works on an open descriptor.*)
THEOREM TypeCorrect == Spec => []TypeOK
BY Invariance, PTL DEF IInv

(* Edge-triggered events come once: no input that waits on a connection is *)
(* without an event, although the batch is handled while more arrives.     *)
THEOREM NoEdgeLost == Spec => []NoInputForgotten
BY Invariance, PTL DEF IInv

(* An event in the batch is of an open connection with something to read,  *)
(* although descriptors are closed and accepted before its turn.           *)
THEOREM EventsValid == Spec => []EventsStayValid
BY Invariance, PTL DEF IInv

(* A client that is still there is not disconnected without an answer,     *)
(* unless it asked for what is neither file nor directory.                 *)
THEOREM NobodyCutOff == Spec => NoneCutOff
<1> DEFINE Kept == \A f \in Fds : open[f] # NoClient /\ open'[f] = NoClient =>
                     \/ answer[open[f]] # <<>>
                     \/ peer[open[f]] = "fin"
                     \/ stat = "other"
<1>1. IInv /\ [Next]_vars => [Kept]_vars
  <2> SUFFICES ASSUME IInv, [Next]_vars, NEW f \in Fds,
                      open[f] # NoClient, open'[f] = NoClient
               PROVE  \/ answer[open[f]] # <<>> \/ peer[open[f]] = "fin"
                      \/ stat = "other"
    OBVIOUS
  <2> USE DEF IInv, clientVars
  <2>1. open \in [Fds -> Clients \cup {NoClient}] /\ backlog \in Seq(Clients)
    BY DEF TypeOK
  <2>2. CASE disconnect
    BY <2>1, <2>2 DEF disconnect, ReadOK, Peer
  <2>3. CASE do_accept
    <3>1. backlog # <<>>
      BY <2>3 DEF do_accept, EventsOK
    <3>2. Head(backlog) \in Clients
      BY <2>1, <3>1, HeadTailProperties
    <3> QED
      BY <2>1, <2>3, <3>2, ClientAssumption DEF do_accept
  <2>4. CASE UNCHANGED open
    BY <2>4
  <2>5. disconnect \/ do_accept \/ UNCHANGED open
    BY DEF Next, epoll_run, ClientStep, EpollWait, BatchDone, accept_error, do_read,
           get_line, get_line_none, drain, drained, http_request, send_answer,
           broken_pipe, vars
  <2> QED
    BY <2>2, <2>3, <2>4, <2>5
<1> QED
  BY <1>1, Invariance, PTL DEF Spec, NoneCutOff
=============================================================================
