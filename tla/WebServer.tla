----------------------------- MODULE WebServer -----------------------------
(***************************************************************************)
(* web_server/epoll_server.c: one thread, an epoll instance with the       *)
(* listening socket level-triggered and the connections edge-triggered and *)
(* non-blocking.  do_read takes one request line and then reads until      *)
(* nothing is left; only a GET is answered, and then disconnected.         *)
(*                                                                         *)
(* Input is a sequence of tokens: "get" is the beginning of a GET line,    *)
(* "rest" whatever comes up to an end of line.  A request that arrives in  *)
(* one piece is <<"get", "rest">>; a line of its own "rest" is no GET.     *)
(* Clients ask for the files of one directory, by the links that the       *)
(* server's own listing shows, for the listing, for what is not there and  *)
(* for what is neither file nor directory.                                 *)
(***************************************************************************)
EXTENDS UrlCoding, FiniteSetsExt

CONSTANTS Clients, NoClient,
          Fds,          \* descriptors accept can return, as numbers
          lfd,          \* the listening socket
          MaxSegments,  \* bound: the segments a client sends
          Files,        \* the names of files and directories
          Special,      \* the names of FIFOs, devices and sockets
          Nowhere       \* a name that is not there

ASSUME NameAssumption == /\ \A name \in Files \cup Special \cup {Nowhere} :
                              name \in Seq(1 .. 255) /\ Len(name) \in 1 .. 255
                         /\ Nowhere \notin Files \cup Special
                         /\ Files \cap Special = {}
ASSUME DescriptorAssumption == Fds \subseteq Nat /\ lfd \notin Fds
ASSUME ClientAssumption == NoClient \notin Clients /\ MaxSegments \in Nat

VARIABLES peer,         \* [Clients -> "idle", "up" or "fin"]
          sent,         \* the number of segments each client has sent
          began,        \* history: clients whose first segment was a whole GET
          input,        \* tokens received and not read
          backlog,      \* connections not yet accepted
          open,         \* [Fds -> the connection a descriptor refers to]
          edge,         \* descriptors on epoll's ready list
          batch,        \* elements of all that are still to be handled
          cfd, line,    \* parameter and request line of do_read, while it runs
          stat,         \* what stat has told http_request of the path
          todo,         \* the heads that http_request will still send
          answer,       \* [Clients -> the heads each was sent]
          pc

clientVars == <<peer, sent, began, backlog>>
vars == <<peer, sent, began, input, backlog, open, edge, batch, cfd, line, stat, todo,
          answer, pc>>

Tokens == {"get", "rest"}
Whole == <<"get", "rest">>
Segments == {Whole, <<"get">>, <<"rest">>}

Init == /\ peer = [c \in Clients |-> "idle"]
        /\ sent = [c \in Clients |-> 0] /\ began = {}
        /\ input = [c \in Clients |-> <<>>]
        /\ backlog = <<>>
        /\ open = [f \in Fds |-> NoClient]
        /\ edge = {} /\ batch = {}
        /\ cfd = lfd /\ line = <<>> /\ stat = "none" /\ todo = <<>>
        /\ answer = [c \in Clients |-> <<>>]
        /\ pc = "wait"

(* exit(1), and a SIGPIPE, end the server.                                 *)
Alive == pc # "exited"
FdOf(c) == {f \in Fds : open[f] = c}
Connected(c) == FdOf(c) # {} \/ \E k \in DOMAIN backlog : backlog[k] = c
Readable(c) == input[c] # <<>> \/ peer[c] = "fin"

-----------------------------------------------------------------------------
(* Clients.  What arrives puts the descriptor on the ready list.  Hangup   *)
(* stands for a reset too: do_read does not tell them apart.               *)
Connect(c) == /\ peer[c] = "idle"
              /\ peer' = [peer EXCEPT ![c] = "up"]
              /\ backlog' = Append(backlog, c)
              /\ UNCHANGED <<sent, began, input, edge>>

SendSegment(c, s) == /\ peer[c] = "up" /\ Connected(c) /\ sent[c] < MaxSegments
                     /\ sent' = [sent EXCEPT ![c] = @ + 1]
                     /\ began' = began \cup IF sent[c] = 0 /\ s = Whole THEN {c} ELSE {}
                     /\ input' = [input EXCEPT ![c] = @ \o s]
                     /\ edge' = edge \cup FdOf(c)
                     /\ UNCHANGED <<peer, backlog>>

Hangup(c) == /\ peer[c] = "up"
             /\ peer' = [peer EXCEPT ![c] = "fin"]
             /\ edge' = edge \cup FdOf(c)
             /\ UNCHANGED <<sent, began, input, backlog>>

ClientStep == /\ Alive
              /\ \E c \in Clients : \/ Connect(c) \/ Hangup(c)
                                    \/ \E s \in Segments : SendSegment(c, s)
              /\ UNCHANGED <<open, batch, cfd, line, stat, todo, answer, pc>>

-----------------------------------------------------------------------------
(* epoll_run.  epoll_wait takes the ready list, and reports the connection *)
(* if there still is something to read.                                    *)
EpollWait == /\ pc = "wait" /\ pc' = "handle"
             /\ batch' = {f \in edge : Readable(open[f])}
                           \cup (IF backlog # <<>> THEN {lfd} ELSE {})
             /\ batch' # {}
             /\ edge' = {}
             /\ UNCHANGED <<clientVars, input, open, cfd, line, stat, todo, answer>>

BatchDone == /\ pc = "handle" /\ batch = {} /\ pc' = "wait"
             /\ UNCHANGED <<clientVars, input, open, edge, batch, cfd, line, stat,
                            todo, answer>>

(* A new descriptor that is readable already is on the ready list at once. *)
FreeFds == {f \in Fds : open[f] = NoClient}
AddWithoutEvent ==                                                \* mutant
  /\ pc = "handle" /\ lfd \in batch /\ batch' = batch \ {lfd}
  /\ FreeFds # {}
  /\ open' = [open EXCEPT ![Min(FreeFds)] = Head(backlog)]
  /\ backlog' = Tail(backlog)
  /\ UNCHANGED <<peer, sent, began, input, edge, cfd, line, stat, todo, answer, pc>>
do_accept == /\ pc = "handle" /\ lfd \in batch /\ batch' = batch \ {lfd}
             /\ \E f \in FreeFds :
                  /\ \A g \in FreeFds : f <= g
                  /\ open' = [open EXCEPT ![f] = Head(backlog)]
                  /\ edge' = edge \cup IF Readable(Head(backlog)) THEN {f} ELSE {}
             /\ backlog' = Tail(backlog)
             /\ UNCHANGED <<peer, sent, began, input, cfd, line, stat, todo, answer,
                            pc>>

(* accept returns -1, for any of its reasons.                              *)
accept_error == /\ pc = "handle" /\ lfd \in batch
                /\ pc' = "exited"
                /\ UNCHANGED <<clientVars, input, open, edge, batch, cfd, line, stat,
                               todo, answer>>

-----------------------------------------------------------------------------
(* do_read                                                                 *)
ReadAgain == /\ pc = "handle"                                     \* mutant
             /\ \E f \in batch \ {lfd} : cfd' = f
             /\ line' = <<>> /\ pc' = "line"
             /\ UNCHANGED <<clientVars, input, open, edge, batch, stat, todo, answer>>
do_read == /\ pc = "handle"
           /\ \E f \in batch \ {lfd} : cfd' = f /\ batch' = batch \ {f}
           /\ line' = <<>> /\ pc' = "line"
           /\ UNCHANGED <<clientVars, input, open, edge, stat, todo, answer>>

Peer == open[cfd]

(* get_line: one token; the line is over at its end.                       *)
get_line == /\ pc = "line" /\ input[Peer] # <<>>
            /\ line' = Append(line, Head(input[Peer]))
            /\ input' = [input EXCEPT ![Peer] = Tail(@)]
            /\ pc' = IF Head(input[Peer]) = "rest" THEN "drain" ELSE "line"
            /\ UNCHANGED <<clientVars, open, edge, batch, cfd, stat, todo, answer>>

(* get_line: no data, be it the end of file or EAGAIN, ends the line too.  *)
get_line_none == /\ pc = "line" /\ input[Peer] = <<>>
                 /\ pc' = IF line = <<>> THEN "disconnect" ELSE "drain"
                 /\ UNCHANGED <<clientVars, input, open, edge, batch, cfd, line, stat,
                                todo, answer>>

(* The while loop over the header lines, until get_line returns 0.         *)
drain == /\ pc = "drain" /\ input[Peer] # <<>>
         /\ input' = [input EXCEPT ![Peer] = Tail(@)]
         /\ UNCHANGED <<clientVars, open, edge, batch, cfd, line, stat, todo, answer,
                        pc>>

IsGet == line # <<>> /\ Head(line) = "get"
Returned == cfd' = lfd /\ line' = <<>> /\ stat' = "none"
StopAfterLine == /\ pc = "drain"                                  \* mutant
                 /\ IF IsGet THEN pc' = "request" /\ UNCHANGED <<cfd, line, stat>>
                             ELSE pc' = "handle" /\ Returned
                 /\ UNCHANGED <<clientVars, input, open, edge, batch, todo, answer>>
DisconnectAlways == /\ pc = "drain" /\ input[Peer] = <<>>         \* mutant
                    /\ pc' = IF IsGet THEN "request" ELSE "disconnect"
                    /\ UNCHANGED <<clientVars, input, open, edge, batch, cfd, line, stat,
                                   todo, answer>>
drained == /\ pc = "drain" /\ input[Peer] = <<>>
           /\ IF IsGet THEN pc' = "request" /\ UNCHANGED <<cfd, line, stat>>
                       ELSE pc' = "handle" /\ Returned
           /\ UNCHANGED <<clientVars, input, open, edge, batch, todo, answer>>

(* http_request.  The client asked for name; what a request that was split *)
(* leads to is any path.  stat fails, knows a file or a directory, or finds*)
(* something else (a FIFO, a device, a socket), of which nothing is sent.  *)
(* A head is "asked" (200, for what was asked for), "404" (that it is not  *)
(* there, which is true) or "other".  After a 404 st is tested that stat   *)
(* did not set, and a second head may follow.                              *)
Resources == Files \cup {<<>>}      \* <<>>: the directory itself, "./"
Paths == Resources \cup Special \cup {Nowhere}
Stat(path) == CASE path \in Resources -> "known"
                [] path \in Special -> "other"
                [] OTHER -> "failed"
Answers(found, right) ==
  CASE found = "known" -> {<<IF right THEN "asked" ELSE "other">>}
    [] found = "failed" -> LET head == IF right THEN "404" ELSE "other"
                           IN  {<<head>>, <<head, "other">>}
    [] found = "other" -> {<<>>}
http_request ==
  /\ pc = "request"
  /\ \E name \in Paths :
       \E path \in IF line = Whole THEN {decode_str(encode_str(1024, name))} ELSE Paths :
         /\ stat' = Stat(path)
         /\ todo' \in Answers(stat', line = Whole /\ path = name)
  /\ pc' = IF todo' = <<>> THEN "disconnect" ELSE "send"
  /\ UNCHANGED <<clientVars, input, open, edge, batch, cfd, line, answer>>

(* A head, with its file or listing.                                       *)
send_answer == /\ pc = "send"
               /\ answer' = [answer EXCEPT ![Peer] = Append(@, Head(todo))]
               /\ todo' = Tail(todo)
               /\ pc' = IF Len(todo) = 1 THEN "disconnect" ELSE "send"
               /\ UNCHANGED <<clientVars, input, open, edge, batch, cfd, line, stat>>

(* A send to a client that is gone raises SIGPIPE.                         *)
broken_pipe == /\ pc = "send" /\ peer[Peer] = "fin" /\ pc' = "exited"
               /\ UNCHANGED <<clientVars, input, open, edge, batch, cfd, line, stat,
                              todo, answer>>

disconnect == /\ pc = "disconnect" /\ pc' = "handle"
              /\ open' = [open EXCEPT ![cfd] = NoClient]
              /\ edge' = edge \ {cfd}
              /\ Returned
              /\ UNCHANGED <<clientVars, input, batch, todo, answer>>

-----------------------------------------------------------------------------
epoll_run == \/ EpollWait \/ BatchDone \/ do_accept \/ accept_error \/ do_read
             \/ get_line \/ get_line_none \/ drain \/ drained
             \/ http_request \/ send_answer \/ broken_pipe \/ disconnect

Next == epoll_run \/ ClientStep

Spec == Init /\ [][Next]_vars
FairSpec == Spec /\ WF_vars(epoll_run)

-----------------------------------------------------------------------------
InRead == pc \in {"line", "drain", "request", "send", "disconnect"}

(* Every variable keeps its range, and do_read works on an open descriptor.*)
TypeOK == /\ peer \in [Clients -> {"idle", "up", "fin"}]
          /\ sent \in [Clients -> 0 .. MaxSegments] /\ began \subseteq Clients
          /\ input \in [Clients -> Seq(Tokens)]
          /\ backlog \in Seq(Clients)
          /\ open \in [Fds -> Clients \cup {NoClient}]
          /\ edge \subseteq Fds /\ batch \subseteq Fds \cup {lfd}
          /\ cfd \in Fds \cup {lfd} /\ line \in Seq(Tokens)
          /\ stat \in {"none", "known", "failed", "other"}
          /\ todo \in Seq({"asked", "404", "other"})
          /\ answer \in [Clients -> Seq({"asked", "404", "other"})]
          /\ pc \in {"wait", "handle", "line", "drain", "request", "send",
                     "disconnect", "exited"}
          /\ InRead => cfd \in Fds /\ open[cfd] # NoClient

(* An edge-triggered event is not repeated: input that is waiting on a     *)
(* connection is in an event to come, in one already reported, or about to *)
(* be read by do_read.                                                     *)
NoInputForgotten == Alive =>
  \A f \in Fds : open[f] # NoClient /\ input[open[f]] # <<>> =>
    f \in edge \cup batch \/ (pc \in {"line", "drain"} /\ cfd = f)

(* The events not yet handled are of connections that are open and have    *)
(* something to read, although handling one closes and opens descriptors.  *)
EventsStayValid ==
  \A f \in batch \ {lfd} : open[f] # NoClient /\ Readable(open[f])

(* A connection is closed unanswered only after its client has hung up, or *)
(* asked for what stat finds to be neither file nor directory, although    *)
(* get_line does not tell EAGAIN from the end of file.                     *)
NoneCutOff == [][\A f \in Fds : open[f] # NoClient /\ open'[f] = NoClient =>
                   \/ answer[open[f]] # <<>>
                   \/ peer[open[f]] = "fin"
                   \/ stat = "other"]_vars

(* A client whose first segment is a whole GET gets what it asked for,     *)
(* once: a link of the listing leads to the file of that name.  Only after *)
(* a 404 does a second answer follow, and none to a request for what is    *)
(* neither file nor directory.                                             *)
PassedOver(c) == pc = "disconnect" /\ Peer = c /\ stat = "other"
WholeRequestAnswered == \A c \in Clients :
  c \in began /\ Connected(c)
    ~> \/ answer[c] \in {<<"asked">>, <<"404">>, <<"404", "other">>}
       \/ PassedOver(c) \/ ~Alive

(* "The client has disconnected: close the socket, del cfd from epoll":    *)
(* the descriptor of a client that hung up is closed.                      *)
HangupNoticed == \A c \in Clients :
  (peer[c] = "fin" /\ FdOf(c) # {}) ~> (FdOf(c) = {} \/ ~Alive)
=============================================================================
