----------------------------- MODULE HttpServer -----------------------------
(***************************************************************************)
(* http_easy.cpp on its class TcpSocket: one client after the other is     *)
(* accepted, read from once, sent a header and a body whatever Recv said,  *)
(* and closed.  The process is at "accept", "recv", "header", "body" or    *)
(* "close", or has "exited".                                               *)
(***************************************************************************)
EXTENDS ServerConstants

VARIABLES peer, backlog, open, unread,
          cli,              \* cli._sockfd
          pc

INSTANCE Sockets

socketVars == <<peer, backlog, open, unread>>
vars == <<peer, backlog, open, unread, cli, pc>>

Init == SocketsInit /\ cli = -1 /\ pc = "accept"

At(from, to) == pc = from /\ pc' = to
Over == pc = "exited"
Peer == open[cli]

-----------------------------------------------------------------------------
(* When Accept fails, main starts over with nothing changed.               *)
Accept_cli == /\ At("accept", "recv")
              /\ \E f \in Fds : Accept(f) /\ cli' = f

(* Recv blocks until there is data, the end of file or an error.           *)
Recv == /\ At("recv", "header")
        /\ Readable(Peer)
        /\ unread' = [unread EXCEPT ![Peer] = 0]
        /\ UNCHANGED <<peer, backlog, open, cli>>

(* The only answer on a connection is short: neither part of it blocks.    *)
SendHeader == At("header", "body") /\ SendShort(Peer) /\ UNCHANGED cli
SendBody == At("body", "close") /\ SendShort(Peer) /\ UNCHANGED cli

(* SIGPIPE: the header was answered with a reset.                          *)
BrokenPipe == /\ pc \in {"header", "body"} /\ pc' = "exited"
              /\ peer[Peer] = "rst"
              /\ UNCHANGED <<socketVars, cli>>

Close_cli == At("close", "accept") /\ Close(cli) /\ cli' = -1

-----------------------------------------------------------------------------
loop == Accept_cli \/ Recv \/ SendHeader \/ SendBody \/ BrokenPipe \/ Close_cli
Peers == ~Over /\ ClientStep /\ UNCHANGED <<cli, pc>>

Next == loop \/ Peers
Spec == Init /\ [][Next]_vars

-----------------------------------------------------------------------------
(* See SelectServer.                                                       *)
Tended == {cli}
Owed == IF pc \in {"header", "body"} THEN {Peer} ELSE {}
Blocked == pc = "recv" /\ ~Readable(Peer)

(* Every variable keeps its range.                                         *)
TypeOK == /\ cli \in Fds \cup {-1}
          /\ pc \in {"accept", "recv", "header", "body", "close", "exited"}
          /\ pc \in {"recv", "header", "body", "close"} => Peer # NoClient
=============================================================================
