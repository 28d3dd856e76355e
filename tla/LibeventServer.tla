--------------------------- MODULE LibeventServer ---------------------------
(***************************************************************************)
(* libevent_server.c: one bufferevent for each connection, and four        *)
(* callbacks.  read_cb only puts its answer into the output buffer; the    *)
(* library sends it in a later round, unless event_cb has freed the        *)
(* bufferevent by then.  pc is "wait" (in event_base_dispatch) or "exited".*)
(***************************************************************************)
EXTENDS ServerConstants

VARIABLES peer, backlog, open, unread,
          bevs,             \* descriptors with a bufferevent
          output,           \* those with something in the output buffer
          input,            \* those with something left in the input buffer
          pc

INSTANCE Sockets

socketVars == <<peer, backlog, open, unread>>
vars == <<peer, backlog, open, unread, bevs, output, input, pc>>

Init == SocketsInit /\ bevs = {} /\ output = {} /\ input = {} /\ pc = "wait"

Over == pc = "exited"
Dispatched(f) == pc = "wait" /\ f \in bevs

-----------------------------------------------------------------------------
listen_cb(f) == /\ pc = "wait"
                /\ Accept(f)
                /\ bevs' = bevs \cup {f}
                /\ UNCHANGED <<output, input, pc>>

(* The library has read what there is into the input buffer, from which    *)
(* read_cb takes a part or all; it is not called again for the rest, only  *)
(* when more arrives.                                                      *)
read_cb(f) == /\ Dispatched(f)
              /\ ReadInput(open[f])
              /\ input' \in {input \ {f}, input \cup {f}}
              /\ output' = output \cup {f}
              /\ UNCHANGED <<bevs, pc>>

(* The library sends the output buffer, when the client's has room; SIGPIPE*)
(* ends the process.                                                       *)
write_cb(f) == /\ Dispatched(f) /\ f \in output
               /\ Send(open[f])
               /\ output' = output \ {f}
               /\ UNCHANGED <<bevs, input, pc>>

BrokenPipe(f) == /\ Dispatched(f) /\ f \in output
                 /\ peer[open[f]] = "rst" /\ pc' = "exited"
                 /\ UNCHANGED <<socketVars, bevs, output, input>>

(* The end of file or an error, of a send too: the bufferevent is freed    *)
(* with its buffers, and the descriptor closed.                            *)
bufferevent_free(f) == /\ Close(f)
                       /\ bevs' = bevs \ {f}
                       /\ output' = output \ {f} /\ input' = input \ {f}
                       /\ UNCHANGED pc
ErrorOnly(f) == /\ Dispatched(f) /\ Failed(open[f])                \* mutant
                /\ bufferevent_free(f)
event_cb(f) == /\ Dispatched(f)
               /\ \/ AtEnd(open[f]) \/ Failed(open[f])
                  \/ f \in output /\ peer[open[f]] = "rst"
               /\ bufferevent_free(f)

-----------------------------------------------------------------------------
callbacks(f) == \/ listen_cb(f) \/ read_cb(f) \/ write_cb(f) \/ BrokenPipe(f)
                \/ event_cb(f)
Peers == ~Over /\ ClientStep /\ UNCHANGED <<bevs, output, input, pc>>

Next == (\E f \in Fds : callbacks(f)) \/ Peers
Spec == Init /\ [][Next]_vars

-----------------------------------------------------------------------------
(* See SelectServer.                                                       *)
Tended == bevs
Owed == {open[f] : f \in output}

(* Every variable keeps its range.                                         *)
TypeOK == /\ bevs \subseteq Fds /\ output \subseteq bevs /\ input \subseteq bevs
          /\ pc \in {"wait", "exited"}
=============================================================================
