# A verification project for linux-programme

The repository is a collection of small Linux programs, each complete in one
file or directory: blocking queues and a thread pool, TCP servers in every style
from one process per connection to edge-triggered `epoll`, a web server, a UDP
chat program, and examples of pipes, shared memory and libevent. It has no tests
and no documents; what the programs are meant to do is in their comments.

This directory holds TLA+ models of the programs that have state worth checking,
TLC configurations, and TLAPS proofs. `PROJECT.json` relates every definition to
the lines it models, and lists the runs, the hazards and the theorems.

## Inventory

| Part | State | Operations | What is hard | What makes it correct |
|---|---|---|---|---|
| `pro_cus.cpp` | queue, mutex, two conditions | `QueuePush`, `QueuePop` by 4+4 threads | interleaving, lost and stolen wakeups | a bounded FIFO buffer; nobody sleeps next to work |
| `sem.cpp` | ring, two indices, three semaphores | `QueuePush_back`, `QueuePop` by 4+4 threads | no test for full or empty exists | a bounded FIFO buffer; every slot accounted for |
| `pthread_cond.c` | linked list, mutex, condition | produce, consume | `if` around the wait, signal after the unlock | the head is there when it is taken; nodes are owned once |
| `pthread_pool.cpp` | queue, `_cur_size`, `_quit_flag`, workers | `ThreadInit`, `PushTask`, `ThreadQuit`, `thr_start` | two fields shared without the mutex, creation that fails | each task once; the pool outlives its workers; quitting ends |
| `pthread_server.c` | `ps[256]`, descriptors, workers | accept, read, write, close | descriptor numbers reused, `accept` failing, elements never given back | no worker serves another's connection; everyone is served |
| `web_server/` | epoll ready list, batch of events, connections | `do_accept`, `do_read`, `disconnect` | edge-triggered events, descriptors reused within a batch, names coded in links, a `stat` that finds neither file nor directory | no input is forgotten; a request is answered once with what was asked for; hangups noticed |
| `Myqq/` | user list and socket of each window, `isShow` | open, close, `ReceiveMessage` | broadcasts that cross, overtake each other, get lost, answer each other; the same contacts on every host | lists agree with the open windows; the answering stops |
| `fork_server.c` | parent, children, SIGCHLD handler, copies of descriptors | `accept`, `fork`, `worker`, echo | the handler overwrites `errno` between `accept` and its test; a fork that fails | every child is reaped, nobody keeps a descriptor, every message is read |
| `tcp_server_pro/` | the same, with the class `TcpSocket` | `Accept`, `fork`, `sigbc`, `Recv`, `Send` | results that are not looked at, an operator who types the answers | as above; a child ends by SIGPIPE only |
| `tcp_server_pthread/` | a detached thread and a `TcpSocket` on the heap for each client | `Accept`, `start_thr`, `Recv`, `Send` | as above, and SIGPIPE ends every thread | no connection without its thread |
| `简单http请求/` | one client at a time | `Accept`, `Recv`, two sends, `Close` | a client that is silent, or resets between header and body | an answer only after a request, then dismissed |
| `select.c` | `reads`, `tmp`, `maxfd` | echo | `tmp` is older than the `accept` of the round; `send` blocks | what is reported is readable, every connection is watched |
| `poll_server.c` | `allfd`, `nfds`, `max_index` | echo | an element's `events` and `revents` are not set; `send` blocks | as above, where memory allows |
| `epoll_server.c` | `all`, and `ret` as its bound | echo | `recv` overwrites the bound: old elements are taken for events; `epoll_ctl` fails; `send` blocks | as above; what is left of a batch is reported again |
| `nonblock_epoll_server.c` | a batch, `ret` | echo in pieces of 5 bytes | `ret` is -1 or 0 after the first event; `epoll_ctl` fails | a message is read once the others are quiet |
| `libevent框架/libevent_server.c` | bufferevents with input and output buffers | `listen_cb`, `read_cb`, `write_cb`, `event_cb` | a bufferevent freed with output pending, its number reused | an event reaches the connection it is of |
| rest of `libevent框架/`, top-level `event_read.c` | bufferevents | callbacks | a freed bufferevent is used | - |
| `minishell.c`, `ps_gerp.c` | the command line, a pipe | parse, `fork`, `exec`, `wait` | - | tokens are split as typed |
| UDP programs, `ipc_socket_*`, `fifo_*`, `ipc/shm_*`, `高级IO函数/` | none | straight-line I/O | lost datagrams | - |

The programs do not call each other. Within a program the threads interact
through a mutex and condition variables or semaphores, the servers with their
clients through descriptors, the chat windows through broadcasts.

## Modules

| Module | Models | Remarks |
|---|---|---|
| `Monitor` | pthread mutex and condition variables | external: what POSIX promises and allows (a signal with no sleeper is lost, a wait may end by itself). Instantiated by `CondQueue`, `ProductList`, `PthreadPool` |
| `Sockets` | listening socket, backlog, descriptor table, clients | external: `accept` returns the lowest free number, a client ends in order or with a reset, a send after that raises SIGPIPE; a client that does not read fills the buffers (`full`), and the next send to it blocks. Instantiated by `PthreadServer` and the nine servers below |
| `Children` | `fork`, `exit`, SIGCHLD, `waitpid` | external: one pending signal stands for any number of children. Instantiated by `ForkServer`, `TcpProServer` |
| `ServerConstants` | the parameters of the servers below | and what is assumed of them |
| `ConnectionService` | the promise of an echo or HTTP server | abstract: an answer goes only to a client some of whose input was taken since the last one (`Take` needs input; `TakeNothing` is for a server that does not look at what its reads return, and a client that has left); nobody is dismissed before he left (or had the last answer) |
| `BoundedBuffer` | the promise of both classes `Blockqueue`: an atomic bounded FIFO buffer | the abstract specification that `CondQueue` and `SemQueue` implement |
| `CondQueue` | `pro_cus.cpp` | one action per stretch between two points where the mutex changes hands |
| `SemQueue` | `sem.cpp` | one action per `sem_wait`, `sem_post` and access to the ring, because nothing but the semaphores orders them |
| `ProductList` | `pthread_cond.c` | the list is the sequence of nodes reachable from `Head`; dereferencing `NULL` is the state "crashed" |
| `PthreadPool` | `pthread_pool.cpp` with its `main` | `_cur_size--` is a load and a store; the test of `_quit_flag` and the wait are two steps, since the flag is set without the mutex; `pthread_create` may fail after any number of threads |
| `PthreadServer` | `pthread_server.c` | a read that blocks holds the connection, every call looks `ps->fd` up anew; accept takes the lowest free number |
| `SelectServer`, `PollServer`, `EpollServer`, `NonblockServer` | `select.c`, `poll_server.c`, `epoll_server.c`, `nonblock_epoll_server.c` | one action per system call with the branch that follows it; uninitialised memory is any value (`Values`, `Unset`); pc stands between the calls |
| `ForkServer`, `TcpProServer` | `fork_server.c`, `tcp_server_pro/` | parent, children and handler; which process holds a copy of which descriptor is state |
| `TcpThreadServer`, `HttpServer`, `LibeventServer` | `tcp_server_pthread/`, `简单http请求/`, `libevent_server.c` | the callbacks of libevent are actions, `input` and `output` tell which of the library's buffers hold something |
| `TcpServers` | composes the nine: one of them is started | `program` says which; the variables of the others keep their value. All nine share the kernel's variables and are held to the same properties |
| `UrlCoding` | `encode_str`, `decode_str` | functions on sequences of codes |
| `WebServer` | `web_server/epoll_server.c` | input is a sequence of tokens: the beginning of a GET, and what comes up to an end of line. An answer is a sequence of heads: for what was asked, a true 404, or another; none for what `stat` finds to be neither file nor directory |
| `Chat` | `Myqq/widget.cpp`, `dialolist.cpp` | one step per handler, as a program is one thread; each window has a bounded receive buffer for each sender, so that datagrams of different senders are read in any order |

`pc` names where a thread stands; the comment at the head of each module explains
the names. An operator marked `\* mutant` is a version of the definition below it
with a plausible mistake; no specification uses it. It is there to show that a
property notices the mistake.

## Runs

| Run | Expected | Asks |
|---|---|---|
| `cond_queue` | pass | Is the queue a FIFO buffer, do single signals suffice, is every item consumed? |
| `sem_queue` | pass | Do the counts alone keep reader and writer apart, is it the same FIFO buffer, do producers get slots? |
| `product_list` | pass | Does a signal after the unlock lose a wakeup, does a node leak or get freed while linked? |
| `head_node` | violation | Is there a head node to remove? No: the `if` is not a `while`. |
| `pthread_pool` | pass | Is each task run once, is the pool left alone once `ThreadQuit` returns, do all workers leave? |
| `quit_returns` | violation | Does `ThreadQuit` return? Not after two decrements collide. |
| `pthread_server` | pass | Can a worker touch another's connection, is anybody forgotten, is all input read? |
| `slots_reused` | violation | Is an element free again when its worker is gone? No: after as many connections as elements the server ends. |
| `web_server` | pass | Is input ever left without an event to come, do events outlive their descriptor, is anyone cut off, is a whole GET answered once (not at all for a FIFO, a device or a socket), with the file that the link in the listing stands for? |
| `hangup_noticed` | violation | Is a client that hung up disconnected? Not if data and end of file come together and the data is no GET. |
| `tcp_servers` | pass | Nine servers: does each keep the promise of `ConnectionService`, read only what was reported, leak no descriptor, read every message, let go who has left, reap every child? With which exceptions? |
| `chat` | pass | Do the answers to answers stop, do the lists agree once they have (unless a contact was used on two hosts at once)? |

### Bounds, and why they are enough

* `cond_queue`: 2+2 threads, capacity 2. Two of a kind are needed for a thread to
  take what a woken one was woken for; with two places the queue is empty, full
  and in between. `Wrap` makes a producer's counter finite: with two values per
  producer two items in the queue can still be told apart.
* `sem_queue`: the same, in a vector of 3 with capacity 2, so that an index that
  wrapped modulo the vector's size would be seen.
* `product_list`: 3 nodes, one for each thread's hands and one for the list. The
  producer waits for memory when all are in use; the code would allocate more.
* `pthread_pool`: 3 workers, 3 tasks, capacity 2: main waits on a full queue, and
  two decrements can be lost.
* `pthread_server`: 2 clients, 2 elements, 2 descriptors, 1 message under way for
  each client, 1 failing accept, 3 workers (each accept, also the failing one,
  starts one). 84337 states.
* `web_server`: 2 clients, 2 descriptors, 2 segments each: a request in one
  segment, in two, or followed by another. The directory holds `a`, `%41` (a name
  that looks like an escape) and a name that is not ASCII and has a space; asked
  for are these, the directory, and `A`, which is not there but is what `%41`
  would decode to; `%` stands for a FIFO, a device or a socket. 561069 states.
* `tcp_servers`: 2 clients on descriptors 4 and 5, so that one is closed and
  reused while the other is at work; 1 message under way for each (2 in
  `NonblockServer`, which reads in pieces); 2 children or threads; `allfd` of 4
  elements, room for 2 events. Children do not outnumber clients. One call of
  `epoll_ctl`, of `pthread_create`, or in `fork_server.c` of `accept` or `fork`, fails at most; in the
  other programs `accept` and `fork` may fail again and again. The liveness properties are
  stated for one of the two clients, as the programs treat them alike. 116966 states.
* `chat`: a contact `a` that is on both hosts and a contact `b` on the second, 3 windows
  opened over time, buffers of 2 datagrams from each sender, and one lost datagram
  or killed program beside what a full buffer drops. 347457 states.

Deadlock is checked in `cond_queue` and `sem_queue`. The other systems may
really stop: the process crashed or ended, or the clients have nothing to do.

### Fairness

* A thread that can run does run (weak fairness of its steps). A thread that asks
  for a mutex or waits in `sem_wait` gets it if it becomes free again and again
  (strong fairness): POSIX leaves the order open, but no default scheduler passes
  one thread over for ever. `CondQueue`, `SemQueue`, `ProductList` and
  `PthreadPool` assume this; spurious wakeups are never assumed.
* `PthreadServer`: main goes on as long as it finds an element and a connection
  is waiting; workers go on. That accept fails, or that main returns at once, is
  not assumed.
* `WebServer`: the loop of `epoll_run` goes on. `Chat`: the event loop calls
  the slot of `readyRead` as long as a datagram is pending.
* `TcpServers`: the loop of main goes on (`Main`), and so do each child, thread and
  bufferevent (`Worker`) and a handler that has started or is pending
  (`Handler`). `accept` does not fail for ever while it could succeed
  (`Accepting`, strong fairness, as failing attempts come in between). Failures
  and the operator who types the answers of `tcp_pro` and `tcp_pthread` have no
  fairness.
* Clients and users need never do anything. What a client may prevent by not reading
  its echoes is an antecedent of the liveness properties: `OthersRead` says that
  every other client of `select.c`, `poll_server.c` and `epoll_server.c` reads again
  and again what fills its buffers. In `pthread_server.c` it is the client's own reading.

## Proofs

The theorems hold for every value of the constants that the named assumptions
allow: any number of threads, clients, descriptors and tasks, any capacity. Each
module `...Proofs` extends the module it is about.

| Program | Proved | Stays with TLC |
|---|---|---|
| `pro_cus.cpp` | types, `NoLostWakeup`, `SomeoneAwake`, refinement of `BoundedBuffer` | `EveryItemServed` |
| `sem.cpp` | types, `SlotAccounting`, `MutualExclusion`, refinement of `BoundedBuffer` | `ProducersServed` |
| `pthread_cond.c` | types, `NoLostWakeup`, `NodesOwnedOnce`, `Guarded` | `ConsumerWakes` |
| `pthread_pool.cpp` | types, `TaskOnce`, `QuitSafe`, `NoLostWakeup` | `EveryTaskRuns`, `WorkersLeave` |
| `pthread_server.c` | types, `NoCrossTalk`, `OneThreadPerConnection`, `NobodyForgotten` | `MessagesRead` |
| `web_server/` | types, `NoInputForgotten`, `EventsStayValid`, `NoneCutOff` | `WholeRequestAnswered` |
| `Myqq/` | types, `QuietAgrees` | `ChatSettles` |
| the nine servers | types, `ReportedReadable`, `NothingLeaked`, refinement of `ConnectionService`; `SelectWatchesAll`, `OneChildEach` | liveness in `tcp_servers` |

`CondQueueProofs`: `NoLostWakeup` is inductive together with the types: the queue
grows by one only in `QueuePush`, which either wakes a consumer, so that there is
one more up (lemma `AwakeCount`), or finds none asleep. Were all threads asleep,
no consumer would be up, so the queue would be empty, and no producer, so it
would be full. For `ImplementsBuffer` every step of `CondQueue` is shown to be
`Put`, `Get` or a stutter of `BoundedBuffer`.

`SemQueueProofs`: the invariant is the sum of `SlotAccounting` and the same sum for
`_sem_lock` (`LockAccounting`); lemma `MoveCount` says how the number of threads at
a set of places changes when one moves. Mutual exclusion follows, as two threads
inside would make the second sum at least 2. For `ImplementsBuffer` one conjunct
more is needed, `Meet`: the buffer, `Size` slots from `First` on, ends where the
producers write next. `Size` and `First` count the threads that have written and not
posted, or waited and not read; the two sums bound them (`BufferShape`), so that
every position is below twice the capacity and `%` is at most one subtraction
(`ModSmall`). Hence the slot a producer writes is none of the buffer's, and a
consumer reads the oldest: nothing compares the indices, the counts suffice.

`ProductListProofs`: one invariant of the types, `Guarded` (who is at the list holds
the mutex), that the consumer waits only on an empty list, and the two properties.
`Guarded` also justifies that an insertion and a removal are one step each.
`NodesOwnedOnce` needs the lemmas on sequences without repetition that a node is
put before or taken from.

`PthreadPoolProofs`: the invariant for the tasks has three parts. `Counts`: `_cur_size`,
and every value of it a worker has loaded, is at least the number of workers that
have not left; a lost decrement only makes it larger. `TasksInv`: a task pushed is
in the queue, in the hands of one worker, or run, and only one of them; workers on
their way out imply that the flag is set and the queue is empty. `PcOK`: what
main's place says about its counter and the flag. When `ThreadQuit` returns,
`_cur_size` is 0, hence nobody is left, hence the queue is empty and each task was
run. For `NoLostWakeup` three more: who is inside a call holds the mutex, a worker
goes to sleep on an empty queue, and only those sleep that called
`pthread_cond_wait`. A push then adds one task and one worker that is up.

`PthreadServerProofs`: everything rests on which descriptor is whose, which is in
order only while `accept` has not failed: after a failure main starts a worker for
the descriptor of the round before. Hence the invariant has types, `OneConnection` (a
client is yet to come, once in the backlog, or on one descriptor) and
`NobodyForgotten`, and, as long as `errors = 0`, `MainOK` (the descriptor main is
about to hand over is open and no worker's) and `WorkersOK` (a live worker's
descriptor is open, no other worker's, and still the connection it has read from).
The lowest free number is not a live worker's, since theirs are open.

`WebServerProofs`: beside the types and `OneConnection` the invariant says that the
ready list and the batch hold what is open, that the descriptor `do_read` is at
has left the batch, and what it has seen when it stands where it does (`ReadOK`): it
starts on a connection that is readable, and goes on to `disconnect` only with an
answer, after the end of file, or with a `stat` that found neither file nor
directory. From that follow the two invariants of the run and, step by step,
`NoneCutOff`. Of `http_request` lemma `AnswersNotEmpty` is used: it sends a head unless
`stat` found something else.

`ChatProofs`: agreement with nothing under way follows from what holds on the way,
while nothing was lost and no contact was used on two hosts (`Calm`). `WillList(w, n)` says
that window `w` will list name `n` when it has read all it has yet to read, in
whatever order it takes the senders: the last word of the name's sender is
UsrEnter, or there is none and `w` lists it now. That reading does not change it
is lemma `Reading`, and needs that one window alone speaks for a name (`OneEach`). Then:
nobody will list a user who has left (`NoGhosts`); of two windows one will list the
other (`OneWillList`); and of a window that another one will not list, either that
window does not list the other now, or it has yet to read that the other left
(`WillAnswer`), so that it will take the other for new and announce itself. Why `WillAnswer`
speaks of what is yet to be read: the other may be listed, leave and enter again in
datagrams that are all pending.

`TcpServersProofs`: about all nine servers at once, as `TcpServers` composes them and
as the run `tcp_servers` checks them. A step of any program does to the sockets one
of the few things `Sockets` defines, so what those preserve comes first
(`ClientMoveKernel`, `AcceptKernel`, `SendKernel`, `CloseKernel`). `IInv` is the part for
the sockets and one part for each program, all needed because the three
properties alone are not inductive:

* The sockets: ranges and `OneConnection`. Without it the read of one descriptor
  could take the input of another that is still to be visited.
* `SelectInv`: `reads` is `lfd` and the open descriptors, within `maxfd`; what `tmp`
  still holds is open and readable. That is kept because a descriptor is closed,
  or its input read, only in its own turn, because `accept` returns a number that
  was free and hence not in `tmp`, and because a client that has sent something
  or has left can not take it back.
* `PollInv`: every open connection has one element of `allfd`, none beyond
  `max_index`; of the first `nfds` elements, those with events whose turn is to come
  are readable. A new connection may enter one that poll saw free, which then has
  no events, or one beyond, whose `revents` is whatever memory holds and of which
  nothing is claimed. That an element is free at all is counting (`PollFree`).
* `WatchInv`, for both epoll servers: what is registered is open, and what is open
  and not registered (`Loose`) is one connection at most, and only after `epoll_ctl` has failed.
* `EpollInv`: the elements `epoll_wait` wrote are different descriptors; those whose
  turn is to come are readable. It says nothing of older elements, which the loop
  does take for events. `epoll_wait` has room for all that is ready (`ReadyBound`), as
  every ready descriptor has a client of its own.
* `NonblockInv`: while the loop is about to take an element and `ret` is positive,
  nothing was accepted or closed since `epoll_wait`, so the batch is open and
  readable; the first element leaves `ret` at -1 or 0, which ends the loop. `drain` and
  `send` are at a descriptor that is registered.
* `ForkInv`, `ProInv`: `NothingLeaked`, and `ServedOnce`: two children never serve one client,
  nor does a child serve a client who is in the backlog or at the parent's test.
  Only then does the end of one child end the connection.
* `ThreadInv`: a live thread's descriptor is open, and so is main's between `accept` and
  `pthread_create`, which no thread has; every open connection is one of these
  (`NoneForgotten`).
* `HttpInv`: at most one connection is open, and `cfd` is its descriptor. `LibeventInv`:
  a bufferevent for every open connection and no other.

For `ImplementsService`, `StateOf` is the mapping of `TcpServers.Service`, and four lemmas
say which steps the service has: nothing shows, the server stops, a client
leaves, or one connection goes on (`OneMoves`: admitted, turned away, read from,
answered, dismissed). What a client may do meanwhile is `ClientDoes`, and `Taken` that a
read took some of what there was: only the programs that are `Blind` (`http_easy`, `tcp_pro`,
`tcp_pthread`) may take nothing, and only from a client that has left. Three views tell who is in service: the programs that wait
for several descriptors, and `http_easy`, serve whoever has one open (`Direct`);
`tcp_pthread` serves with a thread, so that a connection still counts as arriving
while main has it (`ThreadViews`); `fork_server` and `tcp_pro` serve with a child, whose
copies of the descriptor do not matter (`ChildrenViews`). Each program then needs one
step of the proof per action. That a client who is dismissed has left is what `recv` said;
the invariant adds that the descriptor that is closed, or the child that ends,
is still that client's and nobody else's.

Assumptions. Threads are finite sets, and disjoint by kind; sizes are positive
numbers; `NoThread`, `NoClient` and the like are none of the things they stand
beside (`NoThreadAssumption`, `ClientAssumption`); descriptors are finitely many numbers
above `lfd`, which is opened first and kept (`DescriptorAssumption`); `allfd` has more elements
than the process has descriptors and `epoll_wait` has room for every client
(`PollAssumption`, `EpollAssumption`: 1024 and 2000 in the code); `sem.cpp`'s capacity fits its
vector; the names in the web server's directory are not empty, and those of files, of
other things and of nothing are different (`NameAssumption`). TLC evaluates all of them on
the runs' instances. Nothing is assumed of who is where in the chat.

Only model-checked: liveness everywhere (fairness and `ENABLED` are beyond the
prover), `WholeRequestAnswered` among them; and `UrlCoding`, whose functions are
evaluated on the run's names. Every invariant, action property and refinement that
a passing run checks is a theorem.

## What the runs show of the servers' weak points

These are not findings in the sense of `PROJECT.json`, as no comment of the code
says otherwise; the properties except them by name.

* `poll_server.c:69`: `events` and `revents` of a new element are not set. What is in
  memory may leave the client unpolled (`Unpolled`) or read at once, which blocks
  the server for everyone (`Blocked`). As soon as any
  client leaves, the server ends for all of them (`exit`, lines 86 and 92).
* `epoll_server.c:51`: `recv` overwrites `ret`, the bound of the loop. An old element of
  `all` is then taken for an event: the server blocks in `recv` (`Blocked`) or
  exits on a closed descriptor. Events passed over are reported again, hence
  `QuietMessagesRead`.
* `nonblock_epoll_server.c:80`: the same variable is -1 or 0 after the first event, so
  the rest of the batch waits, for ever if the first client never pauses.
* `select.c:81`, `poll_server.c:97`, `epoll_server.c:88`: `send` blocks in the only thread. A
  client that goes on sending and does not read its echoes stops the server for all
  others, for ever if it never reads: the liveness properties hold as long as
  the others read (`OthersRead`). In `fork_server.c:76` and `pthread_server.c:35` the same client
  stops its own child or thread only, and `nonblock_epoll_server.c` drops what it cannot send.
* `epoll_server.c:59`, `nonblock_epoll_server.c:65`: when `epoll_ctl` fails for a new connection, an error
  is printed and the connection stays open with nobody to watch it (`Unwatched`).
* `web_server/epoll_server.c:141-166`: `stat` may find a FIFO, a device or a socket. Nothing
  is sent then, and line 101 disconnects the client that waits.
* `libevent_server.c:13`: of a message longer than 1024 bytes the rest stays in the input
  buffer (`input`) and is taken when more arrives, if ever.
* `dialolist.cpp:19`, `widget.cpp:153`: every host has the same nine contacts, and users are told
  apart by name only. A contact opened on two hosts and closed on one disappears
  from every list, also from that of the window that is still open (`shared`).
* `http_easy.cpp:28`: a client that sends nothing keeps all others waiting.
* `tcp_pro.cpp:34`, `tcp_pthread.cpp`, `http_easy.cpp:28`: the result of `Recv` is not looked at, so that a
  client that has left is answered as if it had sent something (`blind`). In the first
  two the process or thread then waits for the operator, and only SIGPIPE ends
  it (with all threads, in `tcp_pthread`).
* `fork_server.c:53`: the handler's `waitpid` sets `errno`, and the parent calls `fork`
  with `cfd` at -1. The run shows that this does no lasting harm: the child ends
  at its first read. A failing `fork` leaves `cfd` open in the parent.

## Not modelled

* Content: what is printed, the payload of messages, the text of an answer.
* The web server: `get_file_type`, directories below the first, and a send that the
  non-blocking socket takes only in part (`send_file` skips the rest).
* Clients that open several connections; a client and its connection are one.
  Clients that close one direction only, and a client whose buffers are full and that
  ends in order: with answers unread it ends by a reset.
* In the pool and the servers: failing `malloc`, and failing `pthread_create` in
  `pthread_server.c`. In `tcp_servers` a second failure of the calls that fail once (see Bounds).
* `poll_server.c:73` with no free element: `PollAssumption` says that the process has
  fewer descriptors than the 1024 elements of `allfd`, which is the usual limit.
* `TcpSocket::Close` of the HTTP server ends without a return statement
  (`tcpsocket.hpp:148`); it is modelled as returning, as it does without optimisation,
  which the makefile does not ask for.
* A ring with a capacity above the 10 elements of its vector (`sem.cpp:7`): the
  constructor would allow it, `main` never asks for it.
* In the chat: two datagrams of one sender that are read in another order than they
  were sent, `Msg`, the editor's buttons.
* The rest of a long message in `libevent_server.c`: of the input buffer the model keeps
  whether it is empty.
* The programs listed as `not_modelled` in `PROJECT.json`, with the reason.

## Plan

1. Done: `Monitor`, `BoundedBuffer`, `CondQueue`, `SemQueue`, `ProductList`,
   `PthreadPool`, `Sockets`, `PthreadServer`, `WebServer`, `UrlCoding`, `Chat`; the nine
   servers under `TcpServers`; the proofs above.
2. Done: every safety property of the passing runs is a theorem, and each of the
   nine servers is proved to implement `ConnectionService`.
3. `WebServer`: partial sends. `Chat`: `Msg`.
4. The tokenizer of `minishell.c` as a function checked over bounded inputs; the UDP
   echo programs, whose clients wait for ever for a lost datagram.
