CONSTANTS
  c1 = c1
  c2 = c2
  Clients <- MCClients
  NoClient = NoClient
  Fds <- MCFds
  lfd = 3
  MaxUnread = 1
  Pids <- MCPids
  Tids <- MCPids
  NumElements = 4
  NumEvents = 2
SPECIFICATION FairSpec
\* a server may exit, and the clients may have nothing more to do
CHECK_DEADLOCK FALSE
INVARIANT TypeOK
INVARIANT ReportedReadable
 
PROPERTY ServicePromise

PROPERTY MessagesRead
PROPERTY QuietMessagesRead
PROPERTY LeaversDismissed
PROPERTY ZombiesReaped
