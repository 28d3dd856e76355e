CONSTANTS
  c1 = c1
  c2 = c2
  Clients <- MCClients
  NoClient = NoClient
  Fds <- MCFds
  MaxUnread = 1
  Workers <- MCWorkers
  NumSlots = 2
  MaxAcceptErrors = 1
SPECIFICATION Spec
\* main may return, and the clients may have nothing more to do
CHECK_DEADLOCK FALSE
INVARIANT SlotsReused
