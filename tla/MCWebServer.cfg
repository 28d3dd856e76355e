CONSTANTS
  c1 = c1
  c2 = c2
  Clients <- MCClients
  NoClient = NoClient
  Fds <- MCFds
  lfd = lfd
  MaxSegments = 2
  Files <- MCFiles
  Special <- MCSpecial
  Nowhere <- MCNowhere
SPECIFICATION FairSpec
\* the clients may have nothing more to do, and the server may exit
CHECK_DEADLOCK FALSE
INVARIANT TypeOK
INVARIANT NoInputForgotten
INVARIANT EventsStayValid
PROPERTY NoneCutOff
PROPERTY WholeRequestAnswered
