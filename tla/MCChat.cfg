CONSTANTS
  a = a
  b = b
  h1 = h1
  h2 = h2
  Windows <- MCWindows
  MaxOpens = 3
  MaxPending = 2
SPECIFICATION FairSpec
\* the users may have nothing more to do
CHECK_DEADLOCK FALSE
INVARIANT TypeOK
INVARIANT QuietAgrees
PROPERTY ChatSettles
