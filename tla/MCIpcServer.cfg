\* Two connections, the broadcasts of one goroutine, errors, peers that stall or go, and
\* Close at any moment.
SPECIFICATION FairSpec
CONSTANTS
  Clients = {c1, c2}
  Broadcasters = {worker}
  Nobody = Nobody
  MaxErrors = 2
INVARIANTS TypeOK ClosedQuiet
PROPERTIES LinesWhole Delivered CloseReturns BroadcastEnds ClosedIsLeft
