SPECIFICATION Spec
CONSTANTS
  P1 = P1
  P2 = P2
  T1 = T1
  NoPath = NoPath
  BadTracker = BadTracker
  Names <- SomeNames
  Paths = {P1, P2}
  Trackers = {T1}
  Ports = {1000, 1001, 22335}
  DefaultPort = 22335
  Taken = {22335}
  Neighbours = {22335}
  Routers = {TRUE, FALSE}
  Loose = {P1}
  MaxStarts = 3
  MaxAdds = 2
  ThreadAlone = TRUE
INVARIANTS
  TypeOK
  StartRestores
  PortIsChosen
  OwnUrlIsServed
  RedirectIsTrue
