SPECIFICATION Spec
CONSTANTS
  C1 = C1
  C2 = C2
  R1 = R1
  R2 = R2
  R3 = R3
  Localhost1 = Localhost1
  Address1 = Address1
  Address2 = Address2
  NoRequest = NoRequest
  Clients = {C1, C2}
  UrlOf <- SomeUrls
  Canon <- SomeCanon
  Ids = {R1, R2, R3}
  MaxFailures = 1
SYMMETRY AnyRequest
INVARIANTS
  TypeOK
  NotItsOwnPeer
  OthersAreFound
