SPECIFICATION Spec
CONSTANTS
  Clients = {c1, c2}
  NoClient = NoClient
  Payloads <- PutNumbers
  COUNT_SIZE = 6
INVARIANTS
  TypeOK
  CountComesOut
  
 
