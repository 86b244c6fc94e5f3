SPECIFICATION Spec
CONSTANTS
  w1 = w1
  w2 = w2
  w3 = w3
  proc1 = proc1
  proc2 = proc2
  r1 = r1
  r2 = r2
  u1 = u1
  Processes = {proc1, proc2}
  Workers = {w1, w2, w3}
  ProcessOf <- MCProcessOf
  Records = {r1, r2}
  UrlOf <- MCUrlOf
  MaxMemory = 1
INVARIANTS
  StoreInv
PROPERTIES
  ImplementsUniqueStore
