SPECIFICATION Spec
CONSTANTS
  r1 = r1
  r2 = r2
  r3 = r3
  q1 = q1
  q2 = q2
  A = A
  B = B
  None = None
  Request = {r1, r2, r3}
  Query = {q1, q2}
  Seed = {A, B}
  Fleets <- MCFleets
  MaxEpoch = 3
  InFlight = 2
SYMMETRY Symmetry
INVARIANTS TypeOK ReadsOneState NoLostEdit
PROPERTIES KeepsContract
CHECK_DEADLOCK FALSE
