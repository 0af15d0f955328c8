CONSTANTS
  Req = {r1, r2, r3, r4}
  Run = {w1, w2}
  NoReq = NoReq
  NItems = 3
  Answer = {"a"}
  Mark = {0, 1}
  Mode = "normal"
  Calls = {"complete", "create_objection"}
  Faults = {"ai", "charge", "verdict"}
  MaxOpen = 1
  Workers = 1
SPECIFICATION Spec
INVARIANTS
  PendingHasObjection
  
SYMMETRY Symmetry
CHECK_DEADLOCK FALSE
