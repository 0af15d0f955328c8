CONSTANTS
  Req = {r1, r2}
  Run = {w1}
  NoReq = NoReq
  NItems = 2
  Answer = {"a"}
  Mark = {0, 1}
  Mode = "exam"
  Calls = {"submit_exam"}
  Faults = {}
  MaxOpen = 2
  Workers = 1
SPECIFICATION Spec
INVARIANTS
  OneFinalSubmission
SYMMETRY Symmetry
CHECK_DEADLOCK FALSE
