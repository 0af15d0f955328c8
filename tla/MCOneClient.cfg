CONSTANTS
  Req = {r1, r2, r3, r4}
  Run = {w1}
  NoReq = NoReq
  NItems = 2
  Answer = {"a"}
  Mark = {0, 1}
  Mode = "normal"
  Calls = {"submit_answer", "complete", "batch"}
  Faults = {"request"}
  MaxOpen = 1
  Workers = 1
SPECIFICATION Spec
INVARIANTS
  OneActiveResult
  TotalsAgree
PROPERTIES
  GradedRejectsAnswers
SYMMETRY Symmetry
CHECK_DEADLOCK FALSE
