CONSTANTS
  Req = {r1, r2, r3}
  Run = {w1, w2}
  NoReq = NoReq
  NItems = 2
  Answer = {"a"}
  Mark = {0, 1}
  Mode = "normal"
  Calls = {"submit_answer", "complete", "batch", "create_objection", "regrade_item"}
  Faults = {"request", "db"}
  MaxOpen = 2
  Workers = 2
SPECIFICATION Spec
INVARIANTS
  AnsweredKeepsResult
  GradedIsComplete
  PlansAreSafe
SYMMETRY Symmetry
CHECK_DEADLOCK FALSE
