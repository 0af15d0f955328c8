CONSTANTS
  Req = {r1, r2, r3}
  Run = {w1, w2, w3}
  NoReq = NoReq
  NItems = 2
  Answer = {"a"}
  Mark = {0, 1}
  Mode = "exam"
  Calls = {"save_draft", "submit_exam"}
  Faults = {"request", "db", "charge", "crash"}
  MaxOpen = 2
  Workers = 1
SPECIFICATION Spec
INVARIANTS
  
  
  GradedIsComplete
  AnsweredKeepsResult
SYMMETRY Symmetry
CHECK_DEADLOCK FALSE
