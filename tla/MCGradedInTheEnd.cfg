CONSTANTS
  Req = {r1, r2, r3}
  Run = {w1, w2, w3}
  NoReq = NoReq
  NItems = 1
  Answer = {"a"}
  Mark = {0}
  Mode = "exam"
  Calls = {"save_draft", "submit_exam", "create_objection"}
  Faults = {"crash"}
  MaxOpen = 1
  Workers = 1
SPECIFICATION FairSpec
PROPERTIES
  ExamIsGraded
  ObjectionIsDecided
CHECK_DEADLOCK FALSE
