CONSTANTS
  Req = {r1, r2, r3, r4}
  Run = {w1, w2, w3}
  NoReq = NoReq
  NItems = 2
  Answer = {"a"}
  Mark = {0, 1}
  Mode = "exam"
  Calls = {"save_draft", "submit_exam", "create_objection", "regrade_item", "retry_job", "cancel_job"}
  Faults = {"request", "db", "ai"}
  MaxOpen = 1
  Workers = 1
SPECIFICATION Spec
INVARIANTS
  TypeOK
  TotalsAgree
  OneFinalSubmission
  MarkedFromSheet
  PendingHasObjection
PROPERTIES
  SheetClosed
  DecisionIsFinal
  ImplementsExamPaper
SYMMETRY Symmetry
CHECK_DEADLOCK FALSE
