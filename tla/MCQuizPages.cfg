\* Waiting: two visits, one broken connection, every fault.  Taking: a text question and a
\* choice question, in both modes, opened twice, with two answers or skips.
CONSTANTS
    MaxRetries = 2
    MaxDrops = 1
    MaxLooks = 2
    StreamFaults = {"token", "network", "error", "rejected", "task"}
    N = 2
    Choice = {2}
    Modes = {"normal", "exam"}
    Others = 1
    MaxAnswers = 2
    MaxVisits = 2
    TakeFaults = {"credit", "lost", "network"}
SPECIFICATION Spec
INVARIANTS
    QuizPagesConsistent
    AnswersReachServer
    ExamAnswersAreKept
PROPERTIES
    WaitingEnds
CHECK_DEADLOCK FALSE
