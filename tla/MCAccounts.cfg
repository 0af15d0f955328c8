\* Two guests' ids and quizzes; three pairs of tokens and two requests; two checkouts,
\* notifications and handlers; one user and two jobs in the administrator's tables.
CONSTANTS
    Ids <- MCIds
    MaxQuizzes = 2
    MaxUploads = 1
    MaxTries = 6
    GuestFaults = {"network", "limit", "check", "cleanup"}
    Requests = {r1, r2}
    MaxPairs = 3
    MaxActs = 7
    ClientFaults = {"network", "tab", "reload"}
    Smtp = TRUE
    MaxMails = 2
    Plans = {"lite", "pro"}
    Packs = {"5gb"}
    StoragePacks = {"5gb"}
    Handlers = {h1, h2}
    MaxCheckouts = 2
    MaxNotes = 2
    BillingFaults = {"network", "crash"}
    Users = {u1}
    MaxJobs = 2
    MaxSteps = 4
    AdminFaults = {"network", "reload", "expiry"}
SPECIFICATION Spec
INVARIANTS
    
    PreparingIsWatched
    SignupKeepsQuiz
    
    CreditsOnce
SYMMETRY Symmetry
CHECK_DEADLOCK FALSE
