\* Two uploads for one slot, one of them dropped twice or retried; a file that is being
\* processed and one that is ready, a folder, and two mutations that overlap.
CONSTANTS
    a = a
    b = b
    f1 = f1
    f2 = f2
    d1 = d1
    Chosen = {a, b}
    Invalid = {}
    Copies = 2
    Concurrency = 1
    MaxItems = 2
    QueueRetries = 1
    QueueFaults = {"expiry", "refusal"}
    File = {f1, f2}
    Uploaded = {f1}
    Folder = {d1}
    Existing = {d1}
    MaxRetries = 1
    MaxOps = 2
    FilesFaults = {"crash", "dispatch"}
SPECIFICATION Spec
SYMMETRY Symmetry
INVARIANTS
    QueueConsistent
    FilesConsistent
    NoIdleSlot
    
CHECK_DEADLOCK FALSE
