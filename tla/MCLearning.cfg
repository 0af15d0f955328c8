\* Studying: two documents, two things done or connections broken, every fault.  Setting up: two files, one of
\* them in a folder, and four notes, one without a concept.
CONSTANTS
    d1 = d1
    d2 = d2
    f1 = f1
    f2 = f2
    Docs = {d1, d2}
    FolderOf <- MCFolderOf
    Studied = d1
    Cards <- MCCards
    Maps <- MCMaps
    Concepts = {c1}
    Existing = {"flashcards", "mindmap", "concept-notes"}
    MaxRetries = 1
    ChatRetries = 1
    MaxActs = 3
    MaxQuestions = 2
    MaxNewChats = 1
    MaxBreaks = 1
    MaxForms = 3
    MaxUse = 2
    Faults = {"network", "ai", "task", "dispatch", "gone"}
    ChatFaults = {"network", "ai"}
    StartFaults = {"topic", "list"}
    None = None
    n1 = n1
    n2 = n2
    n3 = n3
    n4 = n4
    c1 = c1
    c2 = c2
    g1 = g1
    g2 = g2
    File = {f1, f2}
    Folder = d
    FolderFiles = {f1}
    Note = {n1, n2, n3, n4}
    NotesIncorrect = {n1, n3}
    Concept = {c1, c2}
    ConceptOf <- MCConceptOf
    Group = {g1, g2}
    GroupOf <- MCGroupOf
    PageSize = 2
    Tier = {eco}
    OldTier = old
    Stored = {old}
    Slot = {1}
    Text = {t}
    MaxPosts = 1
    MaxEdits = 3
    MaxMoves = 2
    SetupUse = 4
SPECIFICATION Spec
INVARIANTS
    
    
    ThinkingHasStream
    MapIsDrawnWhole
    KeysAreOffered
CHECK_DEADLOCK FALSE
