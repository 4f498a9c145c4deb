\* Two sessions started, the only writers of file content; no database
\* failures.  Three environment steps: an edit in one session, an image
\* the other stores while the first's notification waits on its socket.
CONSTANTS
    s1 = s1
    s2 = s2
    Sessions = {s1, s2}
    FileIds <- MCFileIds
    InitialFiles = {13}
    WspaceId = 3
    Contents = {c1, c2}
    InitData = c1
    ImgName = ImgName
    NewName = NewName
    DotName = DotName
    NoFile = NoFile
    UninitFlags = FALSE
    DBFailures = FALSE
    OtherWriters = FALSE
    ImageRemovals = FALSE
    NotifyCalls = FALSE
    Startup = FALSE
    MaxWd = 5
    MaxVersion = 3
    MaxEnv = 3
    MaxImages = 1
    MaxReadEvents = 2
SPECIFICATION Spec
CONSTRAINT StateBound
\* An idle reactor blocks in event_base_loop waiting for events.
CHECK_DEADLOCK FALSE
SYMMETRY SessionSymmetry
INVARIANTS
    Converged
