\* One session from before initFileManager, with other writers, failing
\* statements and images removed.
CONSTANTS
    s1 = s1
    s2 = s2
    Sessions = {s1}
    FileIds <- MCFileIds
    InitialFiles = {13}
    WspaceId = 3
    Contents = {c1, c2}
    InitData = c1
    ImgName = ImgName
    NewName = NewName
    DotName = DotName
    NoFile = NoFile
    UninitFlags = FALSE
    DBFailures = TRUE
    OtherWriters = TRUE
    ImageRemovals = TRUE
    NotifyCalls = TRUE
    Startup = TRUE
    MaxWd = 5
    MaxVersion = 3
    MaxEnv = 3
    MaxImages = 1
    MaxReadEvents = 2
SPECIFICATION Spec
CONSTRAINT StateBound
\* An idle reactor blocks in event_base_loop waiting for events.
CHECK_DEADLOCK FALSE
INVARIANTS
    TypeOK
PROPERTIES
    EchoWindowCloses
