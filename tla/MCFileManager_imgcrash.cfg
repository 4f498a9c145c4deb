\* The image pipeline alone: one session, no rcfiles, two images; a close-write
\* may still be queued when RSession calls cleanupImageWatch.
CONSTANTS
    s1 = s1
    s2 = s2
    Sessions = {s1}
    FileIds = {}
    InitialFiles = {}
    WspaceId = 3
    Contents = {c1}
    InitData = c1
    ImgName = ImgName
    NewName = NewName
    DotName = DotName
    NoFile = NoFile
    UninitFlags = FALSE
    DBFailures = FALSE
    OtherWriters = FALSE
    ImageRemovals = FALSE
    NotifyCalls = FALSE
    Startup = FALSE
    MaxWd = 5
    MaxVersion = 3
    MaxEnv = 7
    MaxImages = 2
    MaxReadEvents = 2
SPECIFICATION Spec
CONSTRAINT StateBound
\* An idle reactor blocks in event_base_loop waiting for events.
CHECK_DEADLOCK FALSE
INVARIANTS
    EventsResolvable
