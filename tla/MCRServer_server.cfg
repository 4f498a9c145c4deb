\* Three clients, descriptors for all of them; fork and execve may fail.
CONSTANTS
    c1 = c1
    c2 = c2
    c3 = c3
    Clients <- MCClients
    BaseFds = 3
    MaxFds = 6
    Backlog = 2
    ForkFails = TRUE
    ExecFails = TRUE
SPECIFICATION Spec
\* Once every session has ended, rserver blocks in event_base_dispatch.
CHECK_DEADLOCK FALSE
PROPERTY
    ConnectionHandedOff
