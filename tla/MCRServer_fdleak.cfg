\* Three clients, descriptors for two of them; fork and execve succeed.
CONSTANTS
    c1 = c1
    c2 = c2
    c3 = c3
    Clients <- MCClients
    BaseFds = 3
    MaxFds = 5
    Backlog = 2
    ForkFails = FALSE
    ExecFails = FALSE
SPECIFICATION Spec
\* Once every session has ended, rserver blocks in event_base_dispatch.
CHECK_DEADLOCK FALSE
PROPERTY
    ConnectionHandedOff
