------------------------------ MODULE RServer ------------------------------
(***************************************************************************)
(* The rserver front end (src/src/RServer.cpp): one libevent loop with a  *)
(* persistent read event on the listening socket.  Each callback accepts  *)
(* one connection and forks; the child execs rsession with the client     *)
(* socket's number, the parent goes back to the loop.                     *)
(*                                                                         *)
(* A descriptor is a client connection (a model value).  A connection is  *)
(* open while some process holds it: the server, or a live child, which   *)
(* inherits every socket the server holds at fork (none is close-on-exec) *)
(* and keeps them across execve.                                          *)
(***************************************************************************)
EXTENDS Naturals, Sequences, FiniteSets

CONSTANTS
    Clients,    \* client connections
    BaseFds,    \* descriptors the server holds before any accept: stdio,
                \* the event base's and the listening socket
    MaxFds,     \* bound: RLIMIT_NOFILE of the server process
    Backlog,    \* listen(listener, 16): connections the kernel queues
    ForkFails,  \* TRUE: fork() may fail (EAGAIN, ENOMEM)
    ExecFails   \* TRUE: execve of rsession may fail

ASSUME /\ BaseFds \in Nat /\ MaxFds \in Nat /\ BaseFds < MaxFds
       /\ Backlog \in Nat \ {0}
       /\ ForkFails \in BOOLEAN /\ ExecFails \in BOOLEAN

VARIABLES
    client,    \* per client: "idle", "queued" in the backlog, "accepted"
    backlog,   \* the listen queue, oldest first
    srvFds,    \* client sockets open in the server process
    child,     \* per client: its child "none", "forked", "session", "exited"
    childFds   \* per client: the client sockets its child process holds

vars == <<client, backlog, srvFds, child, childFds>>

Live(c) == child[c] \in {"forked", "session"}

\* The client's connection stays open while any process holds its socket.
Open(c) == c \in srvFds \/ \E d \in Clients : Live(d) /\ c \in childFds[d]

Init ==
    /\ client = [c \in Clients |-> "idle"]
    /\ backlog = <<>>
    /\ srvFds = {}
    /\ child = [c \in Clients |-> "none"]
    /\ childFds = [c \in Clients |-> {}]

TypeOK ==
    /\ client \in [Clients -> {"idle", "queued", "accepted"}]
    /\ backlog \in Seq(Clients)
    /\ srvFds \subseteq Clients
    /\ child \in [Clients -> {"none", "forked", "session", "exited"}]
    /\ childFds \in [Clients -> SUBSET Clients]

\* A client connects; the kernel completes the handshake into the backlog.
Connect(c) ==
    /\ client[c] = "idle"
    /\ Len(backlog) < Backlog
    /\ client' = [client EXCEPT ![c] = "queued"]
    /\ backlog' = Append(backlog, c)
    /\ UNCHANGED <<srvFds, child, childFds>>

\* Mutant: when fork fails the accepted socket is not closed.
ForkFailedKeepsSocket(c) == srvFds' = srvFds \cup {c}

\* fork() == -1: close(clientSock).
ForkFailed(c) == srvFds' = srvFds

\* handleEvent: accept the oldest connection, then fork.  The child starts
\* with a copy of every descriptor the server holds, the new socket
\* included; the parent keeps its copy of clientSock.  At the descriptor
\* limit accept() returns -1 (EMFILE): handleEvent returns, the connection
\* stays in the backlog and the level-triggered listener fires again.
HandleEvent ==
    /\ backlog # <<>>
    /\ IF BaseFds + Cardinality(srvFds) >= MaxFds
       THEN UNCHANGED vars
       ELSE LET c == Head(backlog) IN
            /\ backlog' = Tail(backlog)
            /\ client' = [client EXCEPT ![c] = "accepted"]
            /\ \/ /\ srvFds' = srvFds \cup {c}
                  /\ child' = [child EXCEPT ![c] = "forked"]
                  /\ childFds' = [childFds EXCEPT ![c] = srvFds \cup {c}]
               \/ /\ ForkFails
                  /\ ForkFailed(c)
                  /\ UNCHANGED <<child, childFds>>

\* The child execs rsession -s <clientSock>; if execve fails it prints the
\* error and exits, releasing its descriptors.
ChildExec(c) ==
    /\ child[c] = "forked"
    /\ \/ /\ child' = [child EXCEPT ![c] = "session"]
          /\ UNCHANGED childFds
       \/ /\ ExecFails
          /\ child' = [child EXCEPT ![c] = "exited"]
          /\ childFds' = [childFds EXCEPT ![c] = {}]
    /\ UNCHANGED <<client, backlog, srvFds>>

\* The rsession process ends (the user closes the session).
SessionEnd(c) ==
    /\ child[c] = "session"
    /\ child' = [child EXCEPT ![c] = "exited"]
    /\ childFds' = [childFds EXCEPT ![c] = {}]
    /\ UNCHANGED <<client, backlog, srvFds>>

Next ==
    \/ \E c \in Clients : Connect(c) \/ ChildExec(c) \/ SessionEnd(c)
    \/ HandleEvent

\* event_base_dispatch keeps running the listener callback while a
\* connection is pending, and a forked child runs; clients and sessions
\* need not act.
Fairness == WF_vars(HandleEvent) /\ \A c \in Clients : WF_vars(ChildExec(c))

Spec == Init /\ [][Next]_vars /\ Fairness

\* Every connection a client makes is eventually taken by the server and
\* either handed to a child process or closed (handleEvent's fork-failure
\* path): no client waits for ever on an open connection nobody serves.
ConnectionHandedOff ==
    \A c \in Clients :
        client[c] = "queued" ~> (client[c] = "accepted" /\
                                 (child[c] # "none" \/ ~Open(c)))

=============================================================================
