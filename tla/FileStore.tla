----------------------------- MODULE FileStore -----------------------------
(***************************************************************************)
(* What the rcfile table promises its clients (spec section 2, FileRecord *)
(* and section 8): a file is added once with version 1, each successful   *)
(* content update bumps its version by exactly one, and a deleted file    *)
(* stays deleted.  FileManager's database is shown to implement it.      *)
(***************************************************************************)
EXTENDS Naturals

CONSTANTS
    Files,     \* ids of the rows of one workspace
    Contents   \* file contents

VARIABLE store  \* row per id: [state, version, data]

Init ==
    store \in [Files -> [state : {"new", "live"}, version : Nat,
                         data : Contents]]

\* A new row: version 1.
Insert(f) ==
    /\ store[f].state = "new"
    /\ \E c \in Contents :
          store' = [store EXCEPT ![f] = [state |-> "live", version |-> 1,
                                           data |-> c]]

\* A content update: the version grows by exactly one.
Update(f) ==
    /\ store[f].state = "live"
    /\ \E c \in Contents :
          store' = [store EXCEPT ![f] = [state |-> "live",
                                           version |-> @.version + 1,
                                           data |-> c]]

Delete(f) ==
    /\ store[f].state = "live"
    /\ store' = [store EXCEPT ![f].state = "deleted"]

Next == \E f \in Files : Insert(f) \/ Update(f) \/ Delete(f)

Spec == Init /\ [][Next]_store

=============================================================================
