--------------------------- MODULE MCFileManager ---------------------------
(***************************************************************************)
(* Model-checking instance of FileManager.  File ids 3 and 13 with        *)
(* workspace 3 make the payload "i3/3" parse as workspace 0 and "i13/3"   *)
(* as 3, and make file id 3 equal the watch descriptor of the second      *)
(* watched file (the root holds 1), so an erase by id hits another entry. *)
(***************************************************************************)
EXTENDS FileManager, TLC

CONSTANTS s1, s2   \* session processes

MCFileIds == {3, 13}

\* Sessions are interchangeable: same workspace, same files.
SessionSymmetry == Permutations({s1, s2})

=============================================================================
