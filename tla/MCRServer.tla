----------------------------- MODULE MCRServer -----------------------------
(***************************************************************************)
(* Three clients of rserver, as model values; they are interchangeable.   *)
(***************************************************************************)
EXTENDS RServer, TLC

CONSTANTS c1, c2, c3

MCClients == {c1, c2, c3}

ClientSymmetry == Permutations(MCClients)

=============================================================================
