---------------------------- MODULE MCHostFsLink ----------------------------
(***************************************************************************)
(* HostFsLink with one or two clients.                                      *)
(***************************************************************************)
EXTENDS HostFsLink, TLC

CONSTANTS c1, c2

Symmetry == Permutations({c1, c2})

NotCaught == ~caught
=============================================================================
