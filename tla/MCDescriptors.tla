--------------------------- MODULE MCDescriptors ---------------------------
(***************************************************************************)
(* One descriptor to listen and three for clients, and one client more     *)
(* than that, so that closed descriptors are handed out again.             *)
(***************************************************************************)
EXTENDS Descriptors, TLC

MCFds == 0 .. 3

Symmetry == Permutations(Connections)
=============================================================================
