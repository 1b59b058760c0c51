--------------------------- MODULE MCF17FSStores ---------------------------
(***************************************************************************)
(* An instance of F17FSStores for TLC.                                     *)
(***************************************************************************)
EXTENDS F17FSStoresInvariant, TLC

CONSTANTS n1, n2

NoPrefixes == {}

NameSymmetry == Permutations(Names)
=============================================================================
