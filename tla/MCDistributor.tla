--------------------------- MODULE MCDistributor ---------------------------
(* Small instances of Distributor for TLC. *)
EXTENDS Distributor, TLC

PlayerSymmetry == Permutations(Players)

=============================================================================
