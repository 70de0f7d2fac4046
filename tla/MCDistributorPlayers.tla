------------------------ MODULE MCDistributorPlayers ------------------------
(* Small instances of DistributorPlayers for TLC. *)
EXTENDS DistributorPlayers

=============================================================================
