------------------------------- MODULE MCWallet -------------------------------
(***************************************************************************)
(* An instance of the v2 wallet: two notes one after the other and two     *)
(* requests.  No symmetry, as liveness is checked too.                     *)
(***************************************************************************)
EXTENDS Wallet
=============================================================================
