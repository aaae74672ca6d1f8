---------------------------- MODULE MCZkApiVault ----------------------------
(***************************************************************************)
(* Instances of ZkApiVault for TLC.  The adapter accepts every proof, so   *)
(* the contract's own checks carry every property.  One account refuses    *)
(* payments; it may be a destination and, by the owner's choice, the       *)
(* treasury.                                                               *)
(***************************************************************************)
EXTENDS ZkApiVault

CONSTANTS user, operator, zero, n1, n2, here, elsewhere

MCAddresses == {user, operator, zero}
MCRejecting == {user}
MCNullifiers == {n1, n2}
MCAcceptAny(inputs) == TRUE
=============================================================================
