----------------------------- MODULE MCSettlement -----------------------------
(***************************************************************************)
(* Two notes of a native vault, two requests between them.                 *)
(***************************************************************************)
EXTENDS Settlement

CONSTANTS operator, zero, here

MCAddresses == {operator, zero}
MCNullifiers == {NullifierOf(s, a) : s \in Commitments, a \in Anchors}
MCAcceptAny(inputs) == TRUE
===============================================================================
