----------------------------- MODULE MCTreeMirror -----------------------------
(***************************************************************************)
(* The mirror of a token vault with a tree of depth 2.                     *)
(***************************************************************************)
EXTENDS TreeMirror

CONSTANTS operator, zero, n1, n2, here

MCAddresses == {operator, zero}
MCNullifiers == {n1, n2}
MCAcceptAny(inputs) == TRUE
===============================================================================
