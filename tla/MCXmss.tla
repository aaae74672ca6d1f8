-------------------------------- MODULE MCXmss --------------------------------
(***************************************************************************)
(* An instance of XMSS with digits in base 3: trees of height 2, a digest  *)
(* that exceeds its two digits, and digests at both ends of the range,     *)
(* where the checksum is at its ends too.                                  *)
(***************************************************************************)
EXTENDS Xmss
=============================================================================
