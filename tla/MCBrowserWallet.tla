--------------------------- MODULE MCBrowserWallet ---------------------------
(***************************************************************************)
(* An instance of the browser wallet: two tabs, two notes one after the    *)
(* other, and a cap that is lowered, raised or that of another deployment  *)
(* between two calls.  Ids, anchors and tabs are only ever compared.       *)
(***************************************************************************)
EXTENDS BrowserWallet, TLC

CONSTANTS here, elsewhere

MCConfigs ==
    {[deployment |-> here, cap |-> 1], [deployment |-> here, cap |-> 2],
     [deployment |-> elsewhere, cap |-> 1]}

Symmetry ==
    Permutations(Ids) \cup Permutations(Anchors) \cup Permutations(Tabs)
    \cup Permutations(Notes)
=============================================================================
