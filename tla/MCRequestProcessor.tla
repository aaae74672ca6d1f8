-------------------------- MODULE MCRequestProcessor --------------------------
(***************************************************************************)
(* Instances of the server.  The request `first` may be retried as it is   *)
(* (`first`), re-proved for a moved root under the same client id and      *)
(* payload (`again`), or meet another request on the same nullifier        *)
(* (`rival`, same client id and another payload).  `other` spends another  *)
(* nullifier under the same client id.  Each of the last ones fails one    *)
(* check of process_request.                                               *)
(***************************************************************************)
EXTENDS RequestProcessor

CONSTANTS n1, n2, root1, root2, here, elsewhere

MCNullifiers == {n1, n2}
MCOneNullifier == {n1}
MCRoots == {root1, root2}
MCOneRoot == {root1}
MCTrusted == {<<0, 0>>, <<1, 7>>}

first == [nullifier |-> n1, clientId |-> "id", payload |-> "p",
          payloadHash |-> "p", commitment |-> 1, deployment |-> here,
          root |-> root1, expiry |-> 1, bound |-> ChargeCap,
          statement |-> "request", stateSig |-> <<0, 0>>, proof |-> "valid"]
again == [first EXCEPT !.root = root2, !.commitment = 2]
rival == [first EXCEPT !.payload = "q", !.payloadHash = "q"]
other == [first EXCEPT !.nullifier = n2, !.stateSig = <<1, 7>>]
malformed ==
    {[first EXCEPT !.payloadHash = "q"],
     [first EXCEPT !.deployment = elsewhere],
     [first EXCEPT !.bound = 0],
     [first EXCEPT !.statement = "withdrawal"],
     [first EXCEPT !.stateSig = <<0, 7>>],
     [first EXCEPT !.proof = "invalid"]}

MCRace == {first, rival}
MCAll == {first, again, rival, other} \cup malformed
=============================================================================
