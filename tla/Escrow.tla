------------------------------- MODULE Escrow -------------------------------
(***************************************************************************)
(* What the vault promises to the owner of a note and to the operator,     *)
(* without roots, nullifiers, proofs or clocks: a deposit is held until it *)
(* is settled exactly once, the two shares of a settlement add up to the   *)
(* deposit, and an exit that has begun either falls back to holding the    *)
(* deposit or settles with the share it announced.                         *)
(***************************************************************************)
EXTENDS Naturals

CONSTANTS Ids, Shares

VARIABLES account       \* one record per id

Empty == [phase |-> "empty", deposit |-> 0, claim |-> 0, user |-> 0,
          operator |-> 0]

Init == account = [id \in Ids |-> Empty]

Become(id, record) == account' = [account EXCEPT ![id] = record]

Open(id, amount) ==
    /\ account[id].phase = "empty"
    /\ amount # 0
    /\ Become(id, [phase |-> "held", deposit |-> amount, claim |-> 0,
                   user |-> 0, operator |-> 0])

BeginExit(id, share) ==
    /\ account[id].phase = "held"
    /\ share <= account[id].deposit
    /\ Become(id, [account[id] EXCEPT !.phase = "exiting", !.claim = share])

CancelExit(id) ==
    /\ account[id].phase = "exiting"
    /\ Become(id, [account[id] EXCEPT !.phase = "held", !.claim = 0])

\* A holder may be settled with any share; an exiting one with its claim.
Settle(id, share) ==
    /\ \/ account[id].phase = "held"
       \/ account[id].phase = "exiting" /\ share = account[id].claim
    /\ share <= account[id].deposit
    /\ Become(id, [account[id] EXCEPT !.phase = "settled", !.claim = 0,
                     !.user = share,
                     !.operator = account[id].deposit - share])

Next ==
    \E id \in Ids, a \in Shares :
        Open(id, a) \/ BeginExit(id, a) \/ CancelExit(id) \/ Settle(id, a)

Spec == Init /\ [][Next]_account
=============================================================================
