-------------------------- MODULE NullifierLedger --------------------------
(***************************************************************************)
(* What the zkAPI server promises about a nullifier: it meets one fate,    *)
(* once.  Either it is spent on one successor state, or it is cleared for  *)
(* a mutual close, and whatever the server lets out of its hands about it  *)
(* is that fate, already decided.                                          *)
(***************************************************************************)
CONSTANTS Nullifiers, Successors, Undecided, Cleared

VARIABLES
    fate,        \* what has become of each nullifier
    published    \* the <<nullifier, fate>> pairs anyone outside has seen

vars == <<fate, published>>

Init ==
    /\ fate = [n \in Nullifiers |-> Undecided]
    /\ published = {}

Decide(n, outcome) ==
    /\ fate[n] = Undecided
    /\ fate' = [fate EXCEPT ![n] = outcome]
    /\ UNCHANGED published

Publish(n) ==
    /\ fate[n] # Undecided
    /\ published' = published \cup {<<n, fate[n]>>}
    /\ UNCHANGED fate

Next ==
    \E n \in Nullifiers :
        \/ \E outcome \in Successors \cup {Cleared} : Decide(n, outcome)
        \/ Publish(n)

Spec == Init /\ [][Next]_vars

=============================================================================
