------------------------------ MODULE Pedersen ------------------------------
(***************************************************************************)
(* The homomorphic balance commitment of the v1 protocol,                  *)
(* rust/crates/zkapi-crypto/src/pedersen.rs.                               *)
(*                                                                         *)
(* G_balance and H_blind are independent generators of a group of order    *)
(* CurveOrder, so a point is written by its two coordinates over them.     *)
(* Scalars arrive as elements of the base field, which is larger than the  *)
(* group: arithmetic on scalars is modulo CurveOrder, never modulo         *)
(* FieldOrder.                                                             *)
(***************************************************************************)
EXTENDS Integers

CONSTANTS
    CurveOrder,     \* n, the order of the group
    FieldOrder      \* p, the order of the base field; n < p

-----------------------------------------------------------------------------
(* Scalars.                                                                *)

ReduceBlinding(value) == value % CurveOrder

\* Mutant: the sum of the base field.
AddBlindingInField(a, b) == (a + b) % FieldOrder

AddBlinding(a, b) == (a + b) % CurveOrder

-----------------------------------------------------------------------------
(* Points.                                                                 *)

Point(balance, blinding) == [balance |-> balance, blinding |-> blinding]

Plus(p, q) == Point((p.balance + q.balance) % CurveOrder,
                    (p.blinding + q.blinding) % CurveOrder)
Neg(p) == Point((-p.balance) % CurveOrder, (-p.blinding) % CurveOrder)

GBalance == Point(1, 0)
HBlind == Point(0, 1)

\* scalar_mul, whose doubling and adding depends on the scalar only modulo
\* the order of the group.
ScalarMul(point, scalar) ==
    Point((scalar * point.balance) % CurveOrder,
          (scalar * point.blinding) % CurveOrder)

-----------------------------------------------------------------------------
(* Commitments.                                                            *)

Commit(balance, blinding) ==
    Plus(ScalarMul(GBalance, balance), ScalarMul(HBlind, blinding))

ServerUpdate(anonCommitment, charge, blindDelta) ==
    Plus(Plus(anonCommitment, Neg(ScalarMul(GBalance, charge))),
         ScalarMul(HBlind, blindDelta))

=============================================================================
