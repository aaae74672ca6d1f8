------------------------------ MODULE MCWalletV1 ------------------------------
(***************************************************************************)
(* An instance of the v1 wallet: two notes one after the other, two        *)
(* requests, a server that may answer a stale root with the code of        *)
(* SPEC.md or with the one of zkapi-server, in a group of order 1000003    *)
(* over a field of order 1000033.                                          *)
(***************************************************************************)
EXTENDS WalletV1

CONSTANTS n1, n2, i1, i2, a1, a2

\* Sums pass the order of the group, of the field, or end between the two;
\* the server's deltas, which are not reduced, may lie there to begin with.
MCFelt ==
    [term \in Scalar |->
        CASE term = DepositTerm(n1) -> 1000002
          [] term = DepositTerm(n2) -> 759751
          [] term = UserTerm(i1) -> 4404
          [] term = UserTerm(i2) -> 240266
          [] term = ServerTerm(<<n1, Genesis>>) -> 1000032
          [] term = ServerTerm(<<n1, a1>>) -> 944300
          [] term = ServerTerm(<<n1, a2>>) -> 1000007
          [] term = ServerTerm(<<n2, Genesis>>) -> 900438
          [] term = ServerTerm(<<n2, a1>>) -> 533087
          [] term = ServerTerm(<<n2, a2>>) -> 633730]

\* So few scalars can be in general position, which rules out collisions.
ASSUME ScalarsAssumption == GeneralPosition
=============================================================================
