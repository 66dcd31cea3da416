-------------------------- MODULE MCReconciliation --------------------------
(***************************************************************************)
(* Instances of Reconciliation for TLC.                                    *)
(***************************************************************************)
EXTENDS Reconciliation, TLC

CONSTANTS i1, i2, s1, s2

\* The amount of the second target is rounded, within the tolerance of the report.
Targets == (i1 :> 20000) @@ (i2 :> 5051)

\* A deposit, a refund, and a gain and a loss that just balance.
Others ==
  {DepositEntry(i1, "deposit", 20000), RefundEntry(i2, "refund", 70),
   FxEntry(i1, "gain", 11), FxEntry(i2, "loss", -9)}
=============================================================================
