-------------------------- MODULE MCDepositPipeline --------------------------
(***************************************************************************)
(* An instance of DepositPipeline for TLC.                                 *)
(***************************************************************************)
EXTENDS DepositPipeline, TLC

CONSTANTS i1, i2, t1, t2, x1, x2, checksummed, lower, payer

\* i2 is the newer intent.
Ages == i1 :> 1 @@ i2 :> 2

OneTxEach == t1 :> x1 @@ t2 :> x2

LowerCase == checksummed :> lower @@ lower :> lower @@ payer :> payer

\* A merchant's settlement address is the deposit address of all its intents.
SharedAddress == i1 :> lower @@ i2 :> lower
AllToIt == t1 :> lower @@ t2 :> lower

\* The merchant sends the second one itself.
Senders == t1 :> payer @@ t2 :> checksummed
=============================================================================
