----------------------------- MODULE MCRecovery -----------------------------
(***************************************************************************)
(* An instance of Recovery for TLC.                                        *)
(***************************************************************************)
EXTENDS Recovery, TLC

CONSTANTS c1, c2, o1, o2, k1, k2

\* One stuck transaction and one payment to the wrong chain, which has no client.
Types == (c1 :> "STUCK") @@ (c2 :> "MISDIRECTED")
=============================================================================
