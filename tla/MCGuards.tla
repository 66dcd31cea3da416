------------------------------ MODULE MCGuards ------------------------------
(***************************************************************************)
(* An instance of the guards of a payment for TLC: RateLock with two       *)
(* callers and an oracle of each kind, and Compliance with two screenings  *)
(* of an address and three places for what the velocity window keeps.  The *)
(* two share no variable, so that their interleavings show nothing: a      *)
(* behaviour takes the steps of one of them.                               *)
(***************************************************************************)
EXTENDS RateLock, Compliance, TLC

CONSTANTS i1, gecko, link, c1, c2, p1, p2, p3

VARIABLE subject

IsLocks == subject = "locks"
IsScreenings == subject = "screenings"

\* The vendors' calls do the same, and the window does not ask what the scorer is: the
\* deployment with TRM is the one without velocity checks and with a mixer's address.
GuardsInit ==
  /\ subject \in {"locks", "screenings"}
  /\ Init /\ ScreeningInit
  /\ IsLocks => /\ scorer = "basic" /\ velocityChecks /\ ~entries
                /\ profile = [score |-> 65, flags |-> {}]
  /\ IsScreenings => /\ velocityChecks = (scorer # "trm")
                     /\ ("MIXER" \in profile.flags) = (scorer = "trm")

GuardsNext ==
  /\ UNCHANGED subject
  /\ \/ IsLocks /\ Next /\ UNCHANGED screeningVars
     \/ IsScreenings /\ ScreeningNext /\ UNCHANGED vars

GuardsSpec == GuardsInit /\ [][GuardsNext]_<<subject, vars, screeningVars>>

\* The callers, which are the calls as well, are alike, and so are the places; every property
\* is an invariant.
Alike == Permutations(Calls) \cup Permutations(Places)
=============================================================================
