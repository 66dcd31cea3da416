----------------------------- MODULE MCAdapters -----------------------------
(***************************************************************************)
(* An instance of the outbound adapters for TLC: a call of an HttpClient   *)
(* that retries, RouteProviders on top of one that does not, and           *)
(* GasAbstraction.  The three share no state, so that their interleavings  *)
(* show nothing: a behaviour takes the steps of one of them.               *)
(***************************************************************************)
EXTENDS RouteProviders, GasAbstraction

CONSTANTS a, b, g

VARIABLE subject

vars == <<subject, httpVars, routeVars, gasVars>>

RetriesOfClients == [c \in Calls |-> IF c \in Adapters THEN 0 ELSE 2]

Route(from, to) ==
  [source_chain |-> from, source_asset |-> "USDC", target_chain |-> to, target_asset |-> "USDC"]
Routes == {Route("ethereum", "base"), Route("ethereum", "bsc")}

Response(fee, duration, known, steps, dear) ==
  [fee |-> fee, duration |-> duration, known |-> known, steps |-> steps, dear |-> dear,
   found |-> TRUE]
SomeResponses ==
  {Response(0, 40, 1, 1, FALSE), Response(900, 700, 0, 4, TRUE), Response(NaN, None, 4, 2, FALSE),
   [Response(0, 0, 0, 0, FALSE) EXCEPT !.found = FALSE]}

Config(strategy, paymaster, fee) ==
  [strategy |-> strategy, paymaster |-> paymaster, feePercentage |-> fee]
SomeConfigs == {Config(Unset, TRUE, 2), Config("RELAYER", Unset, Unset)}

Init ==
  /\ subject \in {"call", "routes", "gas"}
  /\ HttpInit /\ RouteInit
  /\ IF subject = "gas"
     THEN GasInit
     ELSE /\ chainConfigs = [c \in Chains |-> Unset]
          /\ estimate = Unset /\ prepared = Unset /\ result = Unset

Next ==
  /\ UNCHANGED subject
  /\ \/ subject = "call" /\ AnyCall(g) /\ UNCHANGED <<routeVars, gasVars>>
     \/ subject = "routes" /\ RouteNext /\ UNCHANGED gasVars
     \/ subject = "gas" /\ GasNext /\ UNCHANGED <<httpVars, routeVars>>

Spec == Init /\ [][Next]_vars
=============================================================================
