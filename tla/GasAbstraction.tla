--------------------------- MODULE GasAbstraction ---------------------------
(***************************************************************************)
(* Gasless transactions: the estimate, the preparation and the execution   *)
(* of GasAbstractionService                                                *)
(* (packages/gas-abstraction/src/gas-abstraction.service.ts).              *)
(*                                                                         *)
(* The service keeps its configuration and nothing else; the variables are *)
(* what its caller holds: the last estimate, request and result.           *)
(*                                                                         *)
(* Abstracted: costs, to the percentage of the fee; a fee token, to        *)
(* whether it is one of the accepted stablecoins; the chain client, to     *)
(* whether it is there and whether its estimate fails.                     *)
(***************************************************************************)
EXTENDS Naturals

CONSTANTS
  Chains,   \* chain identifiers; some have no default
  Clients,  \* chains with a client
  Custom,   \* what customConfigs may hold for a chain
  Unset     \* a property that is missing; also no configuration, no estimate, ...

Strategies == {"ERC4337_PAYMASTER", "RELAYER", "RESOURCE_MODEL", "PRIORITY_FEE_RELAY"}
Configs == [strategy : Strategies \cup {Unset}, paymaster : BOOLEAN \cup {Unset},
            feePercentage : (0 .. 100) \cup {Unset}]

FeeTokens == {"none", "accepted", "other"}

VARIABLES
  chainConfigs,  \* merged by the constructor
  estimate,      \* returned by estimateGasCost
  prepared,      \* returned by prepareGasless
  result         \* returned by executeGasless

gasVars == <<chainConfigs, estimate, prepared, result>>

Estimates == [chainId : Chains, gaslessAvailable : BOOLEAN, percentage : (0 .. 100) \cup {Unset}]
GasRequests == [chainId : Chains, kind : {"paymaster", "relayer"}]

ASSUME GasAssumption ==
  /\ Clients \subseteq Chains /\ Custom \subseteq Configs
  /\ Unset \notin GasRequests

Results == [chainId : Chains, of : GasRequests, success : BOOLEAN, percentage : 0 .. 100]

GasTypeOK ==
  /\ chainConfigs \in [Chains -> Configs \cup {Unset}]
  /\ estimate \in Estimates \cup {Unset}
  /\ prepared \in GasRequests \cup {Unset}
  /\ result \in Results \cup {Unset}

-----------------------------------------------------------------------------
(* Configuration. *)

Default(strategy) == [strategy |-> strategy, paymaster |-> Unset, feePercentage |-> Unset]

DEFAULT_CHAIN_CONFIGS(chainId) ==
  CASE chainId \in {"1", "8453", "42161"} -> Default("ERC4337_PAYMASTER")
    [] chainId = "137" -> Default("RELAYER")
    [] chainId = "tron" -> Default("RESOURCE_MODEL")
    [] chainId = "solana" -> Default("PRIORITY_FEE_RELAY")
    [] OTHER -> Unset

\* { ...existing, ...config }; a chain without a default takes what is there as it is.
Merge(existing, config) ==
  IF existing = Unset \/ config = Unset
  THEN IF config = Unset THEN existing ELSE config
  ELSE [f \in DOMAIN config |-> IF config[f] = Unset THEN existing[f] ELSE config[f]]

GasInit ==
  /\ \E custom \in [Chains -> Custom \cup {Unset}] :
       chainConfigs = [c \in Chains |-> Merge(DEFAULT_CHAIN_CONFIGS(c), custom[c])]
  /\ estimate = Unset /\ prepared = Unset /\ result = Unset

hasRelayer(config) == config.feePercentage # Unset

-----------------------------------------------------------------------------
(* Operations. *)

\* Mutant: the strategy alone is looked at.
isGaslessAvailable_ByStrategy(c, token) ==
  LET config == chainConfigs[c]
  IN config # Unset /\ config.strategy # Unset

isGaslessAvailable(c, token) ==
  LET config == chainConfigs[c]
  IN /\ config # Unset
     /\ CASE config.strategy = "ERC4337_PAYMASTER" -> config.paymaster = TRUE
          [] config.strategy = "RELAYER" -> hasRelayer(config) /\ token # "other"
          [] config.strategy = "PRIORITY_FEE_RELAY" -> hasRelayer(config)
          [] OTHER -> FALSE

\* estimateDefaultGasCost.
estimateDefault(c) == [chainId |-> c, gaslessAvailable |-> FALSE, percentage |-> Unset]

estimateGasCost(c, token) ==
  /\ \/ estimate' = estimateDefault(c)     \* no configuration, no client, or its call throws
     \/ /\ chainConfigs[c] # Unset /\ c \in Clients
        /\ LET available == isGaslessAvailable(c, token)
           IN estimate' = [chainId |-> c, gaslessAvailable |-> available,
                           percentage |-> IF available THEN chainConfigs[c].feePercentage
                                                       ELSE Unset]
  /\ UNCHANGED <<chainConfigs, prepared, result>>

\* The request a strategy calls for; Unset if it throws.
Prepared(c) ==
  LET config == chainConfigs[c]
  IN IF config = Unset THEN Unset
     ELSE CASE config.strategy = "ERC4337_PAYMASTER" -> [chainId |-> c, kind |-> "paymaster"]
            [] config.strategy \in {"RELAYER", "PRIORITY_FEE_RELAY"} ->
                 [chainId |-> c, kind |-> "relayer"]
            [] OTHER -> Unset

prepareGasless(c) ==
  /\ Prepared(c) # Unset
  /\ prepared' = Prepared(c)
  /\ UNCHANGED <<chainConfigs, estimate, result>>

Failed(c) == [chainId |-> c, of |-> prepared, success |-> FALSE, percentage |-> 0]
Succeeded(c, fee) == [chainId |-> c, of |-> prepared, success |-> TRUE, percentage |-> fee]

\* It does not look at paymasterConfig; a relayer request makes it throw.
executePaymaster(c) == IF prepared.kind = "paymaster" THEN Succeeded(c, 0) ELSE Failed(c)

\* It does not need relayerConfig either; a paymaster request makes it throw.
executeRelayer(c, config) ==
  IF prepared.kind = "relayer"
  THEN Succeeded(c, IF hasRelayer(config) THEN config.feePercentage ELSE 1)
  ELSE Failed(c)

\* Of the two chains, the parameter and the request's, only the first one counts.
executeGasless(c) ==
  /\ prepared # Unset
  /\ result' = LET config == chainConfigs[c]
               IN IF config = Unset THEN Failed(c)
                  ELSE CASE config.strategy = "ERC4337_PAYMASTER" -> executePaymaster(c)
                         [] config.strategy \in {"RELAYER", "PRIORITY_FEE_RELAY"} ->
                              executeRelayer(c, config)
                         [] OTHER -> Failed(c)
  /\ UNCHANGED <<chainConfigs, estimate, prepared>>

GasNext ==
  \E c \in Chains :
    \/ \E token \in FeeTokens : estimateGasCost(c, token)
    \/ prepareGasless(c) \/ executeGasless(c)

GasSpec == GasInit /\ [][GasNext]_gasVars

-----------------------------------------------------------------------------
(* Properties. *)

(***************************************************************************)
(* estimateGasCost, prepareGasless and executeGasless decide on their own  *)
(* switches over the strategy.  A chain that was said to be gasless can be *)
(* prepared, and its request executes there for the quoted fee at most.    *)
(***************************************************************************)
GaslessKeepsItsPromise ==
  estimate # Unset /\ estimate.gaslessAvailable =>
    /\ Prepared(estimate.chainId) # Unset
    /\ result # Unset /\ result.chainId = estimate.chainId /\ result.of.chainId = estimate.chainId =>
         /\ result.success
         /\ result.percentage <= (IF estimate.percentage = Unset THEN 0 ELSE estimate.percentage)
=============================================================================
