------------------------------ MODULE RateLock ------------------------------
(***************************************************************************)
(* Rate locks and the prices they freeze                                   *)
(* (packages/rate-lock/src/rate-lock.service.ts, price-oracle.service.ts). *)
(*                                                                         *)
(* createLock asks PriceOracleAggregator for a price, which asks all its   *)
(* oracles at once; each answers from its cache or fetches, and answers    *)
(* arrive in any order.  The lock goes into a map in memory, where         *)
(* getLock finds the first lock of an intent in order of insertion.        *)
(*                                                                         *)
(* Time is relative: Tick ages what was read and shortens what lives, so   *)
(* there is no clock to bound.                                             *)
(*                                                                         *)
(* Abstracted: one asset and base asset; the spread, a constant factor;    *)
(* confidences, which every fetched quote passes; the feeds that Chainlink *)
(* tries one after the other, to whether one of them answers.              *)
(***************************************************************************)
EXTENDS Integers, Sequences, FiniteSetsExt, SequencesExt

CONSTANTS
  Intents,
  Callers,    \* concurrent calls of createLock
  CoinGecko,  \* oracles that accept whatever their source says
  Chainlink,  \* oracles that look at the age and the sign of the answer
  Prices,     \* prices that a source may show; 0 is possible
  Ages,       \* how long it may have shown them
  CacheTtl,   \* of every oracle
  MaxAge,     \* one hour: the oldest answer that Chainlink accepts
  minTtl, maxTtl,  \* bounds of a lock's lifetime
  Ttls,       \* lifetimes that callers ask for
  MaxFetch,   \* bound: how long a call of createLock takes; the code has no timeout
  MaxLocks,   \* bound: locks in the store
  MaxCancels, \* bound: calls of cancelLock for a lock
  None

Oracles == CoinGecko \cup Chainlink

ASSUME RateLockAssumption ==
  /\ IsFiniteSet(Oracles) /\ CoinGecko \cap Chainlink = {} /\ Prices \subseteq Nat /\ Ages \subseteq Nat
  /\ CacheTtl \in Nat \ {0} /\ MaxAge \in Nat /\ MaxFetch \in Nat
  /\ minTtl \in Nat /\ maxTtl \in Nat /\ minTtl <= maxTtl /\ Ttls \subseteq Nat
  /\ MaxLocks \in Nat /\ MaxCancels \in Nat
  /\ None \notin Intents

VARIABLES
  cache,    \* of each oracle: a quote and how long it is still good for
  calls,    \* of createLock: their intent and ttl
  quotes,   \* of each call and oracle: the state of its getPrice
  locks     \* the store, in order of insertion

vars == <<cache, calls, quotes, locks>>

\* A price, how long the source had shown it, and (history) how long ago it was read there and
\* how long the call that asked for it had lasted when it arrived.
Quotes == [price : Nat, shown : Nat, age : Nat, took : Nat]
NoQuote == [price |-> 0, shown |-> 0, age |-> 0, took |-> 0]
NotCached == [quote |-> NoQuote, left |-> 0]
\* The time since a call began, `lasted`, is history.
NoCall == [intent |-> None, ttl |-> 0, lasted |-> 0]
Idle == [st |-> "none", quote |-> NoQuote]

Locks ==
  [intentId : Intents, status : {"ACTIVE", "CONSUMED", "EXPIRED", "CANCELLED"},
   left : Int,                 \* the time to expiresAt
   uses : Nat, cancels : Nat]  \* history: successful calls of consumeLock; calls of cancelLock

TypeOK ==
  /\ cache \in [Oracles -> [quote : Quotes, left : Nat]]
  /\ calls \in [Callers -> [intent : Intents \cup {None}, ttl : Nat, lasted : Nat]]
  /\ quotes \in [Callers -> [Oracles ->
       [st : {"none", "requested", "answered", "ok", "failed"}, quote : Quotes]]]
  /\ locks \in Seq(Locks)
  /\ \A n \in DOMAIN locks : locks[n].left \in -1 .. maxTtl

Init ==
  /\ cache = [o \in Oracles |-> NotCached]
  /\ calls = [c \in Callers |-> NoCall]
  /\ quotes = [c \in Callers |-> [o \in Oracles |-> Idle]]
  /\ locks = <<>>

-----------------------------------------------------------------------------
(* Prices. *)

\* getPrice of an oracle starts: from the cache, or with a request.
Ask(o) ==
  IF cache[o].left > 0
  THEN [st |-> "ok", quote |-> cache[o].quote]
  ELSE [st |-> "requested", quote |-> NoQuote]

\* The source answers a request: the answer is under way.
Answer(c, o) ==
  /\ quotes[c][o].st = "requested"
  /\ \E p \in Prices, shown \in Ages :
       quotes' = [quotes EXCEPT ![c][o].st = "answered",
                                ![c][o].quote = [price |-> p, shown |-> shown, age |-> 0, took |-> 0]]
  /\ UNCHANGED <<cache, calls, locks>>

Acceptable(o, quote) == o \in Chainlink => quote.shown + quote.age <= MaxAge /\ quote.price > 0

\* Mutant: a cached quote is good for as long as Chainlink's may be old.
Store_Hour(o, quote) == cache' = [cache EXCEPT ![o] = [quote |-> quote, left |-> MaxAge + 1]]

\* Over a quote that was read later, if that arrived earlier.
Store(o, quote) == cache' = [cache EXCEPT ![o] = [quote |-> quote, left |-> CacheTtl]]

Arrive(c, o) ==
  LET quote == [quotes[c][o].quote EXCEPT !.took = calls[c].lasted] IN
  /\ quotes[c][o].st = "answered"
  /\ IF Acceptable(o, quote)
     THEN quotes' = [quotes EXCEPT ![c][o] = [st |-> "ok", quote |-> quote]] /\ Store(o, quote)
     ELSE quotes' = [quotes EXCEPT ![c][o] = [st |-> "failed", quote |-> NoQuote]] /\ UNCHANGED cache
  /\ UNCHANGED <<calls, locks>>

RequestFails(c, o) ==
  /\ quotes[c][o].st = "requested"
  /\ quotes' = [quotes EXCEPT ![c][o].st = "failed"]
  /\ UNCHANGED <<cache, calls, locks>>

-----------------------------------------------------------------------------
(* createLock. *)

Asking(c) == calls[c].intent # None

createLock(c, i, ttl) ==
  /\ ~ Asking(c)
  /\ calls' = [calls EXCEPT ![c] = [intent |-> i, ttl |-> ttl, lasted |-> 0]]
  /\ quotes' = [quotes EXCEPT ![c] = [o \in Oracles |-> Ask(o)]]
  /\ UNCHANGED <<cache, locks>>

clampedTtl(ttl) == Max({minTtl, Min({maxTtl, ttl})})

Price(c, o) == quotes[c][o].quote.price
Settled(c) == Asking(c) /\ \A o \in Oracles : quotes[c][o].st \in {"ok", "failed"}

\* What Promise.allSettled and the filter leave.
Successful(c) == {o \in Oracles : quotes[c][o].st = "ok" /\ Price(c, o) > 0}

\* The oracle whose price is at place floor(n / 2), from 0, of the sorted ones: of two, the
\* larger one.
median(c) ==
  LET half == Cardinality(Successful(c)) \div 2
  IN CHOOSE o \in Successful(c) :
       /\ Cardinality({p \in Successful(c) : Price(c, p) < Price(c, o)}) <= half
       /\ half < Cardinality({p \in Successful(c) : Price(c, p) <= Price(c, o)})

\* Every oracle has answered: the lock is stored, or the call throws.
StoreLock(c) ==
  /\ Settled(c)
  /\ IF Successful(c) = {} THEN UNCHANGED locks
     ELSE /\ Len(locks) < MaxLocks
          /\ locks' = Append(locks,
               [intentId |-> calls[c].intent, status |-> "ACTIVE",
                left |-> clampedTtl(calls[c].ttl), uses |-> 0, cancels |-> 0])
  /\ calls' = [calls EXCEPT ![c] = NoCall]
  /\ quotes' = [quotes EXCEPT ![c] = [o \in Oracles |-> Idle]]
  /\ UNCHANGED cache

-----------------------------------------------------------------------------
(* The store. *)

\* The place of the first lock of the intent, whatever became of it; 0 if there is none.
getLock(i) == SelectInSeq(locks, LAMBDA k : k.intentId = i)

Expired(k) == k.left < 0

\* Mutant: a consumed lock may be used for as long as it lives.
consumeLock_Again(i) ==
  LET n == getLock(i) IN
  /\ n > 0 /\ locks[n].status # "EXPIRED"
  /\ locks' = [locks EXCEPT ![n] =
       IF Expired(@) THEN [@ EXCEPT !.status = "EXPIRED"]
       ELSE [@ EXCEPT !.status = "CONSUMED", !.uses = locks[n].uses + 1]]
  /\ UNCHANGED <<cache, calls, quotes>>

\* A CANCELLED lock is not refused.  (The one await is of a resolved promise, and two calls
\* then look at the same object one after the other.)
consumeLock(i) ==
  LET n == getLock(i) IN
  /\ n > 0 /\ locks[n].status \notin {"EXPIRED", "CONSUMED"}
  /\ locks' = [locks EXCEPT ![n] =
       IF Expired(@) THEN [@ EXCEPT !.status = "EXPIRED"]
       ELSE [@ EXCEPT !.status = "CONSUMED", !.uses = locks[n].uses + 1]]
  /\ UNCHANGED <<cache, calls, quotes>>

\* A CONSUMED lock is cancelled, too.
cancelLock(i) ==
  LET n == getLock(i) IN
  /\ n > 0 /\ locks[n].cancels < MaxCancels
  /\ locks' = [locks EXCEPT ![n].status = "CANCELLED", ![n].cancels = @ + 1]
  /\ UNCHANGED <<cache, calls, quotes>>

isLockValid(i) ==
  LET n == getLock(i) IN
  /\ n > 0 /\ locks[n].status = "ACTIVE" /\ Expired(locks[n])
  /\ locks' = [locks EXCEPT ![n].status = "EXPIRED"]
  /\ UNCHANGED <<cache, calls, quotes>>

\* RateLockCleanupService: expired locks are marked, and those of more than 24 hours, the
\* first ones of the map, removed.  (A day is longer than any lock lives.)
cleanupExpiredLocks ==
  \E removed \in 0 .. Len(locks) :
    LET Mark(k) == IF k.status = "ACTIVE" /\ Expired(k) THEN [k EXCEPT !.status = "EXPIRED"] ELSE k
        kept == SubSeq(locks, removed + 1, Len(locks))
    IN /\ \A n \in 1 .. removed : Expired(locks[n])
       /\ locks' = [n \in DOMAIN kept |-> Mark(kept[n])]
       /\ locks' # locks
       /\ UNCHANGED <<cache, calls, quotes>>

\* Time passes.  A call goes on at once when its last oracle has answered, and a quote that is
\* no longer good is as good as none.
Older(quote) == [quote EXCEPT !.age = @ + 1]
Tick ==
  /\ \A c \in Callers : ~ Settled(c) /\ calls[c].lasted < MaxFetch
  /\ cache' = [o \in Oracles |->
       IF cache[o].left <= 1 THEN NotCached
       ELSE [quote |-> Older(cache[o].quote), left |-> cache[o].left - 1]]
  /\ calls' = [c \in Callers |->
       IF Asking(c) THEN [calls[c] EXCEPT !.lasted = @ + 1] ELSE calls[c]]
  /\ quotes' = [c \in Callers |-> [o \in Oracles |->
       IF quotes[c][o].st \in {"answered", "ok"}
       THEN [quotes[c][o] EXCEPT !.quote = Older(@)] ELSE quotes[c][o]]]
  /\ locks' = [n \in DOMAIN locks |->
       [locks[n] EXCEPT !.left = IF Expired(locks[n]) THEN @ ELSE @ - 1]]

Next ==
  \/ \E c \in Callers, i \in Intents, ttl \in Ttls : createLock(c, i, ttl)
  \/ \E c \in Callers, o \in Oracles : Answer(c, o) \/ Arrive(c, o) \/ RequestFails(c, o)
  \/ \E c \in Callers : StoreLock(c)
  \/ \E i \in Intents : consumeLock(i) \/ cancelLock(i) \/ isLockValid(i)
  \/ cleanupExpiredLocks
  \/ Tick

Spec == Init /\ [][Next]_vars

-----------------------------------------------------------------------------
(* Properties. *)

(***************************************************************************)
(* However calls overlap and their answers overtake each other in the      *)
(* cache: the rate that is locked was read at its source less than a cache *)
(* lifetime before this call and the one that read it began.  And the hour *)
(* for which Chainlink's answers are good is not stretched by more than a  *)
(* cache lifetime and this call.  (How long a call lasts nothing bounds.)  *)
(***************************************************************************)
RateIsRecent ==
  \A c \in Callers :
    Settled(c) /\ Successful(c) # {} =>
      LET quote == quotes[c][median(c)].quote
      IN /\ quote.age < CacheTtl + quote.took + calls[c].lasted
         /\ median(c) \in Chainlink =>
              quote.shown + quote.age < MaxAge + CacheTtl + calls[c].lasted

\* Whatever is consumed, cancelled, checked and cleaned up in between: a lock is used once,
\* unless it is cancelled after its use, which makes it good for another time.
UsedOncePerCancel == \A n \in DOMAIN locks : locks[n].uses <= 1 + locks[n].cancels
=============================================================================
