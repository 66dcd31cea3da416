---------------------------- MODULE GuardsProofs ----------------------------
(***************************************************************************)
(* Theorems about RateLock and Compliance, which share no state.           *)
(***************************************************************************)
EXTENDS RateLock, Compliance, Lemmas, SequenceTheorems

-----------------------------------------------------------------------------
(* RateLock: the store. *)

\* A lock that may be consumed is one use behind.
GoodLocks ==
  {k \in Locks :
     /\ k.left \in -1 .. maxTtl
     /\ k.uses <= 1 + k.cancels
     /\ k.status \in {"ACTIVE", "CANCELLED"} => k.uses <= k.cancels}

StoreOK == locks \in Seq(GoodLocks)

LEMMA ClampedType ==
  \A ttl \in Nat : clampedTtl(ttl) \in 0 .. maxTtl
<1> SUFFICES ASSUME NEW ttl \in Nat PROVE clampedTtl(ttl) \in 0 .. maxTtl
  OBVIOUS
<1>1. minTtl \in Nat /\ maxTtl \in Nat /\ minTtl <= maxTtl
  BY RateLockAssumption
<1>2. Min({maxTtl, ttl}) = IF maxTtl <= ttl THEN maxTtl ELSE ttl
  BY <1>1, MinOfTwo
<1>3. Min({maxTtl, ttl}) \in 0 .. maxTtl
  BY <1>1, <1>2
<1>4. Max({minTtl, Min({maxTtl, ttl})}) =
        IF minTtl >= Min({maxTtl, ttl}) THEN minTtl ELSE Min({maxTtl, ttl})
  BY <1>1, <1>3, MaxOfTwo
<1> QED BY <1>1, <1>3, <1>4 DEF clampedTtl

\* getLock finds a lock, or nothing.
LEMMA PlaceOfLock ==
  ASSUME StoreOK, NEW i, getLock(i) > 0
  PROVE  getLock(i) \in DOMAIN locks
<1> DEFINE I == {n \in 1 .. Len(locks) : locks[n].intentId = i}
<1>1. getLock(i) = IF I # {} THEN Min(I) ELSE 0
  BY DEF getLock, SelectInSeq
<1>2. I # {}
  BY <1>1
<1>3. Min(I) \in I
  BY <1>2, LeastIsMin
<1> QED BY <1>1, <1>2, <1>3 DEF StoreOK

\* One lock of the store is replaced.
LEMMA ReplaceLock ==
  ASSUME StoreOK, NEW n \in DOMAIN locks, NEW k \in GoodLocks,
         locks' = [locks EXCEPT ![n] = k]
  PROVE  StoreOK'
BY DEF StoreOK

LEMMA ConsumeOK ==
  ASSUME StoreOK, NEW i, consumeLock(i)
  PROVE  StoreOK'
<1> DEFINE n == getLock(i)  k == locks[n]
           expired == [k EXCEPT !.status = "EXPIRED"]
           consumed == [k EXCEPT !.status = "CONSUMED", !.uses = k.uses + 1]
<1>1. n \in DOMAIN locks /\ k.status \notin {"EXPIRED", "CONSUMED"}
  BY PlaceOfLock DEF consumeLock
<1>2. locks' = [locks EXCEPT ![n] = IF Expired(k) THEN expired ELSE consumed]
  BY DEF consumeLock
<1>3. k \in GoodLocks
  BY <1>1 DEF StoreOK
<1> HIDE DEF n, k
<1>4. expired \in GoodLocks
  BY <1>3 DEF GoodLocks, Locks
<1>5. k.status \in {"ACTIVE", "CANCELLED"} /\ k.uses <= k.cancels
  BY <1>1, <1>3 DEF GoodLocks, Locks
<1>6. consumed \in GoodLocks
  <2>1. /\ consumed \in Locks /\ consumed.status = "CONSUMED" /\ consumed.left = k.left
        /\ consumed.uses = k.uses + 1 /\ consumed.cancels = k.cancels
    <3>1. k \in Locks /\ k.uses \in Nat
      BY <1>3 DEF GoodLocks, Locks
    <3>2. k.uses + 1 \in Nat
      BY <3>1
    <3> QED BY <3>1, <3>2 DEF Locks
  <2>2. k.uses \in Nat /\ k.cancels \in Nat /\ k.left \in -1 .. maxTtl
    BY <1>3 DEF GoodLocks, Locks
  <2>3. consumed.uses <= 1 + consumed.cancels
    BY <1>5, <2>1, <2>2
  <2> QED BY <2>1, <2>2, <2>3 DEF GoodLocks
<1> QED BY <1>1, <1>2, <1>4, <1>6, ReplaceLock DEF k

LEMMA CancelOK ==
  ASSUME StoreOK, NEW i, cancelLock(i)
  PROVE  StoreOK'
<1> DEFINE n == getLock(i)  k == locks[n]
           cancelled == [k EXCEPT !.status = "CANCELLED", !.cancels = k.cancels + 1]
<1>1. n \in DOMAIN locks
  BY PlaceOfLock DEF cancelLock
<1>2. k \in GoodLocks
  BY <1>1 DEF StoreOK
<1>3. locks' = [locks EXCEPT ![n] = cancelled]
  BY <1>1, <1>2 DEF cancelLock, StoreOK, GoodLocks, Locks
<1> HIDE DEF n, k
<1>4. cancelled \in GoodLocks
  <2>1. /\ cancelled \in Locks /\ cancelled.left = k.left
        /\ cancelled.uses = k.uses /\ cancelled.cancels = k.cancels + 1
    <3>1. k \in Locks /\ k.cancels \in Nat
      BY <1>2 DEF GoodLocks, Locks
    <3>2. k.cancels + 1 \in Nat
      BY <3>1
    <3> QED BY <3>1, <3>2 DEF Locks
  <2>2. /\ k.uses \in Nat /\ k.cancels \in Nat /\ k.left \in -1 .. maxTtl
        /\ k.uses <= 1 + k.cancels
    BY <1>2 DEF GoodLocks, Locks
  <2>3. cancelled.uses <= cancelled.cancels /\ cancelled.uses <= 1 + cancelled.cancels
    BY <2>1, <2>2
  <2> QED BY <2>1, <2>2, <2>3 DEF GoodLocks
<1> QED BY <1>1, <1>3, <1>4, ReplaceLock

LEMMA ValidOK ==
  ASSUME StoreOK, NEW i, isLockValid(i)
  PROVE  StoreOK'
<1> DEFINE n == getLock(i)  k == locks[n]
           expired == [k EXCEPT !.status = "EXPIRED"]
<1>1. n \in DOMAIN locks
  BY PlaceOfLock DEF isLockValid
<1>2. k \in GoodLocks
  BY <1>1 DEF StoreOK
<1>3. locks' = [locks EXCEPT ![n] = expired]
  BY <1>1, <1>2 DEF isLockValid, StoreOK, GoodLocks, Locks
<1> HIDE DEF n, k
<1>4. expired \in GoodLocks
  BY <1>2 DEF GoodLocks, Locks
<1> QED BY <1>1, <1>3, <1>4, ReplaceLock

LEMMA CleanupOK ==
  ASSUME StoreOK, cleanupExpiredLocks
  PROVE  StoreOK'
<1> DEFINE Mark(k) == IF k.status = "ACTIVE" /\ Expired(k) THEN [k EXCEPT !.status = "EXPIRED"]
                      ELSE k
<1>1. PICK removed \in 0 .. Len(locks) :
        locks' = [n \in DOMAIN SubSeq(locks, removed + 1, Len(locks)) |->
                    Mark(SubSeq(locks, removed + 1, Len(locks))[n])]
  BY DEF cleanupExpiredLocks
<1> DEFINE kept == SubSeq(locks, removed + 1, Len(locks))
<1>2. kept \in Seq(GoodLocks)
  BY DEF StoreOK
<1>3. ASSUME NEW k \in GoodLocks PROVE Mark(k) \in GoodLocks
  BY DEF GoodLocks, Locks
<1>6. locks' = [n \in DOMAIN kept |-> Mark(kept[n])]
  BY <1>1
<1> HIDE DEF kept, Mark
<1>4. locks' = [n \in 1 .. Len(kept) |-> Mark(kept[n])]
  BY <1>2, <1>6
<1>5. \A n \in 1 .. Len(kept) : Mark(kept[n]) \in GoodLocks
  BY <1>2, <1>3
<1> QED BY <1>2, <1>4, <1>5 DEF StoreOK

\* A call that is under way knows its intent.
CallsOK ==
  calls \in [Callers -> {NoCall} \cup [intent : Intents, ttl : Nat, lasted : Nat]]

LEMMA StoreLockOK ==
  ASSUME CallsOK, StoreOK, NEW c \in Callers, StoreLock(c)
  PROVE  StoreOK'
<1>1. CASE UNCHANGED locks
  BY <1>1 DEF StoreOK
<1>2. CASE locks' = Append(locks,
               [intentId |-> calls[c].intent, status |-> "ACTIVE",
                left |-> clampedTtl(calls[c].ttl), uses |-> 0, cancels |-> 0])
  <2>1. calls[c].intent \in Intents /\ calls[c].ttl \in Nat
    BY DEF CallsOK, StoreLock, Settled, Asking, NoCall
  <2> DEFINE k == [intentId |-> calls[c].intent, status |-> "ACTIVE",
                   left |-> clampedTtl(calls[c].ttl), uses |-> 0, cancels |-> 0]
  <2>2. clampedTtl(calls[c].ttl) \in 0 .. maxTtl /\ maxTtl \in Nat
    BY <2>1, ClampedType, RateLockAssumption
  <2>3. k \in GoodLocks
    BY <2>1, <2>2 DEF GoodLocks, Locks
  <2>4. locks' = Append(locks, k)
    BY <1>2
  <2> HIDE DEF k
  <2> QED BY <2>3, <2>4 DEF StoreOK
<1> QED BY <1>1, <1>2 DEF StoreLock

LEMMA StoreTick ==
  ASSUME StoreOK, Tick
  PROVE  StoreOK'
<1> DEFINE Older1(k) == [k EXCEPT !.left = IF Expired(k) THEN k.left ELSE k.left - 1]
<1>0. locks \in Seq(GoodLocks) /\ DOMAIN locks = 1 .. Len(locks)
  BY DEF StoreOK
<1>1. locks' = [n \in 1 .. Len(locks) |-> Older1(locks[n])]
  <2>1. locks' = [n \in DOMAIN locks |->
          [locks[n] EXCEPT !.left = IF Expired(locks[n]) THEN @ ELSE @ - 1]]
    BY DEF Tick
  <2>2. \A n \in DOMAIN locks :
          [locks[n] EXCEPT !.left = IF Expired(locks[n]) THEN @ ELSE @ - 1] = Older1(locks[n])
    OBVIOUS
  <2> QED BY <1>0, <2>1, <2>2
<1>2. ASSUME NEW k \in GoodLocks PROVE Older1(k) \in GoodLocks
  BY RateLockAssumption DEF GoodLocks, Locks, Expired
<1> HIDE DEF Older1
<1>3. \A n \in 1 .. Len(locks) : Older1(locks[n]) \in GoodLocks
  BY <1>2 DEF StoreOK
<1> QED BY <1>1, <1>3 DEF StoreOK

LEMMA StoreStep ==
  ASSUME StoreOK, CallsOK, [Next]_vars
  PROVE  StoreOK' /\ CallsOK'
<1>1. ASSUME NEW c \in Callers, NEW i \in Intents, NEW ttl \in Ttls, createLock(c, i, ttl)
      PROVE  StoreOK' /\ CallsOK'
  BY <1>1, RateLockAssumption DEF createLock, StoreOK, CallsOK
<1>2. ASSUME NEW c \in Callers, NEW o \in Oracles,
             Answer(c, o) \/ Arrive(c, o) \/ RequestFails(c, o)
      PROVE  StoreOK' /\ CallsOK'
  BY <1>2 DEF Answer, Arrive, RequestFails, StoreOK, CallsOK
<1>3. ASSUME NEW c \in Callers, StoreLock(c) PROVE StoreOK' /\ CallsOK'
  <2>1. CallsOK'
    BY <1>3 DEF StoreLock, CallsOK
  <2> QED BY <1>3, <2>1, StoreLockOK
<1>4. ASSUME NEW i \in Intents, consumeLock(i) \/ cancelLock(i) \/ isLockValid(i)
      PROVE  StoreOK' /\ CallsOK'
  <2>1. CallsOK'
    BY <1>4 DEF consumeLock, cancelLock, isLockValid, CallsOK
  <2> QED BY <1>4, <2>1, ConsumeOK, CancelOK, ValidOK
<1>5. CASE cleanupExpiredLocks
  <2>1. CallsOK'
    BY <1>5 DEF cleanupExpiredLocks, CallsOK
  <2> QED BY <1>5, <2>1, CleanupOK
<1>6. CASE Tick
  <2>1. ASSUME NEW c \in Callers
        PROVE  calls'[c] \in {NoCall} \cup [intent : Intents, ttl : Nat, lasted : Nat]
    <3>1. calls[c] \in {NoCall} \cup [intent : Intents, ttl : Nat, lasted : Nat]
      BY DEF CallsOK
    <3>2. calls'[c] = IF Asking(c) THEN [calls[c] EXCEPT !.lasted = calls[c].lasted + 1] ELSE calls[c]
      BY <1>6 DEF Tick
    <3>3. Asking(c) => calls[c] # NoCall
      BY DEF Asking, NoCall
    <3> QED BY <3>1, <3>2, <3>3
  <2>2. calls' = [c \in Callers |-> calls'[c]]
    BY <1>6 DEF Tick
  <2>3. CallsOK'
    BY <2>1, <2>2 DEF CallsOK
  <2> QED BY <1>6, <2>3, StoreTick
<1>7. CASE UNCHANGED vars
  BY <1>7 DEF vars, StoreOK, CallsOK
<1> QED BY <1>1, <1>2, <1>3, <1>4, <1>5, <1>6, <1>7 DEF Next

\* For any number of locks and cancellations: however a lock is consumed, cancelled, checked
\* and cleaned up, it is used once, and once more for each time that it was cancelled
\* (rate-lock.service.ts: consumeLock, cancelLock).
THEOREM LocksAreUsedOnce == Spec => []UsedOncePerCancel
<1>1. Init => StoreOK /\ CallsOK
  BY DEF Init, StoreOK, CallsOK
<1>2. StoreOK => UsedOncePerCancel
  BY DEF StoreOK, UsedOncePerCancel, GoodLocks
<1> QED BY <1>1, <1>2, StoreStep, PTL DEF Spec

-----------------------------------------------------------------------------
(* RateLock: the prices. *)

QuoteStates == [st : {"none", "requested", "answered", "ok", "failed"}, quote : Quotes]

PricesType ==
  /\ cache \in [Oracles -> [quote : Quotes, left : Nat]]
  /\ quotes \in [Callers -> [Oracles -> QuoteStates]]

\* What is cached was read after the call began that asked for it, and an answer of Chainlink
\* was accepted when it was stored.
CachedOK(o, entry) ==
  entry.left > 0 =>
    /\ entry.quote.age + entry.left <= CacheTtl + entry.quote.took
    /\ o \in Chainlink => entry.quote.shown + entry.quote.age + entry.left <= MaxAge + CacheTtl

\* An answer was read after its call began; and a quote grows old no faster than its call.
QuoteOK(o, q, lasted) ==
  /\ q.st = "answered" => q.quote.age <= lasted
  /\ q.st = "ok" =>
       /\ q.quote.age < CacheTtl + q.quote.took + lasted
       /\ o \in Chainlink => q.quote.shown + q.quote.age < MaxAge + CacheTtl + lasted

CallOK(c) ==
  \A o \in Oracles : /\ QuoteOK(o, quotes[c][o], calls[c].lasted)
                     /\ quotes[c][o].st # "none" => Asking(c)

PricesInv ==
  /\ PricesType
  /\ \A o \in Oracles : CachedOK(o, cache[o])
  /\ \A c \in Callers : CallOK(c)

LEMMA Bounds == CacheTtl \in Nat \ {0} /\ MaxAge \in Nat
BY RateLockAssumption

\* The sums of the invariant, when a quote is stored, used and grows older.
LEMMA Counting ==
  ASSUME NEW age \in Nat, NEW shown \in Nat, NEW took \in Nat, NEW lasted \in Nat, NEW left \in Nat
  PROVE  /\ age <= lasted => age + 1 <= lasted + 1
         /\ age < CacheTtl + took + lasted => age + 1 < CacheTtl + took + (lasted + 1)
         /\ shown + age < MaxAge + CacheTtl + lasted =>
              shown + (age + 1) < MaxAge + CacheTtl + (lasted + 1)
         /\ age <= took => age < CacheTtl + took + lasted /\ age + CacheTtl <= CacheTtl + took
         /\ shown + age <= MaxAge =>
              /\ shown + age < MaxAge + CacheTtl + lasted
              /\ shown + age + CacheTtl <= MaxAge + CacheTtl
         /\ left > 0 /\ age + left <= CacheTtl + took => age < CacheTtl + took + 0
         /\ left > 0 /\ shown + age + left <= MaxAge + CacheTtl => shown + age < MaxAge + CacheTtl + 0
         /\ left > 1 /\ age + left <= CacheTtl + took => (age + 1) + (left - 1) <= CacheTtl + took
         /\ left > 1 /\ shown + age + left <= MaxAge + CacheTtl =>
              shown + (age + 1) + (left - 1) <= MaxAge + CacheTtl
         /\ left > 1 => left - 1 \in Nat
         /\ age + 1 \in Nat /\ lasted + 1 \in Nat
BY Bounds

LEMMA QuoteNumbers ==
  ASSUME NEW quote \in Quotes
  PROVE  quote.age \in Nat /\ quote.shown \in Nat /\ quote.took \in Nat /\ quote.price \in Nat
BY DEF Quotes

\* A call asks every oracle: those with a good quote in the cache answer at once.
LEMMA AskOK ==
  ASSUME PricesInv, NEW o \in Oracles
  PROVE  Ask(o) \in QuoteStates /\ QuoteOK(o, Ask(o), 0)
<1>1. /\ cache[o].left \in Nat /\ cache[o].quote \in Quotes
      /\ CachedOK(o, cache[o])
  BY DEF PricesInv, PricesType
<1>2. CASE cache[o].left > 0
  <2>1. Ask(o) = [st |-> "ok", quote |-> cache[o].quote]
    BY <1>2 DEF Ask
  <2>2. /\ cache[o].quote.age < CacheTtl + cache[o].quote.took + 0
        /\ o \in Chainlink => cache[o].quote.shown + cache[o].quote.age < MaxAge + CacheTtl + 0
    BY <1>1, <1>2, Counting, QuoteNumbers DEF CachedOK
  <2> QED BY <1>1, <2>1, <2>2 DEF QuoteStates, QuoteOK
<1>3. CASE ~ (cache[o].left > 0)
  <2>1. Ask(o) = [st |-> "requested", quote |-> NoQuote]
    BY <1>3 DEF Ask
  <2> QED BY <2>1 DEF QuoteStates, NoQuote, Quotes, QuoteOK
<1> QED BY <1>2, <1>3

\* A step of one call leaves the others alone.
LEMMA OneCall ==
  ASSUME PricesInv, NEW c \in Callers, NEW q \in [Oracles -> QuoteStates],
         quotes' = [quotes EXCEPT ![c] = q], \A d \in Callers \ {c} : calls'[d] = calls[d],
         \A o \in Oracles : QuoteOK(o, q[o], calls'[c].lasted) /\ (q[o].st # "none" => Asking(c)'),
         cache' \in [Oracles -> [quote : Quotes, left : Nat]],
         \A o \in Oracles : CachedOK(o, cache'[o])
  PROVE  PricesInv'
<1>0. quotes \in [Callers -> [Oracles -> QuoteStates]]
  BY DEF PricesInv, PricesType
<1>1. quotes'[c] = q /\ \A d \in Callers \ {c} : quotes'[d] = quotes[d]
  BY <1>0
<1>2. CallOK(c)'
  BY <1>1 DEF CallOK
<1>3. \A d \in Callers \ {c} : CallOK(d)'
  BY <1>1 DEF PricesInv, CallOK, Asking
<1>4. PricesType'
  BY <1>0 DEF PricesType
<1> QED BY <1>2, <1>3, <1>4 DEF PricesInv

\* One oracle's request goes on: the call waits as before.
LEMMA OneOracle ==
  ASSUME PricesInv, NEW c \in Callers, NEW o \in Oracles, NEW r \in QuoteStates,
         UNCHANGED calls, quotes[c][o].st # "none", QuoteOK(o, r, calls[c].lasted),
         quotes' = [quotes EXCEPT ![c][o] = r],
         cache' \in [Oracles -> [quote : Quotes, left : Nat]],
         \A p \in Oracles : CachedOK(p, cache'[p])
  PROVE  PricesInv'
<1> DEFINE q == [quotes[c] EXCEPT ![o] = r]
<1>1. quotes \in [Callers -> [Oracles -> QuoteStates]] /\ CallOK(c)
  BY DEF PricesInv, PricesType
<1>2. quotes' = [quotes EXCEPT ![c] = q] /\ q \in [Oracles -> QuoteStates]
  BY <1>1
<1>3. q[o] = r /\ \A p \in Oracles \ {o} : q[p] = quotes[c][p]
  BY <1>1
<1>4. Asking(c) /\ Asking(c)'
  BY <1>1 DEF CallOK, Asking
<1> HIDE DEF q
<1>5. \A p \in Oracles : QuoteOK(p, q[p], calls'[c].lasted) /\ (q[p].st # "none" => Asking(c)')
  BY <1>1, <1>3, <1>4 DEF CallOK
<1> QED BY <1>2, <1>5, OneCall

LEMMA SameCache ==
  ASSUME PricesInv, UNCHANGED cache
  PROVE  /\ cache' \in [Oracles -> [quote : Quotes, left : Nat]]
         /\ \A o \in Oracles : CachedOK(o, cache'[o])
BY DEF PricesInv, PricesType

\* The states a request of an oracle moves through.
LEMMA OracleStep ==
  ASSUME PricesInv, CallsOK, NEW c \in Callers, NEW o \in Oracles,
         Answer(c, o) \/ Arrive(c, o) \/ RequestFails(c, o)
  PROVE  PricesInv'
<1>0. /\ quotes \in [Callers -> [Oracles -> QuoteStates]]
      /\ cache \in [Oracles -> [quote : Quotes, left : Nat]]
      /\ quotes[c][o] \in QuoteStates /\ QuoteOK(o, quotes[c][o], calls[c].lasted)
      /\ calls[c].lasted \in Nat
  BY DEF PricesInv, PricesType, CallOK, CallsOK, NoCall
<1>1. CASE Answer(c, o)
  <2>1. PICK p \in Prices, shown \in Ages :
          quotes' = [quotes EXCEPT ![c][o].st = "answered",
                       ![c][o].quote = [price |-> p, shown |-> shown, age |-> 0, took |-> 0]]
    BY <1>1 DEF Answer
  <2> DEFINE r == [quotes[c][o] EXCEPT !.st = "answered",
                     !.quote = [price |-> p, shown |-> shown, age |-> 0, took |-> 0]]
  <2>2. r \in QuoteStates /\ QuoteOK(o, r, calls[c].lasted)
    <3>1. [price |-> p, shown |-> shown, age |-> 0, took |-> 0] \in Quotes
      BY RateLockAssumption DEF Quotes
    <3>2. r \in QuoteStates /\ r.st = "answered"
          /\ r.quote = [price |-> p, shown |-> shown, age |-> 0, took |-> 0]
      BY <1>0, <3>1 DEF QuoteStates
    <3> QED BY <1>0, <3>2 DEF QuoteOK
  <2>3. quotes' = [quotes EXCEPT ![c][o] = r]
    BY <1>0, <2>1
  <2>4. quotes[c][o].st # "none" /\ UNCHANGED cache /\ UNCHANGED calls
    BY <1>1 DEF Answer
  <2> HIDE DEF r
  <2> QED BY <2>2, <2>3, <2>4, SameCache, OneOracle
<1>2. CASE RequestFails(c, o)
  <2> DEFINE r == [quotes[c][o] EXCEPT !.st = "failed"]
  <2>1. r \in QuoteStates /\ QuoteOK(o, r, calls[c].lasted)
    BY <1>0 DEF QuoteStates, QuoteOK
  <2>2. quotes' = [quotes EXCEPT ![c][o] = r]
    BY <1>0, <1>2 DEF RequestFails
  <2>3. quotes[c][o].st # "none" /\ UNCHANGED cache /\ UNCHANGED calls
    BY <1>2 DEF RequestFails
  <2> HIDE DEF r
  <2> QED BY <2>1, <2>2, <2>3, SameCache, OneOracle
<1>3. CASE Arrive(c, o)
  <2> DEFINE quote == [quotes[c][o].quote EXCEPT !.took = calls[c].lasted]
  <2>1. quotes[c][o].st = "answered" /\ UNCHANGED calls
    BY <1>3 DEF Arrive
  <2>2. quotes[c][o].quote \in Quotes /\ quotes[c][o].quote.age <= calls[c].lasted
    BY <1>0, <2>1 DEF QuoteStates, QuoteOK
  <2>3. /\ quote \in Quotes /\ quote.took = calls[c].lasted
        /\ quote.age <= quote.took /\ quote.age = quotes[c][o].quote.age
    BY <1>0, <2>2 DEF Quotes
  <2>4. CASE /\ UNCHANGED cache
             /\ quotes' = [quotes EXCEPT ![c][o] = [st |-> "failed", quote |-> NoQuote]]
    <3> DEFINE r == [st |-> "failed", quote |-> NoQuote]
    <3>1. r \in QuoteStates /\ QuoteOK(o, r, calls[c].lasted)
      BY DEF QuoteStates, QuoteOK, NoQuote, Quotes
    <3>2. quotes' = [quotes EXCEPT ![c][o] = r]
      BY <2>4
    <3> HIDE DEF r
    <3> QED BY <2>1, <2>4, <3>1, <3>2, SameCache, OneOracle
  <2>5. CASE /\ Acceptable(o, quote) /\ Store(o, quote)
             /\ quotes' = [quotes EXCEPT ![c][o] = [st |-> "ok", quote |-> quote]]
    <3> HIDE DEF quote
    <3> DEFINE r == [st |-> "ok", quote |-> quote]
               entry == [quote |-> quote, left |-> CacheTtl]
    <3>1. quote.age \in Nat /\ quote.shown \in Nat /\ quote.took \in Nat
      BY <2>3, QuoteNumbers
    <3>2. o \in Chainlink => quote.shown + quote.age <= MaxAge
      BY <2>5 DEF Acceptable
    <3>3. /\ quote.age < CacheTtl + quote.took + calls[c].lasted
          /\ quote.age + CacheTtl <= CacheTtl + quote.took
          /\ o \in Chainlink => /\ quote.shown + quote.age < MaxAge + CacheTtl + calls[c].lasted
                                /\ quote.shown + quote.age + CacheTtl <= MaxAge + CacheTtl
      BY <1>0, <2>3, <3>1, <3>2, Counting
    <3>4. r \in QuoteStates /\ QuoteOK(o, r, calls[c].lasted)
      BY <2>3, <3>3 DEF QuoteStates, QuoteOK
    <3>5. CachedOK(o, entry) /\ entry \in [quote : Quotes, left : Nat]
      BY <2>3, <3>3, Bounds DEF CachedOK
    <3>6. cache' = [cache EXCEPT ![o] = entry]
      BY <2>5 DEF Store
    <3>7. quotes' = [quotes EXCEPT ![c][o] = r]
      BY <2>5
    <3> HIDE DEF r, entry
    <3>8. /\ cache' \in [Oracles -> [quote : Quotes, left : Nat]]
          /\ \A p \in Oracles : CachedOK(p, cache'[p])
      BY <1>0, <3>5, <3>6 DEF PricesInv
    <3> QED BY <2>1, <3>4, <3>7, <3>8, OneOracle
  <2> QED BY <1>3, <2>4, <2>5 DEF Arrive
<1> QED BY <1>1, <1>2, <1>3

\* The calls start and end.
LEMMA CallStep ==
  ASSUME PricesInv, CallsOK, NEW c \in Callers,
         \/ StoreLock(c)
         \/ \E i \in Intents, ttl \in Ttls : createLock(c, i, ttl)
  PROVE  PricesInv'
<1>1. CASE StoreLock(c)
  <2> DEFINE q == [o \in Oracles |-> Idle]
  <2>1. Idle \in QuoteStates /\ Idle.st = "none"
    BY DEF Idle, QuoteStates, NoQuote, Quotes
  <2>2. q \in [Oracles -> QuoteStates] /\ \A o \in Oracles : q[o] = Idle
    BY <2>1
  <2>3. /\ quotes' = [quotes EXCEPT ![c] = q] /\ UNCHANGED cache
        /\ calls' = [calls EXCEPT ![c] = NoCall]
    BY <1>1 DEF StoreLock
  <2> HIDE DEF q
  <2>4. \A o \in Oracles : QuoteOK(o, q[o], calls'[c].lasted) /\ (q[o].st # "none" => Asking(c)')
    BY <2>1, <2>2 DEF QuoteOK
  <2>5. \A d \in Callers \ {c} : calls'[d] = calls[d]
    BY <2>3 DEF CallsOK
  <2> QED BY <2>2, <2>3, <2>4, <2>5, SameCache, OneCall
<1>2. ASSUME NEW i \in Intents, NEW ttl \in Ttls, createLock(c, i, ttl)
      PROVE  PricesInv'
  <2> DEFINE q == [o \in Oracles |-> Ask(o)]
  <2>1. q \in [Oracles -> QuoteStates] /\ \A o \in Oracles : QuoteOK(o, q[o], 0)
    BY AskOK
  <2>2. /\ quotes' = [quotes EXCEPT ![c] = q] /\ UNCHANGED cache
        /\ calls' = [calls EXCEPT ![c] = [intent |-> i, ttl |-> ttl, lasted |-> 0]]
    BY <1>2 DEF createLock
  <2> HIDE DEF q
  <2>3. /\ \A d \in Callers \ {c} : calls'[d] = calls[d]
        /\ calls'[c].intent = i /\ calls'[c].lasted = 0
    BY <2>2 DEF CallsOK
  <2>4. Asking(c)'
    BY <2>3, RateLockAssumption DEF Asking
  <2> QED BY <2>1, <2>2, <2>3, <2>4, SameCache, OneCall
<1> QED BY <1>1, <1>2

\* What is older by one unit of time.
LEMMA OlderQuote ==
  ASSUME NEW quote \in Quotes
  PROVE  /\ Older(quote) \in Quotes /\ Older(quote).age = quote.age + 1
         /\ Older(quote).shown = quote.shown /\ Older(quote).took = quote.took
<1>1. quote.age + 1 \in Nat
  BY QuoteNumbers
<1> QED BY <1>1 DEF Older, Quotes

LEMMA PricesTick ==
  ASSUME PricesInv, CallsOK, Tick
  PROVE  PricesInv'
<1>0. /\ quotes \in [Callers -> [Oracles -> QuoteStates]]
      /\ cache \in [Oracles -> [quote : Quotes, left : Nat]]
  BY DEF PricesInv, PricesType
<1>1. ASSUME NEW o \in Oracles
      PROVE  cache'[o] \in [quote : Quotes, left : Nat] /\ CachedOK(o, cache'[o])
  <2>1. cache'[o] = IF cache[o].left <= 1 THEN NotCached
                    ELSE [quote |-> Older(cache[o].quote), left |-> cache[o].left - 1]
    BY DEF Tick
  <2>2. cache[o].quote \in Quotes /\ cache[o].left \in Nat /\ CachedOK(o, cache[o])
    BY <1>0 DEF PricesInv
  <2>3. CASE cache[o].left <= 1
    BY <2>1, <2>3 DEF NotCached, NoQuote, Quotes, CachedOK
  <2>4. CASE ~ (cache[o].left <= 1)
    <3> DEFINE quote == cache[o].quote  left == cache[o].left
    <3>1. left > 1 /\ left > 0 /\ left \in Nat
      BY <2>2, <2>4
    <3>2. /\ quote.age + left <= CacheTtl + quote.took
          /\ o \in Chainlink => quote.shown + quote.age + left <= MaxAge + CacheTtl
      BY <2>2, <3>1 DEF CachedOK
    <3>3. cache'[o] = [quote |-> Older(quote), left |-> left - 1] /\ quote \in Quotes
      BY <2>1, <2>2, <2>4
    <3> HIDE DEF quote, left
    <3>4. /\ (quote.age + 1) + (left - 1) <= CacheTtl + quote.took
          /\ o \in Chainlink =>
               quote.shown + (quote.age + 1) + (left - 1) <= MaxAge + CacheTtl
          /\ left - 1 \in Nat
      BY <3>1, <3>2, <3>3, QuoteNumbers, Counting
    <3>5. /\ cache'[o] \in [quote : Quotes, left : Nat] /\ cache'[o].left = left - 1
          /\ cache'[o].quote.age = quote.age + 1 /\ cache'[o].quote.shown = quote.shown
          /\ cache'[o].quote.took = quote.took
      BY <3>3, <3>4, OlderQuote
    <3> QED BY <3>4, <3>5 DEF CachedOK
  <2> QED BY <2>3, <2>4
<1>2. ASSUME NEW c \in Callers, NEW o \in Oracles
      PROVE  /\ quotes'[c][o] \in QuoteStates
             /\ QuoteOK(o, quotes'[c][o], calls'[c].lasted)
             /\ quotes'[c][o].st # "none" => Asking(c)'
  <2> DEFINE q == quotes[c][o]
  <2>1. /\ q \in QuoteStates /\ q.quote \in Quotes /\ QuoteOK(o, q, calls[c].lasted)
        /\ q.st # "none" => Asking(c)
        /\ calls[c].lasted \in Nat
    BY <1>0 DEF PricesInv, CallOK, QuoteStates, CallsOK, NoCall
  <2>2. /\ quotes'[c][o] = IF q.st \in {"answered", "ok"}
                           THEN [q EXCEPT !.quote = Older(q.quote)] ELSE q
        /\ Asking(c)' <=> Asking(c)
        /\ Asking(c) => calls'[c].lasted = calls[c].lasted + 1
    BY DEF Tick, Asking, CallsOK, NoCall
  <2> HIDE DEF q
  <2>3. CASE q.st \in {"answered", "ok"}
    <3>1. quotes'[c][o] = [q EXCEPT !.quote = Older(q.quote)]
      BY <2>2, <2>3
    <3>2. /\ quotes'[c][o] \in QuoteStates /\ quotes'[c][o].st = q.st
          /\ quotes'[c][o].quote.age = q.quote.age + 1
          /\ quotes'[c][o].quote.shown = q.quote.shown
          /\ quotes'[c][o].quote.took = q.quote.took
      BY <2>1, <3>1, OlderQuote DEF QuoteStates
    <3>3. calls'[c].lasted = calls[c].lasted + 1 /\ Asking(c)'
      BY <2>1, <2>2, <2>3
    <3>4. /\ q.st = "answered" => q.quote.age + 1 <= calls[c].lasted + 1
          /\ q.st = "ok" =>
               /\ q.quote.age + 1 < CacheTtl + q.quote.took + (calls[c].lasted + 1)
               /\ o \in Chainlink =>
                    q.quote.shown + (q.quote.age + 1) < MaxAge + CacheTtl + (calls[c].lasted + 1)
      BY <2>1, QuoteNumbers, Counting DEF QuoteOK
    <3> QED BY <3>2, <3>3, <3>4 DEF QuoteOK
  <2>4. CASE q.st \notin {"answered", "ok"}
    BY <2>1, <2>2, <2>4 DEF QuoteOK
  <2> QED BY <2>3, <2>4
<1>3. /\ quotes' = [c \in Callers |-> quotes'[c]]
      /\ \A c \in Callers : quotes'[c] = [o \in Oracles |-> quotes'[c][o]]
      /\ cache' = [o \in Oracles |-> cache'[o]]
  BY DEF Tick
<1>4. PricesType'
  <2>1. \A c \in Callers : quotes'[c] \in [Oracles -> QuoteStates]
    BY <1>2, <1>3
  <2> QED BY <1>1, <1>3, <2>1 DEF PricesType
<1> QED BY <1>1, <1>2, <1>4 DEF PricesInv, CallOK

LEMMA PricesStep ==
  ASSUME PricesInv, CallsOK, [Next]_vars
  PROVE  PricesInv'
<1>1. ASSUME UNCHANGED <<cache, calls, quotes>> PROVE PricesInv'
  BY <1>1 DEF PricesInv, PricesType, CallOK, Asking
<1>2. ASSUME NEW i \in Intents, consumeLock(i) \/ cancelLock(i) \/ isLockValid(i)
      PROVE  PricesInv'
  BY <1>1, <1>2 DEF consumeLock, cancelLock, isLockValid
<1>3. CASE cleanupExpiredLocks
  BY <1>1, <1>3 DEF cleanupExpiredLocks
<1>4. CASE UNCHANGED vars
  BY <1>1, <1>4 DEF vars
<1> QED BY <1>2, <1>3, <1>4, CallStep, OracleStep, PricesTick DEF Next

\* The median of prices is one of them.
LEMMA MedianIsSuccessful ==
  ASSUME PricesType, NEW c \in Callers, Successful(c) # {}
  PROVE  median(c) \in Successful(c)
<1> DEFINE S == Successful(c)
           f == [o \in S |-> Price(c, o)]
           half == Cardinality(S) \div 2
           Upto(o) == {p \in S : Price(c, p) <= Price(c, o)}
           Below(o) == {p \in S : Price(c, p) < Price(c, o)}
           F == {Upto(o) : o \in {u \in S : half < Cardinality(Upto(u))}}
<1>1. IsFiniteSet(S)
  <2>1. S \in SUBSET Oracles
    BY DEF Successful
  <2> QED BY <2>1, FS_Subset, RateLockAssumption
<1>2. \A o \in S : Price(c, o) \in Nat
  BY DEF Successful, Price, PricesType, QuoteStates, Quotes
<1>3. \A T \in SUBSET S : T # {} => \E o \in T : \A p \in T : Price(c, p) <= Price(c, o)
  <2> SUFFICES ASSUME NEW T \in SUBSET S, T # {}
               PROVE  \E o \in T : \A p \in T : Price(c, p) <= Price(c, o)
    OBVIOUS
  <2>1. IsFiniteSet(T) /\ \A x \in T : f[x] \in Nat
    BY <1>1, <1>2, FS_Subset
  <2>2. \E o \in T : \A p \in T : f[p] <= f[o]
    BY <2>1, Largest
  <2> QED BY <2>2
<1>4. Cardinality(S) \in Nat /\ half \in Nat /\ half < Cardinality(S)
  <2>1. Cardinality(S) \in Nat \ {0}
    BY <1>1, FS_CardinalityType, FS_EmptySet
  <2>2. \A n \in Nat \ {0} : n \div 2 \in Nat /\ n \div 2 < n
    OBVIOUS
  <2> QED BY <2>1, <2>2
<1> HIDE DEF half
<1>5. F # {}
  <2>1. PICK o \in S : \A p \in S : Price(c, p) <= Price(c, o)
    BY <1>3
  <2>2. Upto(o) = S
    BY <2>1
  <2> QED BY <1>4, <2>2
<1>6. F \in SUBSET (SUBSET S)
  OBVIOUS
<1> HIDE DEF F
<1>7. PICK t \in F : IsFiniteSet(t) /\ \A s \in F : Cardinality(t) <= Cardinality(s)
  BY <1>1, <1>5, <1>6, Smallest
<1>8. PICK o \in S : t = Upto(o) /\ half < Cardinality(Upto(o))
  BY <1>7 DEF F
<1>9. Cardinality(Below(o)) <= half
  <2> SUFFICES ASSUME ~ (Cardinality(Below(o)) <= half) PROVE FALSE
    OBVIOUS
  <2>1. IsFiniteSet(Below(o)) /\ Cardinality(Below(o)) \in Nat
    <3>1. Below(o) \in SUBSET S
      OBVIOUS
    <3> HIDE DEF Below
    <3> QED BY <1>1, <3>1, FS_Subset, FS_CardinalityType
  <2>2. Below(o) # {}
    <3> HIDE DEF Below
    <3> QED BY <1>4, <2>1, FS_EmptySet
  <2>3. Below(o) \in SUBSET S
    OBVIOUS
  <2>4. PICK u \in Below(o) : \A p \in Below(o) : Price(c, p) <= Price(c, u)
    BY <1>3, <2>2, <2>3
  <2>5. Upto(u) = Below(o) /\ u \in S
    BY <1>2, <2>4
  <2>6. half < Cardinality(Below(o))
    <3> HIDE DEF Below
    <3> QED BY <1>4, <2>1
  <2>7. Upto(u) \in F
    BY <2>5, <2>6 DEF F
  <2>8. Below(o) \in SUBSET t /\ o \in t /\ o \notin Below(o)
    BY <1>2, <1>8
  <2> HIDE DEF Below, Upto
  <2>9. Cardinality(Below(o)) < Cardinality(t)
    BY <1>7, <2>8, Fewer
  <2>10. Cardinality(t) <= Cardinality(Below(o)) /\ Cardinality(t) \in Nat
    BY <1>7, <2>5, <2>7, FS_CardinalityType
  <2>11. \A i, j \in Nat : ~ (i < j /\ j <= i)
    OBVIOUS
  <2> QED BY <2>1, <2>9, <2>10, <2>11
<1>10. \E m \in S : Cardinality(Below(m)) <= half /\ half < Cardinality(Upto(m))
  BY <1>8, <1>9
<1>11. median(c) = CHOOSE m \in S : Cardinality(Below(m)) <= half /\ half < Cardinality(Upto(m))
  BY DEF median, half
<1> HIDE DEF S, Below, Upto
<1> QED BY <1>10, <1>11 DEF S

\* For any number of oracles and callers, and however long a call lasts: however requests
\* overlap, fail and overtake each other in the caches, the rate that a lock freezes was read
\* less than a cache lifetime before the call that read it began, or the one that locks it
\* (price-oracle.service.ts: getPrice of the oracles and of the aggregator).
THEOREM LockedRatesAreRecent == Spec => []RateIsRecent
<1>0. Init => StoreOK /\ CallsOK
  BY DEF Init, StoreOK, CallsOK
<1>1. Init => PricesInv
  <2> SUFFICES ASSUME Init PROVE PricesInv
    OBVIOUS
  <2>1. /\ Idle \in QuoteStates /\ Idle.st = "none" /\ NotCached.left = 0
        /\ NotCached \in [quote : Quotes, left : Nat]
    BY DEF Idle, QuoteStates, NoQuote, Quotes, NotCached
  <2>2. PricesType
    BY <2>1 DEF Init, PricesType
  <2>3. \A o \in Oracles : CachedOK(o, cache[o])
    BY <2>1 DEF Init, CachedOK
  <2>4. \A c \in Callers, o \in Oracles : quotes[c][o] = Idle
    BY DEF Init
  <2>5. \A c \in Callers : CallOK(c)
    BY <2>1, <2>4 DEF CallOK, QuoteOK
  <2> QED BY <2>2, <2>3, <2>5 DEF PricesInv
<1>2. PricesInv => RateIsRecent
  <2> SUFFICES ASSUME PricesInv, NEW c \in Callers, Successful(c) # {}
               PROVE  LET quote == quotes[c][median(c)].quote
                      IN /\ quote.age < CacheTtl + quote.took + calls[c].lasted
                         /\ median(c) \in Chainlink =>
                              quote.shown + quote.age < MaxAge + CacheTtl + calls[c].lasted
    BY DEF RateIsRecent
  <2>1. median(c) \in Oracles /\ quotes[c][median(c)].st = "ok"
    <3>1. median(c) \in Successful(c)
      BY MedianIsSuccessful DEF PricesInv
    <3> QED BY <3>1 DEF Successful
  <2> QED BY <2>1 DEF PricesInv, CallOK, QuoteOK
<1> QED BY <1>0, <1>1, <1>2, StoreStep, PricesStep, PTL DEF Spec

-----------------------------------------------------------------------------
(* Compliance: what is known of an address. *)

Deployed ==
  /\ scorer \in Scorers
  /\ profile \in [score : Scores, flags : SUBSET {"MIXER"}]

\* A risk that tells of a match, if its answer did, and rests on an answer at a vendor's.
Telling(risk) ==
  /\ risk \in Risks
  /\ risk.basis.listed => "SANCTIONED" \in risk.flags
  /\ scorer \in Vendors => risk.basis.ok
  /\ scorer \notin Vendors /\ risk.basis.listed => risk.riskScore = 100
  /\ risk.basis.listed => risk.basis.ok

ScoresOK ==
  /\ scores.left \in Nat
  /\ scores.left > 0 =>
       /\ scores \in [risk : Risks, left : Nat]
       /\ Telling(scores.risk)
       /\ scores.risk.basis.age + scores.left <= ScoreTtl + scores.risk.basis.took

Recent(basis) == basis.age < ScoreTtl + basis.took

\* A verdict that lets something through keeps its promise.
Granted(basis) == ~ basis.listed /\ Recent(basis) /\ (scorer \in Vendors => basis.ok)

ScreeningOK(call) ==
  /\ call \in [of : Requests \cup {NoRequest},
                st : {"idle", "asking", "answered"},
                lasted : Nat, basis : Answers, verdict : Verdicts]
  /\ call.st # "idle" => call.of \in Requests /\ call.verdict = "none"
  /\ call.st = "answered" => call.basis.ok /\ call.basis.age <= call.lasted
  /\ call.verdict \in {"allowed", "passed"} => Granted(call.basis)

ScreeningsOK ==
  /\ screenings = [c \in Calls |-> screenings[c]]
  /\ \A c \in Calls : ScreeningOK(screenings[c])

\* The records of w that were allowed, and what some of its records amount to.
Kept(w) == {n \in DOMAIN w : w[n].allowed}
Amount(w, S) == SumOver([n \in S |-> w[n].amount], S)

AnyRecords == [amount : Nat, age : Nat, allowed : BOOLEAN]
IsWindow(w) == DOMAIN w \subseteq Places /\ w \in [DOMAIN w -> AnyRecords]

WithinLimits(w) ==
  /\ Cardinality(Kept(w)) <= maxTransactions
  /\ Amount(w, Kept(w)) <= maxAmount

WindowsOK == IsWindow(windows) /\ WithinLimits(windows)

ScreeningInv == Deployed /\ entries \in BOOLEAN /\ ScoresOK /\ ScreeningsOK /\ WindowsOK

LEMMA ScreeningBounds ==
  /\ ScoreTtl \in Nat \ {0} /\ durationMs \in Nat
  /\ maxTransactions \in Nat /\ maxAmount \in Nat /\ IsFiniteSet(Places)
  /\ Amounts \subseteq Nat /\ Delays \subseteq Nat /\ Scores \subseteq 0 .. 100
BY ComplianceAssumption

\* Whatever the scorer and the answer: the result tells what the answer told.
LEMMA ScreenedTells ==
  ASSUME Deployed, NEW answer \in Answers, scorer \in Vendors => answer.ok,
         answer.listed => answer.ok
  PROVE  Telling(screened(answer)) /\ screened(answer).basis = answer
<1>1. profile.score \in 0 .. 100 /\ profile.flags \subseteq {"MIXER"}
  <2>1. profile.score \in Scores /\ profile.flags \subseteq {"MIXER"}
    BY DEF Deployed
  <2> QED BY <2>1, ScreeningBounds
<1>2. answer.listed \in BOOLEAN
  BY DEF Answers
<1>3. CASE scorer \in Vendors
  <2>1. screened(answer) =
          [riskScore |-> profile.score,
           flags |-> profile.flags \cup (IF answer.listed THEN {"SANCTIONED"} ELSE {}),
           basis |-> answer]
    BY <1>3 DEF screened, parseRiskResponse
  <2> QED BY <1>1, <1>2, <1>3, <2>1 DEF Telling, Risks, Flags
<1>4. CASE scorer \notin Vendors
  <2>1. screened(answer) =
          [riskScore |-> IF answer.listed THEN 100 ELSE profile.score,
           flags |-> IF answer.listed THEN {"SANCTIONED"} ELSE {},
           basis |-> answer]
    BY <1>2, <1>4 DEF screened, totalScore, extractFlags,
                      calculateRiskFactors
  <2> QED BY <1>1, <1>2, <1>4, <2>1 DEF Telling, Risks, Flags
<1> QED BY <1>3, <1>4

\* So does the one that comes from the cache, where the flags of a basic score are made up.
LEMMA CachedTells ==
  ASSUME Deployed, ScoresOK, scores.left > 0
  PROVE  /\ Telling(cachedResult)
         /\ cachedResult.basis = scores.risk.basis
         /\ Recent(scores.risk.basis)
<1>1. scores.risk \in Risks /\ Telling(scores.risk)
  BY DEF ScoresOK
<1>2. Recent(scores.risk.basis)
  <2>1. /\ scores.risk.basis.age \in Nat /\ scores.risk.basis.took \in Nat /\ scores.left \in Nat
        /\ scores.risk.basis.age + scores.left <= ScoreTtl + scores.risk.basis.took
    BY <1>1 DEF ScoresOK, Risks, Answers
  <2> QED BY <2>1, ScreeningBounds DEF Recent
<1>3. CASE scorer \in Vendors
  BY <1>1, <1>2, <1>3 DEF cachedResult
<1>4. CASE scorer \notin Vendors
  <2> DEFINE score == scores.risk.riskScore
             made == CASE score >= 80 -> {"SANCTIONED"}
                       [] score \in 60 .. 79 -> {"NEW_ADDRESS"}
                       [] OTHER -> {}
  <2>1. cachedResult = [scores.risk EXCEPT !.flags = made]
    BY <1>4 DEF cachedResult, buildCachedResult
  <2>2. made \in SUBSET Flags
    BY DEF Flags
  <2>3. score = 100 => "SANCTIONED" \in made
    OBVIOUS
  <2> HIDE DEF made
  <2> QED BY <1>1, <1>2, <1>4, <2>1, <2>2, <2>3 DEF Telling, Risks, Deployed
<1> QED BY <1>3, <1>4

\* Every kind of screening refuses a match.
LEMMA MatchesAreBlocked ==
  ASSUME NEW r, NEW risk, "SANCTIONED" \in risk.flags
  PROVE  blocked(r, risk)
<1>0. AddressRefused(r, risk)
  BY DEF AddressRefused
<1>1. makeDecision(r, risk)
  BY DEF makeDecision
<1>2. TransactionRefused(r, risk)
  BY DEF TransactionRefused
<1> QED BY <1>0, <1>1, <1>2 DEF blocked

\* A call whose risk is known ends well.
LEMMA DecisionOK ==
  ASSUME Deployed, NEW r, NEW risk, Telling(risk), Recent(risk.basis),
         NEW verdict \in {"allowed", "passed", "blocked"},
         blocked(r, risk) => verdict = "blocked"
  PROVE  ScreeningOK(Ended(verdict, risk.basis))
<1>1. risk.basis \in Answers
  BY DEF Telling, Risks
<1>2. verdict \in {"allowed", "passed"} => Granted(risk.basis)
  BY MatchesAreBlocked DEF Telling, Granted
<1> QED BY <1>1, <1>2 DEF ScreeningOK, Ended, Verdicts

-----------------------------------------------------------------------------
(* Compliance: velocity. *)

LEMMA LimitsAreKept == WithinLimits(windows) => AllowedWithinLimits
BY DEF WithinLimits, Kept, Amount, AllowedWithinLimits

\* Some of the records amount to no more than all.
LEMMA SomeAmount ==
  ASSUME NEW S, IsFiniteSet(S), NEW w, \A n \in S : w[n].amount \in Nat, NEW T \in SUBSET S
  PROVE  Amount(w, T) \in Nat /\ Amount(w, T) <= Amount(w, S)
<1> DEFINE f == [n \in S |-> w[n].amount]  g == [n \in T |-> w[n].amount]
<1>1. SumOver(f, T) \in Nat /\ SumOver(f, T) <= SumOver(f, S)
  <2>1. \A n \in S : f[n] \in Nat
    OBVIOUS
  <2> HIDE DEF f
  <2> QED BY <2>1, SumGrows
<1>2. IsFiniteSet(T) /\ \A n \in T : f[n] = g[n]
  BY FS_Subset
<1> HIDE DEF f, g
<1>3. SumOver(f, T) = SumOver(g, T)
  BY <1>2, SumAgrees
<1> QED BY <1>1, <1>3 DEF Amount, f, g

\* What amounts to the same, with no more of it allowed, stays within the limits.
LEMMA FewerAllowed ==
  ASSUME NEW w, NEW v, IsFiniteSet(Places), maxTransactions \in Nat, maxAmount \in Nat,
         IsWindow(w), WithinLimits(w), Kept(v) \subseteq Kept(w),
         \A n \in Kept(v) : v[n].amount = w[n].amount
  PROVE  WithinLimits(v)
<1>1. IsFiniteSet(Kept(w)) /\ \A n \in Kept(w) : w[n].amount \in Nat
  <2>1. Kept(w) \in SUBSET Places
    BY DEF Kept, IsWindow
  <2> QED BY <2>1, FS_Subset DEF Kept, IsWindow, AnyRecords
<1>2. Amount(w, Kept(v)) \in Nat /\ Amount(w, Kept(v)) <= Amount(w, Kept(w))
  BY <1>1, SomeAmount
<1>3. Amount(w, Kept(w)) \in Nat
  BY <1>1, SomeAmount
<1>4. Amount(v, Kept(v)) = Amount(w, Kept(v))
  BY DEF Amount
<1>5. /\ Cardinality(Kept(v)) <= Cardinality(Kept(w))
      /\ Cardinality(Kept(v)) \in Nat /\ Cardinality(Kept(w)) \in Nat
  BY <1>1, FS_Subset, FS_CardinalityType
<1>6. \A i, j, k \in Nat : i <= j /\ j <= k => i <= k
  OBVIOUS
<1> QED BY <1>2, <1>3, <1>4, <1>5, <1>6 DEF WithinLimits

\* The check counts the new record, too, whatever its verdict will be.
LEMMA VelocityOK ==
  ASSUME Deployed, WindowsOK, ~ Full, NEW r \in Requests,
         NEW verdict,
         verdict = "allowed" /\ Counted(r) =>
           ~ exceeded(checkVelocity(r, "none"))
  PROVE  /\ IsWindow(checkVelocity(r, verdict))
         /\ WithinLimits(checkVelocity(r, verdict))
<1> DEFINE D == DOMAIN windows \cup {Free}
           new(a) == [amount |-> r.amount, age |-> r.delay, allowed |-> a = "allowed"]
           all(a) == [n \in D |-> IF n \in DOMAIN windows THEN windows[n] ELSE new(a)]
<1>0. /\ IsFiniteSet(Places) /\ maxTransactions \in Nat /\ maxAmount \in Nat
      /\ IsWindow(windows) /\ WithinLimits(windows)
  BY ScreeningBounds DEF WindowsOK
<1>1. CASE ~ Enters(r)
  BY <1>0, <1>1 DEF checkVelocity
<1>2. CASE Enters(r)
  <2>1. Free \in Places /\ Free \notin DOMAIN windows
    <3>1. \E n \in Places : n \notin DOMAIN windows
      BY <1>0 DEF Full, IsWindow
    <3> QED BY <3>1 DEF Free
  <2>2. \A a : new(a) \in AnyRecords
    <3>0. r.amount \in Amounts /\ r.delay \in Delays \cup {0}
      BY DEF Requests
    <3>1. Amounts \subseteq Nat /\ Delays \cup {0} \subseteq Nat
      BY ScreeningBounds
    <3>2. r.amount \in Nat /\ r.delay \in Nat
      BY <3>0, <3>1
    <3> QED BY <3>2 DEF AnyRecords
  <2>3. \A a : checkVelocity(r, a) = all(a)
    BY <1>2 DEF checkVelocity
  <2>4. \A a : IsWindow(all(a)) /\ DOMAIN all(a) = D
    BY <1>0, <2>1, <2>2 DEF IsWindow
  <2>5. \A n \in D : all(verdict)[n].amount = all("none")[n].amount
    OBVIOUS
  <2>6. CASE verdict = "allowed"
    <3>1. ~ exceeded(all("none"))
      BY <1>2, <2>3, <2>6 DEF Enters
    <3> DEFINE w == all("none")  v == all(verdict)
    <3>2. IsWindow(w) /\ DOMAIN w = D /\ DOMAIN v = D /\ IsWindow(v)
      BY <2>4
    <3>3. \A n \in D : v[n].amount = w[n].amount
      BY <2>5
    <3> HIDE DEF w, v, D
    <3>4. IsFiniteSet(D) /\ \A n \in D : w[n].amount \in Nat
      BY <1>0, <3>2, FS_Subset DEF IsWindow, AnyRecords
    <3>5. Cardinality(D) \in Nat /\ Amount(w, D) \in Nat
      BY <3>4, FS_CardinalityType, SomeAmount
    <3>6. Cardinality(D) <= maxTransactions /\ Amount(w, D) <= maxAmount
      <4>1. ~ exceeded(w)
        BY <3>1 DEF w
      <4>2. ~ (Cardinality(D) > maxTransactions) /\ ~ (Amount(w, D) > maxAmount)
        BY <3>2, <4>1
           DEF exceeded, Count, Total, Amount
      <4> QED BY <1>0, <3>5, <4>2
    <3>7. Kept(v) \subseteq D
      BY <3>2 DEF Kept
    <3>8. Amount(v, Kept(v)) = Amount(w, Kept(v))
      BY <3>3, <3>7 DEF Amount
    <3>9. Amount(w, Kept(v)) \in Nat /\ Amount(w, Kept(v)) <= Amount(w, D)
      BY <3>4, <3>7, SomeAmount
    <3>10. Cardinality(Kept(v)) \in Nat /\ Cardinality(Kept(v)) <= Cardinality(D)
      BY <3>4, <3>7, FS_Subset, FS_CardinalityType
    <3>11. \A i, j, k \in Nat : i <= j /\ j <= k => i <= k
      OBVIOUS
    <3>12. WithinLimits(v)
      BY <1>0, <3>5, <3>6, <3>8, <3>9, <3>10, <3>11 DEF WithinLimits
    <3> QED BY <2>3, <3>2, <3>12 DEF v
  <2>7. CASE verdict # "allowed"
    <3>1. Kept(all(verdict)) \subseteq Kept(windows)
      BY <2>7 DEF Kept
    <3>2. \A n \in Kept(all(verdict)) : all(verdict)[n].amount = windows[n].amount
      BY <2>7 DEF Kept
    <3> HIDE DEF all
    <3>3. WithinLimits(all(verdict))
      BY <1>0, <3>1, <3>2, FewerAllowed
    <3> QED BY <2>3, <2>4, <3>3
  <2> QED BY <2>6, <2>7
<1> QED BY <1>1, <1>2

LEMMA DecideOK ==
  ASSUME Deployed, WindowsOK, ScreeningsOK, NEW c \in Calls, NEW r \in Requests,
         NEW risk, Telling(risk), Recent(risk.basis),
         ~ Full, Decide(c, r, risk), UNCHANGED <<scorer, velocityChecks, profile>>
  PROVE  WindowsOK' /\ ScreeningsOK'
<1> DEFINE verdict == IF blocked(r, risk) THEN "blocked"
                      ELSE IF ByGate(r) THEN "passed" ELSE "allowed"
<1>1. /\ screenings' = [screenings EXCEPT ![c] = Ended(verdict, risk.basis)]
      /\ windows' = checkVelocity(r, verdict)
  BY DEF Decide
<1>2. ScreeningOK(Ended(verdict, risk.basis))
  <2>1. verdict \in {"allowed", "passed", "blocked"} /\ (blocked(r, risk) => verdict = "blocked")
    OBVIOUS
  <2> HIDE DEF verdict
  <2> QED BY <2>1, DecisionOK
<1>3. (verdict = "allowed") /\ Counted(r)
        => ~ exceeded(checkVelocity(r, "none"))
  <2> SUFFICES ASSUME ~ blocked(r, risk), Counted(r)
               PROVE  ~ exceeded(checkVelocity(r, "none"))
    OBVIOUS
  <2>1. r.kind \in {"creation", "deposit"}
    BY DEF Counted
  <2>2. ~ makeDecision(r, risk)
    BY <2>1 DEF blocked
  <2> QED BY <2>2 DEF makeDecision
<1> HIDE DEF verdict
<1>5. IsWindow(windows') /\ WithinLimits(windows')
  BY <1>1, <1>3, VelocityOK
<1>6. ScreeningsOK'
  BY <1>1, <1>2 DEF ScreeningsOK, ScreeningOK, Granted, Recent
<1> QED BY <1>5, <1>6 DEF WindowsOK, IsWindow, WithinLimits, Kept, Amount

-----------------------------------------------------------------------------
(* Compliance: the steps. *)

LEMMA SameScores == ScoresOK /\ UNCHANGED <<scorer, scores>> => ScoresOK'
BY DEF ScoresOK, Telling

LEMMA SameWindows == WindowsOK /\ UNCHANGED windows => WindowsOK'
BY DEF WindowsOK, IsWindow, WithinLimits, Kept, Amount

\* One call goes on.
LEMMA OneScreening ==
  ASSUME ScreeningsOK, NEW c \in Calls, NEW call, ScreeningOK(call), UNCHANGED scorer,
         screenings' = [screenings EXCEPT ![c] = call]
  PROVE  ScreeningsOK'
BY DEF ScreeningsOK, ScreeningOK, Granted, Recent

\* A result that rests on a recent answer is stored.
LEMMA StoreScores ==
  ASSUME Deployed, NEW risk, Telling(risk), risk.basis.age <= risk.basis.took,
         StoreScore(risk), UNCHANGED scorer
  PROVE  ScoresOK'
<1>1. scores' = [risk |-> risk, left |-> ScoreTtl] /\ ScoreTtl \in Nat
  BY ScreeningBounds DEF StoreScore
<1>2. risk \in Risks /\ risk.basis.age \in Nat /\ risk.basis.took \in Nat
  BY DEF Telling, Risks, Answers
<1>3. risk.basis.age + ScoreTtl <= ScoreTtl + risk.basis.took
  BY <1>1, <1>2
<1> QED BY <1>1, <1>2, <1>3 DEF ScoresOK, Telling

LEMMA EndedOK ==
  ASSUME Deployed, NEW verdict \in {"none", "blocked", "threw"}
  PROVE  ScreeningOK(Ended(verdict, NoAnswer))
BY DEF ScreeningOK, Ended, NoAnswer, Answers, Verdicts

LEMMA ScreenAddressOK ==
  ASSUME ScreeningInv, NEW c \in Calls, NEW r \in Requests,
         screenAddress(c, r)
  PROVE  ScreeningInv'
<1>0. /\ ~ Full /\ UNCHANGED <<scorer, velocityChecks, profile, entries, scores, blockedAddresses>>
      /\ Deployed /\ WindowsOK /\ ScreeningsOK /\ ScoresOK /\ entries \in BOOLEAN
  BY DEF screenAddress, deployment, ScreeningInv
<1>1. Deployed' /\ ScoresOK' /\ entries' \in BOOLEAN
  BY <1>0, SameScores DEF Deployed
<1>2. CASE scores.left > 0
  <2>1. Decide(c, r, cachedResult)
    BY <1>2 DEF screenAddress
  <2>2. /\ Telling(cachedResult)
        /\ Recent(cachedResult.basis)
    BY <1>0, <1>2, CachedTells
  <2>3. WindowsOK' /\ ScreeningsOK'
    BY <1>0, <2>1, <2>2, DecideOK
  <2> QED BY <1>1, <2>3 DEF ScreeningInv
<1>3. CASE ~ (scores.left > 0)
  <2> DEFINE idle == NotScreening
             call == [idle EXCEPT !.of = r, !.st = "asking"]
  <2>1. screenings' = [screenings EXCEPT ![c] = call] /\ UNCHANGED windows
    BY <1>3 DEF screenAddress
  <2>2. ScreeningOK(idle) /\ idle.verdict = "none"
    BY <1>0, EndedOK DEF NotScreening, Ended
  <2> HIDE DEF idle
  <2>3. /\ call.of = r /\ call.st = "asking" /\ call.verdict = "none"
        /\ call \in [of : Requests \cup {NoRequest},
                     st : {"idle", "asking", "answered"}, lasted : Nat,
                     basis : Answers, verdict : Verdicts]
    BY <2>2 DEF ScreeningOK
  <2> HIDE DEF call
  <2>4. ScreeningOK(call)
    BY <2>3 DEF ScreeningOK
  <2> QED BY <1>0, <1>1, <2>1, <2>4, OneScreening, SameWindows DEF ScreeningInv
<1> QED BY <1>2, <1>3

\* The five screenings.
LEMMA RequestOK ==
  ASSUME ScreeningInv, NEW c \in Calls, NEW amount \in Amounts, NEW delay \in Delays \cup {0},
         \/ screenIntentCreation(c, amount) \/ screenSettlement(c, amount)
         \/ screenDeposit(c, amount, delay)
         \/ checkAddress(c, amount) \/ checkTransaction(c, amount)
  PROVE  ScreeningInv'
<1> DEFINE r(kind, age) == [kind |-> kind, amount |-> amount, delay |-> age]
<1>1. \A kind \in Kinds : r(kind, 0) \in Requests
  BY DEF Requests
<1>2. r("deposit", delay) \in Requests
  BY DEF Requests, Kinds
<1>3. CASE \/ screenAddress(c, r("deposit", delay))
           \/ \E kind \in Kinds : screenAddress(c, r(kind, 0))
  BY <1>1, <1>2, <1>3, ScreenAddressOK
<1>4. CASE /\ screenings' = [screenings EXCEPT
                ![c] = Ended("blocked", NoAnswer)]
           /\ UNCHANGED <<scorer, velocityChecks, profile, entries, scores, windows>>
  <2>1. ScreeningsOK'
    BY <1>4, EndedOK, OneScreening DEF ScreeningInv
  <2> QED BY <1>4, <2>1, SameScores, SameWindows DEF ScreeningInv, Deployed
<1> QED BY <1>3, <1>4 DEF screenIntentCreation, screenSettlement,
     screenDeposit, checkAddress, checkTransaction, Kinds,
     deployment

LEMMA AnswerOK ==
  ASSUME ScreeningInv, NEW c \in Calls, LookUp(c)
  PROVE  ScreeningInv'
<1> DEFINE old == screenings[c]
           answer == [ok |-> TRUE, listed |-> entries, age |-> 0, took |-> 0]
           call == [old EXCEPT !.st = "answered", !.basis = answer]
<1>1. /\ ScreeningOK(screenings[c]) /\ screenings[c].st = "asking"
      /\ UNCHANGED <<scorer, velocityChecks, profile, entries, scores, windows, blockedAddresses>>
      /\ entries \in BOOLEAN
  BY DEF LookUp, deployment, ScreeningInv, ScreeningsOK
<1>2. screenings' = [screenings EXCEPT ![c] = call]
  BY DEF LookUp, ScreeningInv, ScreeningsOK, ScreeningOK
<1>3. ScreeningOK(call)
  <2>1. answer \in Answers /\ answer.ok /\ answer.age = 0
    BY <1>1 DEF Answers
  <2>2. /\ ScreeningOK(old) /\ old.st = "asking"
        /\ old.lasted \in Nat /\ old.of \in Requests
    BY <1>1 DEF ScreeningOK
  <2>3. old.verdict = "none"
    BY <2>2 DEF ScreeningOK
  <2> HIDE DEF old, answer
  <2>4. /\ call.of = old.of /\ call.st = "answered" /\ call.lasted = old.lasted
        /\ call.basis = answer /\ call.verdict = "none"
        /\ call \in [of : Requests \cup {NoRequest},
                     st : {"idle", "asking", "answered"}, lasted : Nat,
                     basis : Answers, verdict : Verdicts]
    BY <2>1, <2>2, <2>3 DEF ScreeningOK
  <2>5. answer.age <= old.lasted
    BY <2>1, <2>2
  <2> HIDE DEF call
  <2> QED BY <2>1, <2>2, <2>4, <2>5 DEF ScreeningOK
<1> HIDE DEF call
<1> QED BY <1>1, <1>2, <1>3, SameScores, SameWindows, OneScreening DEF ScreeningInv, Deployed

\* What is made of an answer is stored and decided by.
LEMMA RateOK ==
  ASSUME ScreeningInv, NEW c \in Calls, screenings[c].st # "idle", NEW answer \in Answers,
         answer.age <= answer.took, scorer \in Vendors => answer.ok, answer.listed => answer.ok,
         Rate(c, answer)
  PROVE  ScreeningInv'
<1> DEFINE r == screenings[c].of  risk == screened(answer)
<1>1. /\ r \in Requests /\ ~ Full
      /\ UNCHANGED <<scorer, velocityChecks, profile, entries, blockedAddresses>>
      /\ Deployed /\ WindowsOK /\ ScreeningsOK /\ ScoresOK /\ entries \in BOOLEAN
  BY DEF Rate, deployment, ScreeningInv, ScreeningsOK, ScreeningOK
<1>2. Telling(risk) /\ risk.basis = answer
  BY <1>1, ScreenedTells
<1>3. Recent(answer)
  BY ScreeningBounds DEF Answers, Recent
<1>4. StoreScore(risk) /\ Decide(c, r, risk)
  BY DEF Rate
<1> HIDE DEF risk, r
<1>5. WindowsOK' /\ ScreeningsOK'
  BY <1>1, <1>2, <1>3, <1>4, DecideOK
<1>6. ScoresOK'
  BY <1>1, <1>2, <1>4, StoreScores
<1> QED BY <1>1, <1>5, <1>6 DEF ScreeningInv, Deployed

LEMMA ArriveOK ==
  ASSUME ScreeningInv, NEW c \in Calls, ResultArrives(c) \/ providerThrows(c) \/ noProvider(c)
  PROVE  ScreeningInv'
<1>0. ScreeningOK(screenings[c])
  BY DEF ScreeningInv, ScreeningsOK
<1>1. CASE ResultArrives(c)
  <2> DEFINE basis == screenings[c].basis
             answer == [basis EXCEPT !.took = screenings[c].lasted]
  <2>1. screenings[c].st = "answered" /\ Rate(c, answer)
    BY <1>1 DEF ResultArrives
  <2>2. basis \in Answers /\ basis.ok /\ basis.age <= screenings[c].lasted
        /\ screenings[c].lasted \in Nat
    BY <1>0, <2>1 DEF ScreeningOK
  <2>3. answer \in Answers /\ answer.ok /\ answer.age <= answer.took
    BY <2>2 DEF Answers
  <2> HIDE DEF answer
  <2> QED BY <2>1, <2>3, RateOK
<1>2. CASE providerThrows(c) \/ noProvider(c)
  <2>1. NoAnswer \in Answers /\ NoAnswer.age <= NoAnswer.took /\ ~ NoAnswer.listed
    BY DEF NoAnswer, Answers
  <2>2. scorer \notin Vendors /\ screenings[c].st = "asking" /\ Rate(c, NoAnswer)
    BY <1>2 DEF providerThrows, noProvider, Vendors
  <2> QED BY <2>1, <2>2, RateOK
<1> QED BY <1>1, <1>2

LEMMA UnavailableOK ==
  ASSUME ScreeningInv, NEW c \in Calls, Unavailable(c)
  PROVE  ScreeningInv'
<1>1. PICK verdict \in {"threw", "blocked"} :
        screenings' = [screenings EXCEPT ![c] = Ended(verdict, NoAnswer)]
  BY DEF Unavailable
<1>2. UNCHANGED <<scorer, velocityChecks, profile, entries, scores, windows, blockedAddresses>>
  BY DEF Unavailable, deployment
<1>3. ScreeningOK(Ended(verdict, NoAnswer))
  BY EndedOK DEF ScreeningInv
<1> QED BY <1>1, <1>2, <1>3, OneScreening, SameScores, SameWindows DEF ScreeningInv, Deployed

LEMMA ScoresTick ==
  ASSUME Deployed, ScoresOK, ScreeningTick
  PROVE  ScoresOK'
<1>1. scores' = IF scores.left <= 1 THEN NoScore
                ELSE [scores EXCEPT !.left = @ - 1, !.risk.basis.age = @ + 1]
  BY DEF ScreeningTick
<1>2. CASE scores.left <= 1
  BY <1>1, <1>2 DEF ScoresOK, NoScore
<1>3. CASE ~ (scores.left <= 1)
  <2> DEFINE risk == scores.risk  basis == risk.basis  left == scores.left
             old == [basis EXCEPT !.age = basis.age + 1]
             aged == [risk EXCEPT !.basis = old]
  <2>1. /\ scores \in [risk : Risks, left : Nat] /\ Telling(risk)
        /\ basis.age + left <= ScoreTtl + basis.took
    BY <1>3 DEF ScoresOK
  <2>2. scores' = [risk |-> aged, left |-> left - 1]
    BY <1>1, <1>3, <2>1 DEF Risks, Answers
  <2>3. risk \in Risks /\ basis \in Answers /\ basis.age \in Nat /\ left \in Nat
    BY <2>1 DEF Risks, Answers
  <2> HIDE DEF risk, basis, left
  <2>4. basis.age + 1 \in Nat
    BY <2>3
  <2>5. old \in Answers /\ old.age = basis.age + 1 /\ old.listed = basis.listed
        /\ old.ok = basis.ok /\ old.took = basis.took
    BY <2>3, <2>4 DEF Answers
  <2> HIDE DEF old
  <2>6. /\ aged \in Risks /\ aged.basis = old /\ aged.flags = risk.flags
        /\ aged.riskScore = risk.riskScore
    BY <2>3, <2>5 DEF Risks
  <2>7. basis = risk.basis
    BY DEF basis
  <2> HIDE DEF aged
  <2>8. Telling(aged) /\ scorer' = scorer
    <3>1. scorer' = scorer
      BY DEF ScreeningTick, deployment
    <3> QED BY <2>1, <2>5, <2>6, <2>7, <3>1 DEF Telling
  <2>9. left - 1 \in Nat /\ left > 1 /\ (basis.age + 1) + (left - 1) = basis.age + left
    BY <1>3, <2>3 DEF left
  <2>10. scores' \in [risk : Risks, left : Nat] /\ scores'.risk = aged /\ scores'.left = left - 1
    BY <2>2, <2>6, <2>9
  <2>11. scores'.risk.basis.age + scores'.left <= ScoreTtl + scores'.risk.basis.took
    BY <2>1, <2>5, <2>6, <2>9, <2>10
  <2> QED BY <2>8, <2>9, <2>10, <2>11 DEF ScoresOK, Telling
<1> QED BY <1>2, <1>3

LEMMA ScreeningsTick ==
  ASSUME Deployed, ScreeningsOK, ScreeningTick
  PROVE  ScreeningsOK'
<1> SUFFICES ASSUME NEW c \in Calls PROVE ScreeningOK(screenings'[c])
  <2>1. screenings' = [c \in Calls |-> screenings'[c]] /\ UNCHANGED scorer
    BY DEF ScreeningTick, deployment
  <2> QED BY <2>1 DEF ScreeningsOK, ScreeningOK, Granted, Recent
<1> DEFINE call == screenings[c]
<1>1. ScreeningOK(call)
  BY DEF ScreeningsOK
<1>3. screenings'[c] = CASE call.st = "asking" -> [call EXCEPT !.lasted = @ + 1]
         [] call.st = "answered" -> [call EXCEPT !.lasted = @ + 1, !.basis.age = @ + 1]
         [] OTHER -> NotScreening
  BY DEF ScreeningTick
<1> HIDE DEF call
<1>4. /\ call.lasted \in Nat /\ call.basis \in Answers
      /\ call.basis.age \in Nat /\ call.st \in {"idle", "asking", "answered"}
  BY <1>1 DEF ScreeningOK, Answers
<1>5. call.lasted + 1 \in Nat
  BY <1>4
<1>6. CASE call.st = "asking"
  <2>1. screenings'[c] = [call EXCEPT !.lasted = call.lasted + 1]
    BY <1>1, <1>3, <1>6 DEF ScreeningOK
  <2> QED BY <1>1, <1>5, <1>6, <2>1 DEF ScreeningOK
<1>7. CASE call.st = "answered"
  <2> DEFINE old == [call.basis EXCEPT !.age = call.basis.age + 1]
  <2>1. screenings'[c] = [call EXCEPT !.lasted = call.lasted + 1, !.basis = old]
    BY <1>1, <1>3, <1>7 DEF ScreeningOK, Answers
  <2>3. call.basis.age + 1 \in Nat
    BY <1>4
  <2>4. old \in Answers /\ old.age = call.basis.age + 1 /\ old.ok = call.basis.ok
        /\ old.listed = call.basis.listed
    BY <1>4, <2>3 DEF Answers
  <2> HIDE DEF old
  <2>5. call.basis.age <= call.lasted /\ call.basis.ok
    BY <1>1, <1>7 DEF ScreeningOK
  <2>6. \A i, j \in Nat : i <= j => i + 1 <= j + 1
    OBVIOUS
  <2>7. old.age <= call.lasted + 1
    BY <1>4, <2>4, <2>5, <2>6
  <2>8. call.verdict = "none"
    BY <1>1, <1>7 DEF ScreeningOK
  <2> QED BY <1>1, <1>5, <1>7, <2>1, <2>4, <2>5, <2>7, <2>8 DEF ScreeningOK
<1>8. CASE call.st = "idle"
  <2>1. screenings'[c] = NotScreening
    BY <1>3, <1>8
  <2> QED BY <2>1, EndedOK DEF NotScreening
<1> QED BY <1>4, <1>6, <1>7, <1>8

LEMMA WindowsTick ==
  ASSUME Deployed, WindowsOK, ScreeningTick
  PROVE  WindowsOK'
<1> DEFINE D == {n \in DOMAIN windows : windows[n].age < durationMs}
<1>1. windows' = [n \in D |-> [windows[n] EXCEPT !.age = windows[n].age + 1]]
  BY DEF ScreeningTick
<1>2. \A n \in DOMAIN windows : windows[n] \in AnyRecords /\ windows[n].age + 1 \in Nat
  BY DEF WindowsOK, IsWindow, AnyRecords
<1>3. \A n \in D : [windows[n] EXCEPT !.age = windows[n].age + 1] \in AnyRecords
  BY <1>2 DEF AnyRecords
<1>4. /\ DOMAIN windows' = D /\ D \subseteq DOMAIN windows
      /\ windows' \in [D -> AnyRecords]
      /\ \A n \in D : /\ windows'[n].amount = windows[n].amount
                       /\ windows'[n].allowed = windows[n].allowed
  BY <1>1, <1>2, <1>3 DEF AnyRecords
<1> HIDE DEF D
<1>5. IsWindow(windows')
  BY <1>4 DEF WindowsOK, IsWindow
<1>6. /\ Kept(windows') \subseteq Kept(windows)
      /\ \A n \in Kept(windows') : windows'[n].amount = windows[n].amount
  BY <1>4 DEF Kept
<1>7. WithinLimits(windows')
  BY <1>6, FewerAllowed, ScreeningBounds DEF WindowsOK
<1> QED BY <1>5, <1>7 DEF WindowsOK, IsWindow, WithinLimits, Kept, Amount

LEMMA ScreeningStep ==
  ASSUME ScreeningInv, [ScreeningNext]_screeningVars
  PROVE  ScreeningInv'
<1>1. ASSUME NEW c \in Calls, NEW amount \in Amounts,
             \/ screenIntentCreation(c, amount) \/ screenSettlement(c, amount)
             \/ \E delay \in Delays : screenDeposit(c, amount, delay)
             \/ checkAddress(c, amount) \/ checkTransaction(c, amount)
      PROVE  ScreeningInv'
  BY <1>1, RequestOK
<1>2. ASSUME NEW c \in Calls,
             \/ providerAnswers(c) \/ callChainalysisRisk(c)
             \/ callTRMRisk(c)
             \/ ResultArrives(c)
             \/ providerThrows(c) \/ noProvider(c) \/ ChainalysisFails(c)
             \/ TRMFails(c)
      PROVE  ScreeningInv'
  BY <1>2, AnswerOK, ArriveOK, UnavailableOK
     DEF providerAnswers, callChainalysisRisk, callTRMRisk,
         ChainalysisFails, TRMFails
<1>3. CASE ChangeList \/ BlockAddress \/ UNCHANGED screeningVars
  <2>1. UNCHANGED <<scorer, velocityChecks, profile, scores, windows, screenings>> /\ entries' \in BOOLEAN
    BY <1>3 DEF ScreeningInv, ChangeList, BlockAddress, screeningVars,
       deployment
  <2>2. ScreeningsOK'
    BY <2>1 DEF ScreeningInv, ScreeningsOK, ScreeningOK, Granted
  <2> QED BY <2>1, <2>2, SameScores, SameWindows DEF ScreeningInv, Deployed
<1>4. CASE ScreeningTick
  <2>1. Deployed' /\ entries' \in BOOLEAN
    BY <1>4 DEF ScreeningInv, Deployed, ScreeningTick, deployment
  <2> QED BY <1>4, <2>1, ScoresTick, ScreeningsTick, WindowsTick DEF ScreeningInv
<1> QED BY <1>1, <1>2, <1>3, <1>4 DEF ScreeningNext

LEMMA ScreeningStarts == ScreeningInit => ScreeningInv
<1> SUFFICES ASSUME ScreeningInit PROVE ScreeningInv
  OBVIOUS
<1>1. Deployed /\ entries \in BOOLEAN
  BY DEF ScreeningInit, Deployed
<1>2. ScoresOK
  BY DEF ScreeningInit, NoScore, ScoresOK
<1>3. ScreeningsOK
  BY <1>1, EndedOK DEF ScreeningInit, ScreeningsOK, NotScreening
<1>4. DOMAIN windows = {}
  BY DEF ScreeningInit, NoRecords
<1>5. IsWindow(windows)
  BY <1>4 DEF ScreeningInit, NoRecords, IsWindow
<1>6. Kept(windows) = {}
  BY <1>4 DEF Kept
<1>7. Cardinality({}) = 0 /\ Amount(windows, {}) = 0
  BY FS_EmptySet, SumOfNone DEF Amount
<1>8. WithinLimits(windows)
  BY <1>1, <1>6, <1>7, ScreeningBounds DEF WithinLimits
<1> QED BY <1>1, <1>2, <1>3, <1>5, <1>8 DEF ScreeningInv, WindowsOK

\* For any calls, deployments and times: what is let through was no match in any answer that
\* was given about it, and the answer is recent; at a vendor's there is one.  Of what the basic
\* scorer lets through without an answer it says nothing (compliance-orchestrator.ts, the
\* scorers and compliance-gate.ts).
THEOREM KnownMatchesAreBlocked == ScreeningSpec => []AllowedWasScreened
<1>1. ScreeningInv => AllowedWasScreened
  BY DEF ScreeningInv, ScreeningsOK, ScreeningOK, Granted, Recent, AllowedWasScreened
<1> QED BY <1>1, ScreeningStarts, ScreeningStep, PTL DEF ScreeningSpec

\* For any limits and amounts: what was allowed within the velocity window respects both
\* limits, in whatever order creations, deposits and late blocks come (velocity-checker.ts).
THEOREM LimitsAreRespected == ScreeningSpec => []AllowedWithinLimits
<1>1. ScreeningInv => AllowedWithinLimits
  BY LimitsAreKept DEF ScreeningInv, WindowsOK
<1> QED BY <1>1, ScreeningStarts, ScreeningStep, PTL DEF ScreeningSpec
=============================================================================
