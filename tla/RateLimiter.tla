---------------------------- MODULE RateLimiter ----------------------------
(***************************************************************************)
(* The token buckets and resource ceilings of gonomad-policy               *)
(* (rate_limit.rs).  One actor owns the limiter, so a call is one action;  *)
(* what is hard is a long sequence of calls by several devices, with time  *)
(* passing in between and slots that outlive the bucket they came from.    *)
(*                                                                         *)
(* Time and tokens are integers, as in the code, with smaller scales: a    *)
(* token is Scale units, the clock counts ticks, and a class gets          *)
(* refill.tokens tokens every refill.per ticks.  The clock is kept         *)
(* relative to each bucket's last refill, and no further than Horizon,     *)
(* after which every bucket is full.                                       *)
(***************************************************************************)
EXTENDS Integers, FiniteSets

CONSTANTS
    Devices,
    Limits,     \* class -> its scope and its row of the table of limits
    Scale,      \* TOKEN_SCALE
    Wait,       \* ticks per millisecond, the unit of retry_after
    Horizon,
    MaxHeld,    \* bound, per class: slots held for one key, counting forgotten ones
    Sizes,      \* the sizes of the reservations asked for
    Everyone,   \* who owns the buckets of the global classes
    None        \* no limit of this kind, no promise

Classes == DOMAIN Limits
Rated == {c \in Classes : Limits[c].refill # None}

\* As in every row of the code's table: a class with a rate has a burst and its
\* unit takes a whole number of ticks; a ceiling on slots lets one in; bytes are
\* held to a ceiling in a global class without a rate.
ASSUME LimitsAssumption ==
    /\ Scale \in Nat \ {0} /\ Wait \in Nat \ {0} /\ Horizon \in Nat
    /\ Sizes \subseteq Nat /\ IsFiniteSet(Sizes)
    /\ Everyone \notin Devices /\ None \notin Nat
    /\ \A c \in Classes :
           /\ Limits[c].burst \in Nat /\ Limits[c].scope \in {"device", "global"}
           /\ Limits[c].maxConcurrent # None => Limits[c].maxConcurrent \in Nat \ {0}
           /\ Limits[c].maxBytes # None =>
                  Limits[c].maxBytes \in Nat /\ Limits[c].scope = "global" /\ c \notin Rated
           /\ MaxHeld[c] \in Nat
    /\ \A c \in Rated :
           /\ Limits[c].burst > 0
           /\ Limits[c].refill.tokens \in Nat \ {0} /\ Limits[c].refill.per \in Nat \ {0}
           /\ Limits[c].refill.per % (Limits[c].refill.tokens * Scale) = 0
           /\ Horizon * Limits[c].refill.tokens >= Limits[c].burst * Limits[c].refill.per

VARIABLES
    buckets,    \* the map: the keys with a bucket -> bucket
    held,       \* history: slots handed out and not given back, per key
    reserved,   \* history: reservations outstanding, per key and size
    stray,      \* history: of these, how many may be of a bucket that was forgotten
    exact,      \* history: the level of a bucket that cuts nothing off, per key
    promise,    \* history: ticks until some refused caller was told to come back,
    asked       \* ... and how often another's refusal cut off time since

limiterVars == <<buckets, held, reserved, stray, exact, promise, asked>>

Key(d, c) == IF Limits[c].scope = "device" THEN <<d, c>> ELSE <<Everyone, c>>
Keys == {Key(d, c) : d \in Devices, c \in Classes}
KeysOf(d) == {k \in Keys : k[1] = d}
Limit(k) == Limits[k[2]]

Smaller(x, y) == IF x <= y THEN x ELSE y
Capacity(k) == Limit(k).burst * Scale

\* The exact bucket counts in Per-ths of a unit.
Per(k) == IF Limit(k).refill = None THEN 1 ELSE Limit(k).refill.per
Rate(k) == IF Limit(k).refill = None THEN 0 ELSE Limit(k).refill.tokens * Scale
Brimful(k) == Capacity(k) * Per(k)

-----------------------------------------------------------------------------
(* A bucket. *)

NewBucket(k) == [tokens |-> Capacity(k), idle |-> 0, inFlight |-> 0, bytes |-> 0]
Bucket(k) == IF k \in DOMAIN buckets THEN buckets[k] ELSE NewBucket(k)
With(k, b) == [x \in DOMAIN buckets \cup {k} |-> IF x = k THEN b ELSE buckets[x]]

\* A mutant that counts the same time twice.
Refill_Twice(k) ==
    LET b == Bucket(k)
        added == (b.idle * Rate(k)) \div Per(k)
    IN  IF added = 0 THEN b ELSE [b EXCEPT !.tokens = Smaller(Capacity(k), @ + added)]

\* A mutant that moves last_refill although nothing was added.
Refill_LosesTime(k) ==
    LET b == Bucket(k)
        added == (b.idle * Rate(k)) \div Per(k)
    IN  [b EXCEPT !.tokens = Smaller(Capacity(k), @ + added), !.idle = 0]

\* What does not make a unit is cut off and its time is lost, unless nothing
\* at all is added: then the time stays.
Refill(k) ==
    LET b == Bucket(k)
        added == (b.idle * Rate(k)) \div Per(k)
    IN  IF added = 0 THEN b
        ELSE [b EXCEPT !.tokens = Smaller(Capacity(k), @ + added), !.idle = 0]

\* A mutant that rounds to milliseconds down.
RetryAfter_RoundsDown(k, b) ==
    LET ms == (((Scale - b.tokens) * Per(k)) \div Rate(k)) \div Wait
    IN  IF ms = 0 THEN 1 ELSE ms

\* In ticks, rounded down, and then up to milliseconds; never zero.
RetryAfter(k, b) ==
    LET ticks == ((Scale - b.tokens) * Per(k)) \div Rate(k)
        ms == (ticks + Wait - 1) \div Wait
    IN  IF ms = 0 THEN 1 ELSE ms

\* A mutant that takes a fraction for a token.
HasToken_Fraction(k) == Refill(k).tokens > 0

HasToken(k) == Refill(k).tokens >= Scale

LimiterInit ==
    /\ buckets = [k \in {} |-> NewBucket(k)]
    /\ held = [k \in Keys |-> 0]
    /\ reserved = [k \in Keys |-> [n \in Sizes |-> 0]]
    /\ exact = [k \in Keys |-> Brimful(k)]
    /\ stray = [k \in Keys |-> 0]
    /\ promise = [k \in Keys |-> None]
    /\ asked = [k \in Keys |-> 0]

-----------------------------------------------------------------------------
(* try_acquire: a class with neither a rate nor a budget passes untouched.  *)

Budgeted(c) == Limits[c].refill # None \/ Limits[c].burst > 0

Spend(k, slots) ==
    /\ HasToken(k)
    /\ buckets' = With(k, [Refill(k) EXCEPT !.tokens = @ - Scale, !.inFlight = @ + slots])
    /\ held' = [held EXCEPT ![k] = @ + slots]
    /\ exact' = [exact EXCEPT ![k] = @ - Scale * Per(k)]
    /\ promise' = [promise EXCEPT ![k] = None]
    /\ asked' = [asked EXCEPT ![k] = 0]
    /\ UNCHANGED <<reserved, stray>>

Cuts(k) == IF Refill(k) = Bucket(k) THEN 0 ELSE 1

\* One refused caller of a bucket is followed: the one refused now, or the one
\* followed so far, up to a token's worth of refusals after its own.
Refuse(k) ==
    /\ ~HasToken(k)
    /\ buckets' = With(k, Refill(k))
    /\ \/ /\ promise' = [promise EXCEPT ![k] =
                IF Limit(k).refill = None THEN None ELSE RetryAfter(k, Refill(k)) * Wait]
          /\ asked' = [asked EXCEPT ![k] = 0]
       \/ /\ promise[k] # None /\ asked[k] + Cuts(k) < Scale
          /\ asked' = [asked EXCEPT ![k] = @ + Cuts(k)]
          /\ UNCHANGED promise
    /\ UNCHANGED <<held, reserved, stray, exact>>

TryAcquire(d, c) ==
    /\ Budgeted(c)
    /\ Spend(Key(d, c), 0) \/ Refuse(Key(d, c))

(* try_acquire_slot: the ceiling first, so that a caller who is at it does  *)
(* not pay for the attempt.                                                 *)

\* A mutant that lets one more in.
AtCeiling_Late(k) ==
    Limit(k).maxConcurrent # None /\ Bucket(k).inFlight > Limit(k).maxConcurrent

AtCeiling(k) == Limit(k).maxConcurrent # None /\ Bucket(k).inFlight >= Limit(k).maxConcurrent

AcquireSlot(d, c) ==
    LET k == Key(d, c)
    IN  /\ ~AtCeiling(k) /\ held[k] < MaxHeld[c]
        /\ IF Budgeted(c)
           THEN Spend(k, 1) \/ Refuse(k)
           ELSE /\ buckets' = With(k, [Bucket(k) EXCEPT !.inFlight = @ + 1])
                /\ held' = [held EXCEPT ![k] = @ + 1]
                /\ UNCHANGED <<reserved, stray, exact, promise, asked>>

SlotRefused(d, c) ==
    LET k == Key(d, c)
    IN  /\ AtCeiling(k)
        /\ buckets' = With(k, Bucket(k))
        /\ UNCHANGED <<held, reserved, stray, exact, promise, asked>>

(* release: a slot names its key, not the bucket it was counted in.         *)
Release(k) ==
    /\ held[k] > 0
    /\ held' = [held EXCEPT ![k] = @ - 1]
    /\ stray' = [stray EXCEPT ![k] = Smaller(@, held[k] - 1)]
    /\ buckets' = IF k \notin DOMAIN buckets THEN buckets
                  ELSE [buckets EXCEPT ![k].inFlight = IF @ = 0 THEN 0 ELSE @ - 1]
    /\ UNCHANGED <<reserved, exact, promise, asked>>

\* A mutant that holds each reservation against the ceiling by itself.
Reserve_Singly(d, c, n) ==
    LET k == Key(d, c)
    IN  /\ Limits[c].maxBytes # None
        /\ n <= Limits[c].maxBytes /\ Bucket(k).bytes <= Limits[c].maxBytes
        /\ buckets' = With(k, [Bucket(k) EXCEPT !.bytes = @ + n])
        /\ reserved' = [reserved EXCEPT ![k][n] = @ + 1]
        /\ UNCHANGED <<held, stray, exact, promise, asked>>

(* reserve_bytes and release_bytes.  A class without a ceiling reserves     *)
(* nothing, whatever it is asked for.                                       *)
Reserve(d, c, n) ==
    LET k == Key(d, c)
    IN  /\ Limits[c].maxBytes # None
        /\ Bucket(k).bytes + n <= Limits[c].maxBytes
        /\ buckets' = With(k, [Bucket(k) EXCEPT !.bytes = @ + n])
        /\ reserved' = [reserved EXCEPT ![k][n] = @ + 1]
        /\ UNCHANGED <<held, stray, exact, promise, asked>>

ReleaseBytes(k, n) ==
    /\ reserved[k][n] > 0
    /\ reserved' = [reserved EXCEPT ![k][n] = @ - 1]
    /\ buckets' = IF k \notin DOMAIN buckets THEN buckets
                  ELSE [buckets EXCEPT ![k].bytes = IF @ < n THEN 0 ELSE @ - n]
    /\ UNCHANGED <<held, stray, exact, promise, asked>>

(* reset: a new code gives the pairing budget back.                         *)
Reset(k) ==
    /\ Limit(k).refill = None /\ Limit(k).burst > 0
    /\ buckets' = With(k, [Bucket(k) EXCEPT !.tokens = Capacity(k), !.idle = 0])
    /\ exact' = [exact EXCEPT ![k] = Brimful(k)]
    /\ promise' = [promise EXCEPT ![k] = None]
    /\ asked' = [asked EXCEPT ![k] = 0]
    /\ UNCHANGED <<held, reserved, stray>>

(* forget_device: its buckets go, whatever is counted in them, and the      *)
(* slots that are held are given back to the buckets that follow.           *)
ForgetDevice(d) ==
    /\ buckets' = [k \in DOMAIN buckets \ KeysOf(d) |-> buckets[k]]
    /\ exact' = [k \in Keys |-> IF k \in KeysOf(d) THEN Brimful(k) ELSE exact[k]]
    /\ promise' = [k \in Keys |-> IF k \in KeysOf(d) THEN None ELSE promise[k]]
    /\ asked' = [k \in Keys |-> IF k \in KeysOf(d) THEN 0 ELSE asked[k]]
    /\ stray' = [k \in Keys |-> IF k \in KeysOf(d) THEN held[k] ELSE stray[k]]
    /\ UNCHANGED <<held, reserved>>

Tick ==
    /\ buckets' = [k \in DOMAIN buckets |-> [buckets[k] EXCEPT
            !.idle = IF Limit(k).refill = None THEN 0 ELSE Smaller(Horizon, @ + 1)]]
    /\ exact' = [k \in Keys |-> Smaller(Brimful(k), exact[k] + Rate(k))]
    /\ promise' = [k \in Keys |-> IF promise[k] \in {None, 0} THEN promise[k] ELSE promise[k] - 1]
    /\ UNCHANGED <<held, reserved, stray, asked>>

LimiterNext ==
    \/ \E d \in Devices, c \in Classes : TryAcquire(d, c) \/ AcquireSlot(d, c) \/ SlotRefused(d, c)
    \/ \E k \in Keys : Release(k) \/ Reset(k)
    \/ \E d \in Devices, c \in Classes, n \in Sizes : Reserve(d, c, n)
    \/ \E k \in Keys, n \in Sizes : ReleaseBytes(k, n)
    \/ \E d \in Devices : ForgetDevice(d)
    \/ Tick

(* Time passes, and a caller who can be served asks again.                  *)
Asks(d, c) == Budgeted(c) /\ Spend(Key(d, c), 0)

LimiterFairness ==
    /\ WF_limiterVars(Tick)
    /\ \A d \in Devices, c \in Rated : SF_limiterVars(Asks(d, c))

LimiterSpec == LimiterInit /\ [][LimiterNext]_limiterVars /\ LimiterFairness

-----------------------------------------------------------------------------
(* The buckets, within the budgets of their classes (rate_limit.rs:508-533). *)
LimiterTypeOK ==
    /\ DOMAIN buckets \subseteq Keys
    /\ \A k \in DOMAIN buckets :
           /\ buckets[k].tokens \in 0..Capacity(k) /\ buckets[k].idle \in 0..Horizon
           /\ buckets[k].inFlight \in Nat /\ buckets[k].bytes \in Nat
    /\ \A k \in Keys : held[k] \in 0..MaxHeld[k[2]]
    /\ reserved \in [Keys -> [Sizes -> Nat]]
    /\ stray \in [Keys -> Nat] /\ asked \in [Keys -> Nat]
    /\ DOMAIN exact = Keys /\ DOMAIN promise = Keys

(* No more is ever granted than by a bucket that counts exactly: over any   *)
(* period, at most the burst and what the rate adds; of a budget without a  *)
(* rate, at most the burst until it is reset (rate_limit.rs:346, 374).      *)
NeverFaster == \A k \in Keys : exact[k] >= 0

(* "the error carries exactly how long to wait" (rate_limit.rs:12): a       *)
(* refused caller who comes back when told, if nobody was served from the   *)
(* same bucket meanwhile, finds a token, or a token less one unit for every *)
(* refusal after its own that cut time off.                                 *)
RetrySuffices == \A k \in Keys : promise[k] = 0 => Refill(k).tokens + asked[k] >= Scale

(* A bucket counts no slot that is not held (it would be lost for good);    *)
(* those it does not count were given out before the device was forgotten,  *)
(* and the ceiling holds but for them.                                      *)
SlotsCounted ==
    \A k \in Keys :
        /\ Bucket(k).inFlight <= held[k] /\ held[k] <= Bucket(k).inFlight + stray[k]
        /\ Limit(k).maxConcurrent # None => held[k] <= Limit(k).maxConcurrent + stray[k]

\* The bytes of the reservations of n bytes each, one by one.
BytesOf(n, count) == {n} \X ((1..count) \X (1..n))
BytesOut(k) == UNION {BytesOf(n, reserved[k][n]) : n \in Sizes}

(* The same of bytes: what is reserved is what is counted, below the        *)
(* ceiling, and given back it is free again.                                *)
BytesCounted ==
    \A k \in Keys : Limit(k).maxBytes # None =>
        /\ Bucket(k).bytes = Cardinality(BytesOut(k))
        /\ Cardinality(BytesOut(k)) <= Limit(k).maxBytes

(* What a bucket says is in use is in use, and within the ceilings but for  *)
(* slots that outlived their bucket, through refusals, releases, resets and *)
(* forgotten devices (rate_limit.rs:681-825).                               *)
UseCounted == LimiterTypeOK /\ SlotsCounted /\ BytesCounted

(* A device that asks and asks, however often, is served again and again    *)
(* (rate_limit.rs:528-531).                                                 *)
PollerServed ==
    \A d \in Devices, c \in Rated :
        []<><<exact'[Key(d, c)] < exact[Key(d, c)]>>_exact

-----------------------------------------------------------------------------
(* Beside the runs. *)

(* The ceiling alone: a slot that outlives its bucket is given back to the  *)
(* bucket that followed, which then counts one too few.                     *)
CeilingHolds ==
    \A k \in Keys : Limit(k).maxConcurrent # None => held[k] <= Limit(k).maxConcurrent

(* The hint of every caller, whoever was refused after it.                  *)
HintKept == \A k \in Keys : promise[k] = 0 => HasToken(k)
=============================================================================
