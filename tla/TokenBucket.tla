---------------------------- MODULE TokenBucket ----------------------------
(***************************************************************************)
(* TokenBucketRateLimiter (core/rpc/middleware/interceptors/ratelimit.py). *)
(* Several threads call allow_request; a call holds the lock while it      *)
(* reads the monotonic clock, refills the bucket and takes a token.        *)
(*                                                                         *)
(* Time is counted in clock ticks and tokens in units: a request costs     *)
(* Cost units (the 1.0 of the code), a tick earns Rate units, so that      *)
(* fractions of a token are represented without reals.  The clock may tick *)
(* at any moment, also while a call is inside the lock.                    *)
(***************************************************************************)
EXTENDS Integers, FiniteSets

CONSTANTS
    Threads,   \* the threads that call allow_request
    NoThread,  \* the lock is free
    Rate,      \* units a tick earns
    Cost,      \* units of one request
    Capacity,  \* units of a full bucket
    MaxTime    \* bound: the clock stops here

ASSUME BucketAssumption ==
    /\ NoThread \notin Threads
    /\ Rate \in Nat
    /\ Cost \in Nat \ {0}
    /\ Capacity \in Nat
    /\ MaxTime \in Nat

VARIABLES
    clock,        \* time.monotonic()
    lock,         \* _lock: its holder, or NoThread
    pc,           \* where each thread stands
    now,          \* the local `now` of each thread
    tokens,       \* _tokens, in units
    lastRefill,   \* _last_refill
    spentBefore,  \* history: units granted to calls that read a clock < t
    denied        \* history: readings of the calls that were denied

bucketVars == <<clock, lock, pc, now, tokens, lastRefill, spentBefore, denied>>
history == <<spentBefore, denied>>

Time == 0 .. MaxTime

Least(a, b) == IF a <= b THEN a ELSE b

BucketInit ==
    /\ clock = 0
    /\ lock = NoThread
    /\ pc = [t \in Threads |-> "out"]
    /\ now = [t \in Threads |-> 0]
    /\ tokens = Capacity
    /\ lastRefill = 0
    /\ spentBefore = [s \in 0 .. MaxTime + 1 |-> 0]
    /\ denied = {}

Tick ==
    /\ clock < MaxTime
    /\ clock' = clock + 1
    /\ UNCHANGED <<lock, pc, now, tokens, lastRefill, history>>

\* mutant of LockFree: the calls are not serialised
LockIgnored == TRUE

LockFree == lock = NoThread

\* allow_request is called and enters `with self._lock`.
Enter(t) ==
    /\ pc[t] = "out"
    /\ LockFree
    /\ lock' = t
    /\ pc' = [pc EXCEPT ![t] = "locked"]
    /\ UNCHANGED <<clock, now, tokens, lastRefill, history>>

ReadClock(t) ==
    /\ pc[t] = "locked"
    /\ now' = [now EXCEPT ![t] = clock]
    /\ pc' = [pc EXCEPT ![t] = "timed"]
    /\ UNCHANGED <<clock, lock, tokens, lastRefill, history>>

\* mutants of Refilled: no limit; only whole tokens are credited
Uncapped(n) == tokens + (n - lastRefill) * Rate
WholeTokens(n) ==
    Least(Capacity, tokens + (((n - lastRefill) * Rate) \div Cost) * Cost)

\* What the bucket holds once the time up to n has been credited.
Refilled(n) == Least(Capacity, tokens + (n - lastRefill) * Rate)

\* mutant of RefillTime: the same time is credited again
StaleTime(n) == lastRefill

RefillTime(n) == n

Refill(t) ==
    /\ pc[t] = "timed"
    /\ tokens' = Refilled(now[t])
    /\ lastRefill' = RefillTime(now[t])
    /\ pc' = [pc EXCEPT ![t] = "refilled"]
    /\ UNCHANGED <<clock, lock, now, history>>

Leave(t) ==
    /\ lock' = NoThread
    /\ pc' = [pc EXCEPT ![t] = "out"]
    /\ UNCHANGED <<clock, now, lastRefill>>

\* A token is there: the call returns True, and intercept_service goes on.
Allow(t) ==
    /\ pc[t] = "refilled"
    /\ tokens >= Cost
    /\ tokens' = tokens - Cost
    /\ spentBefore' = [s \in DOMAIN spentBefore |->
                          spentBefore[s] + (IF s > now[t] THEN Cost ELSE 0)]
    /\ Leave(t)
    /\ UNCHANGED denied

\* It returns False, and intercept_service answers with deny_handler.
Deny(t) ==
    /\ pc[t] = "refilled"
    /\ tokens < Cost
    /\ denied' = denied \cup {now[t]}
    /\ Leave(t)
    /\ UNCHANGED <<tokens, spentBefore>>

BucketNext ==
    \/ Tick
    \/ \E t \in Threads :
          Enter(t) \/ ReadClock(t) \/ Refill(t) \/ Allow(t) \/ Deny(t)

BucketSpec == BucketInit /\ [][BucketNext]_bucketVars

-----------------------------------------------------------------------------

\* Every variable keeps its type; the bucket never overflows nor goes into debt.
BucketOK ==
    /\ clock \in Time
    /\ lock \in Threads \cup {NoThread}
    /\ pc \in [Threads -> {"out", "locked", "timed", "refilled"}]
    /\ now \in [Threads -> Time]
    /\ tokens \in 0 .. Capacity
    /\ lastRefill \in Time
    /\ spentBefore \in [0 .. MaxTime + 1 -> Nat]
    /\ denied \subseteq Time

\* Units granted to the calls that read a clock in s .. e.
Spent(s, e) == spentBefore[e + 1] - spentBefore[s]

\* In any interval, of any length, the calls that read the clock in it were
\* granted at most a full bucket and what the interval earns, however the
\* threads interleave: the limit `rate` and `capacity` of the class promise.
RateBound ==
    \A s \in Time : \A e \in s .. MaxTime :
        Spent(s, e) <= Capacity + Rate * (e - s)

\* A call is denied only if some interval that ends at its reading has used its
\* allowance up to less than a request: a limiter that refuses too much is as
\* wrong as one that refuses too little.
DenialsJustified ==
    \A e \in denied : \E s \in 0 .. e :
        Capacity + Rate * (e - s) - Spent(s, e) < Cost

=============================================================================
