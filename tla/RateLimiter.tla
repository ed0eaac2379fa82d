----------------------------- MODULE RateLimiter -----------------------------
(***************************************************************************)
(* The sliding window of one user and one category of endpoints            *)
(* (middleware/rate_limit.py): a sorted set in Redis with an entry for     *)
(* every request.  The requests here belong to it: one without a token     *)
(* belongs to the window of its address, with the numbers of tier "free",  *)
(* and one whose token does not decode to none; it is let through, and the *)
(* API refuses it.  Time passes in ticks, and the set is kept by age.  A   *)
(* request reads the clock before it waits for Redis, so that its entry    *)
(* and its window may be up to Delay ticks old when the transaction runs,  *)
(* and requests may reach Redis in another order than they read the clock. *)
(***************************************************************************)
EXTENDS Integers, FiniteSets

CONSTANTS
  Window,        \* ticks of the window of the limit
  Delay,         \* ticks between the reading of the clock and the transaction
  MaxRequests,   \* requests allowed in the window
  RedisFails     \* whether Redis may be unavailable in this instance

ASSUME LimiterAssumption ==
  /\ Window \in Nat \ {0} /\ MaxRequests \in Nat \ {0}
  /\ Delay \in 0 .. Window - 1
  /\ RedisFails \in BOOLEAN

VARIABLES
  production,    \* settings.environment is not "development"
  entries,       \* entries[a]: entries of age a in the sorted set, as far as they count
  passed         \* passed[a]: requests the limiter let through a ticks ago

limiter == <<entries, passed>>

\* No request looks at an entry that is older.
Ages == 0 .. Window + Delay - 1

\* What two requests know of the same ticks, however old their readings are.
Recent == 0 .. Window - Delay - 1

LimiterInit ==
  /\ production \in BOOLEAN
  /\ entries = [a \in Ages |-> 0]
  /\ passed = [a \in Recent |-> 0]

-----------------------------------------------------------------------------

\* The counted requests of the given ages, one element for each of them.
Units(counts, ages) == UNION {{a} \X (1 .. counts[a]) : a \in ages}

Total(counts, ages) == Cardinality(Units(counts, ages))

Capped(n, cap) == IF n > cap THEN cap ELSE n

\* zremrangebyscore, by a request that read the clock d ticks ago.
Kept(d) == [a \in Ages |-> IF a < Window + d THEN entries[a] ELSE 0]

\* _check_redis_limit, one transaction of Redis: the entries in the window are
\* counted, and the request is added, also when it is refused.  An age never
\* needs more entries than there are requests allowed.
Counted(d) ==
  /\ production
  /\ entries' = [Kept(d) EXCEPT ![d] = Capped(@ + 1, MaxRequests)]

Limited(d) == Total(Kept(d), Ages) >= MaxRequests

\* Mutant: a request is counted before it is compared, and may be the one
\* over the limit.
PassesOneMore ==
  \/ ~production /\ UNCHANGED limiter
  \/ \E d \in 0 .. Delay :
       /\ Counted(d)
       /\ Total(Kept(d), Ages) <= MaxRequests
       /\ passed' = [passed EXCEPT ![0] = Capped(@ + 1, MaxRequests + 1)]

\* In development every request passes, and without Redis too, whether or not
\* the transaction that failed has been applied.
Passes ==
  \/ ~production /\ UNCHANGED limiter
  \/ /\ production /\ RedisFails
     /\ UNCHANGED entries \/ \E d \in 0 .. Delay : Counted(d)
     /\ UNCHANGED passed
  \/ \E d \in 0 .. Delay :
       /\ Counted(d)
       /\ ~Limited(d)
       /\ passed' = [passed EXCEPT ![0] = Capped(@ + 1, MaxRequests + 1)]

\* 429.
Refused ==
  \E d \in 0 .. Delay :
    /\ Counted(d)
    /\ Limited(d)
    /\ UNCHANGED passed

\* Everything is one tick older, and what reaches the last age leaves.
Older(counts) == [a \in DOMAIN counts |-> IF a = 0 THEN 0 ELSE counts[a - 1]]

TimePasses ==
  /\ entries' = Older(entries)
  /\ passed' = Older(passed)

\* The key expires one second after the window of its last request.
KeyExpires ==
  /\ \A a \in 0 .. Window - 1 : entries[a] = 0
  /\ entries' = [a \in Ages |-> 0]
  /\ UNCHANGED passed

\* Whoever sends the requests.
LimiterNext ==
  /\ Passes \/ Refused \/ TimePasses \/ KeyExpires
  /\ UNCHANGED production

LimiterSpec == LimiterInit /\ [][LimiterNext]_<<production, limiter>>

-----------------------------------------------------------------------------
(* Properties.                                                             *)

LimiterTypeOK ==
  /\ production \in BOOLEAN
  /\ entries \in [Ages -> 0 .. MaxRequests]
  /\ passed \in [Recent -> 0 .. MaxRequests + 1]

\* However requests are sent at once and reach Redis late and out of order,
\* however refused ones add up and old ones leave the window: no more than
\* MaxRequests pass while the limiter counts in Window - Delay ticks.
WindowRespected == Total(passed, Recent) <= MaxRequests

\* Why: to what passed in the last a ticks belong as many entries that are in the
\* window of every request.
Matched ==
  \A a \in Recent : Total(passed, 0 .. a) <= Total(entries, 0 .. a + Delay)

=============================================================================
