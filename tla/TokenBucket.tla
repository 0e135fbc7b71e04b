------------------------------ MODULE TokenBucket ------------------------------
(***************************************************************************)
(* throttling.py: the token bucket that limits the file data of a session. *)
(* consume() takes what it can under the lock, sleeps outside it for what  *)
(* is missing and tries again, while other callers may take the tokens it  *)
(* sleeps for.  One unit of time is the time in which one token (a byte,   *)
(* or a fraction of one) is refilled, so the rate is 1.                    *)
(***************************************************************************)
EXTENDS Integers

CONSTANTS
  Callers,   \* threads; a session has one, the class allows many
  Burst,     \* burst_bytes: one chunk for a session
  Amounts,   \* what callers ask for
  MaxTime    \* bound: when time stops

ASSUME BucketAssumption ==
  /\ Burst \in Nat \ {0}
  /\ Amounts \subseteq Nat
  /\ MaxTime \in Nat

VARIABLES
  now,         \* the monotonic clock
  tokens,      \* _tokens
  lastRefill,  \* _last_refill
  total,       \* _total_bytes_consumed
  totalWait,   \* _total_wait_seconds
  place,       \* where each thread is in consume()
  remaining,   \* local to consume(): what is still to be admitted
  waited,      \* local to consume(): the sleep so far, returned in the end
  wake,        \* when the present sleep may end at the earliest, 0 when awake
  nap,         \* wait_seconds of the present sleep, 0 when awake
  begun,       \* history: total when the call of each thread began
  mark         \* history: an observer's note of the time and of total

callVars == <<place, remaining, waited, wake, nap, begun>>
bucketVars == <<now, tokens, lastRefill, total, totalWait, callVars, mark>>

Lesser(a, b) == IF a <= b THEN a ELSE b

BucketInit ==
  /\ now = 0 /\ lastRefill = 0
  /\ tokens \in 0..Burst
  /\ total = 0 /\ totalWait = 0
  /\ place = [t \in Callers |-> "idle"]
  /\ remaining = [t \in Callers |-> 0]
  /\ waited = [t \in Callers |-> 0]
  /\ wake = [t \in Callers |-> 0]
  /\ nap = [t \in Callers |-> 0]
  /\ begun = [t \in Callers |-> 0]
  /\ mark = [time |-> 0, total |-> 0]

\* What _refill_locked leaves in the bucket when it runs now.
Available == Lesser(Burst, tokens + (now - lastRefill))

\* Refill, then take n tokens, in one section of the lock.
\* Faulty variant: the time that was paid out is not noted.
DrawForgetful(n) ==
  /\ tokens' = Available - n
  /\ total' = total + n
  /\ UNCHANGED lastRefill
Draw(n) ==
  /\ tokens' = Available - n
  /\ total' = total + n
  /\ lastRefill' = now

-------------------------------------------------------------------------------
(* consume()                                                               *)

Begin(t, n) ==
  /\ place[t] = "idle"
  /\ place' = [place EXCEPT ![t] = IF n > 0 THEN "taking" ELSE "idle"]
  /\ remaining' = [remaining EXCEPT ![t] = n]
  /\ waited' = [waited EXCEPT ![t] = 0]
  /\ begun' = [begun EXCEPT ![t] = total]
  /\ UNCHANGED <<now, tokens, lastRefill, total, totalWait, wake, nap, mark>>

\* Enough tokens for the rest: consume() returns.
TakeAll(t) ==
  /\ place[t] = "taking" /\ remaining[t] <= Available
  /\ Draw(remaining[t])
  /\ remaining' = [remaining EXCEPT ![t] = 0]
  /\ place' = [place EXCEPT ![t] = "idle"]
  /\ UNCHANGED <<now, totalWait, waited, wake, nap, begun, mark>>

\* How long to sleep for r missing tokens: no longer than the bucket takes to fill.
\* Faulty variant: as long as the tokens take to arrive.
NapWhole(r) == r
NapFor(r) == Lesser(r, Burst)

\* Take what there is and sleep for the rest.
TakeSome(t) ==
  /\ place[t] = "taking" /\ Available < remaining[t]
  /\ Draw(Available)
  /\ LET missing == remaining[t] - Available IN
       /\ remaining' = [remaining EXCEPT ![t] = missing]
       /\ nap' = [nap EXCEPT ![t] = NapFor(missing)]
       /\ wake' = [wake EXCEPT ![t] = now + NapFor(missing)]
  /\ place' = [place EXCEPT ![t] = "sleeping"]
  /\ UNCHANGED <<now, totalWait, waited, begun, mark>>

\* The sleep ends, at its time or later, and is accounted for under the lock.
WakeUp(t) ==
  /\ place[t] = "sleeping" /\ now >= wake[t]
  /\ waited' = [waited EXCEPT ![t] = @ + nap[t]]
  /\ totalWait' = totalWait + nap[t]
  /\ nap' = [nap EXCEPT ![t] = 0] /\ wake' = [wake EXCEPT ![t] = 0]
  /\ place' = [place EXCEPT ![t] = "taking"]
  /\ UNCHANGED <<now, tokens, lastRefill, total, remaining, begun, mark>>

-------------------------------------------------------------------------------
(* try_consume(), snapshot() and the environment.                          *)

TryConsume(n) ==
  /\ n <= Available
  /\ Draw(n)
  /\ UNCHANGED <<now, totalWait, callVars, mark>>

\* snapshot(), and a try_consume() that is refused, only refill.
Refill ==
  /\ Draw(0)
  /\ UNCHANGED <<now, totalWait, callVars, mark>>

Tick ==
  /\ now < MaxTime
  /\ now' = now + 1
  /\ UNCHANGED <<tokens, lastRefill, total, totalWait, callVars, mark>>

\* An observer starts to measure: any moment may be the beginning of an interval.
Observe ==
  /\ mark' = [time |-> now, total |-> total]
  /\ UNCHANGED <<now, tokens, lastRefill, total, totalWait, callVars>>

BucketNext ==
  \/ \E t \in Callers : \/ \E n \in Amounts : Begin(t, n)
                        \/ TakeAll(t) \/ TakeSome(t) \/ WakeUp(t)
  \/ \E n \in Amounts : TryConsume(n)
  \/ Refill \/ Tick \/ Observe

BucketSpec == BucketInit /\ [][BucketNext]_bucketVars

-------------------------------------------------------------------------------
\* Every variable has its type; the bucket never holds less than nothing or more
\* than burst_bytes.
BucketTypeOK ==
  /\ now \in Nat /\ lastRefill \in 0..now
  /\ tokens \in 0..Burst
  /\ total \in Nat /\ totalWait \in Nat
  /\ place \in [Callers -> {"idle", "taking", "sleeping"}]
  /\ remaining \in [Callers -> Nat]
  /\ waited \in [Callers -> Nat]
  /\ wake \in [Callers -> Nat]
  /\ nap \in [Callers -> 0..Burst]
  /\ begun \in [Callers -> Nat]
  /\ mark \in [time : 0..now, total : Nat]

\* From any moment on, whatever the callers do and however they interleave, no more
\* is admitted than one burst and what the rate allows for the time that has passed
\* (PHASE2_PROTOCOL.md, section 16).
RateKept == total - mark.total <= Burst + (now - mark.time)

\* No wait is wasted: all that a call of consume() has slept was repaid, token for
\* token, by bytes admitted to it or to others since it began.  A caller on its own
\* sleeps exactly for what is missing; among others it is held up only by them.
WaitsRepaid ==
  \A t \in Callers : place[t] # "taking" => waited[t] <= total - begun[t]
================================================================================
