----------------------------- MODULE RateLimiter -----------------------------
(***************************************************************************)
(* RateLimiter.check of admin-api/app/auth.py, for one key.  The limiter   *)
(* is one object per process without a lock, called from the threads that  *)
(* run the handlers.  A thread may be interrupted after a call it makes    *)
(* and where its loop jumps back, which is between a test that found an    *)
(* expired attempt and the popleft that follows it, so a step is:          *)
(*                                                                         *)
(*    ReadClock   now = time.monotonic()                          (56)     *)
(*    Test        the loop's test is true                         (58)     *)
(*    Popleft     attempts.popleft(), of whatever is oldest now   (59)     *)
(*    PopEmpty    attempts.popleft() raises IndexError            (59)     *)
(*    Measure     the test is false; len(attempts)                (58,60)  *)
(*    Admit       the comparison and append(now)                  (60-62)  *)
(*    Reject      the comparison and the HTTPException            (60-61)  *)
(*                                                                         *)
(* popleft removes what append added first, so the deque is what is left   *)
(* of the sequence of all admissions: it lacks the first "purged" of them. *)
(***************************************************************************)
EXTENDS Integers, Sequences, FiniteSets

CONSTANTS Threads,    \* the threads that call check for this key
          Limit,      \* the parameter limit
          Window,     \* the parameter window_seconds
          MaxReading, \* bound: the last reading of the clock
          MaxAdmits   \* bound: admissions in one behaviour

ASSUME ThreadsAssumption == IsFiniteSet(Threads) /\ Threads # {}
ASSUME LimitAssumption == Limit \in Nat \ {0}
ASSUME WindowAssumption == Window \in Nat \ {0}
ASSUME BoundsAssumption == MaxReading \in Nat /\ MaxAdmits \in Nat

VARIABLES monotonic,  \* time.monotonic()
          admitted,   \* the time stamps of all admissions, in order of append
          purged,     \* how many of them popleft has removed
          point,      \* where each thread is in check
          now,        \* its local variable now
          length      \* the length it measured

limiterVars == <<monotonic, admitted, purged, point, now, length>>

LimiterTypeOK ==
    /\ monotonic \in Nat
    /\ admitted \in Seq(Nat)
    /\ purged \in 0 .. Len(admitted)
    /\ point \in [Threads -> {"idle", "purge", "popleft", "decide"}]
    /\ now \in [Threads -> Nat]
    /\ length \in [Threads -> Nat]

\* The deque: len(attempts) and attempts[0].
Attempts == Len(admitted) - purged
Oldest == admitted[purged + 1]

LimiterInit ==
    /\ monotonic = 0
    /\ admitted = <<>>
    /\ purged = 0
    /\ point = [t \in Threads |-> "idle"]
    /\ now = [t \in Threads |-> 0]
    /\ length = [t \in Threads |-> 0]

LimiterTick ==
    /\ monotonic < MaxReading
    /\ monotonic' = monotonic + 1
    /\ UNCHANGED <<admitted, purged, point, now, length>>

ReadClock(t) ==
    /\ point[t] = "idle"
    /\ point' = [point EXCEPT ![t] = "purge"]
    /\ now' = [now EXCEPT ![t] = monotonic]
    /\ UNCHANGED <<monotonic, admitted, purged, length>>

\* Variant: the comparison is the wrong way round.
Expired_WrongEnd(t) == Attempts > 0 /\ Oldest >= now[t] - Window

\* Variant: an attempt that is exactly one window old still counts.
Expired_Strictly(t) == Attempts > 0 /\ Oldest < now[t] - Window

\* attempts and attempts[0] <= now - window_seconds
Expired(t) == Attempts > 0 /\ Oldest <= now[t] - Window

\* check returns or raises: its local variables are gone.
Leave(t) ==
    /\ point' = [point EXCEPT ![t] = "idle"]
    /\ now' = [now EXCEPT ![t] = 0]
    /\ length' = [length EXCEPT ![t] = 0]

Test(t) ==
    /\ point[t] = "purge"
    /\ Expired(t)
    /\ point' = [point EXCEPT ![t] = "popleft"]
    /\ UNCHANGED <<monotonic, admitted, purged, now, length>>

\* The attempt that was tested may be gone: another thread removed it.
Popleft(t) ==
    /\ point[t] = "popleft"
    /\ Attempts > 0
    /\ purged' = purged + 1
    /\ point' = [point EXCEPT ![t] = "purge"]
    /\ UNCHANGED <<monotonic, admitted, now, length>>

\* IndexError: the request ends with an internal error.
PopEmpty(t) ==
    /\ point[t] = "popleft"
    /\ Attempts = 0
    /\ Leave(t)
    /\ UNCHANGED <<monotonic, admitted, purged>>

Measure(t) ==
    /\ point[t] = "purge"
    /\ ~Expired(t)
    /\ length' = [length EXCEPT ![t] = Attempts]
    /\ point' = [point EXCEPT ![t] = "decide"]
    /\ UNCHANGED <<monotonic, admitted, purged, now>>

\* Variant: len(attempts) > limit.
Full_OffByOne(t) == length[t] > Limit

\* len(attempts) >= limit
Full(t) == length[t] >= Limit

Admit(t) ==
    /\ point[t] = "decide"
    /\ ~Full(t)
    /\ Len(admitted) < MaxAdmits
    /\ admitted' = Append(admitted, now[t])
    /\ Leave(t)
    /\ UNCHANGED <<monotonic, purged>>

Reject(t) ==
    /\ point[t] = "decide"
    /\ Full(t)
    /\ Leave(t)
    /\ UNCHANGED <<monotonic, admitted, purged>>

Check(t) ==
    \/ ReadClock(t)
    \/ Test(t) \/ Popleft(t) \/ PopEmpty(t)
    \/ Measure(t) \/ Admit(t) \/ Reject(t)

LimiterNext == LimiterTick \/ \E t \in Threads : Check(t)

LimiterSpec == LimiterInit /\ [][LimiterNext]_limiterVars

-------------------------------------------------------------------------------
\* The admissions since this instant, exclusive.
AdmittedAfter(instant) == {i \in 1 .. Len(admitted) : admitted[i] > instant}

\* The deque has always been in the order of the clock: no thread appended a
\* reading that another one had overtaken.
InOrder == \A i, j \in DOMAIN admitted : i < j => admitted[i] <= admitted[j]

(* However the threads interleave, and although each of them may decide on a *)
(* length and a clock reading that are out of date and pop an attempt other  *)
(* than the one it tested, the admissions within a window exceed the limit   *)
(* by no more than the square of the number of threads, less one; as long as *)
(* the deque is in order, by twice the number of the other threads (auth.py  *)
(* 55-62).  Two threads reach both bounds.                                   *)
BurstBound ==
    LET burst  == Cardinality(AdmittedAfter(monotonic - Window))
        others == Cardinality(Threads) - 1
    IN /\ burst <= Limit + others * (Cardinality(Threads) + 1)
       /\ InOrder => burst <= Limit + 2 * others

(* The memory of a key exceeds the limit by at most one entry for every      *)
(* thread but one: those that measured the deque before the last append.     *)
MemoryBound == Attempts <= Limit + Cardinality(Threads) - 1

(* A rejection is deserved: unless a race has put the deque out of order,    *)
(* the limit was reached within the window that ends at the thread's clock   *)
(* reading.  An attempt exactly one window old does not count any more, and  *)
(* rejections themselves never count.                                        *)
RejectedOnlyAtLimit ==
    [][\A t \in Threads :
          Reject(t) /\ InOrder
              => Cardinality(AdmittedAfter(now[t] - Window)) >= Limit]_limiterVars

==============================================================================
