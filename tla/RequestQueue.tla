---------------------------- MODULE RequestQueue ----------------------------
(***************************************************************************)
(* The request queue of the extension's service worker (queue.js) with the *)
(* requests it runs (request() in api.js): a ceiling on requests in        *)
(* flight, one backoff for the whole queue after a 429, and one drain loop *)
(* that sleeps through the backoff while pushes and completions go on.     *)
(*                                                                         *)
(* JavaScript runs each callback to its next await without interruption,   *)
(* so an action is one such stretch: a push, the end of a request with the *)
(* drain() it calls, the drain loop waking from its sleep.                 *)
(*                                                                         *)
(* Time is relative: backoff is max(0, backoffUntil - now()) and nap what  *)
(* is left of the timer the drain loop sleeps on.                          *)
(***************************************************************************)
EXTENDS Integers, Sequences, FiniteSets

CONSTANTS
  Jobs,              \* the calls of push(), each with its promise
  Concurrency,       \* concurrency
  MaxRetries,        \* maxRetries
  MaxBackoff,        \* maxBackoffMs
  DefaultBackoff,    \* the backoff of a 429 without Retry-After
  RetryAfters,       \* values of Retry-After on a 429, NoRetryAfter among them
  NoRetryAfter,
  MaxForces          \* bound on the calls of applyBackoff() from outside

ASSUME QueueAssumption ==
  /\ Concurrency \in Nat \ {0} /\ MaxRetries \in Nat /\ MaxBackoff \in Nat
  /\ DefaultBackoff \in Nat /\ MaxForces \in Nat
  /\ NoRetryAfter \notin Nat /\ RetryAfters \subseteq Nat \cup {NoRetryAfter}
ASSUME JobsAssumption == IsFiniteSet(Jobs)

VARIABLES
  pending,    \* the jobs waiting to be launched, the next one first
  active,     \* the number of jobs in flight, as the queue counts it
  backoff,    \* time until backoffUntil
  draining,   \* the drain loop is asleep: nobody else may run it
  nap,        \* time until its timer is due
  stage,      \* where each job is: Stages
  attempt,    \* retries made of each job
  forces      \* calls of applyBackoff() from outside so far

queueVars == <<pending, active, backoff, draining, nap, stage, attempt, forces>>

\* A job in flight waits for the response headers, under the abort timer, and then
\* for the body, under none: request() clears the timer as soon as fetch returns.
InFlight == {"headers", "body"}
Stages == {"new", "queued", "resolved", "rejected"} \cup InFlight

Least(a, b) == IF a <= b THEN a ELSE b
Most(a, b) == IF a >= b THEN a ELSE b

-----------------------------------------------------------------------------
(* The drain loop *)

\* Mutant: what is in flight already is forgotten.
LaunchableUnchecked(p, a, b) == IF b > 0 THEN 0 ELSE Least(Len(p), Concurrency)

\* How many of the pending jobs p are launched in one go, with a in flight.
Launchable(p, a, b) == IF b > 0 THEN 0 ELSE Least(Len(p), Concurrency - a)

\* The loop goes to sleep: there is something to launch and room for it, but not yet.
MustSleep(p, a, b) == b > 0 /\ p # <<>> /\ a < Concurrency

\* The while loop of drain(), from its test to its end or its await, with p pending,
\* a in flight, a backoff of b and the jobs at the stages st.
Loop(p, a, b, st) ==
  LET n == Launchable(p, a, b)
      launched == {p[i] : i \in 1..n}
  IN
  /\ pending' = SubSeq(p, n + 1, Len(p))
  /\ active' = a + n
  /\ stage' = [j \in Jobs |-> IF j \in launched THEN "headers" ELSE st[j]]
  /\ draining' = MustSleep(p, a, b)
  /\ nap' = IF MustSleep(p, a, b) THEN b ELSE 0

\* drain(): a second call returns at once while the first one is asleep.
Drain(p, a, b, st) ==
  IF draining
  THEN pending' = p /\ active' = a /\ stage' = st /\ UNCHANGED <<draining, nap>>
  ELSE Loop(p, a, b, st)

-----------------------------------------------------------------------------
(* push(), execute(), applyBackoff() *)

Push(j) ==
  /\ stage[j] = "new"
  /\ Drain(Append(pending, j), active, backoff, [stage EXCEPT ![j] = "queued"])
  /\ UNCHANGED <<backoff, attempt, forces>>

\* Mutants: the last 429 decides, a shorter backoff included; no cap.
BackedOffLatest(ms) == Least(ms, MaxBackoff)
BackedOffUncapped(ms) == Most(backoff, ms)

\* The backoff after applyBackoff(ms): capped, and never shortened.
BackedOff(ms) == Most(backoff, Least(ms, MaxBackoff))

\* Mutant: a completion does not call drain().
SettledQuietly(j, how) ==
  /\ active' = active - 1
  /\ stage' = [stage EXCEPT ![j] = how]
  /\ UNCHANGED <<pending, draining, nap, backoff, attempt, forces>>

\* execute() once the job's promise is settled, by a value or an error.
Settled(j, how) ==
  /\ Drain(pending, active - 1, backoff, [stage EXCEPT ![j] = how])
  /\ UNCHANGED <<backoff, attempt, forces>>

Wait(retryAfter) == IF retryAfter = NoRetryAfter THEN DefaultBackoff ELSE retryAfter

\* Mutant: a retry goes to the end of the line.
RetriedLast(j) == Append(pending, j)

\* The pending jobs once j came back for its retry.
RetriedFirst(j) == <<j>> \o pending

\* A 429: the whole queue backs off; the job goes back to the front while it has
\* retries left, and fails otherwise.
RateLimited(j, retryAfter) ==
  LET b == BackedOff(Wait(retryAfter))
      retry == attempt[j] < MaxRetries
  IN
  /\ stage[j] = "headers"
  /\ backoff' = b
  /\ attempt' = [attempt EXCEPT ![j] = IF retry THEN @ + 1 ELSE @]
  /\ Drain(IF retry THEN RetriedFirst(j) ELSE pending, active - 1, b,
           [stage EXCEPT ![j] = IF retry THEN "queued" ELSE "rejected"])
  /\ UNCHANGED forces

\* A network error, or the abort by the 30 second timer.
NoResponse(j) == stage[j] = "headers" /\ Settled(j, "rejected")

\* Headers other than a 429: the abort timer is cleared, the body is read next.
HeadersArrive(j) ==
  /\ stage[j] = "headers"
  /\ stage' = [stage EXCEPT ![j] = "body"]
  /\ UNCHANGED <<pending, active, backoff, draining, nap, attempt, forces>>

\* The body ends, well or badly: a value, or an ApiError (no JSON, an error status).
BodyEnds(j) == stage[j] = "body" /\ \E how \in {"resolved", "rejected"} : Settled(j, how)

\* applyBackoff() from outside.
ForceBackoff(ms) ==
  /\ forces < MaxForces
  /\ forces' = forces + 1
  /\ backoff' = BackedOff(ms)
  /\ UNCHANGED <<pending, active, draining, nap, stage, attempt>>

\* The timer of the drain loop fires, at its time or later: the loop goes on at its
\* test, with the pending jobs and the backoff of now.
Wake ==
  /\ draining /\ nap = 0
  /\ Loop(pending, active, backoff, stage)
  /\ UNCHANGED <<backoff, attempt, forces>>

\* Time passes for the backoff and the timer alike.
QueueTick ==
  /\ backoff > 0 \/ nap > 0
  /\ backoff' = Most(backoff - 1, 0)
  /\ nap' = Most(nap - 1, 0)
  /\ UNCHANGED <<pending, active, draining, stage, attempt, forces>>

HeadersEnd(j) ==
  NoResponse(j) \/ HeadersArrive(j) \/ \E r \in RetryAfters : RateLimited(j, r)

QueueInit ==
  /\ pending = <<>> /\ active = 0 /\ backoff = 0 /\ draining = FALSE /\ nap = 0
  /\ stage = [j \in Jobs |-> "new"]
  /\ attempt = [j \in Jobs |-> 0]
  /\ forces = 0

QueueNext ==
  \/ \E j \in Jobs : Push(j)
  \/ \E j \in Jobs : HeadersEnd(j)
  \/ \E j \in Jobs : BodyEnds(j)
  \/ \E r \in RetryAfters : ForceBackoff(Wait(r))
  \/ Wake
  \/ QueueTick

\* Timers fire, and the wait for headers is cut off by one.
Timers ==
  /\ WF_queueVars(QueueTick) /\ WF_queueVars(Wake)
  /\ \A j \in Jobs : WF_queueVars(HeadersEnd(j))

QueueSpec == QueueInit /\ [][QueueNext]_queueVars /\ Timers

\* With a server that does not stall in the middle of a body.
SpecBodiesEnd == QueueSpec /\ \A j \in Jobs : WF_queueVars(BodyEnds(j))

-----------------------------------------------------------------------------
(* Properties *)

QueueTypeOK ==
  /\ pending \in Seq(Jobs) /\ active \in Nat
  /\ backoff \in 0..MaxBackoff /\ nap \in 0..MaxBackoff /\ draining \in BOOLEAN
  /\ stage \in [Jobs -> Stages] /\ attempt \in [Jobs -> 0..MaxRetries]
  /\ forces \in 0..MaxForces

\* The queue's own books agree with the promises it handed out: a job waits in the
\* queue exactly once or is in flight, the count in flight is right and never above
\* the ceiling, though slots are taken in the loop and given back in execute().
CeilingHeld ==
  /\ active = Cardinality({j \in Jobs : stage[j] \in InFlight})
  /\ active <= Concurrency
  /\ {pending[i] : i \in DOMAIN pending} = {j \in Jobs : stage[j] = "queued"}
  /\ Len(pending) = Cardinality({j \in Jobs : stage[j] = "queued"})

\* No lost wakeup: work never waits with nobody left to launch it.  Either the drain
\* loop is asleep and will look again, or every slot is taken and the next completion
\* looks.  drain() returns early on `draining`, so this is for the loop to ensure.
NeverIdleWithWork == pending # <<>> => draining \/ active = Concurrency

\* Retries go first: no job that was never tried is ahead of one that was.
RetriesFirst ==
  \A i, k \in DOMAIN pending :
    i < k /\ attempt[pending[i]] = 0 => attempt[pending[k]] = 0

\* One 429 rests the whole queue: nothing is launched while a backoff runs, whoever
\* calls drain() and whichever request caused it, and the time left shortens only
\* by passing.
RestedStep ==
  /\ \A j \in Jobs : stage[j] \notin InFlight /\ stage'[j] \in InFlight => backoff' = 0
  /\ backoff' >= backoff - 1
  /\ backoff' < backoff => UNCHANGED <<pending, active, stage>>
BackoffHonoured == [][RestedStep]_queueVars

\* Every promise of push() is settled, whatever the server limits, for as long as it
\* ends the bodies it starts.
EveryJobSettles ==
  \A j \in Jobs : stage[j] = "queued" ~> stage[j] \in {"resolved", "rejected"}

\* "Never unbounded, though -- that would stall the queue" (constants.js, about the
\* request timeout): a job that waits is launched, whatever the server does.
QueueNeverStalls == \A j \in Jobs : stage[j] = "queued" ~> stage[j] # "queued"
=============================================================================
