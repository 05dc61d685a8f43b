----------------------------- MODULE OutboundGate -----------------------------
(***************************************************************************)
(* The gate in front of an external service (outbound/gate.go), a          *)
(* semaphore and a cooldown that a 429 answer starts, together with the    *)
(* calls that go through it: requests of the Serializd client, whose do    *)
(* (serializd/client.go) retries what failed.  Time is counted in seconds, *)
(* and every deadline is kept as the time that is left.  All callers of    *)
(* this gate pass context.Background(), so no wait is ever cancelled.      *)
(***************************************************************************)
EXTENDS Integers, Sequences, FiniteSets

CONSTANTS Callers,             \* the goroutines with a request to make, one each
          maxConcurrent,       \* the capacity of the semaphore (12 for Serializd)
          default429Cooldown,  \* 2 seconds
          maxRequestRetries    \* 5

ASSUME GateAssumption ==
    /\ IsFiniteSet(Callers)
    /\ maxConcurrent \in Nat \ {0}
    /\ default429Cooldown \in Nat
    /\ maxRequestRetries \in Nat

VARIABLES
    sem,       \* how many slots of the semaphore are taken
    cool,      \* the time left until backoffUntil
    at,        \* at[c]: where caller c stands
    timer,     \* timer[c]: the time left on the timer c waits for
    attempt,   \* attempt[c]: the attempt of do that c is in
    answer,    \* answer[c]: what the last attempt came to
    applied,   \* history: how often the service has carried out the request of c
    unsure,    \* history: how many attempts of c ended in an error that does not say
    outdated   \* history: a 429 came in since c last looked at backoffUntil

vars == <<sem, cool, at, timer, attempt, answer, applied, unsure, outdated>>
callVars == <<attempt, answer, applied, unsure>>

Places == {"idle", "check", "cooling", "slot", "calling", "release", "sleep", "returned"}

\* "unclear": a 5xx, no answer, or none that could be read.  "undecodable": a good
\* answer whose body do cannot decode.  "rejected": any 4xx but 429.
Answers == {"none", "ok", "undecodable", "rejected", "429", "unclear"}

maxRetryBackoff == 30

\* 1 << (n - 1) seconds, at most maxRetryBackoff.
retryBackoff(n) == IF n > 5 THEN maxRetryBackoff ELSE <<1, 2, 4, 8, 16>>[n]

(* Faulty: tries again what it could not decode. *)
isRetryableOrUndecodable(a) == a \in {"429", "unclear", "undecodable"}

isRetryable(a) == a \in {"429", "unclear"}

Init ==
    /\ sem = 0 /\ cool = 0
    /\ at = [c \in Callers |-> "idle"]
    /\ timer = [c \in Callers |-> 0]
    /\ attempt = [c \in Callers |-> 0]
    /\ answer = [c \in Callers |-> "none"]
    /\ applied = [c \in Callers |-> 0]
    /\ unsure = [c \in Callers |-> 0]
    /\ outdated = [c \in Callers |-> FALSE]

Go(c, place) == at' = [at EXCEPT ![c] = place]

--------------------------------------------------------------------------------
(* Gate.Call *)

Request(c) ==
    /\ at[c] = "idle"
    /\ Go(c, "check")
    /\ UNCHANGED <<sem, cool, timer, callVars, outdated>>

(* Faulty: waits for what is left of the cooldown but one second. *)
waitBackoffShort(c) ==
    /\ at[c] = "check"
    /\ outdated' = [outdated EXCEPT ![c] = FALSE]
    /\ IF cool <= 1
       THEN Go(c, "slot") /\ UNCHANGED timer
       ELSE Go(c, "cooling") /\ timer' = [timer EXCEPT ![c] = cool - 1]
    /\ UNCHANGED <<sem, cool, callVars>>

(* waitBackoff reads backoffUntil once, under mu. *)
waitBackoff(c) ==
    /\ at[c] = "check"
    /\ outdated' = [outdated EXCEPT ![c] = FALSE]
    /\ IF cool = 0
       THEN Go(c, "slot") /\ UNCHANGED timer
       ELSE Go(c, "cooling") /\ timer' = [timer EXCEPT ![c] = cool]
    /\ UNCHANGED <<sem, cool, callVars>>

CooledDown(c) ==
    /\ at[c] = "cooling" /\ timer[c] = 0
    /\ Go(c, "slot")
    /\ UNCHANGED <<sem, cool, timer, callVars, outdated>>

(* Faulty: one slot too many. *)
AcquireOneMore(c) ==
    /\ at[c] = "slot" /\ sem <= maxConcurrent
    /\ sem' = sem + 1
    /\ Go(c, "calling")
    /\ UNCHANGED <<cool, timer, callVars, outdated>>

(* g.sem <- struct{}{}: the waiting goroutines are served in their order. *)
Acquire(c) ==
    /\ at[c] = "slot" /\ sem < maxConcurrent
    /\ sem' = sem + 1
    /\ Go(c, "calling")
    /\ UNCHANGED <<cool, timer, callVars, outdated>>

(* fn returns, and a 429 starts the cooldown.                                *)
Answered(c, a, done) ==
    /\ at[c] = "calling"
    /\ answer' = [answer EXCEPT ![c] = a]
    /\ applied' = [applied EXCEPT ![c] = @ + done]
    /\ unsure' = [unsure EXCEPT ![c] = @ + (IF a = "unclear" THEN 1 ELSE 0)]
    /\ IF a = "429"
       THEN /\ cool' = IF default429Cooldown > cool THEN default429Cooldown ELSE cool
            /\ outdated' = [k \in Callers |-> TRUE]
       ELSE UNCHANGED <<cool, outdated>>
    /\ Go(c, "release")
    /\ UNCHANGED <<sem, timer, attempt>>

Succeeds(c) == Answered(c, "ok", 1) \/ Answered(c, "undecodable", 1)
Refused(c) == Answered(c, "rejected", 0) \/ Answered(c, "429", 0)
Unclear(c) == \E done \in {0, 1} : Answered(c, "unclear", done)

(* What do does with the answer of an attempt. *)
Retry(c) ==
    IF isRetryable(answer[c]) /\ attempt[c] < maxRequestRetries
    THEN /\ Go(c, "sleep")
         /\ attempt' = [attempt EXCEPT ![c] = @ + 1]
         /\ timer' = [timer EXCEPT ![c] = retryBackoff(attempt[c] + 1)]
    ELSE Go(c, "returned") /\ UNCHANGED <<attempt, timer>>

(* Faulty: a 429 returns without giving the slot back. *)
ReleaseUnless429(c) ==
    /\ at[c] = "release"
    /\ sem' = IF answer[c] # "429" /\ sem > 0 THEN sem - 1 ELSE sem
    /\ Retry(c)
    /\ UNCHANGED <<cool, answer, applied, unsure, outdated>>

(* The deferred release, which takes nothing from an empty channel. *)
Release(c) ==
    /\ at[c] = "release"
    /\ sem' = IF sem > 0 THEN sem - 1 ELSE sem
    /\ Retry(c)
    /\ UNCHANGED <<cool, answer, applied, unsure, outdated>>

WakeUp(c) ==
    /\ at[c] = "sleep" /\ timer[c] = 0
    /\ Go(c, "check")
    /\ UNCHANGED <<sem, cool, timer, callVars, outdated>>

Less(t) == IF t = 0 THEN 0 ELSE t - 1

Tick ==
    /\ cool > 0 \/ \E c \in Callers : timer[c] > 0
    /\ cool' = Less(cool)
    /\ timer' = [c \in Callers |-> Less(timer[c])]
    /\ UNCHANGED <<sem, at, callVars, outdated>>

Step(c) ==
    \/ Request(c) \/ waitBackoff(c) \/ CooledDown(c)
    \/ Succeeds(c) \/ Refused(c) \/ Unclear(c)
    \/ Release(c) \/ WakeUp(c)

Next == Tick \/ \E c \in Callers : Step(c) \/ Acquire(c)

Spec == Init /\ [][Next]_vars

(* Time passes; goroutines run; the HTTP client's timeout ends every request;*)
(* a channel serves blocked senders first come, first served, so a slot that *)
(* comes free again and again reaches every one of them.                     *)
FairSpec ==
    /\ Spec
    /\ WF_vars(Tick)
    /\ \A c \in Callers : WF_vars(Step(c)) /\ SF_vars(Acquire(c))

--------------------------------------------------------------------------------
(* Properties *)

TypeOK ==
    /\ sem \in 0..maxConcurrent /\ cool \in 0..default429Cooldown
    /\ at \in [Callers -> Places]
    /\ timer \in [Callers -> Nat]
    /\ attempt \in [Callers -> 0..maxRequestRetries]
    /\ answer \in [Callers -> Answers]
    /\ applied \in [Callers -> Nat] /\ unsure \in [Callers -> Nat]
    /\ outdated \in [Callers -> BOOLEAN]

Holders == {c \in Callers : at[c] \in {"calling", "release"}}

(* The semaphore counts the calls that are under way, one for one: there are *)
(* never more than maxConcurrent, and no error, cooldown or retry leaves a   *)
(* slot taken by nobody or a call without one.                               *)
SlotsAreHeld == sem = Cardinality(Holders) /\ sem <= maxConcurrent

(* The cooldown holds back everybody who could know of it: whoever waits for *)
(* a slot while it lasts had looked at backoffUntil before the 429 came in.  *)
LateCallersWait == \A c \in Callers : at[c] = "slot" /\ ~outdated[c] => cool = 0

(* Retrying repeats a request only if it was never told how it went: beyond  *)
(* the one time that was asked for, the service carries a request out at     *)
(* most once for each answer that was lost or a 5xx.  And do returns nil     *)
(* only for a request that was carried out.                                  *)
RepeatsNeedLostAnswers ==
    \A c \in Callers :
        /\ applied[c] <= 1 + unsure[c]
        /\ at[c] = "returned" /\ answer[c] = "ok" => applied[c] >= 1

(* Every request comes back, whatever the service answers. *)
EveryCallReturns == \A c \in Callers : at[c] = "check" ~> at[c] = "returned"

================================================================================
