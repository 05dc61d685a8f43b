----------------------------- MODULE LimitsProofs -----------------------------
(***************************************************************************)
(* Theorems about the two limits this program keeps on requests, the gate  *)
(* in front of an external service (OutboundGate) and the limiter of the   *)
(* endpoints that take credentials (CredentialLimiter): for every finite   *)
(* set of callers, every set of addresses and of handlers, every setting   *)
(* of the limits and every length of a minute.                             *)
(***************************************************************************)
EXTENDS OutboundGate, CredentialLimiter, FiniteSetTheorems, TLAPS

(***************************************************************************)
(* The gate.  SlotsAreHeld is inductive with the types, and two more       *)
(* invariants carry the other theorems: CoolingInv ties the timer of a     *)
(* caller that cools down to the cooldown, and RepeatInv says of each      *)
(* attempt under way what it may have done.                                *)
(***************************************************************************)

(* A caller in the cooldown whose reading of backoffUntil is still good      *)
(* waits for exactly what is left of it.                                     *)
CoolingInv ==
    \A c \in Callers : at[c] = "cooling" /\ ~outdated[c] => timer[c] = cool

(* The request of a caller was carried out at most once for each unclear     *)
(* answer, and once more only when it has just been answered for good.       *)
Good(c) == at[c] \in {"release", "returned"} /\ answer[c] \in {"ok", "undecodable"}

RepeatInv ==
    \A c \in Callers :
        /\ applied[c] <= unsure[c] + (IF Good(c) THEN 1 ELSE 0)
        /\ at[c] \in {"release", "returned"} /\ answer[c] = "ok" => applied[c] >= 1

--------------------------------------------------------------------------------
(* The waits between two attempts are numbers. *)
LEMMA BackoffType ==
    ASSUME NEW n \in Nat \ {0}
    PROVE  retryBackoff(n) \in Nat
<1>1. CASE n > 5
  BY <1>1 DEF retryBackoff, maxRetryBackoff
<1>2. CASE n \in {1, 2, 3, 4, 5}
  BY <1>2 DEF retryBackoff, maxRetryBackoff
<1> QED
  BY <1>1, <1>2

LEMMA InitType == Init => TypeOK
  BY GateAssumption DEF Init, TypeOK, Places, Answers

(* What Retry does with the variables it sets. *)
LEMMA RetryType ==
    ASSUME TypeOK, NEW c \in Callers, Retry(c)
    PROVE  /\ at' \in [Callers -> Places]
           /\ timer' \in [Callers -> Nat]
           /\ attempt' \in [Callers -> 0..maxRequestRetries]
<1>1. CASE isRetryable(answer[c]) /\ attempt[c] < maxRequestRetries
  <2>1. attempt[c] + 1 \in 0..maxRequestRetries /\ attempt[c] + 1 \in Nat \ {0}
    BY <1>1, GateAssumption DEF TypeOK
  <2>2. retryBackoff(attempt[c] + 1) \in Nat
    BY <2>1, BackoffType
  <2> QED
    BY <1>1, <2>1, <2>2 DEF Retry, Go, TypeOK, Places
<1>2. CASE ~(isRetryable(answer[c]) /\ attempt[c] < maxRequestRetries)
  BY <1>2 DEF Retry, Go, TypeOK, Places
<1> QED
  BY <1>1, <1>2

LEMMA AnsweredType ==
    ASSUME TypeOK, NEW c \in Callers, NEW a \in Answers, NEW done \in {0, 1},
           Answered(c, a, done)
    PROVE  TypeOK'
<1>1. /\ cool' \in 0..default429Cooldown
      /\ outdated' \in [Callers -> BOOLEAN]
  <2>1. CASE a = "429"
    <3>1. cool' = IF default429Cooldown > cool THEN default429Cooldown ELSE cool
      BY <2>1 DEF Answered
    <3>2. outdated' = [k \in Callers |-> TRUE]
      BY <2>1 DEF Answered
    <3>3. cool' \in 0..default429Cooldown
      BY <3>1, GateAssumption DEF TypeOK
    <3> QED
      BY <3>2, <3>3
  <2>2. CASE a # "429"
    BY <2>2 DEF Answered, TypeOK
  <2> QED
    BY <2>1, <2>2
<1>2. /\ applied' \in [Callers -> Nat]
      /\ unsure' \in [Callers -> Nat]
  BY DEF Answered, TypeOK
<1> QED
  BY <1>1, <1>2 DEF Answered, Go, TypeOK, Places

(* Every answer is one of Answered. *)
LEMMA AnswerCases ==
    ASSUME NEW c \in Callers, Succeeds(c) \/ Refused(c) \/ Unclear(c)
    PROVE  \E a \in Answers, done \in {0, 1} :
               /\ Answered(c, a, done)
               /\ a \in {"ok", "undecodable"} => done = 1
               /\ a \in {"rejected", "429"} => done = 0
  BY DEF Succeeds, Refused, Unclear, Answers

(* The variables keep their types, except that the count of the slots needs  *)
(* to know that a caller which releases one has it.                          *)
LEMMA TypeStep == TypeOK /\ [Next]_vars => TypeOK'
<1> SUFFICES ASSUME TypeOK, [Next]_vars PROVE TypeOK'
  OBVIOUS
<1> USE GateAssumption
<1>1. CASE Tick
  <2>1. \A t \in Nat : Less(t) \in Nat /\ Less(t) <= t
    BY DEF Less
  <2>2. cool' \in 0..default429Cooldown
    BY <1>1, <2>1 DEF Tick, TypeOK
  <2>3. timer' \in [Callers -> Nat]
    BY <1>1, <2>1 DEF Tick, TypeOK
  <2> QED
    BY <1>1, <2>2, <2>3 DEF Tick, TypeOK, callVars
<1>2. ASSUME NEW c \in Callers, Request(c) \/ CooledDown(c) \/ WakeUp(c)
      PROVE  TypeOK'
  BY <1>2 DEF Request, CooledDown, WakeUp, Go, TypeOK, Places, callVars
<1>7. ASSUME NEW c \in Callers, waitBackoff(c)
      PROVE  TypeOK'
  <2>1. outdated' = [outdated EXCEPT ![c] = FALSE] /\ UNCHANGED <<sem, cool, callVars>>
    BY <1>7 DEF waitBackoff
  <2>2. outdated' \in [Callers -> BOOLEAN]
    BY <2>1 DEF TypeOK
  <2>3. at' \in [Callers -> Places] /\ timer' \in [Callers -> Nat]
    <3>1. CASE cool = 0
      BY <1>7, <3>1 DEF waitBackoff, Go, TypeOK, Places
    <3>2. CASE cool # 0
      <4>1. cool \in Nat
        BY DEF TypeOK
      <4> QED
        BY <1>7, <3>2, <4>1 DEF waitBackoff, Go, TypeOK, Places
    <3> QED
      BY <3>1, <3>2
  <2> QED
    BY <2>1, <2>2, <2>3 DEF callVars, TypeOK
<1>3. ASSUME NEW c \in Callers, Succeeds(c) \/ Refused(c) \/ Unclear(c)
      PROVE  TypeOK'
  BY <1>3, AnswerCases, AnsweredType
<1>4. ASSUME NEW c \in Callers, Release(c)
      PROVE  TypeOK'
  <2>1. sem' \in 0..maxConcurrent
    BY <1>4 DEF Release, TypeOK
  <2>2. Retry(c)
    BY <1>4 DEF Release
  <2> QED
    BY <1>4, <2>1, <2>2, RetryType DEF Release, TypeOK
<1>5. ASSUME NEW c \in Callers, Acquire(c)
      PROVE  TypeOK'
  BY <1>5 DEF Acquire, Go, TypeOK, Places, callVars
<1>6. CASE UNCHANGED vars
  BY <1>6 DEF vars, callVars, TypeOK
<1> QED
  BY <1>1, <1>2, <1>3, <1>4, <1>5, <1>6, <1>7 DEF Next, Step

(* TypeOK holds in every state, for any number of callers.                   *)
THEOREM TypeCorrect == Spec => []TypeOK
  BY InitType, TypeStep, PTL DEF Spec

--------------------------------------------------------------------------------
(* The slots *)

LEMMA HoldersFinite == IsFiniteSet(Holders) /\ Cardinality(Holders) \in Nat
<1>1. Holders \subseteq Callers
  BY DEF Holders
<1> QED
  BY <1>1, GateAssumption, FS_Subset, FS_CardinalityType

(* A step of a caller that neither takes nor returns a slot. *)
LEMMA SameHolders ==
    ASSUME TypeOK, NEW c \in Callers, NEW place \in Places, Go(c, place), UNCHANGED sem,
           at[c] \in {"calling", "release"} <=> place \in {"calling", "release"}
    PROVE  Holders' = Holders /\ sem' = sem
  BY DEF TypeOK, Holders, Go

(* What Retry does to the place of the caller. *)
LEMMA RetryPlace ==
    ASSUME TypeOK, NEW c \in Callers, Retry(c)
    PROVE  \E place \in {"sleep", "returned"} : Go(c, place)
  BY DEF Retry

LEMMA HeldStep ==
    ASSUME TypeOK, SlotsAreHeld, [Next]_vars
    PROVE  sem' = Cardinality(Holders')
<1> USE DEF Places
<1>1. CASE Tick
  BY <1>1 DEF Tick, SlotsAreHeld, Holders
<1>2. ASSUME NEW c \in Callers, Request(c) \/ CooledDown(c) \/ WakeUp(c)
      PROVE  sem' = Cardinality(Holders')
  <2>1. /\ UNCHANGED sem
        /\ at[c] \in {"idle", "cooling", "sleep"}
        /\ Go(c, "check") \/ Go(c, "slot")
    BY <1>2 DEF Request, CooledDown, WakeUp
  <2> QED
    BY <2>1, SameHolders DEF SlotsAreHeld
<1>3. ASSUME NEW c \in Callers, waitBackoff(c)
      PROVE  sem' = Cardinality(Holders')
  <2>1. /\ UNCHANGED sem
        /\ at[c] = "check"
        /\ Go(c, "cooling") \/ Go(c, "slot")
    BY <1>3 DEF waitBackoff
  <2> QED
    BY <2>1, SameHolders DEF SlotsAreHeld
<1>4. ASSUME NEW c \in Callers, Succeeds(c) \/ Refused(c) \/ Unclear(c)
      PROVE  sem' = Cardinality(Holders')
  <2>1. UNCHANGED sem /\ at[c] = "calling" /\ Go(c, "release")
    BY <1>4, AnswerCases DEF Answered
  <2> QED
    BY <2>1, SameHolders DEF SlotsAreHeld
<1>5. ASSUME NEW c \in Callers, Acquire(c)
      PROVE  sem' = Cardinality(Holders')
  <2>1. c \notin Holders /\ Holders' = Holders \cup {c} /\ sem' = sem + 1
    BY <1>5 DEF Acquire, Go, Holders, TypeOK
  <2>2. Cardinality(Holders') = Cardinality(Holders) + 1
    BY <2>1, HoldersFinite, FS_AddElement
  <2> QED
    BY <2>1, <2>2 DEF SlotsAreHeld
<1>6. ASSUME NEW c \in Callers, Release(c)
      PROVE  sem' = Cardinality(Holders')
  <2>1. PICK place \in {"sleep", "returned"} : Go(c, place)
    BY <1>6, RetryPlace DEF Release
  <2>2. c \in Holders /\ Holders' = Holders \ {c}
    BY <1>6, <2>1 DEF Release, Go, Holders, TypeOK
  <2>3. Cardinality(Holders') = Cardinality(Holders) - 1
    BY <2>2, HoldersFinite, FS_RemoveElement
  <2>4. Cardinality(Holders) # 0
    BY <2>2, HoldersFinite, FS_EmptySet
  <2>5. sem' = sem - 1
    BY <1>6, <2>4, HoldersFinite DEF Release, SlotsAreHeld
  <2> QED
    BY <2>3, <2>5 DEF SlotsAreHeld
<1>7. CASE UNCHANGED vars
  BY <1>7 DEF vars, SlotsAreHeld, Holders
<1> QED
  BY <1>1, <1>2, <1>3, <1>4, <1>5, <1>6, <1>7 DEF Next, Step

(* The semaphore counts the calls under way, one for one, and there are      *)
(* never more than maxConcurrent of them.                                    *)
THEOREM SlotsHeld == Spec => []SlotsAreHeld
<1>1. Init => TypeOK /\ SlotsAreHeld
  <2> SUFFICES ASSUME Init PROVE SlotsAreHeld
    BY InitType
  <2>1. Holders = {} /\ sem = 0
    BY DEF Init, Holders
  <2> QED
    BY <2>1, FS_EmptySet, GateAssumption DEF SlotsAreHeld
<1>2. TypeOK /\ SlotsAreHeld /\ [Next]_vars => (TypeOK /\ SlotsAreHeld)'
  <2> SUFFICES ASSUME TypeOK, SlotsAreHeld, [Next]_vars PROVE (TypeOK /\ SlotsAreHeld)'
    OBVIOUS
  <2>1. TypeOK'
    BY TypeStep
  <2>2. sem' <= maxConcurrent
    BY <2>1, GateAssumption DEF TypeOK
  <2> QED
    BY <2>1, <2>2, HeldStep DEF SlotsAreHeld
<1> QED
  BY <1>1, <1>2, PTL DEF Spec

--------------------------------------------------------------------------------
(* The cooldown *)

LEMMA CoolingStep ==
    ASSUME TypeOK, CoolingInv, LateCallersWait, [Next]_vars
    PROVE  (CoolingInv /\ LateCallersWait)'
<1> DEFINE Late(k) == /\ at[k] = "cooling" /\ ~outdated[k] => timer[k] = cool
                      /\ at[k] = "slot" /\ ~outdated[k] => cool = 0
<1> SUFFICES ASSUME NEW k \in Callers PROVE Late(k)'
  BY DEF CoolingInv, LateCallersWait
<1>0. Late(k) /\ cool \in Nat /\ timer[k] \in Nat
  BY DEF CoolingInv, LateCallersWait, TypeOK
<1>1. CASE Tick
  BY <1>0, <1>1 DEF Tick, Less
<1>2. ASSUME NEW c \in Callers, Request(c) \/ WakeUp(c)
      PROVE  Late(k)'
  BY <1>0, <1>2 DEF Request, WakeUp, Go, TypeOK
<1>3. ASSUME NEW c \in Callers, CooledDown(c)
      PROVE  Late(k)'
  BY <1>0, <1>3 DEF CooledDown, Go, TypeOK
<1>4. ASSUME NEW c \in Callers, waitBackoff(c)
      PROVE  Late(k)'
  <2>1. CASE k = c /\ cool = 0
    BY <1>4, <2>1 DEF waitBackoff, Go, TypeOK
  <2>2. CASE k = c /\ cool # 0
    BY <1>4, <2>2 DEF waitBackoff, Go, TypeOK
  <2>3. CASE k # c
    <3>1. at'[k] = at[k] /\ outdated'[k] = outdated[k] /\ timer'[k] = timer[k] /\ cool' = cool
      BY <1>4, <2>3 DEF waitBackoff, Go, TypeOK
    <3> QED
      BY <1>0, <3>1
  <2> QED
    BY <2>1, <2>2, <2>3
<1>5. ASSUME NEW c \in Callers, Succeeds(c) \/ Refused(c) \/ Unclear(c)
      PROVE  Late(k)'
  <2>1. PICK a \in Answers, done \in {0, 1} : Answered(c, a, done)
    BY <1>5, AnswerCases
  <2>2. CASE a = "429"
    <3>1. outdated' = [j \in Callers |-> TRUE]
      BY <2>1, <2>2 DEF Answered
    <3> QED
      BY <3>1
  <2>3. CASE a # "429"
    <3>1. UNCHANGED <<cool, outdated, timer>> /\ Go(c, "release")
      BY <2>1, <2>3 DEF Answered
    <3> QED
      BY <1>0, <3>1 DEF Go, TypeOK
  <2> QED
    BY <2>2, <2>3
<1>6. ASSUME NEW c \in Callers, Acquire(c)
      PROVE  Late(k)'
  BY <1>0, <1>6 DEF Acquire, Go, TypeOK
<1>7. ASSUME NEW c \in Callers, Release(c)
      PROVE  Late(k)'
  <2>1. PICK place \in {"sleep", "returned"} : Go(c, place)
    BY <1>7, RetryPlace DEF Release
  <2>2. UNCHANGED <<cool, outdated>> /\ (k # c => timer'[k] = timer[k])
    BY <1>7 DEF Release, Retry, TypeOK
  <2> QED
    BY <1>0, <2>1, <2>2 DEF Go, TypeOK
<1>8. CASE UNCHANGED vars
  BY <1>0, <1>8 DEF vars
<1> QED
  BY <1>1, <1>2, <1>3, <1>4, <1>5, <1>6, <1>7, <1>8 DEF Next, Step

(* The cooldown holds back every caller that could know of it.               *)
THEOREM CooldownHolds == Spec => []LateCallersWait
<1>1. Init => TypeOK /\ CoolingInv /\ LateCallersWait
  BY InitType DEF Init, CoolingInv, LateCallersWait
<1>2. TypeOK /\ CoolingInv /\ LateCallersWait /\ [Next]_vars
        => (TypeOK /\ CoolingInv /\ LateCallersWait)'
  BY TypeStep, CoolingStep
<1> QED
  BY <1>1, <1>2, PTL DEF Spec

--------------------------------------------------------------------------------
(* Retries *)

LEMMA RepeatStep ==
    ASSUME TypeOK, RepeatInv, [Next]_vars
    PROVE  RepeatInv'
<1> DEFINE Told(k) == at[k] \in {"release", "returned"} /\ answer[k] = "ok" => applied[k] >= 1
           Few(k) == applied[k] <= unsure[k] + (IF Good(k) THEN 1 ELSE 0)
<1> SUFFICES ASSUME NEW k \in Callers PROVE Few(k)' /\ Told(k)'
  BY DEF RepeatInv
<1>0. Few(k) /\ Told(k) /\ applied[k] \in Nat /\ unsure[k] \in Nat
  BY DEF RepeatInv, TypeOK
(* A caller that is not answered keeps what it has, and if it was answered   *)
(* for good it does not start again.                                         *)
<1>1. ASSUME UNCHANGED <<answer, applied, unsure>>,
             at'[k] \in {"release", "returned"} <=> at[k] \in {"release", "returned"}
      PROVE  Few(k)' /\ Told(k)'
  BY <1>0, <1>1 DEF Good
<1>2. CASE Tick
  BY <1>1, <1>2 DEF Tick, callVars
<1>3. ASSUME NEW c \in Callers, Request(c) \/ CooledDown(c) \/ WakeUp(c)
      PROVE  Few(k)' /\ Told(k)'
  BY <1>1, <1>3 DEF Request, CooledDown, WakeUp, Go, TypeOK, callVars
<1>4. ASSUME NEW c \in Callers, waitBackoff(c)
      PROVE  Few(k)' /\ Told(k)'
  BY <1>1, <1>4 DEF waitBackoff, Go, TypeOK, callVars
<1>5. ASSUME NEW c \in Callers, Acquire(c)
      PROVE  Few(k)' /\ Told(k)'
  BY <1>1, <1>5 DEF Acquire, Go, TypeOK, callVars
<1>6. ASSUME NEW c \in Callers, Succeeds(c) \/ Refused(c) \/ Unclear(c)
      PROVE  Few(k)' /\ Told(k)'
  <2>1. PICK a \in Answers, done \in {0, 1} :
            /\ Answered(c, a, done)
            /\ a \in {"ok", "undecodable"} => done = 1
            /\ a \in {"rejected", "429"} => done = 0
    BY <1>6, AnswerCases
  <2>2. CASE k = c
    <3>1. /\ at[k] = "calling" /\ at'[k] = "release" /\ answer'[k] = a
          /\ applied'[k] = applied[k] + done
          /\ unsure'[k] = unsure[k] + (IF a = "unclear" THEN 1 ELSE 0)
      BY <2>1, <2>2 DEF Answered, Go, TypeOK
    <3>2. applied[k] <= unsure[k]
      BY <1>0, <3>1 DEF Good
    <3>3. a \in {"ok", "undecodable", "rejected", "429", "unclear", "none"}
      BY DEF Answers
    <3>4. a = "none" => done = 0
      BY <1>6, <2>1, <3>1 DEF Succeeds, Refused, Unclear, Answered, TypeOK
    <3> QED
      BY <1>0, <2>1, <3>1, <3>2, <3>3, <3>4 DEF Good
  <2>3. CASE k # c
    <3>1. /\ at'[k] = at[k] /\ answer'[k] = answer[k]
          /\ applied'[k] = applied[k] /\ unsure'[k] = unsure[k]
      BY <2>1, <2>3 DEF Answered, Go, TypeOK
    <3> QED
      BY <1>0, <3>1 DEF Good
  <2> QED
    BY <2>2, <2>3
<1>7. ASSUME NEW c \in Callers, Release(c)
      PROVE  Few(k)' /\ Told(k)'
  <2>1. UNCHANGED <<answer, applied, unsure>> /\ at[c] = "release" /\ Retry(c)
    BY <1>7 DEF Release
  <2>2. CASE k = c /\ isRetryable(answer[c])
    <3>1. ~Good(k) /\ ~Good(k)' /\ answer[k] # "ok"
      BY <2>1, <2>2 DEF Good, isRetryable
    <3> QED
      BY <1>0, <2>1, <3>1
  <2>3. CASE k = c /\ ~isRetryable(answer[c])
    BY <1>1, <2>1, <2>3 DEF Retry, Go, TypeOK
  <2>4. CASE k # c
    BY <1>1, <2>1, <2>4 DEF Retry, Go, TypeOK
  <2> QED
    BY <2>2, <2>3, <2>4
<1>8. CASE UNCHANGED vars
  BY <1>1, <1>8 DEF vars, callVars
<1> QED
  BY <1>2, <1>3, <1>4, <1>5, <1>6, <1>7, <1>8 DEF Next, Step

(* For any number of retries, a request is repeated only after an answer     *)
(* that did not say whether it was carried out.                              *)
THEOREM RepeatsJustified == Spec => []RepeatsNeedLostAnswers
<1>1. Init => TypeOK /\ RepeatInv
  BY InitType DEF Init, RepeatInv, Good
<1>2. TypeOK /\ RepeatInv /\ [Next]_vars => (TypeOK /\ RepeatInv)'
  BY TypeStep, RepeatStep
<1>3. TypeOK /\ RepeatInv => RepeatsNeedLostAnswers
  <2> SUFFICES ASSUME TypeOK, RepeatInv, NEW c \in Callers
               PROVE  /\ applied[c] <= 1 + unsure[c]
                      /\ at[c] = "returned" /\ answer[c] = "ok" => applied[c] >= 1
    BY DEF RepeatsNeedLostAnswers
  <2>1. applied[c] \in Nat /\ unsure[c] \in Nat
    BY DEF TypeOK
  <2> QED
    BY <2>1 DEF RepeatInv
<1> QED
  BY <1>1, <1>2, <1>3, PTL DEF Spec

(***************************************************************************)
(* The limiter.  Two invariants carry its theorems: OwnBucket says whose   *)
(* bucket is whose, and Balance keeps the accounts of a bucket: what was   *)
(* let through since a tick, at Interval each, and the credit left are     *)
(* together no more than a full bucket and the time since, and exactly     *)
(* that since the bucket was full for the last time.                       *)
(***************************************************************************)

Bucket == [credit : 0..Full, last : 0..now]

Types ==
    /\ now \in 0..MaxTime
    /\ buckets \in Seq(Bucket)
    /\ limiters \in [Addresses -> 0..Len(buckets)]
    /\ handler \in [Handlers -> [at : {"idle", "asking", "limited"},
                                 ip : Addresses \cup {""}, bucket : Nat]]
    /\ admitted \in [Addresses -> [0..MaxTime -> Nat]]

OwnBucket ==
    /\ \A b \in DOMAIN buckets : \E ip \in Addresses : limiters[ip] = b
    /\ \A ip, other \in Addresses :
          limiters[ip] = limiters[other] /\ limiters[ip] # 0 => ip = other

Serves ==
    \A h \in Handlers :
        /\ handler[h].at # "idle" => handler[h].ip \in Addresses
        /\ handler[h].at = "limited" => /\ handler[h].bucket = limiters[handler[h].ip]
                                        /\ handler[h].bucket # 0

(* The accounts of a bucket b, when counts were let through by it. *)
Cost(n) == n * Interval
Spent(counts, b, s) == Cost(counts[s]) + b.credit
Earned(b, s) == Full + (b.last - s)

Balanced(counts, b) ==
    /\ \A s \in 0..b.last : Spent(counts, b, s) <= Earned(b, s)
    /\ \A s \in 0..MaxTime : s > b.last => counts[s] = 0
    /\ \E s \in 0..b.last : Spent(counts, b, s) = Earned(b, s)
    /\ b.credit = Full \/ \A s \in 0..b.last : counts[s] > 0

Balance ==
    \A ip \in Addresses :
        IF limiters[ip] = 0 THEN \A s \in 0..MaxTime : admitted[ip][s] = 0
        ELSE Balanced(admitted[ip], buckets[limiters[ip]])

LimiterInv == Types /\ OwnBucket /\ Serves /\ Balance
--------------------------------------------------------------------------------
(* A token is worth at least a tick, and a full bucket at least a token. *)
LEMMA IntervalType ==
    /\ MaxTime \in Nat /\ Minute \in Nat
    /\ Interval \in Nat \ {0} /\ burst \in Nat \ {0}
    /\ Interval <= Minute
<1>1. rpm \in Nat \ {0} /\ burst \in Nat \ {0}
  BY DEF rpm, burst, envInt, defaultCredentialRPM, defaultCredentialBurst
<1>2. Minute \in Nat /\ rpm <= Minute /\ MaxTime \in Nat
  BY LimiterAssumption
<1>3. \A m, r \in Nat : 0 < r /\ r <= m => m \div r \in Nat \ {0} /\ m \div r <= m
  BY SMTT(30)
<1> QED
  BY <1>1, <1>2, <1>3 DEF Interval

LEMMA FullType == Full \in Nat /\ Interval <= Full
<1>1. PICK k \in Nat : burst = k + 1
  BY IntervalType
<1>2. \A n, i \in Nat : n * i \in Nat /\ (n + 1) * i = n * i + i
  OBVIOUS
<1> QED
  BY <1>1, <1>2, IntervalType DEF Full

LEMMA CostType ==
    /\ Cost(0) = 0
    /\ \A n \in Nat : Cost(n) \in Nat /\ Cost(n + 1) = Cost(n) + Interval
<1>1. \A n, i \in Nat : n * i \in Nat /\ (n + 1) * i = n * i + i /\ 0 * i = 0
  OBVIOUS
<1> QED
  BY <1>1, IntervalType DEF Cost

(* So many whole intervals fit into a stretch of time. *)
LEMMA Fits ==
    ASSUME NEW k \in Int, NEW n \in Nat, NEW i \in Nat \ {0}
    PROVE  /\ k * i <= n => k <= n \div i
           /\ n < k * i => n \div i < k
<1>1. n = i * (n \div i) + (n % i) /\ n \div i \in Nat /\ n % i \in 0..(i - 1)
  BY SMTT(30)
<1>2. k >= n \div i + 1 => k * i >= (n \div i + 1) * i
  BY <1>1, SMTT(30)
<1>3. k <= n \div i => k * i <= (n \div i) * i
  BY <1>1, SMTT(30)
<1>4. (n \div i + 1) * i = i * (n \div i) + i /\ (n \div i) * i = i * (n \div i)
  BY <1>1, SMTT(30)
<1>5. k * i \in Int /\ i * (n \div i) \in Int
  BY <1>1
<1> QED
  BY <1>1, <1>2, <1>3, <1>4, <1>5

LEMMA AdvanceType ==
    ASSUME NEW b \in [credit : 0..Full, last : 0..now], now \in Nat
    PROVE  /\ advance(b) \in 0..Full
           /\ advance(b) <= b.credit + now - b.last
           /\ advance(b) = Full \/ advance(b) = b.credit + now - b.last
<1> DEFINE c == b.credit + now - b.last
<1>1. Full \in Nat /\ c \in Nat
  BY FullType
<1>2. \A x, y \in Nat : Min({x, y}) = IF x <= y THEN x ELSE y
  BY DEF Min
<1>3. advance(b) = IF Full <= c THEN Full ELSE c
  BY <1>1, <1>2 DEF advance
<1> HIDE DEF c
<1>4. advance(b) \in 0..Full /\ advance(b) <= c /\ (advance(b) = Full \/ advance(b) = c)
  BY <1>1, <1>3
<1> QED
  BY <1>4 DEF c

--------------------------------------------------------------------------------
(* A new bucket balances: it is full, and nothing was let through. *)
LEMMA NewBalances ==
    ASSUME NEW counts \in [0..MaxTime -> Nat], \A s \in 0..MaxTime : counts[s] = 0,
           now \in 0..MaxTime
    PROVE  Balanced(counts, [credit |-> Full, last |-> now])
<1> DEFINE b == [credit |-> Full, last |-> now]
<1>1. \A s \in 0..now : Spent(counts, b, s) = Full
  <2> TAKE s \in 0..now
  <2>1. counts[s] = 0
    BY IntervalType
  <2>2. Cost(counts[s]) = 0
    BY <2>1, CostType
  <2> QED
    BY <2>2, FullType DEF Spent
<1>2. \A s \in 0..now : Earned(b, s) = Full + (now - s)
  BY FullType DEF Earned
<1>3. now \in 0..now
  BY IntervalType
<1>4. \A s \in 0..b.last : Spent(counts, b, s) <= Earned(b, s)
  BY <1>1, <1>2, FullType, IntervalType
<1>5. \E s \in 0..b.last : Spent(counts, b, s) = Earned(b, s)
  BY <1>1, <1>2, <1>3, FullType, IntervalType
<1> QED
  BY <1>4, <1>5 DEF Balanced

(* What a bucket lets through keeps its accounts in balance. *)
LEMMA AllowBalances ==
    ASSUME NEW counts, NEW b
    PROVE  /\ counts \in [0..MaxTime -> Nat] /\ b \in Bucket /\ now \in 0..MaxTime
           /\ Balanced(counts, b) /\ advance(b) >= Interval
           => Balanced(LetThrough(counts), [credit |-> advance(b) - Interval, last |-> now])
<1> DEFINE new == [credit |-> advance(b) - Interval, last |-> now]
           more == LetThrough(counts)
           c == advance(b)
<1>0. SUFFICES ASSUME counts \in [0..MaxTime -> Nat], b \in Bucket, now \in 0..MaxTime,
                      Balanced(counts, b), c >= Interval
               PROVE  Balanced(more, new)
  OBVIOUS
<1>1. now \in Nat /\ b.last \in 0..now /\ b.credit \in 0..Full
  BY <1>0, IntervalType DEF Bucket
<1>2. /\ c \in 0..Full /\ c <= b.credit + now - b.last
      /\ c = Full \/ c = b.credit + now - b.last
  BY <1>0, <1>1, AdvanceType DEF Bucket
<1>3. \A s \in 0..now : more[s] = counts[s] + 1 /\ counts[s] \in Nat
  BY <1>0, IntervalType DEF LetThrough
<1>4. \A s \in 0..MaxTime : s > now => more[s] = 0
  BY <1>0, <1>1, IntervalType DEF LetThrough, Balanced
<1>5. new.credit = c - Interval /\ new.last = now
  OBVIOUS
<1> HIDE DEF more, c, new
<1>6. ASSUME NEW s \in 0..now
      PROVE  Spent(more, new, s) = Cost(counts[s]) + c /\ Cost(counts[s]) \in Nat
  <2>1. Cost(more[s]) = Cost(counts[s]) + Interval /\ Cost(counts[s]) \in Nat
    BY <1>3, CostType
  <2>2. Cost(more[s]) + (c - Interval) = Cost(counts[s]) + c
    BY <2>1, <1>2, IntervalType, FullType
  <2> QED
    BY <2>1, <2>2, <1>5 DEF Spent
<1>7. ASSUME NEW s \in 0..b.last
      PROVE  s \in 0..now /\ Cost(counts[s]) + b.credit <= Full + (b.last - s)
  BY <1>0, <1>1 DEF Balanced, Spent, Earned
<1>8. ASSUME NEW s \in 0..now, s > b.last
      PROVE  Cost(counts[s]) = 0
  <2>1. counts[s] = 0
    BY <1>0, <1>1, <1>8, IntervalType DEF Balanced
  <2> QED
    BY <2>1, CostType
<1>9. ASSUME NEW s \in 0..now
      PROVE  Cost(counts[s]) + c <= Full + (now - s)
  <2>1. Cost(counts[s]) \in Nat
    BY <1>6
  <2>2. CASE s <= b.last
    <3>1. Cost(counts[s]) + b.credit <= Full + (b.last - s)
      BY <2>2, <1>1, <1>7
    <3> QED
      BY <3>1, <2>1, <1>1, <1>2, FullType
  <2>3. CASE s > b.last
    <3>1. Cost(counts[s]) = 0
      BY <2>3, <1>8
    <3> QED
      BY <3>1, <1>1, <1>2, FullType
  <2> QED
    BY <2>2, <2>3, <1>1
<1>10. \E s \in 0..now : Cost(counts[s]) + c = Full + (now - s)
  <2>1. CASE c = Full
    <3>1. now \in 0..now /\ Cost(counts[now]) \in Nat
      BY <1>1, <1>6
    <3>2. Cost(counts[now]) + c <= Full + (now - now)
      BY <3>1, <1>9
    <3>3. Cost(counts[now]) + c = Full + (now - now)
      BY <3>1, <3>2, <2>1, <1>1, FullType
    <3> QED
      BY <3>1, <3>3
  <2>2. CASE c = b.credit + now - b.last
    <3>1. PICK s \in 0..b.last : Cost(counts[s]) + b.credit = Full + (b.last - s)
      BY <1>0 DEF Balanced, Spent, Earned
    <3>2. s \in 0..now /\ Cost(counts[s]) \in Nat
      BY <1>1, <1>6
    <3>3. Cost(counts[s]) + c = Full + (now - s)
      BY <3>1, <3>2, <2>2, <1>1, <1>2, FullType
    <3> QED
      BY <3>2, <3>3
  <2> QED
    BY <2>1, <2>2, <1>2
<1>11. \A s \in 0..now : Earned(new, s) = Full + (now - s)
  BY <1>5 DEF Earned
<1>12. \A s \in 0..now : more[s] > 0
  BY <1>1, <1>3
<1> QED
  BY <1>4, <1>5, <1>6, <1>9, <1>10, <1>11, <1>12 DEF Balanced, more, new, c
--------------------------------------------------------------------------------
LEMMA InitInv == LimiterInit => LimiterInv
<1> SUFFICES ASSUME LimiterInit PROVE LimiterInv
  OBVIOUS
<1>1. Types
  <2>1. now \in 0..MaxTime
    BY IntervalType DEF LimiterInit
  <2>2. buckets \in Seq(Bucket) /\ Len(buckets) = 0
    BY DEF LimiterInit
  <2>3. limiters \in [Addresses -> 0..Len(buckets)] /\ admitted \in [Addresses -> [0..MaxTime -> Nat]]
    BY <2>2 DEF LimiterInit
  <2>4. Idle \in [at : {"idle", "asking", "limited"}, ip : Addresses \cup {""}, bucket : Nat]
    BY DEF Idle
  <2> QED
    BY <2>1, <2>2, <2>3, <2>4 DEF LimiterInit, Types
<1>2. OwnBucket
  BY DEF LimiterInit, OwnBucket
<1>3. Serves
  BY DEF LimiterInit, Serves, Idle
<1>4. Balance
  BY DEF LimiterInit, Balance
<1> QED
  BY <1>1, <1>2, <1>3, <1>4 DEF LimiterInv

(* Full and Cost are the same in every state. *)
LEMMA Unmoved ==
    /\ Full' = Full /\ Interval' = Interval
    /\ \A n : (Cost(n))' = Cost(n)
    /\ \A counts, b : (Balanced(counts, b))' = Balanced(counts, b)
  BY DEF Full, Cost, Balanced, Spent, Earned
LEMMA TickInv ==
    ASSUME LimiterInv, ClockTicks
    PROVE  LimiterInv'
<1>1. Types'
  <2>0. now \in 0..MaxTime /\ now < MaxTime /\ now' = now + 1
    BY DEF LimiterInv, Types, ClockTicks
  <2>1. now' \in 0..MaxTime /\ now' = now + 1 /\ now \in Nat
    BY <2>0, IntervalType
  <2>2. Bucket \subseteq Bucket'
    BY <2>1, Unmoved DEF Bucket
  <2>3. \A S, T : S \subseteq T => Seq(S) \subseteq Seq(T)
    OBVIOUS
  <2>4. buckets' \in Seq(Bucket')
    BY <2>2, <2>3 DEF LimiterInv, Types, ClockTicks
  <2> QED
    BY <2>1, <2>4 DEF LimiterInv, Types, ClockTicks
<1>2. OwnBucket' /\ Serves'
  BY DEF LimiterInv, OwnBucket, Serves, ClockTicks
<1>3. Balance'
  BY DEF LimiterInv, ClockTicks, Balance, Balanced, Spent, Earned, Full, Cost
<1> QED
  BY <1>1, <1>2, <1>3 DEF LimiterInv

LEMMA RequestInv ==
    ASSUME LimiterInv, NEW h \in Handlers, NEW ip \in Addresses, Arrive(h, ip)
    PROVE  LimiterInv'
<1>1. Types'
  BY DEF LimiterInv, Types, Arrive, Idle, Bucket, Full
<1>2. OwnBucket' /\ Serves'
  BY DEF LimiterInv, Types, OwnBucket, Serves, Arrive, Idle
<1>3. Balance'
  BY DEF LimiterInv, Arrive, Balance, Balanced, Spent, Earned, Full, Cost
<1> QED
  BY <1>1, <1>2, <1>3 DEF LimiterInv

(* A handler that gets its bucket remembers whom it serves. *)
LEMMA Limited ==
    ASSUME NEW h \in Handlers, NEW b \in Nat, handler[h].ip \in Addresses,
           handler \in [Handlers -> [at : {"idle", "asking", "limited"},
                                     ip : Addresses \cup {""}, bucket : Nat]],
           handler' = [handler EXCEPT ![h].at = "limited", ![h].bucket = b]
    PROVE  /\ handler' \in [Handlers -> [at : {"idle", "asking", "limited"},
                                         ip : Addresses \cup {""}, bucket : Nat]]
           /\ handler'[h].at = "limited" /\ handler'[h].bucket = b
           /\ handler'[h].ip = handler[h].ip
           /\ \A k \in Handlers \ {h} : handler'[k] = handler[k]
<1>1. handler'[h] = [handler[h] EXCEPT !.at = "limited", !.bucket = b]
  OBVIOUS
<1>2. handler[h] \in [at : {"idle", "asking", "limited"}, ip : Addresses \cup {""}, bucket : Nat]
  OBVIOUS
<1>3. /\ handler'[h] \in [at : {"idle", "asking", "limited"}, ip : Addresses \cup {""}, bucket : Nat]
      /\ handler'[h].at = "limited" /\ handler'[h].bucket = b /\ handler'[h].ip = handler[h].ip
  BY <1>2, <1>1
<1> QED
  BY <1>3

(* The bucket is that of the address, new or not. *)
LEMMA GetLimiterInv ==
    ASSUME NEW h \in Handlers
    PROVE  LimiterInv /\ getLimiter(h) => LimiterInv'
<1> DEFINE ip == handler[h].ip
           new == [credit |-> Full, last |-> now]
           n == Len(buckets)
<1>0. SUFFICES ASSUME LimiterInv, getLimiter(h) PROVE LimiterInv'
  OBVIOUS
<1>1. ip \in Addresses /\ now \in 0..now /\ now \in 0..MaxTime
  <2>1. handler[h].at = "asking"
    BY <1>0 DEF getLimiter
  <2>2. ip \in Addresses
    BY <1>0, <2>1 DEF LimiterInv, Serves
  <2>3. now \in 0..MaxTime
    BY <1>0 DEF LimiterInv, Types
  <2> QED
    BY <2>2, <2>3, IntervalType
<1>2. CASE limiters[ip] # 0
  <2>1. /\ UNCHANGED <<now, limiters, buckets, admitted>>
        /\ handler' = [handler EXCEPT ![h].at = "limited", ![h].bucket = limiters[ip]]
    BY <1>0, <1>2 DEF getLimiter
  <2>0. limiters[ip] \in Nat /\ Types
    <3>1. limiters \in [Addresses -> 0..n] /\ buckets \in Seq(Bucket)
      BY <1>0 DEF LimiterInv, Types
    <3>2. n \in Nat
      BY <3>1
    <3> HIDE DEF n
    <3> QED
      BY <3>1, <3>2, <1>0, <1>1 DEF LimiterInv
  <2>2. Types'
    BY <1>1, <2>0, <2>1, Limited DEF Types, Bucket, Full
  <2>3. OwnBucket'
    BY <1>0, <2>1 DEF LimiterInv, OwnBucket
  <2>4. Serves'
    <3>1. /\ handler'[h].at = "limited" /\ handler'[h].bucket = limiters[ip]
          /\ handler'[h].ip = ip
          /\ \A k \in Handlers \ {h} : handler'[k] = handler[k]
      BY <1>1, <2>0, <2>1, Limited DEF Types
    <3> QED
      BY <1>0, <1>1, <1>2, <2>1, <3>1 DEF LimiterInv, Serves
  <2>5. Balance'
    BY <1>0, <2>1 DEF LimiterInv, Balance, Balanced, Spent, Earned, Full, Cost
  <2> QED
    BY <2>2, <2>3, <2>4, <2>5 DEF LimiterInv
<1>3. CASE limiters[ip] = 0
  <2>1. /\ buckets' = Append(buckets, new)
        /\ limiters' = [limiters EXCEPT ![ip] = Len(buckets')]
        /\ handler' = [handler EXCEPT ![h].at = "limited", ![h].bucket = limiters'[ip]]
        /\ UNCHANGED <<now, admitted>>
    BY <1>0, <1>3 DEF getLimiter
  <2>2. new \in Bucket /\ buckets \in Seq(Bucket) /\ limiters \in [Addresses -> 0..n]
    <3>1. Full \in 0..Full
      BY FullType
    <3>2. new \in Bucket
      BY <1>1, <3>1 DEF Bucket
    <3> QED
      BY <1>0, <3>2 DEF LimiterInv, Types
  <2> HIDE DEF new
  <2>3. /\ n \in Nat /\ Len(buckets') = n + 1 /\ buckets' \in Seq(Bucket)
        /\ DOMAIN buckets = 1..n /\ DOMAIN buckets' = 1..(n + 1)
        /\ buckets'[n + 1] = new
        /\ \A b \in 1..n : buckets'[b] = buckets[b]
    BY <2>1, <2>2
  <2> HIDE DEF n
  <2>4. /\ limiters'[ip] = n + 1
        /\ \A a \in Addresses \ {ip} : limiters'[a] = limiters[a]
        /\ limiters' \in [Addresses -> 0..(n + 1)]
    BY <1>1, <2>1, <2>2, <2>3
  <2>5. /\ handler' \in [Handlers -> [at : {"idle", "asking", "limited"},
                                      ip : Addresses \cup {""}, bucket : Nat]]
        /\ handler'[h].at = "limited" /\ handler'[h].bucket = n + 1 /\ handler'[h].ip = ip
        /\ \A k \in Handlers \ {h} : handler'[k] = handler[k]
    <3>1. n + 1 \in Nat /\ Types
      BY <1>0, <2>3 DEF LimiterInv
    <3> QED
      BY <1>1, <2>1, <2>4, <3>1, Limited DEF Types
  <2>9. Types'
    <3>1. handler' \in [Handlers -> [at : {"idle", "asking", "limited"},
                                     ip : Addresses \cup {""}, bucket : Nat]]
      BY <2>5
    <3> QED
      BY <1>0, <2>1, <2>3, <2>4, <3>1 DEF LimiterInv, Types, Bucket, Full
  <2>6. OwnBucket'
    <3>1. \A b \in DOMAIN buckets' : \E a \in Addresses : limiters'[a] = b
      <4> TAKE b \in DOMAIN buckets'
      <4>1. CASE b = n + 1
        BY <4>1, <1>1, <2>4
      <4>2. CASE b # n + 1
        <5>1. b \in 1..n
          BY <4>2, <2>3
        <5>2. PICK a \in Addresses : limiters[a] = b
          BY <5>1, <1>0, <2>3 DEF LimiterInv, OwnBucket
        <5>3. a # ip
          BY <5>1, <5>2, <1>3, <2>3
        <5> QED
          BY <5>2, <5>3, <2>4
      <4> QED
        BY <4>1, <4>2
    <3>2. \A a, other \in Addresses :
              limiters'[a] = limiters'[other] /\ limiters'[a] # 0 => a = other
      <4>1. \A a \in Addresses \ {ip} : limiters'[a] # n + 1
        BY <2>2, <2>3, <2>4
      <4> QED
        BY <4>1, <1>0, <1>1, <2>4 DEF LimiterInv, OwnBucket
    <3> QED
      BY <3>1, <3>2 DEF OwnBucket
  <2>7. Serves'
    <3> SUFFICES ASSUME NEW k \in Handlers
                 PROVE  /\ handler'[k].at # "idle" => handler'[k].ip \in Addresses
                        /\ handler'[k].at = "limited" =>
                              /\ handler'[k].bucket = limiters'[handler'[k].ip]
                              /\ handler'[k].bucket # 0
      BY DEF Serves
    <3>0. /\ handler'[h].ip \in Addresses
          /\ handler'[h].bucket = limiters'[handler'[h].ip] /\ handler'[h].bucket # 0
      <4>1. n + 1 # 0
        BY <2>3
      <4>2. handler'[h].ip \in Addresses
        BY <1>1, <2>5
      <4>3. handler'[h].bucket = limiters'[handler'[h].ip]
        BY <2>4, <2>5
      <4> QED
        BY <4>1, <4>2, <4>3, <2>5
    <3>1. CASE k = h
      BY <3>1, <3>0
    <3>2. CASE k # h
      <4>1. handler'[k] = handler[k]
        BY <3>2, <2>5
      <4>2. handler[k].at = "limited" => handler[k].ip # ip
        BY <1>0, <1>3 DEF LimiterInv, Serves
      <4> QED
        BY <4>1, <4>2, <1>0, <2>4 DEF LimiterInv, Serves
    <3> QED
      BY <3>1, <3>2
  <2>8. Balance'
    <3>1. admitted[ip] \in [0..MaxTime -> Nat] /\ \A s \in 0..MaxTime : admitted[ip][s] = 0
      BY <1>0, <1>1, <1>3 DEF LimiterInv, Types, Balance
    <3>2. Balanced(admitted[ip], new)
      BY <3>1, <1>1, NewBalances DEF new
    <3>3. \A a \in Addresses :
              IF limiters'[a] = 0 THEN \A s \in 0..MaxTime : admitted'[a][s] = 0
              ELSE Balanced(admitted'[a], buckets'[limiters'[a]])
      <4> TAKE a \in Addresses
      <4>1. CASE a = ip
        BY <4>1, <3>2, <2>1, <2>3, <2>4
      <4>2. CASE a # ip
        <5>1. limiters'[a] = limiters[a] /\ limiters[a] \in 0..n
          BY <4>2, <2>2, <2>4
        <5>2. limiters[a] # 0 => buckets'[limiters[a]] = buckets[limiters[a]]
          BY <5>1, <2>3
        <5> QED
          BY <5>1, <5>2, <1>0, <2>1 DEF LimiterInv, Balance
      <4> QED
        BY <4>1, <4>2
    <3> QED
      BY <3>3 DEF Balance, Balanced, Spent, Earned, Full, Cost
  <2> QED
    BY <2>6, <2>7, <2>8, <2>9 DEF LimiterInv
<1> QED
  BY <1>2, <1>3
(* A bucket that is asked is the one of the address served. *)
LEMMA AskedBucket ==
    ASSUME LimiterInv, NEW h \in Handlers, handler[h].at = "limited"
    PROVE  /\ handler[h].ip \in Addresses
           /\ handler[h].bucket = limiters[handler[h].ip]
           /\ handler[h].bucket \in DOMAIN buckets
           /\ DOMAIN buckets = 1..Len(buckets)
           /\ buckets[handler[h].bucket] \in Bucket
           /\ Balanced(admitted[handler[h].ip], buckets[handler[h].bucket])
           /\ now \in 0..MaxTime /\ now \in Nat
<1>1. /\ handler[h].ip \in Addresses
      /\ handler[h].bucket = limiters[handler[h].ip] /\ handler[h].bucket # 0
  BY DEF LimiterInv, Serves
<1>2. /\ buckets \in Seq(Bucket) /\ limiters \in [Addresses -> 0..Len(buckets)]
      /\ now \in 0..MaxTime
  BY DEF LimiterInv, Types
<1>3. Len(buckets) \in Nat /\ DOMAIN buckets = 1..Len(buckets)
  BY <1>2
<1>4. handler[h].bucket \in DOMAIN buckets
  BY <1>1, <1>2, <1>3
<1>5. buckets[handler[h].bucket] \in Bucket
  BY <1>2, <1>4
<1>6. Balanced(admitted[handler[h].ip], buckets[handler[h].bucket])
  BY <1>1 DEF LimiterInv, Balance
<1> QED
  BY <1>1, <1>2, <1>3, <1>4, <1>5, <1>6, IntervalType

LEMMA AllowInv ==
    ASSUME NEW h \in Handlers
    PROVE  LimiterInv /\ Allow(h) => LimiterInv'
<1> DEFINE ip == handler[h].ip
           b == handler[h].bucket
           credit == advance(buckets[b])
           new == [credit |-> credit - Interval, last |-> now]
<1>0. SUFFICES ASSUME LimiterInv, Allow(h) PROVE LimiterInv'
  OBVIOUS
<1>1. /\ ip \in Addresses /\ b = limiters[ip] /\ b \in 1..Len(buckets)
      /\ DOMAIN buckets = 1..Len(buckets) /\ buckets[b] \in Bucket
      /\ Balanced(admitted[ip], buckets[b])
      /\ now \in 0..MaxTime /\ now \in Nat
  <2>1. handler[h].at = "limited"
    BY <1>0 DEF Allow
  <2> QED
    BY <2>1, <1>0, AskedBucket
<1>2. /\ handler' = [handler EXCEPT ![h] = Idle]
      /\ UNCHANGED <<now, limiters>>
      /\ credit < Interval => UNCHANGED <<buckets, admitted>>
      /\ ~(credit < Interval) =>
            /\ buckets' = [buckets EXCEPT ![b] = new]
            /\ admitted' = [admitted EXCEPT ![ip] = LetThrough(@)]
  BY <1>0 DEF Allow
<1>3. credit \in 0..Full
  BY <1>1, AdvanceType DEF Bucket
<1>4. ~(credit < Interval) => new \in Bucket
  <2>1. ASSUME ~(credit < Interval) PROVE credit - Interval \in 0..Full
    BY <2>1, <1>3, IntervalType, FullType
  <2> QED
    BY <2>1, <1>1 DEF Bucket
<1> HIDE DEF new, credit
<1>5. Types' /\ Serves'
  <2>1. /\ handler' \in [Handlers -> [at : {"idle", "asking", "limited"},
                                      ip : Addresses \cup {""}, bucket : Nat]]
        /\ handler'[h].at = "idle"
        /\ \A k \in Handlers \ {h} : handler'[k] = handler[k]
    <3>1. Idle \in [at : {"idle", "asking", "limited"}, ip : Addresses \cup {""}, bucket : Nat]
          /\ Idle.at = "idle"
      BY DEF Idle
    <3>2. handler \in [Handlers -> [at : {"idle", "asking", "limited"},
                                    ip : Addresses \cup {""}, bucket : Nat]]
      BY <1>0 DEF LimiterInv, Types
    <3> QED
      BY <1>2, <3>1, <3>2
  <2>2. Serves'
    BY <1>0, <1>2, <2>1 DEF LimiterInv, Serves
  <2>3. buckets' \in Seq(Bucket) /\ Len(buckets') = Len(buckets)
    <3>1. buckets \in Seq(Bucket)
      BY <1>0 DEF LimiterInv, Types
    <3> QED
      BY <1>1, <1>2, <1>4, <3>1
  <2>4. admitted' \in [Addresses -> [0..MaxTime -> Nat]]
    <3>1. admitted \in [Addresses -> [0..MaxTime -> Nat]]
      BY <1>0 DEF LimiterInv, Types
    <3>2. LetThrough(admitted[ip]) \in [0..MaxTime -> Nat]
      <4>1. admitted[ip] \in [0..MaxTime -> Nat]
        BY <1>1, <3>1
      <4>2. \A counts \in [0..MaxTime -> Nat] : LetThrough(counts) \in [0..MaxTime -> Nat]
        BY DEF LetThrough
      <4> QED
        BY <4>1, <4>2
    <3> QED
      BY <1>2, <3>1, <3>2
  <2>5. limiters' \in [Addresses -> 0..Len(buckets')] /\ now' \in 0..MaxTime
    BY <1>0, <1>2, <2>3 DEF LimiterInv, Types
  <2>6. Bucket' = Bucket
    BY <1>2, Unmoved DEF Bucket
  <2> QED
    BY <2>1, <2>2, <2>3, <2>4, <2>5, <2>6 DEF Types
<1>6. OwnBucket'
  <2>1. DOMAIN buckets' = DOMAIN buckets
    BY <1>2
  <2> QED
    BY <2>1, <1>0, <1>2 DEF LimiterInv, OwnBucket
<1>7. Balance'
  <2>1. CASE credit < Interval
    BY <2>1, <1>0, <1>2 DEF LimiterInv, Balance, Balanced, Spent, Earned, Full, Cost
  <2>2. CASE ~(credit < Interval)
    <3>1. admitted \in [Addresses -> [0..MaxTime -> Nat]]
      BY <1>0 DEF LimiterInv, Types
    <3>2. Balanced(LetThrough(admitted[ip]), new)
      <4>1. credit >= Interval
        BY <2>2, <1>3, IntervalType, FullType
      <4>2. admitted[ip] \in [0..MaxTime -> Nat]
        BY <3>1, <1>1
      <4> QED
        BY <4>1, <4>2, <1>1, AllowBalances DEF new, credit
    <3>3. /\ admitted'[ip] = LetThrough(admitted[ip]) /\ buckets'[b] = new
          /\ \A a \in Addresses \ {ip} : admitted'[a] = admitted[a]
          /\ \A k \in DOMAIN buckets \ {b} : buckets'[k] = buckets[k]
      BY <2>2, <1>1, <1>2, <3>1
    <3>4. ASSUME NEW a \in Addresses
          PROVE  IF limiters'[a] = 0 THEN \A s \in 0..MaxTime : admitted'[a][s] = 0
                 ELSE Balanced(admitted'[a], buckets'[limiters'[a]])
      <4>1. CASE a = ip
        BY <4>1, <1>1, <1>2, <3>2, <3>3
      <4>2. CASE a # ip
        <5>0. limiters \in [Addresses -> 0..Len(buckets)] /\ buckets \in Seq(Bucket)
          BY <1>0 DEF LimiterInv, Types
        <5>1. limiters \in [Addresses -> 0..Len(buckets)] /\ Len(buckets) \in Nat
          BY <5>0
        <5>2. limiters[a] # 0 => limiters[a] \in DOMAIN buckets \ {b}
          BY <4>2, <5>1, <1>0, <1>1 DEF LimiterInv, OwnBucket
        <5>3. limiters[a] # 0 => buckets'[limiters[a]] = buckets[limiters[a]]
          BY <5>2, <3>3
        <5> QED
          BY <4>2, <5>3, <3>3, <1>0, <1>2 DEF LimiterInv, Balance
      <4> QED
        BY <4>1, <4>2
    <3> QED
      BY <3>4 DEF Balance, Balanced, Spent, Earned, Full, Cost
  <2> QED
    BY <2>1, <2>2
<1> QED
  BY <1>5, <1>6, <1>7 DEF LimiterInv

LEMMA StepInv == LimiterInv /\ [LimiterNext]_limiterVars => LimiterInv'
<1> SUFFICES ASSUME LimiterInv, [LimiterNext]_limiterVars PROVE LimiterInv'
  OBVIOUS
<1>1. CASE ClockTicks
  BY <1>1, TickInv
<1>2. ASSUME NEW h \in Handlers, Handler(h)
      PROVE  LimiterInv'
  BY <1>2, RequestInv, GetLimiterInv, AllowInv DEF Handler
<1>3. CASE UNCHANGED limiterVars
  BY <1>3 DEF limiterVars, LimiterInv, Types, OwnBucket, Serves, Balance, Bucket, Balanced,
              Spent, Earned, Cost, Full
<1> QED
  BY <1>1, <1>2, <1>3 DEF LimiterNext

(* Every state keeps the books of the limiter (server/ratelimit.go). *)
THEOREM Books == LimiterSpec => []LimiterInv
  BY InitInv, StepInv, PTL DEF LimiterSpec
--------------------------------------------------------------------------------
(* What a balanced bucket let through since s is within the allowance. *)
LEMMA WithinAllowance ==
    ASSUME NEW ip \in Addresses, NEW s \in 0..now, LimiterInv
    PROVE  admitted[ip][s] <= Allowance(s)
<1>1. now \in 0..MaxTime /\ admitted \in [Addresses -> [0..MaxTime -> Nat]]
  BY DEF LimiterInv, Types
<1>2. now \in Nat /\ s \in 0..MaxTime /\ s \in Nat /\ now - s \in Nat /\ admitted[ip][s] \in Nat
  BY <1>1, IntervalType
<1>3. (now - s) \div Interval \in Nat
  BY <1>2, IntervalType, SMTT(30)
<1>4. CASE admitted[ip][s] = 0
  BY <1>3, <1>4, IntervalType DEF Allowance
<1>5. CASE admitted[ip][s] # 0
  <2> DEFINE b == buckets[limiters[ip]]
             a == admitted[ip][s]
  <2>1. limiters[ip] # 0 /\ Balanced(admitted[ip], b)
    BY <1>2, <1>5 DEF LimiterInv, Balance
  <2>2. b \in Bucket
    <3>1. limiters \in [Addresses -> 0..Len(buckets)] /\ buckets \in Seq(Bucket)
      BY DEF LimiterInv, Types
    <3> QED
      BY <2>1, <3>1
  <2>3. b.last \in 0..now /\ b.credit \in Nat
    BY <2>2, FullType DEF Bucket
  <2>4. s \in 0..b.last
    BY <1>2, <1>5, <2>1, <2>3 DEF Balanced
  <2>5. Cost(a) + b.credit <= Full + (b.last - s)
    BY <2>1, <2>4 DEF Balanced, Spent, Earned
  <2> HIDE DEF a, b
  <2>6. Cost(a) \in Nat
    BY <1>2, CostType DEF a
  <2>7. Cost(a) <= Full + (now - s)
    BY <1>2, <2>3, <2>5, <2>6, FullType
  <2>8. (a - burst) * Interval = Cost(a) - Full
    <3>1. \A x, y, i \in Int : (x - y) * i = x * i - y * i
      BY SMTT(30)
    <3> QED
      BY <3>1, <1>2, IntervalType DEF Cost, Full, a
  <2>9. (a - burst) * Interval <= now - s
    BY <1>2, <2>6, <2>7, <2>8, FullType
  <2>10. a - burst \in Int
    BY <1>2, IntervalType DEF a
  <2>11. a - burst <= (now - s) \div Interval
    BY <1>2, <2>9, <2>10, Fits, IntervalType
  <2> QED
    BY <1>2, <1>3, <2>11, IntervalType DEF Allowance, a
<1> QED
  BY <1>4, <1>5

LEMMA BooksLimit == LimiterInv => LimitHolds
<1> SUFFICES ASSUME LimiterInv PROVE LimitHolds
  OBVIOUS
<1>1. \A b \in DOMAIN buckets :
          /\ buckets[b].credit \in 0..Full /\ buckets[b].last \in 0..now
          /\ \E ip \in Addresses : limiters[ip] = b
  <2>1. \A b \in DOMAIN buckets : buckets[b] \in Bucket
    <3>1. buckets \in Seq(Bucket)
      BY DEF LimiterInv, Types
    <3> QED
      BY <3>1
  <2> QED
    BY <2>1 DEF LimiterInv, OwnBucket, Bucket
<1>2. \A h \in Handlers :
          handler[h].at = "limited" => handler[h].bucket = limiters[handler[h].ip]
  BY DEF LimiterInv, Serves
<1> QED
  BY <1>1, <1>2, WithinAllowance DEF LimitHolds

(* No address gets more through, in any stretch of time, than its burst and  *)
(* one request for each interval in it, and no bucket is ever made twice     *)
(* (ipRateLimiter.getLimiter, Handler).                                      *)
THEOREM LimitIsKept == LimiterSpec => []LimitHolds
  BY Books, BooksLimit, PTL

--------------------------------------------------------------------------------
(* Who is refused was asked at a bucket with less than a token in it. *)
LEMMA RefusedByBucket ==
    ASSUME NEW h \in Handlers
    PROVE  LimiterInv /\ [LimiterNext]_limiterVars /\ TurnedAway(h) => advance(buckets[handler[h].bucket]) < Interval
<1>0. SUFFICES ASSUME LimiterInv, [LimiterNext]_limiterVars, TurnedAway(h)
               PROVE  advance(buckets[handler[h].bucket]) < Interval
  OBVIOUS
<1>1. /\ handler[h].at = "limited" /\ handler'[h].at = "idle" /\ UNCHANGED admitted
      /\ handler'[h] # handler[h]
  <2>1. handler[h].at = "limited" /\ handler'[h] = Idle /\ UNCHANGED admitted
    BY <1>0 DEF TurnedAway
  <2>2. Idle.at = "idle"
    BY DEF Idle
  <2> QED
    BY <2>1, <2>2
<1>2. handler \in [Handlers -> [at : {"idle", "asking", "limited"},
                                ip : Addresses \cup {""}, bucket : Nat]]
  BY <1>0 DEF LimiterInv, Types
<1>3. Allow(h)
  <2>1. ASSUME NEW k \in Handlers, Handler(k) PROVE Allow(h)
    <3>1. CASE k # h
      <4>1. handler'[h] = handler[h]
        BY <2>1, <3>1, <1>2 DEF Handler, Arrive, getLimiter, Allow
      <4> QED
        BY <4>1, <1>1
    <3>2. CASE k = h
      <4>1. handler[k].at = "limited"
        BY <3>2, <1>1
      <4>2. ~getLimiter(k)
        BY <4>1 DEF getLimiter
      <4>3. Idle.at = "idle"
        BY DEF Idle
      <4>4. \A ip \in Addresses : ~Arrive(k, ip)
        BY <4>1, <4>3 DEF Arrive
      <4>5. Allow(k)
        BY <2>1, <4>2, <4>4 DEF Handler
      <4> QED
        BY <3>2, <4>5 DEF Allow
    <3> QED
      BY <3>1, <3>2
  <2>2. ClockTicks \/ UNCHANGED limiterVars => handler' = handler
    BY DEF ClockTicks, limiterVars
  <2>3. handler' # handler
    BY <1>1
  <2>4. \E k \in Handlers : Handler(k)
    BY <2>2, <2>3, <1>0 DEF LimiterNext
  <2> QED
    BY <2>1, <2>4
<1>4. ASSUME ~(advance(buckets[handler[h].bucket]) < Interval) PROVE FALSE
  <2>1. handler[h].ip \in Addresses /\ now \in 0..MaxTime /\ now \in Nat
    BY <1>0, <1>1, AskedBucket
  <2>2. admitted \in [Addresses -> [0..MaxTime -> Nat]]
    BY <1>0 DEF LimiterInv, Types
  <2>3. admitted'[handler[h].ip] = LetThrough(admitted[handler[h].ip])
    BY <1>3, <1>4, <2>1, <2>2 DEF Allow
  <2>4. admitted[handler[h].ip][now] \in Nat
    BY <2>1, <2>2
  <2>5. LetThrough(admitted[handler[h].ip])[now] = admitted[handler[h].ip][now] + 1
    BY <2>1 DEF LetThrough
  <2>6. now \in 0..MaxTime
    BY <2>1
  <2> HIDE DEF LetThrough
  <2>7. LetThrough(admitted[handler[h].ip])[now] = admitted[handler[h].ip][now]
    BY <1>1, <2>3
  <2> QED
    BY <2>4, <2>5, <2>7
<1> QED
  BY <1>4

LEMMA RefusalEarned ==
    ASSUME NEW h \in Handlers
    PROVE  LimiterInv /\ [LimiterNext]_limiterVars /\ TurnedAway(h) =>
               /\ \E s \in 0..now : admitted[handler[h].ip][s] + 1 > Allowance(s)
               /\ now >= Minute => admitted[handler[h].ip][now - Minute + 1] > 0
<1> DEFINE ip == handler[h].ip
           b == buckets[handler[h].bucket]
<1>0. SUFFICES ASSUME LimiterInv, [LimiterNext]_limiterVars, TurnedAway(h)
               PROVE  /\ \E s \in 0..now : admitted[ip][s] + 1 > Allowance(s)
                      /\ now >= Minute => admitted[ip][now - Minute + 1] > 0
  OBVIOUS
<1>1. /\ ip \in Addresses /\ b \in Bucket /\ Balanced(admitted[ip], b)
      /\ now \in 0..MaxTime /\ now \in Nat
  BY <1>0, AskedBucket DEF TurnedAway
<1>2. advance(b) < Interval
  BY <1>0, RefusedByBucket
<1>3. admitted[ip] \in [0..MaxTime -> Nat]
  BY <1>0, <1>1 DEF LimiterInv, Types
<1> HIDE DEF ip, b
<1>4. b.last \in 0..now /\ b.credit \in 0..Full
  BY <1>1 DEF Bucket
<1>5. b.credit + now - b.last < Interval
  BY <1>1, <1>2, <1>4, AdvanceType, FullType, IntervalType DEF Bucket
<1>6. \E s \in 0..now : admitted[ip][s] + 1 > Allowance(s)
  <2>1. PICK s \in 0..b.last : Cost(admitted[ip][s]) + b.credit = Full + (b.last - s)
    BY <1>1 DEF Balanced, Spent, Earned
  <2> DEFINE a == admitted[ip][s]
  <2>2. s \in 0..now /\ s \in 0..MaxTime /\ now - s \in Nat
    BY <1>1, <1>4, IntervalType
  <2>3. a \in Nat
    BY <1>3, <2>2
  <2> HIDE DEF a
  <2>4. Cost(a) \in Nat /\ Cost(a + 1) = Cost(a) + Interval
    BY <2>3, CostType
  <2>5. Cost(a) + b.credit = Full + (b.last - s)
    BY <2>1 DEF a
  <2>6. Full + (now - s) < Cost(a + 1)
    BY <1>1, <1>4, <1>5, <2>2, <2>4, <2>5, FullType, IntervalType
  <2>7. (a + 1 - burst) * Interval = Cost(a + 1) - Full
    <3>1. \A x, y, i \in Int : (x - y) * i = x * i - y * i
      BY SMTT(30)
    <3> QED
      BY <3>1, <2>3, IntervalType DEF Cost, Full
  <2>8. now - s < (a + 1 - burst) * Interval /\ a + 1 - burst \in Int
    BY <2>2, <2>3, <2>4, <2>6, <2>7, FullType, IntervalType
  <2>9. (now - s) \div Interval < a + 1 - burst
    BY <2>2, <2>8, Fits, IntervalType
  <2>10. (now - s) \div Interval \in Nat
    BY <2>2, IntervalType, SMTT(30)
  <2>11. a + 1 > Allowance(s)
    BY <2>3, <2>9, <2>10, IntervalType DEF Allowance
  <2> QED
    BY <2>2, <2>11 DEF a
<1>7. ASSUME now >= Minute PROVE admitted[ip][now - Minute + 1] > 0
  <2>1. b.credit # Full
    BY <1>1, <1>4, <1>5, FullType, IntervalType
  <2>2. \A s \in 0..b.last : admitted[ip][s] > 0
    BY <1>1, <2>1 DEF Balanced
  <2>3. now - Minute + 1 \in 0..b.last
    BY <1>1, <1>4, <1>5, <1>7, IntervalType
  <2> QED
    BY <2>2, <2>3
<1> QED
  BY <1>6, <1>7 DEF ip

(* Who is refused has had the burst and one request for each interval since  *)
(* some moment, and something within the last minute; what others did, and   *)
(* being refused, cost nothing (ipRateLimiter.Handler, writeRateLimitError). *)
THEOREM OnlyTheUserPays == LimiterSpec => RefusalsAreEarned
<1>1. LimiterInv /\ [LimiterNext]_limiterVars =>
          [\A h \in Handlers : TurnedAway(h) =>
              /\ \E s \in 0..now : admitted[handler[h].ip][s] + 1 > Allowance(s)
              /\ now >= Minute => admitted[handler[h].ip][now - Minute + 1] > 0]_limiterVars
  BY RefusalEarned
<1> QED
  BY <1>1, Books, PTL DEF LimiterSpec, RefusalsAreEarned
================================================================================
