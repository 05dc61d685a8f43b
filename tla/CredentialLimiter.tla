--------------------------- MODULE CredentialLimiter ---------------------------
(***************************************************************************)
(* The limiter in front of the three endpoints that take credentials       *)
(* (server/ratelimit.go): one token bucket for each client address, made   *)
(* when its first request comes and kept in a map under a mutex.  The      *)
(* bucket is that of golang.org/x/time/rate, which credits the time that   *)
(* has passed when it is asked; a credit is counted in ticks here, and a   *)
(* token is worth Interval of them.                                        *)
(***************************************************************************)
EXTENDS Integers, Sequences, FiniteSetsExt

CONSTANTS Addresses,    \* what clientIP finds
          Handlers,     \* goroutines that serve requests, one after the other
          EnvRPM,       \* RATE_LIMIT_CREDENTIAL_RPM, or anything else if unset
          EnvBurst,     \* RATE_LIMIT_CREDENTIAL_BURST
          Minute,       \* ticks in a minute
          MaxTime       \* when the clock stops (bound)

defaultCredentialRPM == 6
defaultCredentialBurst == 3

envInt(raw, fallback) == IF raw \notin Int THEN fallback ELSE raw

rpm == LET n == envInt(EnvRPM, defaultCredentialRPM)
       IN  IF n < 1 THEN defaultCredentialRPM ELSE n

burst == LET n == envInt(EnvBurst, defaultCredentialBurst)
         IN  IF n < 1 THEN defaultCredentialBurst ELSE n

\* rate.Every(time.Minute / rpm)
Interval == Minute \div rpm

ASSUME LimiterAssumption ==
    /\ {Minute, MaxTime} \subseteq Nat
    /\ rpm <= Minute

VARIABLES
    now,        \* the clock
    limiters,   \* limiters[ip]: the number of its bucket, 0 before there is one
    buckets,    \* the buckets made: the credit each had when it was last used
    handler,    \* handler[h]: where a goroutine is, whom it serves, its bucket
    admitted    \* history: admitted[ip][s]: the requests let through since s

limiterVars == <<now, limiters, buckets, handler, admitted>>

Full == burst * Interval
Idle == [at |-> "idle", ip |-> "", bucket |-> 0]

LimiterInit ==
    /\ now = 0
    /\ limiters = [ip \in Addresses |-> 0]
    /\ buckets = <<>>
    /\ handler = [h \in Handlers |-> Idle]
    /\ admitted = [ip \in Addresses |-> [t \in 0..MaxTime |-> 0]]

ClockTicks ==
    /\ now < MaxTime /\ now' = now + 1
    /\ UNCHANGED <<limiters, buckets, handler, admitted>>

Arrive(h, ip) ==
    /\ handler[h] = Idle
    /\ handler' = [handler EXCEPT ![h] = [Idle EXCEPT !.at = "asking", !.ip = ip]]
    /\ UNCHANGED <<now, limiters, buckets, admitted>>

(* Faulty: the bucket that is made is not put into the map. *)
getLimiterForgotten(h) ==
    /\ handler[h].at = "asking"
    /\ buckets' = Append(buckets, [credit |-> Full, last |-> now])
    /\ handler' = [handler EXCEPT ![h].at = "limited", ![h].bucket = Len(buckets) + 1]
    /\ UNCHANGED <<now, limiters, admitted>>

(* Under l.mu, from the lookup to the entry. *)
getLimiter(h) ==
    /\ handler[h].at = "asking"
    /\ LET ip == handler[h].ip
       IN  /\ IF limiters[ip] # 0 THEN UNCHANGED <<limiters, buckets>>
              ELSE /\ buckets' = Append(buckets, [credit |-> Full, last |-> now])
                   /\ limiters' = [limiters EXCEPT ![ip] = Len(buckets')]
           /\ handler' = [handler EXCEPT ![h].at = "limited", ![h].bucket = limiters'[ip]]
    /\ UNCHANGED <<now, admitted>>

advance(b) == Min({Full, b.credit + now - b.last})

\* A request that is let through now is let through since every s up to now.
LetThrough(counts) == [s \in 0..MaxTime |-> IF s <= now THEN counts[s] + 1 ELSE counts[s]]

(* Faulty: a request that is refused costs a token too. *)
AllowCharging(h) ==
    /\ handler[h].at = "limited"
    /\ LET b == handler[h].bucket
           credit == advance(buckets[b])
       IN  /\ buckets' = [buckets EXCEPT ![b] = [credit |-> credit - Interval, last |-> now]]
           /\ admitted' = IF credit < Interval THEN admitted
                          ELSE [admitted EXCEPT ![handler[h].ip] = LetThrough(@)]
    /\ handler' = [handler EXCEPT ![h] = Idle]
    /\ UNCHANGED <<now, limiters>>

(* Allow of the bucket, then next.ServeHTTP or writeRateLimitError. *)
Allow(h) ==
    /\ handler[h].at = "limited"
    /\ LET b == handler[h].bucket
           credit == advance(buckets[b])
       IN  IF credit < Interval THEN UNCHANGED <<buckets, admitted>>
           ELSE /\ buckets' = [buckets EXCEPT ![b] = [credit |-> credit - Interval, last |-> now]]
                /\ admitted' = [admitted EXCEPT ![handler[h].ip] = LetThrough(@)]
    /\ handler' = [handler EXCEPT ![h] = Idle]
    /\ UNCHANGED <<now, limiters>>

Handler(h) == getLimiter(h) \/ Allow(h) \/ \E ip \in Addresses : Arrive(h, ip)

LimiterNext == ClockTicks \/ \E h \in Handlers : Handler(h)

LimiterSpec == LimiterInit /\ [][LimiterNext]_limiterVars

--------------------------------------------------------------------------------
\* So many may be let through in a stretch of time, however it falls.
Allowance(s) == burst + (now - s) \div Interval

(* No address gets more requests through, in any stretch of time, than the   *)
(* burst and one for each interval in it, though its first requests come at  *)
(* the same time and each looks for a bucket that is not there yet           *)
(* (getLimiter); and every bucket made is the one of its address.            *)
LimitHolds ==
    /\ \A ip \in Addresses : \A s \in 0..now : admitted[ip][s] <= Allowance(s)
    /\ \A b \in DOMAIN buckets :
          /\ buckets[b].credit \in 0..Full /\ buckets[b].last \in 0..now
          /\ \E ip \in Addresses : limiters[ip] = b
    /\ \A h \in Handlers :
          handler[h].at = "limited" => handler[h].bucket = limiters[handler[h].ip]

(* Nobody is refused for what others did, nor for having been refused: one   *)
(* more request would have been more than the limit allows in some stretch   *)
(* of time that ends now.  So an address that nothing was let through for in *)
(* the last minute is let through, as the answer promises (Retry-After).     *)
TurnedAway(h) == handler[h].at = "limited" /\ handler'[h] = Idle /\ UNCHANGED admitted

RefusalsAreEarned ==
    [][\A h \in Handlers : TurnedAway(h) =>
          /\ \E s \in 0..now : admitted[handler[h].ip][s] + 1 > Allowance(s)
          /\ now >= Minute => admitted[handler[h].ip][now - Minute + 1] > 0]_limiterVars
================================================================================
