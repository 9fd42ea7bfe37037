--------------------------- MODULE CircuitBreaker ---------------------------
(***************************************************************************)
(* The provider-neutral circuit breaker (governance/circuit_breaker.py):   *)
(* the state of a provider, told from events a caller supplies, and the    *)
(* tier that is planned under it (governance/tier_routing_plan.py), as     *)
(* ingestion/pipeline_contract.py puts them together.  Reasons, rationales *)
(* and rule names are left out.                                            *)
(***************************************************************************)
EXTENDS Integers, Sequences, FiniteSets

CONSTANTS
  breaker,    \* CircuitBreakerConfig
  policy,     \* the thresholds of the plan
  FirstStates,\* initial_state
  Histories,  \* the events that may be supplied: sequences of [type, at]
  Instants,   \* now
  Scores      \* what was scored: [composite, risk, confidence]

FailureEvents == {"failure", "timeout", "rate_limited"}
EventTypes == FailureEvents \cup {"success", "unavailable", "manual_reset"}

ASSUME BreakerAssumption ==
  /\ breaker.failure_threshold \in Nat \ {0} /\ breaker.degraded_threshold \in Nat \ {0}
  /\ breaker.half_open_successes_to_close \in Nat
  /\ breaker.window_seconds \in Nat \ {0} /\ breaker.open_duration_seconds \in Nat \ {0}
ASSUME SuppliedAssumption ==
  /\ FirstStates \subseteq {"closed", "degraded", "open", "half_open", "unavailable"}
  /\ Instants \subseteq Nat
  /\ Histories \subseteq Seq([type : EventTypes, at : Nat])

VARIABLES question, told, planned, kept
breakerVars == <<question, told, planned, kept>>

Past(events, now) == {i \in DOMAIN events : events[i].at <= now}
Precedes(events, i, j) == events[i].at < events[j].at \/ (events[i].at = events[j].at /\ i < j)

\* sorted: by time, those of one time as they were supplied; the future is not looked at.  An event
\* is known by its place in what was supplied.
Ordered(events, now) ==
  LET past == Past(events, now)
  IN  [k \in 1 .. Cardinality(past) |->
         CHOOSE i \in past : Cardinality({j \in past : Precedes(events, j, i)}) = k - 1]

\* failures are the recent ones.
Closed == [state |-> "closed", opened_at |-> -1, half_open_at |-> -1, failures |-> {}]

\* An open circuit is tried again once its time is over; one that is unavailable only when asked.
Cooled(b, at) ==
  IF b.state = "open" /\ b.opened_at >= 0 /\ at - b.opened_at >= breaker.open_duration_seconds
  THEN [b EXCEPT !.state = "half_open", !.half_open_at = at] ELSE b

Failed(b, i, at) ==
  LET c == [b EXCEPT !.failures = @ \cup {i}]
      count == Cardinality(c.failures)
  IN  CASE c.state = "half_open" \/ count >= breaker.failure_threshold ->
             [c EXCEPT !.state = "open", !.opened_at = at]
        [] c.state = "closed" /\ count \in breaker.degraded_threshold .. breaker.failure_threshold - 1 ->
             [c EXCEPT !.state = "degraded"]
        [] OTHER -> c

\* Successes count from the time it became half open, if that is known.
Succeeded(b, at, events) ==
  LET since == IF b.half_open_at < 0 THEN at ELSE b.half_open_at
      successes == {i \in DOMAIN events : events[i].type = "success" /\ events[i].at \in since .. at}
  IN  CASE b.state = "half_open" /\ Cardinality(successes) >= breaker.half_open_successes_to_close ->
             [b EXCEPT !.state = "closed", !.opened_at = -1, !.failures = {}]
        [] b.state = "degraded" /\ b.failures = {} -> [b EXCEPT !.state = "closed"]
        [] OTHER -> b

After(b, i, events) ==
  LET e == events[i]
      recent == {j \in b.failures : e.at - events[j].at <= breaker.window_seconds}
      c == Cooled([b EXCEPT !.failures = recent], e.at)
  IN  CASE e.type = "manual_reset" -> Closed
        [] e.type = "unavailable" -> [c EXCEPT !.state = "unavailable", !.opened_at = e.at]
        [] e.type \in FailureEvents -> Failed(c, i, e.at)
        [] e.type = "success" -> Succeeded(c, e.at, events)

\* Defect: what is unavailable stays so.
Now_OnlyOpen(b, now) ==
  IF b.state = "open" /\ b.opened_at >= 0 /\ now - b.opened_at >= breaker.open_duration_seconds
  THEN [b EXCEPT !.state = "half_open"] ELSE b

Now(b, now) ==
  IF b.state \in {"open", "unavailable"} /\ b.opened_at >= 0 /\ now - b.opened_at >= breaker.open_duration_seconds
  THEN [b EXCEPT !.state = "half_open"] ELSE b

Verdict(b, now) ==
  LET refused == b.state \in {"open", "unavailable"}
  IN  [state |-> b.state, allow |-> ~refused,
       cooldown |-> IF refused /\ b.opened_at >= 0 THEN breaker.open_duration_seconds - (now - b.opened_at) ELSE 0]

EvaluateCircuitState(events, now, initial) ==
  LET ordered == Ordered(events, now)
      passed[n \in 0 .. Len(ordered)] ==
        IF n = 0 THEN [Closed EXCEPT !.state = initial] ELSE After(passed[n - 1], ordered[n], events)
  IN  Verdict(Now(passed[Len(ordered)], now), now)

-----------------------------------------------------------------------------
(* The plan.                                                               *)

\* What caps the composite score, each with a flag: 1 stands for the step of 0.000001.
Caps(score, state) ==
  [not_closed |-> [holds |-> state \in {"open", "unavailable"}, at |-> policy.transient_max],
   degraded |-> [holds |-> state \in {"degraded", "half_open"}, at |-> policy.probationary_min - 1],
   risk |-> [holds |-> score.risk >= policy.high_risk, at |-> policy.transient_max],
   confidence |-> [holds |-> score.confidence < policy.min_confidence, at |-> policy.probationary_min - 1]]

TierFor(n) ==
  CASE n <= policy.discard_max -> "discard"
    [] n > policy.discard_max /\ n <= policy.transient_max -> "transient"
    [] n > policy.discard_max /\ n > policy.transient_max /\ n < policy.persistent_min -> "probationary"
    [] OTHER -> "persistent"

PlanTierRoute(score, state) ==
  LET caps == Caps(score, state)
      flags == {f \in DOMAIN caps : caps[f].holds}
      bounds == {score.composite} \cup {caps[f].at : f \in flags}
      tier == TierFor(CHOOSE n \in bounds : \A m \in bounds : n <= m)
  IN  [tier |-> tier, should_persist |-> tier \in {"probationary", "persistent"} /\ flags = {}, flags |-> flags]

-----------------------------------------------------------------------------
NoTale == [state |-> "none", allow |-> FALSE, cooldown |-> 0]
NoPlan == [tier |-> "none", should_persist |-> FALSE, flags |-> {}]

BreakerInit ==
  /\ question \in [events : Histories, now : Instants, initial : FirstStates, score : Scores]
  /\ told = NoTale
  /\ planned = NoPlan
  /\ kept = "none"

AskBreaker ==
  /\ told = NoTale
  /\ told' = EvaluateCircuitState(question.events, question.now, question.initial)
  /\ UNCHANGED <<question, planned, kept>>
PlanRoute ==
  /\ told # NoTale /\ planned = NoPlan
  /\ planned' = PlanTierRoute(question.score, told.state)
  /\ UNCHANGED <<question, told, kept>>

\* The contract asks the backend to store what the caller wants kept, whatever the plan says.
Persist(persist, backend) ==
  /\ planned # NoPlan /\ kept = "none"
  /\ kept' = CASE ~persist -> "completed, not kept"
              [] persist /\ backend = "missing" -> "persistence_backend_required"
              [] persist /\ backend = "refuses" -> "persistence_error"
              [] persist /\ backend = "stores" -> "completed, kept"
  /\ UNCHANGED <<question, told, planned>>

BreakerNext ==
  \/ AskBreaker \/ PlanRoute
  \/ \E persist \in BOOLEAN, backend \in {"missing", "refuses", "stores"} : Persist(persist, backend)
BreakerSpec == BreakerInit /\ [][BreakerNext]_breakerVars

-----------------------------------------------------------------------------
(* Properties.                                                             *)

InCooldown(at) == question.now - at \in 0 .. breaker.open_duration_seconds - 1
IsLater(i, j) ==
  LET e == question.events IN e[j].at > e[i].at \/ (e[j].at = e[i].at /\ j > i)
NoneLater(i, types) ==
  \A j \in DOMAIN question.events :
    question.events[j].at <= question.now /\ IsLater(i, j) => question.events[j].type \notin types

\* A provider told to be unavailable, or to have failed as often as the threshold says, is left
\* alone for the whole cooldown if nothing else is told of it; it is refused for such a reason
\* alone, never longer (but where a caller supplies a closed door without its time); and nothing
\* is planned to persist while it is not closed.
RefusesForCause ==
  told # NoTale =>
    LET e == question.events
        Is(i, types) == e[i].type \in types /\ InCooldown(e[i].at)
        Burst(i) ==
          {j \in DOMAIN e : e[j].type \in FailureEvents /\ (j = i \/ IsLater(j, i))
                              /\ e[i].at - e[j].at <= breaker.window_seconds
                              /\ NoneLater(j, {"success", "manual_reset"})}
    IN  /\ (\E i \in DOMAIN e : Is(i, {"unavailable"}) /\ NoneLater(i, {"manual_reset"})) => ~told.allow
        /\ (\E i \in DOMAIN e : Is(i, FailureEvents) /\ Cardinality(Burst(i)) >= breaker.failure_threshold)
             => ~told.allow
        /\ ~told.allow /\ question.initial \notin {"open", "unavailable"} =>
             \E i \in DOMAIN e : Is(i, FailureEvents \cup {"unavailable"}) /\ NoneLater(i, {"manual_reset"})
        /\ planned.should_persist => told.state = "closed"
=============================================================================
