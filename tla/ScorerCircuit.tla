---------------------------- MODULE ScorerCircuit ----------------------------
(***************************************************************************)
(* The circuit breaker of the pre-save scorer (ingestion/scorer.py).       *)
(*                                                                         *)
(* Every server process keeps two globals its threads share without a      *)
(* lock: the time until which the circuit is open, and the list of recent  *)
(* failures.  The row of the scorer in cb_circuit_state is shared by all   *)
(* processes and outlives them.  A call of score_content looks twice       *)
(* whether the circuit is open, asks the provider, and then records how it *)
(* went; each of these is several steps, with the steps of others and the  *)
(* clock between.  Scores, prompts and the parsing of answers are left     *)
(* out.                                                                    *)
(***************************************************************************)
EXTENDS Naturals, Sequences

CONSTANTS
  Processes, Threads,
  failure_threshold, window_seconds, open_duration_seconds,   \* policy.get_circuit_config
  MaxTime,    \* bound: ticks of the clock
  MaxCalls,   \* bound: calls of score_content
  MaxRestarts \* bound: restarts of a process

ASSUME CircuitAssumption ==
  /\ failure_threshold \in Nat \ {0} /\ window_seconds \in Nat \ {0} /\ open_duration_seconds \in Nat \ {0}

VARIABLES
  clock,
  home,      \* the process a thread belongs to
  memory,    \* _CIRCUIT_OPEN_UNTIL and _CIRCUIT_FAILURES of a process
  expires_at,\* of the row of the scorer, 0 while there is none
  call,      \* what a thread is doing
  past,      \* history: failures and the last success of a process since it started
  lastOpen,  \* history: when the circuit was last opened or its row written
  calls, restarts

circuitVars == <<clock, home, memory, expires_at, call, past, lastOpen, calls, restarts>>

Fresh == [until |-> 0, failures |-> <<>>]
NoPast == [failures |-> <<>>, success |-> 0]

\* look: the first or the second look; told: what its SELECT found, 0 for no row in force;
\* overwritten: another thread of the process wrote an earlier time since it took that over.
NoCall ==
  [step |-> "idle", records |-> TRUE, look |-> 1, list |-> <<>>, now |-> 0, circuit_open |-> FALSE, answer |-> "none",
   told |-> 0, overwritten |-> FALSE]

CircuitInit ==
  /\ clock = 1
  /\ home \in [Threads -> Processes]
  /\ memory = [p \in Processes |-> Fresh]
  /\ expires_at = 0
  /\ call = [t \in Threads |-> NoCall]
  /\ past = [p \in Processes |-> NoPast]
  /\ lastOpen = 0
  /\ calls = 0
  /\ restarts = 0

Begin(t, c, blank) ==
  /\ call[t].step \in {"idle", "answered"}
  /\ calls < MaxCalls
  /\ calls' = calls + 1
  /\ call' = [call EXCEPT ![t] = [c EXCEPT !.step = IF blank THEN "answered" ELSE "look",
                                           !.answer = IF blank THEN "empty_content" ELSE "none"]]
  /\ UNCHANGED <<clock, home, memory, expires_at, past, lastOpen, restarts>>

\* score_content; blank content asks nobody.
ScoreContent(t, blank) == Begin(t, NoCall, blank)

\* annotate asks the same provider, looks once, and records nothing.
Annotate(t, blank) == Begin(t, [NoCall EXCEPT !.records = FALSE, !.look = 2], blank)

-----------------------------------------------------------------------------
(* _is_circuit_open.                                                       *)

ClosedInMemory(t) == clock >= memory[home[t]].until

\* What a look leads to: the first is only told in the event, the second decides.
Looked(c, open) ==
  CASE c.look = 1 -> [c EXCEPT !.step = "look", !.look = 2, !.circuit_open = open]
    [] c.look = 2 /\ open -> [c EXCEPT !.step = "answered", !.answer = "circuit_open", !.circuit_open = TRUE]
    [] OTHER -> [c EXCEPT !.step = "send"]

Look(t) ==
  /\ call[t].step = "look"
  /\ call' = [call EXCEPT ![t] =
                LET c == [@ EXCEPT !.told = 0, !.overwritten = FALSE]
                IN  IF ClosedInMemory(t) THEN [c EXCEPT !.step = "sync"] ELSE Looked(c, TRUE)]
  /\ UNCHANGED <<clock, home, memory, expires_at, past, lastOpen, calls, restarts>>

\* The row counts while expires_at > NOW(); a read that fails changes nothing.
SelectRow(t) ==
  /\ call[t].step = "sync"
  /\ \/ expires_at > clock /\ call' = [call EXCEPT ![t].step = "take", ![t].told = expires_at]
     \/ call' = [call EXCEPT ![t].step = "again"]
  /\ UNCHANGED <<clock, home, memory, expires_at, past, lastOpen, calls, restarts>>

\* The others of the process find until there when they look again.
WriteUntil(t, until, step) ==
  /\ memory' = [memory EXCEPT ![home[t]].until = until]
  /\ call' = [u \in Threads |->
                CASE u = t -> [call[t] EXCEPT !.step = step]
                  [] u # t /\ home[u] = home[t] /\ until < call[u].told -> [call[u] EXCEPT !.overwritten = TRUE]
                  [] OTHER -> call[u]]

\* Defect: the row is not taken over.
TakeRow_Forget(t) ==
  /\ call[t].step = "take"
  /\ WriteUntil(t, memory[home[t]].until, "again")
  /\ UNCHANGED <<clock, home, expires_at, past, lastOpen, calls, restarts>>

TakeRow(t) ==
  /\ call[t].step = "take"
  /\ WriteUntil(t, call[t].told, "again")
  /\ UNCHANGED <<clock, home, expires_at, past, lastOpen, calls, restarts>>

LookAgain(t) ==
  /\ call[t].step = "again"
  /\ call' = [call EXCEPT ![t] = Looked(@, ~ClosedInMemory(t))]
  /\ UNCHANGED <<clock, home, memory, expires_at, past, lastOpen, calls, restarts>>

-----------------------------------------------------------------------------
(* score: the call of the provider, and what is recorded of it.            *)

\* An answer; a failure that may pass or an exception; a failure that asking again would not
\* mend; no provider at all.
Send(t) ==
  /\ call[t].step = "send"
  /\ \E how \in {"success", "failure", "permanent", "no_api_key"} :
       call' = [call EXCEPT ![t].step = IF call[t].records /\ how \in {"success", "failure"} THEN how ELSE "answered",
                            ![t].answer = CASE how = "success" -> "scored"
                                            [] how = "no_api_key" -> "no_api_key"
                                            [] OTHER -> "api_error",
                            ![t].circuit_open = @ \/ how # "success"]
  /\ UNCHANGED <<clock, home, memory, expires_at, past, lastOpen, calls, restarts>>

\* _record_success: the list first, then the time; the row stays.
ForgetFailures(t) ==
  /\ call[t].step = "success"
  /\ memory' = [memory EXCEPT ![home[t]].failures = <<>>]
  /\ past' = [past EXCEPT ![home[t]] = [failures |-> @.failures, success |-> Len(@.failures)]]
  /\ call' = [call EXCEPT ![t].step = "close"]
  /\ UNCHANGED <<clock, home, expires_at, lastOpen, calls, restarts>>
CloseInMemory(t) ==
  /\ call[t].step = "close"
  /\ WriteUntil(t, 0, "answered")
  /\ UNCHANGED <<clock, home, expires_at, past, lastOpen, calls, restarts>>

\* The failures of a list that are in the window.
Within(failures, now) ==
  LET kept[i \in 0 .. Len(failures)] ==
        IF i = 0 THEN <<>>
        ELSE IF now - failures[i] < window_seconds THEN Append(kept[i - 1], failures[i]) ELSE kept[i - 1]
  IN  kept[Len(failures)]

\* _record_failure: a list of what is left of the window, which replaces the global one, which
\* the failure is then put at the end of; the global one may be another by then.
FilterFailures(t) ==
  /\ call[t].step = "failure"
  /\ call' = [call EXCEPT ![t].step = "bind", ![t].now = clock,
                          ![t].list = Within(memory[home[t]].failures, clock)]
  /\ UNCHANGED <<clock, home, memory, expires_at, past, lastOpen, calls, restarts>>
BindFailures(t) ==
  /\ call[t].step = "bind"
  /\ memory' = [memory EXCEPT ![home[t]].failures = call[t].list]
  /\ call' = [call EXCEPT ![t].step = "append", ![t].list = <<>>]
  /\ UNCHANGED <<clock, home, expires_at, past, lastOpen, calls, restarts>>
AppendFailure(t) ==
  /\ call[t].step = "append"
  /\ memory' = [memory EXCEPT ![home[t]].failures = Append(@, call[t].now)]
  /\ past' = [past EXCEPT ![home[t]].failures = Append(@, call[t].now)]
  /\ call' = [call EXCEPT ![t].step = "count", ![t].now = 0]
  /\ UNCHANGED <<clock, home, expires_at, lastOpen, calls, restarts>>

\* Defect: one failure less will do.
CountFailures_OneLess(t) ==
  /\ call[t].step = "count"
  /\ call' = [call EXCEPT ![t].step = IF Len(memory[home[t]].failures) + 1 >= failure_threshold THEN "open" ELSE "answered"]
  /\ UNCHANGED <<clock, home, memory, expires_at, past, lastOpen, calls, restarts>>

CountFailures(t) ==
  /\ call[t].step = "count"
  /\ call' = [call EXCEPT ![t].step = IF Len(memory[home[t]].failures) >= failure_threshold THEN "open" ELSE "answered"]
  /\ UNCHANGED <<clock, home, memory, expires_at, past, lastOpen, calls, restarts>>

\* _open_circuit: the list stays as it is.
OpenCircuit(t) ==
  /\ call[t].step = "open"
  /\ WriteUntil(t, clock + open_duration_seconds, "persist")
  /\ lastOpen' = clock
  /\ UNCHANGED <<clock, home, expires_at, past, calls, restarts>>

\* The row is written anew, or could not be written.
PersistCircuit(t) ==
  /\ call[t].step = "persist"
  /\ \/ expires_at' = clock + open_duration_seconds /\ lastOpen' = clock
     \/ UNCHANGED <<expires_at, lastOpen>>
  /\ call' = [call EXCEPT ![t].step = "answered"]
  /\ UNCHANGED <<clock, home, memory, past, calls, restarts>>

-----------------------------------------------------------------------------
Tick ==
  /\ clock < MaxTime
  /\ clock' = clock + 1
  /\ UNCHANGED <<home, memory, expires_at, call, past, lastOpen, calls, restarts>>

\* A process that starts anew knows nothing, and its calls are gone.
Restart(p) ==
  /\ restarts < MaxRestarts
  /\ restarts' = restarts + 1
  /\ memory' = [memory EXCEPT ![p] = Fresh]
  /\ past' = [past EXCEPT ![p] = NoPast]
  /\ call' = [t \in Threads |-> IF home[t] = p THEN NoCall ELSE call[t]]
  /\ UNCHANGED <<clock, home, expires_at, lastOpen, calls>>

ThreadStep(t) ==
  \/ (\E blank \in BOOLEAN : ScoreContent(t, blank) \/ Annotate(t, blank))
  \/ Look(t) \/ SelectRow(t) \/ TakeRow(t) \/ LookAgain(t) \/ Send(t)
  \/ ForgetFailures(t) \/ CloseInMemory(t)
  \/ FilterFailures(t) \/ BindFailures(t) \/ AppendFailure(t) \/ CountFailures(t)
  \/ OpenCircuit(t) \/ PersistCircuit(t)

CircuitNext == (\E t \in Threads : ThreadStep(t)) \/ Tick \/ (\E p \in Processes : Restart(p))
CircuitSpec == CircuitInit /\ [][CircuitNext]_circuitVars

-----------------------------------------------------------------------------
(* Properties.                                                             *)

\* A row in force stops every call that reads it, in any process, restarted or not, unless another
\* thread of the process writes an earlier time before it looks again; and nobody is refused longer
\* than the circuit stays open after it was last opened ("Circuit state is DB-backed").
OpenIsRespected ==
  /\ \A t \in Threads : call[t].step = "send" => call[t].told <= clock \/ call[t].overwritten
  /\ \A p \in Processes : memory[p].until <= lastOpen + open_duration_seconds

Alone(t) == \A u \in Threads : home[u] = home[t] => u = t

\* Lists that threads take from each other may lose failures but never make any: a process that
\* opens the circuit had as many failures as the threshold asks; with one thread, within the
\* window and since its last success (_record_failure).
OpensForCause ==
  \A t \in Threads :
    call[t].step \in {"open", "persist"} =>
      LET all == past[home[t]].failures
          since == SubSeq(all, past[home[t]].success + 1, Len(all))
          counts == IF Alone(t) THEN since ELSE all
      IN  /\ Len(counts) >= failure_threshold
          /\ Alone(t) => Len(Within(since, since[Len(since)])) >= failure_threshold
=============================================================================
