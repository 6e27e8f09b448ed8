---------------------------- MODULE EffectCircuit ----------------------------
(* The persistent circuit breaker of one capability, shared by all workers:  *)
(* circuit_preflight, circuit_failure, circuit_success and override_circuit  *)
(* of EffectGovernanceService (runtime/application/effect_governance.py)     *)
(* over circuit and set_circuit of SqlEffectGovernanceStore                  *)
(* (runtime/adapters/effect_store.py), called as execute and reconcile do.   *)
(*                                                                           *)
(* Every call reads the row, decides, and writes it back if its version is   *)
(* the one that was read.  A version only says whether the row was written   *)
(* since; that is what a call keeps here, instead of the number.             *)
EXTENDS Naturals

CONSTANTS
    Executors,     \* processes inside execute()
    Reconcilers,   \* processes inside reconcile(), which report success
    Operators,     \* processes inside override_circuit()
    Threshold,     \* circuit_failure_threshold
    MaxFailures,   \* bound: the counter of failures stops here
    MaxCrashes,    \* bound: calls that die
    MaxOverrides   \* bound: overrides

ASSUME ActorsAssumption ==
    /\ Executors \cap (Reconcilers \cup Operators) = {}
    /\ Reconcilers \cap Operators = {}
ASSUME ThresholdAssumption == Threshold \in Nat \ {0}
ASSUME BoundAssumption ==
    /\ MaxFailures \in Nat /\ MaxFailures >= Threshold
    /\ MaxCrashes \in Nat /\ MaxOverrides \in Nat

VARIABLES
    row,           \* agent_effect_circuits: the row of the capability
    due,           \* whether the retry_after of the row has passed
    lapsed,        \* whether the override_expires_at of the row has passed
    call,          \* where each process is and the copy of the row it holds
    healthy,       \* whether the external system answers
    crashes, overrides  \* bound counters

vars == <<row, due, lapsed, call, healthy, crashes, overrides>>
bounds == <<crashes, overrides>>

Calls == Executors \cup Reconcilers \cup Operators

Row == [stored : BOOLEAN, state : {"closed", "open", "half_open"},
        failures : 0..MaxFailures, override : BOOLEAN]

\* What circuit returns as long as there is no row.
Closed == [stored |-> FALSE, state |-> "closed", failures |-> 0, override |-> FALSE]

Place == {"idle", "probing", "dispatching", "failed", "failing", "raised",
          "succeeded", "succeeding", "overriding"}

Call == [at : Place, copy : Row, fresh : BOOLEAN, tries : 0..2]

\* A process that holds no copy of the row.
At(at, tries) == [at |-> at, copy |-> Closed, fresh |-> FALSE, tries |-> tries]

Idle == At("idle", 0)

Init ==
    /\ row = Closed /\ due = FALSE /\ lapsed = FALSE
    /\ call = [c \in Calls |-> Idle]
    /\ healthy = TRUE
    /\ crashes = 0 /\ overrides = 0

-----------------------------------------------------------------------------
(* Reading and writing the row.                                              *)

Goto(c, at) == call' = [call EXCEPT ![c] = At(at, 0)]

Read(c, at) ==
    call' = [call EXCEPT ![c] = [at |-> at, copy |-> row, fresh |-> TRUE,
                                 tries |-> call[c].tries]]

\* Mutant of the next definition: the version is not compared.
CanSetStale(c) == TRUE

CanSet(c) == call[c].fresh

\* set_circuit succeeds: every other copy is out of date.
Set(c, new, at) ==
    /\ CanSet(c)
    /\ row' = new
    /\ call' = [x \in Calls |-> IF x = c THEN At(at, 0)
                                ELSE [call[x] EXCEPT !.fresh = FALSE]]

\* A version conflict; without a row in the copy it may also be the primary
\* key that refuses a second first row.
Conflicts(c) == ~ CanSet(c)
DuplicateRow(c) == ~ CanSet(c) /\ ~ call[c].copy.stored

-----------------------------------------------------------------------------
(* What the calls write over the copy they read.                             *)

HalfOpened(copy) == [copy EXCEPT !.state = "half_open"]

Opens(copy) == copy.failures + 1 >= Threshold

Failed(copy) ==
    [copy EXCEPT
        !.stored = TRUE,
        !.failures = IF @ < MaxFailures THEN @ + 1 ELSE @,
        !.state = IF Opens(copy) THEN "open" ELSE @]

Succeeded == [Closed EXCEPT !.stored = TRUE]

Overridden(copy) == [copy EXCEPT !.stored = TRUE, !.override = TRUE]

-----------------------------------------------------------------------------
(* circuit_preflight, before a dispatch.                                     *)

OverrideActive == row.override /\ ~ lapsed

\* Mutant of the next definition: only the caller that half-opened it probes.
PassesClosed == row.state = "closed" \/ (row.state = "open" /\ ~ due /\ OverrideActive)

Passes == \/ row.state /= "open"
          \/ ~ due /\ OverrideActive

Preflight(e) ==
    /\ call[e].at = "idle"
    /\ \/ Passes /\ Goto(e, "dispatching")
       \/ row.state = "open" /\ due /\ Read(e, "probing")
    /\ UNCHANGED <<row, due, lapsed, healthy, bounds>>

HalfOpen(e) ==
    /\ call[e].at = "probing"
    /\ \/ Set(e, HalfOpened(call[e].copy), "dispatching")
       \/ Conflicts(e) /\ Goto(e, "idle") /\ UNCHANGED row
    /\ UNCHANGED <<due, lapsed, healthy, bounds>>

-----------------------------------------------------------------------------
(* The dispatch.  Not committed is reported neither as a failure nor as a    *)
(* success.                                                                  *)

Dispatch(e) ==
    /\ call[e].at = "dispatching"
    /\ \/ healthy /\ Goto(e, "succeeded")
       \/ ~ healthy /\ \E at \in {"succeeded", "failed", "idle"} : Goto(e, at)
    /\ UNCHANGED <<row, due, lapsed, healthy, bounds>>

(* circuit_failure: up to three tries.                                       *)

\* Mutant of the next definition: it tries for as long as it conflicts.
RetriesForever(e) == Conflicts(e)

Retries(e) == Conflicts(e) /\ call[e].tries < 2

ReadFailed(e) ==
    /\ call[e].at = "failed"
    /\ Read(e, "failing")
    /\ UNCHANGED <<row, due, lapsed, healthy, bounds>>

Failure(e) ==
    /\ call[e].at = "failing"
    /\ \/ /\ Set(e, Failed(call[e].copy), "idle")
          /\ due' = IF Opens(call[e].copy) THEN FALSE ELSE due
       \/ /\ Retries(e)
          /\ call' = [call EXCEPT ![e] = At("failed", call[e].tries + 1)]
          /\ UNCHANGED <<row, due>>
       \/ /\ DuplicateRow(e) \/ (Conflicts(e) /\ ~ Retries(e))
          /\ Goto(e, "raised")
          /\ UNCHANGED <<row, due>>
    /\ UNCHANGED <<lapsed, healthy, bounds>>

Raise(e) ==
    /\ call[e].at = "raised"
    /\ Goto(e, "idle")
    /\ UNCHANGED <<row, due, lapsed, healthy, bounds>>

(* circuit_success: one try.  It also ends the override.                     *)

ReadSucceeded(c) ==
    /\ call[c].at = "succeeded"
    /\ Read(c, "succeeding")
    /\ UNCHANGED <<row, due, lapsed, healthy, bounds>>

Success(c) ==
    /\ call[c].at = "succeeding"
    /\ \/ Set(c, Succeeded, "idle") /\ due' = FALSE /\ lapsed' = FALSE
       \/ Conflicts(c) /\ Goto(c, "idle") /\ UNCHANGED <<row, due, lapsed>>
    /\ UNCHANGED <<healthy, bounds>>

\* The end of reconcile: the circuit was not asked before.
Reconcile(c) ==
    /\ call[c].at = "idle"
    /\ Goto(c, "succeeded")
    /\ UNCHANGED <<row, due, lapsed, healthy, bounds>>

(* override_circuit: one try.                                                *)

ReadOverride(o) ==
    /\ call[o].at = "idle"
    /\ overrides < MaxOverrides
    /\ overrides' = overrides + 1
    /\ Read(o, "overriding")
    /\ UNCHANGED <<row, due, lapsed, healthy, crashes>>

Override(o) ==
    /\ call[o].at = "overriding"
    /\ \/ Set(o, Overridden(call[o].copy), "idle") /\ lapsed' = FALSE
       \/ Conflicts(o) /\ Goto(o, "idle") /\ UNCHANGED <<row, lapsed>>
    /\ UNCHANGED <<due, healthy, bounds>>

-----------------------------------------------------------------------------
(* Time, the external system, and processes that die.                        *)

CoolsDown ==
    /\ row.state = "open" /\ ~ due
    /\ due' = TRUE
    /\ UNCHANGED <<row, lapsed, call, healthy, bounds>>

Lapses ==
    /\ row.override /\ ~ lapsed
    /\ lapsed' = TRUE
    /\ UNCHANGED <<row, due, call, healthy, bounds>>

Breaks ==
    /\ healthy
    /\ healthy' = FALSE
    /\ UNCHANGED <<row, due, lapsed, call, bounds>>

Heals ==
    /\ ~ healthy
    /\ healthy' = TRUE
    /\ UNCHANGED <<row, due, lapsed, call, bounds>>

Dies(c) ==
    /\ call[c].at /= "idle"
    /\ crashes < MaxCrashes
    /\ crashes' = crashes + 1
    /\ Goto(c, "idle")
    /\ UNCHANGED <<row, due, lapsed, healthy, overrides>>

Executes(e) ==
    \/ Preflight(e) \/ HalfOpen(e) \/ Dispatch(e)
    \/ ReadFailed(e) \/ Failure(e) \/ Raise(e)
    \/ ReadSucceeded(e) \/ Success(e)

Reconciles(c) == Reconcile(c) \/ ReadSucceeded(c) \/ Success(c)

Overrides(o) == ReadOverride(o) \/ Override(o)

Next ==
    \/ \E e \in Executors : Executes(e)
    \/ \E c \in Reconcilers : Reconciles(c)
    \/ \E o \in Operators : Overrides(o)
    \/ \E c \in Calls : Dies(c)
    \/ CoolsDown \/ Lapses \/ Breaks \/ Heals

Spec == Init /\ [][Next]_vars

\* Writes keep being asked for, a call that runs goes on, and time passes.
Fairness ==
    /\ \A e \in Executors : WF_vars(Executes(e))
    /\ WF_vars(CoolsDown)

FairSpec == Spec /\ Fairness

-----------------------------------------------------------------------------
TypeOK ==
    /\ row \in Row
    /\ due \in BOOLEAN /\ lapsed \in BOOLEAN /\ healthy \in BOOLEAN
    /\ call \in [Calls -> Call]
    /\ crashes \in 0..MaxCrashes
    /\ overrides \in 0..MaxOverrides

(* Whoever wrote the row last, the state and the counter agree: a circuit is *)
(* closed exactly as long as its failures are below the threshold, so that   *)
(* one failure of a probe opens it again.                                    *)
StateMatchesFailures == row.state = "closed" <=> row.failures < Threshold

(* Two workers that fail at the same time are both counted: a report of a    *)
(* failure that returns has added one to the counter that is stored.         *)
FailuresAddUp ==
    [][\A e \in Executors :
            call[e].at = "failing" /\ call'[e].at = "idle" /\ crashes' = crashes
            => row'.failures = IF row.failures < MaxFailures THEN row.failures + 1
                                                             ELSE row.failures]_vars

(* Between two failures that opened the circuit it is probed only after the  *)
(* cooldown of the later one, also by a worker that read the earlier one.    *)
CooldownRespected ==
    [][row.state = "open" /\ row'.state = "half_open" => due]_vars

(* Once the external system stays well, the circuit closes and stays closed, *)
(* though a probe may die and reports may conflict.                          *)
Recovers == <>[]healthy => <>[](row.state = "closed")
=============================================================================
