--------------------------- MODULE EffectDispatch ---------------------------
(* Write-ahead dispatch of an external write and its reconciliation:         *)
(* EffectGovernanceService.execute, reconcile and recover_orphan over the    *)
(* rows that SqlEffectGovernanceStore keeps (runtime/application/            *)
(* effect_governance.py, runtime/adapters/effect_store.py).                  *)
(*                                                                           *)
(* Every read and every compare-and-set is a database transaction of its     *)
(* own, so the steps between them interleave freely: several workers may     *)
(* execute, reconcile and recover the same intent.  An executor or a         *)
(* reconciler works on the copies of the rows it read.  The circuit breaker  *)
(* is here only as a call that may raise; EffectCircuit models it.           *)
EXTENDS Naturals, FiniteSets

CONSTANTS
    Intents,       \* dispatch intents (one tool call each)
    Executors,     \* processes inside execute()
    Reconcilers,   \* processes inside reconcile() or recover_orphan()
    ManualOnly,    \* intents whose reconciliation policy is manual_only
    NoIntent       \* the intent of an idle process

ASSUME ManualOnlyAssumption == ManualOnly \subseteq Intents
ASSUME NoIntentAssumption == NoIntent \notin Intents

VARIABLES
    intent,        \* agent_dispatch_intents: status, external operation id
    call,          \* agent_tool_calls: status, operation id, outcome
    executor,      \* the processes inside execute() with the rows they hold
    reconciler,    \* the processes inside reconcile()
    dispatches,    \* how often adapter.dispatch was called for the intent
    wire,          \* requests handed to the adapter, neither landed nor lost
    landed         \* requests that took effect in the external system

vars == <<intent, call, executor, reconciler, dispatches, wire, landed>>

-----------------------------------------------------------------------------
(* The rows.                                                                 *)

CallStatus == {"none", "prepared", "dispatched", "acknowledged", "succeeded",
               "failed", "timed_out", "effect_unknown", "reconciled"}
IntentStatus == {"none", "prepared", "dispatched", "acknowledged", "terminal",
                 "effect_unknown", "reconciled"}
Outcome == {"", "committed", "not_committed"}

CallRow == [status : CallStatus, op : BOOLEAN, outcome : Outcome]
IntentRow == [status : IntentStatus, op : BOOLEAN]

NoCall == [status |-> "none", op |-> FALSE, outcome |-> ""]
NoIntentRow == [status |-> "none", op |-> FALSE]

Uncertain == {"dispatched", "timed_out", "effect_unknown"}
Settled == {"succeeded", "failed", "reconciled"}

\* The table at the head of _transition.
Allowed(status) ==
    CASE status = "prepared"       -> {"dispatched"}
      [] status = "dispatched"     -> {"acknowledged", "failed", "timed_out",
                                       "effect_unknown", "reconciled"}
      [] status = "timed_out"      -> {"effect_unknown", "reconciled"}
      [] status = "effect_unknown" -> {"reconciled"}
      [] status = "acknowledged"   -> {"succeeded"}
      [] OTHER                     -> {}

\* Mutant of the next definition: the store does not compare.
CanWriteUnguarded(mine, status) == status \in Allowed(mine.call.status)

(* _transition: the table is consulted on the caller's copy of the call, and *)
(* set_dispatch writes both rows only if the stored call still has the       *)
(* status of that copy.                                                      *)
CanWrite(mine, status) ==
    /\ status \in Allowed(mine.call.status)
    /\ call[mine.intent].status = mine.call.status

NextCall(mine, status, op, outcome) ==
    [status  |-> status,
     op      |-> op \/ mine.call.op,
     outcome |-> IF outcome = "" THEN mine.call.outcome ELSE outcome]

Write(mine, status, intentStatus, op, outcome) ==
    /\ CanWrite(mine, status)
    /\ call' = [call EXCEPT ![mine.intent] =
                    NextCall(mine, status, op, outcome)]
    /\ intent' = [intent EXCEPT ![mine.intent] =
                    [status |-> intentStatus, op |-> op \/ mine.row.op]]

(* A process: where it is, its intent, and the copies it holds of the        *)
(* intent row and of the call row.                                           *)
ExecutorAt == {"idle", "loaded", "marked", "calling", "acked", "timeout",
               "refused", "error", "acknowledged", "timed_out"}
ReconcilerAt == {"idle", "acknowledged", "asking", "committed",
                 "not_committed", "unknown"}

Process(places) == [at : places, intent : Intents \cup {NoIntent},
                    row : IntentRow, call : CallRow]

Idle == [at |-> "idle", intent |-> NoIntent, row |-> NoIntentRow, call |-> NoCall]

Holding(place, i) == [at |-> place, intent |-> i, row |-> intent[i], call |-> call[i]]
-----------------------------------------------------------------------------
Init ==
    /\ intent = [i \in Intents |-> NoIntentRow]
    /\ call = [i \in Intents |-> NoCall]
    /\ executor = [e \in Executors |-> Idle]
    /\ reconciler = [r \in Reconcilers |-> Idle]
    /\ dispatches = [i \in Intents |-> 0]
    /\ wire = [i \in Intents |-> 0]
    /\ landed = [i \in Intents |-> 0]

(* create_dispatch adds both rows in one transaction.                        *)
Prepare(i) ==
    /\ call[i].status = "none"
    /\ call' = [call EXCEPT ![i].status = "prepared"]
    /\ intent' = [intent EXCEPT ![i].status = "prepared"]
    /\ UNCHANGED <<executor, reconciler, dispatches, wire, landed>>

-----------------------------------------------------------------------------
(* execute().  A settled call is returned and an uncertain one refused       *)
(* without touching anything, so only the other two are loaded.              *)

Load(e, i) ==
    /\ executor[e].at = "idle"
    /\ call[i].status \in {"prepared", "acknowledged"}
    /\ executor' = [executor EXCEPT ![e] =
            Holding(IF call[i].status = "prepared" THEN "loaded"
                    ELSE "acknowledged", i)]
    /\ UNCHANGED <<intent, call, reconciler, dispatches, wire, landed>>

(* The write-ahead mark, after circuit_preflight let the call pass.          *)
MarkDispatched(e) ==
    /\ executor[e].at = "loaded"
    /\ Write(executor[e], "dispatched", "dispatched", FALSE, "")
    /\ executor' = [executor EXCEPT ![e].at = "marked"]
    /\ UNCHANGED <<reconciler, dispatches, wire, landed>>

(* The rows are read again, whatever they say by now, and the request goes   *)
(* out: no status is looked at between the mark and adapter.dispatch.        *)
CallAdapter(e) ==
    LET i == executor[e].intent IN
    /\ executor[e].at = "marked"
    /\ executor' = [executor EXCEPT ![e] = Holding("calling", i)]
    /\ dispatches' = [dispatches EXCEPT ![i] = @ + 1]
    /\ wire' = [wire EXCEPT ![i] = @ + 1]
    /\ UNCHANGED <<intent, call, reconciler, landed>>

(* What adapter.dispatch may do: return an acknowledgement of an effect      *)
(* that landed, raise EffectNotCommitted when it knows there is and will be  *)
(* none, or raise TimeoutError or anything else at any moment.               *)
AdapterReturns(e, result) ==
    LET i == executor[e].intent IN
    /\ executor[e].at = "calling"
    /\ \/ result = "acked" /\ landed[i] > 0
       \/ result = "refused" /\ landed[i] = 0 /\ wire[i] = 0
       \/ result \in {"timeout", "error"}
    /\ executor' = [executor EXCEPT ![e].at = result]
    /\ UNCHANGED <<intent, call, reconciler, dispatches, wire, landed>>

(* The acknowledged call goes into the executor's copy; its copy of the      *)
(* intent stays the one read before the request went out.                    *)
PersistAck(e) ==
    /\ executor[e].at = "acked"
    /\ Write(executor[e], "acknowledged", "acknowledged", TRUE, "")
    /\ executor' = [executor EXCEPT ![e].at = "acknowledged",
            ![e].call = NextCall(executor[e], "acknowledged", TRUE, "")]
    /\ UNCHANGED <<reconciler, dispatches, wire, landed>>

(* After circuit_success, or when an acknowledged call is executed again.    *)
PersistSucceeded(e) ==
    /\ executor[e].at = "acknowledged"
    /\ Write(executor[e], "succeeded", "terminal", FALSE, "")
    /\ executor' = [executor EXCEPT ![e] = Idle]
    /\ UNCHANGED <<reconciler, dispatches, wire, landed>>

\* Mutant: the intent row takes the status of the call.
PersistTimedOutVerbatim(e) ==
    /\ executor[e].at = "timeout"
    /\ Write(executor[e], "timed_out", "timed_out", FALSE, "")
    /\ executor' = [executor EXCEPT ![e].at = "timed_out",
            ![e].call = NextCall(executor[e], "timed_out", FALSE, "")]
    /\ UNCHANGED <<reconciler, dispatches, wire, landed>>

PersistTimedOut(e) ==
    /\ executor[e].at = "timeout"
    /\ Write(executor[e], "timed_out", "effect_unknown", FALSE, "")
    /\ executor' = [executor EXCEPT ![e].at = "timed_out",
            ![e].call = NextCall(executor[e], "timed_out", FALSE, "")]
    /\ UNCHANGED <<reconciler, dispatches, wire, landed>>

(* After circuit_failure, on a timeout and on any other exception.           *)
PersistUnknown(e) ==
    /\ executor[e].at \in {"timed_out", "error"}
    /\ Write(executor[e], "effect_unknown", "effect_unknown", FALSE, "")
    /\ executor' = [executor EXCEPT ![e] = Idle]
    /\ UNCHANGED <<reconciler, dispatches, wire, landed>>

\* Mutant: a timeout is taken for a refusal.
PersistFailedOnTimeout(e) ==
    /\ executor[e].at \in {"refused", "timeout"}
    /\ Write(executor[e], "failed", "terminal", FALSE, "")
    /\ executor' = [executor EXCEPT ![e] = Idle]
    /\ UNCHANGED <<reconciler, dispatches, wire, landed>>

PersistFailed(e) ==
    /\ executor[e].at = "refused"
    /\ Write(executor[e], "failed", "terminal", FALSE, "")
    /\ executor' = [executor EXCEPT ![e] = Idle]
    /\ UNCHANGED <<reconciler, dispatches, wire, landed>>

(* The executor ends where it stands: the process crashed, the circuit       *)
(* raised (open, or a version conflict), an audit insert collided, or        *)
(* _transition raised because the call moved on.  What it sent stays sent.   *)
Abandon(e) ==
    /\ executor[e].at /= "idle"
    /\ executor' = [executor EXCEPT ![e] = Idle]
    /\ UNCHANGED <<intent, call, reconciler, dispatches, wire, landed>>

-----------------------------------------------------------------------------
(* reconcile() and recover_orphan().                                         *)

(* recover_orphan finishes an acknowledged call ...                          *)
RecoverAcknowledged(r, i) ==
    /\ reconciler[r].at = "idle"
    /\ call[i].status = "acknowledged"
    /\ reconciler' = [reconciler EXCEPT ![r] = Holding("acknowledged", i)]
    /\ UNCHANGED <<intent, call, executor, dispatches, wire, landed>>

(* ... and reconciles an uncertain one, as an operator's reconcile does.     *)
BeginReconcile(r, i) ==
    /\ reconciler[r].at = "idle"
    /\ call[i].status \in Uncertain
    /\ reconciler' = [reconciler EXCEPT ![r] = Holding("asking", i)]
    /\ UNCHANGED <<intent, call, executor, dispatches, wire, landed>>

(* The answer is about this moment: a request still on the wire is not yet   *)
(* an effect.  manual_only intents never ask the adapter.                    *)
Resolution(r, outcome) ==
    LET i == reconciler[r].intent IN
    \/ outcome = "unknown"
    \/ i \notin ManualOnly /\ outcome = "committed" /\ landed[i] > 0
    \/ i \notin ManualOnly /\ outcome = "not_committed" /\ landed[i] = 0

AskAdapter(r, outcome) ==
    /\ reconciler[r].at = "asking"
    /\ Resolution(r, outcome)
    /\ reconciler' = [reconciler EXCEPT ![r].at = outcome]
    /\ UNCHANGED <<intent, call, executor, dispatches, wire, landed>>

PersistReconciled(r, outcome) ==
    /\ outcome \in {"committed", "not_committed"}
    /\ reconciler[r].at = outcome
    /\ Write(reconciler[r], "reconciled", "reconciled",
             outcome = "committed", outcome)
    /\ reconciler' = [reconciler EXCEPT ![r] = Idle]
    /\ UNCHANGED <<executor, dispatches, wire, landed>>

PersistStillUnknown(r) ==
    /\ reconciler[r].at = "unknown"
    /\ Write(reconciler[r], "effect_unknown", "effect_unknown", FALSE, "")
    /\ reconciler' = [reconciler EXCEPT ![r] = Idle]
    /\ UNCHANGED <<executor, dispatches, wire, landed>>

PersistRecovered(r) ==
    /\ reconciler[r].at = "acknowledged"
    /\ Write(reconciler[r], "succeeded", "terminal", FALSE, "")
    /\ reconciler' = [reconciler EXCEPT ![r] = Idle]
    /\ UNCHANGED <<executor, dispatches, wire, landed>>

(* Crash, conflict, or a call that was effect_unknown already.               *)
AbandonReconcile(r) ==
    /\ reconciler[r].at /= "idle"
    /\ reconciler' = [reconciler EXCEPT ![r] = Idle]
    /\ UNCHANGED <<intent, call, executor, dispatches, wire, landed>>

-----------------------------------------------------------------------------
(* The external system: a request takes effect or is lost, in its own time,  *)
(* also after the executor stopped waiting for it.                           *)

Land(i) ==
    /\ wire[i] > 0
    /\ wire' = [wire EXCEPT ![i] = @ - 1]
    /\ landed' = [landed EXCEPT ![i] = @ + 1]
    /\ UNCHANGED <<intent, call, executor, reconciler, dispatches>>

Lose(i) ==
    /\ wire[i] > 0
    /\ wire' = [wire EXCEPT ![i] = @ - 1]
    /\ UNCHANGED <<intent, call, executor, reconciler, dispatches, landed>>

-----------------------------------------------------------------------------
ExecutorStep(e) ==
    \/ \E i \in Intents : Load(e, i)
    \/ MarkDispatched(e)
    \/ CallAdapter(e)
    \/ \E result \in {"acked", "timeout", "refused", "error"} :
            AdapterReturns(e, result)
    \/ PersistAck(e)
    \/ PersistSucceeded(e)
    \/ PersistTimedOut(e)
    \/ PersistUnknown(e)
    \/ PersistFailed(e)
    \/ Abandon(e)

ReconcilerStep(r) ==
    \/ \E i \in Intents : RecoverAcknowledged(r, i) \/ BeginReconcile(r, i)
    \/ \E outcome \in {"committed", "not_committed", "unknown"} :
            AskAdapter(r, outcome) \/ PersistReconciled(r, outcome)
    \/ PersistStillUnknown(r)
    \/ PersistRecovered(r)
    \/ AbandonReconcile(r)

Next ==
    \/ \E i \in Intents : Prepare(i) \/ Land(i) \/ Lose(i)
    \/ \E e \in Executors : ExecutorStep(e)
    \/ \E r \in Reconcilers : ReconcilerStep(r)

Spec == Init /\ [][Next]_vars

-----------------------------------------------------------------------------
TypeOK ==
    /\ intent \in [Intents -> IntentRow]
    /\ call \in [Intents -> CallRow]
    /\ executor \in [Executors -> Process(ExecutorAt)]
    /\ reconciler \in [Reconcilers -> Process(ReconcilerAt)]
    /\ dispatches \in [Intents -> Nat]
    /\ wire \in [Intents -> Nat]
    /\ landed \in [Intents -> Nat]
    /\ \A e \in Executors : executor[e].at /= "idle" => executor[e].intent \in Intents
    /\ \A r \in Reconcilers : reconciler[r].at /= "idle" => reconciler[r].intent \in Intents

(* No sequence of executions, crashes, retries and recoveries hands the      *)
(* same intent to the adapter twice ("a dispatched write cannot be retried   *)
(* before reconciliation", and never after it either).                       *)
AtMostOneDispatch == \A i \in Intents : dispatches[i] <= 1

(* The adapter is called only for a call that was durably marked before.     *)
WriteAhead ==
    \A i \in Intents : call[i].status \in {"none", "prepared"} => dispatches[i] = 0

(* A settled call tells what happened outside: succeeded and committed mean  *)
(* the write took effect, failed that it did not and will not.               *)
SettledTruth ==
    \A i \in Intents :
        /\ call[i].status \in {"acknowledged", "succeeded"} => landed[i] = 1
        /\ call[i].outcome = "committed" => landed[i] = 1
        /\ call[i].status = "failed" => landed[i] = 0 /\ wire[i] = 0

(* Writers hold copies of the intent row that go stale, yet the two rows of  *)
(* a dispatch never disagree on where it is.                                 *)
Mirror(status) ==
    CASE status \in {"succeeded", "failed"}         -> "terminal"
      [] status \in {"timed_out", "effect_unknown"} -> "effect_unknown"
      [] OTHER                                      -> status

RowsAgree == \A i \in Intents : intent[i].status = Mirror(call[i].status)

(* What the code's documents say and the code does not do.  A write that     *)
(* reconciliation settled as not_committed did not happen.                   *)
NotCommittedHolds ==
    \A i \in Intents : call[i].outcome = "not_committed" => landed[i] = 0

(* The dispatch intent keeps the external operation id of its call.          *)
IntentKeepsOperationId == \A i \in Intents : call[i].op => intent[i].op

-----------------------------------------------------------------------------
(* The promise to the outside: EffectDispatch implements OneShotWrite.       *)
PhaseOf(status) ==
    CASE status = "none"     -> "unknown"
      [] status = "prepared" -> "registered"
      [] status \in Settled  -> "closed"
      [] OTHER               -> "claimed"

OneShot == INSTANCE OneShotWrite WITH
    Writes <- Intents,
    phase <- [i \in Intents |-> PhaseOf(call[i].status)],
    sent <- dispatches,
    effects <- landed

ImplementsOneShotWrite == OneShot!Spec
=============================================================================
