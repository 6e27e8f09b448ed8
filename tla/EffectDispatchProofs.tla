------------------------ MODULE EffectDispatchProofs ------------------------
(* What EffectDispatch guarantees for any number of intents, executors and   *)
(* reconcilers: types, at most one dispatch per intent, and that a settled   *)
(* call tells the truth.                                                     *)
EXTENDS EffectDispatch, TLAPS

-----------------------------------------------------------------------------
(* Lemmas about the operators the actions are built from.                    *)

(* The transition table stays inside the statuses, never leads back before   *)
(* the write-ahead mark, and never leaves a settled status.                  *)
LEMMA AllowedTyped ==
    ASSUME NEW old, NEW new \in Allowed(old)
    PROVE  /\ new \in CallStatus
           /\ new \notin {"none", "prepared"}
           /\ old \in CallStatus
           /\ old \notin Settled
           /\ old /= "none"
           /\ new = "dispatched" <=> old = "prepared"
  BY DEF Allowed, CallStatus, Settled

(* A row that a typed process writes is a typed row.                         *)
LEMMA WriteTyped ==
    ASSUME TypeOK,
           NEW mine, mine.intent \in Intents, mine.row \in IntentRow,
           mine.call \in CallRow,
           NEW status, NEW row \in IntentStatus, NEW op \in BOOLEAN,
           NEW outcome \in Outcome,
           Write(mine, status, row, op, outcome)
    PROVE  /\ intent' \in [Intents -> IntentRow]
           /\ call' \in [Intents -> CallRow]
           /\ NextCall(mine, status, op, outcome) \in CallRow
  <1>1. status \in CallStatus
    BY AllowedTyped DEF Write, CanWrite
  <1>2. NextCall(mine, status, op, outcome) \in CallRow
    BY <1>1 DEF NextCall, CallRow, Outcome
  <1>3. [status |-> row, op |-> op \/ mine.row.op] \in IntentRow
    BY DEF IntentRow
  <1> QED
    BY <1>2, <1>3 DEF Write, TypeOK

(* Idle and Holding make typed processes.                                    *)
LEMMA ProcessTyped ==
    ASSUME TypeOK, NEW places, "idle" \in places
    PROVE  /\ Idle \in Process(places)
           /\ \A place \in places, i \in Intents : Holding(place, i) \in Process(places)
  BY DEF Idle, Holding, Process, TypeOK, NoIntentRow, NoCall, IntentRow, CallRow,
         IntentStatus, CallStatus, Outcome

-----------------------------------------------------------------------------
(* Type correctness.                                                         *)

LEMMA InitTyped == Init => TypeOK
  <1> SUFFICES ASSUME Init PROVE TypeOK
    OBVIOUS
  <1>1. NoIntentRow \in IntentRow /\ NoCall \in CallRow
    BY DEF NoIntentRow, NoCall, IntentRow, CallRow, IntentStatus, CallStatus, Outcome
  <1>2. Idle \in Process(ExecutorAt) /\ Idle \in Process(ReconcilerAt) /\ Idle.at = "idle"
    BY <1>1 DEF Idle, Process, ExecutorAt, ReconcilerAt
  <1> QED
    BY <1>1, <1>2 DEF Init, TypeOK

LEMMA ExecutorTyped ==
    ASSUME TypeOK, NEW e \in Executors, ExecutorStep(e)
    PROVE  TypeOK'
  <1> DEFINE me == executor[e]
  <1>0. me \in Process(ExecutorAt) /\ (me.at /= "idle" => me.intent \in Intents)
    BY DEF TypeOK
  <1>a. /\ Idle \in Process(ExecutorAt)
        /\ \A place \in ExecutorAt, i \in Intents : Holding(place, i) \in Process(ExecutorAt)
    BY ProcessTyped DEF ExecutorAt
  <1>b. Idle.at = "idle" /\ (\A place, i : Holding(place, i).intent = i)
    BY DEF Idle, Holding
  <1>1. ASSUME NEW i \in Intents, Load(e, i) PROVE TypeOK'
    <2>1. \E place \in ExecutorAt : executor' = [executor EXCEPT ![e] = Holding(place, i)]
      BY <1>1 DEF Load, ExecutorAt
    <2> QED
      BY <1>1, <2>1, <1>a, <1>b DEF Load, TypeOK
  <1>2. CASE MarkDispatched(e)
    <2>1. intent' \in [Intents -> IntentRow] /\ call' \in [Intents -> CallRow]
      BY <1>2, <1>0, WriteTyped DEF MarkDispatched, Process, IntentStatus, Outcome
    <2> QED
      BY <1>2, <2>1 DEF MarkDispatched, TypeOK, Process, ExecutorAt
  <1>3. CASE CallAdapter(e)
    <2>1. Holding("calling", me.intent) \in Process(ExecutorAt)
      BY <1>3, <1>0, <1>a DEF CallAdapter, ExecutorAt
    <2> QED
      BY <1>3, <1>0, <2>1, <1>b DEF CallAdapter, TypeOK
  <1>4. ASSUME NEW result \in {"acked", "timeout", "refused", "error"},
               AdapterReturns(e, result)
        PROVE  TypeOK'
    BY <1>4 DEF AdapterReturns, TypeOK, Process, ExecutorAt
  <1>5. CASE PersistAck(e)
    <2>1. /\ intent' \in [Intents -> IntentRow] /\ call' \in [Intents -> CallRow]
          /\ NextCall(me, "acknowledged", TRUE, "") \in CallRow
      BY <1>5, <1>0, WriteTyped DEF PersistAck, Process, IntentStatus, Outcome
    <2> QED
      BY <1>5, <2>1 DEF PersistAck, TypeOK, Process, ExecutorAt
  <1>6. CASE PersistSucceeded(e)
    <2>1. intent' \in [Intents -> IntentRow] /\ call' \in [Intents -> CallRow]
      BY <1>6, <1>0, WriteTyped DEF PersistSucceeded, Process, IntentStatus, Outcome
    <2> QED
      BY <1>6, <2>1, <1>a, <1>b DEF PersistSucceeded, TypeOK
  <1>7. CASE PersistTimedOut(e)
    <2>1. /\ intent' \in [Intents -> IntentRow] /\ call' \in [Intents -> CallRow]
          /\ NextCall(me, "timed_out", FALSE, "") \in CallRow
      BY <1>7, <1>0, WriteTyped DEF PersistTimedOut, Process, IntentStatus, Outcome
    <2> QED
      BY <1>7, <2>1 DEF PersistTimedOut, TypeOK, Process, ExecutorAt
  <1>8. CASE PersistUnknown(e)
    <2>1. intent' \in [Intents -> IntentRow] /\ call' \in [Intents -> CallRow]
      BY <1>8, <1>0, WriteTyped DEF PersistUnknown, Process, IntentStatus, Outcome
    <2> QED
      BY <1>8, <2>1, <1>a, <1>b DEF PersistUnknown, TypeOK
  <1>9. CASE PersistFailed(e)
    <2>1. intent' \in [Intents -> IntentRow] /\ call' \in [Intents -> CallRow]
      BY <1>9, <1>0, WriteTyped DEF PersistFailed, Process, IntentStatus, Outcome
    <2> QED
      BY <1>9, <2>1, <1>a, <1>b DEF PersistFailed, TypeOK
  <1>10. CASE Abandon(e)
    BY <1>10, <1>a, <1>b DEF Abandon, TypeOK
  <1> QED
    BY <1>1, <1>2, <1>3, <1>4, <1>5, <1>6, <1>7, <1>8, <1>9, <1>10 DEF ExecutorStep

LEMMA ReconcilerTyped ==
    ASSUME TypeOK, NEW r \in Reconcilers, ReconcilerStep(r)
    PROVE  TypeOK'
  <1> DEFINE me == reconciler[r]
  <1>0. me \in Process(ReconcilerAt) /\ (me.at /= "idle" => me.intent \in Intents)
    BY DEF TypeOK
  <1>a. /\ Idle \in Process(ReconcilerAt)
        /\ \A place \in ReconcilerAt, i \in Intents : Holding(place, i) \in Process(ReconcilerAt)
    BY ProcessTyped DEF ReconcilerAt
  <1>b. Idle.at = "idle" /\ (\A place, i : Holding(place, i).intent = i)
    BY DEF Idle, Holding
  <1>1. ASSUME NEW i \in Intents, RecoverAcknowledged(r, i) \/ BeginReconcile(r, i)
        PROVE  TypeOK'
    <2>1. \E place \in ReconcilerAt :
            reconciler' = [reconciler EXCEPT ![r] = Holding(place, i)]
      BY <1>1 DEF RecoverAcknowledged, BeginReconcile, ReconcilerAt
    <2> QED
      BY <1>1, <2>1, <1>a, <1>b DEF RecoverAcknowledged, BeginReconcile, TypeOK
  <1>2. ASSUME NEW outcome \in {"committed", "not_committed", "unknown"},
               AskAdapter(r, outcome)
        PROVE  TypeOK'
    BY <1>2 DEF AskAdapter, TypeOK, Process, ReconcilerAt
  <1>3. ASSUME NEW outcome, PersistReconciled(r, outcome)
        PROVE  TypeOK'
    <2>1. outcome \in Outcome /\ me.at /= "idle"
      BY <1>3 DEF PersistReconciled, Outcome
    <2>2. intent' \in [Intents -> IntentRow] /\ call' \in [Intents -> CallRow]
      BY <1>3, <1>0, <2>1, WriteTyped DEF PersistReconciled, Process, IntentStatus
    <2> QED
      BY <1>3, <2>2, <1>a, <1>b DEF PersistReconciled, TypeOK
  <1>4. CASE PersistStillUnknown(r)
    <2>1. intent' \in [Intents -> IntentRow] /\ call' \in [Intents -> CallRow]
      BY <1>4, <1>0, WriteTyped DEF PersistStillUnknown, Process, IntentStatus, Outcome
    <2> QED
      BY <1>4, <2>1, <1>a, <1>b DEF PersistStillUnknown, TypeOK
  <1>5. CASE PersistRecovered(r)
    <2>1. intent' \in [Intents -> IntentRow] /\ call' \in [Intents -> CallRow]
      BY <1>5, <1>0, WriteTyped DEF PersistRecovered, Process, IntentStatus, Outcome
    <2> QED
      BY <1>5, <2>1, <1>a, <1>b DEF PersistRecovered, TypeOK
  <1>6. CASE AbandonReconcile(r)
    BY <1>6, <1>a, <1>b DEF AbandonReconcile, TypeOK
  <1> QED
    BY <1>1, <1>2, <1>3, <1>4, <1>5, <1>6 DEF ReconcilerStep

LEMMA WorldTyped ==
    ASSUME TypeOK, NEW i \in Intents, Prepare(i) \/ Land(i) \/ Lose(i)
    PROVE  TypeOK'
  <1>1. CASE Prepare(i)
    BY <1>1 DEF Prepare, TypeOK, CallRow, IntentRow, CallStatus, IntentStatus
  <1>2. CASE Land(i)
    BY <1>2 DEF Land, TypeOK
  <1>3. CASE Lose(i)
    BY <1>3 DEF Lose, TypeOK
  <1> QED
    BY <1>1, <1>2, <1>3

LEMMA NextTyped == TypeOK /\ [Next]_vars => TypeOK'
  <1> SUFFICES ASSUME TypeOK, [Next]_vars PROVE TypeOK'
    OBVIOUS
  <1>1. CASE Next
    BY <1>1, WorldTyped, ExecutorTyped, ReconcilerTyped DEF Next
  <1>2. CASE UNCHANGED vars
    BY <1>2 DEF vars, TypeOK
  <1> QED
    BY <1>1, <1>2

(* Every reachable state of the dispatch store, of the processes working on  *)
(* it and of the outside world is well typed.                                *)
THEOREM TypeCorrect == Spec => []TypeOK
  <1> QED
    BY InitTyped, NextTyped, PTL DEF Spec

-----------------------------------------------------------------------------
(* At most one dispatch.  The strengthening: before the mark nothing was     *)
(* sent, the mark has one owner, and the owner has not sent yet.             *)

Marked(e, i) == executor[e].at = "marked" /\ executor[e].intent = i

BeforeMark(i) == call[i].status \in {"none", "prepared"}

DispatchInv ==
    /\ AtMostOneDispatch
    /\ WriteAhead
    /\ \A e \in Executors, i \in Intents :
            Marked(e, i) => dispatches[i] = 0 /\ ~BeforeMark(i)
    /\ \A e, f \in Executors, i \in Intents : Marked(e, i) /\ Marked(f, i) => e = f

(* A write never moves a call back before the mark, and touches one call.    *)
LEMMA WriteMoves ==
    ASSUME TypeOK, NEW mine, mine.intent \in Intents,
           NEW status, NEW row, NEW op, NEW outcome,
           Write(mine, status, row, op, outcome)
    PROVE  /\ \A i \in Intents : BeforeMark(i)' => BeforeMark(i)
           /\ ~BeforeMark(mine.intent)'
           /\ status = "dispatched" => BeforeMark(mine.intent)
           /\ \A i \in Intents : i /= mine.intent => call'[i] = call[i]
           /\ call[mine.intent].status \notin Settled
           /\ call'[mine.intent].status = status
  <1>1. status \in Allowed(mine.call.status) /\ call[mine.intent].status = mine.call.status
    BY DEF Write, CanWrite
  <1>2. call' = [call EXCEPT ![mine.intent] = NextCall(mine, status, op, outcome)]
    BY DEF Write
  <1>3. NextCall(mine, status, op, outcome).status = status
    BY DEF NextCall
  <1> QED
    BY <1>1, <1>2, <1>3, AllowedTyped DEF BeforeMark, TypeOK

(* A step that leaves the count alone and hands the mark to nobody keeps the *)
(* invariant as long as no call moves back before its mark.                  *)
LEMMA NoNewMark ==
    ASSUME TypeOK, DispatchInv,
           dispatches' = dispatches,
           \A i \in Intents : BeforeMark(i)' => BeforeMark(i),
           \A e \in Executors, i \in Intents : Marked(e, i)' => Marked(e, i)
    PROVE  DispatchInv'
  BY DEF DispatchInv, AtMostOneDispatch, WriteAhead, BeforeMark

LEMMA DispatchInvInit == Init => DispatchInv
  BY DEF Init, DispatchInv, AtMostOneDispatch, WriteAhead, Marked, Idle, BeforeMark

LEMMA DispatchInvExecutor ==
    ASSUME TypeOK, DispatchInv, NEW e \in Executors, ExecutorStep(e)
    PROVE  DispatchInv'
  <1>0. executor[e].at /= "idle" => executor[e].intent \in Intents
    BY DEF TypeOK
  <1>a. ASSUME NEW p, p.at /= "marked", executor' = [executor EXCEPT ![e] = p]
        PROVE  \A f \in Executors, i \in Intents : Marked(f, i)' => Marked(f, i)
    BY <1>a DEF Marked, TypeOK
  <1>b. Idle.at = "idle" /\ (\A place, i : Holding(place, i).at = place)
    BY DEF Idle, Holding
  <1>1. ASSUME NEW i \in Intents, Load(e, i) PROVE DispatchInv'
    <2>1. \E place \in {"loaded", "acknowledged"} :
            executor' = [executor EXCEPT ![e] = Holding(place, i)]
      BY <1>1 DEF Load
    <2>2. \A f \in Executors, j \in Intents : Marked(f, j)' => Marked(f, j)
      BY <2>1, <1>a, <1>b
    <2> QED
      BY <1>1, <2>2, NoNewMark DEF Load, BeforeMark
  <1>2. CASE MarkDispatched(e)
    <2> DEFINE i == executor[e].intent
    <2>1. i \in Intents
      BY <1>0, <1>2 DEF MarkDispatched
    <2>a. Write(executor[e], "dispatched", "dispatched", FALSE, "")
      BY <1>2 DEF MarkDispatched
    <2>2. /\ BeforeMark(i) /\ call'[i].status = "dispatched"
          /\ \A j \in Intents : BeforeMark(j)' => BeforeMark(j)
      BY <2>a, <2>1, WriteMoves
    <2>3. dispatches[i] = 0 /\ \A f \in Executors : ~Marked(f, i)
      BY <2>1, <2>2 DEF DispatchInv, WriteAhead, BeforeMark
    <2>4. \A f \in Executors, j \in Intents : Marked(f, j)' => Marked(f, j) \/ (f = e /\ j = i)
      BY <1>2 DEF MarkDispatched, Marked, TypeOK, Process
    <2>5. dispatches' = dispatches
      BY <1>2 DEF MarkDispatched
    <2> QED
      BY <2>1, <2>2, <2>3, <2>4, <2>5
      DEF DispatchInv, AtMostOneDispatch, WriteAhead, BeforeMark
  <1>3. CASE CallAdapter(e)
    <2> DEFINE i == executor[e].intent
    <2>1. i \in Intents /\ Marked(e, i)
      BY <1>0, <1>3 DEF CallAdapter, Marked
    <2>2. /\ dispatches' = [dispatches EXCEPT ![i] = dispatches[i] + 1]
          /\ call' = call
      BY <1>3 DEF CallAdapter
    <2>3. dispatches[i] = 0 /\ ~BeforeMark(i)
      BY <2>1 DEF DispatchInv
    <2>4. \A f \in Executors, j \in Intents : Marked(f, j)' => Marked(f, j) /\ f /= e
      BY <1>3, <1>b DEF CallAdapter, Marked, TypeOK
    <2>5. \A f \in Executors, j \in Intents : Marked(f, j)' => j /= i
      BY <2>1, <2>4 DEF DispatchInv
    <2>6. dispatches'[i] = 1 /\ \A j \in Intents : j /= i => dispatches'[j] = dispatches[j]
      BY <2>1, <2>2, <2>3 DEF TypeOK
    <2> QED
      BY <2>1, <2>2, <2>3, <2>4, <2>5, <2>6
      DEF DispatchInv, AtMostOneDispatch, WriteAhead, BeforeMark
  <1>4. ASSUME NEW result \in {"acked", "timeout", "refused", "error"},
               AdapterReturns(e, result)
        PROVE  DispatchInv'
    <2>1. \A f \in Executors, i \in Intents : Marked(f, i)' => Marked(f, i)
      BY <1>4 DEF AdapterReturns, Marked, TypeOK
    <2> QED
      BY <1>4, <2>1, NoNewMark DEF AdapterReturns, BeforeMark
  <1>5. CASE PersistAck(e) \/ PersistTimedOut(e)
    <2>1. \A i \in Intents : BeforeMark(i)' => BeforeMark(i)
      BY <1>0, <1>5, WriteMoves DEF PersistAck, PersistTimedOut
    <2>2. \A f \in Executors, i \in Intents : Marked(f, i)' => Marked(f, i)
      BY <1>5 DEF PersistAck, PersistTimedOut, Marked, TypeOK, Process
    <2> QED
      BY <1>5, <2>1, <2>2, NoNewMark DEF PersistAck, PersistTimedOut
  <1>6. CASE PersistSucceeded(e) \/ PersistUnknown(e) \/ PersistFailed(e)
    <2>1. \A i \in Intents : BeforeMark(i)' => BeforeMark(i)
      BY <1>0, <1>6, WriteMoves DEF PersistSucceeded, PersistUnknown, PersistFailed
    <2>2. executor' = [executor EXCEPT ![e] = Idle] /\ dispatches' = dispatches
      BY <1>6 DEF PersistSucceeded, PersistUnknown, PersistFailed
    <2> QED
      BY <2>1, <2>2, <1>a, <1>b, NoNewMark
  <1>7. CASE Abandon(e)
    BY <1>7, <1>a, <1>b, NoNewMark DEF Abandon, BeforeMark
  <1> QED
    BY <1>1, <1>2, <1>3, <1>4, <1>5, <1>6, <1>7 DEF ExecutorStep

LEMMA DispatchInvReconciler ==
    ASSUME TypeOK, DispatchInv, NEW r \in Reconcilers, ReconcilerStep(r)
    PROVE  DispatchInv'
  <1>0. reconciler[r].at /= "idle" => reconciler[r].intent \in Intents
    BY DEF TypeOK
  <1>1. executor' = executor /\ dispatches' = dispatches
    BY DEF ReconcilerStep, RecoverAcknowledged, BeginReconcile, AskAdapter,
           PersistReconciled, PersistStillUnknown, PersistRecovered, AbandonReconcile
  <1>2. \/ call' = call
        \/ /\ reconciler[r].at /= "idle"
           /\ \E status, row, op, outcome :
                    Write(reconciler[r], status, row, op, outcome)
    BY DEF ReconcilerStep, RecoverAcknowledged, BeginReconcile, AskAdapter,
           PersistReconciled, PersistStillUnknown, PersistRecovered, AbandonReconcile
  <1>3. \A i \in Intents : BeforeMark(i)' => BeforeMark(i)
    BY <1>0, <1>2, WriteMoves DEF BeforeMark
  <1> QED
    BY <1>1, <1>3, NoNewMark DEF Marked

LEMMA DispatchInvWorld ==
    ASSUME TypeOK, DispatchInv, NEW i \in Intents, Prepare(i) \/ Land(i) \/ Lose(i)
    PROVE  DispatchInv'
  <1>1. executor' = executor /\ dispatches' = dispatches
    BY DEF Prepare, Land, Lose
  <1>2. \A j \in Intents : BeforeMark(j)' => BeforeMark(j)
    BY DEF Prepare, Land, Lose, BeforeMark, TypeOK
  <1> QED
    BY <1>1, <1>2, NoNewMark DEF Marked

LEMMA DispatchInvNext == TypeOK /\ DispatchInv /\ [Next]_vars => DispatchInv'
  <1> SUFFICES ASSUME TypeOK, DispatchInv, [Next]_vars PROVE DispatchInv'
    OBVIOUS
  <1>1. CASE Next
    BY <1>1, DispatchInvWorld, DispatchInvExecutor, DispatchInvReconciler DEF Next
  <1>2. CASE UNCHANGED vars
    BY <1>2, NoNewMark DEF vars, Marked, BeforeMark
  <1> QED
    BY <1>1, <1>2

(* No intent is ever handed to the adapter twice, and none before its mark   *)
(* is durable, however many executors, recoveries and crashes there are.     *)
THEOREM DispatchedOnce == Spec => [](AtMostOneDispatch /\ WriteAhead)
  <1>1. TypeOK /\ DispatchInv => AtMostOneDispatch /\ WriteAhead
    BY DEF DispatchInv
  <1> QED
    BY <1>1, InitTyped, NextTyped, DispatchInvInit, DispatchInvNext, PTL DEF Spec

-----------------------------------------------------------------------------
(* A settled call tells the truth.  The strengthening follows the request:   *)
(* what is on the wire or landed was sent, and whoever carries an answer of  *)
(* the adapter towards the rows carries one that stays true, because no      *)
(* second request can change it.                                             *)

Refuted(i) == landed[i] = 0 /\ wire[i] = 0 /\ dispatches[i] = 1

ExecutorTruth(e) ==
    LET i == executor[e].intent IN
    executor[e].at /= "idle" =>
        /\ executor[e].at \in {"acked", "acknowledged"} => landed[i] = 1
        /\ executor[e].at = "calling" => dispatches[i] = 1
        /\ executor[e].at = "refused" => Refuted(i)
        /\ executor[e].call.outcome = "committed" => landed[i] = 1

ReconcilerTruth(r) ==
    LET i == reconciler[r].intent IN
    reconciler[r].at /= "idle" =>
        /\ reconciler[r].at \in {"acknowledged", "committed"} => landed[i] = 1
        /\ reconciler[r].call.outcome = "committed" => landed[i] = 1

RowTruth(i) ==
    /\ call[i].status \in {"acknowledged", "succeeded"} => landed[i] = 1
    /\ call[i].outcome = "committed" => landed[i] = 1
    /\ call[i].status = "failed" => Refuted(i)

TruthInv ==
    /\ \A i \in Intents : wire[i] + landed[i] <= dispatches[i] /\ RowTruth(i)
    /\ \A e \in Executors : ExecutorTruth(e)
    /\ \A r \in Reconcilers : ReconcilerTruth(r)

(* What is known of the outside world stays known.                           *)
Kept(i) ==
    /\ landed[i] = 1 => landed'[i] = 1
    /\ dispatches[i] = 1 => dispatches'[i] = 1
    /\ Refuted(i) => Refuted(i)'
    /\ wire'[i] + landed'[i] <= dispatches'[i]

LEMMA KeptIfUntouched ==
    ASSUME TruthInv, dispatches' = dispatches, wire' = wire, landed' = landed
    PROVE  \A i \in Intents : Kept(i)
  BY DEF Kept, Refuted, TruthInv

LEMMA KeptByWorld ==
    ASSUME TypeOK, DispatchInv, TruthInv, NEW i \in Intents,
           Prepare(i) \/ Land(i) \/ Lose(i)
    PROVE  \A j \in Intents : Kept(j)
  <1>0. dispatches' = dispatches
    BY DEF Prepare, Land, Lose
  <1>1. CASE Prepare(i)
    BY <1>1, KeptIfUntouched DEF Prepare
  <1>2. CASE Land(i)
    <2>1. ASSUME NEW j \in Intents PROVE Kept(j)
      <3>1. /\ wire[j] + landed[j] <= dispatches[j] /\ dispatches[j] <= 1
            /\ wire[j] \in Nat /\ landed[j] \in Nat /\ dispatches[j] \in Nat
        BY DEF TypeOK, TruthInv, DispatchInv, AtMostOneDispatch
      <3>2. \/ wire'[j] = wire[j] /\ landed'[j] = landed[j]
            \/ wire[j] > 0 /\ wire'[j] = wire[j] - 1 /\ landed'[j] = landed[j] + 1
        BY <1>2 DEF Land, TypeOK
      <3> QED
        BY <1>0, <3>1, <3>2 DEF Kept, Refuted
    <2> QED
      BY <2>1
  <1>3. CASE Lose(i)
    <2>1. ASSUME NEW j \in Intents PROVE Kept(j)
      <3>1. /\ wire[j] + landed[j] <= dispatches[j] /\ dispatches[j] <= 1
            /\ wire[j] \in Nat /\ landed[j] \in Nat /\ dispatches[j] \in Nat
        BY DEF TypeOK, TruthInv, DispatchInv, AtMostOneDispatch
      <3>2. /\ landed' = landed
            /\ \/ wire'[j] = wire[j]
               \/ wire[j] > 0 /\ wire'[j] = wire[j] - 1
        BY <1>3 DEF Lose, TypeOK
      <3> QED
        BY <1>0, <3>1, <3>2 DEF Kept, Refuted
    <2> QED
      BY <2>1
  <1> QED
    BY <1>1, <1>2, <1>3

LEMMA KeptByDispatch ==
    ASSUME TypeOK, DispatchInv, TruthInv, NEW e \in Executors, CallAdapter(e)
    PROVE  /\ \A j \in Intents : Kept(j)
           /\ dispatches'[executor[e].intent] = 1
  <1> DEFINE i == executor[e].intent
  <1>1. i \in Intents /\ dispatches[i] = 0
    BY DEF CallAdapter, TypeOK, DispatchInv, Marked
  <1>2. /\ dispatches' = [dispatches EXCEPT ![i] = @ + 1]
        /\ wire' = [wire EXCEPT ![i] = @ + 1]
        /\ landed' = landed
    BY DEF CallAdapter
  <1>3. ASSUME NEW j \in Intents PROVE Kept(j)
    <2>1. /\ wire[j] + landed[j] <= dispatches[j]
          /\ wire[j] \in Nat /\ landed[j] \in Nat /\ dispatches[j] \in Nat
      BY DEF TypeOK, TruthInv
    <2>2. CASE j = i
      <3>1. dispatches'[j] = dispatches[j] + 1 /\ wire'[j] = wire[j] + 1
        BY <1>2, <2>2 DEF TypeOK
      <3>2. dispatches[j] = 0 /\ wire[j] = 0 /\ landed[j] = 0
        BY <1>1, <2>1, <2>2
      <3>3. dispatches'[j] = 1 /\ wire'[j] = wire[j] + 1 /\ wire[j] = 0 /\ landed[j] = 0
        BY <3>1, <3>2
      <3> QED
        BY <1>1, <1>2, <2>2, <3>3 DEF Kept, Refuted
    <2>3. CASE j /= i
      <3>1. dispatches'[j] = dispatches[j] /\ wire'[j] = wire[j] /\ landed'[j] = landed[j]
        BY <1>2, <2>3 DEF TypeOK
      <3> QED
        BY <2>1, <3>1 DEF Kept, Refuted
    <2> QED
      BY <2>2, <2>3
  <1>4. dispatches'[i] = 1
    BY <1>1, <1>2 DEF TypeOK
  <1> QED
    BY <1>3, <1>4

(* Rows nobody writes stay true, and so does a row whose writer had grounds. *)
LEMMA RowsKept ==
    ASSUME TruthInv, call' = call, \A i \in Intents : Kept(i)
    PROVE  \A i \in Intents : wire'[i] + landed'[i] <= dispatches'[i] /\ RowTruth(i)'
  BY DEF TruthInv, RowTruth, Kept

LEMMA RowWritten ==
    ASSUME TypeOK, TruthInv, NEW mine, mine.intent \in Intents,
           NEW status, NEW row, NEW op, NEW outcome,
           Write(mine, status, row, op, outcome),
           dispatches' = dispatches, wire' = wire, landed' = landed,
           status \in {"acknowledged", "succeeded"} => landed[mine.intent] = 1,
           status = "failed" => Refuted(mine.intent),
           outcome = "committed" => landed[mine.intent] = 1,
           mine.call.outcome = "committed" => landed[mine.intent] = 1
    PROVE  \A i \in Intents : wire'[i] + landed'[i] <= dispatches'[i] /\ RowTruth(i)'
  <1>1. call' = [call EXCEPT ![mine.intent] = NextCall(mine, status, op, outcome)]
    BY DEF Write
  <1>2. /\ NextCall(mine, status, op, outcome).status = status
        /\ NextCall(mine, status, op, outcome).outcome \in {outcome, mine.call.outcome}
    BY DEF NextCall
  <1>3. ASSUME NEW i \in Intents
        PROVE  wire'[i] + landed'[i] <= dispatches'[i] /\ RowTruth(i)'
    <2>1. RowTruth(i) /\ wire[i] + landed[i] <= dispatches[i]
      BY DEF TruthInv
    <2>2. CASE i = mine.intent
      <3>1. /\ call'[i].status = status
            /\ call'[i].outcome \in {outcome, mine.call.outcome}
        BY <1>1, <1>2, <2>2 DEF TypeOK
      <3> QED
        BY <2>1, <2>2, <3>1 DEF RowTruth, Refuted
    <2>3. CASE i /= mine.intent
      <3>1. call'[i] = call[i]
        BY <1>1, <2>3 DEF TypeOK
      <3> QED
        BY <2>1, <3>1 DEF RowTruth, Refuted
    <2> QED
      BY <2>2, <2>3
  <1> QED
    BY <1>3

(* Processes that do not move keep their truth.                              *)
LEMMA OthersKept ==
    ASSUME TypeOK, TruthInv, \A i \in Intents : Kept(i)
    PROVE  /\ \A e \in Executors : executor'[e] = executor[e] => ExecutorTruth(e)'
           /\ \A r \in Reconcilers : reconciler'[r] = reconciler[r] => ReconcilerTruth(r)'
  BY DEF TruthInv, TypeOK, ExecutorTruth, ReconcilerTruth, Kept

LEMMA TruthInvInit == Init => TruthInv
  <1> SUFFICES ASSUME Init PROVE TruthInv
    OBVIOUS
  <1>1. Idle.at = "idle" /\ NoCall.status = "none" /\ NoCall.outcome = ""
    BY DEF Idle, NoCall
  <1>2. \A i \in Intents : wire[i] + landed[i] <= dispatches[i] /\ RowTruth(i)
    <2>1. ASSUME NEW i \in Intents
          PROVE  wire[i] = 0 /\ landed[i] = 0 /\ dispatches[i] = 0 /\ call[i] = NoCall
      BY DEF Init
    <2>2. ASSUME NEW i \in Intents PROVE RowTruth(i)
      BY <1>1, <2>1 DEF RowTruth
    <2> QED
      BY <2>1, <2>2
  <1> QED
    BY <1>1, <1>2 DEF Init, TruthInv, ExecutorTruth, ReconcilerTruth

LEMMA TruthInvExecutor ==
    ASSUME TypeOK, DispatchInv, TruthInv, NEW e \in Executors, ExecutorStep(e)
    PROVE  TruthInv'
  <1> DEFINE i == executor[e].intent
  <1>0. executor[e].at /= "idle" => i \in Intents
    BY DEF TypeOK
  <1>a. reconciler' = reconciler /\ \A f \in Executors : f /= e => executor'[f] = executor[f]
    BY DEF ExecutorStep, Load, MarkDispatched, CallAdapter, AdapterReturns, PersistAck,
           PersistSucceeded, PersistTimedOut, PersistUnknown, PersistFailed, Abandon, TypeOK
  <1>b. ASSUME \A j \in Intents : Kept(j),
               \A j \in Intents : wire'[j] + landed'[j] <= dispatches'[j] /\ RowTruth(j)',
               ExecutorTruth(e)'
        PROVE  TruthInv'
    BY <1>a, <1>b, OthersKept DEF TruthInv
  <1>c. Idle.at = "idle"
    BY DEF Idle
  <1>d. ExecutorTruth(e) /\ executor[e] \in Process(ExecutorAt)
    BY DEF TruthInv, TypeOK
  <1>1. ASSUME NEW j \in Intents, Load(e, j) PROVE TruthInv'
    <2>1. \A k \in Intents : Kept(k)
      BY <1>1, KeptIfUntouched DEF Load
    <2>2. call' = call /\ landed' = landed
      BY <1>1 DEF Load
    <2>3. executor'[e] = Holding(IF call[j].status = "prepared" THEN "loaded"
                                 ELSE "acknowledged", j)
      BY <1>1 DEF Load, TypeOK
    <2>4. call[j].status \in {"prepared", "acknowledged"}
      BY <1>1 DEF Load
    <2>5. ExecutorTruth(e)'
      BY <2>2, <2>3, <2>4 DEF ExecutorTruth, Holding, TruthInv, RowTruth
    <2> QED
      BY <1>b, <2>1, <2>2, <2>5, RowsKept
  <1>2. CASE MarkDispatched(e)
    <2>1. dispatches' = dispatches /\ wire' = wire /\ landed' = landed
      BY <1>2 DEF MarkDispatched
    <2>2. Write(executor[e], "dispatched", "dispatched", FALSE, "") /\ i \in Intents
      BY <1>0, <1>2 DEF MarkDispatched
    <2>3. executor[e].call.outcome = "committed" => landed[i] = 1
      BY <1>2, <1>d DEF MarkDispatched, ExecutorTruth
    <2>4. executor'[e] = [executor[e] EXCEPT !.at = "marked"]
      BY <1>2 DEF MarkDispatched, TypeOK
    <2>5. ExecutorTruth(e)'
      BY <1>d, <2>1, <2>3, <2>4 DEF ExecutorTruth, Process
    <2> QED
      BY <1>b, <2>1, <2>2, <2>3, <2>5, RowWritten, KeptIfUntouched
  <1>3. CASE CallAdapter(e)
    <2>1. call' = call /\ landed' = landed /\ i \in Intents
      BY <1>0, <1>3 DEF CallAdapter
    <2>2. executor'[e] = Holding("calling", i)
      BY <1>3 DEF CallAdapter, TypeOK
    <2>3. ExecutorTruth(e)'
      BY <1>3, <2>1, <2>2, KeptByDispatch DEF ExecutorTruth, Holding, TruthInv, RowTruth
    <2> QED
      BY <1>3, <1>b, <2>1, <2>3, KeptByDispatch, RowsKept
  <1>4. ASSUME NEW result \in {"acked", "timeout", "refused", "error"},
               AdapterReturns(e, result)
        PROVE  TruthInv'
    <2>1. /\ call' = call /\ dispatches' = dispatches /\ wire' = wire /\ landed' = landed
          /\ i \in Intents /\ executor[e].at = "calling"
      BY <1>0, <1>4 DEF AdapterReturns
    <2>2. executor'[e] = [executor[e] EXCEPT !.at = result]
      BY <1>4 DEF AdapterReturns, TypeOK
    <2>3. /\ landed[i] <= 1 /\ landed[i] \in Nat
          /\ dispatches[i] = 1
      <3>1. wire[i] + landed[i] <= dispatches[i] /\ dispatches[i] = 1
        BY <2>1, <1>d DEF TruthInv, ExecutorTruth
      <3> QED
        BY <2>1, <3>1 DEF TypeOK
    <2>4. /\ result = "acked" => landed[i] = 1
          /\ result = "refused" => landed[i] = 0 /\ wire[i] = 0
      BY <1>4, <2>3 DEF AdapterReturns
    <2>5. ExecutorTruth(e)'
      BY <1>d, <2>1, <2>2, <2>3, <2>4 DEF ExecutorTruth, Refuted, Process
    <2> QED
      BY <1>b, <2>1, <2>5, RowsKept, KeptIfUntouched
  <1>5. ASSUME NEW place \in {"acknowledged", "timed_out"},
               NEW status \in {"acknowledged", "timed_out"}, NEW row, NEW op,
               Write(executor[e], status, row, op, ""),
               executor' = [executor EXCEPT ![e].at = place,
                                ![e].call = NextCall(executor[e], status, op, "")],
               executor[e].at \in {"acked", "timeout"},
               place = "acknowledged" => executor[e].at = "acked",
               status = "acknowledged" => executor[e].at = "acked",
               UNCHANGED <<reconciler, dispatches, wire, landed>>
        PROVE  TruthInv'
    <2>1. dispatches' = dispatches /\ wire' = wire /\ landed' = landed /\ i \in Intents
      BY <1>0, <1>5
    <2>2. /\ executor[e].at = "acked" => landed[i] = 1
          /\ executor[e].call.outcome = "committed" => landed[i] = 1
      BY <1>5, <1>d DEF ExecutorTruth
    <2>3. /\ executor'[e].at = place /\ executor'[e].intent = i
          /\ executor'[e].call = NextCall(executor[e], status, op, "")
      BY <1>5, <1>d DEF TypeOK, Process
    <2>4. executor'[e].call.outcome = executor[e].call.outcome
      BY <2>3 DEF NextCall
    <2>5. ExecutorTruth(e)'
      BY <1>5, <2>1, <2>2, <2>3, <2>4 DEF ExecutorTruth
    <2>6. \A j \in Intents : wire'[j] + landed'[j] <= dispatches'[j] /\ RowTruth(j)'
      BY <1>5, <2>1, <2>2, RowWritten
    <2> QED
      BY <1>b, <2>1, <2>5, <2>6, KeptIfUntouched
  <1>6. CASE PersistAck(e)
    BY <1>5, <1>6 DEF PersistAck
  <1>7. CASE PersistTimedOut(e)
    BY <1>5, <1>7 DEF PersistTimedOut
  <1>8. ASSUME NEW status, NEW row,
               Write(executor[e], status, row, FALSE, ""),
               executor' = [executor EXCEPT ![e] = Idle],
               executor[e].at /= "idle",
               status \in {"acknowledged", "succeeded"} => executor[e].at = "acknowledged",
               status = "failed" => executor[e].at = "refused",
               UNCHANGED <<reconciler, dispatches, wire, landed>>
        PROVE  TruthInv'
    <2>1. dispatches' = dispatches /\ wire' = wire /\ landed' = landed /\ i \in Intents
      BY <1>0, <1>8
    <2>2. /\ executor[e].at = "acknowledged" => landed[i] = 1
          /\ executor[e].at = "refused" => Refuted(i)
          /\ executor[e].call.outcome = "committed" => landed[i] = 1
      BY <1>8, <1>d DEF ExecutorTruth
    <2>3. \A j \in Intents : wire'[j] + landed'[j] <= dispatches'[j] /\ RowTruth(j)'
      BY <1>8, <2>1, <2>2, RowWritten
    <2>4. ExecutorTruth(e)'
      BY <1>8, <1>c DEF ExecutorTruth, TypeOK
    <2> QED
      BY <1>b, <2>1, <2>3, <2>4, KeptIfUntouched
  <1>9. CASE PersistSucceeded(e)
    BY <1>8, <1>9 DEF PersistSucceeded
  <1>10. CASE PersistUnknown(e)
    BY <1>8, <1>10 DEF PersistUnknown
  <1>11. CASE PersistFailed(e)
    BY <1>8, <1>11 DEF PersistFailed
  <1>12. CASE Abandon(e)
    <2>1. /\ dispatches' = dispatches /\ wire' = wire /\ landed' = landed
          /\ call' = call
      BY <1>12 DEF Abandon
    <2>2. ExecutorTruth(e)'
      BY <1>12, <1>c DEF Abandon, ExecutorTruth, TypeOK
    <2> QED
      BY <1>b, <2>1, <2>2, RowsKept, KeptIfUntouched
  <1> QED
    BY <1>1, <1>2, <1>3, <1>4, <1>6, <1>7, <1>9, <1>10, <1>11, <1>12 DEF ExecutorStep

LEMMA TruthInvReconciler ==
    ASSUME TypeOK, DispatchInv, TruthInv, NEW r \in Reconcilers, ReconcilerStep(r)
    PROVE  TruthInv'
  <1> DEFINE i == reconciler[r].intent
  <1>0. reconciler[r].at /= "idle" => i \in Intents
    BY DEF TypeOK
  <1>a. /\ executor' = executor
        /\ \A q \in Reconcilers : q /= r => reconciler'[q] = reconciler[q]
        /\ dispatches' = dispatches /\ wire' = wire /\ landed' = landed
    BY DEF ReconcilerStep, RecoverAcknowledged, BeginReconcile, AskAdapter,
           PersistReconciled, PersistStillUnknown, PersistRecovered, AbandonReconcile, TypeOK
  <1>k. \A j \in Intents : Kept(j)
    BY <1>a, KeptIfUntouched
  <1>b. ASSUME \A j \in Intents : wire'[j] + landed'[j] <= dispatches'[j] /\ RowTruth(j)',
               ReconcilerTruth(r)'
        PROVE  TruthInv'
    BY <1>a, <1>b, <1>k, OthersKept DEF TruthInv
  <1>c. Idle.at = "idle"
    BY DEF Idle
  <1>d. ReconcilerTruth(r) /\ reconciler[r] \in Process(ReconcilerAt)
    BY DEF TruthInv, TypeOK
  <1>1. ASSUME NEW j \in Intents, RecoverAcknowledged(r, j) \/ BeginReconcile(r, j)
        PROVE  TruthInv'
    <2>1. call' = call
      BY <1>1 DEF RecoverAcknowledged, BeginReconcile
    <2>2. \/ call[j].status = "acknowledged" /\ reconciler'[r] = Holding("acknowledged", j)
          \/ reconciler'[r] = Holding("asking", j)
      BY <1>1 DEF RecoverAcknowledged, BeginReconcile, TypeOK
    <2>3. ReconcilerTruth(r)'
      BY <1>a, <2>2 DEF ReconcilerTruth, Holding, TruthInv, RowTruth
    <2> QED
      BY <1>b, <1>k, <2>1, <2>3, RowsKept
  <1>2. ASSUME NEW outcome \in {"committed", "not_committed", "unknown"},
               AskAdapter(r, outcome)
        PROVE  TruthInv'
    <2>1. call' = call /\ i \in Intents
      BY <1>0, <1>2 DEF AskAdapter
    <2>2. reconciler'[r] = [reconciler[r] EXCEPT !.at = outcome]
      BY <1>2 DEF AskAdapter, TypeOK
    <2>3. outcome = "committed" => landed[i] = 1
      <3>1. outcome = "committed" => landed[i] > 0
        BY <1>2 DEF AskAdapter, Resolution
      <3>2. wire[i] + landed[i] <= dispatches[i] /\ dispatches[i] <= 1
        BY <2>1 DEF TruthInv, DispatchInv, AtMostOneDispatch
      <3> QED
        BY <2>1, <3>1, <3>2 DEF TypeOK
    <2>4. reconciler[r].at = "asking"
      BY <1>2 DEF AskAdapter
    <2>5. ReconcilerTruth(r)'
      BY <1>a, <1>d, <2>2, <2>3, <2>4 DEF ReconcilerTruth, Process
    <2> QED
      BY <1>b, <1>k, <2>1, <2>5, RowsKept
  <1>3. ASSUME reconciler' = [reconciler EXCEPT ![r] = Idle],
               \A j \in Intents : wire'[j] + landed'[j] <= dispatches'[j] /\ RowTruth(j)'
        PROVE  TruthInv'
    <2>1. ReconcilerTruth(r)'
      BY <1>3, <1>c DEF ReconcilerTruth, TypeOK
    <2> QED
      BY <1>b, <1>3, <2>1
  <1>e. /\ reconciler[r].at \in {"acknowledged", "committed"} => landed[i] = 1
        /\ reconciler[r].at /= "idle" /\ reconciler[r].call.outcome = "committed"
                => landed[i] = 1
    BY <1>d DEF ReconcilerTruth
  <1>4. ASSUME NEW outcome, PersistReconciled(r, outcome) PROVE TruthInv'
    <2>1. /\ Write(reconciler[r], "reconciled", "reconciled", outcome = "committed", outcome)
          /\ reconciler' = [reconciler EXCEPT ![r] = Idle]
          /\ reconciler[r].at = outcome /\ outcome \in {"committed", "not_committed"}
      BY <1>4 DEF PersistReconciled
    <2>2. \A j \in Intents : wire'[j] + landed'[j] <= dispatches'[j] /\ RowTruth(j)'
      BY <1>0, <1>a, <1>e, <2>1, RowWritten
    <2> QED
      BY <1>3, <2>1, <2>2
  <1>5. CASE PersistStillUnknown(r)
    <2>1. /\ Write(reconciler[r], "effect_unknown", "effect_unknown", FALSE, "")
          /\ reconciler' = [reconciler EXCEPT ![r] = Idle]
          /\ reconciler[r].at = "unknown"
      BY <1>5 DEF PersistStillUnknown
    <2>2. \A j \in Intents : wire'[j] + landed'[j] <= dispatches'[j] /\ RowTruth(j)'
      BY <1>0, <1>a, <1>e, <2>1, RowWritten
    <2> QED
      BY <1>3, <2>1, <2>2
  <1>6. CASE PersistRecovered(r)
    <2>1. /\ Write(reconciler[r], "succeeded", "terminal", FALSE, "")
          /\ reconciler' = [reconciler EXCEPT ![r] = Idle]
          /\ reconciler[r].at = "acknowledged"
      BY <1>6 DEF PersistRecovered
    <2>2. \A j \in Intents : wire'[j] + landed'[j] <= dispatches'[j] /\ RowTruth(j)'
      BY <1>0, <1>a, <1>e, <2>1, RowWritten
    <2> QED
      BY <1>3, <2>1, <2>2
  <1>7. CASE AbandonReconcile(r)
    <2>1. call' = call
      BY <1>7 DEF AbandonReconcile
    <2>2. ReconcilerTruth(r)'
      BY <1>7, <1>c DEF AbandonReconcile, ReconcilerTruth, TypeOK
    <2> QED
      BY <1>b, <1>k, <2>1, <2>2, RowsKept
  <1> QED
    BY <1>1, <1>2, <1>4, <1>5, <1>6, <1>7 DEF ReconcilerStep

LEMMA TruthInvWorld ==
    ASSUME TypeOK, DispatchInv, TruthInv, NEW i \in Intents,
           Prepare(i) \/ Land(i) \/ Lose(i)
    PROVE  TruthInv'
  <1>1. \A j \in Intents : Kept(j)
    BY KeptByWorld
  <1>2. executor' = executor /\ reconciler' = reconciler
    BY DEF Prepare, Land, Lose
  <1>3. \A j \in Intents : wire'[j] + landed'[j] <= dispatches'[j] /\ RowTruth(j)'
    <2>1. CASE call' = call
      BY <1>1, <2>1, RowsKept
    <2>2. CASE Prepare(i)
      BY <1>1, <2>2 DEF Prepare, TruthInv, RowTruth, Kept, TypeOK, CallRow
    <2> QED
      BY <2>1, <2>2 DEF Land, Lose
  <1> QED
    BY <1>1, <1>2, <1>3, OthersKept DEF TruthInv

LEMMA TruthInvNext == TypeOK /\ DispatchInv /\ TruthInv /\ [Next]_vars => TruthInv'
  <1> SUFFICES ASSUME TypeOK, DispatchInv, TruthInv, [Next]_vars PROVE TruthInv'
    OBVIOUS
  <1>1. CASE Next
    BY <1>1, TruthInvWorld, TruthInvExecutor, TruthInvReconciler DEF Next
  <1>2. CASE UNCHANGED vars
    BY <1>2, KeptIfUntouched, RowsKept, OthersKept DEF vars, TruthInv
  <1> QED
    BY <1>1, <1>2

(* Succeeded and committed calls took effect, failed ones never will: no     *)
(* late answer, second executor or stale copy of a row makes a settled call  *)
(* tell something that did not happen.                                       *)
THEOREM SettledTellsTheTruth == Spec => []SettledTruth
  <1>1. TruthInv => SettledTruth
    BY DEF TruthInv, RowTruth, Refuted, SettledTruth
  <1> QED
    BY <1>1, InitTyped, NextTyped, DispatchInvInit, DispatchInvNext, TruthInvInit,
       TruthInvNext, PTL DEF Spec

-----------------------------------------------------------------------------
(* Refinement: every step registers, claims, sends, lands or closes one      *)
(* write of OneShotWrite, or changes nothing it can see.                     *)

Phases == [i \in Intents |-> PhaseOf(call[i].status)]

LEMMA PhaseOfAllowed ==
    ASSUME NEW old, NEW new \in Allowed(old)
    PROVE  \/ PhaseOf(old) = "registered" /\ PhaseOf(new) = "claimed"
           \/ PhaseOf(old) = "claimed" /\ PhaseOf(new) = "claimed"
           \/ PhaseOf(old) = "claimed" /\ PhaseOf(new) = "closed"
  BY DEF Allowed, PhaseOf, Settled

LEMMA PhaseOfNew == PhaseOf("none") = "unknown" /\ PhaseOf("prepared") = "registered"
  BY DEF PhaseOf, Settled

LEMMA PhaseSteps ==
    ASSUME TypeOK, NEW i \in Intents, NEW row, call' = [call EXCEPT ![i] = row]
    PROVE  Phases' = [Phases EXCEPT ![i] = PhaseOf(row.status)]
  <1>1. \A j \in Intents : call'[j] = IF j = i THEN row ELSE call[j]
    BY DEF TypeOK
  <1>2. ASSUME NEW j \in Intents
        PROVE  Phases'[j] = [Phases EXCEPT ![i] = PhaseOf(row.status)][j]
    BY <1>1 DEF Phases
  <1> QED
    BY <1>2 DEF Phases

LEMMA WriteRefines ==
    ASSUME TypeOK, NEW mine, mine.intent \in Intents,
           NEW status, NEW row, NEW op, NEW outcome,
           Write(mine, status, row, op, outcome),
           UNCHANGED <<dispatches, landed>>
    PROVE  OneShot!Claim(mine.intent) \/ OneShot!Close(mine.intent)
                \/ UNCHANGED <<Phases, dispatches, landed>>
  <1> DEFINE i == mine.intent
             next == NextCall(mine, status, op, outcome)
  <1>1. status \in Allowed(call[i].status) /\ call' = [call EXCEPT ![i] = next]
    BY DEF Write, CanWrite
  <1>2. next.status = status
    BY DEF NextCall
  <1>3. Phases' = [Phases EXCEPT ![i] = PhaseOf(status)]
    <2> HIDE DEF next
    <2> QED
      BY <1>1, <1>2, PhaseSteps
  <1>4. Phases[i] = PhaseOf(call[i].status) /\ Phases = [j \in Intents |-> Phases[j]]
    BY DEF Phases
  <1>5. \/ Phases[i] = "registered" /\ PhaseOf(status) = "claimed"
        \/ Phases[i] = "claimed" /\ PhaseOf(status) = "claimed"
        \/ Phases[i] = "claimed" /\ PhaseOf(status) = "closed"
    BY <1>1, <1>4, PhaseOfAllowed
  <1>6. CASE Phases[i] = "registered" /\ PhaseOf(status) = "claimed"
    BY <1>3, <1>6 DEF OneShot!Claim, Phases
  <1>7. CASE Phases[i] = "claimed" /\ PhaseOf(status) = "claimed"
    <2>1. Phases' = Phases
      BY <1>3, <1>4, <1>7
    <2> QED
      BY <2>1
  <1>8. CASE Phases[i] = "claimed" /\ PhaseOf(status) = "closed"
    BY <1>3, <1>8 DEF OneShot!Close, Phases
  <1> QED
    BY <1>5, <1>6, <1>7, <1>8

LEMMA InitRefines == Init => OneShot!Init
  <1> SUFFICES ASSUME Init PROVE OneShot!Init
    OBVIOUS
  <1>1. NoCall.status = "none"
    BY DEF NoCall
  <1>2. \A i \in Intents : call[i] = NoCall
    BY DEF Init
  <1>3. \A i \in Intents : PhaseOf(call[i].status) = "unknown"
    BY <1>1, <1>2, PhaseOfNew
  <1> QED
    BY <1>3 DEF Init, OneShot!Init

LEMMA NextRefines ==
    TypeOK /\ DispatchInv /\ TruthInv /\ [Next]_vars => [OneShot!Next]_(OneShot!vars)
  <1> SUFFICES ASSUME TypeOK, DispatchInv, TruthInv, [Next]_vars
               PROVE  OneShot!Next \/ UNCHANGED <<Phases, dispatches, landed>>
    BY DEF OneShot!vars, Phases
  <1>1. ASSUME NEW i \in Intents, Prepare(i) PROVE OneShot!Register(i)
    <2>1. call' = [call EXCEPT ![i] = [call[i] EXCEPT !.status = "prepared"]]
      BY <1>1 DEF Prepare
    <2>2. [call[i] EXCEPT !.status = "prepared"].status = "prepared"
      BY DEF TypeOK, CallRow
    <2>3. Phases' = [Phases EXCEPT ![i] = PhaseOf("prepared")]
      BY <2>1, <2>2, PhaseSteps
    <2>4. Phases[i] = "unknown" /\ PhaseOf("prepared") = "registered"
      BY <1>1, PhaseOfNew DEF Prepare, Phases
    <2>5. dispatches' = dispatches /\ landed' = landed
      BY <1>1 DEF Prepare
    <2> QED
      BY <2>3, <2>4, <2>5 DEF OneShot!Register, Phases
  <1>2. ASSUME NEW i \in Intents, Land(i) PROVE OneShot!TakeEffect(i)
    <2>1. wire[i] > 0 /\ wire[i] + landed[i] <= dispatches[i] /\ dispatches[i] <= 1
      BY <1>2 DEF Land, TruthInv, DispatchInv, AtMostOneDispatch
    <2>2. dispatches[i] = 1 /\ landed[i] = 0
      BY <2>1 DEF TypeOK
    <2>3. landed' = [landed EXCEPT ![i] = 1]
      BY <1>2, <2>2 DEF Land
    <2>4. dispatches' = dispatches /\ Phases' = Phases
      BY <1>2 DEF Land, Phases
    <2> QED
      BY <2>2, <2>3, <2>4 DEF OneShot!TakeEffect, Phases
  <1>3. ASSUME NEW i \in Intents, Lose(i) PROVE UNCHANGED <<Phases, dispatches, landed>>
    BY <1>3 DEF Lose, Phases
  <1>4. ASSUME NEW e \in Executors, CallAdapter(e)
        PROVE  OneShot!Send(executor[e].intent) /\ executor[e].intent \in Intents
    <2> DEFINE i == executor[e].intent
    <2>1. i \in Intents /\ Marked(e, i)
      BY <1>4 DEF CallAdapter, TypeOK, Marked
    <2>2. dispatches[i] = 0 /\ call[i].status \notin {"none", "prepared"}
      BY <2>1 DEF DispatchInv, BeforeMark
    <2>3. Phases[i] \in {"claimed", "closed"}
      BY <2>1, <2>2 DEF Phases, PhaseOf
    <2>4. dispatches' = [dispatches EXCEPT ![i] = 1]
      BY <1>4, <2>2 DEF CallAdapter
    <2>5. landed' = landed /\ Phases' = Phases
      BY <1>4 DEF CallAdapter, Phases
    <2> QED
      BY <2>1, <2>2, <2>3, <2>4, <2>5 DEF OneShot!Send, Phases
  <1>5. ASSUME NEW e \in Executors, ExecutorStep(e), ~CallAdapter(e)
        PROVE  \/ \E i \in Intents : OneShot!Claim(i) \/ OneShot!Close(i)
               \/ UNCHANGED <<Phases, dispatches, landed>>
    <2>0. executor[e].at /= "idle" => executor[e].intent \in Intents
      BY DEF TypeOK
    <2>1. dispatches' = dispatches /\ landed' = landed
      BY <1>5 DEF ExecutorStep, Load, MarkDispatched, AdapterReturns, PersistAck,
             PersistSucceeded, PersistTimedOut, PersistUnknown, PersistFailed, Abandon
    <2>2. \/ call' = call
          \/ /\ executor[e].at /= "idle"
             /\ \E status, row, op, outcome : Write(executor[e], status, row, op, outcome)
      BY <1>5 DEF ExecutorStep, Load, MarkDispatched, AdapterReturns, PersistAck,
             PersistSucceeded, PersistTimedOut, PersistUnknown, PersistFailed, Abandon
    <2>3. CASE call' = call
      BY <2>1, <2>3 DEF Phases
    <2> QED
      BY <2>0, <2>1, <2>2, <2>3, WriteRefines
  <1>6. ASSUME NEW r \in Reconcilers, ReconcilerStep(r)
        PROVE  \/ \E i \in Intents : OneShot!Claim(i) \/ OneShot!Close(i)
               \/ UNCHANGED <<Phases, dispatches, landed>>
    <2>0. reconciler[r].at /= "idle" => reconciler[r].intent \in Intents
      BY DEF TypeOK
    <2>1. dispatches' = dispatches /\ landed' = landed
      BY <1>6 DEF ReconcilerStep, RecoverAcknowledged, BeginReconcile, AskAdapter,
             PersistReconciled, PersistStillUnknown, PersistRecovered, AbandonReconcile
    <2>2. \/ call' = call
          \/ /\ reconciler[r].at /= "idle"
             /\ \E status, row, op, outcome : Write(reconciler[r], status, row, op, outcome)
      BY <1>6 DEF ReconcilerStep, RecoverAcknowledged, BeginReconcile, AskAdapter,
             PersistReconciled, PersistStillUnknown, PersistRecovered, AbandonReconcile
    <2>3. CASE call' = call
      BY <2>1, <2>3 DEF Phases
    <2> QED
      BY <2>0, <2>1, <2>2, <2>3, WriteRefines
  <1>7. CASE UNCHANGED vars
    BY <1>7 DEF vars, Phases
  <1> QED
    BY <1>1, <1>2, <1>3, <1>4, <1>5, <1>6, <1>7 DEF Next, OneShot!Next

(* The dispatch protocol implements the promise of OneShotWrite.             *)
THEOREM RefinesOneShotWrite == Spec => ImplementsOneShotWrite
  <1> QED
    BY InitTyped, NextTyped, DispatchInvInit, DispatchInvNext, TruthInvInit, TruthInvNext,
       InitRefines, NextRefines, PTL DEF Spec, ImplementsOneShotWrite, OneShot!Spec

-----------------------------------------------------------------------------
(* The two rows of a dispatch.                                               *)

\* Whoever writes the status of a call writes its mirror with it.
LEMMA WriteMirrors ==
    ASSUME TypeOK, RowsAgree, NEW mine, mine.intent \in Intents, NEW status, NEW op,
           NEW outcome, Write(mine, status, Mirror(status), op, outcome)
    PROVE  RowsAgree'
  <1> DEFINE i == mine.intent
  <1>1. call'[i].status = status /\ intent'[i].status = Mirror(status)
    BY DEF Write, NextCall, TypeOK
  <1>2. \A j \in Intents \ {i} : call'[j] = call[j] /\ intent'[j] = intent[j]
    BY DEF Write, TypeOK
  <1> QED
    BY <1>1, <1>2 DEF RowsAgree, Mirror

LEMMA MirrorOf ==
    /\ Mirror("none") = "none" /\ Mirror("prepared") = "prepared"
    /\ Mirror("dispatched") = "dispatched"
    /\ Mirror("acknowledged") = "acknowledged"
    /\ Mirror("succeeded") = "terminal" /\ Mirror("failed") = "terminal"
    /\ Mirror("timed_out") = "effect_unknown"
    /\ Mirror("effect_unknown") = "effect_unknown"
    /\ Mirror("reconciled") = "reconciled"
  BY DEF Mirror

LEMMA RowsAgreeNext == TypeOK /\ RowsAgree /\ [Next]_vars => RowsAgree'
  <1> SUFFICES ASSUME TypeOK, RowsAgree, [Next]_vars PROVE RowsAgree'
    OBVIOUS
  <1>1. CASE UNCHANGED <<intent, call>>
    BY <1>1 DEF RowsAgree
  <1>2. ASSUME NEW i \in Intents, Prepare(i) PROVE RowsAgree'
    <2>1. call'[i].status = "prepared" /\ intent'[i].status = "prepared"
      BY <1>2 DEF Prepare, TypeOK, CallRow, IntentRow
    <2>2. \A j \in Intents \ {i} : call'[j] = call[j] /\ intent'[j] = intent[j]
      BY <1>2 DEF Prepare, TypeOK
    <2> QED
      BY <2>1, <2>2, MirrorOf DEF RowsAgree, Mirror
  <1>3. ASSUME NEW e \in Executors, ExecutorStep(e) PROVE RowsAgree'
    <2>1. executor[e].at /= "idle" => executor[e].intent \in Intents
      BY DEF TypeOK
    <2>2. CASE MarkDispatched(e)
      BY <2>1, <2>2, WriteMirrors, MirrorOf DEF MarkDispatched
    <2>3. CASE PersistAck(e)
      BY <2>1, <2>3, WriteMirrors, MirrorOf DEF PersistAck
    <2>4. CASE PersistSucceeded(e)
      BY <2>1, <2>4, WriteMirrors, MirrorOf DEF PersistSucceeded
    <2>5. CASE PersistTimedOut(e)
      BY <2>1, <2>5, WriteMirrors, MirrorOf DEF PersistTimedOut
    <2>6. CASE PersistUnknown(e)
      BY <2>1, <2>6, WriteMirrors, MirrorOf DEF PersistUnknown
    <2>7. CASE PersistFailed(e)
      BY <2>1, <2>7, WriteMirrors, MirrorOf DEF PersistFailed
    <2> QED
      BY <1>1, <1>3, <2>2, <2>3, <2>4, <2>5, <2>6, <2>7
         DEF ExecutorStep, Load, CallAdapter, AdapterReturns, Abandon
  <1>4. ASSUME NEW r \in Reconcilers, ReconcilerStep(r) PROVE RowsAgree'
    <2>1. reconciler[r].at /= "idle" => reconciler[r].intent \in Intents
      BY DEF TypeOK
    <2>2. ASSUME NEW outcome \in {"committed", "not_committed", "unknown"},
                 PersistReconciled(r, outcome)
          PROVE  RowsAgree'
      BY <2>1, <2>2, WriteMirrors, MirrorOf DEF PersistReconciled
    <2>3. CASE PersistStillUnknown(r)
      BY <2>1, <2>3, WriteMirrors, MirrorOf DEF PersistStillUnknown
    <2>4. CASE PersistRecovered(r)
      BY <2>1, <2>4, WriteMirrors, MirrorOf DEF PersistRecovered
    <2> QED
      BY <1>1, <1>4, <2>2, <2>3, <2>4
         DEF ReconcilerStep, RecoverAcknowledged, BeginReconcile, AskAdapter,
             AbandonReconcile
  <1> QED
    BY <1>1, <1>2, <1>3, <1>4 DEF Next, Land, Lose, vars

(* Whatever copy of the rows a process holds and however stale it is, what   *)
(* set_dispatch writes keeps the intent row where the tool call row is.      *)
THEOREM RowsStayTogether == Spec => []RowsAgree
  <1>1. ASSUME Init PROVE RowsAgree
    <2>1. \A i \in Intents : call[i].status = "none" /\ intent[i].status = "none"
      BY <1>1 DEF Init, NoCall, NoIntentRow
    <2> QED
      BY <2>1, MirrorOf DEF RowsAgree
  <1>2. TypeOK /\ RowsAgree /\ [Next]_vars => RowsAgree'
    BY RowsAgreeNext
  <1> QED
    BY <1>1, <1>2, TypeCorrect, PTL DEF Spec
=============================================================================
