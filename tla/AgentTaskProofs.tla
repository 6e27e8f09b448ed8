--------------------------- MODULE AgentTaskProofs ---------------------------
(* Theorems about AgentTask for any number of workers, requests, control     *)
(* calls, keys and crashes.                                                  *)
EXTENDS AgentTask, TLAPS

\* What stops a kernel, and what a task is settled in.
Causes == Requested \cup {"timeout", "error"}
Outcomes == {"paused", "canceled", "retry_wait", "failed", "completed"}

\* An executor knows why it stopped before it settles the task, and only one
\* that claimed it renews the lease.
Coherent(rec) ==
    /\ rec \in Exec
    /\ rec.at \in {"raised", "stopped"} => rec.seen \in Causes
    /\ rec.at = "settling" => rec.seen \in Outcomes
    /\ rec.beats => rec.at \notin {"idle", "recovering"}

\* A recovery whose read is not out of date still finds the lease expired.
Looking ==
    \A w \in Workers : exec[w].at = "recovering" /\ exec[w].fresh => LeaseRanOut

ExecutorsOK ==
    /\ exec \in [Executors -> Exec]
    /\ \A e \in Executors : Coherent(exec[e])
    /\ Looking

Targets == {"pause_requested", "paused", "cancel_requested", "canceled", "queued"}

CallsOK ==
    /\ call \in [Calls -> Call]
    /\ \A c \in Calls : /\ call[c].target \in Targets
                        /\ call[c].at = "applying" => call[c].key \in Keys

TaskOK == task \in Task /\ LeaseMeansRunning

CountersOK == applied \subseteq Keys /\ crashes \in 0..MaxCrashes

Inv == TaskOK /\ ExecutorsOK /\ CallsOK /\ CountersOK

-----------------------------------------------------------------------------
(* Typing of the records that the steps build.                               *)

LEMMA TaskTypes ==
    ASSUME NEW t \in Task, NEW s \in Status, NEW l \in {"none", "held", "expired"}
    PROVE  /\ [t EXCEPT !.status = s] \in Task
           /\ [t EXCEPT !.status = s, !.owner = NoWorker, !.lease = "none"] \in Task
           /\ [t EXCEPT !.lease = l] \in Task
  BY DEF Task

LEMMA ClaimTypes ==
    ASSUME NEW t \in Task, NEW w \in Workers
    PROVE  [t EXCEPT !.status = "running", !.owner = w, !.lease = "held"] \in Task
  BY DEF Task, Status

LEMMA CheckpointTypes ==
    ASSUME NEW t \in Task
    PROVE  [t EXCEPT !.checkpoint = TRUE] \in Task
  BY DEF Task

LEMMA ExecTypes ==
    ASSUME NEW r \in Exec, NEW at \in Place, NEW seen \in Seen
    PROVE  /\ [r EXCEPT !.at = at] \in Exec
           /\ [r EXCEPT !.at = at, !.seen = seen] \in Exec
  BY DEF Exec

LEMMA FlagTypes ==
    ASSUME NEW r \in Exec
    PROVE  /\ [r EXCEPT !.fresh = FALSE] \in Exec
           /\ [r EXCEPT !.beats = FALSE] \in Exec
           /\ [r EXCEPT !.at = "recovering", !.fresh = TRUE] \in Exec
<1>1. [r EXCEPT !.fresh = FALSE] \in Exec
  BY DEF Exec
<1>2. [r EXCEPT !.beats = FALSE] \in Exec
  BY DEF Exec
<1>3. [r EXCEPT !.at = "recovering", !.fresh = TRUE] \in Exec
  BY DEF Exec, Place
<1> QED BY <1>1, <1>2, <1>3

LEMMA IdleCoherent ==
    /\ Coherent(Idle) /\ Idle.at = "idle"
    /\ Coherent([Idle EXCEPT !.at = "gone"])
    /\ Coherent([Idle EXCEPT !.at = "begin", !.beats = TRUE])
<1>1. Coherent(Idle) /\ Idle.at = "idle"
  BY DEF Idle, Coherent, Exec, Place, Seen
<1>2. Coherent([Idle EXCEPT !.at = "gone"])
  BY DEF Idle, Coherent, Exec, Place, Seen
<1>3. Coherent([Idle EXCEPT !.at = "begin", !.beats = TRUE])
  BY DEF Idle, Coherent, Exec, Place, Seen
<1> QED BY <1>1, <1>2, <1>3

LEMMA DoneCoherent ==
    ASSUME NEW e \in Executors
    PROVE  Coherent(Done(e)) /\ Done(e).at /= "recovering"
  BY IdleCoherent DEF Done, Idle

\* An executor that moves on inside execute_chat.
LEMMA GoneOn ==
    ASSUME NEW r, Coherent(r), NEW at \in Place \ {"idle", "recovering"},
           NEW seen \in Seen,
           at \in {"raised", "stopped"} => seen \in Causes,
           at = "settling" => seen \in Outcomes
    PROVE  /\ Coherent([r EXCEPT !.at = at, !.seen = seen])
           /\ [r EXCEPT !.at = at, !.seen = seen].at /= "recovering"
           /\ at \notin {"raised", "stopped", "settling"} =>
                 /\ Coherent([r EXCEPT !.at = at])
                 /\ [r EXCEPT !.at = at].at /= "recovering"
<1> DEFINE one == [r EXCEPT !.at = at, !.seen = seen]
           two == [r EXCEPT !.at = at]
<1>1. r \in Exec /\ at \in Place
  BY DEF Coherent
<1>2. one \in Exec /\ two \in Exec
  BY <1>1, ExecTypes
<1>3. one.at = at /\ one.seen = seen /\ two.at = at
  BY <1>1 DEF Exec
<1> QED BY <1>2, <1>3 DEF Coherent

-----------------------------------------------------------------------------
(* The three ways a step changes the executors.                              *)

LEMMA Advancing ==
    ASSUME ExecutorsOK, NEW e \in Executors, NEW rec,
           Coherent(rec), rec.at /= "recovering", UNCHANGED task,
           exec' = [exec EXCEPT ![e] = rec]
    PROVE  ExecutorsOK'
<1>1. exec' \in [Executors -> Exec]
  BY DEF ExecutorsOK, Coherent
<1>2. \A x \in Executors : exec'[x] = IF x = e THEN rec ELSE exec[x]
  BY DEF ExecutorsOK
<1>3. \A x \in Executors : Coherent(exec'[x])
  BY <1>2 DEF ExecutorsOK
<1>4. Looking'
  BY <1>2 DEF Looking, LeaseRanOut, ExecutorsOK, Executors
<1> QED BY <1>1, <1>3, <1>4 DEF ExecutorsOK

LEMMA Staled ==
    ASSUME NEW r, Coherent(r)
    PROVE  Coherent([r EXCEPT !.fresh = FALSE]) /\ ~ [r EXCEPT !.fresh = FALSE].fresh
<1> DEFINE s == [r EXCEPT !.fresh = FALSE]
<1>1. r \in Exec /\ s \in Exec
  BY FlagTypes DEF Coherent
<1>2. s.at = r.at /\ s.seen = r.seen /\ s.beats = r.beats /\ ~ s.fresh
  BY <1>1 DEF Exec
<1> QED BY <1>1, <1>2 DEF Coherent

LEMMA Journalling ==
    ASSUME ExecutorsOK, NEW e \in Executors, NEW rec,
           Coherent(rec), rec.at /= "recovering", Journals(e, rec)
    PROVE  ExecutorsOK'
<1>1. \A x \in Executors :
          exec'[x] = IF x = e THEN rec ELSE [exec[x] EXCEPT !.fresh = FALSE]
  BY DEF Journals
<1>2. \A x \in Executors : /\ Coherent(exec'[x])
                           /\ exec'[x].at = "recovering" => ~ exec'[x].fresh
  BY <1>1, Staled DEF ExecutorsOK
<1>3. exec' \in [Executors -> Exec]
  BY <1>2 DEF Journals, Coherent
<1>4. Looking'
  BY <1>2 DEF Looking, Executors
<1> QED BY <1>2, <1>3, <1>4 DEF ExecutorsOK

-----------------------------------------------------------------------------
(* The row after a transition.                                               *)

LEMMA MovedTask ==
    ASSUME TaskOK, NEW target \in Status, task' = Moved(target)
    PROVE  TaskOK' /\ task'.status = target
<1>1. task' \in Task
  BY TaskTypes DEF Moved, TaskOK
<1>2. task'.status = target
  BY DEF Moved, TaskOK, Task
<1>3. CASE target \in Terminal \cup {"paused", "retry_wait", "queued"}
  <2>1. task'.owner = NoWorker /\ task'.lease = "none"
    BY <1>3 DEF Moved, TaskOK, Task
  <2> QED BY <1>1, <1>2, <2>1 DEF TaskOK, LeaseMeansRunning
<1>4. CASE target \notin Terminal \cup {"paused", "retry_wait", "queued"}
  <2>1. task'.owner = task.owner /\ task'.lease = task.lease
    BY <1>4 DEF Moved, TaskOK, Task
  <2>2. target \in {"running"} \cup Requested
    BY <1>4 DEF Status, Requested, Terminal
  <2> QED BY <1>1, <1>2, <2>1, <2>2 DEF TaskOK, LeaseMeansRunning
<1> QED BY <1>3, <1>4

LEMMA Moving ==
    ASSUME TaskOK, ExecutorsOK, NEW e \in Executors, NEW target \in Status, NEW rec,
           Coherent(rec), rec.at /= "recovering", MovesTo(target, e, rec)
    PROVE  TaskOK' /\ ExecutorsOK' /\ task'.status = target
<1>1. CASE target = task.status
  BY <1>1, Advancing DEF MovesTo, TaskOK, LeaseMeansRunning
<1>2. CASE target /= task.status
  BY <1>2, Journalling, MovedTask DEF MovesTo
<1> QED BY <1>1, <1>2

LEMMA EdgesTyped == ASSUME NEW s \in Status PROVE Edges[s] \subseteq Status
  BY DEF Status, Edges

-----------------------------------------------------------------------------
(* The steps of a worker around the execution.                               *)

Rest == CallsOK /\ CountersOK

LEMMA RestStays ==
    ASSUME Rest, UNCHANGED <<applied, call, crashes>>
    PROVE  Rest'
  BY DEF Rest, CallsOK, CountersOK

LEMMA FindKeeps ==
    ASSUME Inv, NEW w \in Workers, FindExpiredLease(w)
    PROVE  Inv'
<1> DEFINE rec == [exec[w] EXCEPT !.at = "recovering", !.fresh = TRUE]
<1>1. w \in Executors /\ Coherent(exec[w]) /\ exec[w] \in Exec
  BY DEF Inv, ExecutorsOK, Executors
<1>2. rec \in Exec
  BY <1>1, FlagTypes
<1>3. rec.at = "recovering" /\ rec.beats = exec[w].beats
  BY <1>1 DEF Exec
<1>4. Coherent(rec)
  BY <1>1, <1>2, <1>3 DEF Coherent, FindExpiredLease
<1>5. exec' = [exec EXCEPT ![w] = rec]
  BY DEF FindExpiredLease, Inv, ExecutorsOK
<1>6. \A x \in Executors : exec'[x] = IF x = w THEN rec ELSE exec[x]
  BY <1>5 DEF Inv, ExecutorsOK
<1>7. ExecutorsOK'
  <2>1. exec' \in [Executors -> Exec]
    BY <1>2, <1>5 DEF Inv, ExecutorsOK
  <2>2. \A x \in Executors : Coherent(exec'[x])
    BY <1>4, <1>6 DEF Inv, ExecutorsOK
  <2>3. Looking'
    BY DEF Looking, LeaseRanOut, FindExpiredLease
  <2> QED BY <2>1, <2>2, <2>3 DEF ExecutorsOK
<1> QED BY <1>7, RestStays DEF FindExpiredLease, Inv, Rest, TaskOK, LeaseMeansRunning

LEMMA RecoverKeeps ==
    ASSUME Inv, NEW w \in Workers, RecoverExpiredLease(w)
    PROVE  /\ Inv'
           /\ task' /= task => /\ task.status = "running" /\ task.lease = "expired"
                               /\ task'.status \in {"queued", "retry_wait"}
<1>1. w \in Executors /\ exec[w].at = "recovering"
  BY DEF Executors, RecoverExpiredLease
<1>2. Idle.at /= "recovering" /\ Coherent(Idle)
  BY IdleCoherent
<1>3. Rest'
  BY RestStays DEF RecoverExpiredLease, Inv, Rest
<1>4. CASE Recoverable(w)
  <2> DEFINE target == IF task.checkpoint THEN "queued" ELSE "retry_wait"
  <2>1. target \in Status /\ task' = Moved(target) /\ Journals(w, Idle)
    BY <1>4 DEF RecoverExpiredLease, Status
  <2>2. TaskOK' /\ task'.status = target
    BY <2>1, MovedTask DEF Inv
  <2>3. ExecutorsOK'
    BY <1>1, <1>2, <2>1, Journalling DEF Inv
  <2>4. LeaseRanOut
    BY <1>1, <1>4 DEF Inv, ExecutorsOK, Looking, Recoverable
  <2> QED BY <1>3, <2>2, <2>3, <2>4 DEF LeaseRanOut, Inv, Rest
<1>5. CASE ~ Recoverable(w)
  <2>1. exec' = [exec EXCEPT ![w] = Idle] /\ UNCHANGED task
    BY <1>5 DEF RecoverExpiredLease
  <2>2. ExecutorsOK'
    BY <1>1, <1>2, <2>1, Advancing DEF Inv
  <2> QED BY <1>3, <2>1, <2>2 DEF Inv, Rest, TaskOK, LeaseMeansRunning
<1> QED BY <1>4, <1>5

LEMMA ClaimKeeps ==
    ASSUME Inv, NEW w \in Workers, ClaimNext(w)
    PROVE  Inv' /\ task.status = "queued" /\ task'.status = "running"
<1> DEFINE rec == [Idle EXCEPT !.at = "begin", !.beats = TRUE]
<1>1. Coherent(rec) /\ rec.at /= "recovering"
  BY IdleCoherent DEF Idle
<1>2. ExecutorsOK'
  BY <1>1, Journalling DEF ClaimNext, Inv, Executors
<1>3. task' \in Task
  BY ClaimTypes DEF ClaimNext, Inv, TaskOK
<1>4. task'.status = "running" /\ task'.owner = w /\ task'.lease = "held"
  BY DEF ClaimNext, Inv, TaskOK, Task
<1>5. w /= NoWorker
  BY ActorsAssumption
<1>6. TaskOK'
  BY <1>3, <1>4, <1>5 DEF TaskOK, LeaseMeansRunning
<1> QED BY <1>2, <1>4, <1>6, RestStays DEF ClaimNext, Inv, Rest

LEMMA HeartbeatKeeps ==
    ASSUME Inv, NEW w \in Workers, Heartbeat(w)
    PROVE  Inv' /\ task'.status = task.status
<1>1. /\ w \in Executors /\ Coherent(exec[w]) /\ exec[w] \in Exec
      /\ exec[w].at \notin {"idle", "recovering"}
  BY DEF Inv, ExecutorsOK, Executors, Heartbeat, Coherent
<1>2. Rest'
  BY RestStays DEF Heartbeat, Inv, Rest
<1>3. CASE task.status = "running" /\ task.owner = w
  <2>1. task' = [task EXCEPT !.lease = "held"] /\ Journals(w, exec[w])
    BY <1>3 DEF Heartbeat
  <2>2. ExecutorsOK'
    BY <1>1, <2>1, Journalling DEF Inv
  <2>3. task' \in Task
    BY <2>1, TaskTypes DEF Inv, TaskOK, Status
  <2>4. task'.lease = "held" /\ task'.owner = w /\ task'.status = "running"
    BY <1>3, <2>1 DEF Inv, TaskOK, Task
  <2>5. w /= NoWorker
    BY ActorsAssumption
  <2> QED BY <1>2, <1>3, <2>2, <2>3, <2>4, <2>5 DEF Inv, TaskOK, LeaseMeansRunning, Rest
<1>4. CASE ~ (task.status = "running" /\ task.owner = w)
  <2> DEFINE rec == [exec[w] EXCEPT !.beats = FALSE]
  <2>1. exec' = [exec EXCEPT ![w] = rec] /\ UNCHANGED task
    BY <1>4 DEF Heartbeat, Inv, ExecutorsOK
  <2>2. rec \in Exec /\ rec.at = exec[w].at /\ rec.seen = exec[w].seen /\ ~ rec.beats
    BY <1>1, FlagTypes DEF Exec
  <2>3. Coherent(rec) /\ rec.at /= "recovering"
    BY <1>1, <2>2 DEF Coherent
  <2>4. ExecutorsOK'
    BY <1>1, <2>1, <2>3, Advancing DEF Inv
  <2> QED BY <1>2, <2>1, <2>4 DEF Inv, TaskOK, LeaseMeansRunning, Rest
<1> QED BY <1>3, <1>4

LEMMA ExpireKeeps ==
    ASSUME Inv, Expire
    PROVE  Inv' /\ task'.status = task.status
<1>1. task' \in Task
  BY TaskTypes DEF Expire, Inv, TaskOK, Status
<1>2. task'.status = task.status /\ task'.owner = task.owner /\ task'.lease = "expired"
  BY DEF Expire, Inv, TaskOK, Task
<1>3. TaskOK'
  BY <1>1, <1>2 DEF Expire, Inv, TaskOK, LeaseMeansRunning
<1>4. ExecutorsOK'
  BY <1>2 DEF Expire, Inv, ExecutorsOK, Looking, LeaseRanOut, Coherent
<1> QED BY <1>2, <1>3, <1>4, RestStays DEF Expire, Inv, Rest

-----------------------------------------------------------------------------
(* The steps of execute_chat.                                                *)

\* A step that moves one executor on and leaves the row alone.
LEMMA AdvanceKeeps ==
    ASSUME Inv, NEW e \in Executors, NEW rec, Coherent(rec), rec.at /= "recovering",
           exec' = [exec EXCEPT ![e] = rec], UNCHANGED <<task, applied, call, crashes>>
    PROVE  Inv' /\ task'.status = task.status
  BY Advancing, RestStays DEF Inv, Rest, TaskOK, LeaseMeansRunning

LEMMA GotoKeeps ==
    ASSUME Inv, NEW e \in Executors,
           NEW at \in {"begin", "starting", "emitting", "running", "returned"},
           Goto(e, at), UNCHANGED <<task, applied, call, crashes>>
    PROVE  Inv' /\ task'.status = task.status
<1> DEFINE rec == [exec[e] EXCEPT !.at = at]
<1>1. Coherent(exec[e])
  BY DEF Inv, ExecutorsOK
<1>2. Coherent(rec) /\ rec.at /= "recovering"
  BY <1>1, GoneOn, "none" \in Seen DEF Place, Seen
<1>3. exec' = [exec EXCEPT ![e] = rec]
  BY DEF Goto, Inv, ExecutorsOK
<1> QED BY <1>2, <1>3, AdvanceKeeps

LEMMA SubmitKeeps ==
    ASSUME Inv, NEW r \in Requests, Submit(r)
    PROVE  Inv' /\ task'.status = task.status
  BY GotoKeeps DEF Submit, Executors

LEMMA GivesUp ==
    ASSUME Inv, NEW e \in Executors, exec' = [exec EXCEPT ![e] = Done(e)],
           UNCHANGED <<task, applied, call, crashes>>
    PROVE  Inv' /\ task'.status = task.status
  BY DoneCoherent, AdvanceKeeps

LEMMA BeginKeeps ==
    ASSUME Inv, NEW e \in Executors, Begin(e)
    PROVE  Inv' /\ task'.status = task.status
<1>1. CASE task.status = "queued"
  BY <1>1, GotoKeeps DEF Begin
<1>2. CASE task.status = "running"
  BY <1>2, GotoKeeps DEF Begin
<1>3. CASE task.status \notin {"queued", "running"}
  BY <1>3, GivesUp DEF Begin
<1> QED BY <1>1, <1>2, <1>3

\* Start and Settle: a transition of the row if the lifecycle has it.
LEMMA MoveKeeps ==
    ASSUME Inv, NEW e \in Executors, NEW target \in Status, NEW rec,
           Coherent(rec), rec.at /= "recovering", MovesTo(target, e, rec),
           UNCHANGED <<applied, call, crashes>>
    PROVE  Inv' /\ task'.status = target
  BY Moving, RestStays DEF Inv, Rest

LEMMA StartKeeps ==
    ASSUME Inv, NEW e \in Executors, Start(e)
    PROVE  Inv' /\ task'.status \in {task.status} \cup ({"running"} \cap Edges[task.status])
<1> DEFINE rec == [exec[e] EXCEPT !.at = "emitting"]
<1>1. Coherent(rec) /\ rec.at /= "recovering"
  <2>1. Coherent(exec[e])
    BY DEF Inv, ExecutorsOK
  <2> QED BY <2>1, GoneOn, "none" \in Seen DEF Place, Seen
<1>2. CASE CanMove("running")
  <2>1. MovesTo("running", e, rec) /\ UNCHANGED <<applied, call, crashes>>
    BY <1>2 DEF Start
  <2>2. "running" \in Status
    BY DEF Status
  <2>3. Inv' /\ task'.status = "running"
    BY <1>1, <2>1, <2>2, MoveKeeps
  <2> QED BY <1>2, <2>3 DEF CanMove
<1>3. CASE ~ CanMove("running")
  BY <1>3, GivesUp DEF Start
<1> QED BY <1>2, <1>3

\* A step that appends an event and leaves the row alone.
LEMMA JournalKeeps ==
    ASSUME Inv, NEW e \in Executors, NEW rec, Coherent(rec), rec.at /= "recovering",
           Journals(e, rec), UNCHANGED <<task, applied, call, crashes>>
    PROVE  Inv' /\ task'.status = task.status
  BY Journalling, RestStays DEF Inv, Rest, TaskOK, LeaseMeansRunning

LEMMA EmitKeeps ==
    ASSUME Inv, NEW e \in Executors, Emit(e)
    PROVE  Inv' /\ task'.status = task.status
<1>1. Coherent(exec[e])
  BY DEF Inv, ExecutorsOK
<1>2. CASE task.status \in Requested
  <2>1. PICK at \in {"raised", "stopped"} :
           Journals(e, [exec[e] EXCEPT !.at = at, !.seen = task.status])
    BY <1>2 DEF Emit
  <2> DEFINE rec == [exec[e] EXCEPT !.at = at, !.seen = task.status]
  <2>2. Coherent(rec) /\ rec.at /= "recovering"
    BY <1>1, <1>2, GoneOn DEF Place, Seen, Causes
  <2> QED BY <2>1, <2>2, JournalKeeps DEF Emit
<1>3. CASE task.status \notin Requested
  <2> DEFINE rec == [exec[e] EXCEPT !.at = "running"]
  <2>1. Coherent(rec) /\ rec.at /= "recovering"
    BY <1>1, GoneOn, "none" \in Seen DEF Place, Seen
  <2> QED BY <1>3, <2>1, JournalKeeps DEF Emit
<1> QED BY <1>2, <1>3

LEMMA KernelFailsKeeps ==
    ASSUME Inv, NEW e \in Executors, KernelFails(e)
    PROVE  Inv' /\ task'.status = task.status
<1>1. Coherent(exec[e])
  BY DEF Inv, ExecutorsOK
<1>2. PICK seen \in {"timeout", "error"} :
         exec' = [exec EXCEPT ![e].at = "raised", ![e].seen = seen]
  BY DEF KernelFails
<1> DEFINE rec == [exec[e] EXCEPT !.at = "raised", !.seen = seen]
<1>3. Coherent(rec) /\ rec.at /= "recovering"
  BY <1>1, GoneOn DEF Place, Seen, Causes
<1>4. exec' = [exec EXCEPT ![e] = rec]
  BY <1>2 DEF Inv, ExecutorsOK
<1> QED BY <1>3, <1>4, AdvanceKeeps DEF KernelFails

LEMMA EmitFailedKeeps ==
    ASSUME Inv, NEW e \in Executors, EmitFailed(e)
    PROVE  Inv' /\ task'.status = task.status
<1> DEFINE seen == IF task.status \in Requested THEN task.status ELSE exec[e].seen
           rec == [exec[e] EXCEPT !.at = "stopped", !.seen = seen]
<1>1. Coherent(exec[e]) /\ exec[e].at = "raised"
  BY DEF Inv, ExecutorsOK, EmitFailed
<1>2. seen \in Causes /\ seen \in Seen
  BY <1>1 DEF Coherent, Causes, Seen
<1>3. Coherent(rec) /\ rec.at /= "recovering"
  BY <1>1, <1>2, GoneOn DEF Place
<1>4. Journals(e, rec)
  <2>1. [exec[e] EXCEPT !.at = "stopped",
             !.seen = IF task.status \in Requested THEN task.status ELSE @] = rec
    BY <1>1 DEF Coherent, Exec
  <2> QED BY <2>1 DEF EmitFailed
<1> QED BY <1>3, <1>4, JournalKeeps DEF EmitFailed

LEMMA KernelReturnsKeeps ==
    ASSUME Inv, NEW e \in Executors, KernelReturns(e)
    PROVE  Inv' /\ task'.status = task.status
  BY GotoKeeps DEF KernelReturns

\* Checkpoint and Account: the row has a checkpoint and the executor an outcome.
LEMMA CheckpointedKeeps ==
    ASSUME Inv, NEW e \in Executors, NEW seen \in Outcomes,
           task' = [task EXCEPT !.checkpoint = TRUE],
           Journals(e, [exec[e] EXCEPT !.at = "settling", !.seen = seen]),
           UNCHANGED <<applied, call, crashes>>
    PROVE  Inv' /\ task'.status = task.status
<1> DEFINE rec == [exec[e] EXCEPT !.at = "settling", !.seen = seen]
<1>1. Coherent(exec[e])
  BY DEF Inv, ExecutorsOK
<1>2. Coherent(rec) /\ rec.at /= "recovering"
  BY <1>1, GoneOn DEF Place, Seen, Outcomes
<1>3. ExecutorsOK'
  BY <1>2, Journalling DEF Inv
<1>4. task' \in Task
  BY CheckpointTypes DEF Inv, TaskOK
<1>5. task'.status = task.status /\ task'.owner = task.owner /\ task'.lease = task.lease
  BY DEF Inv, TaskOK, Task
<1>6. TaskOK'
  BY <1>4, <1>5 DEF Inv, TaskOK, LeaseMeansRunning
<1> QED BY <1>3, <1>5, <1>6, RestStays DEF Inv, Rest

LEMMA CheckpointKeeps ==
    ASSUME Inv, NEW e \in Executors, Checkpoint(e)
    PROVE  Inv' /\ task'.status = task.status
<1>1. exec[e].seen \in Causes
  BY DEF Inv, ExecutorsOK, Checkpoint, Coherent
<1>2. SettlesIn[exec[e].seen] \in Outcomes
  BY <1>1 DEF SettlesIn, Causes, Requested, Outcomes
<1> QED BY <1>2, CheckpointedKeeps DEF Checkpoint

LEMMA AccountKeeps ==
    ASSUME Inv, NEW e \in Executors, Account(e)
    PROVE  Inv' /\ task'.status = task.status
<1>1. PICK outcome \in {"completed", "failed"} :
         Journals(e, [exec[e] EXCEPT !.at = "settling", !.seen = outcome])
  BY DEF Account
<1>2. outcome \in Outcomes
  BY DEF Outcomes
<1> QED BY <1>1, <1>2, CheckpointedKeeps DEF Account

LEMMA SettleKeeps ==
    ASSUME Inv, NEW e \in Executors, Settle(e)
    PROVE  /\ Inv'
           /\ task'.status /= task.status =>
                 /\ exec[e].at = "settling" /\ task'.status = exec[e].seen
                 /\ exec[e].seen \in Outcomes \cap Edges[task.status]
<1>1. exec[e].at = "settling" /\ exec[e].seen \in Outcomes
  BY DEF Inv, ExecutorsOK, Coherent, Settle
<1>2. exec[e].seen \in Status
  BY <1>1 DEF Outcomes, Status
<1>3. Coherent(Done(e)) /\ Done(e).at /= "recovering"
  BY DoneCoherent
<1>4. CASE CanSettle(e)
  <2>1. MovesTo(exec[e].seen, e, Done(e)) /\ UNCHANGED <<applied, call, crashes>>
    BY <1>4 DEF Settle
  <2>2. Inv' /\ task'.status = exec[e].seen
    BY <1>2, <1>3, <2>1, MoveKeeps
  <2> QED BY <1>1, <1>4, <2>2 DEF CanSettle, CanMove
<1>5. CASE ~ CanSettle(e)
  BY <1>5, GivesUp DEF Settle
<1> QED BY <1>4, <1>5

LEMMA CrashKeeps ==
    ASSUME Inv, NEW e \in Executors, Crash(e)
    PROVE  Inv' /\ task'.status = task.status
<1>1. ExecutorsOK'
  BY DoneCoherent, Advancing DEF Crash, Inv
<1>2. crashes' \in 0..MaxCrashes
  BY BoundAssumption DEF Crash, Inv, CountersOK
<1> QED BY <1>1, <1>2 DEF Crash, Inv, TaskOK, LeaseMeansRunning, CallsOK, CountersOK

-----------------------------------------------------------------------------
(* The control calls.                                                        *)

LEMMA NotCallingTyped ==
    NotCalling \in Call /\ NotCalling.target \in Targets /\ NotCalling.at = "idle"
  BY DEF NotCalling, Call, Targets, Status

LEMMA AskKeeps ==
    ASSUME Inv, NEW c \in Calls, NEW k \in Keys, NEW action \in Actions, Ask(c, k, action)
    PROVE  Inv' /\ task'.status = task.status
<1> DEFINE rec == [at |-> "applying", key |-> k, target |-> Target(action)]
<1>1. Target(action) \in Targets
  BY DEF Target, Targets
<1>2. rec \in Call /\ rec.target \in Targets
  BY <1>1 DEF Call, Targets, Status
<1>3. call' = [call EXCEPT ![c] = rec]
  BY DEF Ask
<1>4. CallsOK'
  BY <1>2, <1>3 DEF Inv, CallsOK
<1> QED BY <1>4 DEF Ask, Inv, TaskOK, LeaseMeansRunning, ExecutorsOK, Looking,
                   LeaseRanOut, CountersOK, Coherent

LEMMA ApplyKeeps ==
    ASSUME Inv, NEW c \in Calls, ApplyControl(c)
    PROVE  /\ Inv'
           /\ task'.status /= task.status =>
                 /\ task'.status \in Targets \cap Edges[task.status]
                 /\ \E k \in Keys \ applied : applied' = applied \cup {k}
<1> DEFINE target == call[c].target
           k == call[c].key
<1>1. target \in Targets /\ target \in Status /\ k \in Keys
  BY DEF ApplyControl, Inv, CallsOK, Targets, Status
<1>2. CallsOK'
  BY NotCallingTyped DEF ApplyControl, Inv, CallsOK
<1>3. CASE ~ WasApplied(c) /\ CanMove(target)
  <2>1. applied' = applied \cup {k} /\ k \notin applied
    BY <1>3 DEF ApplyControl, WasApplied
  <2>2. CountersOK'
    BY <1>1, <2>1 DEF ApplyControl, Inv, CountersOK
  <2>3. CASE target = task.status
    <3>1. task' = task
      BY <1>3, <2>3 DEF ApplyControl
    <3>2. exec' = exec
      BY <1>3, <2>3 DEF ApplyControl, Inv, ExecutorsOK
    <3> QED BY <1>2, <2>2, <3>1, <3>2 DEF Inv, TaskOK, LeaseMeansRunning, ExecutorsOK,
                                          Looking, LeaseRanOut, Coherent
  <2>4. CASE target /= task.status
    <3>1. task' = Moved(target) /\ target \in Edges[task.status]
      BY <1>3, <2>4 DEF ApplyControl, CanMove
    <3>2. exec' = [e \in Executors |-> [exec[e] EXCEPT !.fresh = FALSE]]
      BY <1>3, <2>4 DEF ApplyControl
    <3>3. TaskOK' /\ task'.status = target
      BY <1>1, <3>1, MovedTask DEF Inv
    <3>4. \A e \in Executors : Coherent(exec'[e]) /\ ~ exec'[e].fresh
      BY <3>2, Staled DEF Inv, ExecutorsOK
    <3>5. exec' \in [Executors -> Exec]
      BY <3>2, <3>4 DEF Coherent
    <3>6. ExecutorsOK'
      BY <3>4, <3>5 DEF ExecutorsOK, Looking, Executors
    <3> QED BY <1>1, <1>2, <2>1, <2>2, <3>1, <3>3, <3>6 DEF Inv
  <2> QED BY <2>3, <2>4
<1>4. CASE ~ (~ WasApplied(c) /\ CanMove(target))
  <2>1. UNCHANGED <<task, applied, exec, crashes>>
    BY <1>4 DEF ApplyControl
  <2> QED BY <1>2, <2>1 DEF Inv, TaskOK, LeaseMeansRunning, ExecutorsOK, Looking,
                            LeaseRanOut, CountersOK, Coherent
<1> QED BY <1>3, <1>4

-----------------------------------------------------------------------------
(* What a step may do to the status.                                         *)

\* A control call with a new key, the settlement of an executor, the recovery
\* of an expired lease, or the start of a queued task.
StatusStep ==
    \/ task'.status = task.status
    \/ /\ task'.status \in Targets \cap Edges[task.status]
       /\ \E k \in Keys \ applied : applied' = applied \cup {k}
    \/ /\ task'.status \in Outcomes \cap Edges[task.status]
       /\ \E e \in Executors : exec[e].at = "settling" /\ exec[e].seen = task'.status
    \/ /\ task.status = "running" /\ task.lease = "expired"
       /\ task'.status \in {"queued", "retry_wait"}
    \/ /\ task'.status = "running"
       /\ task.status = "queued"

LEMMA ExecuteKeeps ==
    ASSUME Inv, NEW e \in Executors, Execute(e)
    PROVE  Inv' /\ StatusStep
<1>1. CASE Begin(e)
  BY <1>1, BeginKeeps DEF StatusStep
<1>2. CASE Start(e)
  <2>1. Inv' /\ task'.status \in {task.status} \cup ({"running"} \cap Edges[task.status])
    BY <1>2, StartKeeps
  <2>2. "running" \in Edges[task.status] => task.status = "queued"
    BY DEF Inv, TaskOK, Task, Status, Edges
  <2> QED BY <2>1, <2>2 DEF StatusStep
<1>3. CASE Emit(e)
  BY <1>3, EmitKeeps DEF StatusStep
<1>4. CASE KernelFails(e)
  BY <1>4, KernelFailsKeeps DEF StatusStep
<1>5. CASE EmitFailed(e)
  BY <1>5, EmitFailedKeeps DEF StatusStep
<1>6. CASE KernelReturns(e)
  BY <1>6, KernelReturnsKeeps DEF StatusStep
<1>7. CASE Checkpoint(e)
  BY <1>7, CheckpointKeeps DEF StatusStep
<1>8. CASE Account(e)
  BY <1>8, AccountKeeps DEF StatusStep
<1>9. CASE Settle(e)
  BY <1>9, SettleKeeps DEF StatusStep
<1> QED BY <1>1, <1>2, <1>3, <1>4, <1>5, <1>6, <1>7, <1>8, <1>9 DEF Execute

LEMMA StepKeeps ==
    ASSUME Inv, [Next]_vars
    PROVE  Inv' /\ StatusStep
<1>1. CASE \E w \in Workers : FindExpiredLease(w) \/ RecoverExpiredLease(w)
                              \/ ClaimNext(w) \/ Heartbeat(w)
  <2>1. PICK w \in Workers : FindExpiredLease(w) \/ RecoverExpiredLease(w)
                             \/ ClaimNext(w) \/ Heartbeat(w)
    BY <1>1
  <2>2. CASE FindExpiredLease(w)
    BY <2>2, FindKeeps DEF StatusStep, FindExpiredLease
  <2>3. CASE RecoverExpiredLease(w)
    BY <2>3, RecoverKeeps DEF StatusStep
  <2>4. CASE ClaimNext(w)
    BY <2>4, ClaimKeeps DEF StatusStep
  <2>5. CASE Heartbeat(w)
    BY <2>5, HeartbeatKeeps DEF StatusStep
  <2> QED BY <2>1, <2>2, <2>3, <2>4, <2>5
<1>2. CASE \E r \in Requests : Submit(r)
  BY <1>2, SubmitKeeps DEF StatusStep
<1>3. CASE \E e \in Executors : Execute(e) \/ Crash(e)
  BY <1>3, ExecuteKeeps, CrashKeeps DEF StatusStep
<1>4. CASE \E c \in Calls : ApplyControl(c)
  BY <1>4, ApplyKeeps DEF StatusStep
<1>5. CASE \E c \in Calls, k \in Keys, action \in Actions : Ask(c, k, action)
  BY <1>5, AskKeeps DEF StatusStep
<1>6. CASE Expire
  BY <1>6, ExpireKeeps DEF StatusStep
<1>7. CASE UNCHANGED vars
  BY <1>7 DEF vars, StatusStep, Inv, TaskOK, LeaseMeansRunning, ExecutorsOK, Looking,
              LeaseRanOut, CallsOK, CountersOK, Coherent
<1> QED BY <1>1, <1>2, <1>3, <1>4, <1>5, <1>6, <1>7 DEF Next

LEMMA InitKeeps == Init => Inv
<1> SUFFICES ASSUME Init PROVE Inv
  OBVIOUS
<1>1. PICK status \in {"queued", "running"} :
         task = [status |-> status, owner |-> NoWorker, lease |-> "none",
                 checkpoint |-> FALSE]
  BY DEF Init
<1>2. TaskOK
  BY <1>1 DEF TaskOK, Task, Status, LeaseMeansRunning
<1>3. ExecutorsOK
  BY IdleCoherent DEF Init, ExecutorsOK, Looking, Coherent, Executors
<1>4. CallsOK
  BY NotCallingTyped DEF Init, CallsOK
<1>5. CountersOK
  BY BoundAssumption DEF Init, CountersOK
<1> QED BY <1>2, <1>3, <1>4, <1>5 DEF Inv

LEMMA Invariance == Spec => []Inv
<1>1. Inv /\ [Next]_vars => Inv'
  BY StepKeeps
<1> QED BY InitKeeps, <1>1, PTL DEF Spec

-----------------------------------------------------------------------------
(* Theorems.                                                                 *)

(* Every reachable state is well-typed (the rows and records of agent/tasks  *)
(* and agent/task_executor).                                                 *)
THEOREM TypeCorrect == Spec => []TypeOK
<1>1. Inv => TypeOK
  BY DEF Inv, TaskOK, ExecutorsOK, CallsOK, CountersOK, TypeOK
<1> QED BY Invariance, <1>1, PTL

(* A lease belongs to a worker and to a task that somebody runs, for any     *)
(* number of executors without one (_transition_in_session, claim_next).     *)
THEOREM LeaseBelongs == Spec => []LeaseMeansRunning
<1>1. Inv => LeaseMeansRunning
  BY DEF Inv, TaskOK
<1> QED BY Invariance, <1>1, PTL

(* A task is not taken back while its lease is renewed: recovery writes only *)
(* what it read of an expired lease (recover_expired_leases).                *)
THEOREM LeaseKept == Spec => LeaseRespected
<1> DEFINE Respects == task.status = "running" /\ task.lease = "held"
                       /\ task'.status \in {"queued", "retry_wait"}
                       => \E e \in Executors : exec[e].at = "settling"
                                               /\ exec[e].seen = task'.status
<1>1. Inv /\ [Next]_vars => [Respects]_vars
  <2> SUFFICES ASSUME Inv, [Next]_vars PROVE Respects
    OBVIOUS
  <2>1. StatusStep
    BY StepKeeps
  <2>2. Targets \cap Edges["running"] \cap {"queued", "retry_wait"} = {}
    BY DEF Targets, Edges, Status
  <2> QED BY <2>1, <2>2 DEF StatusStep
<1> QED BY <1>1, Invariance, PTL DEF Spec, LeaseRespected

(* A control call moves the task once, however often and at whatever time it *)
(* is sent (_apply_control).                                                 *)
THEOREM RequestMovesOnce == Spec => EachRequestMovesOnce
<1> DEFINE Moves == \/ task.status \in {"paused", "failed", "retry_wait"}
                       /\ task'.status = "queued"
                    \/ task.status = "running" /\ task'.status \in Requested
           Once == Moves => \E k \in Keys \ applied : applied' = applied \cup {k}
<1>1. Inv /\ [Next]_vars => [Once]_vars
  <2> SUFFICES ASSUME Inv, [Next]_vars PROVE Once
    OBVIOUS
  <2>1. StatusStep
    BY StepKeeps
  <2>2. Outcomes \cap ({"queued"} \cup Requested) = {}
    BY DEF Outcomes, Requested
  <2> QED BY <2>1, <2>2 DEF StatusStep, Requested
<1> QED BY <1>1, Invariance, PTL DEF Spec, EachRequestMovesOnce

\* The edges of the code are the steps of the lifecycle.
LEMMA EdgesAreSteps ==
    ASSUME task.status \in Status, task'.status \in Edges[task.status]
    PROVE  Lifecycle!Next
<1> USE DEF Lifecycle!Next, Lifecycle!Start, Lifecycle!RequestPause, Lifecycle!RequestCancel,
        Lifecycle!Pause, Lifecycle!Cancel, Lifecycle!Resume, Lifecycle!TakeBack,
        Lifecycle!Fail, Lifecycle!Complete
<1>1. CASE task.status \in {"queued", "running", "pause_requested"}
  BY <1>1 DEF Edges, Status
<1>2. CASE task.status \notin {"queued", "running", "pause_requested"}
  BY <1>2 DEF Edges, Status
<1> QED BY <1>1, <1>2

(* Every execution keeps to the lifecycle, whoever executes, controls or     *)
(* recovers the task (TASK_TRANSITIONS and recover_expired_leases).          *)
THEOREM RefinesLifecycle == Spec => ImplementsLifecycle
<1>1. Init => Lifecycle!Init
  BY DEF Init, Lifecycle!Init
<1>2. Inv /\ [Next]_vars => [Lifecycle!Next]_(task.status)
  <2> SUFFICES ASSUME Inv, [Next]_vars, task'.status /= task.status PROVE Lifecycle!Next
    OBVIOUS
  <2>1. StatusStep
    BY StepKeeps
  <2>2. task.status \in Status
    BY DEF Inv, TaskOK, Task
  <2>3. CASE task'.status \in Edges[task.status]
    BY <2>2, <2>3, EdgesAreSteps
  <2>4. CASE task.status = "running" /\ task'.status \in {"queued", "retry_wait"}
    BY <2>4 DEF Lifecycle!Next, Lifecycle!TakeBack
  <2>5. CASE task.status = "queued" /\ task'.status = "running"
    BY <2>5 DEF Lifecycle!Next, Lifecycle!Start
  <2> QED BY <2>1, <2>3, <2>4, <2>5 DEF StatusStep
<1> QED BY <1>1, <1>2, Invariance, PTL DEF Spec, ImplementsLifecycle, Lifecycle!Spec
=============================================================================
