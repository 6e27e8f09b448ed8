------------------------------ MODULE AgentTask ------------------------------
(* One durable agent task: AgentTaskService (agent/tasks.py) over its row,   *)
(* AgentTaskExecutor.execute_chat (agent/task_executor.py) as a worker       *)
(* (agent_task_worker_once, worker.py) or a request of the API or the        *)
(* terminal runs it, and the controls of an operator.                        *)
(*                                                                           *)
(* Every transaction but one locks the row first, and is one action here.    *)
(* recover_expired_leases reads without a lock; what keeps it from writing   *)
(* over a newer row is the unique sequence of the task's events, as every    *)
(* other change of its columns appends an event.  A reader therefore keeps   *)
(* only whether an event was appended since it read.                         *)
EXTENDS Naturals, FiniteSets

CONSTANTS
    Workers,       \* worker processes
    Requests,      \* calls of the API or the terminal that execute the task
    Calls,         \* calls of pause, resume, cancel and retry under way
    Keys,          \* idempotency keys of those calls, fewer than 100
    NoWorker,      \* lease_owner of a row without a lease
    NoKey,
    MaxCrashes     \* bound: executors that die

ASSUME ActorsAssumption == Workers \cap Requests = {} /\ NoWorker \notin Workers
ASSUME KeysAssumption == NoKey \notin Keys
ASSUME BoundAssumption == MaxCrashes \in Nat

VARIABLES
    task,          \* agent_tasks: the row of the task
    applied,       \* the keys in control_json.requests
    exec,          \* where each worker and request is
    call,          \* where each control call is and what it read
    crashes        \* bound counter

vars == <<task, applied, exec, call, crashes>>

Executors == Workers \cup Requests

Status == {"queued", "running", "pause_requested", "paused",
           "cancel_requested", "canceled", "retry_wait", "failed", "completed"}

\* No transition of the code leads to awaiting_approval, so it is left out.
Edges == [queued           |-> {"running", "paused", "canceled"},
          running          |-> {"pause_requested", "cancel_requested",
                                "retry_wait", "failed", "completed"},
          pause_requested  |-> {"paused", "cancel_requested", "failed"},
          paused           |-> {"queued", "canceled"},
          cancel_requested |-> {"canceled", "failed"},
          retry_wait       |-> {"queued", "canceled", "failed"},
          failed           |-> {"queued"},
          canceled         |-> {},
          completed        |-> {}]

Requested == {"pause_requested", "cancel_requested"}

Terminal == {"canceled", "failed", "completed"}

\* lease: none, or whether lease_expires_at has passed.
Task == [status : Status, owner : Workers \cup {NoWorker},
         lease : {"none", "held", "expired"}, checkpoint : BOOLEAN]

Place == {"idle", "recovering", "begin", "starting", "emitting", "running",
          "raised", "stopped", "returned", "settling", "gone"}

\* seen: why the kernel stopped, then the status to settle the task in.
Seen == Requested \cup {"none", "timeout", "error", "paused", "canceled",
                        "retry_wait", "failed", "completed"}

Exec == [at : Place, seen : Seen, beats : BOOLEAN, fresh : BOOLEAN]

Call == [at : {"idle", "applying"}, key : Keys \cup {NoKey}, target : Status]

Actions == {"pause", "resume", "cancel", "retry"}

NotCalling == [at |-> "idle", key |-> NoKey, target |-> "queued"]

Idle == [at |-> "idle", seen |-> "none", beats |-> FALSE, fresh |-> FALSE]

\* A request is a single call; a worker polls again.
Done(e) == IF e \in Workers THEN Idle ELSE [Idle EXCEPT !.at = "gone"]

\* A task for the workers, or one reserved for the request that created it
\* (start_immediately).
Init ==
    /\ \E status \in {"queued", "running"} :
          task = [status |-> status, owner |-> NoWorker, lease |-> "none",
                  checkpoint |-> FALSE]
    /\ applied = {}
    /\ exec = [e \in Executors |-> Idle]
    /\ call = [c \in Calls |-> NotCalling]
    /\ crashes = 0

-----------------------------------------------------------------------------
(* _transition_in_session and append_in_session.                             *)

\* The row after a transition; terminal and waiting rows have no lease.
Moved(target) ==
    IF target \in Terminal \cup {"paused", "retry_wait", "queued"}
    THEN [task EXCEPT !.status = target, !.owner = NoWorker, !.lease = "none"]
    ELSE [task EXCEPT !.status = target]

CanMove(target) == target = task.status \/ target \in Edges[task.status]

\* Executor e goes on as rec, after an event that makes other copies old.
Journals(e, rec) ==
    exec' = [x \in Executors |-> IF x = e THEN rec
                                 ELSE [exec[x] EXCEPT !.fresh = FALSE]]

\* Executor e goes on as rec and the task is in the target, or was already.
MovesTo(target, e, rec) ==
    IF target = task.status
    THEN exec' = [exec EXCEPT ![e] = rec] /\ UNCHANGED task
    ELSE task' = Moved(target) /\ Journals(e, rec)

Goto(e, at) == exec' = [exec EXCEPT ![e].at = at]

-----------------------------------------------------------------------------
(* claim_next: recover_expired_leases, then the oldest queued task.          *)

\* Mutant of the next definition: a task without a checkpoint is left alone.
ResumableRanOut == task.status = "running" /\ task.lease = "expired" /\ task.checkpoint

LeaseRanOut == task.status = "running" /\ task.lease = "expired"

FindExpiredLease(w) ==
    /\ exec[w].at = "idle"
    /\ LeaseRanOut
    /\ exec' = [exec EXCEPT ![w].at = "recovering", ![w].fresh = TRUE]
    /\ UNCHANGED <<task, applied, call, crashes>>

\* Mutant of the next definition: the events carry no unique sequence.
NeverCollides(w) == TRUE

Recoverable(w) == exec[w].fresh

\* With a checkpoint the task is queued again, in the same transaction.
\* The columns that were read are written over the row as it is now; when an
\* event was appended meanwhile, the sequence collides and claim_next raises.
RecoverExpiredLease(w) ==
    /\ exec[w].at = "recovering"
    /\ IF Recoverable(w)
       THEN /\ task' = Moved(IF task.checkpoint THEN "queued" ELSE "retry_wait")
            /\ Journals(w, Idle)
       ELSE exec' = [exec EXCEPT ![w] = Idle] /\ UNCHANGED task
    /\ UNCHANGED <<applied, call, crashes>>

\* Locks the task with SKIP LOCKED, so that one worker gets it.
ClaimNext(w) ==
    /\ exec[w].at = "idle"
    /\ task.status = "queued"
    /\ task' = [task EXCEPT !.status = "running", !.owner = w, !.lease = "held"]
    /\ Journals(w, [Idle EXCEPT !.at = "begin", !.beats = TRUE])
    /\ UNCHANGED <<applied, call, crashes>>

\* The thread beside the executor; it ends when the task is not its own.
Heartbeat(w) ==
    /\ exec[w].beats
    /\ IF task.status = "running" /\ task.owner = w
       THEN task' = [task EXCEPT !.lease = "held"] /\ Journals(w, exec[w])
       ELSE exec' = [exec EXCEPT ![w].beats = FALSE] /\ UNCHANGED task
    /\ UNCHANGED <<applied, call, crashes>>

\* Time passes.
Expire ==
    /\ task.lease = "held"
    /\ task' = [task EXCEPT !.lease = "expired"]
    /\ UNCHANGED <<applied, exec, call, crashes>>

-----------------------------------------------------------------------------
(* execute_chat.                                                             *)

\* Also the replay of a request whose task exists already.
Submit(r) ==
    /\ exec[r].at = "idle"
    /\ Goto(r, "begin")
    /\ UNCHANGED <<task, applied, call, crashes>>

Begin(e) ==
    /\ exec[e].at = "begin"
    /\ CASE task.status = "queued"  -> Goto(e, "starting")
         [] task.status = "running" -> Goto(e, "emitting")
         [] OTHER                   -> exec' = [exec EXCEPT ![e] = Done(e)]
    /\ UNCHANGED <<task, applied, call, crashes>>

Start(e) ==
    /\ exec[e].at = "starting"
    /\ IF CanMove("running")
       THEN MovesTo("running", e, [exec[e] EXCEPT !.at = "emitting"])
       ELSE exec' = [exec EXCEPT ![e] = Done(e)] /\ UNCHANGED task
    /\ UNCHANGED <<applied, call, crashes>>

\* The event sink: an event of the kernel, then a look at the status.
\* TaskControlInterrupted leaves the kernel at once from its first and last
\* event, and through its handler from any other.
Emit(e) ==
    /\ exec[e].at \in {"emitting", "running"}
    /\ IF task.status \in Requested
       THEN \E at \in {"raised", "stopped"} :
               Journals(e, [exec[e] EXCEPT !.at = at, !.seen = task.status])
       ELSE Journals(e, [exec[e] EXCEPT !.at = "running"])
    /\ UNCHANGED <<task, applied, call, crashes>>

KernelFails(e) ==
    /\ exec[e].at = "running"
    /\ \E seen \in {"timeout", "error"} :
          exec' = [exec EXCEPT ![e].at = "raised", ![e].seen = seen]
    /\ UNCHANGED <<task, applied, call, crashes>>

\* The handler emits run_failed, and the sink looks again.
EmitFailed(e) ==
    /\ exec[e].at = "raised"
    /\ Journals(e, [exec[e] EXCEPT !.at = "stopped",
                       !.seen = IF task.status \in Requested THEN task.status ELSE @])
    /\ UNCHANGED <<task, applied, call, crashes>>

KernelReturns(e) ==
    /\ exec[e].at = "running"
    /\ Goto(e, "returned")
    /\ UNCHANGED <<task, applied, call, crashes>>

\* Mutant of the next definition: not the name of a status.
SettlesInTimeout == [pause_requested |-> "paused", cancel_requested |-> "canceled",
                     timeout |-> "timed_out", error |-> "failed"]

SettlesIn == [pause_requested |-> "paused", cancel_requested |-> "canceled",
              timeout |-> "retry_wait", error |-> "failed"]

\* TaskCheckpointService.create for a kernel that raised.
Checkpoint(e) ==
    /\ exec[e].at = "stopped"
    /\ task' = [task EXCEPT !.checkpoint = TRUE]
    /\ Journals(e, [exec[e] EXCEPT !.at = "settling", !.seen = SettlesIn[exec[e].seen]])
    /\ UNCHANGED <<applied, call, crashes>>

\* For one that returned: create and update_usage, then the budget decides.
Account(e) ==
    /\ exec[e].at = "returned"
    /\ task' = [task EXCEPT !.checkpoint = TRUE]
    /\ \E outcome \in {"completed", "failed"} :
          Journals(e, [exec[e] EXCEPT !.at = "settling", !.seen = outcome])
    /\ UNCHANGED <<applied, call, crashes>>

\* Mutant of the next definition: the transition is not checked.
AlwaysSettles(e) == TRUE

\* InvalidTaskTransition is raised otherwise, and the status stays.
CanSettle(e) == CanMove(exec[e].seen)

Settle(e) ==
    /\ exec[e].at = "settling"
    /\ IF CanSettle(e)
       THEN MovesTo(exec[e].seen, e, Done(e))
       ELSE exec' = [exec EXCEPT ![e] = Done(e)] /\ UNCHANGED task
    /\ UNCHANGED <<applied, call, crashes>>

\* The process dies with its heartbeat.
Crash(e) ==
    /\ exec[e].at \notin {"idle", "gone"}
    /\ crashes < MaxCrashes
    /\ crashes' = crashes + 1
    /\ exec' = [exec EXCEPT ![e] = Done(e)]
    /\ UNCHANGED <<task, applied, call>>

-----------------------------------------------------------------------------
(* pause, resume, cancel and retry: the target is chosen from a row that is  *)
(* read before the one that _apply_control locks.                            *)

Target(action) ==
    CASE action = "pause"  -> IF task.status = "running" THEN "pause_requested" ELSE "paused"
      [] action = "cancel" -> IF task.status \in {"running", "pause_requested"}
                              THEN "cancel_requested" ELSE "canceled"
      [] OTHER             -> "queued"

Accepts(action) ==
    /\ action = "resume" => task.status = "paused"
    /\ action = "retry"  => task.status \in {"failed", "retry_wait"}

Ask(c, k, action) ==
    /\ call[c].at = "idle"
    /\ k \notin applied
    /\ Accepts(action)
    /\ call' = [call EXCEPT ![c] = [at |-> "applying", key |-> k,
                                    target |-> Target(action)]]
    /\ UNCHANGED <<task, applied, exec, crashes>>

\* Mutant of the next definition: the key is only looked up before the lock.
NeverApplied(c) == FALSE

WasApplied(c) == call[c].key \in applied

\* _apply_control
ApplyControl(c) ==
    LET target == call[c].target IN
    /\ call[c].at = "applying"
    /\ call' = [call EXCEPT ![c] = NotCalling]
    /\ IF ~ WasApplied(c) /\ CanMove(target)
       THEN /\ applied' = applied \cup {call[c].key}
            /\ task' = IF target = task.status THEN task ELSE Moved(target)
            /\ exec' = [e \in Executors |->
                           IF target = task.status THEN exec[e]
                           ELSE [exec[e] EXCEPT !.fresh = FALSE]]
       ELSE UNCHANGED <<task, applied, exec>>
    /\ UNCHANGED crashes

-----------------------------------------------------------------------------
Execute(e) ==
    \/ Begin(e) \/ Start(e) \/ Emit(e) \/ KernelFails(e) \/ EmitFailed(e)
    \/ KernelReturns(e) \/ Checkpoint(e) \/ Account(e) \/ Settle(e)

Next ==
    \/ \E w \in Workers : FindExpiredLease(w) \/ RecoverExpiredLease(w) \/ ClaimNext(w) \/ Heartbeat(w)
    \/ \E r \in Requests : Submit(r)
    \/ \E e \in Executors : Execute(e) \/ Crash(e)
    \/ \E c \in Calls : ApplyControl(c)
    \/ \E c \in Calls, k \in Keys, action \in Actions : Ask(c, k, action)
    \/ Expire

Spec == Init /\ [][Next]_vars

\* Workers keep polling, and time passes for a lease that nobody renews.  A
\* recovery may collide with the events of an executor that goes on without
\* the lease, but not for ever.
Dead == /\ task.status = "running" /\ task.owner \in Workers
        /\ ~ exec[task.owner].beats

Fairness ==
    /\ WF_vars(Dead /\ Expire)
    /\ \A w \in Workers :
          /\ WF_vars(FindExpiredLease(w)) /\ WF_vars(ClaimNext(w))
          /\ WF_vars(RecoverExpiredLease(w))
          /\ SF_vars(Recoverable(w) /\ RecoverExpiredLease(w))
          /\ WF_vars(Heartbeat(w))
          /\ WF_vars(Execute(w))
          /\ SF_vars(KernelReturns(w))

FairSpec == Spec /\ Fairness

-----------------------------------------------------------------------------
(* Properties.                                                               *)

\* Type invariant of the row, the executors and the control calls.
TypeOK ==
    /\ task \in Task
    /\ applied \subseteq Keys
    /\ exec \in [Executors -> Exec]
    /\ call \in [Calls -> Call]
    /\ crashes \in 0..MaxCrashes

\* A lease belongs to a worker and to a task that somebody runs, whatever
\* recoveries, controls and executors without a lease do to the row.
LeaseMeansRunning ==
    /\ task.lease = "none" <=> task.owner = NoWorker
    /\ task.lease /= "none" => task.status \in {"running"} \cup Requested

Lifecycle == INSTANCE TaskLifecycle WITH status <- task.status

\* The task keeps to its lifecycle, although executors without the lease
\* settle it and a recovery writes a row it read without a lock: what is
\* completed or canceled stays so, and a pause or a cancellation that was
\* asked for is not run over.
ImplementsLifecycle == Lifecycle!Spec

\* While the worker renews its lease in time the task is not taken back from
\* it; only an executor that gives up after a timeout may do so
\* (recover_expired_leases against heartbeat).
LeaseRespected ==
    [][task.status = "running" /\ task.lease = "held"
         /\ task'.status \in {"queued", "retry_wait"}
         => \E e \in Executors : exec[e].at = "settling" /\ exec[e].seen = task'.status]_vars

\* A control call that is sent again, also at the same time, moves the task
\* once: only a key that was not seen before queues a task that waits or
\* failed, or asks for a pause or a cancellation (_apply_control).
EachRequestMovesOnce ==
    [][\/ task.status \in {"paused", "failed", "retry_wait"} /\ task'.status = "queued"
       \/ task.status = "running" /\ task'.status \in Requested
       => \E k \in Keys \ applied : applied' = applied \cup {k}]_vars

\* The task of a worker that died while it ran it does not stay running
\* (claim_next recovers expired leases before it claims).
DeadWorkersTaskGoesOn == Dead ~> task.status /= "running"

\* docs/qa/sprint-96-agent-sessions-task-control.md:18: a running task is
\* paused at a safe point of its executor.
PausedAtSafePoint ==
    [][task.status = "pause_requested" /\ task'.status = "paused"
         => \E e \in Executors : exec[e].at = "settling" /\ exec'[e] = Done(e)]_vars
=============================================================================
