------------------------------ MODULE Mission -------------------------------
(* The processes that drive one mission: workers that claim it under a       *)
(* lease and run it (worker.py mission_worker_once), direct runs from the    *)
(* API or the CLI that hold no lease, and operators that pause, cancel,      *)
(* resume and steer (runtime/application/service.py MissionRuntime).         *)
(*                                                                           *)
(* A process reads the mission, decides, calls a planner or an executor and  *)
(* writes, each in a step of its own; what it decided on may be stale when   *)
(* it writes.  The bounds MaxClaims, MaxCrashes, MaxStalls and MaxCommands   *)
(* limit how often the environment interferes; nothing else is bounded, the  *)
(* runs are finite because attempts and plan versions are.                   *)
EXTENDS MissionStore

CONSTANTS
    Runners,       \* direct run() calls, without lease or fencing token
    Terminals,     \* those of them that the terminal client makes
    Operators,     \* control and steer requests
    Commands,      \* the commands that operators give
    NoStep,        \* the step of a process that works on none
    Needs,         \* depends_on: the step ids a step waits for
    MaxAttempts,   \* budget.max_attempts_per_step
    MaxClaims,     \* bound: how often the mission is claimed
    MaxCrashes,    \* bound: processes that die
    MaxStalls,     \* bound: leases of live workers that run out
    MaxCommands    \* bound: operator commands and direct runs

ASSUME MaxAttemptsAssumption == MaxAttempts \in Nat \ {0}
ASSUME NoStepAssumption == NoStep \notin Steps
ASSUME NeedsAssumption == Needs \in [Steps -> SUBSET Steps]
ASSUME CommandsAssumption == Commands \subseteq {"pause", "cancel", "resume", "steer"}
ASSUME ProcessesAssumption ==
    /\ Terminals \subseteq Runners
    /\ Workers \cap Runners = {}
    /\ Workers \cap Operators = {}
    /\ Runners \cap Operators = {}
ASSUME BoundsAssumption ==
    /\ MaxClaims \in Nat
    /\ MaxCrashes \in Nat
    /\ MaxStalls \in Nat
    /\ MaxCommands \in Nat

VARIABLES
    proc,          \* where each process is and what it read
    workerEnabled, \* the setting mission_runtime_worker_enabled
    crashes,
    stalls,
    commands

vars == <<mission, plans, attempts, proc, workerEnabled, crashes, stalls, commands>>

Processes == Workers \cup Runners \cup Operators

Places == {"idle", "run", "moving", "leaving", "plan", "planned", "ready", "proving",
           "stepping", "compiling", "starting", "executing", "observed",
           "counting", "failing", "reporting", "failed", "dying", "done",
           "steered"}

\* at, the fencing token, the mission version it holds, the plan version and
\* step it works on, the count and then the row of its attempt, the status it
\* is to write, and whether the proof it computed passed.
Process == [at : Places, token : Nat, version : Nat,
            plan : 0..MaxPlanVersions, step : Steps \cup {NoStep}, n : Nat,
            target : Status \cup {""}, passed : BOOLEAN]

Idle == [at |-> "idle", token |-> 0, version |-> 0, plan |-> 0, step |-> NoStep,
         n |-> 0, target |-> "", passed |-> FALSE]

Init ==
    /\ StoreInit
    /\ proc = [p \in Processes |-> Idle]
    /\ workerEnabled \in BOOLEAN
    /\ crashes = 0
    /\ stalls = 0
    /\ commands = 0

bounds == <<workerEnabled, crashes, stalls, commands>>

-----------------------------------------------------------------------------
(* How a process moves on.  It forgets what it no longer needs.              *)

Resting(p, place) ==
    [Idle EXCEPT !.at = place, !.token = proc[p].token]

Working(p, place, version) ==
    [Resting(p, place) EXCEPT !.version = version, !.plan = proc[p].plan]

Heading(p, target, version) ==
    [Working(p, "moving", version) EXCEPT !.target = target]

\* The transition is the last thing the call does.
Leaving(p, target, version) ==
    [Working(p, "leaving", version) EXCEPT !.target = target]

\* The end of a call: a worker still has its lease to release.
Ended(p) == IF p \in Workers THEN Resting(p, "done") ELSE Idle

\* An exception leaves run(): a worker records the failure.
Raised(p) == IF p \in Workers THEN Resting(p, "failing") ELSE Idle

Goto(p, state) == proc' = [proc EXCEPT ![p] = state]

\* Where a process goes with the mission it just moved to target.
After(p, target, version) ==
    CASE target = "planning"   -> [Working(p, "plan", version) EXCEPT !.plan = 0]
      [] target = "replanning" ->
            IF mission.plan = 0 THEN Raised(p)
            ELSE [Working(p, "plan", version) EXCEPT
                    !.plan = IF p \in Operators THEN mission.plan ELSE @]
      [] target = "retry_wait" -> Heading(p, "running", version)
      [] target = "running" /\ proc[p].at = "moving" -> Working(p, "ready", version)
      [] OTHER                 -> Ended(p)

\* _request_replan, with the plan budget checked on the mission it was given.
ReplanTarget == IF mission.plan >= MaxPlanVersions THEN "budget_exhausted"
                ELSE "replanning"

-----------------------------------------------------------------------------
(* Claim, heartbeat, release.                                                *)

Claim(w) ==
    /\ proc[w].at = "idle"
    /\ workerEnabled
    /\ Claimable
    /\ mission.fence < MaxClaims
    /\ mission' = Claimed(w)
    /\ Goto(w, [Idle EXCEPT !.at = "run", !.token = mission'.fence])
    /\ UNCHANGED <<plans, attempts, bounds>>

\* The heartbeat looks at the owner only: a lease that ran out but that
\* nobody claimed is renewed.
Heartbeat(w) ==
    /\ proc[w].at /= "idle"
    /\ mission.owner = w
    /\ mission.canonical
    /\ ~ mission.leased
    /\ mission' = [mission EXCEPT !.leased = TRUE]
    /\ UNCHANGED <<plans, attempts, proc, bounds>>

Release(w) ==
    /\ proc[w].at = "done"
    /\ mission' = Released(w)
    /\ Goto(w, Idle)
    /\ UNCHANGED <<plans, attempts, bounds>>

\* Nobody renews the lease of a dead worker; a live one may stall.
Expire ==
    /\ mission.leased
    /\ mission' = [mission EXCEPT !.leased = FALSE]
    /\ \/ proc[mission.owner].at = "idle" /\ UNCHANGED stalls
       \/ /\ proc[mission.owner].at /= "idle"
          /\ stalls < MaxStalls
          /\ stalls' = stalls + 1
    /\ UNCHANGED <<plans, attempts, proc, workerEnabled, crashes, commands>>

\* A process dies, or an API call is cut off, between two steps.
Crash(p) ==
    /\ proc[p].at /= "idle"
    /\ crashes < MaxCrashes
    /\ crashes' = crashes + 1
    /\ Goto(p, Idle)
    /\ UNCHANGED <<mission, plans, attempts, workerEnabled, stalls, commands>>

-----------------------------------------------------------------------------
(* run().                                                                    *)

\* The API runs a mission itself only where no worker does; the terminal
\* client does not look.
RunDirect(r) ==
    /\ proc[r].at = "idle"
    /\ workerEnabled => r \in Terminals
    /\ commands < MaxCommands
    /\ commands' = commands + 1
    /\ Goto(r, [Idle EXCEPT !.at = "run"])
    /\ UNCHANGED <<mission, plans, attempts, workerEnabled, crashes, stalls>>

\* The first read and, on it, the safe point and the gate of a draft.
Begin(p) ==
    LET heading(target) == Heading(p, target, mission.version) IN
    /\ proc[p].at = "run"
    /\ \/ mission.status = "pause_requested" /\ Goto(p, heading("paused"))
       \/ mission.status = "cancel_requested" /\ Goto(p, heading("canceled"))
       \/ mission.status = "retry_wait" /\ Goto(p, heading("running"))
       \/ mission.status = "running" /\ Goto(p, Working(p, "ready", mission.version))
       \/ /\ mission.status = "draft"
          /\ \E target \in {"canceled", "waiting_approval", "waiting_input",
                            "failed", "planning"} : Goto(p, heading(target))
       \/ /\ mission.status \notin {"pause_requested", "cancel_requested",
                                    "retry_wait", "running", "draft"}
          /\ Goto(p, Ended(p))
    /\ UNCHANGED <<mission, plans, attempts, bounds>>

Move(p) ==
    /\ proc[p].at \in {"moving", "leaving"}
    /\ Transition(proc[p].token, proc[p].version, proc[p].target)
    /\ Goto(p, After(p, proc[p].target, mission'.version))
    /\ UNCHANGED bounds

\* A planner answers with a plan, or the plan is refused: raised by the
\* validation, by the planner itself or by the store.
MakePlan(p) ==
    /\ proc[p].at = "plan"
    /\ \E plan \in Plan : SavePlan(proc[p].token, proc[p].plan + 1, plan)
    /\ Goto(p, [Working(p, "planned", 0) EXCEPT !.plan = mission'.plan])
    /\ UNCHANGED bounds

Replanned(p) ==
    /\ proc[p].at = "planned"
    /\ Goto(p, IF proc[p].plan = 1 THEN Heading(p, "running", mission.version)
               ELSE Leaving(p, "running", mission.version))
    /\ UNCHANGED <<mission, plans, attempts, bounds>>

-----------------------------------------------------------------------------
(* _execute(): the loop of a running mission.                                *)

\* The top of the loop.  A mission without a plan has no plans[-1].
Look(p) ==
    LET v == mission.plan
        heading(target) == [Heading(p, target, proc[p].version) EXCEPT !.plan = v]
        working(place) == [Working(p, place, proc[p].version) EXCEPT !.plan = v]
    IN
    /\ proc[p].at = "ready"
    /\ \/ mission.spent /\ Goto(p, heading("budget_exhausted"))
       \/ ~ mission.spent /\ v = 0 /\ Goto(p, Raised(p))
       \/ /\ ~ mission.spent /\ v > 0 /\ Completed(v) = DOMAIN plans[v]
          /\ \E passed \in {NoGaps(v), FALSE} :
                Goto(p, [working("proving") EXCEPT !.passed = passed])
       \/ /\ ~ mission.spent /\ v > 0
          /\ \E s \in Ready(v, Needs) :
                LET count == Tries(s) + 1 IN
                Goto(p, IF count > MaxAttempts THEN heading(ReplanTarget)
                        ELSE [working("stepping") EXCEPT !.step = s, !.n = count])
    /\ UNCHANGED <<mission, plans, attempts, bounds>>

Prove(p) ==
    /\ proc[p].at = "proving"
    /\ RecordProof(proc[p].token, proc[p].version, proc[p].passed)
    /\ Goto(p, Heading(p, IF proc[p].passed THEN "completed" ELSE "waiting_input",
                       proc[p].version))
    /\ UNCHANGED bounds

SetStep(p) ==
    /\ proc[p].at = "stepping"
    /\ CanTouch(proc[p].token, proc[p].version)
    /\ mission' = Touched
    /\ Goto(p, [proc[p] EXCEPT !.at = "compiling", !.version = mission'.version])
    /\ UNCHANGED <<plans, attempts, bounds>>

\* The context pack exceeds its budget, or its event is appended.
Compile(p) ==
    /\ proc[p].at = "compiling"
    /\ \/ /\ Goto(p, Heading(p, "budget_exhausted", proc[p].version))
          /\ UNCHANGED mission
       \/ /\ Current(proc[p].token)
          /\ Goto(p, [proc[p] EXCEPT !.at = "starting", !.version = 0])
          /\ UNCHANGED mission
       \/ /\ MustQuarantine(proc[p].token)
          /\ mission' = Quarantined
          /\ Goto(p, Raised(p))
    /\ UNCHANGED <<plans, attempts, bounds>>

Start(p) ==
    /\ proc[p].at = "starting"
    /\ StartAttempt(proc[p].token, proc[p].plan, proc[p].step, proc[p].n)
    /\ Goto(p, [proc[p] EXCEPT !.at = "executing", !.n = Len(attempts')])
    /\ UNCHANGED bounds

\* The executor answers, in its own time, and the observation is stored.
Observe(p, status) ==
    /\ proc[p].at = "executing"
    /\ CompleteAttempt(proc[p].token, proc[p].n, status)
    /\ Goto(p, [proc[p] EXCEPT !.at = "observed"])
    /\ UNCHANGED bounds

Refresh(p) ==
    /\ proc[p].at = "observed"
    /\ Goto(p, [proc[p] EXCEPT !.at = "counting", !.version = mission.version])
    /\ UNCHANGED <<mission, plans, attempts, bounds>>

\* Where the observation leads.  The error category and the retryable flag of
\* a failure are left to choice.
Verdict(p, version) ==
    LET row == attempts[proc[p].n] IN
    CASE row.status = "succeeded" ->
            {IF mission.status = "running" THEN Working(p, "ready", version) ELSE Ended(p)}
      [] row.status = "waiting_approval" -> {Heading(p, "waiting_approval", version)}
      [] OTHER ->
            {Heading(p, ReplanTarget, version), Heading(p, "failed", version)} \cup
            {Heading(p, "retry_wait", version) : k \in 1..(MaxAttempts - row.attempt)}

CountUsage(p) ==
    /\ proc[p].at = "counting"
    /\ CanTouch(proc[p].token, proc[p].version)
    /\ \E spent \in {mission.spent, TRUE} : mission' = [Touched EXCEPT !.spent = spent]
    /\ \E state \in Verdict(p, mission'.version) : Goto(p, state)
    /\ UNCHANGED <<plans, attempts, bounds>>

-----------------------------------------------------------------------------
(* Exceptions.  A write that the store refuses raises; so may the planner,   *)
(* the capability policy and the executor.                                   *)

Raises(p) ==
    \/ /\ proc[p].at \in {"moving", "leaving"}
       /\ ~ CanTransition(proc[p].token, proc[p].version, proc[p].target)
    \/ proc[p].at \in {"plan", "stepping", "compiling", "executing"}
    \/ proc[p].at = "proving" /\ ~ CanRecordProof(proc[p].token, proc[p].version)
    \/ proc[p].at = "starting" /\ ~ Current(proc[p].token)
    \/ proc[p].at = "counting" /\ ~ CanTouch(proc[p].token, proc[p].version)

Raise(p) ==
    /\ Raises(p)
    /\ Goto(p, Raised(p))
    /\ UNCHANGED <<mission, plans, attempts, bounds>>

\* The worker's exception handler: report, then fail the mission.
Rescue(w) ==
    /\ proc[w].at = "failing"
    /\ Goto(w, Resting(w, IF mission.status \in Terminal THEN "done" ELSE "reporting"))
    /\ UNCHANGED <<mission, plans, attempts, bounds>>

Report(w) ==
    /\ proc[w].at = "reporting"
    /\ mission' = IF MustQuarantine(proc[w].token) THEN Quarantined ELSE mission
    /\ Goto(w, Resting(w, IF Current(proc[w].token) THEN "failed" ELSE "done"))
    /\ UNCHANGED <<plans, attempts, bounds>>

Reread(w) ==
    /\ proc[w].at = "failed"
    /\ Goto(w, [Heading(w, "failed", mission.version) EXCEPT !.at = "dying"])
    /\ UNCHANGED <<mission, plans, attempts, bounds>>

Die(w) ==
    /\ proc[w].at = "dying"
    /\ \/ Transition(proc[w].token, proc[w].version, proc[w].target)
       \/ /\ ~ CanTransition(proc[w].token, proc[w].version, proc[w].target)
          /\ UNCHANGED rows
    /\ Goto(w, Ended(w))
    /\ UNCHANGED bounds

-----------------------------------------------------------------------------
(* Operators.                                                                *)

Control(o, command) ==
    /\ proc[o].at = "idle"
    /\ commands < MaxCommands
    /\ commands' = commands + 1
    /\ Goto(o, Leaving(o,
            CASE command = "pause"  -> "pause_requested"
              [] command = "resume" -> "running"
              [] OTHER -> IF mission.status = "draft" THEN "canceled"
                          ELSE "cancel_requested",
            mission.version))
    /\ UNCHANGED <<mission, plans, attempts, workerEnabled, crashes, stalls>>

\* steer appends whatever the status is, and then replans a running mission.
Steer(o) ==
    /\ proc[o].at = "idle"
    /\ commands < MaxCommands
    /\ commands' = commands + 1
    /\ Current(0)
    /\ mission' = Touched
    /\ Goto(o, Resting(o, "steered"))
    /\ UNCHANGED <<plans, attempts, workerEnabled, crashes, stalls>>

SteerReplan(o) ==
    /\ proc[o].at = "steered"
    /\ Goto(o, IF mission.status = "running"
               THEN Heading(o, "replanning", mission.version) ELSE Idle)
    /\ UNCHANGED <<mission, plans, attempts, bounds>>

-----------------------------------------------------------------------------
Runs(p) ==
    \/ Begin(p) \/ Move(p) \/ MakePlan(p) \/ Replanned(p)
    \/ Look(p) \/ Prove(p) \/ SetStep(p) \/ Compile(p) \/ Start(p)
    \/ \E status \in AttemptStatus \ {"running"} : Observe(p, status)
    \/ Refresh(p) \/ CountUsage(p) \/ Raise(p)

Works(w) == Runs(w) \/ Rescue(w) \/ Report(w) \/ Reread(w) \/ Die(w) \/ Release(w)

Finishes(o) ==
    SteerReplan(o) \/ Move(o) \/ MakePlan(o) \/ Replanned(o) \/ Raise(o)

Operates(o) ==
    \/ \E command \in Commands \ {"steer"} : Control(o, command)
    \/ "steer" \in Commands /\ Steer(o)
    \/ Finishes(o)

Next ==
    \/ \E w \in Workers : Claim(w) \/ Works(w) \/ Heartbeat(w)
    \/ \E r \in Runners : RunDirect(r) \/ Runs(r)
    \/ \E o \in Operators : Operates(o)
    \/ \E p \in Processes : Crash(p)
    \/ Expire

Spec == Init /\ [][Next]_vars

\* The fairness the code provides: workers poll and run until their call
\* ends (every planner, executor and store call returns or raises), an
\* operator's request runs to its end, and the lease of a dead worker runs
\* out with time.  Commands, crashes and stalls are never forced.
Fairness ==
    /\ \A w \in Workers : WF_vars(Claim(w)) /\ WF_vars(Works(w))
    /\ \A o \in Operators : WF_vars(Finishes(o))
    /\ WF_vars(Expire /\ UNCHANGED stalls)

FairSpec == Spec /\ Fairness

-----------------------------------------------------------------------------
TypeOK ==
    /\ StoreTypeOK
    /\ proc \in [Processes -> Process]
    /\ workerEnabled \in BOOLEAN
    /\ crashes \in 0..MaxCrashes
    /\ stalls \in 0..MaxStalls
    /\ commands \in 0..MaxCommands

(* However leases expire, workers die and come back, two workers never hold  *)
(* the same fencing token, and the worker that owns the lease holds the      *)
(* current one.                                                              *)
OneFencedWriter ==
    \A w \in Workers :
        /\ proc[w].at /= "idle" => proc[w].token \in 1..mission.fence
        /\ proc[w].at /= "idle" /\ mission.owner = w => proc[w].token = mission.fence
        /\ \A x \in Workers \ {w} :
                proc[w].at /= "idle" /\ proc[x].at /= "idle" =>
                    proc[w].token /= proc[x].token

(* The attempt budget of a step holds across retries, replans, crashes and   *)
(* takeovers of the mission by another worker.                               *)
AttemptsWithinBudget ==
    \A s \in Steps :
        Cardinality({n \in DOMAIN attempts : attempts[n].step = s}) <= MaxAttempts

(* At the moment a mission is completed its active plan has a success for    *)
(* every step, no attempt of it is open and no effect is unknown: what the   *)
(* verifier saw some steps earlier is still so.                              *)
CompletesOnlyDone ==
    [][mission.status /= "completed" /\ mission'.status = "completed" =>
            /\ mission.plan > 0
            /\ Completed(mission.plan) = DOMAIN plans[mission.plan]
            /\ \A n \in Relevant(mission.plan) :
                    attempts[n].status \in {"succeeded", "failed"}]_vars

(* A worker that lost its lease changes nothing any more, unless to put the  *)
(* mission in quarantine.                                                    *)
StaleWorkerWritesNothing ==
    [][\A w \in Workers :
            /\ proc[w].at /= "idle"
            /\ proc[w].token /= mission.fence
            /\ proc'[w] /= proc[w]
            => /\ UNCHANGED <<plans, attempts>>
               /\ mission' \in {mission, Quarantined}]_vars

(* Plan versions are history: whoever replans, from whatever it read, adds   *)
(* the next version and overwrites none.                                     *)
PlansAppendOnly ==
    [][\A v \in 1..MaxPlanVersions :
            plans'[v] /= plans[v] => plans[v] = NoPlan /\ v = mission.plan + 1]_vars

(* No step is dispatched for a mission that ended, is paused or waits for a  *)
(* human; a worker that was past its safe point when the mission was stopped *)
(* does not slip one in.                                                     *)
NoDispatchWhenStopped ==
    [][Len(attempts') > Len(attempts) =>
            mission.status \in {"running", "replanning", "pause_requested",
                                "cancel_requested"}]_vars

(* The status that operators and workers see moves along the lifecycle.      *)
Lifecycle == INSTANCE MissionLifecycle WITH
    status <- mission.status,
    validated <- mission.plan > 0 /\ NoGaps(mission.plan),
    frozen <- ~ mission.canonical

ImplementsLifecycle == Lifecycle!Spec

-----------------------------------------------------------------------------
(* Liveness.                                                                 *)
Settled == Terminal \cup {"waiting_approval", "waiting_input", "paused"}

(* Left to workers that do not die, a mission ends, or waits for a human, or *)
(* is put in quarantine.                                                     *)
EventuallySettles ==
    workerEnabled =>
        <>(mission.status \in Settled \/ ~ mission.canonical \/ crashes > 0)

(* A mission that was running when its worker died is taken up again.        *)
RunningGoesOn ==
    workerEnabled /\ mission.status \in {"running", "retry_wait"} ~>
        (mission.status \notin {"running", "retry_wait"} \/ ~ mission.canonical)

-----------------------------------------------------------------------------
(* What the documents say and the code does not do.                          *)

(* A pause takes effect at the next safe point of the worker.                *)
PauseTakesEffect ==
    workerEnabled /\ mission.status = "pause_requested" ~> mission.status /= "pause_requested"

(* A mission whose worker died while it planned is resumed.                  *)
PlanningEnds ==
    workerEnabled /\ mission.status = "planning" ~> mission.status /= "planning"

(* The successes that complete a plan are of the steps that it contains.     *)
CompletedAsPlanned ==
    mission.status = "completed" =>
        \A s \in DOMAIN plans[mission.plan] :
            \E n \in DOMAIN attempts :
                /\ attempts[n].step = s
                /\ attempts[n].status = "succeeded"
                /\ attempts[n].content = plans[mission.plan][s]

=============================================================================
