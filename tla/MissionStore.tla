---------------------------- MODULE MissionStore ----------------------------
(* The rows of one mission and the guards of every write to them:            *)
(* SqlAlchemyMissionStore (runtime/adapters/sql_store.py), the reducer       *)
(* apply_mission_event (runtime/domain/mission_events.py), the transition    *)
(* table (runtime/domain/state_machine.py) and the completion verifier       *)
(* (runtime/application/completion.py).                                      *)
(*                                                                           *)
(* A write is one transaction that locks the mission row, so it is one       *)
(* atomic step; Mission gives those steps to the processes that take them.   *)
(* The event log is not kept apart from the projection: each accepted write  *)
(* appends its event and applies it in the same transaction.                 *)
EXTENDS Naturals, Sequences, FiniteSets

CONSTANTS
    Workers,           \* processes that claim missions
    NoWorker,          \* the owner of a lease nobody holds
    Steps,             \* step ids a planner can use
    Contents,          \* capability and arguments of a step
    MaxPlanVersions    \* budget.max_plan_versions

ASSUME NoWorkerAssumption == NoWorker \notin Workers
ASSUME MaxPlanVersionsAssumption == MaxPlanVersions \in Nat \ {0}

VARIABLES
    mission,           \* the agent_missions row
    plans,             \* agent_plan_versions, by version
    attempts           \* agent_step_attempts, in the order they started

rows == <<mission, plans, attempts>>

-----------------------------------------------------------------------------
Terminal == {"completed", "failed", "canceled", "budget_exhausted"}

Status == Terminal \cup
    {"draft", "planning", "running", "replanning", "waiting_approval",
     "waiting_input", "retry_wait", "pause_requested", "paused",
     "cancel_requested"}

AttemptStatus == {"running", "succeeded", "failed", "unknown", "waiting_approval"}

\* A plan gives each of its step ids what the step does.
Plan == UNION {[S -> Contents] : S \in SUBSET Steps \ {{}}}
NoPlan == [s \in {} |-> s]

\* Version 0 stands for no proof: mission versions start at 1.
NoProof == [version |-> 0, passed |-> FALSE]

MissionRow == [status : Status, version : Nat, plan : 0..MaxPlanVersions,
               spent : BOOLEAN, canonical : BOOLEAN, fence : Nat,
               owner : Workers \cup {NoWorker}, leased : BOOLEAN,
               proof : [version : Nat, passed : BOOLEAN]]
AttemptRow == [step : Steps, content : Contents, plan : 1..MaxPlanVersions,
               attempt : Nat, status : AttemptStatus]

StoreTypeOK ==
    /\ mission \in MissionRow
    /\ plans \in [1..MaxPlanVersions -> Plan \cup {NoPlan}]
    /\ attempts \in Seq(AttemptRow)

StoreInit ==
    /\ mission = [status |-> "draft", version |-> 1, plan |-> 0,
                  spent |-> FALSE, canonical |-> TRUE, fence |-> 0,
                  owner |-> NoWorker, leased |-> FALSE, proof |-> NoProof]
    /\ plans = [v \in 1..MaxPlanVersions |-> NoPlan]
    /\ attempts = <<>>

-----------------------------------------------------------------------------
(* The transition table.                                                     *)

ALLOWED_TRANSITIONS ==
    [draft |-> {"planning", "waiting_approval", "waiting_input", "canceled", "failed"},
     planning |-> {"running", "waiting_input", "failed", "canceled"},
     running |-> {"replanning", "retry_wait", "waiting_approval", "waiting_input",
                  "pause_requested", "cancel_requested", "completed", "failed",
                  "budget_exhausted"},
     replanning |-> {"running", "waiting_input", "failed", "budget_exhausted",
                     "cancel_requested"},
     retry_wait |-> {"running", "pause_requested", "cancel_requested",
                     "budget_exhausted"},
     waiting_approval |-> {"running", "cancel_requested", "pause_requested"},
     waiting_input |-> {"replanning", "cancel_requested"},
     pause_requested |-> {"paused", "cancel_requested"},
     paused |-> {"running", "cancel_requested"},
     cancel_requested |-> {"canceled"}]

\* Mutant of the next definition: a failed mission may be resumed.
AllowedReopen(status) ==
    IF status \in Terminal THEN {"running"} ELSE ALLOWED_TRANSITIONS[status]

Allowed(status) ==
    IF status \in Terminal THEN {} ELSE ALLOWED_TRANSITIONS[status]

(* The guards that _append_canonical_with_event puts before the reducer: a   *)
(* quarantined mission is read-only, and a worker writes only under the      *)
(* current fencing token.  Token 0 is an operator's or an API call.          *)

\* Mutant of the next definition: whoever claimed once may write.
CurrentUnfenced(token) == mission.canonical

Current(token) == mission.canonical /\ token \in {0, mission.fence}

\* state_changed: the version moves on and a proof of the old one is dropped.
Touched == [mission EXCEPT !.version = @ + 1, !.proof = NoProof]

ProofCurrent == mission.proof.passed /\ mission.proof.version = mission.version

CanTransition(token, version, target) ==
    /\ mission.version = version
    /\ Current(token)
    /\ target \in Allowed(mission.status)
    /\ target = "completed" => ProofCurrent

\* The proof outlives the transition that it decides, and a terminal
\* transition clears the lease.
Transitioned(target) ==
    [mission EXCEPT
        !.status = target,
        !.version = @ + 1,
        !.proof = IF target \in {"completed", "waiting_input"} THEN @ ELSE NoProof,
        !.owner = IF target \in Terminal THEN NoWorker ELSE @,
        !.leased = @ /\ target \notin Terminal]

Transition(token, version, target) ==
    /\ CanTransition(token, version, target)
    /\ mission' = Transitioned(target)
    /\ UNCHANGED <<plans, attempts>>

-----------------------------------------------------------------------------
(* The other writes.                                                         *)

\* update_usage and set_current_step compare the version.
CanTouch(token, version) == mission.version = version /\ Current(token)

\* Mutant of the next definition: no limit on plan versions.
CanSavePlanUnlimited(token, version) ==
    Current(token) /\ version = mission.plan + 1

CanSavePlan(token, version) ==
    /\ Current(token)
    /\ version = mission.plan + 1
    /\ version <= MaxPlanVersions

\* Mutant of SavePlan: the plan is stored whatever version was saved since.
SavePlanAgain(token, version, plan) ==
    /\ Current(token)
    /\ version <= MaxPlanVersions
    /\ plans' = [plans EXCEPT ![version] = plan]
    /\ mission' = [Touched EXCEPT !.plan = version]
    /\ UNCHANGED attempts

SavePlan(token, version, plan) ==
    /\ CanSavePlan(token, version)
    /\ plans' = [plans EXCEPT ![version] = plan]
    /\ mission' = [Touched EXCEPT !.plan = version]
    /\ UNCHANGED attempts

StartAttempt(token, version, step, attempt) ==
    /\ Current(token)
    /\ attempts' = Append(attempts,
            [step |-> step, content |-> plans[version][step], plan |-> version,
             attempt |-> attempt, status |-> "running"])
    /\ UNCHANGED <<mission, plans>>

CompleteAttempt(token, n, status) ==
    /\ Current(token)
    /\ attempts[n].status = "running"
    /\ attempts' = [attempts EXCEPT ![n].status = status]
    /\ UNCHANGED <<mission, plans>>

\* The reducer binds the proof to the version it was computed for.
CanRecordProof(token, version) == Current(token) /\ version = mission.version

RecordProof(token, version, passed) ==
    /\ CanRecordProof(token, version)
    /\ mission' = [mission EXCEPT
                    !.proof = [version |-> mission.version, passed |-> passed]]
    /\ UNCHANGED <<plans, attempts>>

(* append_event alone quarantines in a transaction of its own; every other   *)
(* write rolls the quarantine back together with its own transaction.        *)
MustQuarantine(token) == mission.canonical /\ ~ Current(token)

Quarantined == [mission EXCEPT !.canonical = FALSE]

-----------------------------------------------------------------------------
(* The lease.                                                                *)

\* Mutant of Claimable: nobody takes up a mission that was let go running.
ClaimableOnce ==
    /\ mission.canonical
    /\ mission.status \in {"draft", "retry_wait", "replanning"}
    /\ ~ mission.leased

\* Mutant of the next definition: an expired lease still excludes.
ClaimableUnowned ==
    /\ mission.canonical
    /\ mission.status \in {"draft", "running", "retry_wait", "replanning"}
    /\ mission.owner = NoWorker

Claimable ==
    /\ mission.canonical
    /\ mission.status \in {"draft", "running", "retry_wait", "replanning"}
    /\ ~ mission.leased

\* Mutant of the next definition: the fencing token stays.
ClaimedUnfenced(w) ==
    [mission EXCEPT !.owner = w, !.leased = TRUE,
                    !.fence = IF @ = 0 THEN 1 ELSE @]

Claimed(w) == [mission EXCEPT !.owner = w, !.leased = TRUE, !.fence = @ + 1]

\* release does nothing for a worker that lost the lease.
Released(w) ==
    IF mission.owner = w /\ mission.canonical
    THEN [mission EXCEPT !.owner = NoWorker, !.leased = FALSE]
    ELSE mission

-----------------------------------------------------------------------------
(* What the attempts prove about a plan.                                     *)

\* plan.diff.kept, as both planners compute it: by step id.
Kept(v) == IF v = 1 THEN {} ELSE DOMAIN plans[v] \cap DOMAIN plans[v - 1]

Relevant(v) ==
    {n \in DOMAIN attempts :
        \/ attempts[n].plan = v
        \/ attempts[n].plan < v /\ attempts[n].step \in Kept(v)}

Completed(v) ==
    {attempts[n].step : n \in {k \in Relevant(v) : attempts[k].status = "succeeded"}}

Ready(v, needs) ==
    {s \in DOMAIN plans[v] \ Completed(v) :
        (needs[s] \cap DOMAIN plans[v]) \subseteq Completed(v)}

\* Mutant of the next definition: each plan version tries afresh.
TriesOfPlan(s) ==
    Cardinality({n \in DOMAIN attempts :
                    attempts[n].step = s /\ attempts[n].plan = mission.plan})

Tries(s) == Cardinality({n \in DOMAIN attempts : attempts[n].step = s})

\* Mutant of the next definition: attempts that are still open do not count.
NoGapsButSteps(v) == Completed(v) = DOMAIN plans[v]

\* verify: every step validated, nothing pending and no unknown effect.  Its
\* other gaps (criteria, evidence, context) are left to choice.
NoGaps(v) ==
    /\ Completed(v) = DOMAIN plans[v]
    /\ \A n \in Relevant(v) :
            attempts[n].status \notin {"running", "waiting_approval", "unknown"}
=============================================================================
