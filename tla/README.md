# HyperTrade in TLA+

HyperTrade is a trading-research back end (Python, SQLAlchemy, FastAPI): an LLM
agent plans and executes research missions, writes to external systems through
governed effects, and runs strategies on paper through the service BitPro. These
modules model the parts of it in which several processes share database rows and
an external system, the parts where a unit test sees one order of events out of
thousands. Paths below are relative to `src/backend/src/hypertrade/` unless they
start with `src/`.

* [Inventory](#inventory): the parts of the system, what is modelled of them
* [How the parts interact](#how-the-parts-interact)
* [Modules and the code they model](#modules-and-the-code-they-model)
* [Runs](#runs), [bounds](#bounds-and-symmetry), [fairness](#fairness)
* [Proofs](#proofs) and [what is only model-checked](#what-is-only-model-checked)
* [Where the code and its documents differ](#where-the-code-and-its-documents-differ)
* [Not modelled](#not-modelled) and [plan](#plan)

## Inventory

| component | code | state it keeps | operations | what is hard | correct when |
|---|---|---|---|---|---|
| Effect dispatch and reconciliation | `runtime/application/effect_governance.py`, `runtime/adapters/effect_store.py` | `agent_dispatch_intents`, `agent_tool_calls` | execute, reconcile, recover_orphan | crashes between mark, call and acknowledgement; late answers; two executors | a write is handed out once, and what is recorded as settled is true |
| Policy decisions and approvals | the same two files | `agent_policy_decisions`, `agent_approvals` | evaluate, request, grant, deny, revoke, prepare_dispatch | whole-row writes of old copies; two callers of one grant; expiry | an approval is spent once, in time, on what it covers |
| Circuit breaker | the same two files | `agent_effect_circuits` | circuit_preflight, circuit_failure, circuit_success, override_circuit | optimistic versions, lost increments, early probes | no failure lost, cooldown kept, closes again |
| Mission store and state machine | `runtime/adapters/sql_store.py`, `runtime/domain/` | `agent_missions` (lease, fencing token, proof), events, plans, attempts | claim_next, heartbeat, release, append_event, save_plan, start/complete attempt | stale writers, quarantine, versions | only the holder of the lease writes |
| Mission runtime and worker | `runtime/application/service.py`, `worker.py` | the loop's local copies | run, replan, steer, pause, resume, cancel, rescue | operator commands at any point of the loop; takeover | completes only what was done; settles |
| Agent tasks | `agent/tasks.py`, `agent/task_executor.py` | `agent_tasks`, events, checkpoints | claim_next, recovery, heartbeat, execute_chat, pause/resume/cancel/retry | executors without a lease; recovery that reads without a lock | the task keeps its lifecycle |
| Threads and turns | `runtime/application/thread_service.py`, `runtime/adapters/thread_store.py`, `runtime/domain/thread_turn.py` | `agent_threads`, turns, items, events, lease | start_turn, execute_turn, interrupt, archive, reads that schedule | two API processes on one turn; deliveries that died half-way; interrupts | a turn ends once, completed only by a completed mission |
| ARC projection and journal | `arc/store.py`, `arc/event_migration.py` | `arc_missions` row and `arc_mission_events`, a cached copy per process | commit_event, save_mission, get_controller, migration | failed transactions, torn reads, mixed releases | the projection is the replay of the journal |
| ARC paper review, effects, observation | `arc/paper_review.py`, `arc/incubation.py`, `arc/paper_effect_reconcile.py`, `arc/observation*.py`, `arc/avo.py`, `arc/router.py` | the mission's review, effect journal and observation; the session in BitPro | request, decide, create and start the session, adopt, observe, end | lost answers, crashes, sweeps that overlap, continuations | started once; the mission says what is so |
| Supervisor and assignments | `runtime/application/supervisor.py` | assignments, budget reservations | reserve, assign, settle | reservations from old snapshots | budgets hold |
| ARC research budget and evolution | `arc/research_budget.py`, `arc/avo.py` | admissions, cooldowns, variants | admit, refund, evolve | counters at their limit | spend within budget |
| Tool runtime, context engine, research graph, paper and live trading, portfolios, tokens, market data, front end | `runtime/adapters/tool_runtime.py`, `agent/kernel.py`, `paper/`, `live/`, ... | see [Not modelled](#not-modelled) | | | |

`PROJECT.json` lists every component with its status, and every hazard with the
line of code where it bites.

## How the parts interact

    thread: turn -> create mission, await it, deliver its answer
        |
    operator, terminal, API            worker processes
        |  pause, steer, ...              |  claim_next, heartbeat
        v                                 v
    Mission runtime (service.run) --- mission row: lease, fencing token, version
        |  attempts (tools)
        v
    prepare_dispatch --- decision, approval --- effect intent
        |                                        |
        v                                        v
    execute --- circuit (preflight, failure, success) --- adapter --- external system
        ^                                                                |
        +--------------- reconcile, recover_orphan <---------------------+

    research loop (arc/avo) -> review -> create session -> start session -> observation
            all through commit_event of the ARC store (projection + journal)

The components share nothing but database rows and the external system, so a
module models one set of rows and every process that reads or writes them.
`Mission` is built on `MissionStore` (it EXTENDS it): every step of the runtime
is a call of the store. `Approval` ends where `EffectDispatch` begins, with an
intent in status prepared. `EffectCircuit` is the third row that execute and
reconcile touch; it is a module of its own because the code commits it in
transactions of its own. `ArcPaper` relies on what `ArcStore` shows: that an
event committed to a mission is one atomic step of its projection. `ThreadTurn` sees
of a mission its status, the results of its attempts and whether its objective is one
that is answered without regard to the status; what it lets workers and operators do
with them is coarser than `Mission`.

## Modules and the code they model

Every definition that models code is in the `map` of `PROJECT.json` with its lines.
An action is a transaction, or the local computation between two of them: that is
the granularity at which processes interleave. A process that read a row keeps the
copy in its own record, and an action that writes uses the copy, as the code does.
All models assume PostgreSQL: row locks of `SELECT ... FOR UPDATE`, READ COMMITTED.

| modules | models | abstract specification |
|---|---|---|
| `EffectDispatch`, `MCEffectDispatch`, `EffectDispatchProofs` | execute, reconcile, recover_orphan, the adapter's request on its way | `OneShotWrite`: a write is sent at most once and its outcome is announced once |
| `Approval`, `MCApproval`, `ApprovalProofs` | decisions, approval requests, prepare_dispatch | `ApprovalLedger`: pending, approved, consumed, or refused for good |
| `EffectCircuit`, `MCEffectCircuit`, `EffectCircuitProofs` | the circuit row and its callers | |
| `MissionStore`, `Mission`, `MCMission`, `MissionProofs` | store, runtime, worker, terminal, operator | `MissionLifecycle`: the edges of the lifecycle |
| `AgentTask`, `MCAgentTask`, `AgentTaskProofs` | task row, executors, control calls | `TaskLifecycle`: what a watcher of the status may see |
| `ThreadTurn`, `MCThreadTurn`, `ThreadTurnProofs` | a thread, its turns, the API processes that execute them, interrupts, what a delivery reads of the mission of a turn | `TurnProtocol`: one open turn, each ends once and completes only proven, an archived thread stays closed |
| `ArcStore`, `MCArcStore`, `ArcStoreProofs` | projection, journal, cached copies, migration | `ArcJournal`: a history that only grows and reports what it holds |
| `ArcPaper`, `MCArcPaper`, `ArcPaperProofs` | one mission from a validated candidate to the end of its observation | |

**EffectDispatch.** The intent row and the tool-call row are separate variables, since
the code keeps and compares the status in both. The write-ahead mark, the call of the
adapter and the acknowledgement are steps of their own; the call is a message that may land while the
executor waits, after its timeout, after its death, or never. The external system
counts how often the write landed. Manual-only intents are those whose adapter cannot
be asked. A crash forgets the process's local state and nothing else.

**Approval.** One mission; a decision stands for its arguments, subject and hash
bindings (the operators compare decisions where the code compares hashes), `expired`
stands for the clock. CheckFence and CreateDispatch are the two queries of one
transaction: the first locks nothing, which is the point. The status expired that
create_dispatch writes before it raises is rolled back with its transaction, and is
not a step here. Passing runs set MaxFence to 0; see the table of differences.

**EffectCircuit.** The version column is abstracted to `fresh`: a copy is fresh until
another write lands. A stale copy loses the compare-and-set and reads again, at most
three tries. The failure counter is capped at MaxFailures. A first failure that
collides with the insertion of the row is not retried, as in the code.

**MissionStore and Mission.** `MissionStore` has one operator per store method: what
it checks, what it changes, and the quarantine when the token is stale. `Mission`
is service.run cut at its store calls: Look (the reads of plan and attempts, merged),
planning, starting a step, the tool call, completing it, verification, proof,
completion, replanning and the safe points. Token 0 stands for writes without a lease
(API, terminal). The API's direct run excludes the worker by a flag (main.py:1891,
worker.py:118), the terminal client does not look at it, so `Terminals` is separate.
The terminal's pause and cancel call run() afterwards (cli.py:2098-2099), those of the
API do not. A replan requested inside a step leaves the loop, the mission is released
running and claimed again. Any ready step may be picked; the verifier may refuse
whenever it could pass.

**AgentTask.** A transaction locks the row, except the recovery of expired leases,
which reads without a lock and is protected only by the unique sequence of the task's
events: the reader keeps `fresh` until an event is appended, and a collision raises.
Control calls choose their target from a first read and apply it to a later one. A
poll that finds nothing is no action.

**ThreadTurn.** An append locks the row of the thread, so it is one step; its guards are
the fencing token, the idempotency key and the reducer, in that order. A token is current
exactly for the execution that claimed last, so the lease holds that execution. An
execution that finds its turn ended does nothing, with or without a claim of the lease.

A delivery looks twice: the poll reads the mission (AwaitMission), mission_run_projection
reads its attempts later (ProjectMission). It then appends an item per attempt, which
carries the attempt's status (ReportTools), the evidence if there is any, and the answer.
`told` keeps what these items say, so that an append whose key is taken is a repetition
exactly when the contents agree (`Repeats`), and raises otherwise. The answer has what the
operator sees change: the evidence, the remarks (unknowns and failure categories), and a
verdict that follows from the mission's status unless the objective is answered without
regard to it (`review`: clarification, safety, promotion, direction and evidence review in
operator_response.py). So an answer left while the mission was paused is a repetition of
the one of the completed mission where nothing else of it differs. An attempt's result is
`blank` if it adds nothing to the answer, as a capability of the runtime itself.

What happens to the mission is what `MissionStore` and service.run allow: workers take up
draft and running (RunMission); what only the worker that brought it there can finish, or
a call of run() by a terminal, is FinishMission; attempts start and complete whatever the
status is (WorkOn), since neither store method looks at it; operators pause, resume, cancel
and steer it, the last at any time, also between its completion and the delivery, which
takes its proof away ("unproven"). `Unclaimed` are the statuses that claim_next takes up no
more, or takes up and run() returns as they are (replanning); "quarantined" stands for a
mission that is read-only although its status is not an end. "failed" stands for every end
but completion, running also for retry_wait. A mission is not followed beyond the end of
its turn, when nothing here looks at it again.

**ArcStore.** The projection is abstracted to the sequence of the events it reflects.
commit_event changes the cached copy, then writes row and journal in one transaction
under the row's lock; the transaction may fail before the flush, at the flush or at
COMMIT, and the answer of a COMMIT may be lost. Rows of the old release hold their
events inline (`Missing` are those that the journal lacks); the migration moves them to
the journal and back.

**ArcPaper.** One candidate, so package hashes agree; the states of the search are
one state, "researching"; requesting the final test and its receipt are one step, and
so are self-test and basic admission. The session in BitPro may be created, started
and stopped with the answer lost. The intervals of observations and the instance match
are abstracted into fairness. Somebody else may start the session in BitPro. Left out: a
review package with unknowns, which is stored and cannot be decided
(arc/paper_review.py:204), and the preflight of the loop, which may take a continued
mission back to needs_operator before it searches (arc/router.py:753-779); both only keep
the mission from where the hazards are.

## Runs

Passing runs finish without an error; distinct states in parentheses.

| run | shows |
|---|---|
| `effect_dispatch` (556,755) | Two executors and two reconcilers on two intents, one of them reconciled by hand only: what is recorded as settled is true (`SettledTruth`), intent and tool call agree (`RowsAgree`), and the whole implements `OneShotWrite`: sent at most once, its outcome announced once. |
| `approval` (556,204) | Approvers who grant, deny and revoke race callers who spend the approval: it is spent once, in time, on what it covers (`OneTimeApproval`), `ApprovalLedger` is implemented. |
| `effect_circuit` (660,836) | No reported failure is lost (`FailuresAddUp`), a probe waits for the cooldown of the last failure (`CooldownRespected`), and the circuit closes again (`Recovers`). |
| `mission_takeover` (1,472,107) | Two workers, a crash, a stalled heartbeat, a pause or a cancel: one fenced writer, a stale worker writes nothing but a quarantine, attempts within budget over the takeover, no dispatch once stopped. |
| `mission_control` (2,555,185) | Any two operator commands at any point: only what was done completes, plan versions are only appended, the lifecycle is kept. |
| `mission_live` (199,696) | A mission of two dependent steps settles, and what a dead worker left running goes on. |
| `agent_task` (1,174,123) | Two workers, two control calls, three keys each of which may be sent twice, a crash: the lifecycle is implemented, a renewed lease is respected, a control that is sent again moves the task once. |
| `agent_task_live` (75,069) | Two workers that may die, and a request of the API that executes without a lease: the task of a worker that died does not stay running. |
| `thread_turn` (712,214) | Two API processes that may die or meet an exception execute one turn, one interrupt, a mission that works on, waits, is paused, resumed, canceled, steered or left by its worker: a completed turn tells of one state of its completed mission (`AnswerOfCompletedMission`), a turn fails only for a cause (`FailsForCause`), `TurnProtocol` is implemented, an accepted turn ends or waits for the operator unless its mission stays where no worker takes it up (`TurnSettles`). |
| `arc_store` (588,373) | Two processes, five events, two faults, a process of the old release: the projection is the replay of the journal, a clean copy is what was committed, `ArcJournal` is implemented. |
| `arc_paper` (64,627) | Two research loops, two reviewers, a reconciler, two observers, three faults, two continuations, both modes: started once, the mission tells the truth, a start of unknown outcome is adopted, the end of a session is noticed. |
| `arc_unknown_effect_continued` | expects a violation, see the table of differences |

To show that a property depends on the code, `PROJECT.json` names for each a mutant:
a definition replaced by a plausible mistake, defined just before it in the same module
("Mutant of the next definition"), under which TLC finds the property violated.

To repeat a run, in this directory:

    tlc -workers 2 -config EffectDispatch.cfg MCEffectDispatch
    tlapm EffectDispatchProofs.tla

## Bounds and symmetry

* Two processes of each racing kind: every race here is between a read and a write of
  one row by another process, which two processes exhibit in every order. Three would
  add repetitions of the same pairwise race. The proved properties hold for any number.
* Crashes, stalls, commands, claims (`MaxCrashes`, `MaxStalls`, `MaxCommands`,
  `MaxClaims`, `MaxFaults`, `MaxContinues`, `MaxOverrides`): each bound counts events
  that the environment chooses. They are large enough for a takeover of a takeover, for
  a command that overtakes another, and for a crash of the process that repairs another.
* `MaxAttempts` and `MaxPlanVersions` are the configuration values of the code itself,
  set to 2 so that the last attempt and the last version are reached.
* `Threshold = MaxFailures = 2`: one failure below, the one that opens the circuit.
* `MaxCuts` in `ThreadTurn` counts what cuts an execution short: a process that dies, an
  exception from outside, an execution scheduled beside another, which fences it off (two
  processes that are polled in turn may otherwise starve each other for ever).
  `MaxControls` counts what operators do with thread and missions. One cut and two controls
  are enough for a delivery that is cut short while the mission is paused and one that
  follows after a resume, or a steer, or an interrupt. One turn, since turns of a thread
  follow each other, and one attempt, with which the items of the tool calls and the
  answer can conflict. That the evidence conflicts takes a second attempt: `Attempts` of
  two, and `MaxCuts` of two, give about three million states each, in which TLC found the
  inductive invariant of the proofs to hold. The safety
  properties are proved for any number of turns, processes, attempts, cuts and controls.
* `Quiet` in `ArcStore` keeps two things out that the code does not keep out itself: a
  process of the old release writing while some copy is ahead of the row after a failed
  COMMIT, and a roll-back while a controller is being read or a copy that may still be
  written lacks an event. With `Quiet` FALSE both lose history; `ArcStoreDeploy.cfg` and
  `ArcStoreRollback.cfg` are the two cases. Nothing else of a deploy is excluded: old
  code runs next to torn reads and refused writes, the migration runs at any time.
* `LoopsOverlap` in `ArcPaper` says whether /continue may start a second loop while one
  of the mode arc runs; see the table of differences.
* Symmetry is declared only in runs of safety properties and for interchangeable
  process names that no definition picks with CHOOSE.
* CHECK_DEADLOCK FALSE where a finished mission, intent or task is the end of the model.

## Fairness

* `mission_live`: workers go on with what they started unless they die, they poll, and
  time passes for a lease nobody renews. Crashes are bounded, tools return.
* `agent_task_live`: the same, and strong fairness of a recovery that does not collide
  and of the kernel's return: an executor without a lease emits finitely many events.
* `effect_circuit`: executors go on, the cooldown passes. Crashes and overrides are
  bounded, since an endless row of them starves the single try of a success report.
* `thread_turn`: a client reads its turn now and then (weak fairness of EnsureScheduled),
  executions go on, and workers take up a draft or running mission (weak fairness of
  RunMission). Nothing else of the mission is fair: nobody has to finish planning,
  replanning, a requested pause or a requested cancellation, nor to work on an attempt,
  nor to resume what is paused. Hence the premise of `TurnSettles`, that from some time on
  the mission is not left where no worker takes it up; without it the property is
  `TurnEnds`, which fails (see the table of differences). The operators' steps and the cuts
  are bounded, so a poll meets a status that lasts.
* `arc_paper`: the sweeps of the worker (reconciler, observer) go on, each is a loop of
  worker.py with a sleep. Nothing is assumed of research loops, people or BitPro.

## Proofs

TLAPS proves, for all values of the constants that satisfy the modules' assumptions:

`TypeOK` of every module below, and

| module | theorem | says |
|---|---|---|
| `EffectDispatchProofs` | `DispatchedOnce`, `SettledTellsTheTruth`, `RowsStayTogether`, `RefinesOneShotWrite` | An intent is handed to the adapter at most once, the settled outcome is true, intent and tool call agree, `OneShotWrite` is implemented. |
| `ApprovalProofs` | `RowsTellOneStory`, `ApprovedOnce`, `RefinesLedger` | Approval rows, decisions and intents agree, an approval is spent once on what it covers, `ApprovalLedger` is implemented. |
| `EffectCircuitProofs` | `StateFollowsFailures`, `NoFailureLost`, `CooldownKept` | State and count match, every reported failure is counted, a probe waits for the last cooldown. |
| `MissionProofs` | `FencedWriter`, `StaleWritesNothing`, `PlansOnlyGrow` | Whoever runs the mission: fencing tokens differ and the owner holds the current one, a worker without the lease writes nothing but a quarantine, no plan version is overwritten. |
| `MissionProofs` | `BudgetHolds`, `StoppedDispatchesNothing`, `CompletionIsDone`, `RefinesLifecycle` | Where workers run it, or without workers one direct run at a time: attempts stay within budget, nothing starts once it stopped, it completes only done, `MissionLifecycle` is implemented. |
| `AgentTaskProofs` | `LeaseBelongs`, `LeaseKept`, `RequestMovesOnce`, `RefinesLifecycle` | A lease means running, recovery never takes a renewed lease, a repeated control moves the task once, `TaskLifecycle` is implemented. |
| `ArcPaperProofs` | `StartedAtMostOnce`, `TellsTheTruth` | If two loops of mode arc do not overlap, the session is started once; the mission says running, ended or unknown only of a session that is so. |
| `ArcStoreProofs` | `SnapshotReplays`, `CleanCopiesAreCommitted`, `LastEventSuffices`, `AcknowledgedEventsStay`, `RefinesJournal` | The projection is the replay of the stored events, a clean copy is what was committed, the one event that _write compares guards the whole journal, no acknowledged event is lost, `ArcJournal` is implemented. |
| `ThreadTurnProofs` | `AnswersAreTrue`, `FailuresHaveCause`, `RefinesProtocol` | A completed turn tells of one state of its completed mission, a turn that met no exception fails only by the holder of the lease and for a cause in the mission or in what was told before, `TurnProtocol` is implemented. |

The only assumptions are the named ASSUMEs of the modules, which TLC evaluates in the
runs, and three hypotheses that are stated in the theorems. `StartedAtMostOnce` needs
`OneLoopAtATime`; the second group of `MissionProofs` needs `OneExecutor` (workers,
however many, are enabled and the terminal client does not run missions, or there are no
workers and one direct run is under way at a time); `ArcStoreProofs`, but for its
`TypeCorrect`, needs `Quiet` (see [bounds](#bounds-and-symmetry)). Without them the
session is started twice, a mission completes undone or exceeds its attempts, and a
deploy loses events (see the table of differences). The arguments:

* **EffectDispatch.** None of the properties is inductive, since an executor acts on
  a copy. The invariant says that at most one executor per intent is past the
  write-ahead mark, that whoever has just marked has sent nothing yet, that the row's
  status is at least as far as any copy, and that what was sent is the sum of what is
  on the wire, landed and lost. `RowsAgree` needs none of this: a stale copy overwrites
  both rows alike.
* **Approval.** A verdict is final, and the decision and the scope of an approval never
  change once asked; so what a caller checked in one query still covers its intent
  when a later query of the same transaction spends it (`Covered`, `Paid`, `Sound`).
* **EffectCircuit.** A fresh copy equals the row; a copy about to be half-opened came
  from an open row whose cooldown had passed; each copy, stale or not, satisfies the
  relation of state and failures, so whichever is written keeps it.
* **Mission.** Tokens are handed out by Claim only, each the next, so of the workers
  that are awake at most one holds the current token and every write of the others is
  refused (`TokensFit`). Without workers no token is handed out, and the one direct run
  that is under way is the only process that works on steps (`Alone`). So in both
  deployments at most one executor holds the mission (`OneCurrent`), and on this rest
  three parts. `BudgetFits`: the holder's count of a step is the number of its attempts
  plus one, since only the holder can add one. `StopFits`: what a process decided at the
  current version it decided on the current status, an operator cancels at once only a
  draft, and past the safe point the status is still one that dispatches, since the
  operators' commands lead to no other from there. `DoneFits`: a passing proof of the
  current version is true; each write but a proof and an attempt moves the version on
  and so withdraws it, and while the holder works on an attempt there is none.
  `StepWrites` lists the five ways a step can change the rows.
* **AgentTask.** An executor that was stopped knows the cause and one that settles
  knows the outcome; a recovery whose read is still fresh still finds the lease
  expired (`Looking`); `StatusStep` lists the only ways a status changes, and each is
  an edge of `TaskLifecycle`.
* **ArcStore.** An event is made once, at the end of one list, so all lists of events,
  stored or in memory, are branches of a tree (`LinesFit`): two that share an event agree
  on all before it (`Agree`). The row is the journal and the inline events after it
  (`RowFits`). A copy is behind the row, and will be read again, or at its revision, or one
  ahead after a failed COMMIT with an event that the row lacks (`CopyFits`); the inline
  events of a row that was read are all journalled by now or begin the inline events of
  now (`ReadFits`). So a copy whose event at the end of the journal is the journal's has
  the whole journal (`FittingExtends`), each write extends the history (`Extends`) and
  every other step keeps it (`Keeps`), which is also the step of `ArcJournal`.
* **ArcPaper.** One loop at a time requests a review only when there is no package, so
  a decided review is never replaced; one reviewer acts on a review at a time; before
  it says start nothing was sent; and whoever is about to write that the session runs
  or ended has seen it in BitPro.
* **ThreadTurn.** Three parts fit together (`IInv`). Each turn's status, the events it had
  and what it told (`TurnFits`, `RowFits`): what was told of an attempt was found
  (`Grounded`). What an execution saw of the mission (`CopyFits`): its attempts went on
  since, none went back (`Older`), and a mission that was seen complete stays proven or
  loses its proof, no more. Where the holder of the lease is and what its turn still
  takes (`HolderFits`): an execution that was fenced off writes nothing, so this speaks of
  the holder only; past each item, what the turn tells is what the holder saw
  (`TellsSoFar`), by its own append or by a repetition, so that what a completed turn
  tells is one look at its mission, whoever wrote it. Where the holder raised and nothing
  came from outside, an append was refused, and the only refusals left to it are those of
  `Conflicts`. Most steps write no turn (`QuietStep`), the others write one through the
  reducer (`WriteStep`); a mission only goes on (`Onward`).

## What is only model-checked

* Liveness (`Recovers`, `TurnSettles`, `EventuallySettles`, `RunningGoesOn`, `DeadWorkersTaskGoesOn`,
  `UnknownStartAdopted`, `EndedSessionNoticed`): it rests on fairness and ENABLED,
  which the provers do not treat.

## Where the code and its documents differ

Each is reproduced by TLC under the named configuration, with the code modelled as it
is. The first is a run of `PROJECT.json` (an expected violation), the others are
configurations kept beside it.

| configuration, property | what the code does | what is written |
|---|---|---|
| `ArcPaperContinued.cfg` `UnknownStaysParked` | /continue of a mission parked with an effect of unknown outcome takes it back to the search, and the reconciler skips it for good (arc/router.py:516). | user-directed-autonomous-strategy-research-loop-m0.md:135: may not be continued before it is reconciled |
| `MissionAsPlanned.cfg` `CompletedAsPlanned` | A steer changes what a step does and keeps its id; the success of the old step counts for the new plan, which completes undone (runtime/adapters/research_planner.py:152). | service.py:510-511: shared only when the replanner explicitly keeps them; docs/contracts/sprint-111-professional-agent-loop-v2.md:116 |
| `ArcPaperOverlap.cfg` `StartedOnce` | Two loops of mode arc run at once after /continue; the review request of the second replaces a review that was decided, and the candidate is started again. Both starts carry one idempotency key, by which BitPro can still tell. | arc/paper_review.py:221: a competing API process cannot dispatch twice |
| `ArcStoreDeploy.cfg` `AcknowledgedStays` | A copy whose COMMIT failed is one revision ahead; when a process of the old release reaches that revision, save_mission replaces the row without reading it and an acknowledged event is gone (arc/store.py:120). | comment at arc/store.py:153-155 |
| `ArcStoreRollback.cfg` `AcknowledgedStays` | The roll-back of the journal keeps the revision, so a controller that read the row before it and the journal after it passes for current with an empty list of events; its next commit stores that list and an acknowledged event is gone (arc/event_migration.py:73-81, arc/store.py:233). | arc/event_migration.py:3-4: a concurrent commit waits and then continues on the migrated row |
| `AgentTaskPause.cfg` `PausedAtSafePoint` | A second pause call takes a task from pause_requested to paused at once, and its worker goes on. | docs/qa/sprint-96-agent-sessions-task-control.md:18: paused at a safe point |
| `MissionPause.cfg` `PauseTakesEffect` | A pause that arrives inside the loop makes it leave before the safe point that would finish the pause: the mission stays in pause_requested. | docs/contracts/sprint-111-professional-agent-loop-v2.md:117: pause and cancel take effect at the safe points before and after a dispatch |
| `MissionPlanning.cfg` `PlanningEnds` | A worker that dies while it plans leaves the mission in planning, which is not a claimable status. | the same file, line 84: an expired lease is resumed from the last checkpoint |
| `MissionTwoRuns.cfg` `CompletesOnlyDone` | A run of the terminal client, without lease and token, next to a worker completes a plan whose last version was not executed (cli.py:2038). | docs/progress.md:1199: fencing is the mechanism against executing twice |
| `MissionTwoCalls.cfg` `AttemptsWithinBudget` | Two POST /run of one mission at once, in a deployment without workers: neither has a lease or a token, both count the attempts of a step before either starts one, and the step is tried more often than its budget (main.py:1891, service.py:229). | docs/architecture/34-next-generation-agent-runtime-audit-and-target-design.md:400-401: max_attempts_per_step is a budget, and a budget is reserved before it is consumed |
| `EffectOperationId.cfg` `IntentKeepsOperationId` | The acknowledgement stores the operation id, and a later write of a copy of the intent that was read before it loses it: a reconciliation that read in between, and the executor itself, whose terminal write uses the intent it read before it called the adapter (effect_governance.py:390, 446). The tool call keeps the id. | docs/architecture/34-next-generation-agent-runtime-audit-and-target-design.md:679: a tool call has an external operation id |
| `ThreadTurnGap.cfg` `GapIsAsked` | An execution that dies or is fenced off between turn.context_resolved and turn.input_requested is followed by one that finds the context resolved and creates a mission from the unresolved message (thread_service.py:172). | docs/contracts/sprint-121-canonical-thread-turn-protocol.md: what cannot be resolved becomes an input gap and is not guessed |
| `ThreadTurnInterrupt.cfg` `InterruptStopsMission` | An interrupt that reads the turn before turn.started links its mission cancels the turn; the mission runs on (thread_service.py:141). | docs/architecture/34-next-generation-agent-runtime-audit-and-target-design.md:410: an explicit interrupt propagates the cancellation |
| `ThreadTurnPolls.cfg` `TurnEnds` | A mission that is quarantined or left in planning, replanning, pause_requested or cancel_requested is taken up by no worker (runtime/adapters/sql_store.py:155-165), and the execution of its turn polls it for ever (thread_service.py:257-262). | docs/architecture/34-next-generation-agent-runtime-audit-and-target-design.md:368: a turn is one input until its terminal state |
| `ApprovalFence.cfg` `FencesAdvance` | The highest fencing token is read without a lock, so a call with an older token may create its intent after one with a newer token (runtime/adapters/effect_store.py:348). | its own refusal, "stale dispatch fencing token", and tests/test_dispatch_outbox.py:176, test_stale_worker_fencing_cannot_create_a_second_intent |

Smaller observations, seen while modelling and not turned into properties:

* A mission that was resumed while it waited for an approval before it was planned is
  running without a plan; a steer at the last plan version moves it to replanning and
  every new plan is refused; append_steer on a terminal mission drops its proof; a steer
  that conflicts with a write of the loop fails a healthy mission.
* prepare_dispatch with an allow decision consumes the approval the call names without
  comparing its bindings. The audit event is a transaction of its own. The probes of a
  half-open circuit are not limited to one.
* A task whose pause or cancel is requested after the kernel's last event, or whose
  worker dies then, stays in pause_requested or cancel_requested. An executor that saw
  a cancellation settles the task as canceled even if the task meanwhile failed, was
  retried and paused.
* A turn whose mission is paused is delivered as failed although the mission can be
  resumed. A turn that waits for input or an approval is never taken up again, it can only
  be interrupted. An interrupted turn whose execution sees the canceled mission first ends
  as failed. A delivery that died after it told of a paused mission makes the delivery of
  the same mission, completed, conflict if anything told has another content by now: an
  attempt was under way then and ended since (its item carries the status), the evidence
  grew, or the answer depends on the status; the turn fails although the mission is
  complete. A steer between the completion of the mission and its delivery fails the turn
  as well, since it drops the proof.
* A copy of the ARC store whose COMMIT failed at an equal revision refuses all commits
  with "arc_event_journal_diverged" until another process commits or it restarts.
* A reviewer that dies in paper_provisioning leaves the mission there, since the
  reconciler looks at needs_operator only. When the journal write of
  paper_review_started fails, the running session is not adopted. A late paper_observed
  reopens a completed mission; the next observation ends it again. In mode arc,
  /continue after a rejection finds the same validated attempt with the same hash,
  requests nothing, and the mission stays where it is.

## Not modelled

* Inside modelled components: the audit log, hashes of snapshots and the rebuilding of a
  projection from events, evidence and context rows; in-memory stores (used by tests);
  tasks of kind research_graph, approvals inside a task, links to resources, the window
  of 100 remembered control requests; the in-memory thread store, the quarantine of
  threads, the text of messages, the mode in which the API runs the mission of a turn
  itself; missions that need no review, live approval,
  ground truth and feedback of ARC; the loss of the reconciler's advisory lock while its
  process lives.
* Supervisor and assignments, ARC research budget: planned, see below.
* Tool runtime, sandbox, capability catalog: an in-process circuit, an idempotency cache
  and caps of one process; the persistent circuit is modelled.
* Context engine and memories, agent kernel: selection and ranking of text and calls of
  an LLM. Their result is data for the modelled control.
* Research graph, backtests, evolution of variants: numeric evaluation, no shared state
  beyond the ARC store.
* Paper trading, live trading, risk, portfolios: gates and calculations around calls of
  an exchange, one transaction each; candidates for pure operators.
* Service tokens: a file that a process rewrites whole; another process's write is lost.
* Market data, connectors, providers: clients of external services, pure I/O.
* Front end, desktop shell, deployment, evaluation scripts.

## Plan

Done, in this order: effects, approvals, circuit, mission store and runtime, agent tasks,
ARC store, ARC paper, threads and turns. Next: the supervisor's reservations (runtime/application/supervisor.py:251
reserves from a snapshot); admissions of the research budget
(arc/research_budget.py:406); the judge of paper races and the netting of relays as pure
operators against reference definitions; rotation of the token file; the gates of live
trading.
