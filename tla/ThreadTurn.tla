------------------------------ MODULE ThreadTurn ------------------------------
(* One conversation thread: ThreadTurnService (runtime/application/          *)
(* thread_service.py) in several API processes, each of which may execute a  *)
(* turn, over SqlAlchemyThreadStore (runtime/adapters/thread_store.py) and   *)
(* the reducer of thread events (runtime/domain/thread_turn.py).  The        *)
(* mission behind a turn is run by the mission workers                       *)
(* (worker_enabled), see Mission; here it is its row as a delivery reads it. *)
(*                                                                           *)
(* Every write of the thread locks its row, so an append is one action.  A   *)
(* fencing token is current exactly for the execution that claimed last and  *)
(* is forgotten when the execution ends, so the lease row is abstracted to   *)
(* who claimed last.  An executor goes by its copy of the turn, which an     *)
(* append refreshes; the copy decides only where it goes next and is kept as *)
(* that place.                                                               *)
EXTENDS FiniteSets, Naturals

CONSTANTS
    Processes,     \* API processes
    Turns,         \* turns the clients ask for, one per client_message_id
    Calls,         \* interrupt calls under way
    Attempts,      \* attempts of steps that the mission of a turn may start
    NoTurn,
    Nobody,        \* lease of a thread that nobody claimed yet
    MaxCuts,       \* bound: what cuts an execution short: API processes that die,
                   \* exceptions from outside, executions beside another
    MaxControls    \* bound: what operators do with the thread and its missions

Executors == Processes \X Turns

ASSUME TurnsAssumption == NoTurn \notin Turns
ASSUME NobodyAssumption == Nobody \notin Executors
ASSUME BoundAssumption == MaxCuts \in Nat /\ MaxControls \in Nat

VARIABLES
    thread,        \* agent_threads and agent_thread_leases
    turn,          \* agent_turns with its items and the keys of its events
    mission,       \* the mission of each turn
    exec,          \* where the execution of a turn by a process is
    call,          \* where each interrupt call is
    troubled,      \* turns whose execution met an exception from outside
    cuts,          \* bound counter
    controls       \* bound counter

outside == <<mission, call, troubled, cuts, controls>>

vars == <<thread, turn, exec, outside>>

Terminal == {"completed", "failed", "cancelled"}

Waiting == {"waiting_input", "waiting_approval"}

\* "none" stands for a turn that was not accepted.  Nothing expires a turn.
Status == {"none", "accepted", "contextualizing", "running", "streaming"}
            \cup Waiting \cup Terminal

Open == Status \ ({"none"} \cup Terminal)

\* "failed" stands for every end but completion; "unproven" is a completed
\* mission that lost its proof to a steer.
MissionEnded == {"completed", "unproven", "failed"}

MissionWaits == {"waiting_approval", "waiting_input", "paused"}

\* What no worker takes up, and run() returns as it is; "quarantined" stands for
\* a mission that is read-only although its status is not an end.
Unclaimed == {"planning", "replanning", "pause_requested", "cancel_requested", "quarantined"}

\* "running" is also retry_wait.
MissionStatus == {"none", "draft", "running"} \cup Unclaimed \cup MissionWaits \cup MissionEnded

\* What an attempt adds to the answer: nothing, a remark (an unknown, a failure
\* category) or evidence.
Result == {"blank", "remark", "evidence"}

Work == [Attempts -> {"none", "open"} \cup Result]

\* review: the objective is one that is answered without regard to the status.
MissionRow == [status : MissionStatus, review : BOOLEAN, work : Work]

NoMission == [status |-> "none", review |-> FALSE, work |-> [a \in Attempts |-> "none"]]

\* The events that close a turn, and the status they close it in.
Closes == [turn_completed |-> "completed", turn_failed |-> "failed",
           runtime_failed |-> "failed", turn_cancelled |-> "cancelled"]

\* What an executor may be about to append, after the turn was accepted.
Steps == {"contextualization_started", "context_resolved", "gap_input_requested",
          "started", "mission_input_requested", "approval_requested",
          "evidence_ready", "answered", "turn_completed", "turn_failed"}

\* tool_reported stands for the items of all tool calls.
Event == Steps \cup {"tool_reported"} \cup DOMAIN Closes

Thread == [active : Turns \cup {NoTurn}, archived : BOOLEAN,
           lease : Executors \cup {Nobody}]

Answer == [verdict : MissionStatus \cup {"review"},
           evidence : SUBSET Attempts, remarks : SUBSET Attempts]

NoAnswer == [verdict |-> "none", evidence |-> {}, remarks |-> {}]

\* The contents of the items by which a turn tells what its mission found.
Told == [tools : [Attempts -> {"none", "open", "done"}], evidence : SUBSET Attempts,
         answer : Answer]

NothingTold == [tools |-> [a \in Attempts |-> "none"], evidence |-> {}, answer |-> NoAnswer]

\* gap: the message refers to something that cannot be resolved.
Turn == [status : Status, gap : BOOLEAN, linked : BOOLEAN, events : SUBSET Event, told : Told]

\* seen: the mission as it is delivered.
Exec == [at : Steps \cup {"idle", "claiming", "reading", "creating", "waiting", "projecting",
                          "reporting", "raised"},
         seen : MissionRow]

NoCall == [at |-> "idle", turn |-> NoTurn]

Call == {NoCall} \cup [at : {"stopping", "ending"}, turn : Turns]

Idle == [at |-> "idle", seen |-> NoMission]

Init ==
    /\ thread = [active |-> NoTurn, archived |-> FALSE, lease |-> Nobody]
    /\ turn = [t \in Turns |-> [status |-> "none", gap |-> FALSE, linked |-> FALSE,
                                events |-> {}, told |-> NothingTold]]
    /\ mission = [t \in Turns |-> NoMission]
    /\ exec = [e \in Executors |-> Idle]
    /\ call = [c \in Calls |-> NoCall]
    /\ troubled = {}
    /\ cuts = 0
    /\ controls = 0

-----------------------------------------------------------------------------
(* The reducer, for events of an accepted turn.                              *)

Needs(ev) ==
    CASE ev = "contextualization_started" -> {"accepted"}
      [] ev \in {"context_resolved", "started"} -> {"contextualizing"}
      [] ev \in {"gap_input_requested", "mission_input_requested"} ->
            {"contextualizing", "running"}
      [] ev = "approval_requested" -> {"running"}
      [] ev \in {"tool_reported", "evidence_ready", "answered"} -> {"running", "streaming"}
      [] OTHER -> Status \ {"none"}

\* Mutant of the next definition: a terminal turn takes another end.
TakesLate(row, ev) ==
    /\ row.status \in Needs(ev)
    /\ ev = "turn_completed" => row.told.answer /= NoAnswer

\* A terminal turn takes no event, a completed turn has its answer.
Takes(row, ev) ==
    /\ row.status \in Needs(ev) \ Terminal
    /\ ev = "turn_completed" => row.told.answer /= NoAnswer

\* Mutant of the next definition: a closed turn has the name of the event.
NextStatusRaw(row, ev) ==
    CASE ev = "contextualization_started" -> "contextualizing"
      [] ev \in {"gap_input_requested", "mission_input_requested"} -> "waiting_input"
      [] ev = "approval_requested" -> "waiting_approval"
      [] ev = "started" -> "running"
      [] ev \in {"evidence_ready", "answered"} -> "streaming"
      [] ev \in DOMAIN Closes -> ev
      [] OTHER -> row.status

NextStatus(row, ev) ==
    CASE ev = "contextualization_started" -> "contextualizing"
      [] ev \in {"gap_input_requested", "mission_input_requested"} -> "waiting_input"
      [] ev = "approval_requested" -> "waiting_approval"
      [] ev = "started" -> "running"
      [] ev \in {"evidence_ready", "answered"} -> "streaming"
      [] ev \in DOMAIN Closes -> Closes[ev]
      [] OTHER -> row.status

Reduced(row, ev, told) ==
    [status |-> NextStatus(row, ev),
     gap |-> row.gap,
     linked |-> row.linked \/ ev = "started",
     events |-> row.events \cup {ev},
     told |-> told]

Writes(t, ev, told) ==
    /\ turn' = [turn EXCEPT ![t] = Reduced(turn[t], ev, told)]
    /\ thread' = IF ev \in DOMAIN Closes THEN [thread EXCEPT !.active = NoTurn] ELSE thread

-----------------------------------------------------------------------------
\* An execution may be cut short; an operator does something.
Cut == cuts < MaxCuts /\ cuts' = cuts + 1

Controlled == controls < MaxControls /\ controls' = controls + 1

-----------------------------------------------------------------------------
(* The client: a message, a read of the thread, a turn or its stream.        *)

\* start_turn of a new message.  What is scheduled looks at the turn first and
\* leaves an ended one alone: that is the guard of EnsureScheduled.
StartTurn(p, t) ==
    /\ turn[t].status = "none"
    /\ thread.active = NoTurn /\ ~ thread.archived
    /\ \E gap \in BOOLEAN :
          turn' = [turn EXCEPT ![t].status = "accepted", ![t].gap = gap]
    /\ thread' = [thread EXCEPT !.active = t]
    /\ exec' = [exec EXCEPT ![<<p, t>>] = [Idle EXCEPT !.at = "claiming"]]
    /\ UNCHANGED outside

\* Mutant of the next definition: only a repeated message schedules.
SchedulesAccepted(t) == turn[t].status = "accepted"

\* An ended turn, which a repeated message schedules as well, is left alone.
Schedules(t) == turn[t].status \in Open

EnsureScheduled(p, t) ==
    /\ Schedules(t)
    /\ exec[<<p, t>>].at = "idle"
    /\ exec' = [exec EXCEPT ![<<p, t>>].at = "claiming"]
    /\ \/ (\A e \in Executors : exec[e].at = "idle") /\ UNCHANGED cuts
       \/ (\E e \in Executors : exec[e].at /= "idle") /\ Cut
    /\ UNCHANGED <<thread, turn, mission, call, troubled, controls>>

Archive ==
    /\ Controlled
    /\ ~ thread.archived /\ thread.active = NoTurn
    /\ thread' = [thread EXCEPT !.archived = TRUE]
    /\ UNCHANGED <<turn, exec, mission, call, troubled, cuts>>

-----------------------------------------------------------------------------
(* execute_turn by executor e = <<process, turn>>.                           *)

Goto(e, at) == exec' = [exec EXCEPT ![e] = IF at = "idle" THEN Idle ELSE [@ EXCEPT !.at = at]]

\* claim_turn, whoever has the lease.
ClaimTurn(e) ==
    /\ exec[e].at = "claiming"
    /\ thread' = [thread EXCEPT !.lease = e]
    /\ Goto(e, "reading")
    /\ UNCHANGED <<turn, outside>>

\* Where _execute_locked goes on with a turn it has just read.
Continue(row) ==
    IF row.status = "contextualizing"
    THEN IF "context_resolved" \in row.events THEN "creating" ELSE "context_resolved"
    ELSE IF row.linked THEN "waiting" ELSE "raised"

ReadTurn(e) ==
    LET row == turn[e[2]]
    IN /\ exec[e].at = "reading"
       /\ Goto(e, CASE row.status \in Terminal \cup Waiting -> "idle"
                     [] row.status = "accepted" -> "contextualization_started"
                     [] OTHER -> Continue(row))
       /\ UNCHANGED <<thread, turn, outside>>

-----------------------------------------------------------------------------
(* What the items of a delivery say of the mission it saw.                   *)

\* The status of an attempt, in the item of its tool call.
Item(result) == IF result \in Result THEN "done" ELSE result

Items(seen) == [a \in Attempts |-> Item(seen.work[a])]

Adding(seen, result) == {a \in Attempts : seen.work[a] = result}

AnswerOf(seen) ==
    [verdict |-> CASE seen.review -> "review"
                   [] seen.status = "unproven" -> "completed"
                   [] OTHER -> seen.status,
     evidence |-> Adding(seen, "evidence"),
     remarks |-> Adding(seen, "remark")]

\* What is told once event ev of the delivery is appended.
Telling(told, ev, seen) ==
    CASE ev = "evidence_ready" -> [told EXCEPT !.evidence = Adding(seen, "evidence")]
      [] ev = "answered" -> [told EXCEPT !.answer = AnswerOf(seen)]
      [] OTHER -> told

\* Mutant of the next definition: a key is enough to tell a repetition.
RepeatsKey(row, ev, seen) == ev \in row.events

\* The event was appended before, with the same content.
Repeats(row, ev, seen) == ev \in row.events /\ Telling(row.told, ev, seen) = row.told

\* Mutant of the next definition: no append checks the fencing token.
HoldsNothing(e) == TRUE

Holds(e) == thread.lease = e

\* The event is new and the reducer takes it.
Applies(row, ev) == ev \notin row.events /\ Takes(row, ev)

\* Where the executor goes on when its append returned the turn as row.
After(e, ev, row) ==
    CASE ev = "context_resolved" /\ row.gap -> "gap_input_requested"
      [] ev \in {"contextualization_started", "context_resolved", "started"} -> Continue(row)
      [] ev = "evidence_ready" -> "answered"
      [] ev = "answered" ->
            IF exec[e].seen.status = "completed" THEN "turn_completed" ELSE "turn_failed"
      [] OTHER -> "idle"

\* _append: a stale token, a key with another content and the reducer raise.
Append(e, ev) ==
    LET row == turn[e[2]]
        seen == exec[e].seen
        told == Telling(row.told, ev, seen)
        repeated == Holds(e) /\ Repeats(row, ev, seen)
        applied == Holds(e) /\ Applies(row, ev)
    IN /\ exec[e].at = ev
       /\ \/ /\ applied
             /\ Writes(e[2], ev, told)
             /\ Goto(e, After(e, ev, Reduced(row, ev, told)))
          \/ /\ repeated
             /\ Goto(e, After(e, ev, row))
             /\ UNCHANGED <<thread, turn>>
          \/ /\ ~ applied /\ ~ repeated
             /\ Goto(e, "raised")
             /\ UNCHANGED <<thread, turn>>
       /\ UNCHANGED outside

\* The items of the tool calls, each an append with a key of its own: an attempt
\* has another status than in an item that an earlier delivery left.
ReportTools(e) ==
    LET row == turn[e[2]]
        seen == exec[e].seen
        missing == {a \in Attempts : Items(seen)[a] \notin {"none", row.told.tools[a]}}
        report(a) == [row.told EXCEPT !.tools[a] = Items(seen)[a]]
    IN /\ exec[e].at = "reporting"
       /\ \/ /\ missing = {}
             /\ Goto(e, IF Adding(seen, "evidence") = {} THEN "answered" ELSE "evidence_ready")
             /\ UNCHANGED <<thread, turn>>
          \/ \E a \in missing :
                IF Holds(e) /\ row.told.tools[a] = "none" /\ Takes(row, "tool_reported")
                THEN Writes(e[2], "tool_reported", report(a)) /\ UNCHANGED exec
                ELSE Goto(e, "raised") /\ UNCHANGED <<thread, turn>>
       /\ UNCHANGED outside

\* The mission has an idempotency key of the turn.
CreateMission(e) ==
    LET t == e[2]
    IN /\ exec[e].at = "creating"
       /\ IF mission[t].status = "none"
          THEN \E review \in BOOLEAN :
                  mission' = [mission EXCEPT ![t].status = "draft", ![t].review = review]
          ELSE UNCHANGED mission
       /\ Goto(e, "started")
       /\ UNCHANGED <<thread, turn, call, troubled, cuts, controls>>

\* _await_worker: a paused mission is delivered like one that ended.
AwaitMission(e) ==
    LET row == mission[e[2]]
    IN /\ exec[e].at = "waiting"
       /\ row.status \in MissionWaits \cup MissionEnded
       /\ exec' = [exec EXCEPT ![e] =
             [at |-> CASE row.status = "waiting_input" -> "mission_input_requested"
                       [] row.status = "waiting_approval" -> "approval_requested"
                       [] OTHER -> "projecting",
              seen |-> [row EXCEPT !.work = NoMission.work]]]
       /\ UNCHANGED <<thread, turn, outside>>

\* mission_run_projection reads the attempts after the mission.
ProjectMission(e) ==
    /\ exec[e].at = "projecting"
    /\ exec' = [exec EXCEPT ![e].at = "reporting", ![e].seen.work = mission[e[2]].work]
    /\ UNCHANGED <<thread, turn, outside>>

\* _fail_turn, which gives up silently.
FailTurn(e) ==
    /\ exec[e].at = "raised"
    /\ IF Holds(e) /\ Applies(turn[e[2]], "runtime_failed")
       THEN Writes(e[2], "runtime_failed", turn[e[2]].told)
       ELSE UNCHANGED <<thread, turn>>
    /\ exec' = [exec EXCEPT ![e] = Idle]
    /\ UNCHANGED outside

\* An exception of the database or the mission runtime.
Trouble(e) ==
    /\ Cut
    /\ exec[e].at /= "idle"
    /\ troubled' = troubled \cup {e[2]}
    /\ exec' = [exec EXCEPT ![e] = IF @.at \in {"claiming", "raised"}
                                   THEN Idle ELSE [Idle EXCEPT !.at = "raised"]]
    /\ UNCHANGED <<thread, turn, mission, call, controls>>

\* The tasks of a process die with it; nothing is stored of them.
Crash(p) ==
    /\ Cut
    /\ \E t \in Turns : exec[<<p, t>>].at /= "idle"
    /\ exec' = [e \in Executors |-> IF e[1] = p THEN Idle ELSE exec[e]]
    /\ UNCHANGED <<thread, turn, mission, call, troubled, controls>>

-----------------------------------------------------------------------------
(* interrupt, which needs no token.                                          *)

Interrupt(c, t) ==
    /\ Controlled
    /\ call[c] = NoCall
    /\ turn[t].status \in Open
    /\ call' = [call EXCEPT ![c] = [at |-> IF turn[t].linked THEN "stopping" ELSE "ending",
                                    turn |-> t]]
    /\ UNCHANGED <<thread, turn, exec, mission, troubled, cuts>>

\* What a cancellation makes of a mission; of every other it raises.
Cancellable == {"draft", "running", "replanning", "pause_requested"} \cup MissionWaits

Canceled(status) == IF status = "draft" THEN "failed" ELSE "cancel_requested"

StopMission(c) ==
    LET t == call[c].turn
        status == mission[t].status
    IN /\ call[c].at = "stopping"
       /\ \/ status \in MissionEnded /\ UNCHANGED mission
          \/ /\ status \in Cancellable
             /\ mission' = [mission EXCEPT ![t].status = Canceled(status)]
       /\ call' = [call EXCEPT ![c].at = "ending"]
       /\ UNCHANGED <<thread, turn, exec, troubled, cuts, controls>>

EndTurn(c) ==
    LET t == call[c].turn
    IN /\ call[c].at = "ending"
       /\ IF Applies(turn[t], "turn_cancelled")
          THEN Writes(t, "turn_cancelled", turn[t].told)
          ELSE UNCHANGED <<thread, turn>>
       /\ call' = [call EXCEPT ![c] = NoCall]
       /\ UNCHANGED <<exec, mission, troubled, cuts, controls>>

\* The cancellation of the mission raises, or the process dies.
DropCall(c) ==
    /\ call[c] /= NoCall
    /\ call' = [call EXCEPT ![c] = NoCall]
    /\ UNCHANGED <<thread, turn, exec, mission, troubled, cuts, controls>>

-----------------------------------------------------------------------------
(* The mission of a turn, run by its workers, whoever else calls run(), and   *)
(* operators.  What becomes of it after the turn ended is left out: no step  *)
(* here looks at it again.                                                   *)

Moves(t, from, to) ==
    /\ turn[t].status \in Open
    /\ mission[t].status = from
    /\ \E status \in to : mission' = [mission EXCEPT ![t].status = status]
    /\ UNCHANGED <<thread, turn, exec, call, troubled, cuts>>

\* A worker claims the mission and goes on with it; it is completed by attempts.
RunMission(t) ==
    /\ \/ Moves(t, "draft", {"planning", "waiting_input", "waiting_approval", "failed"})
       \/ Moves(t, "running", {"replanning", "waiting_input", "waiting_approval", "failed"})
       \/ /\ \E a \in Attempts : mission[t].work[a] \in Result
          /\ Moves(t, "running", {"completed"})
    /\ UNCHANGED controls

\* What is only done by the worker that brought the mission there, or by a
\* terminal; a write with a stale token quarantines.
FinishMission(t) ==
    /\ \/ \E from \in {"planning", "replanning"} : Moves(t, from, {"running", "failed"})
       \/ Moves(t, "pause_requested", {"paused"})
       \/ Moves(t, "cancel_requested", {"failed"})
       \/ \E from \in {"draft", "running"} \cup Unclaimed : Moves(t, from, {"quarantined"})
    /\ UNCHANGED controls

\* Neither start_attempt nor complete_attempt looks at the status.
WorkOn(t) ==
    /\ turn[t].status \in Open
    /\ mission[t].status \notin {"none", "draft", "planning", "quarantined"}
    /\ \E a \in Attempts :
          \/ /\ mission[t].work[a] = "none"
             /\ mission' = [mission EXCEPT ![t].work[a] = "open"]
          \/ /\ mission[t].work[a] = "open"
             /\ \E result \in Result : mission' = [mission EXCEPT ![t].work[a] = result]
    /\ UNCHANGED <<thread, turn, exec, call, troubled, cuts, controls>>

\* pause, resume, cancel.
ControlMission(t) ==
    /\ Controlled
    /\ \/ \E from \in {"running", "waiting_approval"} : Moves(t, from, {"pause_requested"})
       \/ \E from \in {"planning", "replanning", "waiting_approval", "paused"} :
             Moves(t, from, {"running"})
       \/ \E from \in Cancellable : Moves(t, from, {Canceled(from)})

\* steer appends to the objective of any mission that is not read-only.
Steer(t) ==
    /\ Controlled
    /\ turn[t].status \in Open
    /\ LET status == mission[t].status
       IN /\ status \notin {"none", "quarantined"}
          /\ \E review \in BOOLEAN,
                next \in CASE status = "completed" -> {"unproven"}
                           [] status = "running" -> {"running", "replanning"}
                           [] OTHER -> {status} :
                mission' = [mission EXCEPT ![t].status = next, ![t].review = review]
    /\ UNCHANGED <<thread, turn, exec, call, troubled, cuts>>

-----------------------------------------------------------------------------
Execute(e) ==
    \/ ClaimTurn(e) \/ ReadTurn(e) \/ CreateMission(e)
    \/ AwaitMission(e) \/ ProjectMission(e) \/ ReportTools(e) \/ FailTurn(e)
    \/ \E ev \in Steps : Append(e, ev)

Next ==
    \/ \E p \in Processes, t \in Turns : StartTurn(p, t) \/ EnsureScheduled(p, t)
    \/ \E e \in Executors : Execute(e) \/ Trouble(e)
    \/ \E p \in Processes : Crash(p)
    \/ \E c \in Calls : StopMission(c) \/ EndTurn(c) \/ DropCall(c)
    \/ \E c \in Calls, t \in Turns : Interrupt(c, t)
    \/ \E t \in Turns : RunMission(t) \/ FinishMission(t) \/ WorkOn(t)
    \/ \E t \in Turns : ControlMission(t) \/ Steer(t)
    \/ Archive

Spec == Init /\ [][Next]_vars

\* A client follows its turn, executors go on, and workers take up what they
\* claim.  Nobody has to finish what was begun with the mission, nor to control
\* it.
Fairness ==
    /\ \A e \in Executors : WF_vars(Execute(e))
    /\ \A p \in Processes, t \in Turns : WF_vars(EnsureScheduled(p, t))
    /\ \A t \in Turns : WF_vars(RunMission(t))

FairSpec == Spec /\ Fairness

-----------------------------------------------------------------------------
(* Properties.                                                               *)

\* Type invariant of the thread, its turns, executors and calls.
TypeOK ==
    /\ thread \in Thread
    /\ turn \in [Turns -> Turn]
    /\ mission \in [Turns -> MissionRow]
    /\ exec \in [Executors -> Exec]
    /\ call \in [Calls -> Call]
    /\ troubled \subseteq Turns
    /\ cuts \in 0..MaxCuts
    /\ controls \in 0..MaxControls

\* Contents that a delivery of the mission as seen here would leave.
Tells(told, seen) ==
    told = [tools |-> Items(seen), evidence |-> Adding(seen, "evidence"),
            answer |-> AnswerOf(seen)]

Proven == {"completed", "unproven"}

\* A completed turn tells of one state of its completed mission: what deliveries
\* that were cut short left of earlier states (tool calls under way, a paused
\* mission, another objective) says nothing else (_deliver_mission, append).
AnswerOfCompletedMission ==
    \A t \in Turns : turn[t].status = "completed" =>
        /\ mission[t].status \in Proven
        /\ \E seen \in [status : {"completed"}, review : BOOLEAN, work : Work] :
              /\ Tells(turn[t].told, seen)
              /\ \A a \in Attempts : seen.work[a] \in {"none", "open", mission[t].work[a]}

\* What is told tells of another state of the mission.  A turn that streams asks
\* for nothing any more.
Conflicts(row, seen) ==
    \/ \E a \in Attempts : row.told.tools[a] \notin {"none", Items(seen)[a]}
    \/ row.told.evidence \notin {{}, Adding(seen, "evidence")}
    \/ row.told.answer \notin {NoAnswer, AnswerOf(seen)}
    \/ row.status = "streaming" /\ seen.status \in {"waiting_input", "waiting_approval"}

\* A turn whose execution met no exception is failed only by the holder of the
\* lease, because the mission it delivers is not complete, or because an earlier
\* delivery told of another state of it: an execution that was fenced off,
\* interrupted or repeated fails no turn (_append, _fail_turn).
FailsForCause ==
    [][\A t \in Turns \ troubled :
         turn[t].status /= "failed" /\ turn'[t].status = "failed" =>
            \E e \in Executors :
               /\ e[2] = t /\ thread.lease = e
               /\ IF exec[e].at = "raised" THEN Conflicts(turn[t], exec[e].seen)
                  ELSE exec[e].seen.status \in {"paused", "unproven", "failed"}]_vars

Protocol == INSTANCE TurnProtocol WITH
    outcome <- [t \in Turns |-> IF turn[t].status \in Open THEN "open" ELSE turn[t].status],
    proven <- {t \in Turns : mission[t].status \in Proven},
    archived <- thread.archived

\* The thread has one open turn at a time, each turn ends once and completes
\* only proven, and nothing opens in an archived thread.
ImplementsProtocol == Protocol!Spec

\* An accepted turn ends or waits for the operator, whatever process dies or
\* is fenced off (ensure_scheduled, claim_turn), unless its mission comes again
\* and again, or for good, to where no worker takes it up.
TurnSettles ==
    \A t \in Turns : <>[](mission[t].status \notin Unclaimed) =>
        (turn[t].status = "accepted" ~> turn[t].status \in Terminal \cup Waiting)

\* docs/architecture/34-next-generation-agent-runtime-audit-and-target-design.md:368:
\* a turn is one input until its terminal state.
TurnEnds ==
    \A t \in Turns : turn[t].status = "accepted" ~> turn[t].status \in Terminal \cup Waiting

\* docs/contracts/sprint-121-canonical-thread-turn-protocol.md: what cannot be
\* resolved becomes an input gap and is not guessed.
GapIsAsked == \A t \in Turns : turn[t].gap => mission[t].status = "none"

\* docs/architecture/34-next-generation-agent-runtime-audit-and-target-design.md:410:
\* an explicit interrupt propagates the cancellation.
InterruptStopsMission ==
    \A t \in Turns : turn[t].status = "cancelled" =>
        mission[t].status \notin {"draft", "running", "paused"}
=============================================================================
