-------------------------- MODULE ThreadTurnProofs ---------------------------
(* The safety properties of ThreadTurn for any processes, turns, attempts,   *)
(* interrupt calls and bounds.                                               *)
EXTENDS ThreadTurn, TLAPS

-----------------------------------------------------------------------------
(* The inductive invariant.                                                  *)

Asking == {"gap_input_requested", "mission_input_requested", "approval_requested"}

MissionAsks == {"waiting_input", "waiting_approval"}

\* Places of a delivery: all of them, after it read the attempts, after it told
\* of every one, and after it told of the evidence.
Closing == {"turn_completed", "turn_failed"}

Answering == {"answered"} \cup Closing

Reported == {"evidence_ready"} \cup Answering

Delivering == {"mission_input_requested", "approval_requested", "projecting", "reporting"}
                 \cup Reported

\* No attempt is as far in work older as in work newer, or they are the same.
Older(older, newer) ==
    \A a \in Attempts : \/ older[a] \in {"none", newer[a]}
                        \/ older[a] = "open" /\ newer[a] /= "none"

\* What is told was found, and is found ever since.
Grounded(told, work) ==
    /\ \A a \in Attempts : told.tools[a] /= "none" => work[a] /= "none"
    /\ \A a \in told.evidence : work[a] = "evidence"

\* A turn and the events it had.
RowFits(row) ==
    /\ row.status \in {"none", "accepted"} => row.events = {}
    /\ row.status = "contextualizing" => "started" \notin row.events
    /\ row.status \in {"running", "streaming"} => row.linked
    /\ "evidence_ready" \in row.events => row.told.evidence /= {}
    /\ "answered" \in row.events => row.told.answer /= NoAnswer
    /\ Asking \cap row.events /= {} => row.status \in Waiting \cup Terminal
    /\ DOMAIN Closes \cap row.events /= {} => row.status \in Terminal

TurnFits(t) ==
    /\ turn[t].status \in Open <=> thread.active = t
    /\ turn[t].status = "none" => \A e \in Executors : e[2] = t => exec[e] = Idle
    /\ Grounded(turn[t].told, mission[t].work)
    /\ RowFits(turn[t])

\* What an execution saw of the mission, which may have gone on.
CopyFits(e) ==
    LET seen == exec[e].seen
        at == exec[e].at
    IN /\ Older(seen.work, mission[e[2]].work)
       /\ seen.status = "completed" => mission[e[2]].status \in Proven
       /\ at \in {"mission_input_requested", "approval_requested"} => seen.status \in MissionAsks
       /\ at \in Delivering \ Asking => seen.status \in {"paused"} \cup MissionEnded
       /\ at = "evidence_ready" => Adding(seen, "evidence") /= {}
       /\ at = "turn_completed" => seen.status = "completed"
       /\ at = "turn_failed" => seen.status /= "completed"

\* What a delivery has told so far is what it saw.
TellsSoFar(told, seen, at) ==
    /\ at \in {"reporting"} \cup Reported => Grounded(told, seen.work)
    /\ at \in Reported => \A a \in Attempts : Items(seen)[a] \in {"none", told.tools[a]}
    /\ at \in Answering => told.evidence = Adding(seen, "evidence")
    /\ at \in Closing => told.answer = AnswerOf(seen)

\* The turn is where its holder is, unless it was interrupted.
HolderFits(e) ==
    LET row == turn[e[2]]
        at == exec[e].at
    IN Holds(e) /\ row.status \notin Terminal =>
       /\ at = "contextualization_started" => row.status = "accepted"
       /\ at = "context_resolved" => /\ row.status = "contextualizing"
                                     /\ "context_resolved" \notin row.events
       /\ at \in {"gap_input_requested", "creating", "started"}
             => row.status = "contextualizing"
       /\ at \in Delivering \cup {"waiting"} => row.status \in {"running", "streaming"}
       /\ TellsSoFar(row.told, exec[e].seen, at)
       /\ at = "raised" /\ e[2] \notin troubled => Conflicts(row, exec[e].seen)

IInv ==
    /\ TypeOK
    /\ \A t \in Turns : TurnFits(t)
    /\ \A e \in Executors : CopyFits(e) /\ HolderFits(e)
    /\ AnswerOfCompletedMission

-----------------------------------------------------------------------------
(* Type correctness.                                                         *)

LEMMA ExecutorParts ==
    /\ \A e \in Executors : e[2] \in Turns
    /\ \A p \in Processes, t \in Turns : <<p, t>> \in Executors /\ <<p, t>>[2] = t
BY DEF Executors

LEMMA Closings ==
    /\ DOMAIN Closes = {"turn_completed", "turn_failed", "runtime_failed", "turn_cancelled"}
    /\ \A ev \in DOMAIN Closes : Closes[ev] \in Terminal
    /\ Closes["turn_completed"] = "completed"
    /\ Closes["turn_failed"] = "failed"
    /\ Closes["runtime_failed"] = "failed"
    /\ Closes["turn_cancelled"] = "cancelled"
BY DEF Closes, Terminal

LEMMA MissionStatuses ==
    /\ {"none", "draft", "running"} \subseteq MissionStatus
    /\ Unclaimed \subseteq MissionStatus /\ MissionWaits \subseteq MissionStatus
    /\ MissionEnded \subseteq MissionStatus
BY DEF MissionStatus

LEMMA Rows ==
    /\ NoMission \in MissionRow /\ NothingTold \in Told
    /\ \A m \in MissionRow : /\ m.status \in MissionStatus /\ m.review \in BOOLEAN
                             /\ m.work \in Work
    /\ \A m \in MissionRow, status \in MissionStatus : [m EXCEPT !.status = status] \in MissionRow
    /\ \A m \in MissionRow, review \in BOOLEAN : [m EXCEPT !.review = review] \in MissionRow
    /\ \A m \in MissionRow, work \in Work : [m EXCEPT !.work = work] \in MissionRow
<1>1. NoMission \in MissionRow
  BY MissionStatuses DEF NoMission, MissionRow, Work
<1>2. NothingTold \in Told
  <2>1. NoAnswer \in Answer
    BY MissionStatuses DEF NoAnswer, Answer
  <2> QED
    BY <2>1 DEF NothingTold, Told
<1> QED
  BY <1>1, <1>2 DEF MissionRow

\* What a delivery tells is made of the attempts it saw.
LEMMA SeenTyped ==
    ASSUME NEW seen \in MissionRow
    PROVE  /\ \A result : Adding(seen, result) \subseteq Attempts
           /\ AnswerOf(seen) \in Answer
           /\ \A a \in Attempts : Items(seen)[a] = Item(seen.work[a])
           /\ \A a \in Attempts : Item(seen.work[a]) \in {"none", "open", "done"}
           /\ \A a \in Attempts : Item(seen.work[a]) = "none" <=> seen.work[a] = "none"
<1>1. \A result : Adding(seen, result) \subseteq Attempts
  BY DEF Adding
<1>2. AnswerOf(seen) \in Answer
  <2>1. "completed" \in MissionStatus /\ seen.status \in MissionStatus
    BY MissionStatuses, Rows DEF MissionEnded
  <2> QED
    BY <1>1, <2>1 DEF AnswerOf, Answer
<1>3. \A a \in Attempts : seen.work[a] \in {"none", "open"} \cup Result
  BY Rows DEF Work
<1> QED
  BY <1>1, <1>2, <1>3 DEF Items, Item, Result

LEMMA TellingTyped ==
    ASSUME NEW told \in Told, NEW ev, NEW seen \in MissionRow
    PROVE  Telling(told, ev, seen) \in Told
<1>1. Adding(seen, "evidence") \in SUBSET Attempts /\ AnswerOf(seen) \in Answer
  BY SeenTyped
<1> QED
  BY <1>1 DEF Telling, Told

LEMMA ReportTyped ==
    ASSUME NEW told \in Told, NEW a \in Attempts, NEW seen \in MissionRow
    PROVE  [told EXCEPT !.tools[a] = Items(seen)[a]] \in Told
<1>1. Items(seen)[a] \in {"none", "open", "done"}
  BY SeenTyped
<1> QED
  BY <1>1 DEF Told

\* The reducer maps turns to turns.
LEMMA ReducedTyped ==
    ASSUME NEW row \in Turn, NEW ev \in Event, NEW told \in Told
    PROVE  Reduced(row, ev, told) \in Turn
<1>1. NextStatus(row, ev) \in Status
  BY Closings DEF NextStatus, Status, Turn, Waiting
<1> QED
  BY <1>1 DEF Reduced, Turn

\* A write keeps the thread and its turns well-typed.
LEMMA WritesTyped ==
    ASSUME TypeOK, NEW t \in Turns, NEW ev \in Event, NEW told \in Told, Writes(t, ev, told)
    PROVE  turn' \in [Turns -> Turn] /\ thread' \in Thread
<1>1. turn[t] \in Turn
  BY DEF TypeOK
<1>2. turn' \in [Turns -> Turn]
  BY <1>1, ReducedTyped DEF Writes, TypeOK
<1>3. thread' \in Thread
  <2>1. [thread EXCEPT !.active = NoTurn] \in Thread
    BY DEF TypeOK, Thread
  <2> QED
    BY <2>1 DEF Writes, TypeOK
<1> QED
  BY <1>2, <1>3

Places == Steps \cup {"idle", "claiming", "reading", "creating", "waiting", "projecting",
                      "reporting", "raised"}

LEMMA IdleTyped == Idle \in Exec
BY Rows DEF Idle, Exec

LEMMA ExecTyped ==
    ASSUME NEW rec \in Exec, NEW at \in Places
    PROVE  [rec EXCEPT !.at = at] \in Exec
BY DEF Exec, Places

LEMMA GotoTyped ==
    ASSUME TypeOK, NEW e \in Executors, NEW at \in Places, Goto(e, at)
    PROVE  exec' \in [Executors -> Exec]
<1>1. exec[e] \in Exec
  BY DEF TypeOK
<1>2. (IF at = "idle" THEN Idle ELSE [exec[e] EXCEPT !.at = at]) \in Exec
  BY <1>1, IdleTyped, ExecTyped
<1> QED
  BY <1>2 DEF Goto, TypeOK

LEMMA ContinuePlace == \A row : Continue(row) \in Places
BY DEF Continue, Places, Steps

LEMMA AfterPlace == \A e, ev, row : After(e, ev, row) \in Places
BY ContinuePlace DEF After, Places, Steps

LEMMA CutTyped ==
    /\ TypeOK /\ Cut => cuts' \in 0..MaxCuts
    /\ TypeOK /\ Controlled => controls' \in 0..MaxControls
BY BoundAssumption DEF TypeOK, Cut, Controlled

LEMMA TypeStart ==
    ASSUME TypeOK, NEW p \in Processes, NEW t \in Turns, StartTurn(p, t)
    PROVE  TypeOK'
<1>1. PICK gap \in BOOLEAN : turn' = [turn EXCEPT ![t].status = "accepted", ![t].gap = gap]
  BY DEF StartTurn
<1>2. turn' \in [Turns -> Turn]
  <2>1. turn[t] \in Turn /\ "accepted" \in Status
    BY DEF TypeOK, Status
  <2>2. [turn[t] EXCEPT !.status = "accepted", !.gap = gap] \in Turn
    BY <2>1 DEF Turn
  <2>3. turn' = [turn EXCEPT ![t] = [turn[t] EXCEPT !.status = "accepted", !.gap = gap]]
    BY <1>1 DEF TypeOK
  <2> QED
    BY <2>2, <2>3 DEF TypeOK
<1>3. thread' \in Thread
  BY DEF StartTurn, TypeOK, Thread
<1>4. exec' \in [Executors -> Exec]
  <2>1. [Idle EXCEPT !.at = "claiming"] \in Exec
    BY IdleTyped, ExecTyped DEF Places
  <2> QED
    BY <2>1, ExecutorParts DEF StartTurn, TypeOK
<1> QED
  BY <1>2, <1>3, <1>4 DEF StartTurn, outside, TypeOK

LEMMA TypeAppend ==
    ASSUME TypeOK, NEW e \in Executors, NEW ev \in Steps, Append(e, ev)
    PROVE  TypeOK'
<1> DEFINE told == Telling(turn[e[2]].told, ev, exec[e].seen)
<1>1. e[2] \in Turns /\ ev \in Event
  BY ExecutorParts DEF Event
<1>2. told \in Told
  <2>1. turn[e[2]].told \in Told /\ exec[e].seen \in MissionRow
    BY <1>1 DEF TypeOK, Turn, Exec
  <2> QED
    BY <2>1, TellingTyped
<1>3. "raised" \in Places
  BY DEF Places
<1>4. \E at \in Places : Goto(e, at)
  BY <1>3, AfterPlace DEF Append
<1>5. exec' \in [Executors -> Exec]
  BY <1>4, GotoTyped
<1>6. turn' \in [Turns -> Turn] /\ thread' \in Thread
  <2>1. CASE Writes(e[2], ev, told)
    BY <2>1, <1>1, <1>2, WritesTyped
  <2>2. CASE UNCHANGED <<thread, turn>>
    BY <2>2 DEF TypeOK
  <2> QED
    BY <2>1, <2>2 DEF Append
<1> QED
  BY <1>5, <1>6 DEF Append, outside, TypeOK

LEMMA TypeReport ==
    ASSUME TypeOK, NEW e \in Executors, ReportTools(e)
    PROVE  TypeOK'
<1> DEFINE row == turn[e[2]]
           seen == exec[e].seen
<1>1. e[2] \in Turns /\ row.told \in Told /\ seen \in MissionRow
  BY ExecutorParts DEF TypeOK, Turn, Exec
<1>2. exec' \in [Executors -> Exec]
  <2>1. {"answered", "evidence_ready", "raised"} \subseteq Places
    BY DEF Places, Steps
  <2>2. \/ exec' = exec
        \/ Goto(e, "answered") \/ Goto(e, "evidence_ready") \/ Goto(e, "raised")
    BY DEF ReportTools
  <2> QED
    BY <2>1, <2>2, GotoTyped DEF TypeOK
<1>3. turn' \in [Turns -> Turn] /\ thread' \in Thread
  <2>1. CASE UNCHANGED <<thread, turn>>
    BY <2>1 DEF TypeOK
  <2>2. CASE \E a \in Attempts :
                Writes(e[2], "tool_reported", [row.told EXCEPT !.tools[a] = Items(seen)[a]])
    <3>1. "tool_reported" \in Event
      BY DEF Event
    <3> QED
      BY <1>1, <2>2, <3>1, ReportTyped, WritesTyped
  <2> QED
    BY <2>1, <2>2 DEF ReportTools
<1> QED
  BY <1>2, <1>3 DEF ReportTools, outside, TypeOK

LEMMA TypeLooks ==
    ASSUME TypeOK, NEW e \in Executors, CreateMission(e) \/ AwaitMission(e) \/ ProjectMission(e)
    PROVE  TypeOK'
<1> DEFINE row == mission[e[2]]
<1>1. e[2] \in Turns /\ row \in MissionRow /\ exec[e] \in Exec
  BY ExecutorParts DEF TypeOK
<1>2. CASE CreateMission(e)
  <2>1. exec' \in [Executors -> Exec]
    BY <1>2, GotoTyped DEF CreateMission, Places, Steps
  <2>2. mission' \in [Turns -> MissionRow]
    <3>1. \A review \in BOOLEAN : [row EXCEPT !.status = "draft", !.review = review] \in MissionRow
      BY <1>1, MissionStatuses DEF MissionRow
    <3>2. CASE UNCHANGED mission
      BY <3>2 DEF TypeOK
    <3>3. CASE \E review \in BOOLEAN :
                  mission' = [mission EXCEPT ![e[2]].status = "draft", ![e[2]].review = review]
      <4>1. PICK review \in BOOLEAN :
               mission' = [mission EXCEPT ![e[2]].status = "draft", ![e[2]].review = review]
        BY <3>3
      <4>2. mission' = [mission EXCEPT ![e[2]] =
                           [row EXCEPT !.status = "draft", !.review = review]]
        BY <4>1 DEF TypeOK
      <4> QED
        BY <3>1, <4>2 DEF TypeOK
    <3> QED
      BY <1>2, <3>2, <3>3 DEF CreateMission
  <2> QED
    BY <1>2, <2>1, <2>2 DEF CreateMission, TypeOK
<1>3. CASE AwaitMission(e)
  <2>1. [row EXCEPT !.work = NoMission.work] \in MissionRow
    BY <1>1, Rows
  <2>2. exec' \in [Executors -> Exec]
    BY <1>3, <2>1 DEF AwaitMission, TypeOK, Exec, Steps
  <2> QED
    BY <1>3, <2>2 DEF AwaitMission, outside, TypeOK
<1>4. CASE ProjectMission(e)
  <2>1. [exec[e].seen EXCEPT !.work = row.work] \in MissionRow
    BY <1>1, Rows DEF Exec
  <2>2. [exec[e] EXCEPT !.at = "reporting", !.seen = [exec[e].seen EXCEPT !.work = row.work]] \in Exec
    BY <1>1, <2>1 DEF Exec
  <2>3. exec' = [exec EXCEPT ![e] = [exec[e] EXCEPT !.at = "reporting",
                                        !.seen = [exec[e].seen EXCEPT !.work = row.work]]]
    BY <1>1, <1>4 DEF ProjectMission, TypeOK, Exec
  <2> QED
    BY <1>4, <2>2, <2>3 DEF ProjectMission, outside, TypeOK
<1> QED
  BY <1>2, <1>3, <1>4

LEMMA TypeExecute ==
    ASSUME TypeOK, NEW e \in Executors, Execute(e)
    PROVE  TypeOK'
<1> USE ExecutorParts
<1>1. CASE ClaimTurn(e)
  <2>1. exec' \in [Executors -> Exec]
    BY <1>1, GotoTyped DEF ClaimTurn, Places
  <2>2. thread' \in Thread
    BY <1>1 DEF ClaimTurn, TypeOK, Thread
  <2> QED
    BY <1>1, <2>1, <2>2 DEF ClaimTurn, outside, TypeOK
<1>2. CASE ReadTurn(e)
  <2>1. exec' \in [Executors -> Exec]
    BY <1>2, GotoTyped, ContinuePlace DEF ReadTurn, Places, Steps
  <2> QED
    BY <1>2, <2>1 DEF ReadTurn, outside, TypeOK
<1>3. CASE CreateMission(e) \/ AwaitMission(e) \/ ProjectMission(e)
  BY <1>3, TypeLooks
<1>4. CASE ReportTools(e)
  BY <1>4, TypeReport
<1>5. CASE FailTurn(e)
  <2>1. "runtime_failed" \in Event /\ turn[e[2]].told \in Told
    BY Closings DEF Event, TypeOK, Turn
  <2>2. turn' \in [Turns -> Turn] /\ thread' \in Thread
    BY <1>5, <2>1, WritesTyped DEF FailTurn, TypeOK
  <2>3. exec' \in [Executors -> Exec]
    BY <1>5, IdleTyped DEF FailTurn, TypeOK
  <2> QED
    BY <1>5, <2>2, <2>3 DEF FailTurn, outside, TypeOK
<1>6. CASE \E ev \in Steps : Append(e, ev)
  BY <1>6, TypeAppend
<1> QED
  BY <1>1, <1>2, <1>3, <1>4, <1>5, <1>6 DEF Execute

LEMMA TypeCalls ==
    ASSUME TypeOK, NEW c \in Calls, NEW t \in Turns,
           Interrupt(c, t) \/ StopMission(c) \/ EndTurn(c) \/ DropCall(c)
    PROVE  TypeOK'
<1>1. CASE Interrupt(c, t)
  BY <1>1, CutTyped DEF Interrupt, TypeOK, Call
<1>2. CASE StopMission(c)
  <2>1. call[c] \in Call /\ call[c].at = "stopping"
    BY <1>2 DEF StopMission, TypeOK
  <2>2. call[c].turn \in Turns
    BY <2>1 DEF Call, NoCall
  <2>3. mission' \in [Turns -> MissionRow]
    <3>1. \A status : Canceled(status) \in MissionStatus
      BY DEF Canceled, MissionStatus, Unclaimed, MissionEnded
    <3>2. mission[call[c].turn] \in MissionRow
      BY <2>2 DEF TypeOK
    <3> QED
      BY <1>2, <3>1, <3>2, Rows DEF StopMission, TypeOK
  <2>4. call' \in [Calls -> Call]
    <3>1. [call[c] EXCEPT !.at = "ending"] \in Call
      BY <2>1 DEF Call, NoCall
    <3> QED
      BY <1>2, <3>1 DEF StopMission, TypeOK
  <2> QED
    BY <1>2, <2>3, <2>4 DEF StopMission, TypeOK
<1>3. CASE EndTurn(c)
  <2>1. call[c] \in Call /\ call[c].at = "ending"
    BY <1>3 DEF EndTurn, TypeOK
  <2>2. call[c].turn \in Turns
    BY <2>1 DEF Call, NoCall
  <2>3. "turn_cancelled" \in Event /\ turn[call[c].turn].told \in Told /\ NoCall \in Call
    BY <2>2, Closings DEF Event, TypeOK, Turn, Call
  <2>4. turn' \in [Turns -> Turn] /\ thread' \in Thread
    BY <1>3, <2>2, <2>3, WritesTyped DEF EndTurn, TypeOK
  <2> QED
    BY <1>3, <2>3, <2>4 DEF EndTurn, TypeOK
<1>4. CASE DropCall(c)
  BY <1>4 DEF DropCall, TypeOK, Call
<1> QED
  BY <1>1, <1>2, <1>3, <1>4

\* What a step of a mission's workers or operators may do to its row.
Changes(t) == RunMission(t) \/ FinishMission(t) \/ WorkOn(t) \/ ControlMission(t) \/ Steer(t)

\* A mission of an open turn goes on: what it found stays, and so does that it was
\* completed, if only without its proof.
LEMMA Changing ==
    ASSUME TypeOK, NEW t \in Turns, Changes(t)
    PROVE  /\ UNCHANGED <<thread, turn, exec, call, troubled, cuts>>
           /\ controls' = controls \/ Controlled
           /\ turn[t].status \in Open
           /\ \E row \in MissionRow :
                 /\ mission' = [mission EXCEPT ![t] = row]
                 /\ Older(mission[t].work, row.work)
                 /\ mission[t].status \in Proven => row.status \in Proven
<1> DEFINE old == mission[t]
<1>1. old \in MissionRow
  BY DEF TypeOK
<1>2. ASSUME NEW from, NEW to, Moves(t, from, to), to \subseteq MissionStatus,
             from \in Proven => to \subseteq Proven
      PROVE  /\ UNCHANGED <<thread, turn, exec, call, troubled, cuts>>
             /\ turn[t].status \in Open
             /\ \E row \in MissionRow :
                   /\ mission' = [mission EXCEPT ![t] = row]
                   /\ Older(old.work, row.work)
                   /\ old.status \in Proven => row.status \in Proven
  <2>1. PICK status \in to : mission' = [mission EXCEPT ![t].status = status]
    BY <1>2 DEF Moves
  <2> DEFINE row == [old EXCEPT !.status = status]
  <2>2. row \in MissionRow /\ row.work = old.work /\ row.status = status
    BY <1>1, <1>2, Rows DEF MissionRow
  <2>3. mission' = [mission EXCEPT ![t] = row]
    BY <2>1 DEF TypeOK
  <2>4. Older(old.work, row.work)
    BY <2>2 DEF Older
  <2> HIDE DEF row
  <2> QED
    BY <1>2, <2>2, <2>3, <2>4 DEF Moves
<1>3. CASE RunMission(t)
  BY <1>2, <1>3 DEF RunMission, Proven, MissionStatus, Unclaimed, MissionWaits, MissionEnded
<1>4. CASE FinishMission(t)
  BY <1>2, <1>4 DEF FinishMission, Proven, MissionStatus, Unclaimed, MissionWaits, MissionEnded
<1>5. CASE ControlMission(t)
  <2>1. \A from \in Cancellable : Canceled(from) \in {"failed", "cancel_requested"}
    BY DEF Canceled
  <2> QED
    BY <1>2, <1>5, <2>1
       DEF ControlMission, Cancellable, Proven, MissionStatus, Unclaimed, MissionWaits, MissionEnded
<1>6. CASE WorkOn(t)
  <2>1. PICK a \in Attempts, result \in {"open"} \cup Result :
           /\ \/ old.work[a] = "none" /\ result = "open"
              \/ old.work[a] = "open" /\ result \in Result
           /\ mission' = [mission EXCEPT ![t].work[a] = result]
    BY <1>6 DEF WorkOn
  <2> DEFINE work == [old.work EXCEPT ![a] = result]
             row == [old EXCEPT !.work = work]
  <2>2. work \in Work
    BY <1>1, Rows DEF Work
  <2>3. row \in MissionRow /\ row.work = work /\ row.status = old.status
    BY <1>1, <2>2, Rows DEF MissionRow
  <2>4. mission' = [mission EXCEPT ![t] = row]
    BY <2>1 DEF TypeOK
  <2>5. Older(old.work, work)
    BY <1>1, <2>1, Rows DEF Older, Work, Result
  <2> HIDE DEF row, work
  <2> QED
    BY <1>6, <2>3, <2>4, <2>5 DEF WorkOn
<1>7. CASE Steer(t)
  <2>1. PICK review \in BOOLEAN,
             next \in CASE old.status = "completed" -> {"unproven"}
                        [] old.status = "running" -> {"running", "replanning"}
                        [] OTHER -> {old.status} :
           mission' = [mission EXCEPT ![t].status = next, ![t].review = review]
    BY <1>7 DEF Steer
  <2> DEFINE row == [old EXCEPT !.status = next, !.review = review]
  <2>2. next \in MissionStatus /\ (old.status \in Proven => next \in Proven)
    BY <1>1, <2>1, Rows DEF Proven, MissionStatus, Unclaimed, MissionEnded
  <2>3. row \in MissionRow /\ row.work = old.work /\ row.status = next
    BY <1>1, <2>2 DEF MissionRow
  <2>4. mission' = [mission EXCEPT ![t] = row]
    BY <2>1 DEF TypeOK
  <2>5. Older(old.work, row.work)
    BY <2>3 DEF Older
  <2> HIDE DEF row
  <2> QED
    BY <1>7, <2>2, <2>3, <2>4, <2>5 DEF Steer
<1> QED
  BY <1>3, <1>4, <1>5, <1>6, <1>7 DEF Changes

\* Every step keeps the types.
LEMMA TypeStep ==
    ASSUME TypeOK, Next
    PROVE  TypeOK'
<1> USE ExecutorParts
<1>1. CASE \E p \in Processes, t \in Turns : StartTurn(p, t)
  BY <1>1, TypeStart
<1>2. CASE \E p \in Processes, t \in Turns : EnsureScheduled(p, t)
  <2>1. PICK p \in Processes, t \in Turns : EnsureScheduled(p, t)
    BY <1>2
  <2>2. exec[<<p, t>>] \in Exec /\ "claiming" \in Places
    BY DEF TypeOK, Places
  <2>3. [exec[<<p, t>>] EXCEPT !.at = "claiming"] \in Exec
    BY <2>2, ExecTyped
  <2>4. exec' \in [Executors -> Exec]
    BY <2>1, <2>3 DEF EnsureScheduled, TypeOK
  <2>5. cuts' \in 0..MaxCuts
    BY <2>1, CutTyped DEF EnsureScheduled, TypeOK
  <2> QED
    BY <2>1, <2>4, <2>5 DEF EnsureScheduled, TypeOK
<1>3. CASE \E e \in Executors : Execute(e)
  BY <1>3, TypeExecute
<1>4. CASE \E e \in Executors : Trouble(e)
  <2>1. PICK e \in Executors : Trouble(e)
    BY <1>4
  <2>2. [Idle EXCEPT !.at = "raised"] \in Exec
    BY IdleTyped, ExecTyped DEF Places
  <2>3. exec' \in [Executors -> Exec]
    BY <2>1, <2>2, IdleTyped DEF Trouble, TypeOK
  <2> QED
    BY <2>1, <2>3, CutTyped DEF Trouble, TypeOK
<1>5. CASE \E p \in Processes : Crash(p)
  <2>1. PICK p \in Processes : Crash(p)
    BY <1>5
  <2>2. exec' \in [Executors -> Exec]
    BY <2>1, IdleTyped DEF Crash, TypeOK
  <2> QED
    BY <2>1, <2>2, CutTyped DEF Crash, TypeOK
<1>6. CASE \E c \in Calls : StopMission(c) \/ EndTurn(c) \/ DropCall(c)
  <2>1. PICK c \in Calls : StopMission(c) \/ EndTurn(c) \/ DropCall(c)
    BY <1>6
  <2>2. CASE call[c] = NoCall
    BY <2>1, <2>2 DEF StopMission, EndTurn, DropCall, NoCall
  <2>3. CASE call[c] /= NoCall
    <3>1. call[c].turn \in Turns
      BY <2>3 DEF TypeOK, Call
    <3> QED
      BY <2>1, <3>1, TypeCalls
  <2> QED
    BY <2>2, <2>3
<1>7. CASE \E c \in Calls, t \in Turns : Interrupt(c, t)
  BY <1>7, TypeCalls
<1>8. CASE \E t \in Turns : Changes(t)
  <2>1. PICK t \in Turns : Changes(t)
    BY <1>8
  <2>2. mission' \in [Turns -> MissionRow]
    BY <2>1, Changing DEF TypeOK
  <2>3. controls' \in 0..MaxControls
    BY <2>1, Changing, CutTyped DEF TypeOK
  <2> QED
    BY <2>1, <2>2, <2>3, Changing DEF TypeOK
<1>9. CASE Archive
  <2>1. [thread EXCEPT !.archived = TRUE] \in Thread
    BY DEF TypeOK, Thread
  <2> QED
    BY <1>9, <2>1, CutTyped DEF Archive, TypeOK
<1> QED
  BY <1>1, <1>2, <1>3, <1>4, <1>5, <1>6, <1>7, <1>8, <1>9 DEF Next, Changes

LEMMA TypeInit == Init => TypeOK
<1> SUFFICES ASSUME Init PROVE TypeOK
  OBVIOUS
<1>1. thread \in Thread
  BY DEF Init, Thread
<1>2. turn \in [Turns -> Turn]
  BY Rows DEF Init, Turn, Status
<1>3. exec \in [Executors -> Exec]
  BY IdleTyped DEF Init
<1>4. mission \in [Turns -> MissionRow] /\ call \in [Calls -> Call]
  BY Rows DEF Init, Call
<1>5. troubled \subseteq Turns /\ cuts \in 0..MaxCuts /\ controls \in 0..MaxControls
  BY BoundAssumption DEF Init
<1> QED
  BY <1>1, <1>2, <1>3, <1>4, <1>5 DEF TypeOK

-----------------------------------------------------------------------------
(* The reducer keeps RowFits.                                                *)

LEMMA Needing ==
    \A ev \in Event :
        /\ "none" \notin Needs(ev)
        /\ ev = "contextualization_started" => Needs(ev) = {"accepted"}
        /\ ev \in {"context_resolved", "started"} => Needs(ev) = {"contextualizing"}
        /\ ev \in {"gap_input_requested", "mission_input_requested"}
              => Needs(ev) = {"contextualizing", "running"}
        /\ ev = "approval_requested" => Needs(ev) = {"running"}
        /\ ev \in {"tool_reported", "evidence_ready", "answered"}
              => Needs(ev) = {"running", "streaming"}
        /\ ev \in DOMAIN Closes => Needs(ev) = Status \ {"none"}
BY Closings DEF Needs, Event

LEMMA Reducing ==
    \A row, ev :
        /\ ev = "contextualization_started" => NextStatus(row, ev) = "contextualizing"
        /\ ev \in {"context_resolved", "tool_reported"} => NextStatus(row, ev) = row.status
        /\ ev = "started" => NextStatus(row, ev) = "running"
        /\ ev \in {"gap_input_requested", "mission_input_requested"}
              => NextStatus(row, ev) = "waiting_input"
        /\ ev = "approval_requested" => NextStatus(row, ev) = "waiting_approval"
        /\ ev \in {"evidence_ready", "answered"} => NextStatus(row, ev) = "streaming"
        /\ ev \in DOMAIN Closes => NextStatus(row, ev) = Closes[ev]
BY Closings DEF NextStatus

LEMMA EventKinds ==
    \A ev \in Event :
        \/ ev \in {"contextualization_started", "context_resolved", "started"}
        \/ ev \in Asking
        \/ ev \in {"tool_reported", "evidence_ready", "answered"}
        \/ ev \in DOMAIN Closes
BY Closings DEF Event, Steps, Asking

\* An event that is taken comes to an open turn, and closes it or keeps it open.
LEMMA TakenStatus ==
    ASSUME NEW row \in Turn, NEW ev \in Event, NEW told, Takes(row, ev)
    PROVE  /\ row.status \in Open
           /\ Reduced(row, ev, told).status /= "none"
           /\ Reduced(row, ev, told).status \in Open <=> ev \notin DOMAIN Closes
           /\ Reduced(row, ev, told).status \in Terminal <=> ev \in DOMAIN Closes
<1>1. row.status \in Needs(ev) \ Terminal /\ row.status \in Status
  BY DEF Takes, Turn
<1>2. row.status \in Open
  BY <1>1, Needing DEF Open
<1>3. Reduced(row, ev, told).status = NextStatus(row, ev)
  BY DEF Reduced
<1>4. CASE ev \in DOMAIN Closes
  BY <1>2, <1>3, <1>4, Closings, Reducing DEF Open, Terminal, Status
<1>5. CASE ev \notin DOMAIN Closes
  <2>1. NextStatus(row, ev) \in Open
    BY <1>1, <1>2, <1>5, EventKinds, Reducing DEF Open, Terminal, Status, Waiting, Asking
  <2> QED
    BY <1>2, <1>3, <1>5, <2>1 DEF Open
<1> QED
  BY <1>4, <1>5

LEMMA TakenRow ==
    ASSUME NEW row \in Turn, RowFits(row), NEW ev \in Event, NEW told, Takes(row, ev),
           "evidence_ready" \in row.events \cup {ev} => told.evidence /= {},
           "answered" \in row.events \cup {ev} => told.answer /= NoAnswer
    PROVE  RowFits(Reduced(row, ev, told))
<1> DEFINE new == Reduced(row, ev, told)
<1>1. row.status \in Needs(ev) \ Terminal
  BY DEF Takes
<1>2. /\ new.status = NextStatus(row, ev) /\ new.events = row.events \cup {ev}
      /\ new.linked = (row.linked \/ ev = "started") /\ new.told = told
  BY DEF Reduced
<1> SUFFICES RowFits(new)
  OBVIOUS
<1> HIDE DEF new
<1>3. /\ "evidence_ready" \in new.events => new.told.evidence /= {}
      /\ "answered" \in new.events => new.told.answer /= NoAnswer
  BY <1>2
<1>4. CASE ev \in DOMAIN Closes
  <2>1. new.status \in Terminal
    BY <1>2, <1>4, Closings, Reducing
  <2> QED
    BY <1>3, <2>1 DEF RowFits, Terminal
<1>5. CASE ev \in Asking
  <2>1. new.status \in Waiting
    BY <1>2, <1>5, Reducing DEF Waiting, Asking
  <2>2. DOMAIN Closes \cap new.events = {}
    BY <1>1, <1>2, <1>5, Closings DEF RowFits, Asking
  <2> QED
    BY <1>3, <2>1, <2>2 DEF RowFits, Waiting
<1>6. CASE ev \in {"contextualization_started", "context_resolved", "started"}
           \/ ev \in {"tool_reported", "evidence_ready", "answered"}
  <2>1. row.status \in {"accepted", "contextualizing", "running", "streaming"}
    BY <1>1, <1>6, Needing
  <2>2. DOMAIN Closes \cap new.events = {}
    BY <1>1, <1>2, <1>6, Closings DEF RowFits
  <2>3. Asking \cap new.events = {}
    BY <1>2, <1>6, <2>1 DEF RowFits, Waiting, Terminal, Asking
  <2>4. CASE ev \in {"contextualization_started", "context_resolved"}
    <3>1. new.status = "contextualizing"
      BY <1>1, <1>2, <2>4, Needing, Reducing
    <3>2. "started" \notin new.events
      BY <1>1, <1>2, <2>4, Needing DEF RowFits
    <3> QED
      BY <1>3, <2>2, <2>3, <3>1, <3>2 DEF RowFits
  <2>5. CASE ev = "started"
    <3>1. new.status = "running" /\ new.linked
      BY <1>2, <2>5, Reducing
    <3> QED
      BY <1>3, <2>2, <2>3, <3>1 DEF RowFits
  <2>6. CASE ev \in {"tool_reported", "evidence_ready", "answered"}
    <3>1. row.status \in {"running", "streaming"} /\ row.linked
      BY <1>1, <2>6, Needing DEF RowFits
    <3>2. new.status \in {"running", "streaming"} /\ new.linked
      BY <1>2, <2>6, <3>1, Reducing
    <3> QED
      BY <1>3, <2>2, <2>3, <3>2 DEF RowFits
  <2> QED
    BY <1>6, <2>4, <2>5, <2>6
<1> QED
  BY <1>4, <1>5, <1>6, EventKinds

-----------------------------------------------------------------------------
(* What was found stays found.                                               *)

LEMMA OlderStays ==
    \A x, y, z \in Work :
        /\ Older(x, x)
        /\ Older(x, y) /\ Older(y, z) => Older(x, z)
BY DEF Older, Work, Result

LEMMA GroundedStays ==
    \A told \in Told, x, y \in Work :
        Grounded(told, x) /\ Older(x, y) => Grounded(told, y)
BY DEF Grounded, Older, Told, Work, Result

LEMMA BlankIsOldest ==
    /\ NoMission.work \in Work
    /\ \A x \in Work : Older(NoMission.work, x)
BY DEF NoMission, Older, Work

\* A mission goes on.
Onward(old, new) ==
    /\ Older(old.work, new.work)
    /\ old.status \in Proven => new.status \in Proven

\* What the turn tells is one look at its completed mission.
AnswersFor(told, row) ==
    /\ row.status \in Proven
    /\ \E seen \in [status : {"completed"}, review : BOOLEAN, work : Work] :
          /\ Tells(told, seen)
          /\ \A a \in Attempts : seen.work[a] \in {"none", "open", row.work[a]}

LEMMA AnswersStay ==
    ASSUME NEW told, NEW old \in MissionRow, NEW new \in MissionRow, Onward(old, new),
           AnswersFor(told, old)
    PROVE  AnswersFor(told, new)
<1>1. PICK seen \in [status : {"completed"}, review : BOOLEAN, work : Work] :
         /\ Tells(told, seen)
         /\ \A a \in Attempts : seen.work[a] \in {"none", "open", old.work[a]}
  BY DEF AnswersFor
<1>2. \A a \in Attempts : seen.work[a] \in {"none", "open", new.work[a]}
  BY <1>1 DEF Onward, Older
<1> QED
  BY <1>1, <1>2 DEF AnswersFor, Onward

\* A turn of which all was told, as its completed mission was seen.
LEMMA AnswersComplete ==
    ASSUME NEW told \in Told, NEW seen \in MissionRow, seen.status = "completed",
           TellsSoFar(told, seen, "turn_completed"),
           NEW row \in MissionRow, row.status \in Proven, Older(seen.work, row.work)
    PROVE  AnswersFor(told, row)
<1>1. seen \in [status : {"completed"}, review : BOOLEAN, work : Work]
  BY DEF MissionRow
<1>2. \A a \in Attempts : told.tools[a] = Items(seen)[a]
  BY SeenTyped DEF TellsSoFar, Grounded, Reported, Answering, Closing
<1>3. told.evidence = Adding(seen, "evidence") /\ told.answer = AnswerOf(seen)
  BY DEF TellsSoFar, Answering, Closing
<1>4. told.tools = Items(seen)
  <2>1. told.tools \in [Attempts -> {"none", "open", "done"}]
    BY DEF Told
  <2>2. Items(seen) \in [Attempts -> {"none", "open", "done"}]
    BY SeenTyped DEF Items
  <2> QED
    BY <1>2, <2>1, <2>2
<1>5. Tells(told, seen)
  BY <1>3, <1>4 DEF Tells, Told
<1>6. \A a \in Attempts : seen.work[a] \in {"none", "open", row.work[a]}
  BY DEF Older
<1> QED
  BY <1>1, <1>5, <1>6 DEF AnswersFor

-----------------------------------------------------------------------------
(* Steps that write no turn, and steps that write one.                       *)

LEMMA IdleFits ==
    ASSUME TypeOK', NEW e \in Executors, exec'[e] = Idle
    PROVE  CopyFits(e)' /\ HolderFits(e)'
<1>1. mission'[e[2]].work \in Work
  BY ExecutorParts, Rows DEF TypeOK
<1> QED
  BY <1>1, BlankIsOldest
     DEF CopyFits, HolderFits, TellsSoFar, Idle, NoMission, Delivering, Reported, Answering, Closing

\* The turns stay and the missions go on.
LEMMA QuietStep ==
    ASSUME IInv, TypeOK', turn' = turn, thread'.active = thread.active,
           \A t \in Turns : Onward(mission[t], mission'[t]),
           troubled \subseteq troubled',
           \A e \in Executors :
              \/ exec'[e] = exec[e] /\ (Holds(e)' => Holds(e))
              \/ exec'[e] = Idle
              \/ turn[e[2]].status /= "none" /\ CopyFits(e)' /\ HolderFits(e)'
    PROVE  IInv'
<1>0. \A t \in Turns : /\ mission[t] \in MissionRow /\ mission'[t] \in MissionRow
                       /\ mission[t].work \in Work /\ mission'[t].work \in Work
                       /\ turn[t].told \in Told
  BY Rows DEF IInv, TypeOK, Turn
<1>1. ASSUME NEW t \in Turns PROVE TurnFits(t)'
  <2>1. TurnFits(t)
    BY DEF IInv
  <2>2. turn[t].status = "none" => \A e \in Executors : e[2] = t => exec'[e] = Idle
    BY <2>1 DEF TurnFits
  <2>3. RowFits(turn[t])'
    BY <2>1 DEF TurnFits, RowFits
  <2>4. Grounded(turn[t].told, mission'[t].work)
    BY <1>0, <2>1, GroundedStays DEF TurnFits, Onward
  <2> QED
    BY <2>1, <2>2, <2>3, <2>4 DEF TurnFits
<1>2. ASSUME NEW e \in Executors PROVE CopyFits(e)' /\ HolderFits(e)'
  <2>1. CASE exec'[e] = exec[e] /\ (Holds(e)' => Holds(e))
    <3>1. CopyFits(e) /\ HolderFits(e) /\ e[2] \in Turns /\ exec[e].seen.work \in Work
      BY ExecutorParts, Rows DEF IInv, TypeOK, Exec
    <3>2. Older(exec[e].seen.work, mission'[e[2]].work)
      BY <1>0, <3>1, OlderStays DEF CopyFits, Onward
    <3>3. CopyFits(e)'
      BY <2>1, <3>1, <3>2 DEF CopyFits, Onward
    <3>4. HolderFits(e)'
      BY <2>1, <3>1 DEF HolderFits
    <3> QED
      BY <3>3, <3>4
  <2> QED
    BY <2>1, IdleFits
<1>3. AnswerOfCompletedMission'
  <2>1. ASSUME NEW t \in Turns, turn[t].status = "completed"
        PROVE  AnswersFor(turn[t].told, mission'[t])
    BY <1>0, <2>1, AnswersStay DEF IInv, AnswerOfCompletedMission, AnswersFor
  <2> QED
    BY <2>1 DEF AnswerOfCompletedMission, AnswersFor
<1> QED
  BY <1>1, <1>2, <1>3 DEF IInv

\* The mission may not have changed at all.
LEMMA SameMission == IInv /\ mission' = mission => \A t \in Turns : Onward(mission[t], mission'[t])
BY OlderStays, Rows DEF IInv, TypeOK, Onward

\* What a write changes and leaves alone.
LEMMA Written ==
    ASSUME TypeOK, NEW t \in Turns, NEW ev \in Event, NEW told,
           Writes(t, ev, told), Takes(turn[t], ev)
    PROVE  /\ turn[t] \in Turn
           /\ turn'[t] = Reduced(turn[t], ev, told)
           /\ turn'[t].told = told
           /\ turn'[t].events = turn[t].events \cup {ev}
           /\ \A u \in Turns \ {t} : turn'[u] = turn[u]
           /\ turn[t].status \in Open
           /\ turn'[t].status /= "none"
           /\ turn'[t].status \in Open <=> ev \notin DOMAIN Closes
           /\ turn'[t].status \in Terminal <=> ev \in DOMAIN Closes
           /\ thread'.lease = thread.lease /\ thread'.archived = thread.archived
           /\ thread'.active = IF ev \in DOMAIN Closes THEN NoTurn ELSE thread.active
<1>1. turn[t] \in Turn /\ turn'[t] = Reduced(turn[t], ev, told)
  BY DEF TypeOK, Writes
<1>2. \A u \in Turns \ {t} : turn'[u] = turn[u]
  BY DEF TypeOK, Writes
<1>3. turn'[t].told = told /\ turn'[t].events = turn[t].events \cup {ev}
  BY <1>1 DEF Reduced
<1>4. /\ thread'.lease = thread.lease /\ thread'.archived = thread.archived
      /\ thread'.active = IF ev \in DOMAIN Closes THEN NoTurn ELSE thread.active
  BY DEF Writes, TypeOK, Thread
<1> QED
  BY <1>1, <1>2, <1>3, <1>4, TakenStatus

LEMMA WriteStep ==
    ASSUME IInv, TypeOK', NEW t \in Turns, NEW ev \in Event, NEW told,
           Writes(t, ev, told), Takes(turn[t], ev), UNCHANGED <<mission, troubled>>,
           "evidence_ready" \in turn[t].events \cup {ev} => told.evidence /= {},
           "answered" \in turn[t].events \cup {ev} => told.answer /= NoAnswer,
           Grounded(told, mission[t].work),
           ev = "turn_completed" => AnswersFor(told, mission[t]),
           \A e \in Executors :
              \/ exec'[e] = exec[e] /\ (e[2] = t /\ Holds(e) => ev \in DOMAIN Closes)
              \/ exec'[e] = Idle
              \/ e[2] = t /\ CopyFits(e)' /\ HolderFits(e)'
    PROVE  IInv'
<1> USE Closings
<1>0. TypeOK
  BY DEF IInv
<1>1. /\ turn'[t] = Reduced(turn[t], ev, told)
      /\ turn'[t].told = told
      /\ \A u \in Turns \ {t} : turn'[u] = turn[u]
      /\ turn[t].status \in Open
      /\ turn'[t].status /= "none"
      /\ turn'[t].status \in Open <=> ev \notin DOMAIN Closes
      /\ turn'[t].status \in Terminal <=> ev \in DOMAIN Closes
      /\ thread'.lease = thread.lease
      /\ thread'.active = IF ev \in DOMAIN Closes THEN NoTurn ELSE thread.active
      /\ turn[t] \in Turn
  BY <1>0, Written
<1>2. TurnFits(t) /\ thread.active = t
  BY <1>1 DEF IInv, TurnFits
<1>3. ASSUME NEW u \in Turns PROVE TurnFits(u)'
  <2>1. CASE u = t
    <3>1. RowFits(turn'[t])
      BY <1>1, <1>2, TakenRow DEF TurnFits
    <3>2. RowFits(turn[t])'
      BY <3>1 DEF RowFits
    <3>3. turn'[t].status \in Open <=> thread'.active = t
      BY <1>1, <1>2, TurnsAssumption
    <3> QED
      BY <1>1, <2>1, <3>2, <3>3 DEF TurnFits
  <2>2. CASE u /= t
    <3>1. TurnFits(u) /\ turn'[u] = turn[u]
      BY <1>1, <2>2 DEF IInv
    <3>2. turn[u].status \notin Open /\ thread'.active /= u
      BY <1>1, <1>2, <2>2, <3>1, TurnsAssumption DEF TurnFits
    <3>3. turn[u].status = "none" => \A e \in Executors : e[2] = u => exec'[e] = Idle
      BY <2>2, <3>1 DEF TurnFits
    <3>4. RowFits(turn[u])'
      BY <3>1 DEF TurnFits, RowFits
    <3> QED
      BY <3>1, <3>2, <3>3, <3>4 DEF TurnFits
  <2> QED
    BY <2>1, <2>2
<1>4. ASSUME NEW e \in Executors PROVE CopyFits(e)' /\ HolderFits(e)'
  <2>1. CopyFits(e) /\ HolderFits(e) /\ e[2] \in Turns
    BY ExecutorParts DEF IInv
  <2>2. ASSUME exec'[e] = exec[e] PROVE CopyFits(e)'
    BY <2>1, <2>2 DEF CopyFits
  <2>3. CASE exec'[e] = exec[e] /\ e[2] /= t
    <3>1. turn'[e[2]] = turn[e[2]]
      BY <1>1, <2>1, <2>3
    <3>2. HolderFits(e)'
      BY <1>1, <2>1, <2>3, <3>1 DEF HolderFits, Holds
    <3> QED
      BY <2>2, <2>3, <3>2
  <2>4. CASE exec'[e] = exec[e] /\ e[2] = t /\ (Holds(e) => ev \in DOMAIN Closes)
    <3>1. HolderFits(e)'
      BY <1>1, <2>4 DEF HolderFits, Holds
    <3> QED
      BY <2>2, <2>4, <3>1
  <2> QED
    BY <2>3, <2>4, IdleFits
<1>5. AnswerOfCompletedMission'
  <2>1. ASSUME turn'[t].status = "completed"
        PROVE  ev = "turn_completed"
    BY <1>1, <2>1, Reducing DEF Reduced, Terminal
  <2>2. ASSUME NEW u \in Turns, turn'[u].status = "completed"
        PROVE  AnswersFor(turn'[u].told, mission'[u])
    <3>1. CASE u = t
      BY <1>1, <2>1, <2>2, <3>1
    <3>2. CASE u /= t
      BY <1>1, <2>2, <3>2 DEF IInv, AnswerOfCompletedMission, AnswersFor
    <3> QED
      BY <3>1, <3>2
  <2> QED
    BY <2>2 DEF AnswerOfCompletedMission, AnswersFor
<1> QED
  BY <1>3, <1>4, <1>5 DEF IInv

-----------------------------------------------------------------------------
(* The steps of a client and of the operators.                               *)

LEMMA StartInv ==
    ASSUME IInv, TypeOK', NEW p \in Processes, NEW t \in Turns, StartTurn(p, t)
    PROVE  IInv'
<1> DEFINE e0 == <<p, t>>
<1>1. e0 \in Executors /\ e0[2] = t
  BY ExecutorParts
<1>2. PICK gap \in BOOLEAN : turn' = [turn EXCEPT ![t].status = "accepted", ![t].gap = gap]
  BY DEF StartTurn
<1>3. /\ turn'[t].status = "accepted" /\ turn'[t].events = turn[t].events
      /\ turn'[t].told = turn[t].told /\ turn'[t].linked = turn[t].linked
      /\ \A u \in Turns \ {t} : turn'[u] = turn[u]
  BY <1>2 DEF IInv, TypeOK, Turn
<1>4. /\ turn[t].status = "none" /\ thread.active = NoTurn /\ thread'.active = t
      /\ mission' = mission /\ troubled' = troubled
      /\ \A e \in Executors \ {e0} : exec'[e] = exec[e]
      /\ exec'[e0] = [Idle EXCEPT !.at = "claiming"]
  BY <1>1 DEF StartTurn, outside, IInv, TypeOK, Thread
<1>5. /\ TurnFits(t) /\ turn[t].events = {}
      /\ \A e \in Executors : e[2] = t => exec[e] = Idle
  BY <1>4 DEF IInv, TurnFits, RowFits
<1>6. ASSUME NEW u \in Turns PROVE TurnFits(u)'
  <2>1. CASE u = t
    <3>1. RowFits(turn[t])'
      BY <1>3, <1>5, Closings DEF TurnFits, RowFits
    <3> QED
      BY <1>3, <1>4, <1>5, <2>1, <3>1 DEF TurnFits, Open, Status, Terminal
  <2>2. CASE u /= t
    <3>1. TurnFits(u) /\ turn'[u] = turn[u]
      BY <1>3, <2>2 DEF IInv
    <3>2. RowFits(turn[u])'
      BY <3>1 DEF TurnFits, RowFits
    <3>3. turn[u].status \notin Open
      BY <1>4, <3>1, TurnsAssumption DEF TurnFits
    <3>4. turn[u].status = "none" => \A e \in Executors : e[2] = u => exec'[e] = Idle
      BY <1>1, <1>4, <2>2, <3>1 DEF TurnFits
    <3> QED
      BY <1>4, <2>2, <3>1, <3>2, <3>3, <3>4 DEF TurnFits
  <2> QED
    BY <2>1, <2>2
<1>7. ASSUME NEW e \in Executors PROVE CopyFits(e)' /\ HolderFits(e)'
  <2>1. CASE e[2] = t
    <3>1. exec'[e].at \in {"idle", "claiming"} /\ exec'[e].seen = NoMission
      BY <1>4, <1>5, <2>1 DEF Idle
    <3>2. mission'[t].work \in Work
      BY Rows DEF TypeOK
    <3> QED
      BY <2>1, <3>1, <3>2, BlankIsOldest
         DEF CopyFits, HolderFits, TellsSoFar, NoMission, Delivering, Reported, Answering, Closing
  <2>2. CASE e[2] /= t
    <3>1. /\ CopyFits(e) /\ HolderFits(e) /\ exec'[e] = exec[e] /\ turn'[e[2]] = turn[e[2]]
          /\ thread'.lease = thread.lease
      BY <1>1, <1>3, <1>4, <2>2, ExecutorParts DEF IInv, StartTurn, TypeOK, Thread
    <3>2. CopyFits(e)'
      BY <1>4, <3>1 DEF CopyFits
    <3>3. HolderFits(e)'
      BY <1>4, <3>1 DEF HolderFits, Holds
    <3> QED
      BY <3>2, <3>3
  <2> QED
    BY <2>1, <2>2
<1>8. AnswerOfCompletedMission'
  BY <1>3, <1>4 DEF IInv, AnswerOfCompletedMission
<1> QED
  BY <1>6, <1>7, <1>8 DEF IInv

\* Places where nothing was seen of the mission, or nothing of it is told.
LEMMA FreePlaces ==
    ASSUME NEW e \in Executors, CopyFits(e), mission' = mission, exec'[e].seen = exec[e].seen,
           exec'[e].at \in {"claiming", "reading"}
    PROVE  CopyFits(e)' /\ HolderFits(e)'
BY DEF CopyFits, HolderFits, TellsSoFar, Delivering, Reported, Answering, Closing

LEMMA ScheduleInv ==
    ASSUME IInv, TypeOK', NEW p \in Processes, NEW t \in Turns, EnsureScheduled(p, t)
    PROVE  IInv'
<1> DEFINE e0 == <<p, t>>
<1>1. e0 \in Executors /\ e0[2] = t
  BY ExecutorParts
<1>2. /\ \A e \in Executors \ {e0} : exec'[e] = exec[e]
      /\ exec'[e0].at = "claiming" /\ exec'[e0].seen = exec[e0].seen
  BY <1>1 DEF EnsureScheduled, IInv, TypeOK, Exec
<1>3. UNCHANGED <<thread, turn, mission, troubled>> /\ turn[t].status /= "none"
  BY DEF EnsureScheduled, Schedules, Open
<1>4. CopyFits(e0)' /\ HolderFits(e0)'
  BY <1>1, <1>2, <1>3, FreePlaces DEF IInv
<1> QED
  BY <1>1, <1>2, <1>3, <1>4, SameMission, QuietStep DEF Holds

LEMMA MissionInv ==
    ASSUME IInv, TypeOK', NEW t \in Turns, Changes(t)
    PROVE  IInv'
<1>1. /\ UNCHANGED <<thread, turn, exec, troubled>>
      /\ \E row \in MissionRow : /\ mission' = [mission EXCEPT ![t] = row]
                                 /\ Onward(mission[t], row)
  BY Changing DEF IInv, Onward
<1>2. \A u \in Turns : Onward(mission[u], mission'[u])
  BY <1>1, OlderStays, Rows DEF IInv, TypeOK, Onward
<1> QED
  BY <1>1, <1>2, QuietStep DEF Holds

LEMMA StopOnward ==
    ASSUME TypeOK, NEW c \in Calls, StopMission(c)
    PROVE  /\ call[c].turn \in Turns
           /\ \E row \in MissionRow : /\ mission' = [mission EXCEPT ![call[c].turn] = row]
                                      /\ Onward(mission[call[c].turn], row)
<1> DEFINE t == call[c].turn
           old == mission[t]
<1>1. t \in Turns /\ old \in MissionRow
  BY DEF StopMission, TypeOK, Call, NoCall
<1>2. CASE UNCHANGED mission
  <2>1. mission' = [mission EXCEPT ![t] = old]
    BY <1>1, <1>2 DEF TypeOK
  <2> QED
    BY <1>1, <2>1, OlderStays, Rows DEF Onward
<1>3. CASE old.status \in Cancellable
           /\ mission' = [mission EXCEPT ![t].status = Canceled(old.status)]
  <2> DEFINE row == [old EXCEPT !.status = Canceled(old.status)]
  <2>1. Canceled(old.status) \in MissionStatus /\ old.status \notin Proven
    BY <1>3 DEF Canceled, Cancellable, Proven, MissionWaits, MissionStatus, Unclaimed, MissionEnded
  <2>2. row \in MissionRow /\ row.work = old.work
    BY <1>1, <2>1, Rows DEF MissionRow
  <2>3. mission' = [mission EXCEPT ![t] = row]
    BY <1>3 DEF TypeOK
  <2>4. Onward(old, row)
    BY <1>1, <2>1, <2>2, OlderStays, Rows DEF Onward
  <2> HIDE DEF row
  <2> QED
    BY <1>1, <2>2, <2>3, <2>4
<1> QED
  BY <1>1, <1>2, <1>3 DEF StopMission

LEMMA CallInv ==
    ASSUME IInv, TypeOK', NEW c \in Calls,
           \/ \E t \in Turns : Interrupt(c, t)
           \/ StopMission(c) \/ EndTurn(c) \/ DropCall(c)
    PROVE  IInv'
<1>1. CASE (\E t \in Turns : Interrupt(c, t)) \/ DropCall(c)
  <2>1. UNCHANGED <<thread, turn, exec, mission, troubled>>
    BY <1>1 DEF Interrupt, DropCall
  <2> QED
    BY <2>1, SameMission, QuietStep DEF Holds
<1>2. CASE StopMission(c)
  <2>1. \A u \in Turns : Onward(mission[u], mission'[u])
    BY <1>2, StopOnward, OlderStays, Rows DEF IInv, TypeOK, Onward
  <2>2. UNCHANGED <<thread, turn, exec, troubled>>
    BY <1>2 DEF StopMission
  <2> QED
    BY <2>1, <2>2, QuietStep DEF Holds
<1>3. CASE EndTurn(c)
  <2> DEFINE t == call[c].turn
  <2>1. t \in Turns
    BY <1>3 DEF EndTurn, IInv, TypeOK, Call, NoCall
  <2>2. UNCHANGED <<exec, mission, troubled>>
    BY <1>3 DEF EndTurn
  <2>3. CASE Applies(turn[t], "turn_cancelled")
    <3>1. Writes(t, "turn_cancelled", turn[t].told) /\ Takes(turn[t], "turn_cancelled")
      BY <1>3, <2>3 DEF EndTurn, Applies
    <3>2. "turn_cancelled" \in Event /\ "turn_cancelled" \in DOMAIN Closes
      BY Closings DEF Event
    <3>3. RowFits(turn[t]) /\ Grounded(turn[t].told, mission[t].work)
      BY <2>1 DEF IInv, TurnFits
    <3> HIDE DEF t
    <3> QED
      BY <2>1, <2>2, <3>1, <3>2, <3>3, WriteStep DEF RowFits
  <2>4. CASE ~ Applies(turn[t], "turn_cancelled")
    <3>1. UNCHANGED <<thread, turn>>
      BY <1>3, <2>4 DEF EndTurn
    <3> QED
      BY <2>2, <3>1, SameMission, QuietStep DEF Holds
  <2> QED
    BY <2>3, <2>4
<1> QED
  BY <1>1, <1>2, <1>3

LEMMA FaultInv ==
    ASSUME IInv, TypeOK',
           (\E e \in Executors : Trouble(e)) \/ (\E p \in Processes : Crash(p))
    PROVE  IInv'
<1>1. CASE \E e \in Executors : Trouble(e)
  <2>1. PICK e \in Executors : Trouble(e)
    BY <1>1
  <2>2. /\ UNCHANGED <<thread, turn, mission>> /\ troubled' = troubled \cup {e[2]}
        /\ \A x \in Executors \ {e} : exec'[x] = exec[x]
        /\ exec'[e].at \in {"idle", "raised"} /\ exec'[e].seen = NoMission
    BY <2>1 DEF Trouble, Idle, IInv, TypeOK
  <2>3. turn[e[2]].status /= "none"
    BY <2>1, ExecutorParts DEF Trouble, Idle, IInv, TurnFits
  <2>4. mission'[e[2]].work \in Work
    BY ExecutorParts, Rows DEF TypeOK
  <2>5. CopyFits(e)' /\ HolderFits(e)'
    BY <2>2, <2>4, BlankIsOldest
       DEF CopyFits, HolderFits, TellsSoFar, NoMission, Delivering, Reported, Answering, Closing
  <2> QED
    BY <2>2, <2>3, <2>5, SameMission, QuietStep DEF Holds
<1>2. CASE \E p \in Processes : Crash(p)
  <2>1. /\ UNCHANGED <<thread, turn, mission, troubled>>
        /\ \A e \in Executors : exec'[e] \in {exec[e], Idle}
    BY <1>2 DEF Crash
  <2> QED
    BY <2>1, SameMission, QuietStep DEF Holds
<1> QED
  BY <1>1, <1>2

-----------------------------------------------------------------------------
(* The steps of an executor.                                                 *)

\* Where a step goes with Goto.
LEMMA Going ==
    ASSUME TypeOK, NEW e \in Executors, NEW at \in Places, Goto(e, at)
    PROVE  /\ exec'[e].at = at
           /\ at /= "idle" => exec'[e].seen = exec[e].seen
           /\ at = "idle" => exec'[e] = Idle
           /\ \A x \in Executors \ {e} : exec'[x] = exec[x]
<1>1. exec[e] \in Exec
  BY DEF TypeOK
<1>2. exec'[e] = IF at = "idle" THEN Idle ELSE [exec[e] EXCEPT !.at = at]
  BY DEF Goto, TypeOK
<1>3. \A x \in Executors \ {e} : exec'[x] = exec[x]
  BY DEF Goto, TypeOK
<1> QED
  BY <1>1, <1>2, <1>3 DEF Idle, Exec

\* An execution under way is of an accepted turn.
LEMMA UnderWay ==
    ASSUME IInv, NEW e \in Executors, exec[e].at /= "idle"
    PROVE  /\ e[2] \in Turns /\ turn[e[2]].status /= "none" /\ turn[e[2]] \in Turn
           /\ exec[e].seen \in MissionRow /\ mission[e[2]] \in MissionRow
           /\ TurnFits(e[2]) /\ CopyFits(e) /\ HolderFits(e)
BY ExecutorParts DEF IInv, TurnFits, Idle, TypeOK, Exec

LEMMA ClaimInv ==
    ASSUME IInv, TypeOK', NEW e \in Executors, ClaimTurn(e)
    PROVE  IInv'
<1>1. Goto(e, "reading") /\ "reading" \in Places /\ exec[e].at = "claiming"
  BY DEF ClaimTurn, Places
<1>2. /\ exec'[e].at = "reading" /\ exec'[e].seen = exec[e].seen
      /\ \A x \in Executors \ {e} : exec'[x] = exec[x]
  BY <1>1, Going DEF IInv
<1>3. /\ thread'.active = thread.active /\ thread'.lease = e
      /\ UNCHANGED <<turn, mission, troubled>>
  BY DEF ClaimTurn, outside, IInv, TypeOK, Thread
<1>4. turn[e[2]].status /= "none" /\ CopyFits(e)
  BY <1>1, UnderWay
<1>5. CopyFits(e)' /\ HolderFits(e)'
  BY <1>2, <1>3, <1>4, FreePlaces
<1> QED
  BY <1>2, <1>3, <1>4, <1>5, SameMission, QuietStep DEF Holds

\* Places before a delivery.
LEMMA EarlyPlaces ==
    ASSUME NEW e \in Executors, CopyFits(e), Onward(mission[e[2]], mission'[e[2]]),
           exec[e].seen.work \in Work, mission[e[2]].work \in Work, mission'[e[2]].work \in Work,
           exec'[e].seen = exec[e].seen,
           LET row == turn'[e[2]]
               at == exec'[e].at
           IN \/ at = "contextualization_started" /\ row.status = "accepted"
              \/ /\ at = "context_resolved" /\ row.status = "contextualizing"
                 /\ "context_resolved" \notin row.events
              \/ /\ at \in {"gap_input_requested", "creating", "started"}
                 /\ row.status = "contextualizing"
              \/ at = "waiting" /\ row.status \in {"running", "streaming"}
    PROVE  CopyFits(e)' /\ HolderFits(e)'
<1>1. Older(exec[e].seen.work, mission'[e[2]].work)
  BY OlderStays DEF CopyFits, Onward
<1>2. /\ exec'[e].at \notin Delivering /\ exec'[e].at /= "raised"
      /\ exec'[e].at \notin {"reporting"} \cup Reported \cup Answering \cup Closing
  BY DEF Delivering, Reported, Answering, Closing
<1>3. CopyFits(e)'
  BY <1>1, <1>2 DEF CopyFits, Onward, Delivering, Reported, Answering, Closing
<1>4. HolderFits(e)'
  BY <1>2 DEF HolderFits, TellsSoFar
<1> QED
  BY <1>3, <1>4

LEMMA ReadInv ==
    ASSUME IInv, TypeOK', NEW e \in Executors, ReadTurn(e)
    PROVE  IInv'
<1> DEFINE row == turn[e[2]]
           at == CASE row.status \in Terminal \cup Waiting -> "idle"
                   [] row.status = "accepted" -> "contextualization_started"
                   [] OTHER -> Continue(row)
<1>1. Goto(e, at) /\ exec[e].at = "reading" /\ UNCHANGED <<thread, turn, mission, troubled>>
  BY DEF ReadTurn, outside
<1>2. at \in Places
  BY ContinuePlace DEF Places, Steps
<1>3. /\ RowFits(row) /\ row \in Turn /\ row.status /= "none" /\ CopyFits(e) /\ e[2] \in Turns
      /\ exec[e].seen.work \in Work /\ mission[e[2]].work \in Work
  BY <1>1, UnderWay, Rows DEF TurnFits
<1>4. \/ at = "idle"
      \/ at = "contextualization_started" /\ row.status = "accepted"
      \/ /\ at = "context_resolved" /\ row.status = "contextualizing"
         /\ "context_resolved" \notin row.events
      \/ at = "creating" /\ row.status = "contextualizing"
      \/ at = "waiting" /\ row.status \in {"running", "streaming"}
  <2>1. row.status \in Status
    BY <1>3 DEF Turn
  <2>2. CASE row.status \in Terminal \cup Waiting
    <3>1. at = "idle"
      BY <2>2 DEF Terminal, Waiting
    <3> QED
      BY <3>1
  <2>3. CASE row.status = "accepted"
    <3>1. at = "contextualization_started"
      BY <2>3 DEF Terminal, Waiting
    <3> QED
      BY <2>3, <3>1
  <2>4. CASE row.status \in {"contextualizing", "running", "streaming"}
    <3>1. at = Continue(row)
      BY <2>4 DEF Terminal, Waiting
    <3> HIDE DEF at
    <3> QED
      BY <1>3, <2>4, <3>1 DEF Continue, RowFits
  <2> QED
    BY <1>3, <2>1, <2>2, <2>3, <2>4 DEF Status
<1> HIDE DEF at
<1>5. /\ exec'[e].at = at
      /\ at /= "idle" => exec'[e].seen = exec[e].seen
      /\ at = "idle" => exec'[e] = Idle
      /\ \A x \in Executors \ {e} : exec'[x] = exec[x]
  BY <1>1, <1>2, Going DEF IInv
<1>6. CASE at = "idle"
  BY <1>1, <1>5, <1>6, SameMission, QuietStep DEF Holds
<1>7. CASE at /= "idle"
  <2>1. Onward(mission[e[2]], mission'[e[2]])
    BY <1>1, <1>3, SameMission
  <2>2. CopyFits(e)' /\ HolderFits(e)'
    BY <1>1, <1>3, <1>4, <1>5, <1>7, <2>1, EarlyPlaces
  <2> QED
    BY <1>1, <1>3, <1>5, <2>2, SameMission, QuietStep DEF Holds
<1> QED
  BY <1>6, <1>7

LEMMA CreateOnward ==
    ASSUME TypeOK, NEW e \in Executors, CreateMission(e)
    PROVE  \A t \in Turns : /\ Onward(mission[t], mission'[t])
                            /\ t /= e[2] => mission'[t] = mission[t]
<1>1. \A t \in Turns : mission[t] \in MissionRow /\ mission[t].work \in Work
  BY Rows DEF TypeOK
<1>2. CASE UNCHANGED mission
  BY <1>1, <1>2, OlderStays DEF Onward
<1>3. CASE mission[e[2]].status = "none" /\ ~ UNCHANGED mission
  <2>1. PICK review \in BOOLEAN :
           mission' = [mission EXCEPT ![e[2]].status = "draft", ![e[2]].review = review]
    BY <1>3 DEF CreateMission
  <2> DEFINE row == [mission[e[2]] EXCEPT !.status = "draft", !.review = review]
  <2>2. mission' = [mission EXCEPT ![e[2]] = row]
    BY <2>1 DEF TypeOK
  <2>3. row.work = mission[e[2]].work
    BY <1>1, ExecutorParts DEF MissionRow
  <2> HIDE DEF row
  <2> QED
    BY <1>1, <1>3, <2>2, <2>3, OlderStays, ExecutorParts DEF Onward, Proven, TypeOK
<1> QED
  BY <1>2, <1>3 DEF CreateMission

LEMMA CreateInv ==
    ASSUME IInv, TypeOK', NEW e \in Executors, CreateMission(e)
    PROVE  IInv'
<1>1. /\ Goto(e, "started") /\ "started" \in Places /\ exec[e].at = "creating"
      /\ UNCHANGED <<thread, turn, troubled>>
  BY DEF CreateMission, Places, Steps
<1>2. /\ exec'[e].at = "started" /\ exec'[e].seen = exec[e].seen
      /\ \A x \in Executors \ {e} : exec'[x] = exec[x]
  BY <1>1, Going DEF IInv
<1>3. \A t \in Turns : Onward(mission[t], mission'[t])
  BY CreateOnward DEF IInv
<1>4. /\ e[2] \in Turns /\ turn[e[2]].status /= "none" /\ CopyFits(e) /\ HolderFits(e)
      /\ exec[e].seen.work \in Work /\ mission[e[2]].work \in Work
  BY <1>1, UnderWay, Rows
<1>5. mission'[e[2]].work \in Work
  BY <1>4, Rows DEF TypeOK
<1>6. CopyFits(e)'
  <2>1. Older(exec[e].seen.work, mission'[e[2]].work)
    BY <1>3, <1>4, <1>5, OlderStays DEF CopyFits, Onward
  <2> QED
    BY <1>2, <1>3, <1>4, <2>1
       DEF CopyFits, Onward, Delivering, Reported, Answering, Closing
<1>7. HolderFits(e)'
  BY <1>1, <1>2, <1>4 DEF HolderFits, TellsSoFar, Holds, Delivering, Reported, Answering, Closing
<1> QED
  BY <1>1, <1>2, <1>3, <1>4, <1>6, <1>7, QuietStep DEF Holds

LEMMA AwaitInv ==
    ASSUME IInv, TypeOK', NEW e \in Executors, AwaitMission(e)
    PROVE  IInv'
<1> DEFINE row == mission[e[2]]
           status == row.status
<1>1. /\ exec[e].at = "waiting" /\ status \in MissionWaits \cup MissionEnded
      /\ UNCHANGED <<thread, turn, mission, troubled>>
      /\ \A x \in Executors \ {e} : exec'[x] = exec[x]
      /\ exec'[e].seen = [row EXCEPT !.work = NoMission.work]
      /\ exec'[e].at = CASE status = "waiting_input" -> "mission_input_requested"
                         [] status = "waiting_approval" -> "approval_requested"
                         [] OTHER -> "projecting"
  BY DEF AwaitMission, outside, IInv, TypeOK
<1>2. /\ e[2] \in Turns /\ turn[e[2]].status /= "none" /\ HolderFits(e)
      /\ row \in MissionRow /\ row.work \in Work
  BY <1>1, UnderWay, Rows
<1>3. exec'[e].seen.status = status /\ exec'[e].seen.work = NoMission.work
  BY <1>1, <1>2 DEF MissionRow
<1>4. /\ exec'[e].at \in {"mission_input_requested", "approval_requested", "projecting"}
      /\ exec'[e].at = "projecting" => status \in {"paused"} \cup MissionEnded
      /\ exec'[e].at /= "projecting" => status \in MissionAsks
  BY <1>1 DEF MissionWaits, MissionEnded, MissionAsks
<1>5. CopyFits(e)'
  <2>1. Older(NoMission.work, mission'[e[2]].work)
    BY <1>1, <1>2, BlankIsOldest
  <2>2. status = "completed" => mission'[e[2]].status \in Proven
    BY <1>1 DEF Proven
  <2> QED
    BY <1>3, <1>4, <2>1, <2>2 DEF CopyFits, Asking
<1>6. HolderFits(e)'
  BY <1>1, <1>2, <1>4 DEF HolderFits, TellsSoFar, Holds, Delivering, Reported, Answering, Closing
<1> QED
  BY <1>1, <1>2, <1>5, <1>6, SameMission, QuietStep DEF Holds

LEMMA ProjectInv ==
    ASSUME IInv, TypeOK', NEW e \in Executors, ProjectMission(e)
    PROVE  IInv'
<1> DEFINE row == mission[e[2]]
<1>1. exec[e].at = "projecting" /\ UNCHANGED <<thread, turn, mission, troubled>>
  BY DEF ProjectMission, outside
<1>2. /\ e[2] \in Turns /\ turn[e[2]].status /= "none"
      /\ TurnFits(e[2]) /\ CopyFits(e) /\ HolderFits(e)
      /\ exec[e].seen \in MissionRow /\ row.work \in Work /\ exec[e] \in Exec
  BY <1>1, UnderWay, Rows DEF IInv, TypeOK
<1>3. /\ \A x \in Executors \ {e} : exec'[x] = exec[x]
      /\ exec'[e].at = "reporting" /\ exec'[e].seen.work = row.work
      /\ exec'[e].seen.status = exec[e].seen.status
  BY <1>2 DEF ProjectMission, IInv, TypeOK, Exec, MissionRow
<1>4. CopyFits(e)'
  <2>1. Older(row.work, row.work)
    BY <1>2, OlderStays
  <2>2. exec[e].seen.status \in {"paused"} \cup MissionEnded
    BY <1>1, <1>2 DEF CopyFits, Delivering, Asking
  <2> QED
    BY <1>1, <1>2, <1>3, <2>1, <2>2 DEF CopyFits
<1>5. HolderFits(e)'
  <2>1. Grounded(turn[e[2]].told, row.work)
    BY <1>2 DEF TurnFits
  <2>2. "reporting" \notin Reported \cup Answering \cup Closing /\ "reporting" \in Delivering
    BY DEF Delivering, Reported, Answering, Closing
  <2>3. "projecting" \in Delivering
    BY DEF Delivering
  <2> QED
    BY <1>1, <1>2, <1>3, <2>1, <2>2, <2>3 DEF HolderFits, TellsSoFar, Holds
<1> QED
  BY <1>1, <1>2, <1>3, <1>4, <1>5, SameMission, QuietStep DEF Holds

LEMMA FailInv ==
    ASSUME IInv, TypeOK', NEW e \in Executors, FailTurn(e)
    PROVE  IInv'
<1> DEFINE t == e[2]
<1>1. /\ exec[e].at = "raised" /\ exec'[e] = Idle
      /\ \A x \in Executors \ {e} : exec'[x] = exec[x]
      /\ UNCHANGED <<mission, troubled>>
  BY DEF FailTurn, outside, IInv, TypeOK
<1>2. CASE Holds(e) /\ Applies(turn[t], "runtime_failed")
  <2>1. Writes(t, "runtime_failed", turn[t].told) /\ Takes(turn[t], "runtime_failed")
    BY <1>2 DEF FailTurn, Applies
  <2>2. "runtime_failed" \in Event /\ "runtime_failed" \in DOMAIN Closes
    BY Closings DEF Event
  <2>3. t \in Turns /\ RowFits(turn[t]) /\ Grounded(turn[t].told, mission[t].work)
    BY <1>1, UnderWay DEF TurnFits
  <2> HIDE DEF t
  <2> QED
    BY <1>1, <2>1, <2>2, <2>3, WriteStep DEF RowFits
<1>3. CASE ~ (Holds(e) /\ Applies(turn[t], "runtime_failed"))
  <2>1. UNCHANGED <<thread, turn>>
    BY <1>3 DEF FailTurn
  <2> QED
    BY <1>1, <2>1, SameMission, QuietStep DEF Holds
<1> QED
  BY <1>2, <1>3

-----------------------------------------------------------------------------
(* An append.                                                                *)

LEMMA StepKinds ==
    /\ Steps \subseteq Event
    /\ \A ev \in Steps : \/ ev \in {"contextualization_started", "context_resolved", "started"}
                         \/ ev \in {"evidence_ready", "answered"}
                         \/ ev \in Asking \cup Closing
BY DEF Steps, Event, Asking, Closing

LEMMA AfterCases ==
    ASSUME NEW e, NEW ev \in Steps, NEW row
    PROVE  /\ ev \in {"contextualization_started", "started"} => After(e, ev, row) = Continue(row)
           /\ ev = "context_resolved" => After(e, ev, row) \in {"gap_input_requested", Continue(row)}
           /\ ev = "evidence_ready" => After(e, ev, row) = "answered"
           /\ ev = "answered"
                 => After(e, ev, row) = IF exec[e].seen.status = "completed"
                                        THEN "turn_completed" ELSE "turn_failed"
           /\ ev \in Asking \cup Closing => After(e, ev, row) = "idle"
<1>1. CASE ev \in {"contextualization_started", "started"}
  BY <1>1 DEF After, Asking, Closing
<1>2. CASE ev = "context_resolved"
  <2>1. CASE row.gap
    BY <1>2, <2>1 DEF After, Asking, Closing
  <2>2. CASE ~ row.gap
    BY <1>2, <2>2 DEF After, Asking, Closing
  <2> QED
    BY <2>1, <2>2
<1>3. CASE ev = "evidence_ready"
  BY <1>3 DEF After, Asking, Closing
<1>4. CASE ev = "answered"
  BY <1>4 DEF After, Asking, Closing
<1>5. CASE ev \in Asking \cup Closing
  BY <1>5 DEF After, Asking, Closing
<1> QED
  BY <1>1, <1>2, <1>3, <1>4, <1>5, StepKinds

\* What an append tells is what was seen, and the next thing to tell comes after it.
LEMMA TellsNext ==
    ASSUME NEW told \in Told, NEW seen \in MissionRow, NEW ev \in {"evidence_ready", "answered"},
           TellsSoFar(told, seen, ev)
    PROVE  /\ Grounded(Telling(told, ev, seen), seen.work)
           /\ ev = "evidence_ready" => TellsSoFar(Telling(told, ev, seen), seen, "answered")
           /\ ev = "answered" => \A at \in Closing : TellsSoFar(Telling(told, ev, seen), seen, at)
<1> DEFINE new == Telling(told, ev, seen)
<1>1. /\ Grounded(told, seen.work)
      /\ \A a \in Attempts : Items(seen)[a] \in {"none", told.tools[a]}
      /\ ev = "answered" => told.evidence = Adding(seen, "evidence")
  BY DEF TellsSoFar, Reported, Answering
<1>2. /\ new.tools = told.tools
      /\ ev = "evidence_ready" => new.evidence = Adding(seen, "evidence")
      /\ ev = "answered" => new.evidence = told.evidence /\ new.answer = AnswerOf(seen)
  BY DEF Telling, Told
<1> HIDE DEF new
<1>3. new.evidence = Adding(seen, "evidence")
  BY <1>1, <1>2
<1>4. Grounded(new, seen.work)
  BY <1>1, <1>2, <1>3 DEF Grounded, Adding
<1>5. ev = "evidence_ready" => TellsSoFar(new, seen, "answered")
  BY <1>1, <1>2, <1>3, <1>4 DEF TellsSoFar, Reported, Answering, Closing
<1>6. ev = "answered" => \A at \in Closing : TellsSoFar(new, seen, at)
  BY <1>1, <1>2, <1>3, <1>4 DEF TellsSoFar, Reported, Answering, Closing
<1> QED
  BY <1>4, <1>5, <1>6 DEF new

\* Every answer says something.
LEMMA AnswersSpeak ==
    ASSUME NEW seen \in MissionRow, seen.status \in {"paused"} \cup MissionEnded
    PROVE  AnswerOf(seen) /= NoAnswer
BY DEF AnswerOf, NoAnswer, MissionEnded

\* The event is new.
LEMMA AppliedInv ==
    ASSUME IInv, TypeOK', NEW e \in Executors, NEW ev \in Steps, exec[e].at = ev, Holds(e),
           Applies(turn[e[2]], ev),
           Writes(e[2], ev, Telling(turn[e[2]].told, ev, exec[e].seen)),
           Goto(e, After(e, ev, Reduced(turn[e[2]], ev, Telling(turn[e[2]].told, ev, exec[e].seen)))),
           UNCHANGED <<mission, troubled>>
    PROVE  IInv'
<1> DEFINE t == e[2]
           seen == exec[e].seen
           row == turn[t]
           told == Telling(row.told, ev, seen)
           new == Reduced(row, ev, told)
           at == After(e, ev, new)
<1>1. /\ ev \in Event /\ at \in Places /\ ev /= "idle" /\ Takes(row, ev)
      /\ ev \notin row.events
  BY StepKinds, AfterPlace DEF Steps, Applies
<1>2. /\ t \in Turns /\ row \in Turn /\ row.status /= "none" /\ seen \in MissionRow
      /\ mission[t] \in MissionRow /\ seen.work \in Work /\ mission[t].work \in Work
      /\ TurnFits(t) /\ RowFits(row) /\ CopyFits(e) /\ HolderFits(e) /\ row.told \in Told
  BY <1>1, UnderWay, Rows DEF TurnFits, Turn
<1>3. /\ turn'[t] = new /\ turn'[t].told = told /\ row.status \in Open /\ row.status \notin Terminal
  BY <1>1, <1>2, Written DEF IInv, Open
<1>4. /\ exec'[e].at = at
      /\ at /= "idle" => exec'[e].seen = seen
      /\ at = "idle" => exec'[e] = Idle
      /\ \A x \in Executors \ {e} : exec'[x] = exec[x]
  BY <1>1, Going DEF IInv
<1>5. /\ new.events = row.events \cup {ev} /\ new.status = NextStatus(row, ev)
      /\ new.linked = (row.linked \/ ev = "started") /\ new.told = told
  BY DEF Reduced
<1>6. told \in Told
  BY <1>2, TellingTyped
<1>7. TellsSoFar(row.told, seen, ev)
  BY <1>2, <1>3 DEF HolderFits
<1>8. Grounded(told, mission[t].work)
  <2>1. CASE ev \in {"evidence_ready", "answered"}
    <3>1. Grounded(told, seen.work)
      BY <1>2, <1>7, <2>1, TellsNext
    <3> QED
      BY <1>2, <1>6, <3>1, GroundedStays DEF CopyFits
  <2>2. CASE ev \notin {"evidence_ready", "answered"}
    BY <1>2, <2>2 DEF Telling, TurnFits
  <2> QED
    BY <2>1, <2>2
<1>9. /\ "evidence_ready" \in row.events \cup {ev} => told.evidence /= {}
      /\ "answered" \in row.events \cup {ev} => told.answer /= NoAnswer
  <2>1. CASE ev = "evidence_ready"
    <3>1. told.evidence = Adding(seen, "evidence") /\ told.answer = row.told.answer
      BY <1>2, <2>1 DEF Telling, Told
    <3> QED
      BY <1>2, <2>1, <3>1 DEF CopyFits, RowFits
  <2>2. CASE ev = "answered"
    <3>1. told.answer = AnswerOf(seen) /\ told.evidence = row.told.evidence
      BY <1>2, <2>2 DEF Telling, Told
    <3>2. seen.status \in {"paused"} \cup MissionEnded
      BY <1>2, <2>2 DEF CopyFits, Delivering, Reported, Answering, Asking
    <3> QED
      BY <1>2, <2>2, <3>1, <3>2, AnswersSpeak DEF RowFits
  <2>3. CASE ev \notin {"evidence_ready", "answered"}
    BY <1>2, <2>3 DEF Telling, RowFits
  <2> QED
    BY <2>1, <2>2, <2>3
<1>10. ASSUME ev = "turn_completed" PROVE AnswersFor(told, mission[t])
  <2>1. told = row.told
    BY <1>10 DEF Telling
  <2> QED
    BY <1>2, <1>7, <1>10, <2>1, AnswersComplete DEF CopyFits
<1>11. at /= "idle" => CopyFits(e)' /\ HolderFits(e)'
  <2> SUFFICES ASSUME at /= "idle" PROVE CopyFits(e)' /\ HolderFits(e)'
    OBVIOUS
  <2>1. Onward(mission[t], mission'[t]) /\ mission'[t].work \in Work
    BY <1>2, SameMission
  <2>2. CASE ev = "contextualization_started"
    <3>1. row.events = {} /\ new.status = "contextualizing"
      BY <1>2, <1>3, <1>5, <2>2, Reducing DEF HolderFits, RowFits
    <3>2. at = "context_resolved"
      BY <1>5, <2>2, <3>1, AfterCases DEF Continue
    <3>3. "context_resolved" \notin new.events
      BY <1>5, <2>2, <3>1
    <3> QED
      BY <1>2, <1>3, <1>4, <2>1, <3>1, <3>2, <3>3, EarlyPlaces
  <2>3. CASE ev = "context_resolved"
    <3>1. new.status = "contextualizing"
      BY <1>2, <1>3, <1>5, <2>3, Reducing DEF HolderFits
    <3>2. at \in {"gap_input_requested", "creating"}
      BY <1>5, <2>3, <3>1, AfterCases DEF Continue
    <3> QED
      BY <1>2, <1>3, <1>4, <2>1, <3>1, <3>2, EarlyPlaces
  <2>4. CASE ev = "started"
    <3>1. new.status = "running" /\ new.linked
      BY <1>5, <2>4, Reducing
    <3>2. at = "waiting"
      BY <2>4, <3>1, AfterCases DEF Continue
    <3> QED
      BY <1>2, <1>3, <1>4, <2>1, <3>1, <3>2, EarlyPlaces
  <2>5. CASE ev \in {"evidence_ready", "answered"}
    <3>1. row.status \in {"running", "streaming"} /\ seen.status \in {"paused"} \cup MissionEnded
      BY <1>2, <1>3, <2>5 DEF HolderFits, CopyFits, Delivering, Reported, Answering, Asking
    <3>2. new.status \in {"running", "streaming"}
      BY <1>5, <2>5, Reducing
    <3>3. /\ at \in Answering
          /\ at = "turn_completed" => seen.status = "completed"
          /\ at = "turn_failed" => seen.status /= "completed"
          /\ TellsSoFar(told, seen, at)
      BY <1>2, <1>7, <2>5, AfterCases, TellsNext DEF Answering, Closing
    <3>4. CopyFits(e)'
      BY <1>2, <1>4, <2>1, <3>1, <3>3 DEF CopyFits, Onward, Answering, Closing, Asking
    <3>5. HolderFits(e)'
      BY <1>3, <1>4, <3>2, <3>3 DEF HolderFits, Answering, Closing
    <3> QED
      BY <3>4, <3>5
  <2>6. CASE ev \in Asking \cup Closing
    BY <2>6, AfterCases
  <2> QED
    BY <2>2, <2>3, <2>4, <2>5, <2>6, StepKinds
<1>12. \A x \in Executors \ {e} : ~ Holds(x)
  BY DEF Holds
<1> HIDE DEF seen, row, told, new, at
<1>13. \A x \in Executors :
          \/ exec'[x] = exec[x] /\ (x[2] = t /\ Holds(x) => ev \in DOMAIN Closes)
          \/ exec'[x] = Idle
          \/ x[2] = t /\ CopyFits(x)' /\ HolderFits(x)'
  BY <1>4, <1>11, <1>12
<1>14. Writes(t, ev, told)
  BY DEF told, row, seen
<1> HIDE DEF t
<1> QED
  BY <1>1, <1>2, <1>8, <1>9, <1>10, <1>13, <1>14, WriteStep DEF row

\* The event was appended before.
LEMMA RepeatedInv ==
    ASSUME IInv, TypeOK', NEW e \in Executors, NEW ev \in Steps, exec[e].at = ev, Holds(e),
           Repeats(turn[e[2]], ev, exec[e].seen),
           Goto(e, After(e, ev, turn[e[2]])), UNCHANGED <<thread, turn, mission, troubled>>
    PROVE  IInv'
<1> DEFINE t == e[2]
           seen == exec[e].seen
           row == turn[t]
           at == After(e, ev, row)
<1>1. at \in Places /\ ev /= "idle" /\ ev \in row.events /\ Telling(row.told, ev, seen) = row.told
  BY AfterPlace DEF Repeats, Steps
<1>2. /\ exec'[e].at = at
      /\ at /= "idle" => exec'[e].seen = seen
      /\ at = "idle" => exec'[e] = Idle
      /\ \A x \in Executors \ {e} : exec'[x] = exec[x]
  BY <1>1, Going DEF IInv
<1>3. /\ t \in Turns /\ row \in Turn /\ row.status /= "none" /\ seen \in MissionRow
      /\ RowFits(row) /\ CopyFits(e) /\ HolderFits(e) /\ row.told \in Told
  BY <1>1, UnderWay DEF TurnFits, Turn
<1>4. at /= "idle" => CopyFits(e)' /\ HolderFits(e)'
  <2> SUFFICES ASSUME at /= "idle" PROVE CopyFits(e)' /\ HolderFits(e)'
    OBVIOUS
  <2>1. CASE ev \in {"contextualization_started", "context_resolved", "started"}
    <3>1. row.status \in Terminal
      BY <1>1, <1>3, <2>1 DEF HolderFits, RowFits
    <3>2. at \notin Delivering
      BY <2>1, AfterCases DEF Continue, Delivering, Reported, Answering, Closing
    <3>3. CopyFits(e)'
      BY <1>2, <1>3, <3>2 DEF CopyFits, Delivering, Reported, Answering, Closing
    <3>4. HolderFits(e)'
      BY <3>1 DEF HolderFits
    <3> QED
      BY <3>3, <3>4
  <2>2. CASE ev \in {"evidence_ready", "answered"}
    <3>1. seen.status \in {"paused"} \cup MissionEnded
      BY <1>3, <2>2 DEF CopyFits, Delivering, Reported, Answering, Asking
    <3>2. /\ at \in Answering
          /\ at = "turn_completed" => seen.status = "completed"
          /\ at = "turn_failed" => seen.status /= "completed"
      BY <2>2, AfterCases DEF Answering, Closing
    <3>3. Holds(e) /\ row.status \notin Terminal
             => row.status \in {"running", "streaming"} /\ TellsSoFar(row.told, seen, at)
      <4> SUFFICES ASSUME row.status \notin Terminal
                   PROVE  row.status \in {"running", "streaming"} /\ TellsSoFar(row.told, seen, at)
        OBVIOUS
      <4>1. row.status \in {"running", "streaming"} /\ TellsSoFar(row.told, seen, ev)
        BY <1>3, <2>2 DEF HolderFits, Delivering, Reported, Answering
      <4> QED
        BY <1>1, <1>3, <2>2, <4>1, AfterCases, TellsNext DEF Closing
    <3>4. CopyFits(e)'
      BY <1>2, <1>3, <3>1, <3>2 DEF CopyFits, Answering, Closing, Asking
    <3>5. HolderFits(e)'
      BY <1>2, <3>2, <3>3 DEF HolderFits, Holds, Answering, Closing
    <3> QED
      BY <3>4, <3>5
  <2>3. CASE ev \in Asking \cup Closing
    BY <2>3, AfterCases
  <2> QED
    BY <2>1, <2>2, <2>3, StepKinds
<1> QED
  BY <1>2, <1>3, <1>4, SameMission, QuietStep DEF Holds

\* The append raises: of the holder of an open turn, because the turn tells of
\* another state of the mission.
LEMMA RaisedInv ==
    ASSUME IInv, TypeOK', NEW e \in Executors, NEW ev \in Steps, exec[e].at = ev,
           ~ (Holds(e) /\ Applies(turn[e[2]], ev)),
           ~ (Holds(e) /\ Repeats(turn[e[2]], ev, exec[e].seen)),
           Goto(e, "raised"), UNCHANGED <<thread, turn, mission, troubled>>
    PROVE  IInv'
<1> DEFINE t == e[2]
           seen == exec[e].seen
           row == turn[t]
<1>1. "raised" \in Places /\ ev \in Event /\ ev /= "idle"
  BY StepKinds DEF Places, Steps
<1>2. /\ exec'[e].at = "raised" /\ exec'[e].seen = seen
      /\ \A x \in Executors \ {e} : exec'[x] = exec[x]
  BY <1>1, Going DEF IInv
<1>3. /\ t \in Turns /\ row.status /= "none" /\ row \in Turn /\ seen \in MissionRow
      /\ CopyFits(e) /\ HolderFits(e) /\ RowFits(row) /\ row.told \in Told
  BY <1>1, UnderWay DEF TurnFits, Turn
<1>4. CopyFits(e)'
  BY <1>2, <1>3 DEF CopyFits, Delivering, Reported, Answering, Closing
<1>5. ASSUME Holds(e), row.status \notin Terminal PROVE Conflicts(row, seen)
  <2>1. CASE ev \in {"evidence_ready", "answered"}
    <3>1. row.status \in {"running", "streaming"}
      BY <1>3, <1>5, <2>1 DEF HolderFits, Delivering, Reported, Answering
    <3>2. row.status \in Needs(ev) \ Terminal
      BY <1>1, <1>5, <2>1, <3>1, Needing
    <3>3. ev \in row.events
      BY <1>5, <2>1, <3>2 DEF Applies, Takes
    <3>4. Telling(row.told, ev, seen) /= row.told
      BY <1>5, <3>3 DEF Repeats
    <3>5. CASE ev = "evidence_ready"
      <4>1. row.told.evidence /= Adding(seen, "evidence")
        BY <1>3, <3>4, <3>5 DEF Telling, Told
      <4>2. row.told.evidence /= {}
        BY <1>3, <3>3, <3>5 DEF RowFits
      <4> QED
        BY <4>1, <4>2 DEF Conflicts
    <3>6. CASE ev = "answered"
      <4>1. row.told.answer /= AnswerOf(seen)
        BY <1>3, <3>4, <3>6 DEF Telling, Told
      <4>2. row.told.answer /= NoAnswer
        BY <1>3, <3>3, <3>6 DEF RowFits
      <4> QED
        BY <4>1, <4>2 DEF Conflicts
    <3> QED
      BY <2>1, <3>5, <3>6
  <2>2. CASE ev \in {"mission_input_requested", "approval_requested"}
    <3>1. row.status \in {"running", "streaming"} /\ seen.status \in MissionAsks
      BY <1>3, <1>5, <2>2 DEF HolderFits, CopyFits, Delivering
    <3>2. ev \notin row.events
      BY <1>3, <1>5, <2>2, <3>1 DEF RowFits, Waiting, Asking
    <3>3. row.status = "streaming"
      BY <1>1, <1>5, <2>2, <3>1, <3>2, Needing DEF Applies, Takes
    <3> QED
      BY <3>1, <3>3 DEF Conflicts, MissionAsks
  <2>3. CASE ev \in {"contextualization_started", "context_resolved", "started",
                     "gap_input_requested"}
    <3>1. /\ ev = "contextualization_started" => row.status = "accepted"
          /\ ev /= "contextualization_started" => row.status = "contextualizing"
          /\ ev = "context_resolved" => ev \notin row.events
      BY <1>3, <1>5, <2>3 DEF HolderFits
    <3>2. ev \notin row.events
      BY <1>3, <1>5, <2>3, <3>1 DEF RowFits, Waiting, Terminal, Asking
    <3>3. row.status \in Needs(ev) \ Terminal
      BY <1>1, <1>5, <2>3, <3>1, Needing
    <3> QED
      BY <1>5, <2>3, <3>2, <3>3 DEF Applies, Takes
  <2>4. CASE ev \in Closing
    <3>1. ev \in DOMAIN Closes /\ ev \notin row.events
      BY <1>3, <1>5, <2>4, Closings DEF RowFits, Closing
    <3>2. row.status \in Needs(ev) \ Terminal
      BY <1>1, <1>3, <1>5, <3>1, Needing DEF Turn
    <3>3. row.told.answer = AnswerOf(seen) /\ seen.status \in {"paused"} \cup MissionEnded
      BY <1>3, <1>5, <2>4
         DEF HolderFits, TellsSoFar, CopyFits, Delivering, Reported, Answering, Closing, Asking
    <3>4. row.told.answer /= NoAnswer
      BY <1>3, <3>3, AnswersSpeak
    <3> QED
      BY <1>5, <3>1, <3>2, <3>4 DEF Applies, Takes
  <2> QED
    BY <2>1, <2>2, <2>3, <2>4, StepKinds DEF Asking
<1>6. HolderFits(e)'
  BY <1>2, <1>5
     DEF HolderFits, TellsSoFar, Holds, Conflicts, Delivering, Reported, Answering, Closing
<1> QED
  BY <1>2, <1>3, <1>4, <1>6, SameMission, QuietStep DEF Holds

LEMMA AppendInv ==
    ASSUME IInv, TypeOK', NEW e \in Executors, NEW ev \in Steps, Append(e, ev)
    PROVE  IInv'
<1> DEFINE row == turn[e[2]]
           seen == exec[e].seen
           told == Telling(row.told, ev, seen)
<1>1. exec[e].at = ev /\ UNCHANGED <<mission, troubled>>
  BY DEF Append, outside
<1>2. CASE /\ Holds(e) /\ Applies(row, ev) /\ Writes(e[2], ev, told)
           /\ Goto(e, After(e, ev, Reduced(row, ev, told)))
  BY <1>1, <1>2, AppliedInv
<1>3. CASE /\ Holds(e) /\ Repeats(row, ev, seen)
           /\ Goto(e, After(e, ev, row)) /\ UNCHANGED <<thread, turn>>
  BY <1>1, <1>3, RepeatedInv
<1>4. CASE /\ ~ (Holds(e) /\ Applies(row, ev)) /\ ~ (Holds(e) /\ Repeats(row, ev, seen))
           /\ Goto(e, "raised") /\ UNCHANGED <<thread, turn>>
  BY <1>1, <1>4, RaisedInv
<1> QED
  BY <1>2, <1>3, <1>4 DEF Append

\* The items of the tool calls.
LEMMA ReportInv ==
    ASSUME IInv, TypeOK', NEW e \in Executors, ReportTools(e)
    PROVE  IInv'
<1> DEFINE t == e[2]
           seen == exec[e].seen
           row == turn[t]
           missing == {a \in Attempts : Items(seen)[a] \notin {"none", row.told.tools[a]}}
           report(a) == [row.told EXCEPT !.tools[a] = Items(seen)[a]]
           next == IF Adding(seen, "evidence") = {} THEN "answered" ELSE "evidence_ready"
<1>1. exec[e].at = "reporting" /\ UNCHANGED <<mission, troubled>>
  BY DEF ReportTools, outside
<1>2. /\ t \in Turns /\ row \in Turn /\ row.status /= "none" /\ seen \in MissionRow
      /\ mission[t].work \in Work /\ seen.work \in Work
      /\ TurnFits(t) /\ RowFits(row) /\ CopyFits(e) /\ HolderFits(e) /\ row.told \in Told
  BY <1>1, UnderWay, Rows DEF TurnFits, Turn
<1>3. seen.status \in {"paused"} \cup MissionEnded
  BY <1>1, <1>2 DEF CopyFits, Delivering, Asking
<1>4. Holds(e) /\ row.status \notin Terminal
         => row.status \in {"running", "streaming"} /\ Grounded(row.told, seen.work)
  BY <1>1, <1>2 DEF HolderFits, TellsSoFar, Delivering
<1>5. \A a \in Attempts : Items(seen)[a] = "none" <=> seen.work[a] = "none"
  BY <1>2, SeenTyped
<1>6. CASE missing = {} /\ Goto(e, next) /\ UNCHANGED <<thread, turn>>
  <2>1. /\ next \in {"answered", "evidence_ready"}
        /\ next = "evidence_ready" => Adding(seen, "evidence") /= {}
        /\ next = "answered" => Adding(seen, "evidence") = {}
    OBVIOUS
  <2>2. \A a \in Attempts : Items(seen)[a] \in {"none", row.told.tools[a]}
    BY <1>6
  <2> HIDE DEF missing, next
  <2>3. next \in Places /\ next /= "idle"
    BY <2>1 DEF Places, Steps
  <2>4. /\ exec'[e].at = next /\ exec'[e].seen = seen
        /\ \A x \in Executors \ {e} : exec'[x] = exec[x]
    BY <1>6, <2>3, Going DEF IInv
  <2>5. Grounded(row.told, seen.work) => TellsSoFar(row.told, seen, next)
    <3>1. Grounded(row.told, seen.work) => row.told.evidence \subseteq Adding(seen, "evidence")
      BY <1>2 DEF Grounded, Adding, Told
    <3> QED
      BY <2>1, <2>2, <3>1 DEF TellsSoFar, Reported, Answering, Closing
  <2>6. CopyFits(e)'
    BY <1>1, <1>2, <1>3, <2>1, <2>4 DEF CopyFits, Asking
  <2>7. HolderFits(e)'
    BY <1>4, <1>6, <2>1, <2>4, <2>5 DEF HolderFits, Holds
  <2> QED
    BY <1>1, <1>2, <1>6, <2>4, <2>6, <2>7, SameMission, QuietStep DEF Holds
<1>7. ASSUME NEW a \in missing, Holds(e), Takes(row, "tool_reported"),
             Writes(t, "tool_reported", report(a)), UNCHANGED exec
      PROVE  IInv'
  <2>1. a \in Attempts /\ seen.work[a] /= "none"
    BY <1>5, <1>7
  <2>2. "tool_reported" \in Event /\ "tool_reported" \notin DOMAIN Closes
    BY Closings DEF Event
  <2>3. /\ report(a).evidence = row.told.evidence /\ report(a).answer = row.told.answer
        /\ \A b \in Attempts \ {a} : report(a).tools[b] = row.told.tools[b]
    BY <1>2 DEF Told
  <2> DEFINE told == report(a)
  <2> HIDE DEF missing, report
  <2>4. /\ row.status \notin Terminal /\ turn'[t].told = told
        /\ turn'[t].status = row.status
    <3>1. turn'[t] = Reduced(row, "tool_reported", told) /\ row.status \in Open
      BY <1>2, <1>7, <2>2, Written DEF IInv
    <3> QED
      BY <3>1, Reducing DEF Reduced, Open
  <2>5. \A work \in Work : /\ Grounded(row.told, work) /\ work[a] /= "none"
                              => Grounded(told, work)
    BY <2>1, <2>3 DEF Grounded
  <2>6. mission[t].work[a] /= "none"
    BY <1>2, <2>1 DEF CopyFits, Older
  <2>7. Grounded(told, mission[t].work)
    BY <1>2, <2>5, <2>6 DEF TurnFits
  <2>8. CopyFits(e)' /\ HolderFits(e)'
    <3>1. CopyFits(e)'
      BY <1>1, <1>2, <1>7 DEF CopyFits
    <3>2. Grounded(told, seen.work)
      BY <1>2, <1>4, <1>7, <2>1, <2>4, <2>5
    <3>3. "reporting" \notin Reported \cup Answering \cup Closing
      BY DEF Reported, Answering, Closing
    <3>4. HolderFits(e)'
      BY <1>1, <1>4, <1>7, <2>4, <3>2, <3>3 DEF HolderFits, TellsSoFar
    <3> QED
      BY <3>1, <3>4
  <2>9. \A x \in Executors \ {e} : ~ Holds(x) /\ exec'[x] = exec[x]
    BY <1>7 DEF Holds
  <2>10. /\ "evidence_ready" \in row.events \cup {"tool_reported"} => told.evidence /= {}
         /\ "answered" \in row.events \cup {"tool_reported"} => told.answer /= NoAnswer
    BY <1>2, <2>3 DEF RowFits
  <2>11. Writes(t, "tool_reported", told)
    BY <1>7
  <2> HIDE DEF t, told
  <2>12. \A x \in Executors :
            \/ exec'[x] = exec[x] /\ (x[2] = t /\ Holds(x) => "tool_reported" \in DOMAIN Closes)
            \/ exec'[x] = Idle
            \/ x[2] = t /\ CopyFits(x)' /\ HolderFits(x)'
    BY <2>8, <2>9 DEF t
  <2> QED
    BY <1>1, <1>2, <1>7, <2>2, <2>7, <2>10, <2>11, <2>12, WriteStep
<1>8. ASSUME NEW a \in missing, Goto(e, "raised"), UNCHANGED <<thread, turn>>,
             ~ (Holds(e) /\ row.told.tools[a] = "none" /\ Takes(row, "tool_reported"))
      PROVE  IInv'
  <2>1. /\ exec'[e].at = "raised" /\ exec'[e].seen = seen
        /\ \A x \in Executors \ {e} : exec'[x] = exec[x]
    BY <1>8, Going DEF IInv, Places
  <2>2. a \in Attempts /\ Items(seen)[a] \notin {"none", row.told.tools[a]}
    BY <1>8
  <2>3. CopyFits(e)'
    BY <1>1, <1>2, <2>1 DEF CopyFits, Delivering, Reported, Answering, Closing
  <2>4. ASSUME Holds(e), row.status \notin Terminal PROVE Conflicts(row, seen)
    <3>1. "tool_reported" \in Event
      BY DEF Event
    <3>2. Takes(row, "tool_reported")
      BY <1>4, <2>4, <3>1, Needing DEF Takes
    <3>3. row.told.tools[a] \notin {"none", Items(seen)[a]}
      BY <1>8, <2>2, <2>4, <3>2
    <3> QED
      BY <2>2, <3>3 DEF Conflicts
  <2>5. HolderFits(e)'
    BY <1>8, <2>1, <2>4
       DEF HolderFits, TellsSoFar, Holds, Conflicts, Delivering, Reported, Answering, Closing
  <2> QED
    BY <1>1, <1>2, <1>8, <2>1, <2>3, <2>5, SameMission, QuietStep DEF Holds
<1> QED
  BY <1>6, <1>7, <1>8 DEF ReportTools

-----------------------------------------------------------------------------
(* The invariant of the specification.                                       *)

LEMMA InvInit == Init => IInv
<1> SUFFICES ASSUME Init PROVE IInv
  OBVIOUS
<1>1. TypeOK
  BY TypeInit
<1>2. ASSUME NEW t \in Turns PROVE TurnFits(t)
  <2>1. /\ turn[t].status = "none" /\ turn[t].events = {} /\ thread.active = NoTurn
        /\ turn[t].told = NothingTold
    BY DEF Init
  <2>2. RowFits(turn[t])
    BY <2>1 DEF RowFits
  <2>3. Grounded(turn[t].told, mission[t].work)
    BY <2>1 DEF Grounded, NothingTold
  <2>4. \A e \in Executors : exec[e] = Idle
    BY DEF Init
  <2> QED
    BY <2>1, <2>2, <2>3, <2>4, TurnsAssumption DEF TurnFits, Open
<1>3. ASSUME NEW e \in Executors PROVE CopyFits(e) /\ HolderFits(e)
  <2>1. exec[e] = Idle /\ Older(NoMission.work, mission[e[2]].work)
    BY <1>1, BlankIsOldest, ExecutorParts, Rows DEF Init, TypeOK
  <2> QED
    BY <2>1
       DEF CopyFits, HolderFits, TellsSoFar, Idle, NoMission, Delivering, Reported, Answering, Closing
<1>4. AnswerOfCompletedMission
  BY DEF Init, AnswerOfCompletedMission
<1> QED
  BY <1>1, <1>2, <1>3, <1>4 DEF IInv

LEMMA InvStep == IInv /\ [Next]_vars => IInv'
<1> SUFFICES ASSUME IInv, [Next]_vars PROVE IInv'
  OBVIOUS
<1>1. CASE UNCHANGED vars
  <2>1. TypeOK'
    BY <1>1 DEF IInv, TypeOK, vars, outside
  <2> QED
    BY <1>1, <2>1, SameMission, QuietStep DEF vars, outside, Holds
<1>2. CASE Next
  <2>1. TypeOK'
    BY <1>2, TypeStep DEF IInv
  <2>2. CASE \E p \in Processes, t \in Turns : StartTurn(p, t) \/ EnsureScheduled(p, t)
    BY <2>1, <2>2, StartInv, ScheduleInv
  <2>3. CASE \E e \in Executors : Execute(e)
    <3>1. PICK e \in Executors : Execute(e)
      BY <2>3
    <3> QED
      BY <2>1, <3>1, ClaimInv, ReadInv, CreateInv, AwaitInv, ProjectInv, ReportInv, FailInv,
         AppendInv DEF Execute
  <2>4. CASE (\E e \in Executors : Trouble(e)) \/ (\E p \in Processes : Crash(p))
    BY <2>1, <2>4, FaultInv
  <2>5. CASE \/ \E c \in Calls : StopMission(c) \/ EndTurn(c) \/ DropCall(c)
             \/ \E c \in Calls, t \in Turns : Interrupt(c, t)
    BY <2>1, <2>5, CallInv
  <2>6. CASE \E t \in Turns : Changes(t)
    BY <2>1, <2>6, MissionInv
  <2>7. CASE Archive
    <3>1. UNCHANGED <<turn, exec, mission, troubled>>
      BY <2>7 DEF Archive
    <3>2. thread'.active = thread.active /\ thread'.lease = thread.lease
      BY <2>7 DEF Archive, IInv, TypeOK, Thread
    <3> QED
      BY <2>1, <3>1, <3>2, SameMission, QuietStep DEF Holds
  <2> QED
    BY <1>2, <2>2, <2>3, <2>4, <2>5, <2>6, <2>7 DEF Next, Changes
<1> QED
  BY <1>1, <1>2

\* The turns and what they told, what the executions saw of the missions, and
\* where the holder of the lease is fit together in every reachable state.
THEOREM Invariance == Spec => []IInv
BY InvInit, InvStep, PTL DEF Spec

\* The type invariant holds for any processes, turns, attempts, calls and bounds.
THEOREM TypeCorrect == Spec => []TypeOK
<1>1. IInv => TypeOK
  BY DEF IInv
<1> QED
  BY <1>1, Invariance, PTL

\* A completed turn tells what one look at its completed mission shows, for any
\* number of deliveries that were cut short and steers between (_deliver_mission).
THEOREM AnswersAreTrue == Spec => []AnswerOfCompletedMission
<1>1. IInv => AnswerOfCompletedMission
  BY DEF IInv
<1> QED
  BY <1>1, Invariance, PTL

-----------------------------------------------------------------------------
(* What fails a turn.                                                        *)

\* The action of FailsForCause.
FailsWithCause ==
    \A t \in Turns \ troubled :
        turn[t].status /= "failed" /\ turn'[t].status = "failed" =>
            \E e \in Executors :
               /\ e[2] = t /\ thread.lease = e
               /\ IF exec[e].at = "raised" THEN Conflicts(turn[t], exec[e].seen)
                  ELSE exec[e].seen.status \in {"paused", "unproven", "failed"}

\* The only writes that fail a turn are those of a delivery and of _fail_turn.
LEMMA FailingWrite ==
    ASSUME TypeOK, NEW t \in Turns, NEW ev \in Event, NEW told, Writes(t, ev, told),
           Takes(turn[t], ev), NEW u \in Turns, turn[u].status /= "failed",
           turn'[u].status = "failed"
    PROVE  u = t /\ ev \in {"turn_failed", "runtime_failed"}
<1>1. /\ turn'[t] = Reduced(turn[t], ev, told) /\ \A w \in Turns \ {t} : turn'[w] = turn[w]
      /\ turn'[t].status \in Terminal <=> ev \in DOMAIN Closes
  BY Written
<1>2. u = t
  BY <1>1
<1> QED
  BY <1>1, <1>2, Closings, Reducing DEF Reduced, Terminal

LEMMA FailsStep == IInv /\ [Next]_vars => [FailsWithCause]_vars
<1> SUFFICES ASSUME IInv, Next, NEW t \in Turns \ troubled,
                    turn[t].status /= "failed", turn'[t].status = "failed"
             PROVE  \E e \in Executors :
                       /\ e[2] = t /\ thread.lease = e
                       /\ IF exec[e].at = "raised" THEN Conflicts(turn[t], exec[e].seen)
                          ELSE exec[e].seen.status \in {"paused", "unproven", "failed"}
  BY DEF FailsWithCause
<1>1. TypeOK /\ ~ UNCHANGED turn
  BY DEF IInv
<1>2. CASE \E e \in Executors, ev \in Steps : Append(e, ev)
  <2>1. PICK e \in Executors, ev \in Steps : Append(e, ev)
    BY <1>2
  <2> DEFINE told == Telling(turn[e[2]].told, ev, exec[e].seen)
  <2>2. Holds(e) /\ Writes(e[2], ev, told) /\ Takes(turn[e[2]], ev) /\ exec[e].at = ev
    BY <1>1, <2>1 DEF Append, Applies
  <2>3. e[2] \in Turns /\ ev \in Event /\ ev /= "runtime_failed"
    BY ExecutorParts, StepKinds DEF Steps
  <2> HIDE DEF told
  <2>4. e[2] = t /\ ev = "turn_failed"
    BY <1>1, <2>2, <2>3, FailingWrite
  <2>5. exec[e].seen.status \in {"paused", "unproven", "failed"}
    BY <2>2, <2>4
       DEF IInv, CopyFits, MissionEnded, Delivering, Reported, Answering, Closing, Asking
  <2> QED
    BY <2>2, <2>4, <2>5 DEF Holds
<1>3. CASE \E e \in Executors : FailTurn(e)
  <2>1. PICK e \in Executors : FailTurn(e)
    BY <1>3
  <2>2. /\ Holds(e) /\ Writes(e[2], "runtime_failed", turn[e[2]].told)
        /\ Takes(turn[e[2]], "runtime_failed") /\ exec[e].at = "raised"
    BY <1>1, <2>1 DEF FailTurn, Applies
  <2>3. e[2] \in Turns /\ "runtime_failed" \in Event
    BY ExecutorParts, Closings DEF Event
  <2>4. e[2] = t
    BY <1>1, <2>2, <2>3, FailingWrite
  <2>5. Conflicts(turn[t], exec[e].seen)
    BY <2>2, <2>4 DEF IInv, HolderFits, Takes
  <2> QED
    BY <2>2, <2>4, <2>5 DEF Holds
<1>4. CASE \E e \in Executors : ReportTools(e)
  <2>1. PICK e \in Executors : ReportTools(e)
    BY <1>4
  <2>2. \E told : Writes(e[2], "tool_reported", told) /\ Takes(turn[e[2]], "tool_reported")
    BY <1>1, <2>1 DEF ReportTools
  <2>3. e[2] \in Turns /\ "tool_reported" \in Event
    BY ExecutorParts DEF Event
  <2> QED
    BY <1>1, <2>2, <2>3, FailingWrite
<1>5. CASE \E c \in Calls : EndTurn(c)
  <2>1. PICK c \in Calls : EndTurn(c)
    BY <1>5
  <2>2. /\ Writes(call[c].turn, "turn_cancelled", turn[call[c].turn].told)
        /\ Takes(turn[call[c].turn], "turn_cancelled")
    BY <1>1, <2>1 DEF EndTurn, Applies
  <2>3. call[c].turn \in Turns /\ "turn_cancelled" \in Event
    BY <2>1, Closings DEF EndTurn, IInv, TypeOK, Call, NoCall, Event
  <2> QED
    BY <1>1, <2>2, <2>3, FailingWrite
<1>6. CASE \E p \in Processes, u \in Turns : StartTurn(p, u)
  <2>1. PICK p \in Processes, u \in Turns, gap \in BOOLEAN :
           turn' = [turn EXCEPT ![u].status = "accepted", ![u].gap = gap]
    BY <1>6 DEF StartTurn
  <2>2. turn'[t].status \in {"accepted", turn[t].status}
    BY <1>1, <2>1 DEF TypeOK, Turn
  <2> QED
    BY <2>2
<1>7. CASE \E u \in Turns : Changes(u)
  BY <1>1, <1>7, Changing
<1> QED
  BY <1>1, <1>2, <1>3, <1>4, <1>5, <1>6, <1>7
     DEF Next, Changes, Execute, EnsureScheduled, ClaimTurn, ReadTurn, CreateMission,
         AwaitMission, ProjectMission, Trouble, Crash, StopMission, DropCall, Interrupt, Archive

\* Neither a stale token, nor an interrupt, nor a repeated append fails a turn that
\* met no exception from outside: the holder of the lease does, for what it saw of
\* the mission or because an earlier delivery saw another (_append, _fail_turn).
THEOREM FailuresHaveCause == Spec => FailsForCause
BY Invariance, FailsStep, PTL DEF Spec, FailsForCause, FailsWithCause

-----------------------------------------------------------------------------
(* The refinement.                                                           *)

Outcome == [t \in Turns |-> IF turn[t].status \in Open THEN "open" ELSE turn[t].status]

ProvenTurns == {t \in Turns : mission[t].status \in Proven}

\* A step that leaves the turns and the thread alone proves at most a mission.
LEMMA ProvingRefines ==
    ASSUME IInv, UNCHANGED <<thread, turn>>, NEW t \in Turns,
           \A u \in Turns \ {t} : mission'[u] = mission[u],
           mission[t].status \in Proven => mission'[t].status \in Proven,
           mission'[t].status \in Proven
             => mission[t].status \in Proven \/ turn[t].status /= "none"
    PROVE  [Protocol!Next]_(Protocol!vars)
<1>1. Outcome' = Outcome /\ thread'.archived = thread.archived
  BY DEF Outcome
<1>2. CASE mission'[t].status \in Proven /\ mission[t].status \notin Proven
  <2>1. ProvenTurns' = ProvenTurns \cup {t}
    BY <1>2 DEF ProvenTurns
  <2>2. Outcome[t] /= "none"
    BY <1>2 DEF Outcome
  <2> QED
    BY <1>1, <2>1, <2>2 DEF Protocol!Next, Protocol!Prove, Outcome, ProvenTurns
<1>3. CASE ~ (mission'[t].status \in Proven /\ mission[t].status \notin Proven)
  <2>1. ProvenTurns' = ProvenTurns
    BY <1>3 DEF ProvenTurns
  <2> QED
    BY <1>1, <2>1 DEF Protocol!vars, Outcome, ProvenTurns
<1> QED
  BY <1>2, <1>3

\* A write of a turn ends it or is not seen.
LEMMA WriteRefines ==
    ASSUME IInv, NEW t \in Turns, NEW ev \in Event, NEW told,
           Writes(t, ev, told), Takes(turn[t], ev), UNCHANGED mission,
           ev = "turn_completed" => mission[t].status \in Proven
    PROVE  [Protocol!Next]_(Protocol!vars)
<1>1. /\ turn'[t] = Reduced(turn[t], ev, told)
      /\ \A u \in Turns \ {t} : turn'[u] = turn[u]
      /\ turn[t].status \in Open
      /\ turn'[t].status \in Open <=> ev \notin DOMAIN Closes
      /\ turn'[t].status \in Terminal <=> ev \in DOMAIN Closes
      /\ thread'.archived = thread.archived
  BY Written DEF IInv
<1>2. ProvenTurns' = ProvenTurns
  BY DEF ProvenTurns
<1>3. CASE ev \in DOMAIN Closes
  <2> DEFINE how == Closes[ev]
  <2>1. turn'[t].status = how /\ how \in Terminal /\ how \notin Open
    BY <1>1, <1>3, Closings, Reducing DEF Reduced, Open
  <2>2. how = "completed" => t \in ProvenTurns
    BY <1>3, Closings DEF ProvenTurns
  <2> HIDE DEF how
  <2>3. Outcome' = [Outcome EXCEPT ![t] = how] /\ Outcome[t] = "open"
    BY <1>1, <2>1 DEF Outcome
  <2>4. Protocol!End(t, how)
    BY <1>1, <1>2, <2>2, <2>3 DEF Protocol!End, Outcome, ProvenTurns
  <2> QED
    BY <2>1, <2>4 DEF Protocol!Next, Terminal
<1>4. CASE ev \notin DOMAIN Closes
  <2>1. Outcome' = Outcome
    BY <1>1, <1>4 DEF Outcome
  <2> QED
    BY <1>1, <1>2, <2>1 DEF Protocol!vars, Outcome, ProvenTurns
<1> QED
  BY <1>3, <1>4

\* A step that leaves thread, turns and missions alone is not seen.
LEMMA QuietRefines ==
    ASSUME UNCHANGED <<turn, mission>>, thread'.archived = thread.archived
    PROVE  [Protocol!Next]_(Protocol!vars)
<1>1. Outcome' = Outcome /\ ProvenTurns' = ProvenTurns
  BY DEF Outcome, ProvenTurns
<1> QED
  BY <1>1 DEF Protocol!vars, Outcome, ProvenTurns

LEMMA ExecuteRefines ==
    ASSUME IInv, NEW e \in Executors, Execute(e)
    PROVE  [Protocol!Next]_(Protocol!vars)
<1> DEFINE t == e[2]
<1>0. t \in Turns
  BY ExecutorParts
<1>1. CASE ClaimTurn(e)
  <2>1. UNCHANGED <<turn, mission>> /\ thread'.archived = thread.archived
    BY <1>1 DEF ClaimTurn, outside, IInv, TypeOK, Thread
  <2> QED
    BY <2>1, QuietRefines
<1>2. CASE ReadTurn(e) \/ AwaitMission(e) \/ ProjectMission(e)
  <2>1. UNCHANGED <<thread, turn, mission>>
    BY <1>2 DEF ReadTurn, AwaitMission, ProjectMission, outside
  <2> QED
    BY <2>1, QuietRefines
<1>3. CASE CreateMission(e)
  <2>1. /\ UNCHANGED <<thread, turn>>
        /\ \A u \in Turns \ {t} : mission'[u] = mission[u]
        /\ mission[t].status \in Proven => mission'[t].status \in Proven
    BY <1>0, <1>3, CreateOnward DEF CreateMission, IInv, Onward
  <2>2. turn[t].status /= "none"
    BY <1>3, UnderWay DEF CreateMission
  <2> HIDE DEF t
  <2> QED
    BY <1>0, <2>1, <2>2, ProvingRefines
<1>4. CASE ReportTools(e)
  <2>1. UNCHANGED mission
    BY <1>4 DEF ReportTools, outside
  <2>2. CASE UNCHANGED <<thread, turn>>
    BY <2>1, <2>2, QuietRefines
  <2>3. CASE \E told : Writes(t, "tool_reported", told) /\ Takes(turn[t], "tool_reported")
    <3>1. "tool_reported" \in Event
      BY DEF Event
    <3> HIDE DEF t
    <3> QED
      BY <1>0, <2>1, <2>3, <3>1, WriteRefines
  <2> QED
    BY <1>4, <2>2, <2>3 DEF ReportTools
<1>5. CASE FailTurn(e)
  <2>1. UNCHANGED mission /\ "runtime_failed" \in Event
    BY <1>5, Closings DEF FailTurn, outside, Event
  <2>2. CASE UNCHANGED <<thread, turn>>
    BY <2>1, <2>2, QuietRefines
  <2>3. CASE Takes(turn[t], "runtime_failed") /\ Writes(t, "runtime_failed", turn[t].told)
    <3> HIDE DEF t
    <3> QED
      BY <1>0, <2>1, <2>3, WriteRefines
  <2> QED
    BY <1>5, <2>2, <2>3 DEF FailTurn, Applies
<1>6. CASE \E ev \in Steps : Append(e, ev)
  <2>1. PICK ev \in Steps : Append(e, ev)
    BY <1>6
  <2> DEFINE told == Telling(turn[t].told, ev, exec[e].seen)
  <2>2. UNCHANGED mission /\ exec[e].at = ev /\ ev \in Event
    BY <2>1 DEF Append, outside, Event
  <2>3. CASE UNCHANGED <<thread, turn>>
    BY <2>2, <2>3, QuietRefines
  <2>4. CASE Takes(turn[t], ev) /\ Writes(t, ev, told)
    <3>1. ev = "turn_completed" => mission[t].status \in Proven
      BY <2>2 DEF IInv, CopyFits
    <3> HIDE DEF t, told
    <3> QED
      BY <1>0, <2>2, <2>4, <3>1, WriteRefines
  <2> QED
    BY <2>1, <2>3, <2>4 DEF Append, Applies
<1> QED
  BY <1>1, <1>2, <1>3, <1>4, <1>5, <1>6 DEF Execute

LEMMA CallRefines ==
    ASSUME IInv, NEW c \in Calls, StopMission(c) \/ EndTurn(c) \/ DropCall(c)
    PROVE  [Protocol!Next]_(Protocol!vars)
<1> DEFINE t == call[c].turn
<1>1. CASE DropCall(c)
  BY <1>1, QuietRefines DEF DropCall
<1>2. CASE StopMission(c)
  <2>1. PICK row \in MissionRow : /\ mission' = [mission EXCEPT ![t] = row]
                                  /\ Onward(mission[t], row)
    BY <1>2, StopOnward DEF IInv
  <2>2. UNCHANGED <<thread, turn>> /\ t \in Turns
    BY <1>2, StopOnward DEF StopMission, IInv
  <2>3. mission'[t].status \in Proven => mission[t].status \in Proven
    BY <1>2, <2>2 DEF StopMission, Cancellable, Canceled, MissionWaits, Proven, IInv, TypeOK, MissionRow
  <2>4. /\ \A u \in Turns \ {t} : mission'[u] = mission[u]
        /\ mission[t].status \in Proven => mission'[t].status \in Proven
    BY <2>1, <2>2 DEF Onward, IInv, TypeOK
  <2> HIDE DEF t
  <2> QED
    BY <2>2, <2>3, <2>4, ProvingRefines
<1>3. CASE EndTurn(c)
  <2>1. t \in Turns /\ UNCHANGED mission /\ "turn_cancelled" \in Event
    BY <1>3, Closings DEF EndTurn, IInv, TypeOK, Call, NoCall, Event
  <2>2. CASE UNCHANGED <<thread, turn>>
    BY <2>1, <2>2, QuietRefines
  <2>3. CASE Takes(turn[t], "turn_cancelled") /\ Writes(t, "turn_cancelled", turn[t].told)
    <3> HIDE DEF t
    <3> QED
      BY <2>1, <2>3, WriteRefines
  <2> QED
    BY <1>3, <2>2, <2>3 DEF EndTurn, Applies
<1> QED
  BY <1>1, <1>2, <1>3

\* An archived thread opens no turn, and a thread opens one at a time.
LEMMA ThreadRefines ==
    ASSUME IInv,
           \/ \E p \in Processes, t \in Turns : StartTurn(p, t)
           \/ Archive
    PROVE  Protocol!Next
<1>1. thread.active = NoTurn
  BY DEF StartTurn, Archive
<1>2. \A u \in Turns : Outcome[u] /= "open"
  <2>1. \A u \in Turns : turn[u].status \notin Open /\ turn[u].status /= "open"
    BY <1>1, TurnsAssumption DEF IInv, TurnFits, TypeOK, Turn, Status, Waiting, Terminal
  <2> QED
    BY <2>1 DEF Outcome
<1>3. Protocol!Quiet
  BY <1>2 DEF Protocol!Quiet, Outcome
<1>4. CASE Archive
  <2>1. Outcome' = Outcome /\ ProvenTurns' = ProvenTurns /\ thread'.archived
    BY <1>4 DEF Archive, Outcome, ProvenTurns, IInv, TypeOK, Thread
  <2> QED
    BY <1>3, <2>1 DEF Protocol!Next, Protocol!Archive, Outcome, ProvenTurns
<1>5. CASE \E p \in Processes, t \in Turns : StartTurn(p, t)
  <2>1. PICK p \in Processes, t \in Turns : StartTurn(p, t)
    BY <1>5
  <2>2. PICK gap \in BOOLEAN :
           turn' = [turn EXCEPT ![t].status = "accepted", ![t].gap = gap]
    BY <2>1 DEF StartTurn
  <2>3. /\ turn'[t].status = "accepted" /\ turn[t].status = "none"
        /\ \A u \in Turns \ {t} : turn'[u] = turn[u]
    BY <2>1, <2>2 DEF StartTurn, IInv, TypeOK, Turn
  <2>4. Outcome' = [Outcome EXCEPT ![t] = "open"] /\ Outcome[t] = "none"
    BY <2>3 DEF Outcome, Open, Status, Terminal
  <2>5. ProvenTurns' = ProvenTurns /\ thread'.archived = thread.archived /\ ~ thread.archived
    BY <2>1 DEF StartTurn, outside, ProvenTurns, IInv, TypeOK, Thread
  <2>6. Protocol!Accept(t)
    BY <1>3, <2>4, <2>5 DEF Protocol!Accept, Outcome, ProvenTurns
  <2> QED
    BY <2>6 DEF Protocol!Next
<1> QED
  BY <1>4, <1>5

LEMMA StepRefines == IInv /\ [Next]_vars => [Protocol!Next]_(Protocol!vars)
<1> SUFFICES ASSUME IInv, [Next]_vars PROVE [Protocol!Next]_(Protocol!vars)
  OBVIOUS
<1>1. CASE \/ UNCHANGED vars
           \/ \E p \in Processes, t \in Turns : EnsureScheduled(p, t)
           \/ \E e \in Executors : Trouble(e)
           \/ \E p \in Processes : Crash(p)
           \/ \E c \in Calls, t \in Turns : Interrupt(c, t)
  <2>1. UNCHANGED <<thread, turn, mission>>
    BY <1>1 DEF vars, outside, EnsureScheduled, Trouble, Crash, Interrupt
  <2> QED
    BY <2>1, QuietRefines
<1>2. CASE \E t \in Turns : Changes(t)
  <2>1. PICK t \in Turns : Changes(t)
    BY <1>2
  <2>2. PICK row \in MissionRow : /\ mission' = [mission EXCEPT ![t] = row]
                                  /\ mission[t].status \in Proven => row.status \in Proven
    BY <2>1, Changing DEF IInv
  <2>3. UNCHANGED <<thread, turn>> /\ turn[t].status \in Open
    BY <2>1, Changing DEF IInv
  <2>4. /\ \A u \in Turns \ {t} : mission'[u] = mission[u]
        /\ mission[t].status \in Proven => mission'[t].status \in Proven
    BY <2>2 DEF IInv, TypeOK
  <2> QED
    BY <2>3, <2>4, ProvingRefines DEF Open
<1> QED
  BY <1>1, <1>2, ExecuteRefines, CallRefines, ThreadRefines DEF Next, Changes

\* The service implements what a thread promises: one open turn at a time, one
\* end of each, completion only of a proven mission, nothing after the archive.
THEOREM RefinesProtocol == Spec => ImplementsProtocol
<1>1. Init => Protocol!Init
  <2> SUFFICES ASSUME Init PROVE Protocol!Init
    OBVIOUS
  <2>1. Outcome = [t \in Turns |-> "none"] /\ ProvenTurns = {} /\ ~ thread.archived
    BY DEF Init, Outcome, ProvenTurns, Open, NoMission, Proven
  <2> QED
    BY <2>1 DEF Protocol!Init, Outcome, ProvenTurns
<1> QED
  BY <1>1, StepRefines, Invariance, PTL DEF Spec, ImplementsProtocol, Protocol!Spec
=============================================================================
