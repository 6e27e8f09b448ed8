---------------------------- MODULE MissionProofs ----------------------------
(* The safety properties of Mission for any workers, operators, steps and    *)
(* bounds.  Some hold whoever runs the mission, the others where one kind of *)
(* executor does (OneExecutor): workers, however many, which is how a        *)
(* deployment with workers is set up as long as nobody runs the terminal     *)
(* client in a process of its own, or without workers one direct run at a    *)
(* time.                                                                     *)
EXTENDS Mission, FiniteSetTheorems, SequenceTheorems, TLAPS

-----------------------------------------------------------------------------
(* The inductive invariants.                                                 *)

\* Workers run the mission and no direct run does, or there are no workers and
\* one direct run at a time.
OneExecutor ==
    IF workerEnabled THEN Terminals = {} ELSE \A r, x \in Runners : r = x

\* On the way to the start of an attempt.
Picking == {"stepping", "compiling", "starting"}

\* Plan versions above the last are unused, and a step is of its plan.
PlansFit ==
    /\ \A v \in 1..MaxPlanVersions : v > mission.plan => plans[v] = NoPlan
    /\ \A p \in Processes : proc[p].at \in Picking =>
          /\ proc[p].plan \in 1..mission.plan
          /\ proc[p].step \in DOMAIN plans[proc[p].plan]

TokensFit ==
    /\ OneFencedWriter
    /\ \A p \in Processes \ Workers : proc[p].token = 0

\* What holds whoever runs the mission.
IInv == TypeOK /\ PlansFit /\ TokensFit

-----------------------------------------------------------------------------
(* Records of processes.                                                     *)

LEMMA IdleTyped == Idle \in Process
<1>1. "idle" \in Places /\ 0 \in 0..MaxPlanVersions /\ 0 \in Nat
  BY MaxPlanVersionsAssumption DEF Places
<1> QED
  BY <1>1 DEF Idle, Process

\* What a process is after a move, but for the result of its proof.
Is(state, at, token, version, plan, target) ==
    /\ state.at = at /\ state.token = token /\ state.version = version
    /\ state.plan = plan /\ state.target = target
    /\ state.step = NoStep /\ state.n = 0

LEMMA RestingIs ==
    ASSUME TypeOK, NEW p \in Processes, NEW place \in Places
    PROVE  /\ Resting(p, place) \in Process
           /\ Is(Resting(p, place), place, proc[p].token, 0, 0, "")
<1>1. proc[p].token \in Nat
  BY DEF TypeOK, Process
<1>2. Resting(p, place) \in Process
  BY <1>1, IdleTyped DEF Resting, Process
<1>3. Is(Resting(p, place), place, proc[p].token, 0, 0, "")
  BY <1>1 DEF Resting, Idle, Is
<1> QED
  BY <1>2, <1>3

LEMMA WorkingIs ==
    ASSUME TypeOK, NEW p \in Processes, NEW place \in Places, NEW version \in Nat
    PROVE  /\ Working(p, place, version) \in Process
           /\ Is(Working(p, place, version), place, proc[p].token, version, proc[p].plan, "")
<1> DEFINE rest == Resting(p, place)
           plan == proc[p].plan
<1>1. plan \in 0..MaxPlanVersions
  BY DEF TypeOK, Process
<1>2. rest \in Process /\ Is(rest, place, proc[p].token, 0, 0, "")
  BY RestingIs
<1>3. Working(p, place, version) = [rest EXCEPT !.version = version, !.plan = plan]
  BY DEF Working
<1> HIDE DEF rest
<1>4. [rest EXCEPT !.version = version, !.plan = plan] \in Process
  BY <1>1, <1>2 DEF Process
<1>5. Is([rest EXCEPT !.version = version, !.plan = plan],
         place, proc[p].token, version, plan, "")
  BY <1>2 DEF Process, Is
<1> QED
  BY <1>3, <1>4, <1>5

LEMMA HeadingIs ==
    ASSUME TypeOK, NEW p \in Processes, NEW version \in Nat, NEW target \in Status
    PROVE  /\ Heading(p, target, version) \in Process
           /\ Is(Heading(p, target, version), "moving", proc[p].token, version,
                 proc[p].plan, target)
<1> DEFINE work == Working(p, "moving", version)
<1>1. "moving" \in Places
  BY DEF Places
<1>2. work \in Process /\ Is(work, "moving", proc[p].token, version, proc[p].plan, "")
  BY <1>1, WorkingIs
<1>3. Heading(p, target, version) = [work EXCEPT !.target = target]
  BY DEF Heading
<1> HIDE DEF work
<1>4. [work EXCEPT !.target = target] \in Process
  BY <1>2 DEF Process
<1>5. Is([work EXCEPT !.target = target], "moving", proc[p].token, version, proc[p].plan, target)
  BY <1>2 DEF Process, Is
<1> QED
  BY <1>3, <1>4, <1>5

LEMMA LeavingIs ==
    ASSUME TypeOK, NEW p \in Processes, NEW version \in Nat, NEW target \in Status
    PROVE  /\ Leaving(p, target, version) \in Process
           /\ Is(Leaving(p, target, version), "leaving", proc[p].token, version,
                 proc[p].plan, target)
<1> DEFINE work == Working(p, "leaving", version)
<1>1. "leaving" \in Places
  BY DEF Places
<1>2. work \in Process /\ Is(work, "leaving", proc[p].token, version, proc[p].plan, "")
  BY <1>1, WorkingIs
<1>3. Leaving(p, target, version) = [work EXCEPT !.target = target]
  BY DEF Leaving
<1> HIDE DEF work
<1>4. [work EXCEPT !.target = target] \in Process
  BY <1>2 DEF Process
<1>5. Is([work EXCEPT !.target = target], "leaving", proc[p].token, version, proc[p].plan, target)
  BY <1>2 DEF Process, Is
<1> QED
  BY <1>3, <1>4, <1>5

LEMMA EndedIs ==
    ASSUME TypeOK, NEW p \in Processes
    PROVE  /\ Ended(p) \in Process /\ Raised(p) \in Process
           /\ p \notin Workers => Ended(p) = Idle /\ Raised(p) = Idle
           /\ p \in Workers => /\ Is(Ended(p), "done", proc[p].token, 0, 0, "")
                               /\ Is(Raised(p), "failing", proc[p].token, 0, 0, "")
<1>1. "done" \in Places /\ "failing" \in Places
  BY DEF Places
<1> QED
  BY <1>1, RestingIs, IdleTyped DEF Ended, Raised

LEMMA GotoTyped ==
    ASSUME TypeOK, NEW p \in Processes, NEW state \in Process, Goto(p, state)
    PROVE  /\ proc' \in [Processes -> Process]
           /\ proc'[p] = state
           /\ \A x \in Processes \ {p} : proc'[x] = proc[x]
BY DEF TypeOK, Goto

\* A change of plan keeps the type of a process.
LEMMA PlanTyped ==
    ASSUME NEW state \in Process, NEW v \in 0..MaxPlanVersions
    PROVE  /\ [state EXCEPT !.plan = v] \in Process
           /\ [state EXCEPT !.plan = v].at = state.at
           /\ [state EXCEPT !.plan = v].plan = v
           /\ [state EXCEPT !.plan = v].token = state.token
           /\ [state EXCEPT !.plan = v].step = state.step
           /\ [state EXCEPT !.plan = v].version = state.version
           /\ [state EXCEPT !.plan = v].target = state.target
           /\ [state EXCEPT !.plan = v].n = state.n
BY DEF Process

-----------------------------------------------------------------------------
(* Rows of the store.                                                        *)

LEMMA AllowedTyped ==
    \A status \in Status : Allowed(status) \subseteq Status
BY DEF Allowed, ALLOWED_TRANSITIONS, Status, Terminal

LEMMA TouchedTyped ==
    ASSUME TypeOK
    PROVE  /\ Touched \in MissionRow
           /\ Touched.version = mission.version + 1
           /\ Touched.proof = NoProof
           /\ Touched.status = mission.status /\ Touched.plan = mission.plan
           /\ Touched.fence = mission.fence /\ Touched.owner = mission.owner
           /\ Touched.canonical = mission.canonical
           /\ Touched.leased = mission.leased
           /\ Touched.spent = mission.spent
<1>1. mission \in MissionRow /\ NoProof \in [version : Nat, passed : BOOLEAN]
  BY DEF TypeOK, StoreTypeOK, NoProof
<1> DEFINE version == mission.version + 1
<1>2. version \in Nat
  BY <1>1 DEF MissionRow
<1>3. Touched = [mission EXCEPT !.version = version, !.proof = NoProof]
  BY <1>1 DEF Touched, MissionRow
<1> HIDE DEF version
<1>4. [mission EXCEPT !.version = version, !.proof = NoProof] \in MissionRow
  BY <1>1, <1>2 DEF MissionRow
<1> QED
  BY <1>1, <1>2, <1>3, <1>4 DEF MissionRow, version

LEMMA TransitionedTyped ==
    ASSUME TypeOK, NEW target \in Status
    PROVE  /\ Transitioned(target) \in MissionRow
           /\ Transitioned(target).status = target
           /\ Transitioned(target).version = mission.version + 1
           /\ Transitioned(target).proof \in {mission.proof, NoProof}
           /\ Transitioned(target).plan = mission.plan
           /\ Transitioned(target).fence = mission.fence
           /\ Transitioned(target).owner \in {mission.owner, NoWorker}
           /\ Transitioned(target).canonical = mission.canonical
<1> DEFINE version == mission.version + 1
           proof == IF target \in {"completed", "waiting_input"} THEN mission.proof ELSE NoProof
           owner == IF target \in Terminal THEN NoWorker ELSE mission.owner
           leased == mission.leased /\ target \notin Terminal
<1>1. Transitioned(target) =
        [mission EXCEPT !.status = target, !.version = version,
                        !.proof = proof, !.owner = owner, !.leased = leased]
  BY DEF Transitioned, TypeOK, StoreTypeOK, MissionRow
<1>2. mission \in MissionRow
  BY DEF TypeOK, StoreTypeOK
<1>3. /\ proof \in {mission.proof, NoProof} /\ owner \in {mission.owner, NoWorker}
      /\ leased \in BOOLEAN
  BY <1>2 DEF MissionRow
<1>4. proof \in [version : Nat, passed : BOOLEAN]
  BY <1>2 DEF MissionRow, NoProof
<1>5. version \in Nat
  BY <1>2 DEF MissionRow
<1> HIDE DEF proof, owner, leased, version
<1>6. Transitioned(target) \in MissionRow
  BY <1>1, <1>2, <1>3, <1>4, <1>5 DEF MissionRow
<1>7. /\ Transitioned(target).status = target /\ Transitioned(target).version = version
      /\ Transitioned(target).proof = proof /\ Transitioned(target).owner = owner
      /\ Transitioned(target).plan = mission.plan
      /\ Transitioned(target).fence = mission.fence
      /\ Transitioned(target).canonical = mission.canonical
  BY <1>1, <1>2 DEF MissionRow
<1> QED
  BY <1>3, <1>6, <1>7 DEF version

LEMMA TransitionTyped ==
    ASSUME TypeOK, NEW token, NEW version, NEW target, Transition(token, version, target)
    PROVE  /\ target \in Status
           /\ mission' \in MissionRow /\ mission' = Transitioned(target)
           /\ UNCHANGED <<plans, attempts>>
<1>1. target \in Status
  BY AllowedTyped DEF Transition, CanTransition, TypeOK, StoreTypeOK, MissionRow
<1> QED
  BY <1>1, TransitionedTyped DEF Transition

LEMMA ClaimedTyped ==
    ASSUME TypeOK, NEW w \in Workers
    PROVE  /\ Claimed(w) \in MissionRow
           /\ Claimed(w).fence = mission.fence + 1 /\ Claimed(w).owner = w
           /\ Claimed(w).plan = mission.plan /\ Claimed(w).status = mission.status
           /\ Claimed(w).version = mission.version /\ Claimed(w).proof = mission.proof
           /\ Claimed(w).canonical = mission.canonical
<1> DEFINE fence == mission.fence + 1
<1>1. mission \in MissionRow /\ fence \in Nat
  BY DEF TypeOK, StoreTypeOK, MissionRow
<1>2. Claimed(w) = [mission EXCEPT !.owner = w, !.leased = TRUE, !.fence = fence]
  BY <1>1 DEF Claimed, MissionRow
<1> HIDE DEF fence
<1>3. [mission EXCEPT !.owner = w, !.leased = TRUE, !.fence = fence] \in MissionRow
  BY <1>1 DEF MissionRow
<1> QED
  BY <1>1, <1>2, <1>3 DEF MissionRow, fence

LEMMA QuarantinedTyped ==
    ASSUME TypeOK
    PROVE  /\ Quarantined \in MissionRow
           /\ Quarantined.fence = mission.fence /\ Quarantined.owner = mission.owner
           /\ Quarantined.plan = mission.plan /\ Quarantined.status = mission.status
           /\ Quarantined.version = mission.version /\ Quarantined.proof = mission.proof
           /\ Quarantined.canonical = FALSE
BY DEF TypeOK, StoreTypeOK, MissionRow, Quarantined

LEMMA ReleasedTyped ==
    ASSUME TypeOK, NEW w \in Workers
    PROVE  /\ Released(w) \in MissionRow
           /\ Released(w).fence = mission.fence
           /\ Released(w).owner \in {mission.owner, NoWorker}
           /\ Released(w).plan = mission.plan /\ Released(w).status = mission.status
           /\ Released(w).version = mission.version /\ Released(w).proof = mission.proof
           /\ Released(w).canonical = mission.canonical
<1>1. mission \in MissionRow
  BY DEF TypeOK, StoreTypeOK
<1>2. CASE mission.owner = w /\ mission.canonical
  BY <1>1, <1>2 DEF Released, MissionRow
<1>3. CASE ~ (mission.owner = w /\ mission.canonical)
  BY <1>1, <1>3 DEF Released
<1> QED
  BY <1>2, <1>3

LEMMA LeasedTyped ==
    ASSUME TypeOK, NEW leased \in BOOLEAN, mission' = [mission EXCEPT !.leased = leased]
    PROVE  /\ mission' \in MissionRow
           /\ mission'.fence = mission.fence /\ mission'.owner = mission.owner
           /\ mission'.plan = mission.plan /\ mission'.status = mission.status
           /\ mission'.version = mission.version /\ mission'.proof = mission.proof
           /\ mission'.canonical = mission.canonical
BY DEF TypeOK, StoreTypeOK, MissionRow

LEMMA PlanFacts ==
    /\ DOMAIN NoPlan = {}
    /\ \A plan \in Plan : DOMAIN plan \subseteq Steps
                          /\ \A s \in DOMAIN plan : plan[s] \in Contents
BY DEF Plan, NoPlan

LEMMA SavePlanTyped ==
    ASSUME TypeOK, PlansFit, NEW token, NEW version \in Nat, NEW plan \in Plan,
           SavePlan(token, version, plan)
    PROVE  /\ mission' \in MissionRow
           /\ plans' \in [1..MaxPlanVersions -> Plan \cup {NoPlan}]
           /\ mission'.plan = version /\ version = mission.plan + 1
           /\ version \in 1..MaxPlanVersions
           /\ plans'[version] = plan /\ plans[version] = NoPlan
           /\ \A v \in 1..MaxPlanVersions \ {version} : plans'[v] = plans[v]
           /\ mission'.version = mission.version + 1 /\ mission'.proof = NoProof
           /\ mission'.status = mission.status /\ mission'.fence = mission.fence
           /\ mission'.owner = mission.owner /\ mission'.canonical = mission.canonical
           /\ UNCHANGED attempts
<1>1. mission \in MissionRow /\ MaxPlanVersions \in Nat
  BY MaxPlanVersionsAssumption DEF TypeOK, StoreTypeOK
<1>2. version = mission.plan + 1 /\ version \in 1..MaxPlanVersions
  BY <1>1 DEF SavePlan, CanSavePlan, MissionRow
<1>3. mission' = [Touched EXCEPT !.plan = version] /\ Touched \in MissionRow
  BY TouchedTyped DEF SavePlan
<1>4. /\ mission' \in MissionRow /\ mission'.plan = version
      /\ mission'.version = mission.version + 1 /\ mission'.proof = NoProof
      /\ mission'.status = mission.status /\ mission'.fence = mission.fence
      /\ mission'.owner = mission.owner /\ mission'.canonical = mission.canonical
  BY <1>1, <1>2, <1>3, TouchedTyped DEF MissionRow
<1>5. plans \in [1..MaxPlanVersions -> Plan \cup {NoPlan}] /\ plans' = [plans EXCEPT ![version] = plan]
  BY DEF SavePlan, TypeOK, StoreTypeOK
<1>6. plans[version] = NoPlan
  BY <1>1, <1>2 DEF PlansFit, MissionRow
<1> QED
  BY <1>2, <1>4, <1>5, <1>6 DEF SavePlan

LEMMA StartTyped ==
    ASSUME TypeOK, PlansFit, NEW p \in Processes, proc[p].at \in Picking,
           NEW token, StartAttempt(token, proc[p].plan, proc[p].step, proc[p].n)
    PROVE  /\ attempts' \in Seq(AttemptRow)
           /\ Len(attempts') = Len(attempts) + 1 /\ Len(attempts) \in Nat
           /\ \A i \in 1..Len(attempts) : attempts'[i] = attempts[i]
           /\ attempts'[Len(attempts) + 1].step = proc[p].step
           /\ attempts'[Len(attempts) + 1].plan = proc[p].plan
           /\ attempts'[Len(attempts) + 1].status = "running"
<1> DEFINE v == proc[p].plan
           s == proc[p].step
           row == [step |-> s, content |-> plans[v][s], plan |-> v,
                   attempt |-> proc[p].n, status |-> "running"]
<1>1. proc[p] \in Process /\ mission.plan \in 0..MaxPlanVersions
  BY DEF TypeOK, StoreTypeOK, MissionRow
<1>2. v \in 1..MaxPlanVersions /\ s \in DOMAIN plans[v]
  BY <1>1, MaxPlanVersionsAssumption DEF PlansFit
<1>3. plans[v] \in Plan
  BY <1>2, PlanFacts DEF TypeOK, StoreTypeOK
<1>4. s \in Steps /\ plans[v][s] \in Contents /\ proc[p].n \in Nat
  BY <1>1, <1>2, <1>3, PlanFacts DEF Process
<1>5. row \in AttemptRow
  BY <1>2, <1>4 DEF AttemptRow, AttemptStatus
<1>6. attempts' = Append(attempts, row)
  BY DEF StartAttempt
<1>7. attempts \in Seq(AttemptRow)
  BY DEF TypeOK, StoreTypeOK
<1>8. row.step = s /\ row.plan = v /\ row.status = "running"
  OBVIOUS
<1> HIDE DEF row, v, s
<1> QED
  BY <1>5, <1>6, <1>7, <1>8, AppendProperties DEF v, s

LEMMA CompleteTyped ==
    ASSUME TypeOK, NEW token, NEW n \in Nat, NEW status \in AttemptStatus,
           CompleteAttempt(token, n, status)
    PROVE  /\ attempts' \in Seq(AttemptRow) /\ Len(attempts') = Len(attempts)
           /\ DOMAIN attempts' = DOMAIN attempts
           /\ \A i \in DOMAIN attempts : attempts'[i].step = attempts[i].step
<1>1. attempts \in Seq(AttemptRow)
  BY DEF TypeOK, StoreTypeOK
<1>2. attempts' = [attempts EXCEPT ![n].status = status]
  BY DEF CompleteAttempt
<1>3. CASE n \in DOMAIN attempts
  <2>1. attempts[n] \in AttemptRow
    BY <1>1, <1>3
  <2> DEFINE row == [attempts[n] EXCEPT !.status = status]
  <2>2. row \in AttemptRow /\ row.step = attempts[n].step
    BY <2>1 DEF AttemptRow
  <2>3. attempts' = [attempts EXCEPT ![n] = row]
    BY <1>2
  <2> HIDE DEF row
  <2> QED
    BY <1>1, <1>3, <2>2, <2>3
<1>4. CASE n \notin DOMAIN attempts
  <2>1. attempts' = attempts
    BY <1>1, <1>2, <1>4
  <2> QED
    BY <1>1, <2>1
<1> QED
  BY <1>3, <1>4

-----------------------------------------------------------------------------
(* What the steps of run() do.                                               *)

\* A process keeps its token or has none any more.
Keeps(p, state) == state = Idle \/ state.token = proc[p].token

\* The call is over, or raised.
Over == {"idle", "done", "failing"}

LEMMA OverIs ==
    ASSUME TypeOK, NEW p \in Processes, NEW state \in {Ended(p), Raised(p), Idle}
    PROVE  /\ state \in Process /\ Keeps(p, state)
           /\ state.at \in Over /\ state.version = 0
<1>1. Idle \in Process /\ Idle.at = "idle" /\ Idle.version = 0
  BY IdleTyped DEF Idle
<1>2. CASE state = Idle
  BY <1>1, <1>2 DEF Keeps, Over
<1>3. CASE p \in Workers /\ state /= Idle
  <2>0. state \in Process
    BY <1>3, EndedIs
  <2>1. \E at \in {"done", "failing"} : Is(state, at, proc[p].token, 0, 0, "")
    BY <1>3, EndedIs
  <2>2. PICK at \in {"done", "failing"} : Is(state, at, proc[p].token, 0, 0, "")
    BY <2>1
  <2>3. state.at = at /\ state.token = proc[p].token /\ state.version = 0
    BY <2>2 DEF Is
  <2>4. Keeps(p, state)
    BY <2>3 DEF Keeps
  <2>5. state.at \in Over
    BY <2>3 DEF Over
  <2> QED
    BY <2>0, <2>3, <2>4, <2>5
<1>4. CASE p \notin Workers /\ state /= Idle
  BY <1>4 DEF Ended, Raised
<1> QED
  BY <1>2, <1>3, <1>4

LEMMA RowTyped ==
    ASSUME TypeOK
    PROVE  /\ mission \in MissionRow /\ mission.version \in Nat /\ mission.status \in Status
           /\ mission.plan \in 0..MaxPlanVersions /\ mission.fence \in Nat
           /\ mission.proof.version \in Nat
           /\ MaxPlanVersions \in Nat
BY MaxPlanVersionsAssumption DEF TypeOK, StoreTypeOK, MissionRow

LEMMA BeginDoes ==
    ASSUME TypeOK, NEW p \in Processes, Begin(p)
    PROVE  \E state \in Process :
              /\ Goto(p, state) /\ Keeps(p, state) /\ UNCHANGED rows
              /\ state.at \in Over \cup {"moving", "ready"}
              /\ state.version <= mission.version
              /\ state.at = "ready" => mission.status = "running"
<1>1. UNCHANGED rows /\ mission.version \in Nat
  BY RowTyped DEF Begin, rows
<1>2. CASE \E target \in Status : Goto(p, Heading(p, target, mission.version))
  <2>1. PICK target \in Status : Goto(p, Heading(p, target, mission.version))
    BY <1>2
  <2> DEFINE state == Heading(p, target, mission.version)
  <2>2. state \in Process /\ Is(state, "moving", proc[p].token, mission.version,
                                proc[p].plan, target)
    BY <1>1, HeadingIs
  <2> HIDE DEF state
  <2>3. state.at = "moving" /\ state.version = mission.version /\ Keeps(p, state)
    BY <2>2 DEF Is, Keeps
  <2> QED
    BY <1>1, <2>1, <2>2, <2>3 DEF state
<1>3. CASE mission.status = "running" /\ Goto(p, Working(p, "ready", mission.version))
  <2> DEFINE state == Working(p, "ready", mission.version)
  <2>1. "ready" \in Places
    BY DEF Places
  <2>2. state \in Process /\ Is(state, "ready", proc[p].token, mission.version,
                                proc[p].plan, "")
    BY <1>1, <2>1, WorkingIs
  <2> HIDE DEF state
  <2>3. state.at = "ready" /\ state.version = mission.version /\ Keeps(p, state)
    BY <2>2 DEF Is, Keeps
  <2>4. Goto(p, state) /\ mission.status = "running"
    BY <1>3 DEF state
  <2>5. state.version <= mission.version /\ state.at \in Over \cup {"moving", "ready"}
    BY <1>1, <2>3
  <2> QED
    BY <1>1, <2>2, <2>3, <2>4, <2>5
<1>4. CASE Goto(p, Ended(p))
  BY <1>1, <1>4, OverIs DEF Over
<1>5. {"paused", "canceled", "running", "waiting_approval", "waiting_input", "failed",
       "planning"} \subseteq Status
  BY DEF Status, Terminal
<1> QED
  BY <1>2, <1>3, <1>4, <1>5 DEF Begin

LEMMA MoveDoes ==
    ASSUME TypeOK, NEW p \in Processes, Move(p)
    PROVE  /\ proc[p].at \in {"moving", "leaving"} /\ proc[p].target \in Status
           /\ Current(proc[p].token) /\ proc[p].version = mission.version
           /\ Transition(proc[p].token, proc[p].version, proc[p].target)
           /\ mission' = Transitioned(proc[p].target) /\ UNCHANGED <<plans, attempts>>
           /\ \E state \in Process :
                 /\ Goto(p, state) /\ Keeps(p, state)
                 /\ state.at \in Over \cup {"plan", "moving", "ready"}
                 /\ state.version <= mission'.version
                 /\ state.at = "ready" => proc[p].target = "running"
                 /\ state.at = "moving" => state.target = "running"
<1> DEFINE target == proc[p].target
           version == mission'.version
<1>1. Transition(proc[p].token, proc[p].version, target) /\ target \in Status
  BY TransitionTyped DEF Move
<1>2. mission' = Transitioned(target) /\ version \in Nat /\ UNCHANGED <<plans, attempts>>
  BY <1>1, TransitionTyped DEF MissionRow
<1>3. Goto(p, After(p, target, version))
  BY DEF Move
<1> DEFINE state == After(p, target, version)
<1>4. /\ state \in Process /\ Keeps(p, state)
      /\ state.at \in Over \cup {"plan", "moving", "ready"}
      /\ state.version <= version
      /\ state.at = "ready" => target = "running"
      /\ state.at = "moving" => state.target = "running"
  <2>1. CASE state \in {Ended(p), Raised(p)}
    <3> HIDE DEF state, version
    <3> QED
      BY <1>2, <2>1, OverIs DEF Over
  <2>2. CASE \E v \in 0..MaxPlanVersions :
                state = [Working(p, "plan", version) EXCEPT !.plan = v]
    <3>1. PICK v \in 0..MaxPlanVersions : state = [Working(p, "plan", version) EXCEPT !.plan = v]
      BY <2>2
    <3> DEFINE work == Working(p, "plan", version)
    <3>4. "plan" \in Places
      BY DEF Places
    <3>5. work \in Process /\ Is(work, "plan", proc[p].token, version, proc[p].plan, "")
      BY <1>2, <3>4, WorkingIs
    <3>2. work \in Process /\ work.at = "plan" /\ work.version = version
          /\ work.token = proc[p].token
      BY <3>5 DEF Is
    <3> HIDE DEF work, state, version
    <3>3. /\ state \in Process /\ state.at = "plan" /\ state.version = version
          /\ state.token = proc[p].token
      BY <3>1, <3>2, PlanTyped DEF work
    <3> QED
      BY <1>2, <3>3 DEF Keeps
  <2>3. CASE state = Heading(p, "running", version)
    <3>1. "running" \in Status
      BY DEF Status
    <3>2. /\ state \in Process /\ state.at = "moving" /\ state.version = version
          /\ state.token = proc[p].token /\ state.target = "running"
      BY <1>2, <2>3, <3>1, HeadingIs DEF Is
    <3> HIDE DEF state, version
    <3> QED
      BY <1>2, <3>2 DEF Keeps
  <2>4. CASE state = Working(p, "ready", version) /\ target = "running"
    <3>1. "ready" \in Places
      BY DEF Places
    <3>3. state \in Process /\ Is(state, "ready", proc[p].token, version, proc[p].plan, "")
      BY <1>2, <2>4, <3>1, WorkingIs
    <3>2. /\ state \in Process /\ state.at = "ready" /\ state.version = version
          /\ state.token = proc[p].token
      BY <3>3 DEF Is
    <3> HIDE DEF state, version
    <3> QED
      BY <1>2, <2>4, <3>2 DEF Keeps
  <2> DEFINE work == Working(p, "plan", version)
  <2>5. /\ work \in Process /\ work.plan \in 0..MaxPlanVersions
        /\ mission.plan \in 0..MaxPlanVersions /\ 0 \in 0..MaxPlanVersions
    <3>1. "plan" \in Places
      BY DEF Places
    <3>2. work \in Process
      BY <1>2, <3>1, WorkingIs
    <3>3. mission.plan \in 0..MaxPlanVersions /\ 0 \in 0..MaxPlanVersions
      BY RowTyped
    <3> QED
      BY <3>2, <3>3 DEF Process
  <2>8. mission'.plan = mission.plan
    BY <1>1, <1>2, TransitionedTyped
  <2>6. CASE target \in {"planning", "replanning"}
    <3>1. CASE target = "planning"
      <4>1. state = [work EXCEPT !.plan = 0]
        BY <3>1 DEF After
      <4> HIDE DEF state, work
      <4> QED
        BY <2>2, <2>5, <4>1 DEF work
    <3>2. CASE target = "replanning" /\ mission.plan = 0
      <4>1. state = Raised(p)
        BY <3>2 DEF After
      <4> QED
        BY <2>1, <4>1
    <3>3. CASE target = "replanning" /\ mission.plan /= 0
      <4>1. state = [work EXCEPT !.plan = IF p \in Operators THEN mission.plan ELSE @]
        BY <3>3 DEF After
      <4>2. state = [work EXCEPT !.plan = IF p \in Operators THEN mission.plan ELSE work.plan]
        BY <2>5, <4>1 DEF Process
      <4> HIDE DEF state, work
      <4> QED
        BY <2>2, <2>5, <4>2 DEF work
    <3> QED
      BY <2>6, <3>1, <3>2, <3>3
  <2>7. CASE target \notin {"planning", "replanning"}
    <3>1. CASE target = "retry_wait"
      <4>1. state = Heading(p, "running", version)
        BY <3>1 DEF After
      <4> QED
        BY <2>3, <4>1
    <3>2. CASE target = "running" /\ proc[p].at = "moving"
      <4>1. state = Working(p, "ready", version)
        BY <3>2 DEF After
      <4> QED
        BY <2>4, <3>2, <4>1
    <3>3. CASE target /= "retry_wait" /\ ~ (target = "running" /\ proc[p].at = "moving")
      <4>1. state = Ended(p)
        BY <2>7, <3>3 DEF After
      <4> QED
        BY <2>1, <4>1
    <3> QED
      BY <3>1, <3>2, <3>3
  <2> QED
    BY <2>6, <2>7
<1>5. Current(proc[p].token) /\ proc[p].version = mission.version
  BY <1>1 DEF Transition, CanTransition
<1> HIDE DEF state, version, target
<1>6. proc[p].at \in {"moving", "leaving"}
  BY DEF Move
<1> QED
  BY <1>1, <1>2, <1>3, <1>4, <1>5, <1>6 DEF state, version, target

LEMMA MakePlanDoes ==
    ASSUME TypeOK, PlansFit, NEW p \in Processes, MakePlan(p)
    PROVE  /\ proc[p].at = "plan" /\ Current(proc[p].token)
           /\ \E plan \in Plan, version \in Nat : SavePlan(proc[p].token, version, plan)
           /\ \E state \in Process :
                 /\ Goto(p, state) /\ Keeps(p, state)
                 /\ state.at = "planned" /\ state.version = 0
<1>0. proc[p].plan \in 0..MaxPlanVersions
  BY DEF TypeOK, Process
<1>1. proc[p].at = "plan" /\ proc[p].plan + 1 \in Nat
  BY <1>0 DEF MakePlan
<1>2. PICK plan \in Plan : SavePlan(proc[p].token, proc[p].plan + 1, plan)
  BY DEF MakePlan
<1>3. Current(proc[p].token)
  BY <1>2 DEF SavePlan, CanSavePlan
<1>4. mission'.plan \in 0..MaxPlanVersions
  BY <1>1, <1>2, SavePlanTyped DEF MissionRow
<1> DEFINE work == Working(p, "planned", 0)
           v == mission'.plan
<1>5. Goto(p, [work EXCEPT !.plan = v])
  BY DEF MakePlan
<1>6. "planned" \in Places /\ 0 \in Nat
  BY DEF Places
<1>7. work \in Process /\ Is(work, "planned", proc[p].token, 0, proc[p].plan, "")
  BY <1>6, WorkingIs
<1>8. work.at = "planned" /\ work.version = 0 /\ work.token = proc[p].token
  BY <1>7 DEF Is
<1> HIDE DEF work, v
<1>9. /\ [work EXCEPT !.plan = v] \in Process
      /\ [work EXCEPT !.plan = v].at = "planned"
      /\ [work EXCEPT !.plan = v].version = 0
      /\ [work EXCEPT !.plan = v].token = proc[p].token
  BY <1>4, <1>7, <1>8, PlanTyped DEF v
<1> QED
  BY <1>1, <1>2, <1>3, <1>5, <1>9 DEF Keeps

LEMMA ReplannedDoes ==
    ASSUME TypeOK, NEW p \in Processes, Replanned(p)
    PROVE  /\ UNCHANGED rows
           /\ \E state \in Process :
                 /\ Goto(p, state) /\ Keeps(p, state)
                 /\ state.at \in {"moving", "leaving"} /\ state.target = "running"
                 /\ state.version = mission.version
<1>1. UNCHANGED rows /\ mission.version \in Nat /\ "running" \in Status
  BY RowTyped DEF Replanned, rows, Status
<1>2. \E state \in {Heading(p, "running", mission.version), Leaving(p, "running", mission.version)} :
         Goto(p, state)
  BY DEF Replanned
<1>3. \A state \in {Heading(p, "running", mission.version), Leaving(p, "running", mission.version)} :
         /\ state \in Process
         /\ \E at \in {"moving", "leaving"} :
               Is(state, at, proc[p].token, mission.version, proc[p].plan, "running")
  BY <1>1, HeadingIs, LeavingIs
<1> QED
  BY <1>1, <1>2, <1>3 DEF Is, Keeps

\* Attempts of a step.
Tried(s) == {n \in DOMAIN attempts : attempts[n].step = s}

LEMMA TriesTyped ==
    ASSUME TypeOK, NEW s
    PROVE  Tries(s) = Cardinality(Tried(s)) /\ Tries(s) \in Nat /\ IsFiniteSet(Tried(s))
<1>1. attempts \in Seq(AttemptRow)
  BY DEF TypeOK, StoreTypeOK
<1>2. Len(attempts) \in Nat /\ DOMAIN attempts = 1..Len(attempts)
  BY <1>1
<1>3. IsFiniteSet(1..Len(attempts))
  BY <1>2, FS_Interval
<1>4. Tried(s) \in SUBSET (1..Len(attempts))
  BY <1>2 DEF Tried
<1>5. IsFiniteSet(Tried(s))
  BY <1>3, <1>4, FS_Subset
<1>6. Tries(s) = Cardinality(Tried(s))
  BY DEF Tries, Tried
<1> QED
  BY <1>5, <1>6, FS_CardinalityType

LEMMA LookDoes ==
    ASSUME TypeOK, NEW p \in Processes, Look(p)
    PROVE  /\ UNCHANGED rows /\ proc[p].at = "ready"
           /\ \E state \in Process :
                 /\ Goto(p, state) /\ Keeps(p, state)
                 /\ \/ state.at \in Over /\ state.version = 0
                    \/ state.at = "moving" /\ state.version = proc[p].version
                    \/ /\ state.at = "proving" /\ state.version = proc[p].version
                       /\ state.passed => mission.plan > 0 /\ NoGaps(mission.plan)
                    \/ /\ state.at = "stepping" /\ state.version = proc[p].version
                       /\ state.plan = mission.plan /\ mission.plan > 0
                       /\ state.step \in DOMAIN plans[mission.plan]
                       /\ state.n = Tries(state.step) + 1 /\ state.n <= MaxAttempts
<1> DEFINE v == mission.plan
           version == proc[p].version
           heading(target) == [Heading(p, target, version) EXCEPT !.plan = v]
           work(place) == Working(p, place, version)
           working(place) == [work(place) EXCEPT !.plan = v]
<1>1. /\ UNCHANGED rows /\ proc[p].at = "ready" /\ v \in 0..MaxPlanVersions /\ version \in Nat
      /\ proc[p].token \in Nat
  BY RowTyped DEF Look, rows, TypeOK, Process
<1>2. CASE Goto(p, Raised(p))
  BY <1>1, <1>2, OverIs
<1>3. CASE \E target \in Status : Goto(p, heading(target))
  <2>1. PICK target \in Status : Goto(p, heading(target))
    BY <1>3
  <2> DEFINE head == Heading(p, target, version)
  <2>2. head \in Process /\ Is(head, "moving", proc[p].token, version, proc[p].plan, target)
    BY <1>1, HeadingIs
  <2>3. head.at = "moving" /\ head.version = version /\ head.token = proc[p].token
    BY <2>2 DEF Is
  <2>4. Goto(p, [head EXCEPT !.plan = v])
    BY <2>1
  <2> HIDE DEF head, version, v
  <2>5. /\ [head EXCEPT !.plan = v] \in Process
        /\ [head EXCEPT !.plan = v].at = "moving"
        /\ [head EXCEPT !.plan = v].version = version
        /\ [head EXCEPT !.plan = v].token = proc[p].token
    BY <1>1, <2>2, <2>3, PlanTyped
  <2> QED
    BY <1>1, <2>4, <2>5 DEF Keeps, version
<1>4. ASSUME NEW place \in {"proving", "stepping"}
      PROVE  /\ working(place) \in Process /\ working(place).at = place
             /\ working(place).version = version /\ working(place).token = proc[p].token
             /\ working(place).plan = v
  <2>1. place \in Places
    BY DEF Places
  <2>2. work(place) \in Process /\ Is(work(place), place, proc[p].token, version, proc[p].plan, "")
    BY <1>1, <2>1, WorkingIs
  <2>3. /\ work(place).at = place /\ work(place).version = version
        /\ work(place).token = proc[p].token
    BY <2>2 DEF Is
  <2> HIDE DEF work, version, v
  <2> QED
    BY <1>1, <2>2, <2>3, PlanTyped
<1>5. CASE /\ v > 0
           /\ \E passed \in {NoGaps(v), FALSE} :
                 Goto(p, [working("proving") EXCEPT !.passed = passed])
  <2>1. PICK passed \in {NoGaps(v), FALSE} :
              Goto(p, [working("proving") EXCEPT !.passed = passed])
    BY <1>5
  <2>2. passed \in BOOLEAN /\ (passed => NoGaps(v))
    BY DEF NoGaps
  <2> DEFINE rest == working("proving")
  <2>3. /\ rest \in Process /\ rest.at = "proving" /\ rest.version = version
        /\ rest.token = proc[p].token
    BY <1>4
  <2>4. Goto(p, [rest EXCEPT !.passed = passed])
    BY <2>1
  <2> HIDE DEF rest, version, v
  <2> DEFINE state == [rest EXCEPT !.passed = passed]
  <2>5. state \in Process /\ state.passed = passed
    BY <2>2, <2>3 DEF Process
  <2>6. state.at = "proving" /\ state.version = version /\ state.token = proc[p].token
    BY <2>3 DEF Process
  <2> HIDE DEF state
  <2> QED
    BY <1>1, <1>5, <2>2, <2>4, <2>5, <2>6 DEF Keeps, version, v, state
<1>6. CASE /\ v > 0
           /\ \E s \in Ready(v, Needs) :
                 Goto(p, [working("stepping") EXCEPT !.step = s, !.n = Tries(s) + 1])
                 /\ Tries(s) + 1 <= MaxAttempts
  <2>1. PICK s \in Ready(v, Needs) :
              /\ Goto(p, [working("stepping") EXCEPT !.step = s, !.n = Tries(s) + 1])
              /\ Tries(s) + 1 <= MaxAttempts
    BY <1>6
  <2>2. v \in 1..MaxPlanVersions
    BY <1>1, <1>6, RowTyped
  <2>3. s \in DOMAIN plans[v]
    BY DEF Ready
  <2>4. plans[v] \in Plan \cup {NoPlan}
    BY <2>2 DEF TypeOK, StoreTypeOK
  <2>5. s \in Steps
    BY <2>3, <2>4, PlanFacts
  <2> DEFINE rest == working("stepping")
             count == Tries(s) + 1
  <2>6. count \in Nat
    BY TriesTyped
  <2>7. /\ rest \in Process /\ rest.at = "stepping" /\ rest.version = version
        /\ rest.token = proc[p].token /\ rest.plan = v
    BY <1>4
  <2>8. Goto(p, [rest EXCEPT !.step = s, !.n = count])
    BY <2>1
  <2> HIDE DEF rest, version, count, v
  <2> DEFINE state == [rest EXCEPT !.step = s, !.n = count]
  <2>9. state \in Process
    BY <2>5, <2>6, <2>7 DEF Process
  <2>10. /\ state.at = "stepping" /\ state.version = version /\ state.token = proc[p].token
         /\ state.plan = v /\ state.step = s /\ state.n = count
    BY <2>7 DEF Process
  <2> HIDE DEF state
  <2> QED
    BY <1>1, <1>6, <2>1, <2>3, <2>8, <2>9, <2>10 DEF Keeps, version, count, v, state
<1>7. {"budget_exhausted", "replanning"} \subseteq Status
  BY DEF Status, Terminal
<1>8. ReplanTarget \in Status
  BY <1>7 DEF ReplanTarget
<1>9. \/ Goto(p, heading("budget_exhausted"))
      \/ Goto(p, Raised(p))
      \/ /\ v > 0
         /\ \E passed \in {NoGaps(v), FALSE} :
               Goto(p, [working("proving") EXCEPT !.passed = passed])
      \/ /\ v > 0
         /\ \E s \in Ready(v, Needs) :
               Goto(p, IF Tries(s) + 1 > MaxAttempts THEN heading(ReplanTarget)
                       ELSE [working("stepping") EXCEPT !.step = s, !.n = Tries(s) + 1])
  BY DEF Look
<1>10. CASE /\ v > 0
            /\ \E s \in Ready(v, Needs) :
                  Goto(p, IF Tries(s) + 1 > MaxAttempts THEN heading(ReplanTarget)
                          ELSE [working("stepping") EXCEPT !.step = s, !.n = Tries(s) + 1])
  <2>1. PICK s \in Ready(v, Needs) :
               Goto(p, IF Tries(s) + 1 > MaxAttempts THEN heading(ReplanTarget)
                       ELSE [working("stepping") EXCEPT !.step = s, !.n = Tries(s) + 1])
    BY <1>10
  <2>2. CASE Tries(s) + 1 > MaxAttempts
    <3>1. Goto(p, heading(ReplanTarget))
      BY <2>1, <2>2
    <3> HIDE DEF heading
    <3> QED
      BY <1>3, <1>8, <3>1
  <2>3. CASE ~ (Tries(s) + 1 > MaxAttempts)
    <3>1. Goto(p, [working("stepping") EXCEPT !.step = s, !.n = Tries(s) + 1])
      BY <2>1, <2>3
    <3>2. Tries(s) + 1 <= MaxAttempts
      BY <2>3, TriesTyped, MaxAttemptsAssumption
    <3> HIDE DEF working
    <3> QED
      BY <1>6, <1>10, <3>1, <3>2
  <2> QED
    BY <2>2, <2>3
<1> HIDE DEF heading, working
<1> QED
  BY <1>2, <1>3, <1>5, <1>7, <1>9, <1>10

LEMMA ProveDoes ==
    ASSUME TypeOK, NEW p \in Processes, Prove(p)
    PROVE  /\ proc[p].at = "proving" /\ Current(proc[p].token)
           /\ proc[p].version = mission.version
           /\ UNCHANGED <<plans, attempts>> /\ mission' \in MissionRow
           /\ mission'.status = mission.status /\ mission'.version = mission.version
           /\ mission'.plan = mission.plan /\ mission'.fence = mission.fence
           /\ mission'.owner = mission.owner /\ mission'.canonical = mission.canonical
           /\ mission'.proof = [version |-> mission.version, passed |-> proc[p].passed]
           /\ \E state \in Process :
                 /\ Goto(p, state) /\ Keeps(p, state)
                 /\ state.at = "moving" /\ state.version = proc[p].version
<1> DEFINE target == IF proc[p].passed THEN "completed" ELSE "waiting_input"
           proof == [version |-> mission.version, passed |-> proc[p].passed]
<1>1. /\ mission \in MissionRow /\ mission.version \in Nat
      /\ proc[p].passed \in BOOLEAN /\ proc[p].version \in Nat
  BY RowTyped DEF TypeOK, Process
<1>2. target \in Status
  BY DEF Status, Terminal
<1>3. proof \in [version : Nat, passed : BOOLEAN]
  BY <1>1
<1>4. /\ proc[p].at = "proving" /\ Current(proc[p].token)
      /\ proc[p].version = mission.version
      /\ UNCHANGED <<plans, attempts>> /\ mission' = [mission EXCEPT !.proof = proof]
  BY DEF Prove, RecordProof, CanRecordProof
<1> HIDE DEF proof
<1>5. /\ mission' \in MissionRow
      /\ mission'.status = mission.status /\ mission'.version = mission.version
      /\ mission'.plan = mission.plan /\ mission'.fence = mission.fence
      /\ mission'.owner = mission.owner /\ mission'.canonical = mission.canonical
      /\ mission'.proof = proof
  BY <1>1, <1>3, <1>4 DEF MissionRow
<1> DEFINE state == Heading(p, target, proc[p].version)
<1>6. Goto(p, state)
  BY DEF Prove
<1>7. state \in Process /\ Is(state, "moving", proc[p].token, proc[p].version, proc[p].plan, target)
  BY <1>1, <1>2, HeadingIs
<1> HIDE DEF state, target
<1>8. state.at = "moving" /\ state.version = proc[p].version /\ state.token = proc[p].token
  BY <1>7 DEF Is
<1>9. Keeps(p, state)
  BY <1>8 DEF Keeps
<1> QED
  BY <1>4, <1>5, <1>6, <1>7, <1>8, <1>9 DEF proof

LEMMA SetStepDoes ==
    ASSUME TypeOK, NEW p \in Processes, SetStep(p)
    PROVE  /\ proc[p].at = "stepping" /\ Current(proc[p].token)
           /\ proc[p].version = mission.version
           /\ UNCHANGED <<plans, attempts>> /\ mission' = Touched
           /\ \E state \in Process :
                 /\ Goto(p, state) /\ Keeps(p, state)
                 /\ state.at = "compiling" /\ state.version = mission'.version
                 /\ state.plan = proc[p].plan /\ state.step = proc[p].step
                 /\ state.n = proc[p].n
<1> DEFINE version == mission'.version
           state == [proc[p] EXCEPT !.at = "compiling", !.version = version]
<1>1. /\ proc[p].at = "stepping" /\ Current(proc[p].token)
      /\ proc[p].version = mission.version
      /\ UNCHANGED <<plans, attempts>> /\ mission' = Touched
      /\ Goto(p, state)
  BY DEF SetStep, CanTouch
<1>2. version \in Nat /\ proc[p] \in Process /\ "compiling" \in Places
  BY <1>1, TouchedTyped, RowTyped DEF TypeOK, Places
<1> HIDE DEF version
<1>3. state \in Process
  BY <1>2 DEF Process
<1>4. /\ state.at = "compiling" /\ state.version = version /\ state.token = proc[p].token
      /\ state.plan = proc[p].plan /\ state.step = proc[p].step /\ state.n = proc[p].n
  BY <1>2 DEF Process
<1> HIDE DEF state
<1> QED
  BY <1>1, <1>3, <1>4 DEF Keeps, version

LEMMA CompileDoes ==
    ASSUME TypeOK, NEW p \in Processes, Compile(p)
    PROVE  /\ proc[p].at = "compiling"
           /\ \E state \in Process :
                 /\ Goto(p, state) /\ Keeps(p, state)
                 /\ \/ /\ UNCHANGED rows
                       /\ state.at = "moving" /\ state.version = proc[p].version
                    \/ /\ UNCHANGED rows /\ Current(proc[p].token)
                       /\ state.at = "starting" /\ state.version = 0
                       /\ state.plan = proc[p].plan /\ state.step = proc[p].step
                       /\ state.n = proc[p].n
                    \/ /\ mission' = Quarantined /\ UNCHANGED <<plans, attempts>>
                       /\ state.at \in Over /\ state.version = 0
<1>1. /\ proc[p].at = "compiling" /\ UNCHANGED <<plans, attempts>>
      /\ proc[p] \in Process /\ proc[p].version \in Nat
  BY DEF Compile, TypeOK, Process
<1>2. CASE UNCHANGED mission /\ Goto(p, Heading(p, "budget_exhausted", proc[p].version))
  <2> DEFINE state == Heading(p, "budget_exhausted", proc[p].version)
  <2>1. "budget_exhausted" \in Status
    BY DEF Status, Terminal
  <2>2. state \in Process /\ Is(state, "moving", proc[p].token, proc[p].version,
                                proc[p].plan, "budget_exhausted")
    BY <1>1, <2>1, HeadingIs
  <2> HIDE DEF state
  <2>3. state.at = "moving" /\ state.version = proc[p].version /\ state.token = proc[p].token
    BY <2>2 DEF Is
  <2> QED
    BY <1>1, <1>2, <2>2, <2>3 DEF state, Keeps, rows
<1>3. CASE /\ UNCHANGED mission /\ Current(proc[p].token)
           /\ Goto(p, [proc[p] EXCEPT !.at = "starting", !.version = 0])
  <2> DEFINE state == [proc[p] EXCEPT !.at = "starting", !.version = 0]
  <2>1. "starting" \in Places /\ 0 \in Nat
    BY DEF Places
  <2>2. state \in Process
    BY <1>1, <2>1 DEF Process
  <2>3. /\ state.at = "starting" /\ state.version = 0 /\ state.token = proc[p].token
        /\ state.plan = proc[p].plan /\ state.step = proc[p].step /\ state.n = proc[p].n
    BY <1>1 DEF Process
  <2> HIDE DEF state
  <2> QED
    BY <1>1, <1>3, <2>2, <2>3 DEF state, Keeps, rows
<1>4. CASE mission' = Quarantined /\ Goto(p, Raised(p))
  BY <1>1, <1>4, OverIs
<1> QED
  BY <1>2, <1>3, <1>4 DEF Compile

LEMMA StartDoes ==
    ASSUME TypeOK, PlansFit, NEW p \in Processes, Start(p)
    PROVE  /\ proc[p].at = "starting" /\ Current(proc[p].token)
           /\ StartAttempt(proc[p].token, proc[p].plan, proc[p].step, proc[p].n)
           /\ UNCHANGED <<mission, plans>>
           /\ \E state \in Process :
                 /\ Goto(p, state) /\ Keeps(p, state)
                 /\ state.at = "executing" /\ state.version = proc[p].version
<1> DEFINE n == Len(attempts')
           state == [proc[p] EXCEPT !.at = "executing", !.n = n]
<1>1. /\ proc[p].at = "starting" /\ Goto(p, state)
      /\ StartAttempt(proc[p].token, proc[p].plan, proc[p].step, proc[p].n)
      /\ Current(proc[p].token) /\ UNCHANGED <<mission, plans>>
  BY DEF Start, StartAttempt
<1>2. n \in Nat
  BY <1>1, StartTyped DEF Picking
<1>3. proc[p] \in Process /\ "executing" \in Places
  BY DEF TypeOK, Places
<1> HIDE DEF n
<1>4. state \in Process
  BY <1>2, <1>3 DEF Process
<1>5. /\ state.at = "executing" /\ state.version = proc[p].version
      /\ state.token = proc[p].token
  BY <1>3 DEF Process
<1> HIDE DEF state
<1> QED
  BY <1>1, <1>4, <1>5 DEF Keeps

LEMMA ObserveDoes ==
    ASSUME TypeOK, NEW p \in Processes, NEW status \in AttemptStatus, Observe(p, status)
    PROVE  /\ proc[p].at = "executing" /\ Current(proc[p].token) /\ proc[p].n \in Nat
           /\ CompleteAttempt(proc[p].token, proc[p].n, status)
           /\ UNCHANGED <<mission, plans>>
           /\ \E state \in Process :
                 /\ Goto(p, state) /\ Keeps(p, state)
                 /\ state.at = "observed" /\ state.version = proc[p].version
<1> DEFINE state == [proc[p] EXCEPT !.at = "observed"]
<1>1. /\ proc[p].at = "executing" /\ Goto(p, state)
      /\ CompleteAttempt(proc[p].token, proc[p].n, status)
      /\ Current(proc[p].token) /\ UNCHANGED <<mission, plans>>
  BY DEF Observe, CompleteAttempt
<1>2. proc[p] \in Process /\ "observed" \in Places /\ proc[p].n \in Nat
  BY DEF TypeOK, Places, Process
<1>3. state \in Process
  BY <1>2 DEF Process
<1>4. /\ state.at = "observed" /\ state.version = proc[p].version
      /\ state.token = proc[p].token
  BY <1>2 DEF Process
<1> HIDE DEF state
<1> QED
  BY <1>1, <1>2, <1>3, <1>4 DEF Keeps

LEMMA RefreshDoes ==
    ASSUME TypeOK, NEW p \in Processes, Refresh(p)
    PROVE  /\ UNCHANGED rows
           /\ \E state \in Process :
                 /\ Goto(p, state) /\ Keeps(p, state)
                 /\ state.at = "counting" /\ state.version = mission.version
<1> DEFINE version == mission.version
           state == [proc[p] EXCEPT !.at = "counting", !.version = version]
<1>1. Goto(p, state) /\ UNCHANGED rows
  BY DEF Refresh, rows
<1>2. proc[p] \in Process /\ "counting" \in Places /\ version \in Nat
  BY RowTyped DEF TypeOK, Places
<1> HIDE DEF version
<1>3. state \in Process
  BY <1>2 DEF Process
<1>4. /\ state.at = "counting" /\ state.version = version
      /\ state.token = proc[p].token
  BY <1>2 DEF Process
<1> HIDE DEF state
<1> QED
  BY <1>1, <1>3, <1>4 DEF Keeps, version

LEMMA CountUsageDoes ==
    ASSUME TypeOK, NEW p \in Processes, CountUsage(p)
    PROVE  /\ proc[p].at = "counting" /\ Current(proc[p].token)
           /\ UNCHANGED <<plans, attempts>>
           /\ mission' \in MissionRow /\ mission'.version = mission.version + 1
           /\ mission'.proof = NoProof
           /\ mission'.status = mission.status /\ mission'.plan = mission.plan
           /\ mission'.fence = mission.fence /\ mission'.owner = mission.owner
           /\ mission'.canonical = mission.canonical
           /\ \E state \in Process :
                 /\ Goto(p, state) /\ Keeps(p, state)
                 /\ state.at \in Over \cup {"moving", "ready"}
                 /\ state.version <= mission'.version
                 /\ state.at = "ready" => mission.status = "running"
<1> DEFINE version == mission'.version
<1>1. /\ proc[p].at = "counting" /\ Current(proc[p].token) /\ UNCHANGED <<plans, attempts>>
  BY DEF CountUsage, CanTouch
<1>2. PICK spent \in {mission.spent, TRUE} : mission' = [Touched EXCEPT !.spent = spent]
  BY DEF CountUsage
<1>3. spent \in BOOLEAN /\ Touched \in MissionRow
  BY RowTyped, TouchedTyped DEF MissionRow
<1>4. mission' \in MissionRow
  BY <1>2, <1>3 DEF MissionRow
<1>5. /\ mission'.version = mission.version + 1 /\ mission'.proof = NoProof
      /\ mission'.status = mission.status /\ mission'.plan = mission.plan
      /\ mission'.fence = mission.fence /\ mission'.owner = mission.owner
      /\ mission'.canonical = mission.canonical
  BY <1>2, <1>3, TouchedTyped DEF MissionRow
<1>6. version \in Nat
  BY <1>4 DEF MissionRow
<1>7. PICK state \in Verdict(p, version) : Goto(p, state)
  BY DEF CountUsage
<1>8. \/ state = Ended(p)
      \/ state = Working(p, "ready", version) /\ mission.status = "running"
      \/ \E target \in Status : state = Heading(p, target, version)
  <2>1. {"waiting_approval", "failed", "retry_wait", "budget_exhausted", "replanning"}
           \subseteq Status
    BY DEF Status, Terminal
  <2>2. ReplanTarget \in Status
    BY <2>1 DEF ReplanTarget
  <2> DEFINE row == attempts[proc[p].n]
  <2>3. CASE row.status = "succeeded"
    <3>1. Verdict(p, version) = {IF mission.status = "running" THEN Working(p, "ready", version)
                                 ELSE Ended(p)}
      BY <2>3 DEF Verdict
    <3> QED
      BY <1>7, <3>1
  <2>4. CASE row.status = "waiting_approval"
    <3>1. Verdict(p, version) = {Heading(p, "waiting_approval", version)}
      BY <2>4 DEF Verdict
    <3> QED
      BY <1>7, <2>1, <3>1
  <2>5. CASE row.status \notin {"succeeded", "waiting_approval"}
    <3>1. Verdict(p, version)
            = {Heading(p, ReplanTarget, version), Heading(p, "failed", version)} \cup
              {Heading(p, "retry_wait", version) : k \in 1..(MaxAttempts - row.attempt)}
      BY <2>5 DEF Verdict
    <3> QED
      BY <1>7, <2>1, <2>2, <3>1
  <2> QED
    BY <2>3, <2>4, <2>5
<1> HIDE DEF version
<1>9. /\ state \in Process /\ Keeps(p, state)
      /\ state.at \in Over \cup {"moving", "ready"}
      /\ state.version <= version
      /\ state.at = "ready" => mission.status = "running"
  <2>1. CASE state = Ended(p)
    BY <1>6, <2>1, OverIs DEF Over
  <2>2. CASE state = Working(p, "ready", version) /\ mission.status = "running"
    <3>1. "ready" \in Places
      BY DEF Places
    <3>2. state \in Process /\ Is(state, "ready", proc[p].token, version, proc[p].plan, "")
      BY <1>6, <2>2, <3>1, WorkingIs
    <3>3. state.at = "ready" /\ state.version = version /\ state.token = proc[p].token
      BY <3>2 DEF Is
    <3>4. state.version <= version /\ state.at \in Over \cup {"moving", "ready"}
      BY <1>6, <3>3
    <3>5. Keeps(p, state)
      BY <3>3 DEF Keeps
    <3> QED
      BY <2>2, <3>2, <3>4, <3>5
  <2>3. CASE \E target \in Status : state = Heading(p, target, version)
    <3>1. PICK target \in Status : state = Heading(p, target, version)
      BY <2>3
    <3>2. state \in Process /\ Is(state, "moving", proc[p].token, version, proc[p].plan, target)
      BY <1>6, <3>1, HeadingIs
    <3>3. state.at = "moving" /\ state.version = version /\ state.token = proc[p].token
      BY <3>2 DEF Is
    <3> QED
      BY <1>6, <3>2, <3>3 DEF Keeps
  <2> QED
    BY <1>8, <2>1, <2>2, <2>3
<1> QED
  BY <1>1, <1>4, <1>5, <1>7, <1>9 DEF version

LEMMA RaiseDoes ==
    ASSUME TypeOK, NEW p \in Processes, Raise(p)
    PROVE  /\ UNCHANGED rows
           /\ \E state \in Process :
                 /\ Goto(p, state) /\ Keeps(p, state) /\ state.at \in Over
                 /\ state.version = 0 /\ state \in {Idle, Raised(p)}
BY OverIs DEF Raise, rows

-----------------------------------------------------------------------------
(* What the other steps do.                                                  *)

LEMMA RescueDoes ==
    ASSUME TypeOK, NEW w \in Workers, Rescue(w) \/ Reread(w)
    PROVE  /\ UNCHANGED rows
           /\ \E state \in Process :
                 /\ Goto(w, state) /\ Keeps(w, state)
                 /\ state.at \in {"done", "reporting", "dying"}
                 /\ state.version <= mission.version
<1>0. w \in Processes /\ mission.version \in Nat
  BY RowTyped DEF Processes
<1>1. CASE Rescue(w)
  <2>1. PICK place \in {"done", "reporting"} : Goto(w, Resting(w, place))
    BY <1>1 DEF Rescue
  <2> DEFINE state == Resting(w, place)
  <2>2. place \in Places
    BY DEF Places
  <2>3. state \in Process /\ Is(state, place, proc[w].token, 0, 0, "")
    BY <1>0, <2>2, RestingIs
  <2> HIDE DEF state
  <2>4. state.at = place /\ state.version = 0 /\ state.token = proc[w].token
    BY <2>3 DEF Is
  <2>5. UNCHANGED rows /\ Goto(w, state)
    BY <1>1, <2>1 DEF Rescue, rows, state
  <2>6. state.version <= mission.version /\ state.at \in {"done", "reporting", "dying"}
    BY <1>0, <2>4
  <2>7. Keeps(w, state)
    BY <2>4 DEF Keeps
  <2> QED
    BY <2>3, <2>5, <2>6, <2>7
<1>2. CASE Reread(w)
  <2> DEFINE head == Heading(w, "failed", mission.version)
             state == [head EXCEPT !.at = "dying"]
  <2>1. "failed" \in Status /\ "dying" \in Places
    BY DEF Status, Terminal, Places
  <2>2. head \in Process
        /\ Is(head, "moving", proc[w].token, mission.version, proc[w].plan, "failed")
    BY <1>0, <2>1, HeadingIs
  <2>3. head.version = mission.version /\ head.token = proc[w].token
    BY <2>2 DEF Is
  <2>4. UNCHANGED rows /\ Goto(w, state)
    BY <1>2 DEF Reread, rows
  <2> HIDE DEF head
  <2>5. state \in Process /\ state.at = "dying" /\ state.version = mission.version
        /\ state.token = proc[w].token
    BY <2>1, <2>2, <2>3 DEF Process
  <2> HIDE DEF state
  <2> QED
    BY <1>0, <2>4, <2>5 DEF Keeps
<1> QED
  BY <1>1, <1>2

LEMMA ReportDoes ==
    ASSUME TypeOK, NEW w \in Workers, Report(w)
    PROVE  /\ mission' \in {mission, Quarantined} /\ UNCHANGED <<plans, attempts>>
           /\ \E state \in Process :
                 /\ Goto(w, state) /\ Keeps(w, state)
                 /\ state.at \in {"done", "failed"} /\ state.version = 0
<1>0. w \in Processes
  BY DEF Processes
<1>1. PICK place \in {"done", "failed"} : Goto(w, Resting(w, place))
  BY DEF Report
<1> DEFINE state == Resting(w, place)
<1>2. place \in Places
  BY DEF Places
<1>3. state \in Process /\ Is(state, place, proc[w].token, 0, 0, "")
  BY <1>0, <1>2, RestingIs
<1>5. /\ mission' \in {mission, Quarantined} /\ UNCHANGED <<plans, attempts>>
      /\ Goto(w, state)
  BY <1>1 DEF Report
<1> HIDE DEF state
<1>4. state.at = place /\ state.version = 0 /\ state.token = proc[w].token
  BY <1>3 DEF Is
<1> QED
  BY <1>3, <1>4, <1>5 DEF Keeps

LEMMA DieDoes ==
    ASSUME TypeOK, NEW w \in Workers, Die(w)
    PROVE  /\ proc[w].at = "dying"
           /\ \/ /\ Transition(proc[w].token, proc[w].version, proc[w].target)
                 /\ Current(proc[w].token) /\ proc[w].target \in Status
                 /\ mission' = Transitioned(proc[w].target)
                 /\ UNCHANGED <<plans, attempts>>
              \/ UNCHANGED rows
           /\ \E state \in Process :
                 /\ Goto(w, state) /\ Keeps(w, state)
                 /\ state.at \in Over /\ state.version = 0
<1>0. w \in Processes
  BY DEF Processes
<1>1. proc[w].at = "dying" /\ Goto(w, Ended(w))
  BY DEF Die
<1>2. CASE Transition(proc[w].token, proc[w].version, proc[w].target)
  <2>1. Current(proc[w].token)
    BY <1>2 DEF Transition, CanTransition
  <2> QED
    BY <1>0, <1>1, <1>2, <2>1, TransitionTyped, OverIs
<1>3. CASE UNCHANGED rows
  BY <1>0, <1>1, <1>3, OverIs
<1> QED
  BY <1>2, <1>3 DEF Die

LEMMA ReleaseDoes ==
    ASSUME TypeOK, NEW w \in Workers, Release(w)
    PROVE  mission' = Released(w) /\ UNCHANGED <<plans, attempts>> /\ Goto(w, Idle)
           /\ proc[w].at = "done"
BY DEF Release

\* The commands of an operator, and how a request with a steer goes on.
Commanded == {"pause_requested", "running", "canceled", "cancel_requested", "replanning"}

LEMMA ControlDoes ==
    ASSUME TypeOK, NEW o \in Operators, NEW command, Control(o, command)
    PROVE  /\ UNCHANGED rows
           /\ \E state \in Process :
                 /\ Goto(o, state) /\ Keeps(o, state)
                 /\ state.at = "leaving" /\ state.version = mission.version
                 /\ state.target \in Commanded
                 /\ state.target = "canceled" => mission.status = "draft"
<1> DEFINE target == CASE command = "pause"  -> "pause_requested"
                       [] command = "resume" -> "running"
                       [] OTHER -> IF mission.status = "draft" THEN "canceled"
                                   ELSE "cancel_requested"
           state == Leaving(o, target, mission.version)
<1>0. o \in Processes /\ mission.version \in Nat
  BY RowTyped DEF Processes
<1>1. target \in Commanded /\ (target = "canceled" => mission.status = "draft")
  <2>1. CASE command = "pause"
    <3>1. target = "pause_requested"
      BY <2>1
    <3> QED
      BY <3>1 DEF Commanded
  <2>2. CASE command = "resume"
    <3>1. target = "running"
      BY <2>2
    <3> QED
      BY <3>1 DEF Commanded
  <2>3. CASE command \notin {"pause", "resume"}
    <3>1. target = IF mission.status = "draft" THEN "canceled" ELSE "cancel_requested"
      BY <2>3
    <3> QED
      BY <3>1 DEF Commanded
  <2> QED
    BY <2>1, <2>2, <2>3
<1>2. Goto(o, state) /\ UNCHANGED rows
  BY DEF Control, rows
<1> HIDE DEF target
<1>3. target \in Status
  BY <1>1 DEF Commanded, Status, Terminal
<1>4. state \in Process
      /\ Is(state, "leaving", proc[o].token, mission.version, proc[o].plan, target)
  BY <1>0, <1>3, LeavingIs
<1> HIDE DEF state
<1>5. /\ state.at = "leaving" /\ state.version = mission.version /\ state.target = target
      /\ state.token = proc[o].token
  BY <1>4 DEF Is
<1> QED
  BY <1>1, <1>2, <1>4, <1>5 DEF Keeps

LEMMA SteerDoes ==
    ASSUME TypeOK, NEW o \in Operators, Steer(o)
    PROVE  /\ mission' = Touched /\ UNCHANGED <<plans, attempts>> /\ Current(0)
           /\ \E state \in Process :
                 /\ Goto(o, state) /\ Keeps(o, state)
                 /\ state.at = "steered" /\ state.version = 0
<1> DEFINE state == Resting(o, "steered")
<1>0. o \in Processes /\ "steered" \in Places
  BY DEF Processes, Places
<1>1. state \in Process /\ Is(state, "steered", proc[o].token, 0, 0, "")
  BY <1>0, RestingIs
<1>2. mission' = Touched /\ UNCHANGED <<plans, attempts>> /\ Current(0) /\ Goto(o, state)
  BY DEF Steer
<1> HIDE DEF state
<1>3. state.at = "steered" /\ state.version = 0 /\ state.token = proc[o].token
  BY <1>1 DEF Is
<1> QED
  BY <1>1, <1>2, <1>3 DEF Keeps

LEMMA SteerReplanDoes ==
    ASSUME TypeOK, NEW o \in Operators, SteerReplan(o)
    PROVE  /\ UNCHANGED rows
           /\ \E state \in Process :
                 /\ Goto(o, state) /\ Keeps(o, state)
                 /\ \/ state = Idle
                    \/ /\ state.at = "moving" /\ state.target = "replanning"
                       /\ state.version = mission.version
<1>0. o \in Processes /\ mission.version \in Nat /\ "replanning" \in Status
  BY RowTyped DEF Processes, Status
<1>1. UNCHANGED rows
  BY DEF SteerReplan, rows
<1>2. CASE Goto(o, Idle)
  BY <1>1, <1>2, IdleTyped DEF Keeps
<1>3. CASE Goto(o, Heading(o, "replanning", mission.version))
  <2> DEFINE state == Heading(o, "replanning", mission.version)
  <2>1. state \in Process
        /\ Is(state, "moving", proc[o].token, mission.version, proc[o].plan, "replanning")
    BY <1>0, HeadingIs
  <2>2. Goto(o, state)
    BY <1>3
  <2> HIDE DEF state
  <2>3. /\ state.at = "moving" /\ state.version = mission.version
        /\ state.target = "replanning" /\ state.token = proc[o].token
    BY <2>1 DEF Is
  <2> QED
    BY <1>1, <2>1, <2>2, <2>3 DEF Keeps
<1> QED
  BY <1>2, <1>3 DEF SteerReplan

-----------------------------------------------------------------------------
(* Types, plans and tokens.                                                  *)

BoundsTyped ==
    /\ workerEnabled \in BOOLEAN
    /\ crashes \in 0..MaxCrashes
    /\ stalls \in 0..MaxStalls
    /\ commands \in 0..MaxCommands

\* The plans that were saved stay.
PlansKept ==
    /\ plans' \in [1..MaxPlanVersions -> Plan \cup {NoPlan}]
    /\ mission.plan <= mission'.plan
    /\ \A v \in 1..mission.plan : plans'[v] = plans[v]
    /\ \A v \in 1..MaxPlanVersions : v > mission'.plan => plans'[v] = NoPlan

\* A step of one process that claims nothing.
LEMMA OneStep ==
    ASSUME IInv, BoundsTyped', NEW p \in Processes, NEW state \in Process,
           Goto(p, state), Keeps(p, state),
           p \in Workers => proc[p].at /= "idle" \/ state.at = "idle",
           mission' \in MissionRow, mission'.fence = mission.fence,
           mission'.owner \in {mission.owner, NoWorker},
           PlansKept, attempts' \in Seq(AttemptRow),
           state.at \in Picking => /\ state.plan \in 1..mission'.plan
                                   /\ state.step \in DOMAIN plans'[state.plan]
    PROVE  IInv'
<1>0. TypeOK /\ mission.plan \in 0..MaxPlanVersions /\ mission'.plan \in 0..MaxPlanVersions
      /\ MaxPlanVersions \in Nat
  BY RowTyped DEF IInv, MissionRow
<1>1. /\ proc' \in [Processes -> Process] /\ proc'[p] = state
      /\ \A x \in Processes \ {p} : proc'[x] = proc[x]
  BY <1>0, GotoTyped
<1>2. TypeOK'
  BY <1>1 DEF TypeOK, StoreTypeOK, BoundsTyped, PlansKept
<1>3. PlansFit'
  <2>1. ASSUME NEW x \in Processes \ {p}, proc[x].at \in Picking
        PROVE  /\ proc[x].plan \in 1..mission'.plan
               /\ proc[x].step \in DOMAIN plans'[proc[x].plan]
    <3>1. proc[x].plan \in 1..mission.plan /\ proc[x].step \in DOMAIN plans[proc[x].plan]
      BY <2>1 DEF IInv, PlansFit
    <3>2. plans'[proc[x].plan] = plans[proc[x].plan]
      BY <3>1 DEF PlansKept
    <3>3. proc[x].plan \in 1..mission'.plan
      BY <1>0, <3>1 DEF PlansKept
    <3> QED
      BY <3>1, <3>2, <3>3
  <2> QED
    BY <1>1, <2>1 DEF PlansFit, PlansKept
<1>4. TokensFit'
  <2>1. \A x \in Processes : proc'[x] = Idle \/ proc'[x].token = proc[x].token
    BY <1>1 DEF Keeps
  <2>2. \A w \in Workers : w \in Processes /\ w /= NoWorker
    BY NoWorkerAssumption DEF Processes
  <2>3. ASSUME NEW w \in Workers, proc'[w].at /= "idle"
        PROVE  proc[w].at /= "idle" /\ proc'[w].token = proc[w].token
    <3>1. CASE w = p
      <4>1. state.at /= "idle" /\ Idle.at = "idle"
        BY <1>1, <2>3, <3>1 DEF Idle
      <4>2. state.token = proc[p].token
        BY <4>1 DEF Keeps
      <4> QED
        BY <1>1, <3>1, <4>1, <4>2
    <3>2. CASE w /= p
      BY <1>1, <2>2, <2>3, <3>2
    <3> QED
      BY <3>1, <3>2
  <2>4. OneFencedWriter'
    <3>1. OneFencedWriter
      BY DEF IInv, TokensFit
    <3>2. \A w \in Workers : mission'.owner = w => mission.owner = w
      BY <2>2
    <3> SUFFICES ASSUME NEW w \in Workers
                 PROVE  /\ proc'[w].at /= "idle" => proc'[w].token \in 1..mission'.fence
                        /\ proc'[w].at /= "idle" /\ mission'.owner = w
                              => proc'[w].token = mission'.fence
                        /\ \A x \in Workers \ {w} :
                              proc'[w].at /= "idle" /\ proc'[x].at /= "idle"
                                 => proc'[w].token /= proc'[x].token
      BY DEF OneFencedWriter
    <3>3. proc'[w].at /= "idle" => proc'[w].token \in 1..mission'.fence
      BY <2>3, <3>1 DEF OneFencedWriter
    <3>4. proc'[w].at /= "idle" /\ mission'.owner = w => proc'[w].token = mission'.fence
      BY <2>3, <3>1, <3>2 DEF OneFencedWriter
    <3>5. ASSUME NEW x \in Workers \ {w}, proc'[w].at /= "idle", proc'[x].at /= "idle"
          PROVE  proc'[w].token /= proc'[x].token
      BY <2>3, <3>1, <3>5 DEF OneFencedWriter
    <3> QED
      BY <3>3, <3>4, <3>5
  <2>5. ASSUME NEW x \in Processes \ Workers
        PROVE  proc'[x].token = 0
    <3>1. proc[x].token = 0 /\ Idle.token = 0
      BY DEF IInv, TokensFit, Idle
    <3> QED
      BY <2>1, <3>1
  <2> QED
    BY <2>4, <2>5 DEF TokensFit
<1> QED
  BY <1>2, <1>3, <1>4 DEF IInv

\* The same, when no plan is saved.
LEMMA OneStepSamePlan ==
    ASSUME IInv, BoundsTyped', NEW p \in Processes, NEW state \in Process,
           Goto(p, state), Keeps(p, state),
           p \in Workers => proc[p].at /= "idle" \/ state.at = "idle",
           mission' \in MissionRow, mission'.fence = mission.fence,
           mission'.owner \in {mission.owner, NoWorker},
           mission'.plan = mission.plan, UNCHANGED plans, attempts' \in Seq(AttemptRow),
           state.at \in Picking => /\ state.plan \in 1..mission.plan
                                   /\ state.step \in DOMAIN plans[state.plan]
    PROVE  IInv'
<1>1. PlansKept
  BY RowTyped DEF IInv, TypeOK, StoreTypeOK, PlansFit, PlansKept
<1> QED
  BY <1>1, OneStep

\* The same, when nothing is written.
LEMMA OneStepQuiet ==
    ASSUME IInv, BoundsTyped', NEW p \in Processes, NEW state \in Process,
           Goto(p, state), Keeps(p, state),
           p \in Workers => proc[p].at /= "idle" \/ state.at = "idle",
           UNCHANGED rows,
           state.at \in Picking => /\ state.plan \in 1..mission.plan
                                   /\ state.step \in DOMAIN plans[state.plan]
    PROVE  IInv'
<1>1. /\ mission' \in MissionRow /\ mission' = mission /\ UNCHANGED plans
      /\ attempts' \in Seq(AttemptRow)
  BY DEF rows, IInv, TypeOK, StoreTypeOK
<1> QED
  BY <1>1, OneStepSamePlan

LEMMA RunsTyped ==
    ASSUME IInv, NEW p \in Processes, Runs(p)
    PROVE  IInv'
<1>0. /\ TypeOK /\ PlansFit /\ mission \in MissionRow /\ attempts \in Seq(AttemptRow)
      /\ mission.plan \in 0..MaxPlanVersions
  BY RowTyped DEF IInv, TypeOK, StoreTypeOK
<1>1. BoundsTyped'
  BY DEF Runs, Begin, Move, MakePlan, Replanned, Look, Prove, SetStep, Compile, Start,
         Observe, Refresh, CountUsage, Raise, bounds, IInv, TypeOK, BoundsTyped
<1>2. proc[p].at /= "idle"
  BY DEF Runs, Begin, Move, MakePlan, Replanned, Look, Prove, SetStep, Compile, Start,
         Observe, Refresh, CountUsage, Raise, Raises
<1>3. CASE Begin(p) \/ Replanned(p) \/ Refresh(p) \/ Raise(p)
  <2>1. PICK state \in Process :
           /\ Goto(p, state) /\ Keeps(p, state) /\ UNCHANGED rows
           /\ state.at \notin Picking
    BY <1>0, <1>3, BeginDoes, ReplannedDoes, RefreshDoes, RaiseDoes DEF Over, Picking
  <2> QED
    BY <1>1, <1>2, <2>1, OneStepQuiet
<1>4. CASE Move(p)
  <2>1. PICK state \in Process :
           Goto(p, state) /\ Keeps(p, state) /\ state.at \notin Picking
    BY <1>0, <1>4, MoveDoes DEF Over, Picking
  <2>2. /\ mission' = Transitioned(proc[p].target) /\ proc[p].target \in Status
        /\ UNCHANGED <<plans, attempts>>
    BY <1>0, <1>4, MoveDoes
  <2>3. /\ mission' \in MissionRow /\ mission'.plan = mission.plan
        /\ mission'.fence = mission.fence /\ mission'.owner \in {mission.owner, NoWorker}
    BY <1>0, <2>2, TransitionedTyped
  <2> QED
    BY <1>0, <1>1, <1>2, <2>1, <2>2, <2>3, OneStepSamePlan
<1>5. CASE MakePlan(p)
  <2>1. PICK state \in Process :
           Goto(p, state) /\ Keeps(p, state) /\ state.at \notin Picking
    BY <1>0, <1>5, MakePlanDoes DEF Picking
  <2>2. PICK plan \in Plan, version \in Nat : SavePlan(proc[p].token, version, plan)
    BY <1>0, <1>5, MakePlanDoes
  <2>3. /\ mission' \in MissionRow /\ mission'.fence = mission.fence
        /\ mission'.owner = mission.owner /\ UNCHANGED attempts
    BY <1>0, <2>2, SavePlanTyped
  <2>4. PlansKept
    <3>1. /\ plans' \in [1..MaxPlanVersions -> Plan \cup {NoPlan}]
          /\ mission'.plan = mission.plan + 1
          /\ \A v \in 1..MaxPlanVersions \ {mission.plan + 1} : plans'[v] = plans[v]
      BY <1>0, <2>2, SavePlanTyped
    <3> QED
      BY <1>0, <3>1, RowTyped DEF PlansFit, PlansKept
  <2> QED
    BY <1>0, <1>1, <1>2, <2>1, <2>3, <2>4, OneStep
<1>6. CASE Look(p)
  <2>1. PICK state \in Process :
           /\ Goto(p, state) /\ Keeps(p, state) /\ UNCHANGED rows
           /\ state.at \in Picking => /\ state.plan = mission.plan /\ mission.plan > 0
                                      /\ state.step \in DOMAIN plans[mission.plan]
    BY <1>0, <1>6, LookDoes DEF Over, Picking
  <2>2. state.at \in Picking => /\ state.plan \in 1..mission.plan
                                /\ state.step \in DOMAIN plans[state.plan]
    BY <1>0, <2>1
  <2> QED
    BY <1>1, <1>2, <2>1, <2>2, OneStepQuiet
<1>7. CASE Prove(p) \/ CountUsage(p)
  <2>1. PICK state \in Process :
           Goto(p, state) /\ Keeps(p, state) /\ state.at \notin Picking
    BY <1>0, <1>7, ProveDoes, CountUsageDoes DEF Over, Picking
  <2>2. /\ mission' \in MissionRow /\ mission'.plan = mission.plan
        /\ mission'.fence = mission.fence /\ mission'.owner = mission.owner
        /\ UNCHANGED <<plans, attempts>>
    BY <1>0, <1>7, ProveDoes, CountUsageDoes
  <2> QED
    BY <1>0, <1>1, <1>2, <2>1, <2>2, OneStepSamePlan
<1>8. CASE SetStep(p)
  <2>1. PICK state \in Process :
           /\ Goto(p, state) /\ Keeps(p, state)
           /\ state.plan = proc[p].plan /\ state.step = proc[p].step
    BY <1>0, <1>8, SetStepDoes
  <2>2. /\ mission' = Touched /\ UNCHANGED <<plans, attempts>>
        /\ proc[p].at = "stepping"
    BY <1>0, <1>8, SetStepDoes
  <2>3. state.plan \in 1..mission.plan /\ state.step \in DOMAIN plans[state.plan]
    BY <1>0, <2>1, <2>2 DEF PlansFit, Picking
  <2>4. /\ mission' \in MissionRow /\ mission'.plan = mission.plan
        /\ mission'.fence = mission.fence /\ mission'.owner = mission.owner
    BY <1>0, <2>2, TouchedTyped
  <2> QED
    BY <1>0, <1>1, <1>2, <2>1, <2>2, <2>3, <2>4, OneStepSamePlan
<1>9. CASE Compile(p)
  <2>1. PICK state \in Process :
           /\ Goto(p, state) /\ Keeps(p, state)
           /\ mission' \in {mission, Quarantined} /\ UNCHANGED <<plans, attempts>>
           /\ state.at \in Picking => /\ state.plan = proc[p].plan
                                      /\ state.step = proc[p].step
    BY <1>0, <1>9, CompileDoes DEF Over, Picking, rows
  <2>2. proc[p].at \in Picking
    BY <1>0, <1>9, CompileDoes DEF Picking
  <2>3. state.at \in Picking => /\ state.plan \in 1..mission.plan
                                /\ state.step \in DOMAIN plans[state.plan]
    BY <1>0, <2>1, <2>2 DEF PlansFit
  <2>4. /\ mission' \in MissionRow /\ mission'.plan = mission.plan
        /\ mission'.fence = mission.fence /\ mission'.owner = mission.owner
    BY <1>0, <2>1, QuarantinedTyped
  <2> QED
    BY <1>0, <1>1, <1>2, <2>1, <2>3, <2>4, OneStepSamePlan
<1>10. CASE Start(p)
  <2>1. PICK state \in Process :
           Goto(p, state) /\ Keeps(p, state) /\ state.at \notin Picking
    BY <1>0, <1>10, StartDoes DEF Picking
  <2>2. UNCHANGED <<mission, plans>> /\ attempts' \in Seq(AttemptRow)
    BY <1>0, <1>10, StartDoes, StartTyped DEF Picking
  <2> QED
    BY <1>0, <1>1, <1>2, <2>1, <2>2, OneStepSamePlan
<1>11. CASE \E status \in AttemptStatus \ {"running"} : Observe(p, status)
  <2>1. PICK status \in AttemptStatus : Observe(p, status)
    BY <1>11
  <2>2. PICK state \in Process :
           Goto(p, state) /\ Keeps(p, state) /\ state.at \notin Picking
    BY <1>0, <2>1, ObserveDoes DEF Picking
  <2>3. UNCHANGED <<mission, plans>> /\ attempts' \in Seq(AttemptRow)
    BY <1>0, <2>1, ObserveDoes, CompleteTyped
  <2> QED
    BY <1>0, <1>1, <1>2, <2>2, <2>3, OneStepSamePlan
<1> QED
  BY <1>3, <1>4, <1>5, <1>6, <1>7, <1>8, <1>9, <1>10, <1>11 DEF Runs

-----------------------------------------------------------------------------
(* The other steps.                                                          *)

LEMMA WorksTyped ==
    ASSUME IInv, NEW w \in Workers, Works(w)
    PROVE  IInv'
<1>0. /\ TypeOK /\ w \in Processes /\ mission \in MissionRow /\ attempts \in Seq(AttemptRow)
  BY DEF IInv, TypeOK, StoreTypeOK, Processes
<1>1. CASE Runs(w)
  BY <1>0, <1>1, RunsTyped
<1>2. CASE Rescue(w) \/ Reread(w)
  <2>1. BoundsTyped' /\ proc[w].at /= "idle"
    BY <1>2 DEF Rescue, Reread, bounds, IInv, TypeOK, BoundsTyped
  <2>2. PICK state \in Process :
           /\ Goto(w, state) /\ Keeps(w, state) /\ UNCHANGED rows
           /\ state.at \notin Picking
    BY <1>0, <1>2, RescueDoes DEF Picking
  <2> QED
    BY <1>0, <2>1, <2>2, OneStepQuiet
<1>3. CASE Report(w)
  <2>1. BoundsTyped' /\ proc[w].at /= "idle"
    BY <1>3 DEF Report, bounds, IInv, TypeOK, BoundsTyped
  <2>2. PICK state \in Process :
           Goto(w, state) /\ Keeps(w, state) /\ state.at \notin Picking
    BY <1>0, <1>3, ReportDoes DEF Picking
  <2>3. /\ mission' \in MissionRow /\ mission'.plan = mission.plan
        /\ mission'.fence = mission.fence /\ mission'.owner = mission.owner
        /\ UNCHANGED <<plans, attempts>>
    BY <1>0, <1>3, ReportDoes, QuarantinedTyped
  <2> QED
    BY <1>0, <2>1, <2>2, <2>3, OneStepSamePlan
<1>4. CASE Die(w)
  <2>1. BoundsTyped' /\ proc[w].at /= "idle"
    BY <1>4 DEF Die, bounds, IInv, TypeOK, BoundsTyped
  <2>2. PICK state \in Process :
           Goto(w, state) /\ Keeps(w, state) /\ state.at \notin Picking
    BY <1>0, <1>4, DieDoes DEF Over, Picking
  <2>3. /\ mission' \in MissionRow /\ mission'.plan = mission.plan
        /\ mission'.fence = mission.fence /\ mission'.owner \in {mission.owner, NoWorker}
        /\ UNCHANGED <<plans, attempts>>
    BY <1>0, <1>4, DieDoes, TransitionedTyped DEF rows
  <2> QED
    BY <1>0, <2>1, <2>2, <2>3, OneStepSamePlan
<1>5. CASE Release(w)
  <2>1. BoundsTyped'
    BY <1>5 DEF Release, bounds, IInv, TypeOK, BoundsTyped
  <2>2. /\ Idle \in Process /\ Keeps(w, Idle) /\ Idle.at = "idle" /\ Idle.at \notin Picking
    BY IdleTyped DEF Idle, Keeps, Picking
  <2>3. /\ mission' \in MissionRow /\ mission'.plan = mission.plan
        /\ mission'.fence = mission.fence /\ mission'.owner \in {mission.owner, NoWorker}
        /\ UNCHANGED <<plans, attempts>> /\ Goto(w, Idle)
    BY <1>0, <1>5, ReleaseDoes, ReleasedTyped
  <2> QED
    BY <1>0, <2>1, <2>2, <2>3, OneStepSamePlan
<1> QED
  BY <1>1, <1>2, <1>3, <1>4, <1>5 DEF Works

\* A claim is the one step that hands out a token: the next one.
LEMMA ClaimTyped ==
    ASSUME IInv, NEW w \in Workers, Claim(w)
    PROVE  /\ IInv'
           /\ mission' = Claimed(w) /\ UNCHANGED <<plans, attempts>>
           /\ \E state \in Process :
                 /\ Goto(w, state) /\ state.at = "run" /\ state.version = 0
                 /\ state.token = mission.fence + 1
<1>0. /\ TypeOK /\ w \in Processes /\ w /= NoWorker /\ mission.fence \in Nat
      /\ mission \in MissionRow
  BY RowTyped, NoWorkerAssumption DEF IInv, Processes, TypeOK, StoreTypeOK
<1>1. /\ mission' \in MissionRow /\ mission'.fence = mission.fence + 1
      /\ mission'.owner = w /\ mission'.plan = mission.plan
      /\ mission' = Claimed(w) /\ UNCHANGED <<plans, attempts, bounds>>
  BY <1>0, ClaimedTyped DEF Claim
<1> DEFINE token == mission'.fence
           state == [Idle EXCEPT !.at = "run", !.token = token]
<1>2. Goto(w, state)
  BY DEF Claim
<1>3. token \in Nat /\ "run" \in Places
  BY <1>0, <1>1 DEF Places
<1>4. /\ state \in Process /\ state.at = "run" /\ state.version = 0
      /\ state.token = token
  BY <1>3, IdleTyped DEF Idle, Process
<1> HIDE DEF state
<1>5. /\ proc' \in [Processes -> Process] /\ proc'[w] = state
      /\ \A x \in Processes \ {w} : proc'[x] = proc[x]
  BY <1>0, <1>2, <1>4, GotoTyped
<1>6. TypeOK'
  BY <1>0, <1>1, <1>5 DEF IInv, TypeOK, StoreTypeOK, bounds
<1>7. PlansFit'
  <2>1. state.at \notin Picking
    BY <1>4 DEF Picking
  <2> QED
    BY <1>1, <1>5, <2>1 DEF IInv, PlansFit
<1>8. TokensFit'
  <2>1. OneFencedWriter /\ \A x \in Workers : x \in Processes
    BY DEF IInv, TokensFit, Processes
  <2>2. \A x \in Workers \ {w} : proc'[x].at /= "idle" =>
            /\ proc'[x].token \in 1..mission.fence /\ mission'.owner /= x
    BY <1>1, <1>5, <2>1 DEF OneFencedWriter
  <2>3. proc'[w].token = mission.fence + 1
    BY <1>1, <1>4, <1>5
  <2>4. OneFencedWriter'
    <3> SUFFICES ASSUME NEW v \in Workers, proc'[v].at /= "idle"
                 PROVE  /\ proc'[v].token \in 1..mission'.fence
                        /\ mission'.owner = v => proc'[v].token = mission'.fence
                        /\ \A x \in Workers \ {v} :
                              proc'[x].at /= "idle" => proc'[v].token /= proc'[x].token
      BY DEF OneFencedWriter
    <3>1. proc'[v].token \in 1..mission'.fence
      BY <1>0, <1>1, <2>2, <2>3
    <3>2. mission'.owner = v => proc'[v].token = mission'.fence
      BY <1>1, <2>3
    <3>3. ASSUME NEW x \in Workers \ {v}, proc'[x].at /= "idle"
          PROVE  proc'[v].token /= proc'[x].token
      <4>1. CASE v = w
        BY <1>0, <2>2, <2>3, <3>3, <4>1
      <4>2. CASE x = w
        BY <1>0, <2>2, <2>3, <3>3, <4>2
      <4>3. CASE v /= w /\ x /= w
        <5>1. proc'[v] = proc[v] /\ proc'[x] = proc[x]
          BY <1>5, <2>1, <4>3
        <5> QED
          BY <2>1, <3>3, <5>1 DEF OneFencedWriter
      <4> QED
        BY <4>1, <4>2, <4>3
    <3> QED
      BY <3>1, <3>2, <3>3
  <2>5. ASSUME NEW x \in Processes \ Workers
        PROVE  proc'[x].token = 0
    BY <1>5 DEF IInv, TokensFit
  <2> QED
    BY <2>4, <2>5 DEF TokensFit
<1> QED
  BY <1>1, <1>2, <1>4, <1>6, <1>7, <1>8 DEF IInv

\* Nobody moves.
LEMMA StayTyped ==
    ASSUME IInv, UNCHANGED <<plans, attempts, proc>>, BoundsTyped',
           NEW leased \in BOOLEAN, mission' = [mission EXCEPT !.leased = leased]
    PROVE  IInv'
<1>1. TypeOK
  BY DEF IInv
<1>2. /\ mission' \in MissionRow /\ mission'.fence = mission.fence
      /\ mission'.owner = mission.owner /\ mission'.plan = mission.plan
  BY <1>1, LeasedTyped
<1>3. TypeOK'
  BY <1>1, <1>2 DEF TypeOK, StoreTypeOK, BoundsTyped
<1> QED
  BY <1>2, <1>3 DEF IInv, PlansFit, TokensFit, OneFencedWriter

\* A process that dies forgets everything.
LEMMA CrashTyped ==
    ASSUME IInv, NEW p \in Processes, Crash(p)
    PROVE  IInv'
<1>1. /\ Idle \in Process /\ Keeps(p, Idle) /\ Idle.at = "idle" /\ Idle.at \notin Picking
      /\ Goto(p, Idle) /\ UNCHANGED rows
  BY IdleTyped DEF Idle, Keeps, Picking, Crash, rows
<1>2. BoundsTyped'
  BY BoundsAssumption DEF Crash, IInv, TypeOK, BoundsTyped
<1> QED
  BY <1>1, <1>2, OneStepQuiet

LEMMA RunDirectTyped ==
    ASSUME IInv, NEW r \in Runners, RunDirect(r)
    PROVE  IInv'
<1>0. r \in Processes /\ r \notin Workers /\ proc[r].token = 0
  BY ProcessesAssumption DEF Processes, IInv, TokensFit
<1>1. BoundsTyped'
  BY BoundsAssumption DEF RunDirect, IInv, TypeOK, BoundsTyped
<1> DEFINE state == [Idle EXCEPT !.at = "run"]
<1>2. Goto(r, state) /\ UNCHANGED rows
  BY DEF RunDirect, rows
<1>3. "run" \in Places
  BY DEF Places
<1>4. state \in Process /\ state.at = "run" /\ state.token = 0
  BY <1>3, IdleTyped DEF Idle, Process
<1> HIDE DEF state
<1>5. Keeps(r, state) /\ state.at \notin Picking
  BY <1>0, <1>4 DEF Keeps, Picking
<1> QED
  BY <1>0, <1>1, <1>2, <1>4, <1>5, OneStepQuiet

LEMMA OperatesTyped ==
    ASSUME IInv, NEW o \in Operators, Operates(o)
    PROVE  IInv'
<1>0. /\ TypeOK /\ o \in Processes /\ o \notin Workers
      /\ mission \in MissionRow /\ attempts \in Seq(AttemptRow)
  BY ProcessesAssumption DEF Processes, IInv, TypeOK, StoreTypeOK
<1>1. CASE \E command \in Commands \ {"steer"} : Control(o, command)
  <2>1. PICK command : Control(o, command)
    BY <1>1
  <2>2. BoundsTyped'
    BY <2>1, BoundsAssumption DEF Control, IInv, TypeOK, BoundsTyped
  <2>3. PICK state \in Process :
           /\ Goto(o, state) /\ Keeps(o, state) /\ UNCHANGED rows
           /\ state.at \notin Picking
    BY <1>0, <2>1, ControlDoes DEF Picking
  <2> QED
    BY <1>0, <2>2, <2>3, OneStepQuiet
<1>2. CASE Steer(o)
  <2>1. BoundsTyped'
    BY <1>2, BoundsAssumption DEF Steer, IInv, TypeOK, BoundsTyped
  <2>2. PICK state \in Process :
           Goto(o, state) /\ Keeps(o, state) /\ state.at \notin Picking
    BY <1>0, <1>2, SteerDoes DEF Picking
  <2>3. /\ mission' \in MissionRow /\ mission'.plan = mission.plan
        /\ mission'.fence = mission.fence /\ mission'.owner = mission.owner
        /\ UNCHANGED <<plans, attempts>>
    BY <1>0, <1>2, SteerDoes, TouchedTyped
  <2> QED
    BY <1>0, <2>1, <2>2, <2>3, OneStepSamePlan
<1>3. CASE SteerReplan(o)
  <2>1. BoundsTyped'
    BY <1>3 DEF SteerReplan, bounds, IInv, TypeOK, BoundsTyped
  <2>2. PICK state \in Process :
           Goto(o, state) /\ Keeps(o, state) /\ state.at \notin Picking /\ UNCHANGED rows
    BY <1>0, <1>3, SteerReplanDoes DEF Picking, Idle
  <2> QED
    BY <1>0, <2>1, <2>2, OneStepQuiet
<1>4. CASE Move(o) \/ MakePlan(o) \/ Replanned(o) \/ Raise(o)
  BY <1>0, <1>4, RunsTyped DEF Runs
<1> QED
  BY <1>1, <1>2, <1>3, <1>4 DEF Operates, Finishes

LEMMA HeartbeatTyped ==
    ASSUME IInv, (\E w \in Workers : Heartbeat(w)) \/ Expire
    PROVE  IInv'
<1>1. CASE \E w \in Workers : Heartbeat(w)
  <2>1. /\ UNCHANGED <<plans, attempts, proc>> /\ BoundsTyped'
        /\ mission' = [mission EXCEPT !.leased = TRUE]
    BY <1>1 DEF Heartbeat, bounds, IInv, TypeOK, BoundsTyped
  <2> QED
    BY <2>1, StayTyped
<1>2. CASE Expire
  <2>1. /\ UNCHANGED <<plans, attempts, proc>> /\ BoundsTyped'
        /\ mission' = [mission EXCEPT !.leased = FALSE]
    BY <1>2, BoundsAssumption DEF Expire, IInv, TypeOK, BoundsTyped
  <2> QED
    BY <2>1, StayTyped
<1> QED
  BY <1>1, <1>2

LEMMA Init0 == Init => IInv
<1> SUFFICES ASSUME Init PROVE IInv
  OBVIOUS
<1>1. /\ mission = [status |-> "draft", version |-> 1, plan |-> 0,
                    spent |-> FALSE, canonical |-> TRUE, fence |-> 0,
                    owner |-> NoWorker, leased |-> FALSE, proof |-> NoProof]
      /\ plans = [v \in 1..MaxPlanVersions |-> NoPlan] /\ attempts = <<>>
      /\ proc = [p \in Processes |-> Idle]
  BY DEF Init, StoreInit
<1>2. NoProof \in [version : Nat, passed : BOOLEAN]
  BY DEF NoProof
<1>3. "draft" \in Status /\ 0 \in 0..MaxPlanVersions
  BY MaxPlanVersionsAssumption DEF Status
<1>4. mission \in MissionRow
  BY <1>1, <1>2, <1>3 DEF MissionRow
<1>5. /\ plans \in [1..MaxPlanVersions -> Plan \cup {NoPlan}]
      /\ attempts \in Seq(AttemptRow)
  BY <1>1
<1>6. proc \in [Processes -> Process]
  BY <1>1, IdleTyped
<1>7. crashes \in 0..MaxCrashes /\ stalls \in 0..MaxStalls /\ commands \in 0..MaxCommands
      /\ workerEnabled \in BOOLEAN
  BY BoundsAssumption DEF Init
<1>8. \A p \in Processes : proc[p].at = "idle" /\ proc[p].token = 0
  BY <1>1 DEF Idle
<1>9. PlansFit
  BY <1>1, <1>8 DEF PlansFit, Picking
<1>10. TokensFit
  <2>1. \A w \in Workers : proc[w].at = "idle"
    BY <1>8 DEF Processes
  <2> QED
    BY <1>8, <2>1 DEF TokensFit, OneFencedWriter
<1> QED
  BY <1>4, <1>5, <1>6, <1>7, <1>9, <1>10 DEF IInv, TypeOK, StoreTypeOK

LEMMA StutterTyped == IInv /\ UNCHANGED vars => IInv'
<1> SUFFICES ASSUME IInv, UNCHANGED vars PROVE IInv'
  OBVIOUS
<1>1. TypeOK'
  BY DEF IInv, TypeOK, StoreTypeOK, vars
<1>2. PlansFit' /\ TokensFit'
  BY DEF IInv, PlansFit, TokensFit, OneFencedWriter, vars
<1> QED
  BY <1>1, <1>2 DEF IInv

LEMMA NextTyped == IInv /\ [Next]_vars => IInv'
<1> SUFFICES ASSUME IInv, [Next]_vars PROVE IInv'
  OBVIOUS
<1> USE WorksTyped, ClaimTyped, HeartbeatTyped, RunDirectTyped, RunsTyped, OperatesTyped, CrashTyped, StutterTyped
<1>1. ASSUME NEW w \in Workers, Claim(w) \/ Works(w) \/ Heartbeat(w)
      PROVE  IInv'
  BY <1>1
<1>2. ASSUME NEW r \in Runners, RunDirect(r) \/ Runs(r)
      PROVE  IInv'
  <2>1. r \in Processes
    BY DEF Processes
  <2> QED
    BY <1>2, <2>1
<1>3. ASSUME NEW o \in Operators, Operates(o)
      PROVE  IInv'
  BY <1>3
<1>4. ASSUME NEW p \in Processes, Crash(p)
      PROVE  IInv'
  BY <1>4
<1>5. CASE Expire
  BY <1>5
<1>6. CASE UNCHANGED vars
  BY <1>6
<1> QED
  BY <1>1, <1>2, <1>3, <1>4, <1>5, <1>6 DEF Next

-----------------------------------------------------------------------------
(* Whoever runs the mission.                                                 *)

LEMMA Invariance == Spec => []IInv
<1>1. Init => IInv
  BY Init0
<1>2. IInv /\ [Next]_vars => IInv'
  BY NextTyped
<1> QED
  BY <1>1, <1>2, PTL DEF Spec

(* Whatever the workers, operators, plans and bounds, every row and every    *)
(* process of Mission stays within its type: no plan version above the       *)
(* budget is stored and no attempt refers to a step that its plan lacks.     *)
THEOREM TypeCorrect == Spec => []TypeOK
<1>1. IInv => TypeOK
  BY DEF IInv
<1> QED
  BY <1>1, Invariance, PTL

(* However often the mission changes hands (claims, leases that run out,     *)
(* workers that die or come back late), no two workers hold the same fencing *)
(* token and the owner of the lease holds the current one.                   *)
THEOREM FencedWriter == Spec => []OneFencedWriter
<1>1. IInv => OneFencedWriter
  BY DEF IInv, TokensFit
<1> QED
  BY <1>1, Invariance, PTL

-----------------------------------------------------------------------------
(* Who changes what.                                                         *)

Others(p) == \A x \in Processes \ {p} : proc'[x] = proc[x]

\* A step in which nobody moves.
Still == (\E w \in Workers : Heartbeat(w)) \/ Expire \/ UNCHANGED vars

LEMMA StillKeeps ==
    ASSUME Still
    PROVE  UNCHANGED <<proc, plans, attempts, workerEnabled>>
BY DEF Still, Heartbeat, Expire, vars, bounds

LEMMA RunsAlone ==
    ASSUME TypeOK, NEW p \in Processes, Runs(p) \/ Crash(p)
    PROVE  Others(p)
<1>1. CASE Begin(p) \/ Move(p) \/ MakePlan(p) \/ Replanned(p)
  BY <1>1 DEF Begin, Move, MakePlan, Replanned, Goto, Others, TypeOK
<1>2. CASE Look(p) \/ Prove(p) \/ SetStep(p) \/ Compile(p) \/ Start(p)
  BY <1>2 DEF Look, Prove, SetStep, Compile, Start, Goto, Others, TypeOK
<1>3. CASE \E status \in AttemptStatus \ {"running"} : Observe(p, status)
  BY <1>3 DEF Observe, Goto, Others, TypeOK
<1>4. CASE Refresh(p) \/ CountUsage(p) \/ Raise(p) \/ Crash(p)
  BY <1>4 DEF Refresh, CountUsage, Raise, Crash, Goto, Others, TypeOK
<1> QED
  BY <1>1, <1>2, <1>3, <1>4 DEF Runs

LEMMA StepsAlone ==
    ASSUME TypeOK, [Next]_vars
    PROVE  \/ \E p \in Processes : Crash(p) /\ Others(p)
           \/ \E w \in Workers : (Claim(w) \/ Works(w)) /\ Others(w)
           \/ \E r \in Runners : (RunDirect(r) \/ Runs(r)) /\ Others(r)
           \/ \E o \in Operators : Operates(o) /\ Others(o)
           \/ Still
<1>0. /\ \A w \in Workers : w \in Processes
      /\ \A r \in Runners : r \in Processes
      /\ \A o \in Operators : o \in Processes
  BY DEF Processes
<1>1. ASSUME NEW w \in Workers, Claim(w) \/ Works(w)
      PROVE  Others(w)
  <2>1. CASE Runs(w)
    BY <1>0, <2>1, RunsAlone
  <2>2. CASE Claim(w) \/ Rescue(w) \/ Report(w) \/ Reread(w) \/ Die(w) \/ Release(w)
    BY <2>2 DEF Claim, Rescue, Report, Reread, Die, Release, Goto, Others, TypeOK
  <2> QED
    BY <1>1, <2>1, <2>2 DEF Works
<1>2. ASSUME NEW r \in Runners, RunDirect(r) \/ Runs(r)
      PROVE  Others(r)
  <2>1. CASE Runs(r)
    BY <1>0, <2>1, RunsAlone
  <2>2. CASE RunDirect(r)
    BY <2>2 DEF RunDirect, Goto, Others, TypeOK
  <2> QED
    BY <1>2, <2>1, <2>2
<1>3. ASSUME NEW o \in Operators, Operates(o)
      PROVE  Others(o)
  <2>1. CASE Move(o) \/ MakePlan(o) \/ Replanned(o) \/ Raise(o)
    BY <1>0, <2>1, RunsAlone DEF Runs
  <2>2. CASE (\E command \in Commands \ {"steer"} : Control(o, command))
             \/ Steer(o) \/ SteerReplan(o)
    BY <2>2 DEF Control, Steer, SteerReplan, Goto, Others, TypeOK
  <2> QED
    BY <1>3, <2>1, <2>2 DEF Operates, Finishes
<1>4. ASSUME NEW p \in Processes, Crash(p)
      PROVE  Others(p)
  BY <1>4, RunsAlone
<1> QED
  BY <1>1, <1>2, <1>3, <1>4 DEF Next, Still

\* Plans are written by MakePlan only.
LEMMA PlansWritten ==
    ASSUME IInv, [Next]_vars
    PROVE  UNCHANGED plans \/ \E p \in Processes : MakePlan(p)
<1>0. /\ TypeOK
      /\ \A w \in Workers : w \in Processes
      /\ \A r \in Runners : r \in Processes
      /\ \A o \in Operators : o \in Processes
  BY DEF IInv, Processes
<1>1. ASSUME NEW p \in Processes, Runs(p)
      PROVE  UNCHANGED plans \/ MakePlan(p)
  BY <1>1 DEF Runs, Begin, Move, Replanned, Look, Prove, SetStep, Compile, Start,
              Observe, Refresh, CountUsage, Raise, Transition, RecordProof,
              StartAttempt, CompleteAttempt
<1>2. ASSUME NEW w \in Workers, Claim(w) \/ Works(w)
      PROVE  UNCHANGED plans \/ MakePlan(w)
  BY <1>0, <1>1, <1>2 DEF Works, Claim, Rescue, Report, Reread, Die, Release, Transition,
                          rows
<1>3. ASSUME NEW o \in Operators, Operates(o)
      PROVE  UNCHANGED plans \/ MakePlan(o)
  BY <1>3 DEF Operates, Finishes, Control, Steer, SteerReplan, Move, Replanned, Raise,
              Transition
<1> QED
  BY <1>0, <1>1, <1>2, <1>3, StepsAlone, StillKeeps DEF RunDirect, Crash

(* Plan versions are history for any planners, budgets and interleavings: a  *)
(* step of Mission that saves a plan (save_plan_version) adds the version    *)
(* after the last and overwrites none.                                       *)
THEOREM PlansOnlyGrow == Spec => PlansAppendOnly
<1>1. ASSUME IInv, [Next]_vars
      PROVE  \A v \in 1..MaxPlanVersions :
                plans'[v] /= plans[v] => plans[v] = NoPlan /\ v = mission.plan + 1
  <2>1. CASE UNCHANGED plans
    BY <2>1
  <2>2. ASSUME NEW p \in Processes, MakePlan(p)
        PROVE  \A v \in 1..MaxPlanVersions :
                  plans'[v] /= plans[v] => plans[v] = NoPlan /\ v = mission.plan + 1
    <3>1. PICK plan \in Plan, version \in Nat : SavePlan(proc[p].token, version, plan)
      BY <2>2, <1>1, MakePlanDoes DEF IInv
    <3> QED
      BY <1>1, <3>1, SavePlanTyped DEF IInv
  <2> QED
    BY <1>1, <2>1, <2>2, PlansWritten
<1> QED
  BY <1>1, Invariance, PTL DEF Spec, PlansAppendOnly

\* The token of a worker that lost its lease is not the current one, nor 0.
LEMMA StaleIsFenced ==
    ASSUME IInv, NEW w \in Workers, proc[w].at /= "idle", proc[w].token /= mission.fence
    PROVE  ~ Current(proc[w].token) /\ mission.owner /= w
BY DEF IInv, TokensFit, OneFencedWriter, Current

(* The fence holds for any number of workers: one that lost its lease, to a  *)
(* stall or to a later claim, and comes back writes neither plans nor        *)
(* attempts and leaves the mission as it is, unless it is to put it in       *)
(* quarantine, which is what append_event does with a stale token.           *)
THEOREM StaleWritesNothing == Spec => StaleWorkerWritesNothing
<1>1. ASSUME IInv, [Next]_vars, NEW w \in Workers, proc[w].at /= "idle",
             proc[w].token /= mission.fence, proc'[w] /= proc[w]
      PROVE  UNCHANGED <<plans, attempts>> /\ mission' \in {mission, Quarantined}
  <2>0. TypeOK /\ PlansFit /\ w \in Processes /\ ~ Current(proc[w].token) /\ mission.owner /= w
    BY <1>1, StaleIsFenced DEF IInv, Processes
  <2>1. Works(w) \/ Crash(w)
    <3>1. \A r \in Runners : r \in Processes /\ r /= w
      BY ProcessesAssumption DEF Processes
    <3>2. \A o \in Operators : o \in Processes /\ o /= w
      BY ProcessesAssumption DEF Processes
    <3>3. \A x \in Processes : x /= w => ~ Others(x)
      BY <1>1, <2>0 DEF Others
    <3>4. \A x \in Workers : x \in Processes
      BY DEF Processes
    <3>5. ~ Claim(w)
      BY <1>1 DEF Claim
    <3> QED
      BY <1>1, <2>0, <3>1, <3>2, <3>3, <3>4, <3>5, StepsAlone, StillKeeps
  <2>2. CASE Runs(w)
    <3>1. ~ Move(w) /\ ~ MakePlan(w) /\ ~ Prove(w) /\ ~ SetStep(w) /\ ~ Start(w)
      BY <2>0 DEF Move, Transition, CanTransition, MakePlan, SavePlan, CanSavePlan, Prove,
                  RecordProof, CanRecordProof, SetStep, CanTouch, Start, StartAttempt
    <3>2. ~ CountUsage(w) /\ \A status : ~ Observe(w, status)
      BY <2>0 DEF CountUsage, CanTouch, Observe, CompleteAttempt
    <3> QED
      BY <2>2, <3>1, <3>2 DEF Runs, Begin, Replanned, Look, Compile, Refresh, Raise
  <2>3. CASE Rescue(w) \/ Report(w) \/ Reread(w)
    BY <2>3 DEF Rescue, Report, Reread
  <2>4. CASE Die(w)
    BY <2>0, <2>4 DEF Die, Transition, CanTransition, rows
  <2>5. CASE Release(w)
    BY <2>0, <2>5 DEF Release, Released
  <2>6. CASE Crash(w)
    BY <2>6 DEF Crash
  <2> QED
    BY <2>1, <2>2, <2>3, <2>4, <2>5, <2>6 DEF Works
<1>2. IInv /\ [Next]_vars =>
        \A w \in Workers :
            /\ proc[w].at /= "idle"
            /\ proc[w].token /= mission.fence
            /\ proc'[w] /= proc[w]
            => /\ UNCHANGED <<plans, attempts>>
               /\ mission' \in {mission, Quarantined}
  BY <1>1
<1> QED
  BY <1>2, Invariance, PTL DEF Spec, StaleWorkerWritesNothing

-----------------------------------------------------------------------------
(* Where one kind of executor runs the mission.                              *)

Executors == Workers \cup Runners

\* A step of an executor.
Acts(e) ==
    \/ e \in Workers /\ (Claim(e) \/ Works(e))
    \/ e \in Runners /\ (RunDirect(e) \/ Runs(e))

OperatorPlaces == Over \cup {"moving", "leaving", "plan", "planned", "ready", "steered"}

\* Executors of the other kind never begin, without workers no token is handed
\* out, and operators do not work on steps.
Alone ==
    /\ OneExecutor
    /\ IF workerEnabled THEN \A r \in Runners : proc[r].at = "idle"
       ELSE mission.fence = 0 /\ \A w \in Workers : proc[w].at = "idle"
    /\ \A o \in Operators : proc[o].at \in OperatorPlaces

\* Where nobody begins, nobody moves.
LEMMA OthersRest ==
    ASSUME Alone
    PROVE  /\ workerEnabled =>
                 \A r \in Runners : ~ RunDirect(r) /\ ~ Runs(r) /\ ~ Crash(r)
           /\ ~ workerEnabled =>
                 \A w \in Workers : ~ Claim(w) /\ ~ Works(w) /\ ~ Crash(w)
<1>1. ASSUME NEW p, proc[p].at = "idle"
      PROVE  ~ Runs(p) /\ ~ Crash(p)
  BY <1>1 DEF Crash, Runs, Begin, Move, MakePlan, Replanned, Look, Prove, SetStep, Compile,
              Start, Observe, Refresh, CountUsage, Raise, Raises
<1>2. ASSUME workerEnabled, NEW r \in Runners
      PROVE  ~ RunDirect(r) /\ ~ Runs(r) /\ ~ Crash(r)
  BY <1>1, <1>2 DEF Alone, OneExecutor, RunDirect
<1>3. ASSUME ~ workerEnabled, NEW w \in Workers
      PROVE  ~ Claim(w) /\ ~ Works(w) /\ ~ Crash(w)
  BY <1>1, <1>3 DEF Alone, Claim, Works, Rescue, Report, Reread, Die, Release
<1> QED
  BY <1>2, <1>3

LEMMA ActorSteps ==
    ASSUME IInv, [Next]_vars
    PROVE  \/ \E p \in Processes : Crash(p) /\ Others(p)
           \/ \E e \in Executors : Acts(e) /\ Others(e)
           \/ \E o \in Operators : Operates(o) /\ Others(o)
           \/ Still
BY StepsAlone DEF IInv, Executors, Acts

\* A process moves by a step of its own.
LEMMA Moving ==
    ASSUME IInv, [Next]_vars, NEW x \in Processes, proc'[x] /= proc[x]
    PROVE  \/ Crash(x)
           \/ x \in Executors /\ Acts(x)
           \/ x \in Operators /\ Operates(x)
<1>1. \A p \in Processes : Others(p) => p = x
  BY DEF Others
<1>2. Executors \subseteq Processes /\ Operators \subseteq Processes
  BY DEF Executors, Processes
<1> QED
  BY <1>1, <1>2, ActorSteps, StillKeeps

\* Where an executor is that does not run the mission, or begins to.
Outside == Over \cup {"run", "reporting", "failed", "dying"}

LEMMA GoesOutside ==
    ASSUME IInv, [Next]_vars, NEW p \in Processes, ~ Runs(p),
           Crash(p) \/ (p \in Executors /\ Acts(p))
    PROVE  /\ proc'[p].at \in Outside
           /\ proc'[p].version <= mission'.version
<1>0. /\ TypeOK /\ mission'.version \in Nat
      /\ Idle \in Process /\ Idle.at = "idle" /\ Idle.version = 0
  <2>1. TypeOK /\ TypeOK'
    BY NextTyped DEF IInv
  <2> QED
    BY <2>1, IdleTyped DEF TypeOK, StoreTypeOK, MissionRow, Idle
<1>1. ASSUME NEW state \in Process, Goto(p, state), state.at \in Outside, state.version = 0
      PROVE  /\ proc'[p].at \in Outside
             /\ proc'[p].version <= mission'.version
  BY <1>0, <1>1, GotoTyped
<1>2. CASE Crash(p) \/ (p \in Workers /\ Release(p))
  BY <1>0, <1>1, <1>2 DEF Crash, Release, Outside, Over
<1>3. CASE p \in Workers /\ Claim(p)
  BY <1>1, <1>3, ClaimTyped DEF Outside
<1>4. CASE p \in Runners /\ RunDirect(p)
  <2> DEFINE state == [Idle EXCEPT !.at = "run"]
  <2>1. state \in Process /\ state.at = "run" /\ state.version = 0
    BY <1>0 DEF Process, Places
  <2>2. Goto(p, state)
    BY <1>4 DEF RunDirect
  <2> HIDE DEF state
  <2> QED
    BY <1>1, <2>1, <2>2 DEF Outside
<1>5. CASE p \in Workers /\ (Rescue(p) \/ Reread(p))
  <2>1. UNCHANGED rows
    BY <1>0, <1>5, RescueDoes
  <2>2. \E state \in Process :
           /\ Goto(p, state) /\ state.at \in {"done", "reporting", "dying"}
           /\ state.version <= mission.version
    BY <1>0, <1>5, RescueDoes
  <2> QED
    BY <1>0, <2>1, <2>2, GotoTyped DEF Outside, Over, rows
<1>6. CASE p \in Workers /\ (Report(p) \/ Die(p))
  <2>1. \E state \in Process :
           /\ Goto(p, state) /\ state.version = 0
           /\ state.at \in Over \cup {"failed"}
    BY <1>0, <1>6, ReportDoes, DieDoes DEF Over
  <2> QED
    BY <1>1, <2>1 DEF Outside
<1> HIDE <1>1
<1> QED
  BY <1>2, <1>3, <1>4, <1>5, <1>6 DEF Acts, Works

\* A worker that is awake has a token that was handed out, a direct run has none.
LEMMA TokenKnown ==
    ASSUME IInv, NEW e \in Executors, proc[e].at /= "idle"
    PROVE  proc[e].token \in 0..mission.fence
<1>0. mission.fence \in Nat
  BY RowTyped DEF IInv
<1>1. CASE e \in Workers
  BY <1>0, <1>1 DEF IInv, TokensFit, OneFencedWriter
<1>2. CASE e \in Runners
  <2>1. proc[e].token = 0
    BY <1>2, ProcessesAssumption DEF IInv, TokensFit, Processes
  <2> QED
    BY <1>0, <2>1
<1> QED
  BY <1>1, <1>2 DEF Executors

\* Who may write holds the mission: its token is the last one handed out.
LEMMA HoldsFence ==
    ASSUME IInv, Alone, NEW e \in Executors, proc[e].at /= "idle", Current(proc[e].token)
    PROVE  proc[e].token = mission.fence
<1>1. CASE workerEnabled
  <2>1. e \in Workers
    BY <1>1 DEF Alone, Executors
  <2>2. proc[e].token \in 1..mission.fence
    BY <2>1 DEF IInv, TokensFit, OneFencedWriter
  <2> QED
    BY <2>2 DEF Current
<1>2. CASE ~ workerEnabled
  BY <1>2, TokenKnown DEF Alone
<1> QED
  BY <1>1, <1>2 DEF IInv, TypeOK

\* Two executors do not both hold the mission.
LEMMA OneCurrent ==
    ASSUME IInv, Alone, NEW w \in Executors, NEW x \in Executors \ {w},
           proc[w].at /= "idle", proc[x].at /= "idle", Current(proc[w].token)
    PROVE  proc[w].token = mission.fence /\ proc[x].token /= mission.fence
<1>1. proc[w].token = mission.fence
  BY HoldsFence
<1>2. w \in Workers /\ x \in Workers
  <2>1. CASE workerEnabled
    BY <2>1 DEF Alone, Executors
  <2>2. CASE ~ workerEnabled
    BY <2>2 DEF Alone, Executors, OneExecutor
  <2> QED
    BY <2>1, <2>2 DEF IInv, TypeOK
<1> QED
  BY <1>1, <1>2 DEF IInv, TokensFit, OneFencedWriter

\* Where an operator goes.
LEMMA OperatorGoes ==
    ASSUME IInv, NEW o \in Operators, Operates(o) \/ Crash(o)
    PROVE  proc'[o].at \in OperatorPlaces
<1>0. TypeOK /\ PlansFit /\ o \in Processes /\ o \notin Workers /\ Idle.at = "idle"
  BY ProcessesAssumption DEF IInv, Processes, Idle
<1>1. CASE Crash(o)
  BY <1>0, <1>1, IdleTyped, GotoTyped DEF Crash, OperatorPlaces, Over
<1>2. CASE \E command \in Commands \ {"steer"} : Control(o, command)
  <2>1. \E state \in Process : Goto(o, state) /\ state.at = "leaving"
    BY <1>0, <1>2, ControlDoes
  <2> QED
    BY <1>0, <2>1, GotoTyped DEF OperatorPlaces
<1>3. CASE Steer(o)
  <2>1. \E state \in Process : Goto(o, state) /\ state.at = "steered"
    BY <1>0, <1>3, SteerDoes
  <2> QED
    BY <1>0, <2>1, GotoTyped DEF OperatorPlaces
<1>4. CASE SteerReplan(o)
  <2>1. \E state \in Process : Goto(o, state) /\ state.at \in {"idle", "moving"}
    BY <1>0, <1>4, SteerReplanDoes
  <2> QED
    BY <1>0, <2>1, GotoTyped DEF OperatorPlaces, Over
<1>5. CASE Move(o)
  <2>1. \E state \in Process :
           Goto(o, state) /\ state.at \in Over \cup {"plan", "moving", "ready"}
    BY <1>0, <1>5, MoveDoes
  <2> QED
    BY <1>0, <2>1, GotoTyped DEF OperatorPlaces
<1>6. CASE MakePlan(o) \/ Replanned(o)
  <2>1. \E state \in Process : Goto(o, state) /\ state.at \in {"planned", "moving", "leaving"}
    BY <1>0, <1>6, MakePlanDoes, ReplannedDoes
  <2> QED
    BY <1>0, <2>1, GotoTyped DEF OperatorPlaces
<1>7. CASE Raise(o)
  <2>1. \E state \in Process : Goto(o, state) /\ state.at \in Over
    BY <1>0, <1>7, RaiseDoes
  <2> QED
    BY <1>0, <2>1, GotoTyped DEF OperatorPlaces
<1> QED
  BY <1>1, <1>2, <1>3, <1>4, <1>5, <1>6, <1>7 DEF Operates, Finishes

-----------------------------------------------------------------------------
(* How a step changes the rows.                                              *)

\* Nothing but the lease, or the mission is put in quarantine.
Same ==
    /\ mission'.status = mission.status /\ mission'.version = mission.version
    /\ mission'.plan = mission.plan /\ mission'.proof = mission.proof
    /\ mission'.canonical \in {mission.canonical, FALSE}
    /\ UNCHANGED <<plans, attempts>>

\* The status moves by a transition that p decided on at this version.
Moved(p) ==
    /\ proc[p].at \in {"moving", "leaving", "dying"}
    /\ proc[p].version = mission.version
    /\ mission'.status = proc[p].target
    /\ mission'.status \in Allowed(mission.status)
    /\ mission'.status = "completed" => ProofCurrent
    /\ UNCHANGED plans
    /\ mission'.plan = mission.plan

\* A write of p that moves the version on.
Bumped(p) ==
    /\ Current(proc[p].token)
    /\ mission'.version = mission.version + 1
    /\ mission'.proof \in {mission.proof, NoProof}
    /\ mission'.fence = mission.fence
    /\ mission'.canonical = mission.canonical
    /\ UNCHANGED attempts
    /\ mission'.status = mission.status \/ Moved(p)

LEMMA RowsSame ==
    ASSUME UNCHANGED rows
    PROVE  Same /\ mission'.fence = mission.fence
BY DEF rows, Same

LEMMA QuarantineSame ==
    ASSUME IInv, mission' \in {mission, Quarantined}, UNCHANGED <<plans, attempts>>
    PROVE  Same /\ mission'.fence = mission.fence
BY QuarantinedTyped DEF IInv, Same

LEMMA TransitionBumps ==
    ASSUME IInv, NEW p \in Processes, proc[p].at \in {"moving", "leaving", "dying"},
           Transition(proc[p].token, proc[p].version, proc[p].target)
    PROVE  Bumped(p)
<1>1. TypeOK
  BY DEF IInv
<1>2. /\ proc[p].target \in Status /\ mission' = Transitioned(proc[p].target)
      /\ UNCHANGED <<plans, attempts>>
  BY <1>1, TransitionTyped
<1>3. /\ mission'.status = proc[p].target /\ mission'.version = mission.version + 1
      /\ mission'.proof \in {mission.proof, NoProof} /\ mission'.plan = mission.plan
      /\ mission'.fence = mission.fence /\ mission'.canonical = mission.canonical
  BY <1>1, <1>2, TransitionedTyped
<1>4. /\ Current(proc[p].token) /\ proc[p].version = mission.version
      /\ proc[p].target \in Allowed(mission.status)
      /\ proc[p].target = "completed" => ProofCurrent
  BY DEF Transition, CanTransition
<1> QED
  BY <1>2, <1>3, <1>4 DEF Bumped, Moved

LEMMA RunsWrite ==
    ASSUME IInv, NEW p \in Processes, Runs(p)
    PROVE  \/ Same /\ mission'.fence = mission.fence
           \/ Bumped(p)
           \/ Prove(p)
           \/ Start(p) \/ \E status \in AttemptStatus \ {"running"} : Observe(p, status)
<1>0. TypeOK /\ PlansFit
  BY DEF IInv
<1>1. CASE Begin(p) \/ Replanned(p) \/ Look(p) \/ Refresh(p) \/ Raise(p)
  BY <1>0, <1>1, BeginDoes, ReplannedDoes, LookDoes, RefreshDoes, RaiseDoes, RowsSame
<1>2. CASE Move(p)
  BY <1>0, <1>2, MoveDoes, TransitionBumps
<1>3. CASE MakePlan(p)
  <2>1. /\ mission'.version = mission.version + 1 /\ mission'.proof = NoProof
        /\ mission'.status = mission.status /\ mission'.fence = mission.fence
        /\ mission'.canonical = mission.canonical /\ UNCHANGED attempts
    BY <1>0, <1>3, MakePlanDoes, SavePlanTyped
  <2> QED
    BY <1>0, <1>3, <2>1, MakePlanDoes DEF Bumped
<1>4. CASE SetStep(p)
  <2>1. mission' = Touched /\ UNCHANGED attempts /\ Current(proc[p].token)
    BY <1>0, <1>4, SetStepDoes
  <2> QED
    BY <1>0, <2>1, TouchedTyped DEF Bumped
<1>5. CASE CountUsage(p)
  BY <1>0, <1>5, CountUsageDoes DEF Bumped
<1>6. CASE Compile(p)
  BY <1>0, <1>6, CompileDoes, RowsSame, QuarantineSame
<1> QED
  BY <1>1, <1>2, <1>3, <1>4, <1>5, <1>6 DEF Runs

LEMMA StepWrites ==
    ASSUME IInv, Alone, [Next]_vars
    PROVE  \/ Same /\ mission'.fence = mission.fence
           \/ \E w \in Workers : Claim(w) /\ Same /\ mission'.fence = mission.fence + 1
           \/ \E p \in Processes : Bumped(p) /\ Others(p)
           \/ \E e \in Executors : Prove(e) /\ Others(e)
           \/ \E e \in Executors :
                 /\ Others(e)
                 /\ Start(e) \/ \E status \in AttemptStatus \ {"running"} : Observe(e, status)
<1>0. /\ TypeOK /\ \A w \in Workers : w \in Processes
      /\ \A o \in Operators : o \in Processes
      /\ \A e \in Executors : e \in Processes
  BY DEF IInv, Processes, Executors
<1>1. ASSUME NEW p \in Processes, Crash(p)
      PROVE  Same /\ mission'.fence = mission.fence
  BY <1>1, RowsSame DEF Crash, rows
<1>2. ASSUME NEW w \in Workers, Claim(w)
      PROVE  Same /\ mission'.fence = mission.fence + 1
  BY <1>0, <1>2, ClaimTyped, ClaimedTyped DEF Same
<1>3. ASSUME NEW e \in Executors, Acts(e), \A w \in Workers : ~ Claim(w)
      PROVE  \/ Same /\ mission'.fence = mission.fence
             \/ Bumped(e) \/ Prove(e)
             \/ Start(e) \/ \E status \in AttemptStatus \ {"running"} : Observe(e, status)
  <2>1. CASE Runs(e)
    BY <1>0, <2>1, RunsWrite
  <2>2. CASE e \in Workers /\ (Rescue(e) \/ Reread(e))
    BY <1>0, <2>2, RescueDoes, RowsSame
  <2>3. CASE e \in Workers /\ Report(e)
    BY <1>0, <2>3, ReportDoes, QuarantineSame
  <2>4. CASE e \in Workers /\ Die(e)
    BY <1>0, <2>4, DieDoes, TransitionBumps, RowsSame
  <2>5. CASE e \in Workers /\ Release(e)
    BY <1>0, <2>5, ReleaseDoes, ReleasedTyped DEF Same
  <2>6. CASE e \in Runners /\ RunDirect(e)
    BY <2>6, RowsSame DEF RunDirect, rows
  <2> QED
    BY <1>3, <2>1, <2>2, <2>3, <2>4, <2>5, <2>6 DEF Acts, Works
<1>4. ASSUME NEW o \in Operators, Operates(o)
      PROVE  Bumped(o) \/ (Same /\ mission'.fence = mission.fence)
  <2>1. CASE \E command \in Commands \ {"steer"} : Control(o, command)
    BY <1>0, <2>1, ControlDoes, RowsSame
  <2>2. CASE Steer(o)
    <3>1. /\ proc[o].token = 0 /\ mission' = Touched /\ UNCHANGED attempts /\ Current(0)
      BY <1>0, <2>2, SteerDoes, ProcessesAssumption DEF IInv, TokensFit
    <3> QED
      BY <1>0, <3>1, TouchedTyped DEF Bumped
  <2>3. CASE SteerReplan(o)
    BY <1>0, <2>3, SteerReplanDoes, RowsSame
  <2>4. CASE Move(o) \/ MakePlan(o) \/ Replanned(o) \/ Raise(o)
    <3>1. /\ ~ Prove(o) /\ ~ Start(o) /\ \A status : ~ Observe(o, status)
      BY DEF Alone, OperatorPlaces, Over, Prove, Start, Observe
    <3> QED
      BY <1>0, <2>4, <3>1, RunsWrite DEF Runs
  <2> QED
    BY <1>4, <2>1, <2>2, <2>3, <2>4 DEF Operates, Finishes
<1>5. CASE Still
  <2>1. CASE UNCHANGED vars
    BY <2>1, RowsSame DEF vars, rows
  <2>2. CASE (\E w \in Workers : Heartbeat(w)) \/ Expire
    <3>1. /\ \E leased \in BOOLEAN : mission' = [mission EXCEPT !.leased = leased]
          /\ UNCHANGED <<plans, attempts>>
      BY <2>2 DEF Heartbeat, Expire
    <3> QED
      BY <1>0, <3>1, LeasedTyped DEF Same
  <2> QED
    BY <1>5, <2>1, <2>2 DEF Still
<1> QED
  BY <1>0, <1>1, <1>2, <1>3, <1>4, <1>5, ActorSteps

\* A token that was handed out before is not the one that a claim hands out.
LEMMA OutlivedToken ==
    ASSUME IInv, NEW e \in Executors, proc[e].at /= "idle", mission'.fence = mission.fence + 1
    PROVE  proc[e].token /= mission'.fence
<1>1. mission.fence \in Nat
  BY RowTyped DEF IInv
<1> QED
  BY <1>1, TokenKnown

LEMMA AloneStays ==
    ASSUME IInv, Alone, [Next]_vars
    PROVE  Alone'
<1>0. /\ TypeOK /\ PlansFit
      /\ \A e \in Executors : e \in Processes /\ e \notin Operators
      /\ \A r \in Runners : r \notin Workers
  BY ProcessesAssumption DEF IInv, Executors, Processes
<1>1. workerEnabled' = workerEnabled
  <2>1. ASSUME NEW p, Runs(p) \/ Crash(p)
        PROVE  UNCHANGED workerEnabled
    BY <2>1 DEF Runs, Crash, Begin, Move, MakePlan, Replanned, Look, Prove, SetStep, Compile,
                Start, Observe, Refresh, CountUsage, Raise, bounds
  <2>2. ASSUME NEW e \in Executors, Acts(e)
        PROVE  UNCHANGED workerEnabled
    BY <2>1, <2>2 DEF Acts, Claim, Works, Rescue, Report, Reread, Die, Release, RunDirect,
                      bounds
  <2>3. ASSUME NEW o \in Operators, Operates(o)
        PROVE  UNCHANGED workerEnabled
    BY <2>1, <2>3 DEF Operates, Finishes, Control, Steer, SteerReplan, Runs, bounds
  <2> QED
    BY <2>1, <2>2, <2>3, ActorSteps, StillKeeps
<1>2. ASSUME NEW e \in Executors, proc[e].at = "idle",
             ~ Acts(e), ~ Crash(e)
      PROVE  proc'[e].at = "idle"
  BY <1>0, <1>2, Moving
<1>3. ASSUME workerEnabled, NEW r \in Runners
      PROVE  proc'[r].at = "idle"
  <2>1. r \in Executors /\ proc[r].at = "idle" /\ ~ Acts(r) /\ ~ Crash(r)
    BY <1>0, <1>3, OthersRest DEF Alone, Executors, Acts
  <2> QED
    BY <1>2, <2>1
<1>4. ASSUME ~ workerEnabled, NEW w \in Workers
      PROVE  proc'[w].at = "idle"
  <2>1. w \in Executors /\ proc[w].at = "idle" /\ ~ Acts(w) /\ ~ Crash(w)
    BY <1>0, <1>4, OthersRest DEF Alone, Executors, Acts
  <2> QED
    BY <1>2, <2>1
<1>5. ASSUME NEW o \in Operators
      PROVE  proc'[o].at \in OperatorPlaces
  <2>1. o \in Processes /\ o \notin Executors /\ proc[o].at \in OperatorPlaces
    BY ProcessesAssumption DEF Processes, Alone, Executors
  <2>2. CASE proc'[o] = proc[o]
    BY <2>1, <2>2
  <2>3. CASE proc'[o] /= proc[o]
    BY <2>1, <2>3, Moving, OperatorGoes
  <2> QED
    BY <2>2, <2>3
<1>6. ~ workerEnabled => mission'.fence = 0
  <2>1. ~ workerEnabled => mission'.fence = mission.fence
    BY <1>0, StepWrites, ProveDoes, StartDoes, ObserveDoes DEF Bumped, Claim
  <2> QED
    BY <2>1 DEF Alone
<1> QED
  BY <1>1, <1>3, <1>4, <1>5, <1>6 DEF Alone, OneExecutor

-----------------------------------------------------------------------------
(* The budget of attempts.                                                   *)

\* An executor that holds the mission is to start the next attempt of its step.
Counted(w) ==
    proc[w].at \in Picking =>
        /\ proc[w].n <= MaxAttempts
        /\ proc[w].token = mission.fence => proc[w].n = Tries(proc[w].step) + 1

BudgetFits == AttemptsWithinBudget /\ \A e \in Executors : Counted(e)

\* How an executor comes to the start of an attempt, and on.
LEMMA Picked ==
    ASSUME IInv, [Next]_vars, NEW w \in Executors, proc'[w] /= proc[w],
           proc'[w].at \in Picking
    PROVE  /\ UNCHANGED attempts /\ mission'.fence = mission.fence
           /\ \/ /\ proc'[w].n <= MaxAttempts
                 /\ proc'[w].n = Tries(proc'[w].step) + 1
              \/ /\ proc[w].at \in Picking
                 /\ proc'[w].n = proc[w].n /\ proc'[w].step = proc[w].step
                 /\ proc'[w].token = proc[w].token
<1>0. /\ TypeOK /\ PlansFit /\ w \in Processes /\ w \notin Operators
      /\ Idle.at \notin Picking /\ Idle \in Process
  BY ProcessesAssumption, IdleTyped DEF IInv, Executors, Processes, Idle, Picking
<1>4. Runs(w)
  BY <1>0, Moving, GoesOutside DEF Picking, Outside, Over
<1>5. ~ (Begin(w) \/ Move(w) \/ MakePlan(w) \/ Replanned(w) \/ Refresh(w) \/ CountUsage(w)
         \/ Raise(w) \/ Prove(w) \/ Start(w))
  <2>1. ~ (Begin(w) \/ Replanned(w) \/ Refresh(w) \/ Raise(w))
    BY <1>0, BeginDoes, ReplannedDoes, RefreshDoes, RaiseDoes, GotoTyped DEF Picking, Over
  <2>2. ~ (Move(w) \/ MakePlan(w) \/ CountUsage(w))
    BY <1>0, MoveDoes, MakePlanDoes, CountUsageDoes, GotoTyped DEF Picking, Over
  <2>3. ~ (Prove(w) \/ Start(w))
    BY <1>0, ProveDoes, StartDoes, GotoTyped DEF Picking, Over
  <2> QED
    BY <2>1, <2>2, <2>3
<1>6. ASSUME NEW status \in AttemptStatus \ {"running"}
      PROVE  ~ Observe(w, status)
  BY <1>0, ObserveDoes, GotoTyped DEF Picking
<1>7. CASE Look(w)
  <2>1. UNCHANGED rows
    BY <1>0, <1>7, LookDoes
  <2>2. PICK state \in Process :
           /\ Goto(w, state)
           /\ state.at \in Picking => /\ state.n = Tries(state.step) + 1
                                      /\ state.n <= MaxAttempts
    BY <1>0, <1>7, LookDoes DEF Over, Picking
  <2>3. proc'[w] = state
    BY <1>0, <2>2, GotoTyped
  <2> QED
    BY <2>1, <2>2, <2>3 DEF rows
<1>8. CASE SetStep(w)
  <2>1. PICK state \in Process :
           Goto(w, state) /\ Keeps(w, state) /\ state.at = "compiling"
           /\ state.step = proc[w].step /\ state.n = proc[w].n
    BY <1>0, <1>8, SetStepDoes
  <2>2. proc'[w] = state
    BY <1>0, <2>1, GotoTyped
  <2>4. state.token = proc[w].token
    BY <1>0, <2>1 DEF Keeps, Picking
  <2>3. proc[w].at \in Picking /\ UNCHANGED attempts /\ mission'.fence = mission.fence
    BY <1>0, <1>8, SetStepDoes, TouchedTyped DEF Picking
  <2> QED
    BY <2>1, <2>2, <2>3, <2>4
<1>9. CASE Compile(w)
  <2>1. PICK state \in Process :
           /\ Goto(w, state) /\ Keeps(w, state)
           /\ mission' \in {mission, Quarantined} /\ UNCHANGED attempts
           /\ state.at \in Picking => /\ state.at = "starting"
                                      /\ state.step = proc[w].step /\ state.n = proc[w].n
    BY <1>0, <1>9, CompileDoes DEF Over, Picking, rows
  <2>2. proc'[w] = state
    BY <1>0, <2>1, GotoTyped
  <2>3. state.token = proc[w].token
    BY <1>0, <2>1, <2>2 DEF Keeps
  <2>4. proc[w].at \in Picking /\ mission'.fence = mission.fence
    BY <1>0, <1>9, <2>1, CompileDoes, QuarantinedTyped DEF Picking
  <2> QED
    BY <2>1, <2>2, <2>3, <2>4
<1> QED
  BY <1>4, <1>5, <1>6, <1>7, <1>8, <1>9 DEF Runs

\* An attempt that starts is one more of its step.
LEMMA StartTries ==
    ASSUME IInv, NEW w \in Processes, Start(w), NEW s \in Steps
    PROVE  Tries(s)' = IF s = proc[w].step THEN Tries(s) + 1 ELSE Tries(s)
<1>0. TypeOK /\ PlansFit
  BY DEF IInv
<1> DEFINE last == Len(attempts) + 1
<1>1. /\ Len(attempts) \in Nat /\ Len(attempts') = last
      /\ \A i \in 1..Len(attempts) : attempts'[i] = attempts[i]
      /\ attempts'[last].step = proc[w].step
      /\ attempts' \in Seq(AttemptRow) /\ attempts \in Seq(AttemptRow)
  <2>1. /\ proc[w].at \in Picking
        /\ StartAttempt(proc[w].token, proc[w].plan, proc[w].step, proc[w].n)
    BY <1>0, StartDoes DEF Picking
  <2> QED
    BY <1>0, <2>1, StartTyped DEF TypeOK, StoreTypeOK
<1>2. /\ DOMAIN attempts = 1..Len(attempts) /\ last \notin DOMAIN attempts
      /\ DOMAIN attempts' = 1..Len(attempts) \cup {last}
  BY <1>1
<1> DEFINE old == {n \in DOMAIN attempts : attempts[n].step = s}
           new == {n \in DOMAIN attempts' : attempts'[n].step = s}
<1>3. Tries(s) = Cardinality(old) /\ Tries(s)' = Cardinality(new) /\ IsFiniteSet(old)
  BY <1>0, TriesTyped DEF Tries, Tried
<1> HIDE DEF last
<1>4. last \notin old
  BY <1>2
<1>5. CASE s = proc[w].step
  <2>1. new = old \cup {last}
    BY <1>1, <1>2, <1>5
  <2> HIDE DEF old, new
  <2> QED
    BY <1>3, <1>4, <1>5, <2>1, FS_AddElement
<1>6. CASE s /= proc[w].step
  <2>1. new = old
    BY <1>1, <1>2, <1>6
  <2> QED
    BY <1>3, <1>6, <2>1
<1> QED
  BY <1>5, <1>6

LEMMA ObserveTries ==
    ASSUME IInv, NEW w \in Processes, NEW status \in AttemptStatus, Observe(w, status)
    PROVE  \A s : Tries(s)' = Tries(s)
<1>1. TypeOK
  BY DEF IInv
<1>2. /\ DOMAIN attempts' = DOMAIN attempts
      /\ \A i \in DOMAIN attempts : attempts'[i].step = attempts[i].step
  BY <1>1, ObserveDoes, CompleteTyped
<1>3. \A s : {n \in DOMAIN attempts' : attempts'[n].step = s}
             = {n \in DOMAIN attempts : attempts[n].step = s}
  BY <1>2
<1> QED
  BY <1>3 DEF Tries

LEMMA BudgetKept ==
    ASSUME IInv, Alone, BudgetFits, [Next]_vars
    PROVE  BudgetFits'
<1>0. /\ TypeOK /\ PlansFit /\ \A w \in Executors : w \in Processes
      /\ mission.fence \in Nat /\ MaxAttempts \in Nat
  BY RowTyped, MaxAttemptsAssumption DEF IInv, Executors, Processes
<1>1. CASE UNCHANGED attempts
  <2>1. AttemptsWithinBudget' /\ \A s : Tries(s)' = Tries(s)
    BY <1>1 DEF BudgetFits, AttemptsWithinBudget, Tries
  <2>2. ASSUME NEW w \in Executors, proc'[w].at \in Picking
        PROVE  Counted(w)'
    <3>1. CASE proc'[w] /= proc[w]
      <4>1. /\ UNCHANGED attempts /\ mission'.fence = mission.fence
            /\ \/ /\ proc'[w].n <= MaxAttempts
                  /\ proc'[w].n = Tries(proc'[w].step) + 1
               \/ /\ proc[w].at \in Picking
                  /\ proc'[w].n = proc[w].n /\ proc'[w].step = proc[w].step
                  /\ proc'[w].token = proc[w].token
        BY <2>2, <3>1, Picked
      <4> QED
        BY <1>1, <4>1 DEF BudgetFits, Counted, Tries
    <3>2. CASE proc'[w] = proc[w] /\ mission'.fence = mission.fence
      BY <1>1, <2>2, <3>2 DEF BudgetFits, Counted, Tries
    <3>3. CASE proc'[w] = proc[w] /\ mission'.fence = mission.fence + 1
      <4>1. proc[w].token /= mission'.fence
        BY <2>2, <3>3, OutlivedToken DEF Picking
      <4> QED
        BY <2>2, <3>3, <4>1 DEF BudgetFits, Counted
    <3>4. mission'.fence \in {mission.fence, mission.fence + 1}
      BY <1>0, StepWrites, ProveDoes, StartDoes, ObserveDoes DEF Bumped
    <3> QED
      BY <3>1, <3>2, <3>3, <3>4
  <2> QED
    BY <2>1, <2>2 DEF BudgetFits, Counted
<1>2. CASE UNCHANGED attempts => FALSE
  <2>1. PICK w \in Executors :
           /\ Others(w)
           /\ Start(w) \/ \E status \in AttemptStatus \ {"running"} : Observe(w, status)
    BY <1>0, <1>2, StepWrites, ProveDoes DEF Same, Bumped
  <2>2. /\ proc[w].at \in {"starting", "executing"} /\ Current(proc[w].token)
        /\ UNCHANGED mission /\ proc'[w].at \notin Picking
    BY <1>0, <2>1, StartDoes, ObserveDoes, GotoTyped DEF Picking
  <2>3. proc[w].token = mission.fence
    BY <2>2, HoldsFence
  <2>4. ASSUME NEW x \in Executors
        PROVE  Counted(x)'
    <3>1. CASE x = w
      BY <2>2, <3>1 DEF Counted
    <3>2. CASE x /= w
      <4>1. proc'[x] = proc[x]
        BY <1>0, <2>1, <3>2 DEF Others
      <4>2. proc[x].at \in Picking => proc[x].token /= mission.fence
        BY <2>2, <3>2, OneCurrent DEF Picking
      <4> QED
        BY <2>2, <4>1, <4>2 DEF BudgetFits, Counted
    <3> QED
      BY <3>1, <3>2
  <2>5. AttemptsWithinBudget'
    <3>1. CASE Start(w)
      <4>1. /\ proc[w].n <= MaxAttempts
            /\ proc[w].n = Tries(proc[w].step) + 1
        BY <1>0, <2>3, <3>1, StartDoes DEF BudgetFits, Counted, Picking
      <4>2. ASSUME NEW s \in Steps
            PROVE  Tries(s)' <= MaxAttempts
        <5>1. Tries(s) <= MaxAttempts
          BY DEF BudgetFits, AttemptsWithinBudget, Tries
        <5>2. Tries(s)' = IF s = proc[w].step THEN Tries(s) + 1 ELSE Tries(s)
          BY <1>0, <3>1, StartTries
        <5>3. s = proc[w].step => Tries(s) + 1 <= MaxAttempts
          BY <4>1
        <5> QED
          BY <5>1, <5>2, <5>3
      <4> QED
        BY <4>2 DEF AttemptsWithinBudget, Tries
    <3>2. CASE \E status \in AttemptStatus \ {"running"} : Observe(w, status)
      <4>1. \A s : Tries(s)' = Tries(s)
        BY <1>0, <3>2, ObserveTries
      <4> QED
        BY <4>1 DEF BudgetFits, AttemptsWithinBudget, Tries
    <3> QED
      BY <2>1, <3>1, <3>2
  <2> QED
    BY <2>4, <2>5 DEF BudgetFits
<1> QED
  BY <1>1, <1>2

-----------------------------------------------------------------------------
(* Versions, and where a step may be dispatched.                             *)

\* What x decided at the current version, it decided on the current mission.
VersionFits(x) ==
    /\ proc[x].version <= mission.version
    /\ proc[x].at \in {"ready", "stepping", "proving"} /\ proc[x].version = mission.version
          => mission.status = "running"

Dispatchable == {"running", "replanning", "pause_requested", "cancel_requested"}

\* An operator cancels at once only what it saw in draft.
CommandFits(o) ==
    proc[o].at \in {"moving", "leaving"} =>
        /\ proc[o].target \in Commanded
        /\ proc[o].target = "canceled" /\ proc[o].version = mission.version
              => mission.status = "draft"

\* Behind the safe point, with the mission.
DispatchFits(w) ==
    proc[w].token = mission.fence /\ proc[w].at \in {"compiling", "starting"}
        => mission.status \in Dispatchable

StopFits ==
    /\ \A x \in Processes : VersionFits(x)
    /\ \A o \in Operators : CommandFits(o)
    /\ \A e \in Executors : DispatchFits(e)

LEMMA VersionsRise ==
    ASSUME IInv, Alone, [Next]_vars
    PROVE  \/ mission'.version = mission.version /\ mission'.status = mission.status
           \/ mission'.version = mission.version + 1
<1>1. TypeOK /\ PlansFit /\ \A e \in Executors : e \in Processes
  BY DEF IInv, Executors, Processes
<1> QED
  BY <1>1, StepWrites, ProveDoes, StartDoes, ObserveDoes DEF Same, Bumped

LEMMA RunsVersion ==
    ASSUME IInv, NEW p \in Processes, Runs(p), VersionFits(p)
    PROVE  VersionFits(p)'
<1>0. TypeOK /\ PlansFit /\ mission.version \in Nat
  BY RowTyped DEF IInv
<1>1. CASE Begin(p) \/ Replanned(p) \/ Refresh(p) \/ Raise(p)
  <2>1. /\ UNCHANGED rows
        /\ \E state \in Process :
              /\ Goto(p, state) /\ state.version <= mission.version
              /\ state.at \notin {"stepping", "proving"}
              /\ state.at = "ready" => mission.status = "running"
    BY <1>0, <1>1, BeginDoes, ReplannedDoes, RefreshDoes, RaiseDoes DEF Over
  <2> QED
    BY <1>0, <2>1, GotoTyped DEF VersionFits, rows
<1>2. CASE Move(p)
  <2>1. \E state \in Process :
           /\ Goto(p, state) /\ state.version <= mission'.version
           /\ state.at \notin {"stepping", "proving"}
           /\ state.at = "ready" => proc[p].target = "running"
    BY <1>0, <1>2, MoveDoes DEF Over
  <2>2. mission'.status = proc[p].target
    BY <1>0, <1>2, MoveDoes, TransitionedTyped
  <2> QED
    BY <1>0, <2>1, <2>2, GotoTyped DEF VersionFits
<1>3. CASE MakePlan(p)
  <2>1. mission'.version = mission.version + 1
    BY <1>0, <1>3, MakePlanDoes, SavePlanTyped
  <2>2. \E state \in Process : Goto(p, state) /\ state.at = "planned" /\ state.version = 0
    BY <1>0, <1>3, MakePlanDoes
  <2> QED
    BY <1>0, <2>1, <2>2, GotoTyped DEF VersionFits
<1>4. CASE Look(p)
  <2>1. UNCHANGED rows /\ proc[p].at = "ready"
    BY <1>0, <1>4, LookDoes
  <2>2. PICK state \in Process :
           /\ Goto(p, state)
           /\ state.version = proc[p].version \/ (state.version = 0 /\ state.at \in Over)
    BY <1>0, <1>4, LookDoes
  <2>3. proc'[p] = state
    BY <1>0, <2>2, GotoTyped
  <2> QED
    BY <1>0, <2>1, <2>2, <2>3 DEF VersionFits, rows, Over
<1>5. CASE Prove(p)
  <2>1. mission'.version = mission.version /\ proc[p].version = mission.version
    BY <1>0, <1>5, ProveDoes
  <2>2. \E state \in Process :
           Goto(p, state) /\ state.at = "moving" /\ state.version = proc[p].version
    BY <1>0, <1>5, ProveDoes
  <2> QED
    BY <1>0, <2>1, <2>2, GotoTyped DEF VersionFits
<1>6. CASE SetStep(p)
  <2>1. \E state \in Process :
           Goto(p, state) /\ state.at = "compiling" /\ state.version = mission'.version
    BY <1>0, <1>6, SetStepDoes
  <2>2. mission'.version \in Nat
    BY <1>0, <1>6, SetStepDoes, TouchedTyped
  <2> QED
    BY <1>0, <2>1, <2>2, GotoTyped DEF VersionFits
<1>7. CASE Compile(p)
  <2>1. mission'.version = mission.version
    BY <1>0, <1>7, CompileDoes, QuarantinedTyped DEF rows
  <2>2. \E state \in Process :
           /\ Goto(p, state) /\ state.version \in {proc[p].version, 0}
           /\ state.at \notin {"ready", "stepping", "proving"}
    BY <1>0, <1>7, CompileDoes DEF Over
  <2> QED
    BY <1>0, <2>1, <2>2, GotoTyped DEF VersionFits
<1>8. CASE Start(p) \/ \E status \in AttemptStatus \ {"running"} : Observe(p, status)
  <2>1. UNCHANGED mission
    BY <1>0, <1>8, StartDoes, ObserveDoes
  <2>2. \E state \in Process :
           /\ Goto(p, state) /\ state.version = proc[p].version
           /\ state.at \in {"executing", "observed"}
    BY <1>0, <1>8, StartDoes, ObserveDoes
  <2> QED
    BY <1>0, <2>1, <2>2, GotoTyped DEF VersionFits
<1>9. CASE CountUsage(p)
  <2>1. \E state \in Process :
           /\ Goto(p, state) /\ state.version <= mission'.version
           /\ state.at \notin {"stepping", "proving"}
           /\ state.at = "ready" => mission'.status = "running"
    BY <1>0, <1>9, CountUsageDoes DEF Over
  <2> QED
    BY <1>0, <2>1, GotoTyped DEF VersionFits
<1> QED
  BY <1>1, <1>2, <1>3, <1>4, <1>5, <1>6, <1>7, <1>8, <1>9 DEF Runs

LEMMA VersionKept ==
    ASSUME IInv, Alone, [Next]_vars, NEW x \in Processes, VersionFits(x)
    PROVE  VersionFits(x)'
<1>0. /\ TypeOK /\ mission.version \in Nat /\ proc[x].version \in Nat
      /\ Idle.version = 0 /\ Idle.at = "idle" /\ Idle \in Process
  BY RowTyped, IdleTyped DEF IInv, TypeOK, Process, Idle
<1>1. CASE proc'[x] = proc[x]
  BY <1>0, <1>1, VersionsRise DEF VersionFits
<1>2. mission'.version \in Nat
  BY <1>0, VersionsRise
<1>3. ASSUME NEW state \in Process, Goto(x, state), state.version = 0,
             state.at \notin {"ready", "stepping", "proving"}
      PROVE  VersionFits(x)'
  BY <1>0, <1>2, <1>3, GotoTyped DEF VersionFits
<1>4. CASE ~ Runs(x) /\ (Crash(x) \/ (x \in Executors /\ Acts(x)))
  BY <1>4, GoesOutside DEF VersionFits, Outside, Over
<1>8. CASE Runs(x)
  BY <1>8, RunsVersion
<1>9. CASE x \in Operators /\ Operates(x)
  <2>1. CASE (\E command \in Commands \ {"steer"} : Control(x, command)) \/ SteerReplan(x)
    <3>1. UNCHANGED rows
      BY <1>0, <1>9, <2>1, ControlDoes, SteerReplanDoes
    <3>2. \E state \in Process :
             /\ Goto(x, state) /\ state.version <= mission.version
             /\ state.at \notin {"ready", "stepping", "proving"}
      BY <1>0, <1>9, <2>1, ControlDoes, SteerReplanDoes
    <3> QED
      BY <1>0, <3>1, <3>2, GotoTyped DEF VersionFits, rows
  <2>2. CASE Steer(x)
    BY <1>0, <1>3, <1>9, <2>2, SteerDoes
  <2>3. CASE Move(x) \/ MakePlan(x) \/ Replanned(x) \/ Raise(x)
    BY <2>3, RunsVersion DEF Runs
  <2> QED
    BY <1>9, <2>1, <2>2, <2>3 DEF Operates, Finishes
<1> HIDE <1>3
<1> QED
  BY <1>1, <1>4, <1>8, <1>9, Moving

LEMMA CommandKept ==
    ASSUME IInv, Alone, [Next]_vars, NEW o \in Operators, CommandFits(o), VersionFits(o)
    PROVE  CommandFits(o)'
<1>0. /\ TypeOK /\ PlansFit /\ o \in Processes /\ o \notin Executors
      /\ mission.version \in Nat /\ proc[o].version \in Nat
      /\ Idle.at = "idle" /\ Idle \in Process
  BY RowTyped, IdleTyped, ProcessesAssumption DEF IInv, TypeOK, Process, Processes, Executors,
                                              Idle
<1>1. CASE proc'[o] = proc[o]
  BY <1>0, <1>1, VersionsRise DEF VersionFits, CommandFits
<1>2. ASSUME NEW state \in Process, Goto(o, state), state.at \notin {"moving", "leaving"}
      PROVE  CommandFits(o)'
  BY <1>0, <1>2, GotoTyped DEF CommandFits
<1>3. ASSUME NEW state \in Process, Goto(o, state),
             state.target \in Commanded \ {"canceled"}
      PROVE  CommandFits(o)'
  BY <1>0, <1>3, GotoTyped DEF CommandFits
<1>4. CASE Crash(o)
  BY <1>0, <1>2, <1>4 DEF Crash
<1>5. CASE \E command \in Commands \ {"steer"} : Control(o, command)
  <2>1. UNCHANGED rows
    BY <1>0, <1>5, ControlDoes
  <2>2. \E state \in Process :
           /\ Goto(o, state) /\ state.target \in Commanded
           /\ state.target = "canceled" => mission.status = "draft"
    BY <1>0, <1>5, ControlDoes
  <2> QED
    BY <1>0, <2>1, <2>2, GotoTyped DEF CommandFits, rows
<1>6. CASE Steer(o)
  BY <1>0, <1>2, <1>6, SteerDoes
<1>7. CASE SteerReplan(o)
  <2>1. PICK state \in Process :
           Goto(o, state) /\ (state = Idle \/ state.target = "replanning")
    BY <1>0, <1>7, SteerReplanDoes
  <2> QED
    BY <1>0, <1>2, <1>3, <2>1 DEF Commanded
<1>8. CASE Move(o)
  <2>1. PICK state \in Process :
           /\ Goto(o, state) /\ state.at \in Over \cup {"plan", "moving", "ready"}
           /\ state.at = "moving" => state.target = "running"
    BY <1>0, <1>8, MoveDoes
  <2> QED
    BY <1>2, <1>3, <2>1 DEF Commanded, Over
<1>9. CASE MakePlan(o)
  BY <1>0, <1>2, <1>9, MakePlanDoes
<1>10. CASE Replanned(o)
  BY <1>0, <1>3, <1>10, ReplannedDoes DEF Commanded
<1>11. CASE Raise(o)
  BY <1>0, <1>2, <1>11, RaiseDoes DEF Over
<1> QED
  BY <1>0, <1>1, <1>4, <1>5, <1>6, <1>7, <1>8, <1>9, <1>10, <1>11, Moving
     DEF Operates, Finishes

\* How an executor comes behind the safe point, or to its proof, and on.
LEMMA Behind ==
    ASSUME IInv, [Next]_vars, NEW w \in Executors, proc'[w] /= proc[w],
           proc'[w].at \in {"compiling", "starting", "executing", "proving"}
    PROVE  \/ SetStep(w) \/ Look(w) \/ Start(w)
           \/ /\ proc[w].at = "compiling" /\ proc'[w].token = proc[w].token
              /\ UNCHANGED rows /\ proc'[w].at = "starting"
<1>0. /\ TypeOK /\ PlansFit /\ w \in Processes /\ w \notin Operators
      /\ Idle.at = "idle" /\ Idle \in Process
  BY ProcessesAssumption, IdleTyped DEF IInv, Executors, Processes, Idle
<1>4. Runs(w)
  BY <1>0, Moving, GoesOutside DEF Outside, Over
<1>5. ~ Begin(w) /\ ~ Replanned(w) /\ ~ Refresh(w) /\ ~ Raise(w)
  BY <1>0, BeginDoes, ReplannedDoes, RefreshDoes, RaiseDoes, GotoTyped DEF Over
<1>6. ~ Move(w) /\ ~ MakePlan(w) /\ ~ CountUsage(w)
  BY <1>0, MoveDoes, MakePlanDoes, CountUsageDoes, GotoTyped DEF Over
<1>7. ~ Prove(w)
  BY <1>0, ProveDoes, GotoTyped
<1>8. ASSUME NEW status \in AttemptStatus \ {"running"}
      PROVE  ~ Observe(w, status)
  BY <1>0, ObserveDoes, GotoTyped
<1>9. CASE Compile(w)
  <2>1. PICK state \in Process :
           /\ Goto(w, state) /\ Keeps(w, state)
           /\ \/ state.at = "starting" /\ UNCHANGED rows
              \/ state.at \in Over \cup {"moving"}
    BY <1>0, <1>9, CompileDoes
  <2>2. proc'[w] = state
    BY <1>0, <2>1, GotoTyped
  <2>3. state.token = proc[w].token
    BY <1>0, <2>1, <2>2 DEF Keeps
  <2> QED
    BY <1>0, <1>9, <2>1, <2>2, <2>3, CompileDoes DEF Over
<1> QED
  BY <1>4, <1>5, <1>6, <1>7, <1>8, <1>9 DEF Runs

LEMMA Compiling ==
    ASSUME IInv, [Next]_vars, NEW w \in Executors, proc'[w] /= proc[w],
           proc'[w].at \in {"compiling", "starting"}
    PROVE  \/ SetStep(w)
           \/ /\ proc[w].at = "compiling" /\ proc'[w].token = proc[w].token
              /\ UNCHANGED rows
<1>1. TypeOK /\ PlansFit /\ w \in Processes
  BY DEF IInv, Executors, Processes
<1>2. ~ Look(w) /\ ~ Start(w)
  BY <1>1, LookDoes, StartDoes, GotoTyped DEF Over
<1> QED
  BY <1>2, Behind

\* What an operator may do to a mission that dispatches, it still does.
LEMMA CommandsDispatch ==
    ASSUME IInv, Alone, StopFits, NEW o \in Operators, Bumped(o),
           mission.status \in Dispatchable
    PROVE  mission'.status \in Dispatchable
<1>1. CASE Moved(o)
  <2>1. proc[o].at \in {"moving", "leaving"}
    BY <1>1 DEF Moved, Alone, OperatorPlaces, Over
  <2>2. /\ mission'.status \in Commanded \ {"canceled"}
        /\ mission'.status \in Allowed(mission.status)
    BY <1>1, <2>1 DEF Moved, StopFits, CommandFits, Dispatchable
  <2>3. CASE mission.status = "running"
    BY <2>2, <2>3 DEF Allowed, ALLOWED_TRANSITIONS, Commanded, Dispatchable, Terminal
  <2>4. CASE mission.status = "replanning"
    BY <2>2, <2>4 DEF Allowed, ALLOWED_TRANSITIONS, Commanded, Dispatchable, Terminal
  <2>5. CASE mission.status = "pause_requested"
    BY <2>2, <2>5 DEF Allowed, ALLOWED_TRANSITIONS, Commanded, Dispatchable, Terminal
  <2>6. CASE mission.status = "cancel_requested"
    BY <2>2, <2>6 DEF Allowed, ALLOWED_TRANSITIONS, Commanded, Dispatchable, Terminal
  <2> QED
    BY <2>3, <2>4, <2>5, <2>6 DEF Dispatchable
<1> QED
  BY <1>1 DEF Bumped

LEMMA DispatchKept ==
    ASSUME IInv, Alone, StopFits, [Next]_vars, NEW w \in Executors
    PROVE  DispatchFits(w)'
<1>0. /\ TypeOK /\ PlansFit /\ mission.fence \in Nat
      /\ \A e \in Executors : e \in Processes
  BY RowTyped DEF IInv, Executors, Processes
<1> SUFFICES ASSUME proc'[w].token = mission'.fence, proc'[w].at \in {"compiling", "starting"}
             PROVE  mission'.status \in Dispatchable
  BY DEF DispatchFits, Dispatchable
<1>1. CASE proc'[w] /= proc[w]
  <2>1. CASE SetStep(w)
    <3>1. mission.status = "running"
      BY <1>0, <2>1, SetStepDoes DEF StopFits, VersionFits
    <3>2. mission'.status = mission.status
      BY <1>0, <2>1, SetStepDoes, TouchedTyped
    <3> QED
      BY <3>1, <3>2 DEF Dispatchable
  <2>2. CASE proc[w].at = "compiling" /\ proc'[w].token = proc[w].token /\ UNCHANGED rows
    BY <2>2 DEF StopFits, DispatchFits, rows
  <2> QED
    BY <1>1, <2>1, <2>2, Compiling
<1>2. CASE proc'[w] = proc[w]
  <2>1. CASE mission'.fence = mission.fence /\ mission'.status = mission.status
    BY <1>2, <2>1 DEF StopFits, DispatchFits
  <2>3. CASE mission'.fence = mission.fence + 1
    BY <1>2, <2>3, OutlivedToken
  <2>4. ASSUME NEW p \in Processes, Bumped(p), Others(p),
               mission'.status /= mission.status
        PROVE  mission'.status \in Dispatchable
    <3>1. mission.status \in Dispatchable
      BY <1>2, <2>4 DEF Bumped, StopFits, DispatchFits
    <3>2. CASE p \in Operators
      BY <2>4, <3>1, <3>2, CommandsDispatch
    <3>3. CASE p \in Executors
      <4>1. p /= w /\ proc[p].at /= "idle" /\ Current(proc[p].token)
        BY <1>2, <2>4 DEF Bumped, Moved
      <4>2. proc[w].token /= mission.fence
        BY <1>2, <3>3, <4>1, OneCurrent
      <4> QED
        BY <1>2, <2>4, <4>2 DEF Bumped
    <3> QED
      BY <3>2, <3>3 DEF Executors, Processes
  <2> QED
    BY <1>0, <2>1, <2>3, <2>4, StepWrites, ProveDoes, StartDoes, ObserveDoes
       DEF Same, Bumped
<1> QED
  BY <1>1, <1>2

LEMMA StopKept ==
    ASSUME IInv, Alone, StopFits, [Next]_vars
    PROVE  StopFits'
<1>1. ASSUME NEW x \in Processes
      PROVE  VersionFits(x)'
  BY VersionKept DEF StopFits
<1>2. ASSUME NEW o \in Operators
      PROVE  CommandFits(o)'
  BY CommandKept DEF StopFits, Processes
<1>3. ASSUME NEW w \in Executors
      PROVE  DispatchFits(w)'
  BY DispatchKept
<1> QED
  BY <1>1, <1>2, <1>3 DEF StopFits

-----------------------------------------------------------------------------
(* The completion proof.                                                     *)

\* What the completion verifier checks of the active plan.
Valid == mission.plan > 0 /\ NoGaps(mission.plan)

\* A passing proof of the current version tells the truth.
ProofFits ==
    /\ mission.proof.version <= mission.version
    /\ ProofCurrent => Valid

\* While the one that holds the mission works on a step there is no such proof, and
\* what it is to record as passing is still so unless the version moved on.
ProverFits(w) ==
    proc[w].token = mission.fence =>
        /\ proc[w].at \in {"compiling", "starting", "executing"} => ~ ProofCurrent
        /\ proc[w].at = "proving" /\ proc[w].passed /\ proc[w].version = mission.version
              => Valid

DoneFits == ProofFits /\ \A e \in Executors : ProverFits(e)

LEMMA ValidSame ==
    ASSUME mission'.plan = mission.plan, UNCHANGED <<plans, attempts>>
    PROVE  Valid' <=> Valid
BY DEF Valid, NoGaps, Completed, Relevant, Kept

LEMMA SameProof ==
    ASSUME Same
    PROVE  (Valid' <=> Valid) /\ (ProofCurrent' <=> ProofCurrent)
BY ValidSame DEF Same, ProofCurrent

LEMMA BumpedProof ==
    ASSUME IInv, ProofFits, NEW p, Bumped(p)
    PROVE  ~ ProofCurrent' /\ mission'.proof.version <= mission'.version
<1>1. /\ mission.version \in Nat /\ mission.proof.version \in Nat
      /\ NoProof.passed = FALSE /\ NoProof.version = 0
  BY RowTyped DEF IInv, NoProof
<1> QED
  BY <1>1 DEF Bumped, ProofFits, ProofCurrent

\* What the others see of a step of the one that holds the mission.
LEMMA OthersStale ==
    ASSUME IInv, Alone, NEW w \in Executors, NEW x \in Executors \ {w}, Others(w),
           proc[w].at /= "idle", Current(proc[w].token), mission'.fence = mission.fence
    PROVE  proc'[x].at = "idle" \/ proc'[x].token /= mission'.fence
<1>1. proc'[x] = proc[x]
  BY DEF Others, Executors, Processes
<1> QED
  BY <1>1, OneCurrent

\* The executor that moves.
LEMMA ProverMoves ==
    ASSUME IInv, Alone, DoneFits, [Next]_vars, NEW w \in Executors, proc'[w] /= proc[w]
    PROVE  ProverFits(w)'
<1>0. /\ TypeOK /\ PlansFit /\ w \in Processes
  BY DEF IInv, Executors, Processes
<1> SUFFICES ASSUME proc'[w].token = mission'.fence,
                    proc'[w].at \in {"compiling", "starting", "executing", "proving"}
             PROVE  /\ proc'[w].at \in {"compiling", "starting", "executing"}
                          => ~ ProofCurrent'
                    /\ proc'[w].at = "proving" /\ proc'[w].passed => Valid'
  BY DEF ProverFits
<1>1. CASE SetStep(w)
  <2>1. Bumped(w) /\ proc'[w].at = "compiling"
    <3>1. mission' = Touched /\ UNCHANGED attempts /\ Current(proc[w].token)
      BY <1>0, <1>1, SetStepDoes
    <3>2. proc'[w].at = "compiling"
      BY <1>0, <1>1, SetStepDoes, GotoTyped
    <3> QED
      BY <1>0, <3>1, <3>2, TouchedTyped DEF Bumped
  <2> QED
    BY <2>1, BumpedProof DEF DoneFits
<1>2. CASE Look(w)
  <2>1. Same
    BY <1>0, <1>2, LookDoes, RowsSame
  <2>2. PICK state \in Process :
           /\ Goto(w, state)
           /\ state.at \in Over \cup {"moving", "proving", "stepping"}
           /\ state.at = "proving" /\ state.passed => Valid
    BY <1>0, <1>2, LookDoes DEF Valid, Over
  <2>3. proc'[w] = state
    BY <1>0, <2>2, GotoTyped
  <2> QED
    BY <2>1, <2>2, <2>3, SameProof DEF Over
<1>3. CASE Start(w)
  <2>1. UNCHANGED mission /\ proc[w].at = "starting" /\ Current(proc[w].token)
    BY <1>0, <1>3, StartDoes
  <2>2. proc'[w].at = "executing"
    BY <1>0, <1>3, StartDoes, GotoTyped
  <2>3. proc[w].token = mission.fence
    BY <2>1, HoldsFence
  <2>4. ~ ProofCurrent
    BY <2>1, <2>3 DEF DoneFits, ProverFits
  <2> QED
    BY <2>1, <2>2, <2>4 DEF ProofCurrent
<1>4. CASE /\ proc[w].at = "compiling" /\ proc'[w].token = proc[w].token
           /\ UNCHANGED rows /\ proc'[w].at = "starting"
  <2>1. ~ ProofCurrent
    BY <1>4 DEF DoneFits, ProverFits, rows
  <2> QED
    BY <1>4, <2>1 DEF ProofCurrent, rows
<1> QED
  BY <1>1, <1>2, <1>3, <1>4, Behind

LEMMA DoneKept ==
    ASSUME IInv, Alone, StopFits, DoneFits, [Next]_vars
    PROVE  DoneFits'
<1>0. /\ TypeOK /\ PlansFit /\ mission.fence \in Nat /\ mission.version \in Nat
      /\ \A w \in Executors : w \in Processes
      /\ \A w \in Executors : proc[w].version <= mission.version /\ proc[w].version \in Nat
  BY RowTyped DEF IInv, Executors, Processes, StopFits, VersionFits, TypeOK, Process
<1>1. ASSUME NEW w \in Executors, proc'[w] /= proc[w]
      PROVE  ProverFits(w)'
  BY <1>1, ProverMoves
<1>2. CASE Same /\ mission'.fence = mission.fence
  <2>1. ASSUME NEW w \in Executors, proc'[w] = proc[w]
        PROVE  ProverFits(w)'
    BY <1>2, <2>1, SameProof DEF DoneFits, ProverFits, Same
  <2>2. ProofFits'
    BY <1>2, SameProof DEF DoneFits, ProofFits, Same
  <2> QED
    BY <1>1, <2>1, <2>2 DEF DoneFits
<1>3. CASE Same /\ mission'.fence = mission.fence + 1
  <2>1. ASSUME NEW w \in Executors, proc'[w] = proc[w]
        PROVE  ProverFits(w)'
    <3>1. proc[w].at /= "idle" => proc[w].token /= mission'.fence
      BY <1>3, OutlivedToken
    <3> QED
      BY <2>1, <3>1 DEF ProverFits
  <2>2. ProofFits'
    BY <1>3, SameProof DEF DoneFits, ProofFits, Same
  <2> QED
    BY <1>1, <2>1, <2>2 DEF DoneFits
<1>4. ASSUME NEW p \in Processes, Bumped(p)
      PROVE  DoneFits'
  <2>1. ~ ProofCurrent' /\ mission'.proof.version <= mission'.version
    BY <1>4, BumpedProof DEF DoneFits
  <2>2. ASSUME NEW w \in Executors, proc'[w] = proc[w]
        PROVE  ProverFits(w)'
    <3>1. proc'[w].version /= mission'.version
      BY <1>0, <1>4, <2>2 DEF Bumped
    <3> QED
      BY <2>1, <3>1 DEF ProverFits
  <2> QED
    BY <1>1, <2>1, <2>2 DEF DoneFits, ProofFits
<1>5. ASSUME NEW w \in Executors, Prove(w), Others(w)
      PROVE  DoneFits'
  <2>1. /\ proc[w].at = "proving" /\ Current(proc[w].token)
        /\ proc[w].version = mission.version
        /\ UNCHANGED <<plans, attempts>> /\ mission'.plan = mission.plan
        /\ mission'.version = mission.version /\ mission'.fence = mission.fence
        /\ mission'.proof = [version |-> mission.version, passed |-> proc[w].passed]
    BY <1>0, <1>5, ProveDoes
  <2>2. mission'.proof.version = mission.version /\ mission'.proof.passed = proc[w].passed
    BY <2>1
  <2>3. proc[w].token = mission.fence
    BY <2>1, HoldsFence
  <2>4. proc[w].passed => Valid
    BY <2>1, <2>3 DEF DoneFits, ProverFits
  <2>5. Valid' <=> Valid
    BY <2>1, ValidSame
  <2>6. ProofFits'
    BY <1>0, <2>1, <2>2, <2>4, <2>5 DEF ProofFits, ProofCurrent
  <2>7. ASSUME NEW x \in Executors, proc'[x] = proc[x]
        PROVE  ProverFits(x)'
    <3>1. CASE x = w
      <4>1. PICK state \in Process : Goto(w, state) /\ state.at = "moving"
        BY <1>0, <1>5, ProveDoes
      <4>2. proc'[w] = state
        BY <1>0, <4>1, GotoTyped
      <4> QED
        BY <3>1, <4>1, <4>2 DEF ProverFits
    <3>2. CASE x /= w
      <4>1. proc'[x].at = "idle" \/ proc'[x].token /= mission'.fence
        BY <1>5, <2>1, <3>2, OthersStale
      <4> QED
        BY <4>1 DEF ProverFits
    <3> QED
      BY <3>1, <3>2
  <2> QED
    BY <1>1, <2>6, <2>7 DEF DoneFits
<1>6. ASSUME NEW w \in Executors, Others(w),
             Start(w) \/ \E status \in AttemptStatus \ {"running"} : Observe(w, status)
      PROVE  DoneFits'
  <2>1. /\ proc[w].at \in {"starting", "executing"} /\ Current(proc[w].token)
        /\ UNCHANGED mission
    BY <1>0, <1>6, StartDoes, ObserveDoes
  <2>2. proc[w].token = mission.fence
    BY <2>1, HoldsFence
  <2>3. ~ ProofCurrent /\ ~ ProofCurrent'
    BY <2>1, <2>2 DEF DoneFits, ProverFits, ProofCurrent
  <2>4. ProofFits'
    BY <2>1, <2>3 DEF DoneFits, ProofFits
  <2>5. ASSUME NEW x \in Executors, proc'[x] = proc[x]
        PROVE  ProverFits(x)'
    <3>1. CASE x = w
      BY <2>1, <2>3, <2>5, <3>1 DEF ProverFits
    <3>2. CASE x /= w
      <4>1. proc'[x].at = "idle" \/ proc'[x].token /= mission'.fence
        BY <1>6, <2>1, <3>2, OthersStale
      <4> QED
        BY <4>1 DEF ProverFits
    <3> QED
      BY <3>1, <3>2
  <2> QED
    BY <1>1, <2>4, <2>5 DEF DoneFits
<1> QED
  BY <1>2, <1>3, <1>4, <1>5, <1>6, StepWrites

-----------------------------------------------------------------------------
(* The theorems about missions that one kind of executor runs.               *)

OInv == IInv /\ Alone /\ BudgetFits /\ StopFits /\ DoneFits

LEMMA ExecutorInit ==
    ASSUME Init, OneExecutor
    PROVE  OInv
<1>1. IInv
  BY Init0
<1>2. /\ \A p \in Processes : proc[p].at = "idle" /\ proc[p].version = 0
      /\ mission.version = 1 /\ mission.proof.version = 0 /\ mission.proof.passed = FALSE
      /\ attempts = <<>> /\ mission.fence = 0
  BY DEF Init, StoreInit, Idle, NoProof
<1>3. \A w \in Workers \cup Runners \cup Operators : proc[w].at = "idle"
  BY <1>2 DEF Processes
<1>4. Alone
  BY <1>2, <1>3 DEF Alone, OperatorPlaces, Over
<1>5. BudgetFits
  <2>1. ASSUME NEW s \in Steps
        PROVE  Cardinality({n \in DOMAIN attempts : attempts[n].step = s}) <= MaxAttempts
    <3>1. {n \in DOMAIN attempts : attempts[n].step = s} = {}
      BY <1>2
    <3> QED
      BY <3>1, FS_EmptySet, MaxAttemptsAssumption
  <2> QED
    BY <1>3, <2>1 DEF BudgetFits, AttemptsWithinBudget, Counted, Picking,
                            Executors
<1>6. StopFits
  BY <1>2, <1>3 DEF StopFits, VersionFits, CommandFits, DispatchFits, Executors,
                      Processes
<1>7. DoneFits
  BY <1>2, <1>3 DEF DoneFits, ProofFits, ProofCurrent, ProverFits, Executors
<1> QED
  BY <1>1, <1>4, <1>5, <1>6, <1>7 DEF OInv

LEMMA ExecutorInvariance == Spec /\ OneExecutor => []OInv
<1>1. Init /\ OneExecutor => OInv
  BY ExecutorInit
<1>2. OInv /\ [Next]_vars => OInv'
  <2> SUFFICES ASSUME OInv, [Next]_vars PROVE OInv'
    OBVIOUS
  <2>1. IInv' /\ Alone'
    BY NextTyped, AloneStays DEF OInv
  <2>2. BudgetFits' /\ StopFits' /\ DoneFits'
    BY BudgetKept, StopKept, DoneKept DEF OInv
  <2> QED
    BY <2>1, <2>2 DEF OInv
<1> QED
  BY <1>1, <1>2, PTL DEF Spec

(* However many workers take a mission over from each other, or direct runs  *)
(* follow each other, in whatever state they leave it and however often it   *)
(* is planned anew, no step is tried more often than max_attempts_per_step:  *)
(* the count that the executor read (_execute) is still right when it starts *)
(* the attempt.                                                              *)
THEOREM BudgetHolds == Spec /\ OneExecutor => []AttemptsWithinBudget
<1>1. OInv => AttemptsWithinBudget
  BY DEF OInv, BudgetFits
<1> QED
  BY <1>1, ExecutorInvariance, PTL

(* For any operators and executors, an attempt starts only while the mission *)
(* runs or a stop was asked for: the fencing token and the version that an   *)
(* executor presents after its safe point keep a step from being dispatched  *)
(* in a mission that ended, was paused or waits for a human.                 *)
THEOREM StoppedDispatchesNothing == Spec /\ OneExecutor => NoDispatchWhenStopped
<1>1. ASSUME OInv, [Next]_vars, Len(attempts') > Len(attempts)
      PROVE  mission.status \in {"running", "replanning", "pause_requested",
                                 "cancel_requested"}
  <2>0. /\ IInv /\ Alone /\ StopFits /\ TypeOK /\ PlansFit /\ Len(attempts) \in Nat
        /\ \A e \in Executors : e \in Processes
    BY <1>1 DEF OInv, IInv, TypeOK, StoreTypeOK, Executors, Processes
  <2>1. attempts' /= attempts
    BY <1>1, <2>0
  <2>2. PICK w \in Executors :
           Start(w) \/ \E status \in AttemptStatus \ {"running"} : Observe(w, status)
    BY <1>1, <2>0, <2>1, StepWrites, ProveDoes DEF Same, Bumped
  <2>5. ASSUME NEW status \in AttemptStatus, Observe(w, status)
        PROVE  FALSE
    <3>1. CompleteAttempt(proc[w].token, proc[w].n, status) /\ proc[w].n \in Nat
      BY <2>0, <2>5, ObserveDoes
    <3>2. Len(attempts') = Len(attempts)
      BY <2>0, <3>1, CompleteTyped
    <3> QED
      BY <1>1, <2>0, <3>2
  <2>3. proc[w].at = "starting" /\ Current(proc[w].token)
    BY <2>0, <2>2, <2>5, StartDoes
  <2>4. proc[w].token = mission.fence
    BY <2>0, <2>3, HoldsFence
  <2> QED
    BY <2>0, <2>3, <2>4 DEF StopFits, DispatchFits, Dispatchable
<1>2. OInv /\ [Next]_vars =>
        (Len(attempts') > Len(attempts) =>
            mission.status \in {"running", "replanning", "pause_requested",
                                "cancel_requested"})
  BY <1>1
<1> QED
  BY <1>2, ExecutorInvariance, PTL DEF Spec, NoDispatchWhenStopped

\* A mission is completed by a transition with a passing, current proof.
LEMMA CompletedValid ==
    ASSUME OInv, [Next]_vars, mission'.status /= mission.status,
           mission'.status = "completed"
    PROVE  Valid
<1>1. /\ IInv /\ Alone /\ TypeOK /\ PlansFit
      /\ \A e \in Executors : e \in Processes
  BY DEF OInv, IInv, Executors, Processes
<1>2. ProofCurrent
  BY <1>1, StepWrites, ProveDoes, StartDoes, ObserveDoes DEF Same, Bumped, Moved
<1> QED
  BY <1>2 DEF OInv, DoneFits, ProofFits

(* For any plans and interleavings with operators that steer and replan, at  *)
(* the transition to completed every step of the active plan has a success,  *)
(* and no attempt of it is open, waits for approval or has an unknown        *)
(* effect: nothing of this changed since the verifier looked.                *)
THEOREM CompletionIsDone == Spec /\ OneExecutor => CompletesOnlyDone
<1>1. ASSUME OInv, [Next]_vars, mission.status /= "completed",
             mission'.status = "completed"
      PROVE  /\ mission.plan > 0
             /\ Completed(mission.plan) = DOMAIN plans[mission.plan]
             /\ \A n \in Relevant(mission.plan) :
                    attempts[n].status \in {"succeeded", "failed"}
  <2>1. Valid
    BY <1>1, CompletedValid
  <2>2. attempts \in Seq(AttemptRow)
    BY <1>1 DEF OInv, IInv, TypeOK, StoreTypeOK
  <2>3. ASSUME NEW n \in Relevant(mission.plan)
        PROVE  attempts[n].status \in {"succeeded", "failed"}
    <3>1. attempts[n] \in AttemptRow
      BY <2>2 DEF Relevant
    <3>2. attempts[n].status \notin {"running", "waiting_approval", "unknown"}
      BY <2>1 DEF Valid, NoGaps
    <3> QED
      BY <3>1, <3>2 DEF AttemptRow, AttemptStatus
  <2> QED
    BY <2>1, <2>3 DEF Valid, NoGaps
<1>2. OInv /\ [Next]_vars =>
        (mission.status /= "completed" /\ mission'.status = "completed" =>
            /\ mission.plan > 0
            /\ Completed(mission.plan) = DOMAIN plans[mission.plan]
            /\ \A n \in Relevant(mission.plan) :
                    attempts[n].status \in {"succeeded", "failed"})
  BY <1>1
<1> QED
  BY <1>2, ExecutorInvariance, PTL DEF Spec, CompletesOnlyDone

\* The transition table, seen from the lifecycle.
LEMMA Edges ==
    ASSUME mission.status \in Status, mission.canonical, mission'.canonical = mission.canonical,
           mission'.status \in Allowed(mission.status), mission'.status /= "completed"
    PROVE  Lifecycle!Next
<1> USE DEF Allowed, ALLOWED_TRANSITIONS, Terminal, Lifecycle!Next, Lifecycle!Leave
<1>1. CASE mission.status \in Terminal
  BY <1>1
<1>2. CASE mission.status = "draft"
  BY <1>2 DEF Lifecycle!Open
<1>3. CASE mission.status = "planning"
  BY <1>3 DEF Lifecycle!Proceed, Lifecycle!Wait, Lifecycle!Stop, Lifecycle!Fail,
              Lifecycle!Working, Lifecycle!Waiting
<1>4. CASE mission.status = "running"
  BY <1>4 DEF Lifecycle!Proceed, Lifecycle!Wait, Lifecycle!AskToStop, Lifecycle!Fail,
              Lifecycle!Working, Lifecycle!Waiting, Lifecycle!Stopping
<1>5. CASE mission.status = "replanning"
  BY <1>5 DEF Lifecycle!Proceed, Lifecycle!Wait, Lifecycle!AskToStop, Lifecycle!Fail,
              Lifecycle!Working, Lifecycle!Waiting, Lifecycle!Stopping
<1>6. CASE mission.status = "retry_wait"
  BY <1>6 DEF Lifecycle!Proceed, Lifecycle!AskToStop, Lifecycle!Fail,
              Lifecycle!Working, Lifecycle!Waiting, Lifecycle!Stopping
<1>7. CASE mission.status \in {"waiting_approval", "waiting_input", "paused"}
  BY <1>7 DEF Lifecycle!Proceed, Lifecycle!AskToStop,
              Lifecycle!Working, Lifecycle!Waiting, Lifecycle!Stopping
<1>8. CASE mission.status \in {"pause_requested", "cancel_requested"}
  BY <1>8 DEF Lifecycle!Stop, Lifecycle!AskToStop,
              Lifecycle!Working, Lifecycle!Waiting, Lifecycle!Stopping
<1> QED
  BY <1>1, <1>2, <1>3, <1>4, <1>5, <1>6, <1>7, <1>8 DEF Status

\* The step of a process that may write.
LEMMA WriteRefines ==
    ASSUME OInv, [Next]_vars, mission.canonical, mission'.canonical = mission.canonical,
           \/ mission'.status = mission.status
           \/ mission'.status \in Allowed(mission.status)
    PROVE  Lifecycle!Next
<1>0. mission.status \in Status
  BY RowTyped DEF OInv, IInv
<1>1. CASE mission'.status = mission.status
  BY <1>1 DEF Lifecycle!Next, Lifecycle!Work
<1>2. CASE mission'.status /= mission.status /\ mission'.status = "completed"
  <2>1. mission.plan > 0 /\ NoGaps(mission.plan)
    BY <1>2, CompletedValid DEF Valid
  <2>2. mission.status = "running"
    BY <1>0, <1>2 DEF Allowed, ALLOWED_TRANSITIONS, Status, Terminal
  <2> QED
    BY <1>2, <2>1, <2>2 DEF Lifecycle!Next, Lifecycle!Complete, Lifecycle!Leave
<1>3. CASE mission'.status /= mission.status /\ mission'.status /= "completed"
  BY <1>0, <1>3, Edges
<1> QED
  BY <1>1, <1>2, <1>3

LEMMA StepRefines == OInv /\ [Next]_vars => [Lifecycle!Next]_(Lifecycle!vars)
<1> SUFFICES ASSUME OInv, [Next]_vars PROVE [Lifecycle!Next]_(Lifecycle!vars)
  OBVIOUS
<1>0. /\ IInv /\ Alone /\ TypeOK /\ PlansFit
      /\ \A e \in Executors : e \in Processes
      /\ mission.canonical \in BOOLEAN
  BY DEF OInv, IInv, Executors, Processes, TypeOK, StoreTypeOK, MissionRow
<1>1. CASE Same
  <2>1. CASE mission.canonical
    BY <1>0, <1>1, <2>1 DEF Same, Lifecycle!Next, Lifecycle!Work, Lifecycle!Quarantine
  <2>2. CASE ~ mission.canonical
    <3>1. Valid' <=> Valid
      BY <1>1, SameProof
    <3>2. mission'.canonical = mission.canonical /\ mission'.status = mission.status
      BY <1>0, <1>1, <2>2 DEF Same
    <3> QED
      BY <3>1, <3>2 DEF Lifecycle!vars, Valid
  <2> QED
    BY <2>1, <2>2
<1>2. ASSUME NEW p \in Processes, Bumped(p)
      PROVE  Lifecycle!Next
  BY <1>2, WriteRefines DEF Bumped, Moved, Current
<1>3. ASSUME NEW w \in Executors,
             \/ Prove(w)
             \/ Start(w) \/ \E status \in AttemptStatus \ {"running"} : Observe(w, status)
      PROVE  Lifecycle!Next
  <2>1. /\ mission.canonical /\ mission'.canonical = mission.canonical
        /\ mission'.status = mission.status
    BY <1>0, <1>3, ProveDoes, StartDoes, ObserveDoes DEF Current
  <2> QED
    BY <2>1, WriteRefines
<1> QED
  BY <1>0, <1>1, <1>2, <1>3, StepWrites

(* Whoever watches the status of a mission that workers run, or one direct   *)
(* run at a time, sees the lifecycle of MissionLifecycle, for any number of  *)
(* operators: it ends once, completes only from running with validated work, *)
(* and does not move any more in quarantine.                                 *)
THEOREM RefinesLifecycle == Spec /\ OneExecutor => ImplementsLifecycle
<1>1. Init => Lifecycle!Init
  <2> SUFFICES ASSUME Init PROVE Lifecycle!Init
    OBVIOUS
  <2>1. mission.status = "draft" /\ mission.plan = 0 /\ mission.canonical
    BY DEF Init, StoreInit
  <2> QED
    BY <2>1 DEF Lifecycle!Init
<1> QED
  BY <1>1, StepRefines, ExecutorInvariance, PTL DEF Spec, ImplementsLifecycle, Lifecycle!Spec
=============================================================================
