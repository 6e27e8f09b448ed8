------------------------- MODULE EffectCircuitProofs -------------------------
(* Theorems about EffectCircuit for any number of processes, any threshold   *)
(* and any bounds.  A copy that is still fresh equals the row: this is what  *)
(* the comparison of versions buys, and all that the properties need.        *)
EXTENDS EffectCircuit, TLAPS

(* What the assumptions say of the numbers.                                  *)
LEMMA Numbers == /\ Threshold \in Nat /\ 0 < Threshold
                 /\ MaxFailures \in Nat /\ Threshold <= MaxFailures
                 /\ MaxCrashes \in Nat /\ MaxOverrides \in Nat
  BY ThresholdAssumption, BoundAssumption

FreshIsCurrent == \A c \in Calls : call[c].fresh => call[c].copy = row

ProbeIsDue ==
    \A c \in Calls : call[c].fresh /\ call[c].at = "probing"
                        => row.state = "open" /\ due

IInv == TypeOK /\ StateMatchesFailures /\ FreshIsCurrent /\ ProbeIsDue

(* The default that circuit returns is a row, and a process without a copy   *)
(* is a process, wherever it is.                                             *)
LEMMA ClosedType == Closed \in Row
  BY Numbers DEF Closed, Row

LEMMA AtType ==
    ASSUME NEW at \in Place, NEW tries \in 0..2
    PROVE  At(at, tries) \in Call /\ ~ At(at, tries).fresh
  BY ClosedType DEF At, Call

(* What the calls write over a row is a row whose state matches its counter. *)
LEMMA WrittenRows ==
    ASSUME NEW copy \in Row, copy.state = "closed" <=> copy.failures < Threshold
    PROVE  /\ HalfOpened(copy) \in Row /\ Failed(copy) \in Row
           /\ Succeeded \in Row /\ Overridden(copy) \in Row
           /\ Failed(copy).state = "closed" <=> Failed(copy).failures < Threshold
           /\ Overridden(copy).state = "closed" <=> Overridden(copy).failures < Threshold
           /\ copy.state = "open"
                => (HalfOpened(copy).state = "closed" <=> HalfOpened(copy).failures < Threshold)
           /\ Succeeded.state = "closed" /\ Succeeded.failures < Threshold
<1> DEFINE n == IF copy.failures < MaxFailures THEN copy.failures + 1 ELSE copy.failures
           st == IF Opens(copy) THEN "open" ELSE copy.state
<1>1. copy.failures \in 0..MaxFailures /\ copy.state \in {"closed", "open", "half_open"}
  BY DEF Row
<1>2. HalfOpened(copy) \in Row /\ Overridden(copy) \in Row
  BY DEF HalfOpened, Overridden, Row
<1>3. Succeeded \in Row
  BY ClosedType DEF Succeeded, Row
<1>4. Succeeded.state = "closed" /\ Succeeded.failures < Threshold
  BY Numbers DEF Succeeded, Closed
<1>5. Overridden(copy).state = copy.state /\ Overridden(copy).failures = copy.failures
  BY DEF Overridden, Row
<1>6. HalfOpened(copy).state = "half_open" /\ HalfOpened(copy).failures = copy.failures
  BY DEF HalfOpened, Row
<1>7. n \in 0..MaxFailures /\ st \in {"closed", "open", "half_open"}
  BY <1>1, Numbers
<1>8. Failed(copy) = [copy EXCEPT !.stored = TRUE, !.failures = n, !.state = st]
  BY DEF Failed
<1> HIDE DEF n, st
<1>9. Failed(copy) \in Row /\ Failed(copy).state = st /\ Failed(copy).failures = n
  BY <1>7, <1>8 DEF Row
<1>10. st = "closed" <=> n < Threshold
  BY <1>1, Numbers DEF Opens, n, st
<1> QED BY <1>2, <1>3, <1>4, <1>5, <1>6, <1>9, <1>10

(* The initial state satisfies the invariant.                                *)
LEMMA InitIInv == Init => IInv
<1> SUFFICES ASSUME Init PROVE IInv
  OBVIOUS
<1>1. row \in Row /\ due \in BOOLEAN /\ lapsed \in BOOLEAN /\ healthy \in BOOLEAN
  BY ClosedType DEF Init
<1>2. crashes \in 0..MaxCrashes /\ overrides \in 0..MaxOverrides
  BY Numbers DEF Init
<1>3. Idle \in Call /\ ~ Idle.fresh
  BY AtType DEF Idle, Place
<1>4. call \in [Calls -> Call]
  BY <1>3 DEF Init
<1>5. StateMatchesFailures
  BY Numbers DEF Init, StateMatchesFailures, Closed
<1>6. \A c \in Calls : ~ call[c].fresh
  BY <1>3 DEF Init
<1> QED BY <1>1, <1>2, <1>4, <1>5, <1>6 DEF IInv, TypeOK, FreshIsCurrent, ProbeIsDue

(* A process that moves without a copy, or that reads the row, while nothing *)
(* else happens to the row, keeps the invariant.                             *)
LEMMA GotoIInv ==
    ASSUME IInv, NEW c \in Calls,
           NEW state \in Call, call' = [call EXCEPT ![c] = state],
           state.fresh => state.copy = row /\ (state.at = "probing" => row.state = "open" /\ due),
           row' = row, due' = due, lapsed' \in BOOLEAN, healthy' \in BOOLEAN,
           crashes' \in 0..MaxCrashes, overrides' \in 0..MaxOverrides
    PROVE  IInv'
  BY DEF IInv, TypeOK, StateMatchesFailures, FreshIsCurrent, ProbeIsDue, Call

(* A process that goes somewhere without a copy, the row untouched.          *)
LEMMA MoveIInv ==
    ASSUME IInv, NEW c \in Calls, NEW at \in Place, NEW tries \in 0..2,
           call' = [call EXCEPT ![c] = At(at, tries)],
           UNCHANGED <<row, due, lapsed, healthy, overrides>>,
           crashes' \in 0..MaxCrashes
    PROVE  IInv'
<1>1. At(at, tries) \in Call /\ ~ At(at, tries).fresh
  BY AtType
<1> QED BY <1>1, GotoIInv DEF IInv, TypeOK

LEMMA StopIInv ==
    ASSUME IInv, NEW c \in Calls, NEW at \in Place, Goto(c, at),
           UNCHANGED <<row, due, lapsed, healthy, bounds>>
    PROVE  IInv'
<1>1. crashes' \in 0..MaxCrashes /\ UNCHANGED overrides
  BY DEF IInv, TypeOK, bounds
<1>2. 0 \in 0..2 /\ call' = [call EXCEPT ![c] = At(at, 0)]
  BY DEF Goto
<1>3. UNCHANGED <<row, due, lapsed, healthy, overrides>>
  BY <1>1
<1> QED BY <1>1, <1>2, <1>3, MoveIInv

(* A write of a fresh copy leaves no other fresh copy.                       *)
LEMMA SetIInv ==
    ASSUME IInv, NEW c \in Calls, NEW new \in Row, NEW at \in Place,
           Set(c, new, at), new.state = "closed" <=> new.failures < Threshold,
           due' \in BOOLEAN, lapsed' \in BOOLEAN, UNCHANGED <<healthy, bounds>>
    PROVE  IInv'
<1>1. \A x \in Calls : call'[x] \in Call /\ ~ call'[x].fresh
  <2>1. At(at, 0) \in Call /\ ~ At(at, 0).fresh
    BY AtType
  <2> QED BY <2>1 DEF Set, IInv, TypeOK, Call
<1>2. call' \in [Calls -> Call]
  BY <1>1 DEF Set
<1> QED BY <1>1, <1>2 DEF Set, IInv, TypeOK, StateMatchesFailures, FreshIsCurrent,
                          ProbeIsDue, bounds


-----------------------------------------------------------------------------
(* Every step keeps the invariant.                                           *)

LEMMA PreflightIInv == ASSUME IInv, NEW e \in Executors, Preflight(e) PROVE IInv'
<1>1. CASE Passes /\ Goto(e, "dispatching")
  BY <1>1, StopIInv DEF Preflight, Calls, Place
<1>2. CASE row.state = "open" /\ due /\ Read(e, "probing")
  <2>1. call[e].tries \in 0..2 /\ row \in Row
    BY DEF IInv, TypeOK, Calls, Call
  <2> DEFINE state == [at |-> "probing", copy |-> row, fresh |-> TRUE, tries |-> call[e].tries]
  <2>2. state \in Call /\ state.copy = row
    BY <2>1 DEF Call, Place
  <2> QED BY <1>2, <2>2, GotoIInv DEF Preflight, Read, Calls, IInv, TypeOK, bounds
<1> QED BY <1>1, <1>2 DEF Preflight

LEMMA HalfOpenIInv == ASSUME IInv, NEW e \in Executors, HalfOpen(e) PROVE IInv'
<1>1. CASE Set(e, HalfOpened(call[e].copy), "dispatching")
  <2>1. call[e].copy = row /\ row.state = "open" /\ row \in Row
    BY <1>1 DEF HalfOpen, Set, CanSet, IInv, FreshIsCurrent, ProbeIsDue, TypeOK, Calls
  <2>2. HalfOpened(row) \in Row
        /\ (HalfOpened(row).state = "closed" <=> HalfOpened(row).failures < Threshold)
    BY <2>1, WrittenRows DEF IInv, StateMatchesFailures
  <2> QED BY <1>1, <2>1, <2>2, SetIInv DEF HalfOpen, Calls, IInv, TypeOK, Place
<1>2. CASE Conflicts(e) /\ Goto(e, "idle") /\ UNCHANGED row
  BY <1>2, StopIInv DEF HalfOpen, Calls, Place
<1> QED BY <1>1, <1>2 DEF HalfOpen

LEMMA FailureIInv == ASSUME IInv, NEW e \in Executors, Failure(e) PROVE IInv'
<1>1. CASE /\ Set(e, Failed(call[e].copy), "idle")
           /\ due' = IF Opens(call[e].copy) THEN FALSE ELSE due
  <2>1. call[e].copy = row /\ row \in Row
    BY <1>1 DEF Set, CanSet, IInv, FreshIsCurrent, TypeOK, Calls
  <2>2. Failed(row) \in Row /\ (Failed(row).state = "closed" <=> Failed(row).failures < Threshold)
    BY <2>1, WrittenRows DEF IInv, StateMatchesFailures
  <2>3. due' \in BOOLEAN
    BY <1>1 DEF IInv, TypeOK
  <2> QED BY <1>1, <2>1, <2>2, <2>3, SetIInv DEF Failure, Calls, IInv, TypeOK, Place
<1>2. CASE /\ Retries(e)
           /\ call' = [call EXCEPT ![e] = At("failed", call[e].tries + 1)]
           /\ UNCHANGED <<row, due>>
  <2>1. call[e].tries + 1 \in 0..2
    BY <1>2 DEF Retries, IInv, TypeOK, Call, Calls
  <2> QED BY <1>2, <2>1, MoveIInv DEF Failure, Calls, Place, IInv, TypeOK, bounds
<1>3. CASE /\ DuplicateRow(e) \/ (Conflicts(e) /\ ~ Retries(e))
           /\ Goto(e, "raised")
           /\ UNCHANGED <<row, due>>
  BY <1>3, StopIInv DEF Failure, Calls, Place
<1> QED BY <1>1, <1>2, <1>3 DEF Failure

LEMMA SuccessIInv ==
    ASSUME IInv, NEW c \in Executors \cup Reconcilers, Success(c) PROVE IInv'
<1>1. CASE Set(c, Succeeded, "idle") /\ due' = FALSE /\ lapsed' = FALSE
  <2>1. Succeeded \in Row /\ (Succeeded.state = "closed" <=> Succeeded.failures < Threshold)
    BY WrittenRows DEF IInv, TypeOK, StateMatchesFailures
  <2> QED BY <1>1, <2>1, SetIInv DEF Success, Calls, Place
<1>2. CASE Conflicts(c) /\ Goto(c, "idle") /\ UNCHANGED <<row, due, lapsed>>
  BY <1>2, StopIInv DEF Success, Calls, Place
<1> QED BY <1>1, <1>2 DEF Success

LEMMA OverrideIInv == ASSUME IInv, NEW o \in Operators, Override(o) PROVE IInv'
<1>1. CASE Set(o, Overridden(call[o].copy), "idle") /\ lapsed' = FALSE
  <2>1. call[o].copy = row /\ row \in Row
    BY <1>1 DEF Set, CanSet, IInv, FreshIsCurrent, TypeOK, Calls
  <2>2. Overridden(row) \in Row
        /\ (Overridden(row).state = "closed" <=> Overridden(row).failures < Threshold)
    BY <2>1, WrittenRows DEF IInv, StateMatchesFailures
  <2> QED BY <1>1, <2>1, <2>2, SetIInv DEF Override, Calls, IInv, TypeOK, Place
<1>2. CASE Conflicts(o) /\ Goto(o, "idle") /\ UNCHANGED <<row, lapsed>>
  BY <1>2, StopIInv DEF Override, Calls, Place
<1> QED BY <1>1, <1>2 DEF Override

LEMMA ReadOverrideIInv == ASSUME IInv, NEW o \in Operators, ReadOverride(o) PROVE IInv'
<1>1. overrides' \in 0..MaxOverrides
  BY Numbers DEF ReadOverride, IInv, TypeOK
<1>2. call[o].tries \in 0..2 /\ row \in Row
  BY DEF IInv, TypeOK, Calls, Call
<1> DEFINE state == [at |-> "overriding", copy |-> row, fresh |-> TRUE, tries |-> call[o].tries]
<1>3. state \in Call /\ state.copy = row /\ state.at /= "probing"
  BY <1>2 DEF Call, Place
<1> QED BY <1>1, <1>3, GotoIInv DEF ReadOverride, Read, Calls, IInv, TypeOK

(* A report that reads the row it is about to change.                        *)
LEMMA ReadIInv ==
    ASSUME IInv, NEW c \in Calls, NEW at \in {"failing", "succeeding"}, Read(c, at),
           UNCHANGED <<row, due, lapsed, healthy, bounds>>
    PROVE  IInv'
<1>1. call[c].tries \in 0..2 /\ row \in Row
  BY DEF IInv, TypeOK, Calls, Call
<1> DEFINE state == [at |-> at, copy |-> row, fresh |-> TRUE, tries |-> call[c].tries]
<1>2. state \in Call /\ state.copy = row /\ state.at /= "probing"
  BY <1>1 DEF Call, Place
<1> QED BY <1>2, GotoIInv DEF Read, IInv, TypeOK, bounds

(* Time and the external system touch no process and no row.                 *)
LEMMA WorldIInv ==
    ASSUME IInv, CoolsDown \/ Lapses \/ Breaks \/ Heals PROVE IInv'
  BY DEF CoolsDown, Lapses, Breaks, Heals, IInv, TypeOK, StateMatchesFailures,
         FreshIsCurrent, ProbeIsDue, bounds

LEMMA NextIInv == IInv /\ [Next]_vars => IInv'
<1> SUFFICES ASSUME IInv, [Next]_vars PROVE IInv'
  OBVIOUS
<1>1. ASSUME NEW e \in Executors, Executes(e) PROVE IInv'
  <2>1. CASE Dispatch(e)
    BY <2>1, StopIInv DEF Dispatch, Calls, Place
  <2>2. CASE ReadFailed(e) \/ ReadSucceeded(e)
    BY <2>2, ReadIInv DEF ReadFailed, ReadSucceeded, Calls
  <2>3. CASE Raise(e)
    BY <2>3, StopIInv DEF Raise, Calls, Place
  <2> QED BY <1>1, <2>1, <2>2, <2>3, PreflightIInv, HalfOpenIInv, FailureIInv, SuccessIInv
             DEF Executes
<1>2. ASSUME NEW c \in Reconcilers, Reconciles(c) PROVE IInv'
  <2>1. CASE Reconcile(c)
    BY <2>1, StopIInv DEF Reconcile, Calls, Place
  <2>2. CASE ReadSucceeded(c)
    BY <2>2, ReadIInv DEF ReadSucceeded, Calls
  <2> QED BY <1>2, <2>1, <2>2, SuccessIInv DEF Reconciles
<1>3. ASSUME NEW o \in Operators, Overrides(o) PROVE IInv'
  BY <1>3, OverrideIInv, ReadOverrideIInv DEF Overrides
<1>4. ASSUME NEW c \in Calls, Dies(c) PROVE IInv'
  <2>1. crashes' \in 0..MaxCrashes
    BY <1>4, Numbers DEF Dies, IInv, TypeOK
  <2>2. 0 \in 0..2 /\ "idle" \in Place /\ call' = [call EXCEPT ![c] = At("idle", 0)]
    BY <1>4 DEF Dies, Goto, Place
  <2>3. UNCHANGED <<row, due, lapsed, healthy, overrides>>
    BY <1>4 DEF Dies
  <2> QED BY <2>1, <2>2, <2>3, MoveIInv
<1>5. CASE UNCHANGED vars
  BY <1>5 DEF vars, bounds, IInv, TypeOK, StateMatchesFailures, FreshIsCurrent, ProbeIsDue
<1> QED BY <1>1, <1>2, <1>3, <1>4, <1>5, WorldIInv DEF Next

-----------------------------------------------------------------------------
(* The invariant holds in every reachable state.                             *)
THEOREM Invariance == Spec => []IInv
  BY InitIInv, NextIInv, PTL DEF Spec

(* The row, the copies and the bounds keep their types.                      *)
THEOREM TypeCorrect == Spec => []TypeOK
  BY Invariance, PTL DEF IInv

(* The circuit of set_circuit is closed exactly below the threshold, for any *)
(* threshold and any number of workers that write it.                        *)
THEOREM StateFollowsFailures == Spec => []StateMatchesFailures
  BY Invariance, PTL DEF IInv

-----------------------------------------------------------------------------
(* Steps.                                                                    *)

(* The step that reports a failure and returns is the write of Failure.      *)
LEMMA ReportingStep ==
    ASSUME IInv, Next, crashes' = crashes,
           NEW e \in Executors, call[e].at = "failing", call'[e].at = "idle"
    PROVE  Set(e, Failed(call[e].copy), "idle")
<1>1. e \in Calls /\ call \in [Calls -> Call]
  BY DEF Calls, IInv, TypeOK
<1>2. \A x : [call EXCEPT ![e] = x][e] = x
  BY <1>1
<1>3. PICK c \in Calls : Executes(c) \/ Reconciles(c) \/ Overrides(c)
  BY Numbers DEF Next, Calls, Dies, CoolsDown, Lapses, Breaks, Heals, IInv, TypeOK
<1>4. ASSUME c /= e PROVE FALSE
  <2>1. ASSUME NEW state, call' = [call EXCEPT ![c] = state] PROVE call'[e] = call[e]
    BY <1>1, <1>4, <2>1
  <2>2. ASSUME NEW new, NEW at, Set(c, new, at) PROVE call'[e].at = call[e].at
    <3>1. call'[e] = [call[e] EXCEPT !.fresh = FALSE]
      BY <1>1, <1>4, <2>2 DEF Set
    <3>2. call[e] \in Call
      BY <1>1
    <3> QED BY <3>1, <3>2 DEF Call
  <2>3. ~ HalfOpen(c) /\ ~ Failure(c) /\ ~ Success(c) /\ ~ Override(c)
    BY <2>1, <2>2 DEF HalfOpen, Failure, Success, Override, Goto
  <2>4. ~ Preflight(c) /\ ~ Dispatch(c) /\ ~ ReadFailed(c) /\ ~ Raise(c)
    BY <2>1 DEF Preflight, Dispatch, ReadFailed, Raise, Goto, Read
  <2>5. ~ ReadSucceeded(c) /\ ~ Reconcile(c) /\ ~ ReadOverride(c)
    BY <2>1 DEF ReadSucceeded, Reconcile, ReadOverride, Goto, Read
  <2> QED BY <1>3, <2>3, <2>4, <2>5 DEF Executes, Reconciles, Overrides
<1>5. Failure(e)
  BY <1>3, <1>4 DEF Executes, Reconciles, Overrides, Preflight, HalfOpen, Dispatch, ReadFailed,
     Raise, ReadSucceeded, Success, Reconcile, ReadOverride, Override
<1>6. ~ (Goto(e, "raised")) /\ call' /= [call EXCEPT ![e] = At("failed", call[e].tries + 1)]
  BY <1>2 DEF Goto, At
<1> QED BY <1>5, <1>6 DEF Failure

(* circuit_failure adds one for every report that returns, however many      *)
(* workers report at once.                                                   *)
THEOREM NoFailureLost == Spec => FailuresAddUp
<1>1. IInv /\ [Next]_vars => [\A e \in Executors :
            call[e].at = "failing" /\ call'[e].at = "idle" /\ crashes' = crashes
            => row'.failures = IF row.failures < MaxFailures THEN row.failures + 1
                                                             ELSE row.failures]_vars
  <2> SUFFICES ASSUME IInv, Next, crashes' = crashes, NEW e \in Executors,
                      call[e].at = "failing", call'[e].at = "idle"
               PROVE  row'.failures = IF row.failures < MaxFailures THEN row.failures + 1
                                                                    ELSE row.failures
    OBVIOUS
  <2>1. Set(e, Failed(call[e].copy), "idle")
    BY ReportingStep
  <2>2. call[e].copy = row /\ row \in Row
    BY <2>1 DEF Set, CanSet, IInv, FreshIsCurrent, TypeOK, Calls
  <2> QED BY <2>1, <2>2 DEF Set, Failed, Row
<1> QED BY <1>1, Invariance, PTL DEF Spec, FailuresAddUp

(* circuit_preflight half-opens a circuit only after its cooldown.           *)
THEOREM CooldownKept == Spec => CooldownRespected
<1>1. IInv /\ [Next]_vars => [row.state = "open" /\ row'.state = "half_open" => due]_vars
  <2> SUFFICES ASSUME IInv, Next, row.state = "open", row'.state = "half_open"
               PROVE  due
    OBVIOUS
  <2>1. row' /= row
    OBVIOUS
  <2>2. PICK c \in Calls : HalfOpen(c) \/ Failure(c) \/ Success(c) \/ Override(c)
    BY <2>1 DEF Next, Executes, Reconciles, Overrides, Calls, Preflight, Dispatch, ReadFailed,
       Raise, ReadSucceeded, Reconcile, ReadOverride, Dies, CoolsDown, Lapses, Breaks, Heals
  <2>3. call[c].fresh => call[c].copy = row
    BY DEF IInv, FreshIsCurrent
  <2>4. CASE HalfOpen(c)
    BY <2>1, <2>4 DEF HalfOpen, Set, CanSet, IInv, ProbeIsDue
  <2>5. CASE Failure(c)
    BY <2>1, <2>3, <2>5 DEF Failure, Set, CanSet, Failed, IInv, TypeOK, Row
  <2>6. CASE Success(c)
    BY <2>1, <2>6 DEF Success, Set, Succeeded, Closed
  <2>7. CASE Override(c)
    BY <2>1, <2>3, <2>7 DEF Override, Set, CanSet, Overridden, IInv, TypeOK, Row
  <2> QED BY <2>2, <2>4, <2>5, <2>6, <2>7
<1> QED BY <1>1, Invariance, PTL DEF Spec, CooldownRespected
=============================================================================
