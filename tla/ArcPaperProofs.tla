---------------------------- MODULE ArcPaperProofs ----------------------------
(* Theorems about ArcPaper for any number of loops, reviewers, reconcilers,  *)
(* observers, faults and continuations.                                      *)
EXTENDS ArcPaper, TLAPS

Provisioned == mission.state = "paper_provisioning" => review.decided

TInv == TypeOK /\ Provisioned

(* What the events write is of its type.                                     *)
LEMMA MissionTypes ==
    ASSUME NEW m \in Mission, NEW s \in States, NEW a \in BOOLEAN, NEW b \in BOOLEAN
    PROVE  /\ [m EXCEPT !.state = s] \in Mission
           /\ [m EXCEPT !.state = s, !.validated = TRUE] \in Mission
           /\ [m EXCEPT !.state = s, !.validated = TRUE, !.tool = a, !.consumed = b] \in Mission
           /\ [m EXCEPT !.state = s, !.interrupted = FALSE, !.consumed = a] \in Mission
           /\ [m EXCEPT !.state = s, !.interrupted = TRUE] \in Mission
           /\ [m EXCEPT !.state = s, !.instance = TRUE] \in Mission
           /\ [m EXCEPT !.state = s, !.outcome = TRUE] \in Mission
  BY DEF Mission

LEMMA ToolTypes == ASSUME NEW m \in Mission PROVE [m EXCEPT !.tool = FALSE] \in Mission
  BY DEF Mission

LEMMA SeenTypes ==
    ASSUME NEW m \in Mission, NEW s \in States, NEW seen \in {"nothing", "running", "ended"}
    PROVE  [m EXCEPT !.state = s, !.seen = seen] \in Mission
  BY DEF Mission

LEMMA ReviewTypes ==
    ASSUME NEW p \in Review, NEW s \in Statuses, NEW t \in {"none", "start", "other"},
           NEW d \in BOOLEAN
    PROVE  /\ [p EXCEPT !.configured = TRUE] \in Review
           /\ [p EXCEPT !.status = s] \in Review
           /\ [p EXCEPT !.status = s, !.stage = t] \in Review
           /\ [p EXCEPT !.status = s, !.decided = TRUE] \in Review
           /\ [p EXCEPT !.status = s, !.decided = FALSE, !.stage = t] \in Review
  BY DEF Review

LEMMA BitProTypes ==
    ASSUME NEW b \in BitPro, NEW s \in {"none", "configured", "running", "ended"}
    PROVE  /\ [b EXCEPT !.session = s] \in BitPro
           /\ [b EXCEPT !.sent = @ + 1] \in BitPro
           /\ [b EXCEPT !.lane = TRUE] \in BitPro
<1>1. [b EXCEPT !.session = s] \in BitPro /\ [b EXCEPT !.sent = @ + 1] \in BitPro
  BY DEF BitPro
<1>2. [b EXCEPT !.lane = TRUE] \in BitPro
  BY DEF BitPro
<1> QED BY <1>1, <1>2

LEMMA FaultTyped ==
    ASSUME faults \in 0..MaxFaults
    PROVE  (Fault \/ UNCHANGED faults) => faults' \in 0..MaxFaults
  BY PaperAssumption DEF Fault

(* The initial state is well-typed.                                          *)
LEMMA InitTyped == Init => TInv
<1> SUFFICES ASSUME Init PROVE TInv
  OBVIOUS
<1>1. mission \in Mission /\ mission.state = "researching"
  BY DEF Init, Mission, States
<1>2. review \in Review /\ ~ review.decided /\ review.status = "none"
  BY DEF Init, Review, Statuses
<1>3. bitpro \in BitPro
  BY DEF Init, BitPro
<1>4. researcher \in [Researchers -> ResearcherAt]
  BY DEF Init, ResearcherAt
<1>5. /\ reviewer \in [Reviewers -> ReviewerAt]
      /\ reconciler \in [Reconcilers -> ReconcilerAt]
      /\ observer \in [Observers -> ObserverAt]
  BY DEF Init, ReviewerAt, ReconcilerAt, ObserverAt
<1>6. mode \in Modes /\ faults \in 0..MaxFaults /\ continues \in 0..MaxContinues
  BY PaperAssumption DEF Init
<1> QED BY <1>1, <1>2, <1>3, <1>4, <1>5, <1>6 DEF TInv, TypeOK, Provisioned

(* A step of a research loop that does not touch the review.                 *)
LEMMA ResearchTyped ==
    ASSUME TInv, NEW l \in Researchers, NEW at \in ResearcherAt, ResearchAt(l, at),
           mission' \in Mission, mission'.state = "paper_provisioning" => mission' = mission,
           Fault \/ UNCHANGED faults,
           UNCHANGED <<mode, review, bitpro, reviewer, reconciler, observer, continues>>
    PROVE  TInv'
<1>1. faults' \in 0..MaxFaults
  BY FaultTyped DEF TInv, TypeOK
<1>2. researcher' \in [Researchers -> ResearcherAt]
  BY DEF TInv, TypeOK, ResearchAt
<1> QED BY <1>1, <1>2 DEF TInv, TypeOK, Provisioned

(* A step of a reviewer that touches neither mission nor review.             *)
LEMMA ReviewTyped ==
    ASSUME TInv, NEW r \in Reviewers, NEW at \in ReviewerAt, ReviewAt(r, at),
           mission' \in Mission, review' \in Review, bitpro' \in BitPro,
           mission'.state = "paper_provisioning" => review'.decided,
           review'.decided <=> review'.status \notin {"none", "ready"},
           Fault \/ UNCHANGED faults,
           UNCHANGED <<mode, researcher, reconciler, observer, continues>>
    PROVE  TInv'
<1>1. faults' \in 0..MaxFaults
  BY FaultTyped DEF TInv, TypeOK
<1>2. reviewer' \in [Reviewers -> ReviewerAt]
  BY DEF TInv, TypeOK, ReviewAt
<1> QED BY <1>1, <1>2 DEF TInv, TypeOK, Provisioned

LEMMA LoopSteps ==
    ASSUME TInv, NEW l \in Researchers
    PROVE  /\ BeginAvo(l) \/ BeginArc(l) => TInv'
           /\ SelfTest(l) => TInv'
           /\ GiveUp(l) => TInv'
           /\ Recover(l) => TInv'
           /\ BuildPackage(l) \/ Finish(l) => TInv'
           /\ RequestReview(l) => TInv'
           /\ Interrupt(l) => TInv'
<1> USE DEF ResearcherAt
<1>0. mission \in Mission /\ review \in Review
  BY DEF TInv, TypeOK
<1>1. BeginAvo(l) \/ BeginArc(l) => TInv'
  <2>1. CASE BeginAvo(l)
    BY <1>0, <2>1, ResearchTyped DEF BeginAvo, RecoversFrom
  <2>2. CASE BeginArc(l)
    BY <1>0, <2>2, ResearchTyped DEF BeginArc
  <2> QED BY <2>1, <2>2
<1>2. SelfTest(l) => TInv'
  <2> SUFFICES ASSUME SelfTest(l) PROVE TInv'
    OBVIOUS
  <2>1. mission' \in Mission
    BY <1>0, MissionTypes DEF SelfTest, States
  <2>2. mission'.state = "paper_authorizing"
    BY <1>0 DEF SelfTest, Mission
  <2> QED BY <2>1, <2>2, ResearchTyped DEF SelfTest
<1>3. GiveUp(l) => TInv'
  <2> SUFFICES ASSUME GiveUp(l) PROVE TInv'
    OBVIOUS
  <2>1. PICK final \in BOOLEAN :
           mission' = [mission EXCEPT !.state = "needs_operator", !.interrupted = FALSE,
                                      !.consumed = @ \/ (mode = "avo" /\ final)]
    BY DEF GiveUp
  <2> DEFINE c == mission.consumed \/ (mode = "avo" /\ final)
  <2>2. c \in BOOLEAN
    BY <1>0 DEF Mission
  <2>3. mission' = [mission EXCEPT !.state = "needs_operator", !.interrupted = FALSE, !.consumed = c]
    BY <2>1
  <2> HIDE DEF c
  <2>4. mission' \in Mission
    BY <1>0, <2>2, <2>3, MissionTypes DEF States
  <2>5. mission'.state = "needs_operator"
    BY <1>0, <2>3 DEF Mission
  <2> QED BY <2>4, <2>5, ResearchTyped DEF GiveUp
<1>4. Recover(l) => TInv'
  <2> SUFFICES ASSUME Recover(l) PROVE TInv'
    OBVIOUS
  <2>1. mission' \in Mission
    BY <1>0, MissionTypes DEF Recover, States
  <2>2. mission'.state = "paper_authorizing"
    BY <1>0 DEF Recover, Mission
  <2> QED BY <2>1, <2>2, ResearchTyped DEF Recover
<1>5. BuildPackage(l) \/ Finish(l) => TInv'
  <2>1. CASE BuildPackage(l)
    BY <1>0, <2>1, ResearchTyped DEF BuildPackage
  <2>2. CASE Finish(l)
    <3>1. mission' \in Mission
      BY <1>0, <2>2, ToolTypes DEF Finish
    <3>2. mission'.state = mission.state
      BY <1>0, <2>2 DEF Finish, Mission
    <3>3. researcher' \in [Researchers -> ResearcherAt]
      BY <2>2 DEF Finish, ResearchAt, TInv, TypeOK
    <3> QED BY <2>2, <3>1, <3>2, <3>3 DEF Finish, TInv, TypeOK, Provisioned
  <2> QED BY <2>1, <2>2
<1>6. RequestReview(l) => TInv'
  <2> SUFFICES ASSUME RequestReview(l) PROVE TInv'
    OBVIOUS
  <2>1. review' \in Review
    BY <1>0, ReviewTypes DEF RequestReview, Statuses
  <2>2. review'.status = "ready" /\ ~ review'.decided
    BY <1>0 DEF RequestReview, Review
  <2>3. mission' \in Mission
    BY <1>0, MissionTypes DEF RequestReview, Moved, States
  <2>4. mission'.state = "paper_review_ready"
    BY <1>0 DEF RequestReview, Moved, Mission
  <2>5. researcher' \in [Researchers -> ResearcherAt]
    BY DEF RequestReview, ResearchAt, TInv, TypeOK
  <2> QED BY <2>1, <2>2, <2>3, <2>4, <2>5 DEF RequestReview, TInv, TypeOK, Provisioned
<1>7. Interrupt(l) => TInv'
  <2> SUFFICES ASSUME Interrupt(l) PROVE TInv'
    OBVIOUS
  <2>1. mission' \in Mission
    BY <1>0, MissionTypes DEF Interrupt, States
  <2>2. mission'.state = "needs_operator"
    BY <1>0 DEF Interrupt, Mission
  <2> QED BY <2>1, <2>2, ResearchTyped DEF Interrupt
<1> QED BY <1>1, <1>2, <1>3, <1>4, <1>5, <1>6, <1>7

(* A reviewer that only moves on.                                            *)
LEMMA ReviewMoves ==
    ASSUME TInv, NEW r \in Reviewers, NEW at \in ReviewerAt, ReviewAt(r, at),
           UNCHANGED <<mission, review>>, bitpro' \in BitPro, Fault \/ UNCHANGED faults,
           UNCHANGED <<mode, researcher, reconciler, observer, continues>>
    PROVE  TInv'
  BY ReviewTyped DEF TInv, TypeOK, Provisioned

LEMMA ReviewSteps ==
    ASSUME TInv, NEW r \in Reviewers
    PROVE  /\ Approve(r) => TInv'
           /\ Reject(r) => TInv'
           /\ ReadSource(r) \/ ConfigureRefused(r) \/ StartAnswered(r) \/ JournalStart(r) => TInv'
           /\ Configure(r) => TInv'
           /\ JournalReceipt(r) => TInv'
           /\ SendStart(r) => TInv'
           /\ EffectSucceeds(r) => TInv'
           /\ EffectUnknown(r) => TInv'
<1> USE DEF ReviewerAt
<1>0. mission \in Mission /\ review \in Review /\ bitpro \in BitPro
  BY DEF TInv, TypeOK
<1>1. Approve(r) => TInv'
  <2> SUFFICES ASSUME Approve(r) PROVE TInv'
    OBVIOUS
  <2>1. review' \in Review
    BY <1>0, ReviewTypes DEF Approve, Claimed, Statuses
  <2>2. review'.status = "approved_pending_effect" /\ review'.decided
    BY <1>0 DEF Approve, Claimed, Review
  <2>3. mission' \in Mission
    BY <1>0, MissionTypes DEF Approve, Moved, States
  <2> QED BY <1>0, <2>1, <2>2, <2>3, ReviewTyped DEF Approve
<1>2. Reject(r) => TInv'
  <2> SUFFICES ASSUME Reject(r) PROVE TInv'
    OBVIOUS
  <2>1. review' \in Review
    BY <1>0, ReviewTypes DEF Reject, Claimed, Statuses
  <2>2. review'.status = "rejected" /\ review'.decided
    BY <1>0 DEF Reject, Claimed, Review
  <2>3. mission' \in Mission
    BY <1>0, MissionTypes DEF Reject, Moved, States
  <2> QED BY <2>1, <2>2, <2>3 DEF Reject, TInv, TypeOK, Provisioned
<1>3. ReadSource(r) \/ ConfigureRefused(r) \/ StartAnswered(r) \/ JournalStart(r) => TInv'
  <2>1. CASE ReadSource(r)
    BY <1>0, <2>1, ReviewMoves DEF ReadSource
  <2>2. CASE ConfigureRefused(r)
    BY <1>0, <2>2, ReviewMoves DEF ConfigureRefused
  <2>3. CASE StartAnswered(r)
    BY <1>0, <2>3, ReviewMoves DEF StartAnswered
  <2>4. CASE JournalStart(r)
    BY <1>0, <2>4, ReviewMoves DEF JournalStart
  <2> QED BY <2>1, <2>2, <2>3, <2>4
<1>4. Configure(r) => TInv'
  <2> SUFFICES ASSUME Configure(r) PROVE TInv'
    OBVIOUS
  <2>1. bitpro' \in BitPro
    BY <1>0 DEF Configure, BitPro
  <2> QED BY <2>1, ReviewMoves DEF Configure
<1>5. JournalReceipt(r) => TInv'
  <2> SUFFICES ASSUME JournalReceipt(r) PROVE TInv'
    OBVIOUS
  <2>1. review' = [review EXCEPT !.configured = TRUE] \/ review' = review
    BY DEF JournalReceipt
  <2>2. review' \in Review
    BY <1>0, <2>1, ReviewTypes DEF Statuses
  <2>3. review'.status = review.status /\ review'.decided = review.decided
    BY <1>0, <2>1 DEF Review
  <2> QED BY <1>0, <2>2, <2>3, ReviewTyped DEF JournalReceipt, TInv, TypeOK, Provisioned
<1>6. SendStart(r) => TInv'
  <2> SUFFICES ASSUME SendStart(r) PROVE TInv'
    OBVIOUS
  <2>1. bitpro' \in BitPro
    BY <1>0, BitProTypes DEF SendStart
  <2> QED BY <2>1, ReviewMoves DEF SendStart
<1>7. EffectSucceeds(r) => TInv'
  <2> SUFFICES ASSUME EffectSucceeds(r) PROVE TInv'
    OBVIOUS
  <2>1. CASE mission.state = "paper_provisioning"
    <3>1. review' \in Review
      BY <1>0, <2>1, ReviewTypes DEF EffectSucceeds, Statuses
    <3>2. review'.status = "paper_observing" /\ review'.decided
      BY <1>0, <2>1 DEF EffectSucceeds, Review, TInv, Provisioned
    <3>3. mission' \in Mission
      BY <1>0, <2>1, MissionTypes DEF EffectSucceeds, States
    <3> QED BY <1>0, <3>1, <3>2, <3>3, ReviewTyped DEF EffectSucceeds
  <2>2. CASE mission.state /= "paper_provisioning"
    BY <1>0, <2>2, ReviewMoves DEF EffectSucceeds
  <2> QED BY <2>1, <2>2
<1>8. EffectUnknown(r) => TInv'
  <2> SUFFICES ASSUME EffectUnknown(r) PROVE TInv'
    OBVIOUS
  <2>1. CASE mission.state = "paper_provisioning"
    <3>1. review' \in Review
      BY <1>0, <2>1, ReviewTypes DEF EffectUnknown, Statuses
    <3>2. review'.status = "effect_unknown" /\ review'.decided
      BY <1>0, <2>1 DEF EffectUnknown, Review, TInv, Provisioned
    <3>3. mission' \in Mission
      BY <1>0, <2>1, MissionTypes DEF EffectUnknown, Moved, States
    <3> QED BY <1>0, <3>1, <3>2, <3>3, ReviewTyped DEF EffectUnknown
  <2>2. CASE mission.state /= "paper_provisioning"
    BY <1>0, <2>2, ReviewMoves DEF EffectUnknown
  <2> QED BY <2>1, <2>2
<1> QED BY <1>1, <1>2, <1>3, <1>4, <1>5, <1>6, <1>7, <1>8

LEMMA SweepSteps ==
    ASSUME TInv
    PROVE  /\ Continue => TInv'
           /\ \A q \in Reconcilers : ReadSession(q) \/ Adopt(q) => TInv'
           /\ \A o \in Observers : Collect(o) \/ Record(o) \/ EndObservation(o) => TInv'
           /\ SessionStarts \/ SessionEnds \/ RaceFinishes => TInv'
           /\ Dies => TInv'
<1>0. mission \in Mission /\ review \in Review /\ bitpro \in BitPro
  BY DEF TInv, TypeOK
<1>1. Continue => TInv'
  <2> SUFFICES ASSUME Continue PROVE TInv'
    OBVIOUS
  <2>1. mission' = [mission EXCEPT !.state = "researching"] \/ mission' = mission
    BY DEF Continue, Moved
  <2>2. mission' \in Mission
    BY <1>0, <2>1, MissionTypes DEF States
  <2>3. mission'.state = "paper_provisioning" => mission.state = "paper_provisioning"
    BY <1>0, <2>1 DEF Mission
  <2>4. researcher' \in [Researchers -> ResearcherAt]
    BY DEF Continue, ResearchAt, ResearcherAt, TInv, TypeOK
  <2>5. continues' \in 0..MaxContinues
    BY PaperAssumption DEF Continue, TInv, TypeOK
  <2> QED BY <2>2, <2>3, <2>4, <2>5 DEF Continue, TInv, TypeOK, Provisioned
<1>2. ASSUME NEW q \in Reconcilers PROVE ReadSession(q) \/ Adopt(q) => TInv'
  <2>1. CASE ReadSession(q)
    BY <2>1 DEF ReadSession, ReconcilerAt, TInv, TypeOK, Provisioned
  <2>2. CASE Adopt(q) /\ Parked
    <3>1. review' \in Review
      BY <1>0, <2>2, ReviewTypes DEF Adopt, Statuses
    <3>2. review'.status = "paper_observing" /\ review'.decided
      BY <1>0, <2>2 DEF Adopt, Parked, Review, TInv, TypeOK
    <3>3. mission' \in Mission
      BY <1>0, <2>2, MissionTypes DEF Adopt, States
    <3>4. reconciler' \in [Reconcilers -> ReconcilerAt]
      BY <2>2 DEF Adopt, ReconcilerAt, TInv, TypeOK
    <3> QED BY <2>2, <3>1, <3>2, <3>3, <3>4 DEF Adopt, TInv, TypeOK, Provisioned
  <2>3. CASE Adopt(q) /\ ~ Parked
    BY <2>3 DEF Adopt, ReconcilerAt, TInv, TypeOK, Provisioned
  <2> QED BY <2>1, <2>2, <2>3
<1>3. ASSUME NEW o \in Observers
      PROVE Collect(o) \/ Record(o) \/ EndObservation(o) => TInv'
  <2>1. CASE Collect(o)
    BY <2>1 DEF Collect, ObserveAt, ObserverAt, TInv, TypeOK, Provisioned
  <2>2. CASE Record(o)
    <3>1. mission' \in Mission
      BY <1>0, <2>2, SeenTypes DEF Record, States
    <3>2. mission'.state = "paper_observing"
      BY <1>0, <2>2 DEF Record, Mission
    <3>3. observer' \in [Observers -> ObserverAt]
      BY <2>2 DEF Record, ObserveAt, ObserverAt, TInv, TypeOK
    <3> QED BY <2>2, <3>1, <3>2, <3>3 DEF Record, TInv, TypeOK, Provisioned
  <2>3. CASE EndObservation(o)
    <3>1. mission' \in Mission
      BY <1>0, <2>3, MissionTypes DEF EndObservation, States
    <3>2. mission'.state = "completed"
      BY <1>0, <2>3 DEF EndObservation, Mission
    <3> QED BY <2>3, <3>1, <3>2 DEF EndObservation, TInv, TypeOK, Provisioned
  <2> QED BY <2>1, <2>2, <2>3
<1>4. SessionStarts \/ SessionEnds \/ RaceFinishes => TInv'
  <2> SUFFICES ASSUME SessionStarts \/ SessionEnds \/ RaceFinishes PROVE TInv'
    OBVIOUS
  <2>1. bitpro' \in BitPro
    BY <1>0, BitProTypes DEF SessionStarts, SessionEnds, RaceFinishes
  <2> QED BY <2>1 DEF SessionStarts, SessionEnds, RaceFinishes, TInv, TypeOK, Provisioned
<1>5. Dies => TInv'
  <2> SUFFICES ASSUME Dies PROVE TInv'
    OBVIOUS
  <2>1. faults' \in 0..MaxFaults
    BY FaultTyped DEF Dies, TInv, TypeOK
  <2>2. /\ researcher' \in [Researchers -> ResearcherAt]
        /\ reviewer' \in [Reviewers -> ReviewerAt]
        /\ reconciler' \in [Reconcilers -> ReconcilerAt]
        /\ observer' \in [Observers -> ObserverAt]
    BY DEF Dies, ResearchAt, ReviewAt, ObserveAt, ResearcherAt, ReviewerAt, ReconcilerAt,
           ObserverAt, TInv, TypeOK
  <2> QED BY <2>1, <2>2 DEF Dies, TInv, TypeOK, Provisioned
<1> QED BY <1>1, <1>2, <1>3, <1>4, <1>5

(* Every reachable state is well-typed.                                      *)
LEMMA Typed == Spec => []TInv
<1>1. TInv /\ [Next]_vars => TInv'
  <2> SUFFICES ASSUME TInv, [Next]_vars PROVE TInv'
    OBVIOUS
  <2>1. ASSUME NEW l \in Researchers,
               \/ BeginAvo(l) \/ BeginArc(l) \/ SelfTest(l) \/ GiveUp(l)
               \/ Recover(l) \/ BuildPackage(l) \/ RequestReview(l) \/ Finish(l) \/ Interrupt(l)
        PROVE  TInv'
    BY <2>1, LoopSteps
  <2>2. ASSUME NEW r \in Reviewers,
               \/ Approve(r) \/ Reject(r) \/ ReadSource(r)
               \/ Configure(r) \/ ConfigureRefused(r) \/ JournalReceipt(r)
               \/ SendStart(r) \/ StartAnswered(r) \/ JournalStart(r)
               \/ EffectSucceeds(r) \/ EffectUnknown(r)
        PROVE  TInv'
    BY <2>2, ReviewSteps
  <2>3. ASSUME \/ Continue \/ SessionStarts \/ SessionEnds \/ RaceFinishes \/ Dies
               \/ \E q \in Reconcilers : ReadSession(q) \/ Adopt(q)
               \/ \E o \in Observers : Collect(o) \/ Record(o) \/ EndObservation(o)
        PROVE  TInv'
    BY <2>3, SweepSteps
  <2>4. CASE UNCHANGED vars
    BY <2>4 DEF vars, TInv, TypeOK, Provisioned
  <2> QED BY <2>1, <2>2, <2>3, <2>4 DEF Next
<1> QED BY <1>1, InitTyped, PTL DEF Spec

(* Type correctness; a review carries a decision exactly when its status     *)
(* says so.                                                                  *)
THEOREM TypeCorrect == Spec => []TypeOK
<1>1. TInv => TypeOK
  BY DEF TInv
<1> QED BY <1>1, Typed, PTL

-----------------------------------------------------------------------------
(* One start.  One loop at a time reads that there is no package and         *)
(* requests one, so that a review in decision is never replaced; hence one   *)
(* request at a time acts on an approval, and what precedes its start has    *)
(* sent none.                                                                *)

OneLoopAtATime == ~ LoopsOverlap \/ "arc" \notin Modes

LoneLoop ==
    \A l, g \in Researchers : researcher[l] /= "idle" /\ researcher[g] /= "idle" => l = g

NothingReplaced ==
    /\ \A l \in Researchers : researcher[l] = "requesting" => review.status = "none"
    /\ review.status = "none" => mission.state \notin {"paper_review_ready", "paper_provisioning"}

LoneReview ==
    /\ \A r \in Reviewers : reviewer[r] /= "idle" => review.decided
    /\ \A r, s \in Reviewers : reviewer[r] /= "idle" /\ reviewer[s] /= "idle" => r = s

Unsent ==
    /\ bitpro.sent \in {0, 1}
    /\ ~ review.decided => bitpro.sent = 0
    /\ \A r \in Reviewers :
          reviewer[r] \in {"source", "configure", "receipt", "start"} => bitpro.sent = 0

SInv == LoneLoop /\ NothingReplaced /\ LoneReview /\ Unsent

LEMMA InitSInv == Init => SInv
  BY DEF Init, SInv, LoneLoop, NothingReplaced, LoneReview, Unsent

LEMMA LoopsKeepSInv ==
    ASSUME TInv, SInv, NEW l \in Researchers
    PROVE  /\ BeginAvo(l) => SInv'
           /\ BeginArc(l) => SInv'
           /\ SelfTest(l) => SInv'
           /\ GiveUp(l) => SInv'
           /\ Recover(l) => SInv'
           /\ BuildPackage(l) => SInv'
           /\ RequestReview(l) => SInv'
           /\ Finish(l) => SInv'
           /\ Interrupt(l) => SInv'
<1> USE DEF SInv, LoneLoop, NothingReplaced, LoneReview, Unsent, ResearchAt, TInv, TypeOK
<1>1. BeginAvo(l) => SInv'
  BY DEF BeginAvo, RecoversFrom
<1>2. BeginArc(l) => SInv'
  BY DEF BeginArc
<1>3. SelfTest(l) => SInv'
  BY DEF SelfTest, Mission
<1>4. GiveUp(l) => SInv'
  BY DEF GiveUp, Mission
<1>5. Recover(l) => SInv'
  BY DEF Recover, Mission
<1>6. BuildPackage(l) => SInv'
  BY DEF BuildPackage, Requests
<1>7. RequestReview(l) => SInv'
  BY DEF RequestReview, Review, Moved, Mission
<1>8. Finish(l) => SInv'
  BY DEF Finish, Mission
<1>9. Interrupt(l) => SInv'
  BY DEF Interrupt, Mission
<1> QED BY <1>1, <1>2, <1>3, <1>4, <1>5, <1>6, <1>7, <1>8, <1>9

LEMMA ReviewsKeepSInv ==
    ASSUME TInv, SInv, NEW r \in Reviewers
    PROVE  /\ Approve(r) => SInv'
           /\ Reject(r) => SInv'
           /\ ReadSource(r) => SInv'
           /\ Configure(r) => SInv'
           /\ ConfigureRefused(r) => SInv'
           /\ JournalReceipt(r) => SInv'
           /\ SendStart(r) => SInv'
           /\ StartAnswered(r) => SInv'
           /\ JournalStart(r) => SInv'
           /\ EffectSucceeds(r) => SInv'
           /\ EffectUnknown(r) => SInv'
<1> USE DEF SInv, LoneLoop, NothingReplaced, LoneReview, Unsent, ReviewAt, TInv, TypeOK
<1>1. Approve(r) => SInv'
  BY DEF Approve, Decidable, Claimed, Moved, Review, Mission
<1>2. Reject(r) => SInv'
  BY DEF Reject, Decidable, Claimed, Moved, Review, Mission
<1>3. ReadSource(r) => SInv'
  BY DEF ReadSource
<1>4. Configure(r) => SInv'
  BY DEF Configure, BitPro
<1>5. ConfigureRefused(r) => SInv'
  BY DEF ConfigureRefused
<1>6. JournalReceipt(r) => SInv'
  BY DEF JournalReceipt, Review
<1>7. SendStart(r) => SInv'
  BY DEF SendStart, BitPro
<1>8. StartAnswered(r) => SInv'
  BY DEF StartAnswered
<1>9. JournalStart(r) => SInv'
  BY DEF JournalStart
<1>10. EffectSucceeds(r) => SInv'
  BY DEF EffectSucceeds, Review, Mission, Provisioned
<1>11. EffectUnknown(r) => SInv'
  <2> SUFFICES ASSUME EffectUnknown(r) PROVE SInv'
    OBVIOUS
  <2>1. CASE mission.state = "paper_provisioning"
    <3>1. review'.status = "effect_unknown" /\ review'.decided /\ review.decided
      BY <2>1 DEF EffectUnknown, Review, Provisioned
    <3>2. mission'.state = "needs_operator"
      BY <2>1 DEF EffectUnknown, Moved, Mission
    <3>3. \A l \in Researchers : researcher[l] /= "requesting"
      BY <2>1
    <3> QED BY <3>1, <3>2, <3>3 DEF EffectUnknown
  <2>2. CASE mission.state /= "paper_provisioning"
    BY <2>2 DEF EffectUnknown
  <2> QED BY <2>1, <2>2
<1> QED BY <1>1, <1>2, <1>3, <1>4, <1>5, <1>6, <1>7, <1>8, <1>9, <1>10, <1>11

LEMMA SweepsKeepSInv ==
    ASSUME OneLoopAtATime, TInv, SInv
    PROVE  /\ Continue => SInv'
           /\ \A q \in Reconcilers : ReadSession(q) \/ Adopt(q) => SInv'
           /\ \A o \in Observers : Collect(o) \/ Record(o) \/ EndObservation(o) => SInv'
           /\ SessionStarts \/ SessionEnds \/ RaceFinishes => SInv'
           /\ Dies => SInv'
<1> USE DEF SInv, LoneLoop, NothingReplaced, LoneReview, Unsent, TInv, TypeOK
<1>1. Continue => SInv'
  BY DEF Continue, OneLoopAtATime, Moved, Mission, ResearchAt
<1>2. ASSUME NEW q \in Reconcilers PROVE ReadSession(q) \/ Adopt(q) => SInv'
  BY DEF ReadSession, Adopt, Parked, Review, Mission
<1>3. ASSUME NEW o \in Observers
      PROVE Collect(o) \/ Record(o) \/ EndObservation(o) => SInv'
  <2>1. CASE Collect(o)
    BY <2>1 DEF Collect
  <2>2. CASE Record(o)
    BY <2>2 DEF Record, Mission
  <2>3. CASE EndObservation(o)
    BY <2>3 DEF EndObservation, Mission
  <2> QED BY <2>1, <2>2, <2>3
<1>4. SessionStarts \/ SessionEnds \/ RaceFinishes => SInv'
  BY DEF SessionStarts, SessionEnds, RaceFinishes, BitPro
<1>5. Dies => SInv'
  BY DEF Dies, ResearchAt, ReviewAt, ObserveAt
<1> QED BY <1>1, <1>2, <1>3, <1>4, <1>5

(* Unless arc loops of one mission overlap, the approved candidate is        *)
(* started at most once, whatever processes die, however many requests       *)
(* decide and whatever is recovered, continued or reconciled.                *)
THEOREM StartedAtMostOnce ==
    ASSUME OneLoopAtATime PROVE Spec => []StartedOnce
<1>1. TInv /\ SInv /\ [Next]_vars => SInv'
  <2> SUFFICES ASSUME TInv, SInv, [Next]_vars PROVE SInv'
    OBVIOUS
  <2>1. CASE UNCHANGED vars
    BY <2>1 DEF vars, SInv, LoneLoop, NothingReplaced, LoneReview, Unsent
  <2>2. CASE Next
    BY <2>2, LoopsKeepSInv, ReviewsKeepSInv, SweepsKeepSInv DEF Next
  <2> QED BY <2>1, <2>2
<1>2. SInv => StartedOnce
  BY DEF SInv, Unsent, StartedOnce
<1> QED BY <1>1, <1>2, InitSInv, Typed, PTL DEF Spec

-----------------------------------------------------------------------------
(* Truth.  Whoever is about to say that the session runs, or has ended, has  *)
(* seen it, and BitPro never takes that back.                                *)

Started == bitpro.session \in {"running", "ended"}

Witnessed ==
    /\ \A r \in Reviewers : reviewer[r] \in {"confirm", "succeeded"} => Started
    /\ \A q \in Reconcilers : reconciler[q] = "adopting" => Started
    /\ \A o \in Observers :
          /\ observer[o] /= "idle" => mission.instance
          /\ observer[o] = "saw_ended" => bitpro.session = "ended"

Recorded ==
    /\ mission.instance => Started
    /\ mission.seen = "ended" => bitpro.session = "ended"

WInv == MissionTellsTheTruth /\ Witnessed /\ Recorded

LEMMA InitWInv == Init => WInv
  BY DEF Init, WInv, MissionTellsTheTruth, Witnessed, Recorded

LEMMA LoopsKeepWInv ==
    ASSUME TInv, WInv, NEW l \in Researchers
    PROVE  /\ BeginAvo(l) => WInv'
           /\ BeginArc(l) => WInv'
           /\ SelfTest(l) => WInv'
           /\ GiveUp(l) => WInv'
           /\ Recover(l) => WInv'
           /\ BuildPackage(l) => WInv'
           /\ RequestReview(l) => WInv'
           /\ Finish(l) => WInv'
           /\ Interrupt(l) => WInv'
<1> USE DEF WInv, MissionTellsTheTruth, Witnessed, Recorded, Started, TInv, TypeOK
<1>1. BeginAvo(l) => WInv'
  BY DEF BeginAvo
<1>2. BeginArc(l) => WInv'
  BY DEF BeginArc
<1>3. SelfTest(l) => WInv'
  BY DEF SelfTest, Mission
<1>4. GiveUp(l) => WInv'
  BY DEF GiveUp, Mission
<1>5. Recover(l) => WInv'
  BY DEF Recover, Mission
<1>6. BuildPackage(l) => WInv'
  BY DEF BuildPackage
<1>7. RequestReview(l) => WInv'
  BY DEF RequestReview, Moved, Mission
<1>8. Finish(l) => WInv'
  BY DEF Finish, Mission
<1>9. Interrupt(l) => WInv'
  BY DEF Interrupt, Mission
<1> QED BY <1>1, <1>2, <1>3, <1>4, <1>5, <1>6, <1>7, <1>8, <1>9

LEMMA ReviewsKeepWInv ==
    ASSUME TInv, WInv, NEW r \in Reviewers
    PROVE  /\ Approve(r) => WInv'
           /\ Reject(r) => WInv'
           /\ ReadSource(r) => WInv'
           /\ Configure(r) => WInv'
           /\ ConfigureRefused(r) => WInv'
           /\ JournalReceipt(r) => WInv'
           /\ SendStart(r) => WInv'
           /\ StartAnswered(r) => WInv'
           /\ JournalStart(r) => WInv'
           /\ EffectSucceeds(r) => WInv'
           /\ EffectUnknown(r) => WInv'
<1> USE DEF WInv, MissionTellsTheTruth, Witnessed, Recorded, Started, ReviewAt, TInv, TypeOK
<1>1. Approve(r) => WInv'
  BY DEF Approve, Moved, Mission
<1>2. Reject(r) => WInv'
  BY DEF Reject, Moved, Mission
<1>3. ReadSource(r) => WInv'
  BY DEF ReadSource
<1>4. Configure(r) => WInv'
  BY DEF Configure, BitPro
<1>5. ConfigureRefused(r) => WInv'
  BY DEF ConfigureRefused
<1>6. JournalReceipt(r) => WInv'
  BY DEF JournalReceipt
<1>7. SendStart(r) => WInv'
  BY DEF SendStart, BitPro
<1>8. StartAnswered(r) => WInv'
  BY DEF StartAnswered
<1>9. JournalStart(r) => WInv'
  BY DEF JournalStart
<1>10. EffectSucceeds(r) => WInv'
  BY DEF EffectSucceeds, Mission
<1>11. EffectUnknown(r) => WInv'
  BY DEF EffectUnknown, Mission, Moved
<1> QED BY <1>1, <1>2, <1>3, <1>4, <1>5, <1>6, <1>7, <1>8, <1>9, <1>10, <1>11

LEMMA SweepsKeepWInv ==
    ASSUME TInv, WInv
    PROVE  /\ Continue => WInv'
           /\ \A q \in Reconcilers : ReadSession(q) \/ Adopt(q) => WInv'
           /\ \A o \in Observers : Collect(o) \/ Record(o) \/ EndObservation(o) => WInv'
           /\ SessionStarts \/ SessionEnds \/ RaceFinishes => WInv'
           /\ Dies => WInv'
<1> USE DEF WInv, MissionTellsTheTruth, Witnessed, Recorded, Started, TInv, TypeOK
<1>1. Continue => WInv'
  BY DEF Continue, Moved, Mission
<1>2. ASSUME NEW q \in Reconcilers PROVE ReadSession(q) \/ Adopt(q) => WInv'
  BY DEF ReadSession, Adoptable, Adopt, Mission
<1>3. ASSUME NEW o \in Observers
      PROVE Collect(o) \/ Record(o) \/ EndObservation(o) => WInv'
  BY DEF Collect, Record, EndObservation, Ended, ObserveAt, Mission
<1>4. SessionStarts \/ SessionEnds \/ RaceFinishes => WInv'
  BY DEF SessionStarts, SessionEnds, RaceFinishes, BitPro
<1>5. Dies => WInv'
  BY DEF Dies, ResearchAt, ReviewAt, ObserveAt
<1> QED BY <1>1, <1>2, <1>3, <1>4, <1>5

(* A mission that says it observes or has completed has an instance that     *)
(* BitPro started, and one with an outcome a session or race that ended.     *)
THEOREM TellsTheTruth == Spec => []MissionTellsTheTruth
<1>1. TInv /\ WInv /\ [Next]_vars => WInv'
  <2> SUFFICES ASSUME TInv, WInv, [Next]_vars PROVE WInv'
    OBVIOUS
  <2>1. CASE UNCHANGED vars
    BY <2>1 DEF vars, WInv, MissionTellsTheTruth, Witnessed, Recorded, Started
  <2>2. CASE Next
    BY <2>2, LoopsKeepWInv, ReviewsKeepWInv, SweepsKeepWInv DEF Next
  <2> QED BY <2>1, <2>2
<1>2. WInv => MissionTellsTheTruth
  BY DEF WInv
<1> QED BY <1>1, <1>2, InitWInv, Typed, PTL DEF Spec
=============================================================================
