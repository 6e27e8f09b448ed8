------------------------------ MODULE ArcPaper -------------------------------
(* From a validated candidate to its Paper session: research (arc/avo.py,    *)
(* arc/router.py), the version-bound review and the two external writes that *)
(* an approval makes (arc/paper_review.py, arc/incubation.py), the adoption  *)
(* of a start whose outcome is unknown (arc/paper_effect_reconcile.py) and   *)
(* the observation of the session until it ends (arc/observation.py,         *)
(* arc/observation_exit.py), with the reducer of arc/controller.py.          *)
(*                                                                           *)
(* One mission that requires a review, whose projection is the committed one *)
(* of ArcStore: an event is reduced atomically.  It has one candidate, so    *)
(* that package hashes always agree.  The states of the search are one state *)
(* here, "researching".                                                      *)
EXTENDS Naturals

CONSTANTS
    Researchers,   \* research loops of the mission
    Reviewers,     \* requests of a human or of the automatic review
    Reconcilers,   \* sweeps that look for unknown starts
    Observers,     \* sweeps that observe missions
    Modes,         \* research modes of the mission: "avo", "arc"
    MaxFaults,     \* bound: crashes, interruptions and lost answers
    MaxContinues,  \* bound: times the operator continues the research
    LoopsOverlap   \* bound: whether an arc mission is continued while a loop runs

ASSUME PaperAssumption ==
    /\ Modes \subseteq {"avo", "arc"}
    /\ MaxFaults \in Nat /\ MaxContinues \in Nat /\ LoopsOverlap \in BOOLEAN

VARIABLES
    mode,          \* the research mode of the mission
    mission,       \* the projection outside its review
    review,        \* paper_review and the receipts in the journal
    bitpro,        \* external: the session, and the verdict on its race lane
    researcher, reviewer, reconciler, observer,
    faults, continues

vars == <<mode, mission, review, bitpro, researcher, reviewer, reconciler, observer,
          faults, continues>>

States == {"researching", "paper_authorizing", "paper_review_ready", "paper_provisioning",
           "paper_observing", "completed", "needs_operator"}

\* tool: the finish tool is pending in the journal; consumed: the final window
\* was used; interrupted: the last operator_needed was avo_runtime_interrupted;
\* instance: the attempt has a Paper instance; seen: the last observation.
Mission == [state : States, validated : BOOLEAN, tool : BOOLEAN, consumed : BOOLEAN,
            interrupted : BOOLEAN, instance : BOOLEAN,
            seen : {"nothing", "running", "ended"}, outcome : BOOLEAN]

Statuses == {"none", "ready", "approved_pending_effect", "rejected", "effect_unknown",
             "paper_observing"}

\* configured: the receipt of paper_review_configured was journalled; stage:
\* where the effect failed.
Review == [status : Statuses, decided : BOOLEAN, configured : BOOLEAN,
           stage : {"none", "start", "other"}]

\* sent: start requests made; lane: the race of the session has a verdict.
BitPro == [session : {"none", "configured", "running", "ended"}, sent : Nat, lane : BOOLEAN]

ResearcherAt == {"idle", "queued", "testing", "recovering", "tested", "requesting", "finishing"}
ReviewerAt == {"idle", "source", "configure", "receipt", "start", "answer", "confirm",
               "succeeded", "failed_start", "failed_other"}
ReconcilerAt == {"idle", "adopting"}
ObserverAt == {"idle", "saw_running", "saw_ended"}

Init ==
    /\ mode \in Modes
    /\ mission = [state |-> "researching", validated |-> FALSE, tool |-> FALSE,
                  consumed |-> FALSE, interrupted |-> FALSE, instance |-> FALSE,
                  seen |-> "nothing", outcome |-> FALSE]
    /\ review = [status |-> "none", decided |-> FALSE, configured |-> FALSE, stage |-> "none"]
    /\ bitpro = [session |-> "none", sent |-> 0, lane |-> FALSE]
    /\ \E g \in Researchers :
          researcher = [l \in Researchers |-> IF mode = "arc" /\ l = g THEN "queued" ELSE "idle"]
    /\ reviewer = [r \in Reviewers |-> "idle"]
    /\ reconciler = [q \in Reconcilers |-> "idle"]
    /\ observer = [o \in Observers |-> "idle"]
    /\ faults = 0 /\ continues = 0

Fault == faults < MaxFaults /\ faults' = faults + 1

ResearchAt(l, at) == researcher' = [researcher EXCEPT ![l] = at]
ReviewAt(r, at) == reviewer' = [reviewer EXCEPT ![r] = at]
ObserveAt(o, at) == observer' = [observer EXCEPT ![o] = at]

Moved(state) == mission' = [mission EXCEPT !.state = state]

-----------------------------------------------------------------------------
(* Research.                                                                 *)

\* A worker takes up an avo mission under its advisory lock, which is gone
\* with the process that held it; an arc loop is started by a request.
Done == {"paper_review_ready", "paper_provisioning", "paper_observing"}

NeedsResearch ==
    \/ mission.state = "researching" /\ ~ mission.consumed
    \/ /\ mission.tool
       /\ \/ mission.state \in {"paper_authorizing", "paper_review_ready"}
          \/ mission.state = "needs_operator" /\ mission.interrupted

\* _recover_receipt leaves a review that is ready alone.
RecoversFrom == IF mission.state = "paper_review_ready" THEN "finishing" ELSE "recovering"

BeginAvo(l) ==
    /\ mode = "avo"
    /\ \A g \in Researchers : researcher[g] = "idle"
    /\ NeedsResearch
    /\ ResearchAt(l, IF mission.tool THEN RecoversFrom ELSE "testing")
    /\ UNCHANGED <<mode, mission, review, bitpro, reviewer, reconciler, observer, faults, continues>>

\* run_autonomous_arc_loop goes on with a candidate that is validated already.
BeginArc(l) ==
    /\ researcher[l] = "queued"
    /\ ResearchAt(l, IF mission.state \in Done THEN "idle"
                     ELSE IF mission.validated THEN "tested" ELSE "testing")
    /\ UNCHANGED <<mode, mission, review, bitpro, reviewer, reconciler, observer, faults, continues>>

\* The final self-test passes: bitpro_self_tested is journalled.
SelfTest(l) ==
    /\ researcher[l] = "testing"
    /\ mission' = [mission EXCEPT !.state = "paper_authorizing", !.validated = TRUE,
                                  !.tool = mode = "avo",
                                  !.consumed = mode = "avo"]
    /\ ResearchAt(l, "tested")
    /\ UNCHANGED <<mode, review, bitpro, reviewer, reconciler, observer, faults, continues>>

\* The final test fails, or research stops before it came to one.
GiveUp(l) ==
    /\ researcher[l] = "testing"
    /\ \E final \in BOOLEAN :
          mission' = [mission EXCEPT !.state = "needs_operator", !.interrupted = FALSE,
                                     !.consumed = @ \/ (mode = "avo" /\ final)]
    /\ ResearchAt(l, "idle")
    /\ UNCHANGED <<mode, review, bitpro, reviewer, reconciler, observer, faults, continues>>

\* The receipt of a final test whose worker died: candidate_validated.
Recover(l) ==
    /\ researcher[l] = "recovering"
    /\ mission' = [mission EXCEPT !.state = "paper_authorizing", !.validated = TRUE]
    /\ ResearchAt(l, "tested")
    /\ UNCHANGED <<mode, review, bitpro, reviewer, reconciler, observer, faults, continues>>

\* A package is requested unless the stored one has its hash.
RequestsAlways == TRUE

Requests == review.status = "none"

BuildPackage(l) ==
    /\ researcher[l] = "tested"
    /\ ResearchAt(l, IF Requests THEN "requesting" ELSE "finishing")
    /\ UNCHANGED <<mode, mission, review, bitpro, reviewer, reconciler, observer, faults, continues>>

\* paper_review_requested replaces whatever review there is by now.
RequestReview(l) ==
    /\ researcher[l] = "requesting"
    /\ review' = [review EXCEPT !.status = "ready", !.decided = FALSE, !.stage = "none"]
    /\ Moved("paper_review_ready")
    /\ ResearchAt(l, "finishing")
    /\ UNCHANGED <<mode, bitpro, reviewer, reconciler, observer, faults, continues>>

\* avo_tool_finished.
Finish(l) ==
    /\ researcher[l] = "finishing"
    /\ mission' = [mission EXCEPT !.tool = FALSE]
    /\ ResearchAt(l, "idle")
    /\ UNCHANGED <<mode, review, bitpro, reviewer, reconciler, observer, faults, continues>>

\* An exception ends run_avo_research with operator_needed.
Interrupt(l) ==
    /\ mode = "avo" /\ researcher[l] /= "idle"
    /\ Fault
    /\ mission' = [mission EXCEPT !.state = "needs_operator", !.interrupted = TRUE]
    /\ ResearchAt(l, "idle")
    /\ UNCHANGED <<mode, review, bitpro, reviewer, reconciler, observer, continues>>

\* The operator asks for more research: an arc mission gets another loop.
MayContinue ==
    /\ mission.state /= "paper_observing"
    /\ ~ mission.tool /\ ~ mission.consumed

Continue ==
    /\ continues < MaxContinues /\ continues' = continues + 1
    /\ MayContinue
    /\ IF mission.state = "needs_operator" THEN Moved("researching") ELSE UNCHANGED mission
    /\ IF mode = "arc"
       THEN /\ LoopsOverlap \/ \A g \in Researchers : researcher[g] = "idle"
            /\ \E l \in Researchers : researcher[l] = "idle" /\ ResearchAt(l, "queued")
       ELSE UNCHANGED researcher
    /\ UNCHANGED <<mode, review, bitpro, reviewer, reconciler, observer, faults>>

-----------------------------------------------------------------------------
(* The review and the external writes of an approval.                        *)

DecidableUnclaimed == mission.state \in {"paper_review_ready", "paper_provisioning"}

\* The reducer claims the decision under the row lock.
Decidable == mission.state = "paper_review_ready" /\ mission.validated /\ ~ review.decided

ClaimedOpen(status) == [review EXCEPT !.status = status]

Claimed(status) == [review EXCEPT !.status = status, !.decided = TRUE]

Approve(r) ==
    /\ reviewer[r] = "idle"
    /\ Decidable
    /\ review' = Claimed("approved_pending_effect")
    /\ Moved("paper_provisioning")
    /\ ReviewAt(r, "source")
    /\ UNCHANGED <<mode, bitpro, researcher, reconciler, observer, faults, continues>>

Reject(r) ==
    /\ reviewer[r] = "idle"
    /\ Decidable
    /\ review' = Claimed("rejected")
    /\ Moved("needs_operator")
    /\ UNCHANGED <<mode, bitpro, researcher, reviewer, reconciler, observer, faults, continues>>

\* strategy_get: a source that changed, or has run already, is refused.
ReadSource(r) ==
    /\ reviewer[r] = "source"
    /\ \E accepted \in BOOLEAN :
          /\ accepted => bitpro.session = "none"
          /\ IF accepted \/ bitpro.session /= "none" THEN UNCHANGED faults ELSE Fault
          /\ ReviewAt(r, IF accepted THEN "configure" ELSE "failed_other")
    /\ UNCHANGED <<mode, mission, review, bitpro, researcher, reconciler, observer, continues>>

Configure(r) ==
    /\ reviewer[r] = "configure"
    /\ bitpro' = [bitpro EXCEPT !.session = IF @ = "none" THEN "configured" ELSE @]
    /\ \/ ReviewAt(r, "receipt") /\ UNCHANGED faults
       \/ Fault /\ ReviewAt(r, "failed_other")
    /\ UNCHANGED <<mode, mission, review, researcher, reconciler, observer, continues>>

ConfigureRefused(r) ==
    /\ reviewer[r] = "configure"
    /\ Fault /\ ReviewAt(r, "failed_other")
    /\ UNCHANGED <<mode, mission, review, bitpro, researcher, reconciler, observer, continues>>

\* The receipt is journalled before the next write; if it cannot be, stop.
JournalReceipt(r) ==
    /\ reviewer[r] = "receipt"
    /\ \/ /\ review' = [review EXCEPT !.configured = TRUE]
          /\ ReviewAt(r, "start") /\ UNCHANGED faults
       \/ Fault /\ ReviewAt(r, "failed_other") /\ UNCHANGED review
    /\ UNCHANGED <<mode, mission, bitpro, researcher, reconciler, observer, continues>>

SendStart(r) ==
    /\ reviewer[r] = "start"
    /\ bitpro' = [bitpro EXCEPT !.sent = @ + 1]
    /\ ReviewAt(r, "answer")
    /\ UNCHANGED <<mode, mission, review, researcher, reconciler, observer, faults, continues>>

\* A confirmed start, or none: timed out, rejected or not identified.
StartAnswered(r) ==
    /\ reviewer[r] = "answer"
    /\ \/ bitpro.session \in {"running", "ended"} /\ ReviewAt(r, "confirm") /\ UNCHANGED faults
       \/ Fault /\ ReviewAt(r, "failed_start")
    /\ UNCHANGED <<mode, mission, review, bitpro, researcher, reconciler, observer, continues>>

\* paper_review_started; an exception here is not a failure of the start stage.
JournalStart(r) ==
    /\ reviewer[r] = "confirm"
    /\ \/ ReviewAt(r, "succeeded") /\ UNCHANGED faults
       \/ Fault /\ ReviewAt(r, "failed_other")
    /\ UNCHANGED <<mode, mission, review, bitpro, researcher, reconciler, observer, continues>>

\* paper_review_effect.  The reducer refuses it in any other state, and the
\* request ends.
EffectSucceeds(r) ==
    /\ reviewer[r] = "succeeded"
    /\ IF mission.state = "paper_provisioning"
       THEN /\ review' = [review EXCEPT !.status = "paper_observing"]
            /\ mission' = [mission EXCEPT !.state = "paper_observing", !.instance = TRUE]
       ELSE UNCHANGED <<mission, review>>
    /\ ReviewAt(r, "idle")
    /\ UNCHANGED <<mode, bitpro, researcher, reconciler, observer, faults, continues>>

EffectUnknown(r) ==
    /\ reviewer[r] \in {"failed_start", "failed_other"}
    /\ IF mission.state = "paper_provisioning"
       THEN /\ review' = [review EXCEPT !.status = "effect_unknown",
                              !.stage = IF reviewer[r] = "failed_start" THEN "start" ELSE "other"]
            /\ Moved("needs_operator")
       ELSE UNCHANGED <<mission, review>>
    /\ ReviewAt(r, "idle")
    /\ UNCHANGED <<mode, bitpro, researcher, reconciler, observer, faults, continues>>

-----------------------------------------------------------------------------
(* Adopting a start whose outcome is unknown.                                *)

Parked == mission.state = "needs_operator" /\ review.status = "effect_unknown"

AdoptableUnseen ==
    /\ Parked /\ review.stage = "start" /\ review.configured

AdoptableProvisioning ==
    /\ mission.state = "paper_provisioning" /\ review.status = "effect_unknown"
    /\ bitpro.session = "running"

\* The snapshot has to show the configured session, running and not ended.
Adoptable ==
    /\ Parked /\ review.stage = "start" /\ review.configured
    /\ bitpro.session = "running"

ReadSession(q) ==
    /\ reconciler[q] = "idle"
    /\ Adoptable
    /\ reconciler' = [reconciler EXCEPT ![q] = "adopting"]
    /\ UNCHANGED <<mode, mission, review, bitpro, researcher, reviewer, observer, faults, continues>>

\* paper_review_effect_reconciled, which the reducer takes in a parked mission.
Adopt(q) ==
    /\ reconciler[q] = "adopting"
    /\ IF Parked
       THEN /\ review' = [review EXCEPT !.status = "paper_observing"]
            /\ mission' = [mission EXCEPT !.state = "paper_observing", !.instance = TRUE]
       ELSE UNCHANGED <<mission, review>>
    /\ reconciler' = [reconciler EXCEPT ![q] = "idle"]
    /\ UNCHANGED <<mode, bitpro, researcher, reviewer, observer, faults, continues>>

-----------------------------------------------------------------------------
(* Observing until the session or its race has ended.                        *)

EndedByRace == bitpro.lane

\* What has ended, by the ledger of races or by the last observation.
Ended == bitpro.lane \/ mission.seen = "ended"

\* A sweep reads the session only if nothing has ended by what is known.
Collect(o) ==
    /\ observer[o] = "idle"
    /\ mission.state = "paper_observing" /\ mission.instance
    /\ ~ Ended
    /\ ObserveAt(o, IF bitpro.session = "ended" THEN "saw_ended" ELSE "saw_running")
    /\ UNCHANGED <<mode, mission, review, bitpro, researcher, reviewer, reconciler, faults, continues>>

\* paper_observed is reduced whatever the state of the mission is by now.
Record(o) ==
    /\ observer[o] /= "idle"
    /\ mission' = [mission EXCEPT !.state = "paper_observing",
                       !.seen = IF observer[o] = "saw_ended" THEN "ended" ELSE "running"]
    /\ ObserveAt(o, "idle")
    /\ UNCHANGED <<mode, review, bitpro, researcher, reviewer, reconciler, faults, continues>>

\* paper_observation_ended.
EndObservation(o) ==
    /\ observer[o] = "idle"
    /\ mission.state = "paper_observing" /\ mission.instance
    /\ Ended
    /\ mission' = [mission EXCEPT !.state = "completed", !.outcome = TRUE]
    /\ UNCHANGED <<mode, review, bitpro, researcher, reviewer, reconciler, observer, faults, continues>>

-----------------------------------------------------------------------------
(* BitPro and processes that die.                                            *)

\* A start request lands, or somebody starts the configured session in BitPro.
SessionStarts ==
    /\ bitpro.session = "configured"
    /\ bitpro' = [bitpro EXCEPT !.session = "running"]
    /\ UNCHANGED <<mode, mission, review, researcher, reviewer, reconciler, observer, faults, continues>>

SessionEnds ==
    /\ bitpro.session = "running"
    /\ bitpro' = [bitpro EXCEPT !.session = "ended"]
    /\ UNCHANGED <<mode, mission, review, researcher, reviewer, reconciler, observer, faults, continues>>

RaceFinishes ==
    /\ bitpro.session \in {"running", "ended"} /\ ~ bitpro.lane
    /\ bitpro' = [bitpro EXCEPT !.lane = TRUE]
    /\ UNCHANGED <<mode, mission, review, researcher, reviewer, reconciler, observer, faults, continues>>

Dies ==
    /\ Fault
    /\ \/ /\ \E l \in Researchers : researcher[l] /= "idle" /\ ResearchAt(l, "idle")
          /\ UNCHANGED <<reviewer, reconciler, observer>>
       \/ /\ \E r \in Reviewers : reviewer[r] /= "idle" /\ ReviewAt(r, "idle")
          /\ UNCHANGED <<researcher, reconciler, observer>>
       \/ /\ \E q \in Reconcilers :
                /\ reconciler[q] /= "idle"
                /\ reconciler' = [reconciler EXCEPT ![q] = "idle"]
          /\ UNCHANGED <<researcher, reviewer, observer>>
       \/ /\ \E o \in Observers : observer[o] /= "idle" /\ ObserveAt(o, "idle")
          /\ UNCHANGED <<researcher, reviewer, reconciler>>
    /\ UNCHANGED <<mode, mission, review, bitpro, continues>>

Next ==
    \/ \E l \in Researchers :
          \/ BeginAvo(l) \/ BeginArc(l) \/ SelfTest(l) \/ GiveUp(l)
          \/ Recover(l) \/ BuildPackage(l) \/ RequestReview(l) \/ Finish(l) \/ Interrupt(l)
    \/ Continue
    \/ \E r \in Reviewers :
          \/ Approve(r) \/ Reject(r) \/ ReadSource(r)
          \/ Configure(r) \/ ConfigureRefused(r) \/ JournalReceipt(r)
          \/ SendStart(r) \/ StartAnswered(r) \/ JournalStart(r)
          \/ EffectSucceeds(r) \/ EffectUnknown(r)
    \/ \E q \in Reconcilers : ReadSession(q) \/ Adopt(q)
    \/ \E o \in Observers : Collect(o) \/ Record(o) \/ EndObservation(o)
    \/ SessionStarts \/ SessionEnds \/ RaceFinishes \/ Dies

\* The worker's sweeps go on, and BitPro answers them.
Fairness ==
    /\ \A q \in Reconcilers : WF_vars(ReadSession(q) \/ Adopt(q))
    /\ \A o \in Observers :
          /\ WF_vars(Record(o)) /\ WF_vars(EndObservation(o))
          /\ WF_vars(Collect(o))

Spec == Init /\ [][Next]_vars /\ Fairness

-----------------------------------------------------------------------------
(* Properties.                                                               *)

\* Type invariant; a review carries a decision exactly when its status says so.
TypeOK ==
    /\ mode \in Modes
    /\ mission \in Mission
    /\ review \in Review /\ (review.decided <=> review.status \notin {"none", "ready"})
    /\ bitpro \in BitPro
    /\ researcher \in [Researchers -> ResearcherAt]
    /\ reviewer \in [Reviewers -> ReviewerAt]
    /\ reconciler \in [Reconcilers -> ReconcilerAt]
    /\ observer \in [Observers -> ObserverAt]
    /\ faults \in 0..MaxFaults
    /\ continues \in 0..MaxContinues

\* However many requests decide, whatever is interrupted, recovered, continued
\* or reconciled, the start of the approved candidate is asked for once
\* (paper_review.py: "a lost/unknown receipt remains unresolved, never blindly
\* retried").
StartedOnce == bitpro.sent <= 1

\* What the mission says about its session is so: one that observes or has
\* completed has an instance that BitPro did start, and one with an outcome
\* has a session or a race that did end.
MissionTellsTheTruth ==
    /\ mission.state \in {"paper_observing", "completed"} =>
          mission.instance /\ bitpro.session \in {"running", "ended"}
    /\ mission.outcome => bitpro.lane \/ bitpro.session = "ended"

\* A start that failed on the way and yet runs is adopted, unless the session
\* ends first or the mission is not parked any more (paper_effect_reconcile).
UnknownStartAdopted ==
    /\ mission.state = "needs_operator" /\ review.status = "effect_unknown"
    /\ review.stage = "start" /\ review.configured /\ bitpro.session = "running"
    ~> \/ mission.state /= "needs_operator" \/ review.status = "paper_observing"
       \/ bitpro.session = "ended"

\* A mission does not go on observing a session that has ended
\* (observation_exit), even if sweeps overlap.
EndedSessionNoticed ==
    mission.state = "paper_observing" /\ bitpro.session = "ended"
        ~> mission.state /= "paper_observing"

\* A mission whose effect is unknown stays parked until it is reconciled:
\* docs/spec.md:1200.
UnknownStaysParked == review.status = "effect_unknown" => mission.state = "needs_operator"

=============================================================================
