------------------------------ MODULE Approval ------------------------------
(* Policy decisions, approvals and the intents they allow:                   *)
(* EffectGovernanceService.evaluate, request_approval, grant_approval,       *)
(* deny_approval, revoke_approval and prepare_dispatch                       *)
(* (runtime/application/effect_governance.py) over SqlEffectGovernanceStore  *)
(* (runtime/adapters/effect_store.py).                                       *)
(*                                                                           *)
(* All calls are for one mission.  Every call reads, decides and writes in   *)
(* steps of its own; a write locks the approval row it changes and compares  *)
(* its status.  Execution of an intent is EffectDispatch.                    *)
EXTENDS Naturals, FiniteSets

CONSTANTS
    Decisions,     \* ids of policy decisions
    Requests,      \* ids of approval requests
    Keys,          \* idempotency keys
    Operations,    \* what a resource scope or an operation scope names
    Approvers,     \* calls of grant, deny and revoke
    Preparers,     \* calls of prepare_dispatch
    NoRequest,     \* the call names no approval
    NoKey,
    NoDecision,
    MaxFence       \* bound: fencing tokens

ASSUME AbsentAssumption ==
    /\ NoRequest \notin Requests
    /\ NoKey \notin Keys
    /\ NoDecision \notin Decisions
ASSUME CallsAssumption == Approvers \cap Preparers = {}
ASSUME MaxFenceAssumption == MaxFence \in Nat

VARIABLES
    decisions,     \* agent_policy_decisions: the verdict of each decision
    approvals,     \* agent_approvals
    expired,       \* whether the expires_at of a request has passed
    intents,       \* agent_dispatch_intents, by idempotency key
    call           \* where each call is and what it read

vars == <<decisions, approvals, expired, intents, call>>

Calls == Approvers \cup Preparers
Scope == SUBSET Operations \ {{}}

Verdicts == {"allow", "ask", "deny"}

\* A row holds the request and, once there is one, its grant.
Approval == [status : {"absent", "requested", "approved", "denied", "expired",
                       "revoked", "consumed"},
             grant : {"none", "approved", "expired", "revoked", "consumed"},
             decision : Decisions \cup {NoDecision},
             scope : SUBSET Operations,
             intent : Keys \cup {NoKey}]

Absent == [status |-> "absent", grant |-> "none", decision |-> NoDecision,
           scope |-> {}, intent |-> NoKey]

Intent == [decision : Decisions \cup {NoDecision}, request : Requests \cup {NoRequest},
           scope : SUBSET Operations, fence : 0..MaxFence]

NoIntent == [decision |-> NoDecision, request |-> NoRequest, scope |-> {}, fence |-> 0]

Call == [at : {"idle", "granting", "expiring", "denying", "revoking",
               "lapsing", "checking", "creating"},
         request : Requests \cup {NoRequest},
         key : Keys \cup {NoKey},
         intent : Intent]

Idle == [at |-> "idle", request |-> NoRequest, key |-> NoKey, intent |-> NoIntent]

Init ==
    /\ decisions = [d \in Decisions |-> "none"]
    /\ approvals = [r \in Requests |-> Absent]
    /\ expired = [r \in Requests |-> FALSE]
    /\ intents = [k \in Keys |-> NoIntent]
    /\ call = [c \in Calls |-> Idle]

Goto(c, state) == call' = [call EXCEPT ![c] = state]
Return(c) == Goto(c, Idle)

-----------------------------------------------------------------------------
(* evaluate: what the catalog says of a capability, and the environments     *)
(* that the runtime enables, decide.                                         *)

Capability == [executable : BOOLEAN, approval : {"none", "required", "blocked"},
               writes : BOOLEAN, enabled : BOOLEAN]

Verdict(capability) ==
    IF \/ ~ capability.executable
       \/ capability.approval = "blocked"
       \/ capability.writes /\ ~ capability.enabled
    THEN "deny"
    ELSE IF capability.approval = "required" THEN "ask" ELSE "allow"

Evaluate(d) ==
    /\ decisions[d] = "none"
    /\ \E capability \in Capability :
            decisions' = [decisions EXCEPT ![d] = Verdict(capability)]
    /\ UNCHANGED <<approvals, expired, intents, call>>

RequestApproval(r, d, scope) ==
    /\ approvals[r].status = "absent"
    /\ decisions[d] = "ask"
    /\ approvals' = [approvals EXCEPT ![r] =
            [Absent EXCEPT !.status = "requested", !.decision = d, !.scope = scope]]
    /\ UNCHANGED <<decisions, expired, intents, call>>

\* Time passes.
Expire(r) ==
    /\ approvals[r].status /= "absent"
    /\ ~ expired[r]
    /\ expired' = [expired EXCEPT ![r] = TRUE]
    /\ UNCHANGED <<decisions, approvals, intents, call>>

-----------------------------------------------------------------------------
(* grant, deny and revoke: each reads the approval and, later, sets it if    *)
(* its status is still the expected one.                                     *)

\* What a call writes over the row, by where the call is.
Writes ==
    [granting |-> [status |-> "approved", grant |-> "approved"],
     expiring |-> [status |-> "expired", grant |-> "none"],
     denying  |-> [status |-> "denied", grant |-> "none"],
     revoking |-> [status |-> "revoked", grant |-> "revoked"],
     lapsing  |-> [status |-> "expired", grant |-> "expired"]]

Expected ==
    [granting |-> "requested", expiring |-> "requested", denying |-> "requested",
     revoking |-> "approved", lapsing |-> "approved"]

ReadToGrant(a, r) ==
    /\ call[a].at = "idle"
    /\ approvals[r].status /= "absent"
    /\ approvals[r].grant = "none"
    /\ Goto(a, [Idle EXCEPT !.at = IF expired[r] THEN "expiring" ELSE "granting",
                            !.request = r])
    /\ UNCHANGED <<decisions, approvals, expired, intents>>

ReadToDeny(a, r) ==
    /\ call[a].at = "idle"
    /\ approvals[r].status /= "absent"
    /\ approvals[r].grant = "none"
    /\ Goto(a, [Idle EXCEPT !.at = "denying", !.request = r])
    /\ UNCHANGED <<decisions, approvals, expired, intents>>

ReadToRevoke(a, r) ==
    /\ call[a].at = "idle"
    /\ approvals[r].grant /= "none"
    /\ Goto(a, [Idle EXCEPT !.at = "revoking", !.request = r])
    /\ UNCHANGED <<decisions, approvals, expired, intents>>

\* Mutant of the next definition: the status is not compared.
CanSetAnyway(r, place) == approvals[r].status /= "absent"

CanSet(r, place) == approvals[r].status = Expected[place]

Written(r, place) ==
    [approvals[r] EXCEPT !.status = Writes[place].status, !.grant = Writes[place].grant]

\* set_approval, the end of the call.
SetApproval(c) ==
    LET r == call[c].request IN
    /\ call[c].at \in DOMAIN Writes
    /\ \/ /\ CanSet(r, call[c].at)
          /\ approvals' = [approvals EXCEPT ![r] = Written(r, call[c].at)]
       \/ /\ ~ CanSet(r, call[c].at)
          /\ UNCHANGED approvals
    /\ Return(c)
    /\ UNCHANGED <<decisions, expired, intents>>

-----------------------------------------------------------------------------
(* prepare_dispatch.                                                         *)

Binds(r, d, scope) ==
    /\ approvals[r].grant /= "none"
    /\ approvals[r].decision = d
    /\ scope \subseteq approvals[r].scope

\* The checks on the decision and, for ask, on the approval as it was read.
\* An allow decision takes along whatever approval the call names.
Authorize(p, k, intent) ==
    LET d == intent.decision
        r == intent.request
        checking == [at |-> "checking", request |-> r, key |-> k, intent |-> intent]
    IN
    /\ call[p].at = "idle"
    /\ d \in Decisions
    /\ intent.scope \in Scope
    /\ \/ decisions[d] = "allow" /\ Goto(p, checking)
       \/ /\ decisions[d] = "ask" /\ r \in Requests
          /\ ~ expired[r] /\ Binds(r, d, intent.scope)
          /\ Goto(p, checking)
       \/ /\ decisions[d] = "ask" /\ r \in Requests
          /\ expired[r] /\ approvals[r].grant /= "none"
          /\ Goto(p, [Idle EXCEPT !.at = "lapsing", !.request = r])
    /\ UNCHANGED <<decisions, approvals, expired, intents>>

Taken == {k \in Keys : intents[k] /= NoIntent}

\* The first queries of create_dispatch: a key that is taken answers the call
\* (with the stored intent, or with an error if its payload differs), and a
\* token below one already seen is refused.
CheckFence(p) ==
    /\ call[p].at = "checking"
    /\ IF /\ call[p].key \notin Taken
          /\ \A k \in Taken : intents[k].fence <= call[p].intent.fence
       THEN Goto(p, [call[p] EXCEPT !.at = "creating"])
       ELSE Return(p)
    /\ UNCHANGED <<decisions, approvals, expired, intents>>

\* Mutant of the next definition: the status was checked when it was read.
ConsumableTwice(r) == approvals[r].grant /= "none" /\ ~ expired[r]

\* Mutant of the next definition: the time was checked when it was read.
ConsumableLate(r) == approvals[r].status = "approved" /\ approvals[r].grant = "approved"

Consumable(r) ==
    /\ approvals[r].status = "approved"
    /\ approvals[r].grant = "approved"
    /\ ~ expired[r]

CanCreate(k, r) == k \notin Taken /\ (r /= NoRequest => Consumable(r))

\* Mutant of the next definition: the stored token is the next one.
StoredNextFence(intent) == [intent EXCEPT !.fence = @ + 1]

Stored(intent) == intent

\* The rest of create_dispatch, one transaction: the approval is consumed and
\* the intent inserted, or neither.
CreateDispatch(p) ==
    LET k == call[p].key
        r == call[p].request
    IN
    /\ call[p].at = "creating"
    /\ CanCreate(k, r)
    /\ intents' = [intents EXCEPT ![k] = Stored(call[p].intent)]
    /\ approvals' = IF r = NoRequest THEN approvals
                    ELSE [approvals EXCEPT
                            ![r].status = "consumed",
                            ![r].grant = "consumed",
                            ![r].intent = k]
    /\ Return(p)
    /\ UNCHANGED <<decisions, expired>>

\* The approval is not consumable any more or its token does not match, the
\* key was taken meanwhile, or the process dies.
Refuse(p) ==
    /\ call[p].at = "creating"
    /\ Return(p)
    /\ UNCHANGED <<decisions, approvals, expired, intents>>

-----------------------------------------------------------------------------
Approves(a) ==
    \/ \E r \in Requests : ReadToGrant(a, r) \/ ReadToDeny(a, r) \/ ReadToRevoke(a, r)
    \/ SetApproval(a)

Prepares(p) ==
    \/ \E k \in Keys, intent \in Intent : Authorize(p, k, intent)
    \/ CheckFence(p) \/ CreateDispatch(p) \/ Refuse(p) \/ SetApproval(p)

Next ==
    \/ \E d \in Decisions : Evaluate(d)
    \/ \E r \in Requests, d \in Decisions, scope \in Scope : RequestApproval(r, d, scope)
    \/ \E r \in Requests : Expire(r)
    \/ \E a \in Approvers : Approves(a)
    \/ \E p \in Preparers : Prepares(p)

Spec == Init /\ [][Next]_vars

-----------------------------------------------------------------------------
TypeOK ==
    /\ decisions \in [Decisions -> Verdicts \cup {"none"}]
    /\ approvals \in [Requests -> Approval]
    /\ expired \in [Requests -> BOOLEAN]
    /\ intents \in [Keys -> Intent]
    /\ call \in [Calls -> Call]

(* The request and the grant in one row, and the intent that used them, tell *)
(* the same story, whichever of two calls wrote last.                        *)
RowsAgree ==
    \A r \in Requests :
        LET row == approvals[r] IN
        /\ row.status \in {"absent", "requested", "denied"} => row.grant = "none"
        /\ row.status \in {"approved", "revoked", "consumed"} => row.grant = row.status
        /\ row.status = "expired" => row.grant \in {"none", "expired"}
        /\ row.status = "consumed" <=> row.intent /= NoKey

(* Every intent of an ask decision used up an approval of that decision,     *)
(* whose scope covers it and which no other intent used; a deny decision has *)
(* no intent.                                                                *)
OneTimeApproval ==
    \A k \in Taken :
        LET r == intents[k].request IN
        /\ decisions[intents[k].decision] /= "deny"
        /\ decisions[intents[k].decision] = "ask" =>
            /\ r \in Requests
            /\ approvals[r].status = "consumed"
            /\ approvals[r].intent = k
            /\ approvals[r].decision = intents[k].decision
            /\ intents[k].scope \subseteq approvals[r].scope

Standing(row) ==
    CASE row.status = "absent" -> "absent"
      [] row.status = "requested" -> "asked"
      [] row.status = "approved" -> "granted"
      [] row.status = "consumed" -> "spent"
      [] OTHER -> "closed"

(* Whatever calls race, an approval is granted once, closed for good, and    *)
(* spent once and in time.                                                   *)
Ledger == INSTANCE ApprovalLedger WITH
    standing <- [r \in Requests |-> Standing(approvals[r])],
    lapsed <- expired

ImplementsLedger == Ledger!Spec

-----------------------------------------------------------------------------
(* What a test says and the code does not do when two calls overlap: a       *)
(* worker with a stale fencing token creates no intent after a newer one.    *)
FencesAdvance ==
    [][\A k \in Keys \ Taken : intents'[k] /= NoIntent =>
            \A j \in Taken : intents[j].fence <= intents'[k].fence]_vars
=============================================================================
