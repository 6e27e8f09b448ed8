--------------------------- MODULE ApprovalProofs ---------------------------
(* Theorems about Approval for any number of decisions, requests, keys,      *)
(* operations and calls.                                                     *)
EXTENDS Approval, TLAPS

Writing == {"granting", "expiring", "denying", "revoking", "lapsing"}

\* What a call read stays so: verdicts are final, and so are the decision and
\* the scope of an approval that was asked for.
Covered(intent) ==
    /\ intent.decision \in Decisions
    /\ decisions[intent.decision] \in {"allow", "ask"}
    /\ decisions[intent.decision] = "ask" =>
          /\ intent.request \in Requests
          /\ approvals[intent.request].status /= "absent"
          /\ approvals[intent.request].decision = intent.decision
          /\ intent.scope \subseteq approvals[intent.request].scope

Sound(c) ==
    /\ c.at \in Writing => c.request \in Requests
    /\ c.at \in {"checking", "creating"} =>
          /\ c.key \in Keys
          /\ c.request = c.intent.request
          /\ Covered(c.intent)

CallsSound == \A c \in Calls : Sound(call[c])

\* OneTimeApproval, for a key.
Paid(k) ==
    /\ Covered(intents[k])
    /\ decisions[intents[k].decision] = "ask" =>
          /\ approvals[intents[k].request].status = "consumed"
          /\ approvals[intents[k].request].intent = k

Inv ==
    /\ TypeOK
    /\ RowsAgree
    /\ CallsSound
    /\ \A k \in Taken : Paid(k)

-----------------------------------------------------------------------------
(* Typing of the records that the steps build.                               *)

LEMMA IntentTyped == NoIntent \in Intent
  BY MaxFenceAssumption DEF NoIntent, Intent

LEMMA IdleTyped == Idle \in Call /\ Sound(Idle)
<1>1. Idle \in Call
  BY IntentTyped DEF Idle, Call
<1>2. Sound(Idle)
  BY DEF Idle, Sound, Writing
<1> QED BY <1>1, <1>2

LEMMA ReadTyped ==
    ASSUME NEW at \in Writing, NEW r \in Requests
    PROVE  /\ [Idle EXCEPT !.at = at, !.request = r] \in Call
           /\ Sound([Idle EXCEPT !.at = at, !.request = r])
<1> DEFINE c == [Idle EXCEPT !.at = at, !.request = r]
<1>1. c \in Call
  BY IntentTyped DEF Idle, Call, Writing
<1>2. c.at = at /\ c.request = r
  BY DEF Idle
<1> QED BY <1>1, <1>2 DEF Sound, Writing

LEMMA RowTypes ==
    ASSUME NEW row \in Approval,
           NEW s \in {"requested", "approved", "denied", "expired", "revoked", "consumed"},
           NEW g \in {"none", "approved", "expired", "revoked", "consumed"}
    PROVE  [row EXCEPT !.status = s, !.grant = g] \in Approval
  BY DEF Approval

LEMMA ConsumedTyped ==
    ASSUME NEW row \in Approval, NEW k \in Keys
    PROVE  [row EXCEPT !.status = "consumed", !.grant = "consumed", !.intent = k] \in Approval
  BY DEF Approval

-----------------------------------------------------------------------------
(* Steps that change no row.                                                 *)

LEMMA GotoKeeps ==
    ASSUME Inv, NEW c \in Calls, NEW state \in Call, Sound(state), Goto(c, state),
           UNCHANGED <<decisions, approvals, expired, intents>>
    PROVE  Inv'
<1>1. call' \in [Calls -> Call]
  BY DEF Goto, Inv, TypeOK
<1>2. TypeOK'
  BY <1>1 DEF Inv, TypeOK
<1>3. \A x \in Calls : call'[x] = IF x = c THEN state ELSE call[x]
  BY DEF Goto, Inv, TypeOK
<1>4. CallsSound'
  BY <1>3 DEF CallsSound, Inv, Sound, Covered
<1> QED BY <1>2, <1>4 DEF Inv, RowsAgree, Taken, Paid, Covered

LEMMA ReturnKeeps ==
    ASSUME Inv, NEW c \in Calls, Return(c),
           UNCHANGED <<decisions, approvals, expired, intents>>
    PROVE  Inv'
  BY GotoKeeps, IdleTyped DEF Return

LEMMA ReadKeeps ==
    ASSUME Inv, NEW a \in Calls, NEW r \in Requests,
           ReadToGrant(a, r) \/ ReadToDeny(a, r) \/ ReadToRevoke(a, r)
    PROVE  Inv'
<1>1. CASE ReadToGrant(a, r)
  <2> DEFINE at == IF expired[r] THEN "expiring" ELSE "granting"
  <2>1. at \in Writing
    BY DEF Writing
  <2> QED BY <1>1, <2>1, ReadTyped, GotoKeeps DEF ReadToGrant
<1>2. CASE ReadToDeny(a, r)
  BY <1>2, ReadTyped, GotoKeeps DEF ReadToDeny, Writing
<1>3. CASE ReadToRevoke(a, r)
  BY <1>3, ReadTyped, GotoKeeps DEF ReadToRevoke, Writing
<1> QED BY <1>1, <1>2, <1>3

LEMMA AuthorizeKeeps ==
    ASSUME Inv, NEW p \in Calls, NEW k \in Keys, NEW intent \in Intent,
           Authorize(p, k, intent)
    PROVE  Inv'
<1> DEFINE d == intent.decision
           r == intent.request
           checking == [at |-> "checking", request |-> r, key |-> k, intent |-> intent]
<1>1. d \in Decisions /\ UNCHANGED <<decisions, approvals, expired, intents>>
  BY DEF Authorize
<1>2. CASE decisions[d] = "ask" /\ r \in Requests /\ expired[r] /\ approvals[r].grant /= "none"
           /\ Goto(p, [Idle EXCEPT !.at = "lapsing", !.request = r])
  BY <1>1, <1>2, ReadTyped, GotoKeeps DEF Writing
<1>3. ASSUME Goto(p, checking), Covered(intent)
      PROVE  Inv'
  <2>1. checking \in Call
    BY DEF Call, Intent
  <2>2. Sound(checking)
    BY <1>3 DEF Sound, Writing
  <2> QED BY <1>1, <1>3, <2>1, <2>2, GotoKeeps
<1>4. CASE decisions[d] = "allow" /\ Goto(p, checking)
  <2>1. Covered(intent)
    BY <1>1, <1>4 DEF Covered
  <2> QED BY <1>3, <1>4, <2>1
<1>5. CASE /\ decisions[d] = "ask" /\ r \in Requests
           /\ Binds(r, d, intent.scope) /\ Goto(p, checking)
  <2>1. approvals[r].status /= "absent"
    BY <1>5 DEF Binds, Inv, RowsAgree
  <2>2. Covered(intent)
    BY <1>1, <1>5, <2>1 DEF Covered, Binds
  <2> QED BY <1>3, <1>5, <2>2
<1> QED BY <1>2, <1>4, <1>5 DEF Authorize

LEMMA CheckFenceKeeps ==
    ASSUME Inv, NEW p \in Calls, CheckFence(p)
    PROVE  Inv'
<1> DEFINE state == [call[p] EXCEPT !.at = "creating"]
<1>1. call[p] \in Call /\ Sound(call[p]) /\ call[p].at = "checking"
  BY DEF Inv, TypeOK, CallsSound, CheckFence
<1>2. state \in Call
  BY <1>1 DEF Call
<1>3. /\ state.at = "creating" /\ state.key = call[p].key
      /\ state.request = call[p].request /\ state.intent = call[p].intent
  BY <1>1 DEF Call
<1>4. Sound(state)
  BY <1>1, <1>3 DEF Sound, Writing
<1> QED BY <1>2, <1>4, GotoKeeps, ReturnKeeps DEF CheckFence

-----------------------------------------------------------------------------
(* Steps that change a row of the approvals or the decisions.                *)

\* What covers an intent goes on to cover it.
Grows ==
    /\ \A d \in Decisions : decisions[d] /= "none" => decisions'[d] = decisions[d]
    /\ \A r \in Requests :
          approvals[r].status /= "absent" =>
             /\ approvals'[r].status /= "absent"
             /\ approvals'[r].decision = approvals[r].decision
             /\ approvals'[r].scope = approvals[r].scope

\* The intents stay paid as long as no consumed row changes.
LEMMA RowsChange ==
    ASSUME Inv, Grows, TypeOK', RowsAgree', UNCHANGED intents,
           \A c \in Calls : call'[c] \in {call[c], Idle},
           \A r \in Requests : approvals[r].status = "consumed" => approvals'[r] = approvals[r]
    PROVE  Inv'
<1>1. CallsSound'
  <2> SUFFICES ASSUME NEW c \in Calls PROVE Sound(call[c])'
    BY DEF CallsSound
  <2>1. CASE call'[c] = Idle
    BY <2>1 DEF Sound, Idle, Writing
  <2>2. CASE call'[c] = call[c]
    <3>1. Sound(call[c])
      BY DEF Inv, CallsSound
    <3> QED BY <2>2, <3>1 DEF Sound, Covered, Grows
  <2> QED BY <2>1, <2>2
<1>2. ASSUME NEW k \in Taken PROVE Paid(k)'
  <2>1. Paid(k) /\ k \in Keys /\ intents' = intents
    BY DEF Inv, Taken
  <2> QED BY <2>1 DEF Paid, Covered, Grows
<1>3. Taken' = Taken
  BY DEF Taken
<1> QED BY <1>1, <1>2, <1>3 DEF Inv

LEMMA EvaluateKeeps ==
    ASSUME Inv, NEW d \in Decisions, Evaluate(d)
    PROVE  Inv'
<1>1. PICK capability \in Capability :
         decisions' = [decisions EXCEPT ![d] = Verdict(capability)]
  BY DEF Evaluate
<1>2. Verdict(capability) \in Verdicts
  BY DEF Verdict, Verdicts
<1>3. TypeOK'
  BY <1>1, <1>2 DEF Evaluate, Inv, TypeOK
<1>4. Grows
  BY <1>1 DEF Grows, Evaluate, Inv, TypeOK
<1> QED BY <1>3, <1>4, RowsChange DEF Evaluate, Inv, RowsAgree

LEMMA RequestKeeps ==
    ASSUME Inv, NEW r \in Requests, NEW d \in Decisions, NEW scope \in Scope,
           RequestApproval(r, d, scope)
    PROVE  Inv'
<1> DEFINE row == [Absent EXCEPT !.status = "requested", !.decision = d, !.scope = scope]
<1>1. row \in Approval
  BY DEF Absent, Approval, Scope
<1>2. row.status = "requested" /\ row.grant = "none" /\ row.intent = NoKey
  BY DEF Absent
<1>3. approvals' = [approvals EXCEPT ![r] = row] /\ approvals[r].status = "absent"
  BY DEF RequestApproval
<1>4. TypeOK'
  BY <1>1, <1>3 DEF RequestApproval, Inv, TypeOK
<1>5. \A x \in Requests : approvals'[x] = IF x = r THEN row ELSE approvals[x]
  BY <1>3 DEF Inv, TypeOK
<1>6. RowsAgree'
  BY <1>2, <1>5 DEF RowsAgree, Inv
<1>7. Grows
  BY <1>3, <1>5 DEF Grows, RequestApproval
<1> QED BY <1>3, <1>4, <1>5, <1>6, <1>7, RowsChange DEF RequestApproval

LEMMA ExpireKeeps ==
    ASSUME Inv, NEW r \in Requests, Expire(r)
    PROVE  Inv'
<1>1. TypeOK'
  BY DEF Expire, Inv, TypeOK
<1> QED BY <1>1, RowsChange DEF Expire, Inv, RowsAgree, Grows

\* What set_approval does to the row, when it does anything.
LEMMA SetWrites ==
    ASSUME Inv, NEW c \in Calls, SetApproval(c), CanSet(call[c].request, call[c].at)
    PROVE  LET r == call[c].request IN
           /\ r \in Requests
           /\ approvals' = [approvals EXCEPT ![r] = Written(r, call[c].at)]
           /\ Written(r, call[c].at) \in Approval
           /\ Written(r, call[c].at).decision = approvals[r].decision
           /\ Written(r, call[c].at).scope = approvals[r].scope
           /\ Written(r, call[c].at).intent = approvals[r].intent
           /\ \/ /\ approvals[r].status = "requested"
                 /\ Written(r, call[c].at).status = "approved"
                 /\ Written(r, call[c].at).grant = "approved"
              \/ /\ approvals[r].status \in {"requested", "approved"}
                 /\ \/ /\ Written(r, call[c].at).status \in {"denied", "expired"}
                       /\ Written(r, call[c].at).grant = "none"
                    \/ /\ Written(r, call[c].at).status \in {"revoked", "expired"}
                       /\ Written(r, call[c].at).grant = Written(r, call[c].at).status
<1> DEFINE r == call[c].request
           at == call[c].at
           s == Writes[at].status
           g == Writes[at].grant
<1>1. at \in Writing /\ r \in Requests
  BY DEF SetApproval, Writes, Writing, Inv, CallsSound, Sound
<1>2. approvals' = [approvals EXCEPT ![r] = Written(r, at)]
  BY DEF SetApproval
<1>3. approvals[r] \in Approval /\ approvals[r].status = Expected[at]
  BY <1>1 DEF Inv, TypeOK, CanSet
<1>4. \/ s = "approved" /\ g = "approved" /\ Expected[at] = "requested"
      \/ s \in {"denied", "expired"} /\ g = "none" /\ Expected[at] = "requested"
      \/ s \in {"revoked", "expired"} /\ g = s /\ Expected[at] = "approved"
  BY <1>1 DEF Writing, Writes, Expected
<1>5. Written(r, at) \in Approval
  BY <1>3, <1>4, RowTypes DEF Written
<1>6. /\ Written(r, at).status = s /\ Written(r, at).grant = g
      /\ Written(r, at).decision = approvals[r].decision
      /\ Written(r, at).scope = approvals[r].scope
      /\ Written(r, at).intent = approvals[r].intent
  BY <1>3 DEF Written, Approval
<1> QED BY <1>1, <1>2, <1>3, <1>4, <1>5, <1>6

LEMMA SetKeeps ==
    ASSUME Inv, NEW c \in Calls, SetApproval(c)
    PROVE  Inv'
<1> DEFINE r == call[c].request
           row == Written(r, call[c].at)
<1>1. CASE CanSet(r, call[c].at)
  <2>1. r \in Requests /\ approvals' = [approvals EXCEPT ![r] = row] /\ row \in Approval
    BY <1>1, SetWrites
  <2>2. \A x \in Requests : approvals'[x] = IF x = r THEN row ELSE approvals[x]
    BY <2>1 DEF Inv, TypeOK
  <2>3. call' \in [Calls -> Call] /\ \A x \in Calls : call'[x] \in {call[x], Idle}
    BY IdleTyped DEF SetApproval, Return, Goto, Inv, TypeOK
  <2>4. TypeOK'
    BY <2>1, <2>3 DEF SetApproval, Inv, TypeOK
  <2>5. /\ row.decision = approvals[r].decision /\ row.scope = approvals[r].scope
        /\ row.intent = approvals[r].intent
        /\ approvals[r].status \in {"requested", "approved"}
        /\ \/ row.status = "approved" /\ row.grant = "approved"
           \/ row.status \in {"denied", "expired"} /\ row.grant = "none"
           \/ row.status \in {"revoked", "expired"} /\ row.grant = row.status
    BY <1>1, SetWrites
  <2>6. RowsAgree'
    BY <2>1, <2>2, <2>5 DEF RowsAgree, Inv
  <2>7. Grows
    BY <2>2, <2>5 DEF Grows, SetApproval
  <2> QED BY <2>2, <2>3, <2>4, <2>5, <2>6, <2>7, RowsChange DEF SetApproval
<1>2. CASE ~ CanSet(r, call[c].at)
  BY <1>2, ReturnKeeps DEF SetApproval
<1> QED BY <1>1, <1>2

-----------------------------------------------------------------------------
(* create_dispatch.                                                          *)

LEMMA CreateFacts ==
    ASSUME Inv, NEW p \in Calls, CreateDispatch(p)
    PROVE  LET k == call[p].key
               r == call[p].request
               intent == call[p].intent
           IN /\ k \in Keys \ Taken /\ intent \in Intent /\ intent /= NoIntent
              /\ r = intent.request /\ r \in Requests \cup {NoRequest}
              /\ Covered(intent)
              /\ intents' = [intents EXCEPT ![k] = intent]
              /\ r /= NoRequest => approvals[r].status = "approved" /\ ~ expired[r]
<1> DEFINE c == call[p]
<1>1. c \in Call /\ Sound(c) /\ c.at = "creating"
  BY DEF Inv, TypeOK, CallsSound, CreateDispatch
<1>2. c.intent \in Intent /\ c.request \in Requests \cup {NoRequest}
  BY <1>1 DEF Call
<1>3. c.key \in Keys /\ c.request = c.intent.request /\ Covered(c.intent)
  BY <1>1 DEF Sound
<1>4. c.intent /= NoIntent
  BY <1>3, AbsentAssumption DEF Covered, NoIntent
<1> QED BY <1>2, <1>3, <1>4 DEF CreateDispatch, CanCreate, Consumable, Stored

\* A row that is spent.
LEMMA SpentRow ==
    ASSUME Inv, NEW r \in Requests, NEW k \in Keys,
           approvals' = [approvals EXCEPT ![r].status = "consumed",
                                          ![r].grant = "consumed", ![r].intent = k]
    PROVE  /\ approvals' \in [Requests -> Approval]
           /\ approvals'[r].status = "consumed" /\ approvals'[r].grant = "consumed"
           /\ approvals'[r].intent = k
           /\ approvals'[r].decision = approvals[r].decision
           /\ approvals'[r].scope = approvals[r].scope
           /\ \A x \in Requests \ {r} : approvals'[x] = approvals[x]
<1> DEFINE row == [approvals[r] EXCEPT !.status = "consumed", !.grant = "consumed", !.intent = k]
<1>1. approvals \in [Requests -> Approval] /\ approvals[r] \in Approval
  BY DEF Inv, TypeOK
<1>2. row \in Approval
  BY <1>1, ConsumedTyped
<1>3. approvals' = [approvals EXCEPT ![r] = row]
  BY <1>1
<1>4. /\ row.status = "consumed" /\ row.grant = "consumed" /\ row.intent = k
      /\ row.decision = approvals[r].decision /\ row.scope = approvals[r].scope
  BY <1>1 DEF Approval
<1> QED BY <1>1, <1>2, <1>3, <1>4

LEMMA CreateKeeps ==
    ASSUME Inv, NEW p \in Calls, CreateDispatch(p)
    PROVE  Inv'
<1> DEFINE k == call[p].key
           r == call[p].request
           intent == call[p].intent
<1>1. /\ k \in Keys \ Taken /\ intent \in Intent /\ intent /= NoIntent
      /\ r = intent.request /\ r \in Requests \cup {NoRequest}
      /\ Covered(intent)
      /\ intents' = [intents EXCEPT ![k] = intent]
      /\ r /= NoRequest => approvals[r].status = "approved" /\ ~ expired[r]
  BY CreateFacts
<1>2. call' = [call EXCEPT ![p] = Idle] /\ UNCHANGED <<decisions, expired>>
  BY DEF CreateDispatch, Return, Goto
<1>3. call' \in [Calls -> Call] /\ \A c \in Calls : call'[c] \in {call[c], Idle}
  BY <1>2, IdleTyped DEF Inv, TypeOK
<1>4. intents' \in [Keys -> Intent] /\ intents'[k] = intent
      /\ \A j \in Keys \ {k} : intents'[j] = intents[j]
  BY <1>1 DEF Inv, TypeOK
<1>5. Taken' = Taken \cup {k}
  BY <1>1, <1>4 DEF Taken
<1>6. CASE r = NoRequest
  <2>1. UNCHANGED approvals
    BY <1>6 DEF CreateDispatch
  <2>2. TypeOK' /\ RowsAgree'
    BY <1>2, <1>3, <1>4, <2>1 DEF Inv, TypeOK, RowsAgree
  <2>3. CallsSound'
    BY <1>2, <1>3, <2>1 DEF Inv, CallsSound, Sound, Covered, Idle, Writing
  <2>4. decisions[intent.decision] /= "ask"
    BY <1>1, <1>6, AbsentAssumption DEF Covered
  <2>5. ASSUME NEW j \in Taken' PROVE Paid(j)'
    <3>1. CASE j = k
      BY <1>1, <1>2, <1>4, <2>1, <2>4, <3>1 DEF Paid, Covered
    <3>2. CASE j \in Taken /\ j /= k
      <4>1. Paid(j) /\ intents'[j] = intents[j]
        BY <1>4, <3>2 DEF Inv, Taken
      <4> QED BY <1>2, <2>1, <4>1 DEF Paid, Covered
    <3> QED BY <1>5, <3>1, <3>2
  <2> QED BY <2>2, <2>3, <2>5 DEF Inv
<1>7. CASE r \in Requests
  <2>1. approvals' = [approvals EXCEPT ![r].status = "consumed",
                                       ![r].grant = "consumed", ![r].intent = k]
    BY <1>7, AbsentAssumption DEF CreateDispatch
  <2>2. /\ approvals' \in [Requests -> Approval]
        /\ approvals'[r].status = "consumed" /\ approvals'[r].grant = "consumed"
        /\ approvals'[r].intent = k
        /\ approvals'[r].decision = approvals[r].decision
        /\ approvals'[r].scope = approvals[r].scope
        /\ \A x \in Requests \ {r} : approvals'[x] = approvals[x]
    BY <1>1, <1>7, <2>1, SpentRow
  <2>3. approvals[r].status = "approved"
    BY <1>1, <1>7, AbsentAssumption
  <2>4. TypeOK'
    BY <1>2, <1>3, <1>4, <2>2 DEF Inv, TypeOK
  <2>5. RowsAgree'
    BY <1>1, <2>2, AbsentAssumption DEF Inv, RowsAgree
  <2>6. Grows
    BY <1>2, <2>2 DEF Grows
  <2>7. CallsSound'
    <3> SUFFICES ASSUME NEW c \in Calls PROVE Sound(call[c])'
      BY DEF CallsSound
    <3>1. CASE call'[c] = Idle
      BY <3>1 DEF Sound, Idle, Writing
    <3>2. CASE call'[c] = call[c]
      <4>1. Sound(call[c])
        BY DEF Inv, CallsSound
      <4> QED BY <2>6, <3>2, <4>1 DEF Sound, Covered, Grows
    <3> QED BY <1>3, <3>1, <3>2
  <2>8. ASSUME NEW j \in Taken' PROVE Paid(j)'
    <3>1. CASE j = k
      <4>1. Covered(intents[j])'
        BY <1>1, <1>4, <2>6, <3>1 DEF Covered, Grows
      <4> QED BY <1>1, <1>4, <2>2, <3>1, <4>1 DEF Paid
    <3>2. CASE j \in Taken /\ j /= k
      <4>1. Paid(j) /\ intents'[j] = intents[j]
        BY <1>4, <3>2 DEF Inv, Taken
      <4>2. Covered(intents[j])'
        BY <2>6, <4>1 DEF Paid, Covered, Grows
      <4>3. decisions[intents[j].decision] = "ask" => intents[j].request /= r
        BY <2>3, <4>1 DEF Paid
      <4>4. decisions'[intents[j].decision] = decisions[intents[j].decision]
        BY <1>2
      <4> QED BY <2>2, <4>1, <4>2, <4>3, <4>4 DEF Paid, Covered
    <3> QED BY <1>5, <3>1, <3>2
  <2> QED BY <2>4, <2>5, <2>7, <2>8 DEF Inv
<1> QED BY <1>1, <1>6, <1>7

-----------------------------------------------------------------------------
(* The invariant.                                                            *)

LEMMA InitKeeps == Init => Inv
<1> SUFFICES ASSUME Init PROVE Inv
  OBVIOUS
<1>1. Absent \in Approval
  BY DEF Absent, Approval
<1>2. TypeOK
  BY <1>1, IntentTyped, IdleTyped DEF Init, TypeOK
<1>3. RowsAgree
  BY DEF Init, RowsAgree, Absent
<1>4. CallsSound
  BY IdleTyped DEF Init, CallsSound
<1>5. Taken = {}
  BY DEF Init, Taken
<1> QED BY <1>2, <1>3, <1>4, <1>5 DEF Inv

LEMMA StepKeeps ==
    ASSUME Inv, [Next]_vars
    PROVE  Inv'
<1>1. CASE \E d \in Decisions : Evaluate(d)
  BY <1>1, EvaluateKeeps
<1>2. CASE \E r \in Requests, d \in Decisions, scope \in Scope : RequestApproval(r, d, scope)
  BY <1>2, RequestKeeps
<1>3. CASE \E r \in Requests : Expire(r)
  BY <1>3, ExpireKeeps
<1>4. CASE \E a \in Approvers : Approves(a)
  <2>1. PICK a \in Approvers : Approves(a)
    BY <1>4
  <2> QED BY <2>1, ReadKeeps, SetKeeps DEF Approves, Calls
<1>5. CASE \E p \in Preparers : Prepares(p)
  <2>1. PICK p \in Preparers : Prepares(p)
    BY <1>5
  <2>2. p \in Calls
    BY DEF Calls
  <2>3. CASE \E k \in Keys, intent \in Intent : Authorize(p, k, intent)
    BY <2>2, <2>3, AuthorizeKeeps
  <2>4. CASE CheckFence(p)
    BY <2>2, <2>4, CheckFenceKeeps
  <2>5. CASE CreateDispatch(p)
    BY <2>2, <2>5, CreateKeeps
  <2>6. CASE Refuse(p)
    BY <2>2, <2>6, ReturnKeeps DEF Refuse
  <2>7. CASE SetApproval(p)
    BY <2>2, <2>7, SetKeeps
  <2> QED BY <2>1, <2>3, <2>4, <2>5, <2>6, <2>7 DEF Prepares
<1>6. CASE UNCHANGED vars
  BY <1>6 DEF vars, Inv, TypeOK, RowsAgree, CallsSound, Sound, Covered, Taken, Paid
<1> QED BY <1>1, <1>2, <1>3, <1>4, <1>5, <1>6 DEF Next

LEMMA Invariance == Spec => []Inv
<1>1. Inv /\ [Next]_vars => Inv'
  BY StepKeeps
<1> QED BY InitKeeps, <1>1, PTL DEF Spec

-----------------------------------------------------------------------------
(* Theorems.                                                                 *)

(* Every reachable state is well-typed (rows of effect_store and the copies  *)
(* that calls of effect_governance hold).                                    *)
THEOREM TypeCorrect == Spec => []TypeOK
<1>1. Inv => TypeOK
  BY DEF Inv
<1> QED BY Invariance, <1>1, PTL

(* Request, grant and intent tell the same story, whichever of any number of *)
(* calls wrote last (set_approval).                                          *)
THEOREM RowsTellOneStory == Spec => []RowsAgree
<1>1. Inv => RowsAgree
  BY DEF Inv
<1> QED BY Invariance, <1>1, PTL

(* Every intent of an ask decision used up an approval of its own, and no    *)
(* intent was created for a denied decision (create_dispatch).               *)
THEOREM ApprovedOnce == Spec => []OneTimeApproval
<1>1. Inv => OneTimeApproval
  <2> SUFFICES ASSUME Inv, NEW k \in Taken
               PROVE  LET r == intents[k].request IN
                      /\ decisions[intents[k].decision] /= "deny"
                      /\ decisions[intents[k].decision] = "ask" =>
                          /\ r \in Requests
                          /\ approvals[r].status = "consumed"
                          /\ approvals[r].intent = k
                          /\ approvals[r].decision = intents[k].decision
                          /\ intents[k].scope \subseteq approvals[r].scope
    BY DEF OneTimeApproval
  <2>1. Paid(k)
    BY DEF Inv
  <2> QED BY <2>1 DEF Paid, Covered
<1> QED BY Invariance, <1>1, PTL

\* The ledger sees a change of one row as a change of one standing.
LEMMA StandingOf ==
    ASSUME Inv, NEW r \in Requests, NEW row,
           approvals' = [approvals EXCEPT ![r] = row]
    PROVE  [x \in Requests |-> Standing(approvals'[x])]
             = [[x \in Requests |-> Standing(approvals[x])] EXCEPT ![r] = Standing(row)]
  BY DEF Inv, TypeOK

LEMMA LedgerStep ==
    ASSUME Inv, NEW r \in Requests, NEW row, UNCHANGED expired,
           approvals' = [approvals EXCEPT ![r] = row],
           \/ Standing(approvals[r]) = "absent" /\ Standing(row) = "asked"
           \/ Standing(approvals[r]) = "asked" /\ Standing(row) = "granted"
           \/ Standing(approvals[r]) = "granted" /\ Standing(row) = "spent" /\ ~ expired[r]
           \/ Standing(approvals[r]) \in {"asked", "granted"} /\ Standing(row) = "closed"
    PROVE  Ledger!Next
<1>1. ASSUME NEW from, Standing(approvals[r]) = from
      PROVE  Ledger!Becomes(r, from, Standing(row))
  BY <1>1, StandingOf DEF Ledger!Becomes
<1>2. \/ Ledger!Ask(r) \/ Ledger!Grant(r) \/ Ledger!Spend(r) \/ Ledger!Close(r)
  <2>1. CASE Standing(approvals[r]) = "absent" /\ Standing(row) = "asked"
    BY <1>1, <2>1 DEF Ledger!Ask
  <2>2. CASE Standing(approvals[r]) = "asked" /\ Standing(row) = "granted"
    BY <1>1, <2>2 DEF Ledger!Grant
  <2>3. CASE Standing(approvals[r]) = "granted" /\ Standing(row) = "spent" /\ ~ expired[r]
    BY <1>1, <2>3 DEF Ledger!Spend
  <2>4. CASE Standing(approvals[r]) \in {"asked", "granted"} /\ Standing(row) = "closed"
    BY <1>1, <2>4 DEF Ledger!Close
  <2> QED BY <2>1, <2>2, <2>3, <2>4
<1> QED BY <1>2 DEF Ledger!Next

LEMMA SetStep ==
    ASSUME Inv, NEW c \in Calls, SetApproval(c)
    PROVE  UNCHANGED approvals \/ Ledger!Next
<1> DEFINE r == call[c].request
           row == Written(r, call[c].at)
<1>1. CASE CanSet(r, call[c].at)
  <2>1. /\ r \in Requests /\ approvals' = [approvals EXCEPT ![r] = row]
        /\ \/ approvals[r].status = "requested" /\ row.status = "approved"
           \/ /\ approvals[r].status \in {"requested", "approved"}
              /\ row.status \in {"denied", "expired", "revoked"}
    BY <1>1, SetWrites
  <2>2. UNCHANGED expired
    BY DEF SetApproval
  <2> QED BY <2>1, <2>2, LedgerStep DEF Standing
<1>2. CASE ~ CanSet(r, call[c].at)
  BY <1>2 DEF SetApproval
<1> QED BY <1>1, <1>2

LEMMA SpendStep ==
    ASSUME Inv, NEW p \in Calls, CreateDispatch(p)
    PROVE  UNCHANGED approvals \/ Ledger!Next
<1> DEFINE r == call[p].request
           k == call[p].key
           row == [approvals[r] EXCEPT !.status = "consumed", !.grant = "consumed", !.intent = k]
<1>1. CASE r = NoRequest
  BY <1>1 DEF CreateDispatch
<1>2. CASE r /= NoRequest
  <2>1. r \in Requests /\ approvals[r].status = "approved" /\ ~ expired[r]
    BY <1>2, CreateFacts
  <2>2. approvals' = [approvals EXCEPT ![r] = row]
    BY <1>2, <2>1 DEF CreateDispatch, Inv, TypeOK
  <2>3. row.status = "consumed"
    BY <2>1 DEF Inv, TypeOK, Approval
  <2>4. UNCHANGED expired
    BY DEF CreateDispatch
  <2> QED BY <2>1, <2>2, <2>3, <2>4, LedgerStep DEF Standing
<1> QED BY <1>1, <1>2

LEMMA LedgerSteps ==
    ASSUME Inv, [Next]_vars
    PROVE  UNCHANGED <<approvals, expired>> \/ Ledger!Next
<1>1. CASE \E d \in Decisions : Evaluate(d)
  BY <1>1 DEF Evaluate
<1>2. CASE \E r \in Requests, d \in Decisions, scope \in Scope : RequestApproval(r, d, scope)
  <2>1. PICK r \in Requests, d \in Decisions, scope \in Scope : RequestApproval(r, d, scope)
    BY <1>2
  <2> DEFINE row == [Absent EXCEPT !.status = "requested", !.decision = d, !.scope = scope]
  <2>2. row.status = "requested"
    BY DEF Absent
  <2>3. /\ approvals' = [approvals EXCEPT ![r] = row] /\ UNCHANGED expired
        /\ approvals[r].status = "absent"
    BY <2>1 DEF RequestApproval
  <2> QED BY <2>2, <2>3, LedgerStep DEF Standing
<1>3. CASE \E r \in Requests : Expire(r)
  BY <1>3 DEF Expire, Ledger!Next, Ledger!Lapse
<1>4. CASE \E a \in Approvers : Approves(a)
  <2>1. PICK a \in Approvers : Approves(a)
    BY <1>4
  <2>2. a \in Calls
    BY DEF Calls
  <2>3. CASE SetApproval(a)
    BY <2>2, <2>3, SetStep DEF SetApproval
  <2> QED BY <2>1, <2>3 DEF Approves, ReadToGrant, ReadToDeny, ReadToRevoke
<1>5. CASE \E p \in Preparers : Prepares(p)
  <2>1. PICK p \in Preparers : Prepares(p)
    BY <1>5
  <2>2. p \in Calls
    BY DEF Calls
  <2>3. CASE CreateDispatch(p)
    BY <2>2, <2>3, SpendStep DEF CreateDispatch
  <2>4. CASE SetApproval(p)
    BY <2>2, <2>4, SetStep DEF SetApproval
  <2> QED BY <2>1, <2>3, <2>4 DEF Prepares, Authorize, CheckFence, Refuse
<1>6. CASE UNCHANGED vars
  BY <1>6 DEF vars
<1> QED BY <1>1, <1>2, <1>3, <1>4, <1>5, <1>6 DEF Next

(* However calls race, an approval is granted once, closed for good, and     *)
(* spent once and in time (grant, deny, revoke and create_dispatch).         *)
THEOREM RefinesLedger == Spec => ImplementsLedger
<1>1. Init => Ledger!Init
  BY DEF Init, Ledger!Init, Standing, Absent
<1>2. Inv /\ [Next]_vars => [Ledger!Next]_(Ledger!vars)
  BY LedgerSteps DEF Ledger!vars
<1> QED BY <1>1, <1>2, Invariance, PTL DEF Spec, ImplementsLedger, Ledger!Spec
=============================================================================
