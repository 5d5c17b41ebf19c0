------------------------ MODULE BackgroundChecksProofs ------------------------
(* Theorems about BackgroundChecks, for every set of volunteers, checks,     *)
(* events, requests and operations, and every waiting period.                *)
EXTENDS BackgroundChecks, FiniteSetTheorems, TLAPS

---------------------------------------------------------------------------
(* What a request in flight holds.                                         *)

StaffHandlers == [phase : {"read", "sent"}, op : StaffOps, check : Checks, at : Nat]

LEMMA StaffInFlight ==
  ASSUME TypeOK, NEW r \in Requests, NEW phase \in {"read", "sent"}, NEW op \in StaffOps,
         At(r, phase, op)
  PROVE  req[r] \in StaffHandlers
BY DEF TypeOK, Handlers, StaffHandlers, At, Idle, StaffOps

LEMMA InitiateInFlight ==
  ASSUME TypeOK, NEW r \in Requests, NEW phase \in {"read", "sent"},
         At(r, phase, "initiate")
  PROVE  /\ req[r].user \in Volunteers
         /\ phase = "sent" => req[r].check \in Checks
BY DEF TypeOK, Handlers, At, Idle, StaffOps

LEMMA WebhookInFlight ==
  ASSUME TypeOK, NEW r \in Requests, At(r, "read", "webhook")
  PROVE  req[r].event \in Events
BY DEF TypeOK, Handlers, At, Idle, StaffOps

---------------------------------------------------------------------------
(* Types.                                                                  *)

LEMMA StartType ==
  ASSUME TypeOK, NEW r \in Requests, NEW h \in {Idle} \cup Handlers,
         req' = [req EXCEPT ![r] = h]
  PROVE  req' \in [Requests -> {Idle} \cup Handlers]
BY DEF TypeOK

LEMMA StaffReadType ==
  ASSUME TypeOK, NEW r \in Requests, NEW op \in StaffOps, NEW c \in Checks,
         StaffRead(r, op, c)
  PROVE  TypeOK'
<1>1. [phase |-> "read", op |-> op, check |-> c, at |-> now] \in Handlers
  BY DEF TypeOK, Handlers
<1>2. req' \in [Requests -> {Idle} \cup Handlers]
  BY <1>1, StartType DEF StaffRead, Start
<1> QED
  BY <1>2 DEF StaffRead, TypeOK, rowVars, providerVars, letterVars

LEMMA InitTypeOK == Init => TypeOK
BY DEF Init, TypeOK, CheckStatus, FcraStatus, CredentialStatus, Never

LEMMA StaffTypeOK ==
  ASSUME TypeOK, NEW r \in Requests, StaffNext(r)
  PROVE  TypeOK'
<1> USE DEF rowVars, providerVars, letterVars
<1>1. ASSUME NEW u \in Volunteers, InitiateRead(r, u) PROVE TypeOK'
  <2>1. [phase |-> "read", op |-> "initiate", user |-> u] \in Handlers
    BY DEF Handlers
  <2>2. req' \in [Requests -> {Idle} \cup Handlers]
    BY <1>1, <2>1, StartType DEF InitiateRead, Start
  <2> QED
    BY <1>1, <2>2 DEF InitiateRead, TypeOK
<1>2. ASSUME NEW c \in Checks, InitiateCall(r, c) PROVE TypeOK'
  <2>1. req[r].user \in Volunteers
    BY <1>2, InitiateInFlight DEF InitiateCall
  <2>2. [phase |-> "sent", op |-> "initiate", user |-> req[r].user, check |-> c] \in Handlers
    BY <2>1 DEF Handlers
  <2>3. req' \in [Requests -> {Idle} \cup Handlers]
    BY <1>2, <2>2, StartType DEF InitiateCall
  <2>4. subject' \in [Checks -> Volunteers \cup {NoOne}]
    BY <1>2, <2>1 DEF InitiateCall, TypeOK
  <2> QED
    BY <1>2, <2>3, <2>4 DEF InitiateCall, TypeOK
<1>3. ASSUME NEW c \in Checks,
             \/ CancelRead(r, c)
             \/ NoticeRead(r, c)
             \/ FinalizeRead(r, c)
             \/ ResolveRead(r, c)
             \/ ApproveRead(r, c)
      PROVE  TypeOK'
  <2>1. PICK op \in StaffOps : StaffRead(r, op, c)
    BY <1>3 DEF CancelRead, NoticeRead, FinalizeRead, ResolveRead, ApproveRead, StaffOps
  <2> QED
    BY <2>1, StaffReadType
<1>4. CASE \/ InitiateCommit(r)
           \/ CancelCommit(r)
           \/ FinalizeCommit(r)
           \/ ResolveCommit(r)
           \/ ApproveCommit(r)
  <2>1. req' \in [Requests -> {Idle} \cup Handlers]
    BY <1>4, StartType DEF InitiateCommit, CancelCommit, FinalizeCommit, ResolveCommit,
                           ApproveCommit, Finish
  <2>2. /\ status' \in [Checks -> CheckStatus]
        /\ fcra' \in [Checks -> FcraStatus]
        /\ credential' \in [Volunteers -> CredentialStatus]
    BY <1>4 DEF InitiateCommit, CancelCommit, FinalizeCommit, ResolveCommit, ApproveCommit,
                TypeOK, CheckStatus, FcraStatus, CredentialStatus
  <2>3. UNCHANGED <<noticeAt, cites, providerVars, processed, letterVars, now>>
    BY <1>4 DEF InitiateCommit, CancelCommit, FinalizeCommit, ResolveCommit, ApproveCommit
  <2> QED
    BY <2>1, <2>2, <2>3 DEF TypeOK
<1>5. CASE NoticeSend(r) \/ FinalizeSend(r)
  <2>1. PICK op \in StaffOps : At(r, "read", op)
    BY <1>5 DEF NoticeSend, FinalizeSend, StaffOps
  <2>2. req[r] \in StaffHandlers
    BY <2>1, StaffInFlight
  <2>3. /\ [req[r] EXCEPT !.phase = "sent", !.at = now] \in Handlers
        /\ [req[r] EXCEPT !.phase = "sent"] \in Handlers
    BY <2>2 DEF TypeOK, Handlers, StaffHandlers
  <2>4. \/ req' = [req EXCEPT ![r] = [req[r] EXCEPT !.phase = "sent", !.at = now]]
        \/ req' = [req EXCEPT ![r] = [req[r] EXCEPT !.phase = "sent"]]
    BY <1>5 DEF NoticeSend, FinalizeSend, TypeOK
  <2>5. req' \in [Requests -> {Idle} \cup Handlers]
    BY <2>3, <2>4, StartType
  <2>6. /\ askedAt' \in [Checks -> Nat \cup {Never}]
        /\ letterAt' \in [Checks -> Nat \cup {Never}]
        /\ adverse' \in SUBSET Checks
    <3>1. req[r].check \in Checks /\ now \in Nat
      BY <2>2 DEF StaffHandlers, TypeOK
    <3>2. CASE NoticeSend(r)
      BY <3>1, <3>2 DEF NoticeSend, PreAdverseLetter, TypeOK
    <3>3. CASE FinalizeSend(r)
      BY <3>1, <3>3 DEF FinalizeSend, TypeOK
    <3> QED
      BY <1>5, <3>2, <3>3
  <2> QED
    BY <1>5, <2>5, <2>6 DEF NoticeSend, FinalizeSend, TypeOK
<1>6. CASE NoticeCommit(r)
  <2>1. req' \in [Requests -> {Idle} \cup Handlers]
    BY <1>6, StartType DEF NoticeCommit, Finish
  <2>2. req[r].at \in Nat
    BY <1>6, StaffInFlight DEF NoticeCommit, StaffHandlers, StaffOps
  <2>3. PICK stamp \in req[r].at .. now : noticeAt' = [noticeAt EXCEPT ![req[r].check] = stamp]
    BY <1>6 DEF NoticeCommit
  <2>4. noticeAt' \in [Checks -> Nat \cup {Never}]
    <3>1. now \in Nat
      BY DEF TypeOK
    <3>2. stamp \in Nat
      BY <2>2, <3>1
    <3> QED
      BY <2>3, <3>2 DEF TypeOK
  <2>5. fcra' \in [Checks -> FcraStatus]
    BY <1>6 DEF NoticeCommit, TypeOK, FcraStatus
  <2> QED
    BY <1>6, <2>1, <2>4, <2>5 DEF NoticeCommit, TypeOK
<1> QED
  BY <1>1, <1>2, <1>3, <1>4, <1>5, <1>6 DEF StaffNext

LEMMA WebhookTypeOK ==
  ASSUME TypeOK, NEW r \in Requests, WebhookNext(r)
  PROVE  TypeOK'
<1> USE DEF rowVars, providerVars, letterVars
<1>1. ASSUME NEW e \in Events, WebhookReceive(r, e) PROVE TypeOK'
  <2> DEFINE applies == /\ event[e].result # "progress"
                        /\ status[event[e].check] \notin Terminal
  <2>1. [phase |-> "read", op |-> "webhook", event |-> e, applies |-> applies] \in Handlers
    BY DEF Handlers
  <2>2. req' \in [Requests -> {Idle} \cup Handlers]
    BY <1>1, <2>1, StartType DEF WebhookReceive, Start
  <2> QED
    BY <1>1, <2>2 DEF WebhookReceive, TypeOK
<1>2. CASE WebhookRecord(r) \/ WebhookRefused(r) \/ WebhookApply(r)
  <2>1. req[r].event \in Events
    BY <1>2, WebhookInFlight DEF WebhookRecord, WebhookRefused, WebhookApply
  <2>2. req' \in [Requests -> {Idle} \cup Handlers]
    BY <1>2, StartType DEF WebhookRecord, WebhookRefused, WebhookApply, Finish
  <2>3. processed' \in SUBSET Events /\ answered' \in SUBSET Events
    BY <1>2, <2>1 DEF WebhookRecord, WebhookRefused, WebhookApply, Answer, TypeOK
  <2>4. /\ status' \in [Checks -> CheckStatus]
        /\ cites' \in [Checks -> BOOLEAN]
        /\ credential' \in [Volunteers -> CredentialStatus]
    <3>1. CASE WebhookRecord(r) \/ WebhookRefused(r)
      BY <3>1 DEF WebhookRecord, WebhookRefused, TypeOK
    <3>2. CASE WebhookApply(r)
      <4>1. \A result : ResultStatus(result) \in CheckStatus
        BY DEF ResultStatus, CheckStatus
      <4>2. PICK c, clear : cites' = [cites EXCEPT ![c] = cites[c] \/ clear]
        BY <3>2 DEF WebhookApply
      <4>3. (cites[c] \/ clear) \in BOOLEAN
        OBVIOUS
      <4>4. cites' \in [Checks -> BOOLEAN]
        BY <4>2, <4>3 DEF TypeOK
      <4> QED
        BY <3>2, <4>1, <4>4 DEF WebhookApply, TypeOK, CredentialStatus
    <3> QED
      BY <1>2, <3>1, <3>2
  <2> QED
    BY <1>2, <2>2, <2>3, <2>4 DEF WebhookRecord, WebhookRefused, WebhookApply, TypeOK
<1> QED
  BY <1>1, <1>2 DEF WebhookNext

\* Stored statuses stay within the enums of the schema, stamps are days, and every
\* request in flight holds what its handler read (backgroundCheckService.ts).
THEOREM TypeCorrect == Spec => []TypeOK
<1>1. TypeOK /\ [Next]_vars => TypeOK'
  <2> SUFFICES ASSUME TypeOK, [Next]_vars PROVE TypeOK'
    OBVIOUS
  <2> USE DEF rowVars, providerVars, letterVars
  <2>1. ASSUME NEW r \in Requests, StaffNext(r) \/ WebhookNext(r) PROVE TypeOK'
    BY <2>1, StaffTypeOK, WebhookTypeOK
  <2>2. ASSUME NEW r \in Requests, Rollback(r) PROVE TypeOK'
    BY <2>2 DEF Rollback, Finish, TypeOK
  <2>3. ASSUME NEW e \in Events, NEW c \in Checks, NEW result \in Results,
               ProviderSends(e, c, result)
        PROVE  TypeOK'
    BY <2>3 DEF ProviderSends, TypeOK
  <2>4. ASSUME NEW e \in Events, WebhookDuplicate(e) PROVE TypeOK'
    BY <2>4 DEF WebhookDuplicate, Answer, TypeOK
  <2>5. CASE CredentialNext
    BY <2>5 DEF CredentialNext, IssueCredential, RevokeCredential, RemoveCredential, TypeOK,
                CredentialStatus
  <2>6. CASE Tick
    BY <2>6 DEF Tick, TypeOK
  <2>7. CASE UNCHANGED vars
    BY <2>7 DEF vars, TypeOK
  <2> QED
    BY <2>1, <2>2, <2>3, <2>4, <2>5, <2>6, <2>7 DEF Next
<1> QED
  BY <1>1, InitTypeOK, PTL DEF Spec

---------------------------------------------------------------------------
(* Most steps leave the adverse-action process alone: Quiet.  The other    *)
(* kinds of steps are listed in StepKinds, once, for both proofs below.    *)

Deciding(h) ==
  \/ h.phase = "sent" /\ h.op = "notice"
  \/ h.phase \in {"read", "sent"} /\ h.op = "finalize"

Quiet ==
  /\ UNCHANGED <<fcra, noticeAt, letterVars, now>>
  /\ \A r \in Requests : req'[r] = req[r] \/ ~Deciding(req'[r])

Resolves ==
  /\ \E c \in Checks : fcra[c] \in Resolvable /\ fcra' = [fcra EXCEPT ![c] = "RESOLVED"]
  /\ UNCHANGED <<noticeAt, letterVars, now>>
  /\ \A r \in Requests : req'[r] = req[r] \/ ~Deciding(req'[r])

LEMMA FinishQuiet ==
  ASSUME TypeOK, NEW r \in Requests, Finish(r)
  PROVE  \A q \in Requests : req'[q] = req[q] \/ ~Deciding(req'[q])
BY DEF TypeOK, Finish, Deciding, Idle

LEMMA StartQuiet ==
  ASSUME TypeOK, NEW r \in Requests, NEW h, req' = [req EXCEPT ![r] = h], ~Deciding(h)
  PROVE  \A q \in Requests : req'[q] = req[q] \/ ~Deciding(req'[q])
BY DEF TypeOK

LEMMA StepKinds ==
  ASSUME TypeOK, [Next]_vars
  PROVE  \/ Quiet
         \/ Resolves
         \/ Tick
         \/ \E r \in Requests : NoticeSend(r) \/ NoticeCommit(r) \/ FinalizeSend(r)
                                  \/ FinalizeCommit(r)
         \/ \E r \in Requests, c \in Checks : FinalizeRead(r, c)
<1> USE DEF rowVars, providerVars, letterVars
<1>1. ASSUME NEW r \in Requests, NEW u \in Volunteers, InitiateRead(r, u) PROVE Quiet
  <2>1. ~Deciding([phase |-> "read", op |-> "initiate", user |-> u])
    BY DEF Deciding
  <2> QED
    BY <1>1, <2>1, StartQuiet DEF InitiateRead, Start, Quiet
<1>2. ASSUME NEW r \in Requests, NEW c \in Checks, InitiateCall(r, c) PROVE Quiet
  <2>1. ~Deciding([phase |-> "sent", op |-> "initiate", user |-> req[r].user, check |-> c])
    BY DEF Deciding
  <2> QED
    BY <1>2, <2>1, StartQuiet DEF InitiateCall, Quiet
<1>3. ASSUME NEW r \in Requests, NEW c \in Checks,
             CancelRead(r, c) \/ NoticeRead(r, c) \/ ResolveRead(r, c) \/ ApproveRead(r, c)
      PROVE  Quiet
  <2>1. PICK op \in StaffOps \ {"finalize"} : StaffRead(r, op, c)
    BY <1>3 DEF CancelRead, NoticeRead, ResolveRead, ApproveRead, StaffOps
  <2>2. ~Deciding([phase |-> "read", op |-> op, check |-> c, at |-> now])
    BY <2>1 DEF Deciding
  <2> QED
    BY <2>1, <2>2, StartQuiet DEF StaffRead, Start, Quiet
<1>4. ASSUME NEW r \in Requests, InitiateCommit(r) \/ CancelCommit(r) \/ Rollback(r)
      PROVE  Quiet
  BY <1>4, FinishQuiet DEF InitiateCommit, CancelCommit, Rollback, Quiet
<1>5. ASSUME NEW r \in Requests, ResolveCommit(r) \/ ApproveCommit(r) PROVE Resolves
  <2>1. \E op \in StaffOps : At(r, "read", op)
    BY <1>5 DEF ResolveCommit, ApproveCommit, StaffOps
  <2>2. req[r].check \in Checks
    BY <2>1, StaffInFlight DEF StaffHandlers
  <2>3. Finish(r)
    BY <1>5 DEF ResolveCommit, ApproveCommit
  <2> QED
    BY <1>5, <2>2, <2>3, FinishQuiet DEF ResolveCommit, ApproveCommit, Resolves
<1>6. ASSUME NEW r \in Requests, NEW e \in Events, WebhookReceive(r, e) PROVE Quiet
  <2> DEFINE applies == /\ event[e].result # "progress"
                        /\ status[event[e].check] \notin Terminal
             h == [phase |-> "read", op |-> "webhook", event |-> e, applies |-> applies]
  <2>1. ~Deciding(h)
    BY DEF Deciding
  <2>2. req' = [req EXCEPT ![r] = h]
    BY <1>6 DEF WebhookReceive, Start
  <2> HIDE DEF h
  <2> QED
    BY <1>6, <2>1, <2>2, StartQuiet DEF WebhookReceive, Quiet
<1>7. ASSUME NEW r \in Requests, WebhookRecord(r) \/ WebhookApply(r) \/ WebhookRefused(r)
      PROVE  Quiet
  BY <1>7, FinishQuiet DEF WebhookRecord, WebhookApply, WebhookRefused, Quiet
<1>8. ASSUME \/ \E e \in Events, c \in Checks, result \in Results : ProviderSends(e, c, result)
             \/ \E e \in Events : WebhookDuplicate(e)
             \/ CredentialNext
             \/ UNCHANGED vars
      PROVE  Quiet
  BY <1>8 DEF ProviderSends, WebhookDuplicate, CredentialNext, IssueCredential,
              RevokeCredential, RemoveCredential, vars, Quiet
<1> QED
  BY <1>1, <1>2, <1>3, <1>4, <1>5, <1>6, <1>7, <1>8 DEF Next, StaffNext, WebhookNext

---------------------------------------------------------------------------
(* Letters, stamps and requests about to finalize.                         *)

LEMMA InitNoticeInv == Init => NoticeInv
BY DEF Init, NoticeInv, At, Idle, Never

\* A step that stamps nothing and finalizes nothing keeps the invariant.
LEMMA UndecidedKeepsNoticeInv ==
  ASSUME TypeOK, NoticeInv, UNCHANGED <<noticeAt, letterVars, now>>,
         \A c \in Checks : fcra'[c] = fcra[c] \/ fcra'[c] = "RESOLVED",
         \A r \in Requests : req'[r] = req[r] \/ ~Deciding(req'[r])
  PROVE  NoticeInv'
BY DEF NoticeInv, At, Deciding, Waited, letterVars

LEMMA NoticeInvStep == TypeOK /\ NoticeInv /\ [Next]_vars => NoticeInv'
<1> SUFFICES ASSUME TypeOK, NoticeInv, [Next]_vars PROVE NoticeInv'
  OBVIOUS
<1> USE DEF rowVars, providerVars, letterVars
<1>1. CASE Quiet
  BY <1>1, UndecidedKeepsNoticeInv DEF Quiet
<1>2. CASE Resolves
  <2>1. \A c \in Checks : fcra'[c] = fcra[c] \/ fcra'[c] = "RESOLVED"
    BY <1>2 DEF Resolves, TypeOK
  <2> QED
    BY <1>2, <2>1, UndecidedKeepsNoticeInv DEF Resolves
<1>3. CASE Tick
  <2>1. now' = now + 1 /\ now \in Nat /\ UNCHANGED <<fcra, noticeAt, askedAt, letterAt, req>>
    BY <1>3 DEF Tick, TypeOK
  <2>2. \A c \in Checks : {askedAt[c], letterAt[c]} \subseteq Nat \cup {Never}
    BY DEF TypeOK
  <2>3. \A c \in Checks :
          /\ askedAt[c] # Never => askedAt[c] <= now'
          /\ letterAt[c] # Never => letterAt[c] <= now'
    BY <2>1, <2>2 DEF NoticeInv
  <2>4. ASSUME NEW r \in Requests, At(r, "read", "finalize") \/ At(r, "sent", "finalize")
        PROVE  askedAt[req[r].check] # Never /\ now' - askedAt[req[r].check] >= WaitingPeriod
    <3>1. req[r].check \in Checks
      BY <2>4, StaffInFlight DEF StaffHandlers, StaffOps
    <3>2. askedAt[req[r].check] # Never /\ now - askedAt[req[r].check] >= WaitingPeriod
      BY <2>4 DEF NoticeInv, Waited
    <3> QED
      BY <2>1, <2>2, <3>1, <3>2, WaitingPeriodAssumption
  <2> QED
    BY <2>1, <2>3, <2>4 DEF NoticeInv, At, Waited
<1>4. ASSUME NEW r \in Requests, NoticeSend(r) PROVE NoticeInv'
  <2> DEFINE c == req[r].check
  <2>1. req[r] \in StaffHandlers /\ c \in Checks
    BY <1>4, StaffInFlight DEF NoticeSend, StaffHandlers, StaffOps
  <2>2. /\ req'[r].phase = "sent" /\ req'[r].op = "notice"
        /\ req'[r].check = c /\ req'[r].at = now
        /\ \A q \in Requests \ {r} : req'[q] = req[q]
    BY <1>4, <2>1 DEF NoticeSend, At, TypeOK, StaffHandlers
  <2>3. /\ askedAt'[c] = IF askedAt[c] = Never THEN now ELSE askedAt[c]
        /\ \A d \in Checks \ {c} : askedAt'[d] = askedAt[d]
        /\ UNCHANGED <<fcra, noticeAt, now>>
        /\ \A d \in Checks : letterAt'[d] # letterAt[d] =>
             d = c /\ letterAt[d] = Never /\ letterAt'[d] = now
    BY <1>4, <2>1 DEF NoticeSend, PreAdverseLetter, TypeOK
  <2>4. now \in Nat /\ \A d \in Checks : {askedAt[d], letterAt[d]} \subseteq Nat \cup {Never}
    BY DEF TypeOK
  <2> HIDE DEF c
  <2>5. \A d \in Checks :
          /\ askedAt[d] # Never => askedAt'[d] = askedAt[d]
          /\ askedAt'[d] # Never => askedAt'[d] <= now
    BY <2>1, <2>3, <2>4 DEF NoticeInv
  <2>6. askedAt'[c] # Never /\ askedAt'[c] <= now
    BY <2>1, <2>3, <2>4 DEF NoticeInv, Never
  <2>9. \A d \in Checks :
          letterAt'[d] # Never =>
            askedAt'[d] # Never /\ askedAt'[d] <= letterAt'[d] /\ letterAt'[d] <= now
    <3> SUFFICES ASSUME NEW d \in Checks, letterAt'[d] # Never
                 PROVE  askedAt'[d] # Never /\ askedAt'[d] <= letterAt'[d] /\ letterAt'[d] <= now
      OBVIOUS
    <3>1. CASE letterAt'[d] = letterAt[d]
      BY <2>5, <3>1 DEF NoticeInv
    <3>2. CASE letterAt'[d] # letterAt[d]
      BY <2>3, <2>4, <2>6, <3>2
    <3> QED
      BY <3>1, <3>2
  <2>7. \A d \in Checks :
          /\ askedAt'[d] # Never => askedAt'[d] <= now
          /\ fcra[d] \in {"PRE_ADVERSE_SENT", "ADVERSE_ACTION_SENT"} =>
               askedAt'[d] # Never /\ noticeAt[d] # Never
          /\ noticeAt[d] # Never => askedAt'[d] # Never /\ askedAt'[d] <= noticeAt[d]
    BY <2>5 DEF NoticeInv
  <2>8. \A q \in Requests :
          /\ At(q, "sent", "notice")' =>
               askedAt'[req'[q].check] # Never /\ askedAt'[req'[q].check] <= req'[q].at
          /\ (At(q, "read", "finalize") \/ At(q, "sent", "finalize"))' =>
               /\ askedAt'[req'[q].check] # Never
               /\ now - askedAt'[req'[q].check] >= WaitingPeriod
    <3>1. ASSUME NEW q \in Requests \ {r},
                 \/ At(q, "sent", "notice")
                 \/ At(q, "read", "finalize")
                 \/ At(q, "sent", "finalize")
          PROVE  req[q].check \in Checks
      BY <3>1, StaffInFlight DEF StaffHandlers, StaffOps
    <3>2. ASSUME NEW q \in Requests \ {r}
          PROVE  /\ At(q, "sent", "notice") =>
                      askedAt'[req[q].check] # Never /\ askedAt'[req[q].check] <= req[q].at
                 /\ (At(q, "read", "finalize") \/ At(q, "sent", "finalize")) =>
                      /\ askedAt'[req[q].check] # Never
                      /\ now - askedAt'[req[q].check] >= WaitingPeriod
      BY <2>5, <3>1 DEF NoticeInv, Waited
    <3> QED
      BY <2>2, <2>6, <3>2 DEF At
  <2> QED
    BY <2>3, <2>7, <2>8, <2>9 DEF NoticeInv, Waited
<1>5. ASSUME NEW r \in Requests, NoticeCommit(r) PROVE NoticeInv'
  <2> DEFINE c == req[r].check
  <2>1. c \in Checks /\ req[r].at \in Nat
    BY <1>5, StaffInFlight DEF NoticeCommit, StaffHandlers, StaffOps
  <2>2. PICK stamp \in req[r].at .. now : noticeAt' = [noticeAt EXCEPT ![c] = stamp]
    BY <1>5 DEF NoticeCommit
  <2>3. askedAt[c] # Never /\ askedAt[c] <= req[r].at
    BY <1>5 DEF NoticeCommit, NoticeInv
  <2>4. now \in Nat /\ askedAt[c] \in Nat \cup {Never}
    BY <2>1 DEF TypeOK
  <2>5. /\ noticeAt'[c] = stamp /\ stamp # Never /\ askedAt[c] <= stamp
        /\ \A d \in Checks \ {c} : noticeAt'[d] = noticeAt[d] /\ fcra'[d] = fcra[d]
    BY <1>5, <2>1, <2>2, <2>3, <2>4 DEF NoticeCommit, TypeOK, Never
  <2>6. UNCHANGED <<letterVars, now>> /\ Finish(r)
    BY <1>5 DEF NoticeCommit
  <2>7. \A q \in Requests : req'[q] = req[q] \/ ~Deciding(req'[q])
    BY <2>6, FinishQuiet
  <2> HIDE DEF c
  <2>8. \A d \in Checks :
          /\ askedAt[d] # Never => askedAt[d] <= now
          /\ fcra'[d] \in {"PRE_ADVERSE_SENT", "ADVERSE_ACTION_SENT"} =>
               askedAt[d] # Never /\ noticeAt'[d] # Never
          /\ noticeAt'[d] # Never => askedAt[d] # Never /\ askedAt[d] <= noticeAt'[d]
    BY <2>3, <2>5 DEF NoticeInv
  <2> QED
    BY <2>6, <2>7, <2>8 DEF NoticeInv, At, Deciding, Waited
<1>6. ASSUME NEW r \in Requests, NEW c \in Checks, FinalizeRead(r, c) PROVE NoticeInv'
  <2>1. /\ req'[r].check = c /\ req'[r].phase = "read" /\ req'[r].op = "finalize"
        /\ \A q \in Requests \ {r} : req'[q] = req[q]
        /\ UNCHANGED <<fcra, noticeAt, letterVars, now>>
    BY <1>6 DEF FinalizeRead, StaffRead, Start, TypeOK
  <2>2. /\ noticeAt[c] \in Nat /\ now \in Nat
        /\ askedAt[c] \in Nat
    BY <1>6 DEF FinalizeRead, TypeOK, NoticeInv
  <2>3. askedAt[c] # Never /\ now - askedAt[c] >= WaitingPeriod
    BY <1>6, <2>2, WaitingPeriodAssumption DEF FinalizeRead, NoticeInv
  <2> QED
    BY <2>1, <2>3 DEF NoticeInv, At, Waited
<1>7. ASSUME NEW r \in Requests, FinalizeSend(r) PROVE NoticeInv'
  <2>1. req[r] \in StaffHandlers
    BY <1>7, StaffInFlight DEF FinalizeSend, StaffOps
  <2>2. /\ req'[r].check = req[r].check /\ req'[r].op = "finalize"
        /\ \A q \in Requests \ {r} : req'[q] = req[q]
        /\ UNCHANGED <<fcra, noticeAt, askedAt, letterAt, now>>
    BY <1>7, <2>1 DEF FinalizeSend, At, TypeOK, StaffHandlers
  <2>3. /\ askedAt[req[r].check] # Never
        /\ now - askedAt[req[r].check] >= WaitingPeriod
    BY <1>7 DEF FinalizeSend, NoticeInv, Waited
  <2> QED
    BY <2>2, <2>3 DEF NoticeInv, At, Waited
<1>8. ASSUME NEW r \in Requests, FinalizeCommit(r) PROVE NoticeInv'
  <2>1. /\ \A c \in Checks : fcra'[c] = fcra[c] \/ fcra[c] = "PRE_ADVERSE_SENT"
        /\ UNCHANGED <<noticeAt, letterVars, now>> /\ Finish(r)
    BY <1>8 DEF FinalizeCommit, TypeOK
  <2>2. \A q \in Requests : req'[q] = req[q] \/ ~Deciding(req'[q])
    BY <2>1, FinishQuiet
  <2> QED
    BY <2>1, <2>2 DEF NoticeInv, At, Deciding, Waited
<1> QED
  BY <1>1, <1>2, <1>3, <1>4, <1>5, <1>6, <1>7, <1>8, StepKinds

\* A notice is on record only after the first attempt to write to the volunteer, never
\* with an older stamp, and whoever is about to finalize has seen one that is old
\* enough (sendPreAdverseNotice, finalizeAdverseAction).
THEOREM NoticeInvariant == Spec => []NoticeInv
BY InitNoticeInv, NoticeInvStep, TypeCorrect, PTL DEF Spec

\* The adverse letter waits WaitingPeriod days for the first pre-adverse one, even
\* though the waiting is checked against a stamp that another request wrote; when the
\* mail service refused that letter, for the attempt.
THEOREM LettersWait == Spec => AdverseLetterWaits
<1>1. TypeOK /\ NoticeInv /\ [Next]_vars =>
        [\A c \in adverse' \ adverse :
           /\ Waited(c)
           /\ FirstLetterOut(c) =>
                letterAt[c] # Never /\ now - letterAt[c] >= WaitingPeriod]_vars
  <2> SUFFICES ASSUME TypeOK, NoticeInv, [Next]_vars, NEW c \in adverse' \ adverse
               PROVE  Waited(c)
    BY DEF Waited, FirstLetterOut
  <2>1. PICK r \in Requests : FinalizeSend(r)
    BY StepKinds DEF Quiet, Resolves, Tick, FinalizeRead, StaffRead, NoticeSend, NoticeCommit,
                     FinalizeCommit, letterVars
  <2>2. c = req[r].check
    BY <2>1 DEF FinalizeSend
  <2> QED
    BY <2>1, <2>2 DEF FinalizeSend, NoticeInv
<1> QED
  BY <1>1, TypeCorrect, NoticeInvariant, PTL DEF Spec, AdverseLetterWaits

---------------------------------------------------------------------------
(* Refinement.                                                             *)

LEMMA FcraStep ==
  TypeOK /\ NoticeInv /\ [Next]_vars => [Fcra!Next]_<<fcra, askedAt, letterAt, adverse, now>>
<1> SUFFICES ASSUME TypeOK, NoticeInv, [Next]_vars
             PROVE  Fcra!Next \/ UNCHANGED <<fcra, askedAt, letterAt, adverse, now>>
  OBVIOUS
<1>1. CASE Quiet
  BY <1>1 DEF Quiet, letterVars
<1>2. CASE Resolves
  <2>1. PICK c \in Checks : fcra[c] \in Resolvable /\ fcra' = [fcra EXCEPT ![c] = "RESOLVED"]
    BY <1>2 DEF Resolves
  <2>2. Fcra!Resolve(c)
    BY <1>2, <2>1 DEF Resolves, letterVars, Resolvable, Fcra!Resolve, Fcra!Open
  <2> QED
    BY <2>2 DEF Fcra!Next
<1>3. CASE Tick
  BY <1>3 DEF Tick, rowVars, letterVars, Fcra!Tick, Fcra!Next
<1>4. ASSUME NEW r \in Requests, NoticeSend(r)
      PROVE  Fcra!Next \/ UNCHANGED <<fcra, askedAt, letterAt, adverse, now>>
  <2>1. req[r].check \in Checks
    BY <1>4, StaffInFlight DEF NoticeSend, StaffHandlers, StaffOps
  <2>2. Fcra!SendLetter(req[r].check)
    BY <1>4 DEF NoticeSend, PreAdverseLetter, rowVars, Fcra!SendLetter, Fcra!Never, Never
  <2> QED
    BY <2>1, <2>2 DEF Fcra!Next
<1>5. ASSUME NEW r \in Requests, NoticeCommit(r) PROVE Fcra!Next
  <2>1. req[r].check \in Checks
    BY <1>5, StaffInFlight DEF NoticeCommit, StaffHandlers, StaffOps
  <2>2. askedAt[req[r].check] # Never
    BY <1>5 DEF NoticeCommit, NoticeInv
  <2>3. Fcra!Notify(req[r].check)
    BY <1>5, <2>2 DEF NoticeCommit, letterVars, Fcra!Notify, Fcra!Never, Never
  <2> QED
    BY <2>1, <2>3 DEF Fcra!Next
<1>6. ASSUME NEW r \in Requests, NEW c \in Checks, FinalizeRead(r, c)
      PROVE  UNCHANGED <<fcra, askedAt, letterAt, adverse, now>>
  BY <1>6 DEF FinalizeRead, StaffRead, rowVars, letterVars
<1>7. ASSUME NEW r \in Requests, FinalizeSend(r)
      PROVE  Fcra!Next \/ UNCHANGED <<fcra, askedAt, letterAt, adverse, now>>
  <2>1. req[r].check \in Checks
    BY <1>7, StaffInFlight DEF FinalizeSend, StaffHandlers, StaffOps
  <2>2. CASE adverse' = adverse
    BY <1>7, <2>2 DEF FinalizeSend, rowVars, letterVars
  <2>3. CASE adverse' = adverse \cup {req[r].check}
    <3>1. Fcra!SendAdverse(req[r].check)
      BY <1>7, <2>3 DEF FinalizeSend, rowVars, NoticeInv, Waited, Never, Fcra!SendAdverse,
                        Fcra!Waited, Fcra!Never
    <3> QED
      BY <2>1, <3>1 DEF Fcra!Next
  <2> QED
    BY <1>7, <2>2, <2>3 DEF FinalizeSend
<1>8. ASSUME NEW r \in Requests, FinalizeCommit(r) PROVE Fcra!Next
  <2>1. req[r].check \in Checks
    BY <1>8, StaffInFlight DEF FinalizeCommit, StaffHandlers, StaffOps
  <2>2. Waited(req[r].check)
    BY <1>8 DEF FinalizeCommit, NoticeInv
  <2>3. Fcra!Finalize(req[r].check)
    BY <1>8, <2>2 DEF FinalizeCommit, Fcra!Finalize, Fcra!Waited, Waited, Fcra!Never, Never,
                      letterVars
  <2> QED
    BY <2>1, <2>3 DEF Fcra!Next
<1> QED
  BY <1>1, <1>2, <1>3, <1>4, <1>5, <1>6, <1>7, <1>8, StepKinds

\* However notices, decisions, cancellations and webhook results interleave, the
\* adverse-action columns of every check go through the life cycle of FcraLifecycle.
THEOREM FcraImplemented == Spec => FcraRefinement
<1>1. Init => Fcra!Init
  BY DEF Init, Fcra!Init, Never, Fcra!Never
<1> QED
  BY <1>1, FcraStep, TypeCorrect, NoticeInvariant, PTL
     DEF Spec, FcraRefinement, Fcra!Spec, Fcra!vars

---------------------------------------------------------------------------
(* Rows and reports.  A report is opened before its row is there, one      *)
(* request opens it, and nothing staff work on loses its row.              *)

Opening(r) == At(r, "sent", "initiate")

SeesRow(r) ==
  req[r] # Idle =>
    /\ req[r].op \in StaffOps => status[req[r].check] # "ABSENT"
    /\ req[r].op = "webhook" /\ req[r].applies =>
         Sent(req[r].event) /\ status[event[req[r].event].check] # "ABSENT"

RowsFollowReports ==
  /\ \A c \in Checks : subject[c] = NoOne => status[c] = "ABSENT"
  /\ \A r \in Requests : Opening(r) =>
       /\ status[req[r].check] = "ABSENT"
       /\ subject[req[r].check] = req[r].user
       /\ \A q \in Requests \ {r} : Opening(q) => req[q].check # req[r].check
  /\ \A r \in Requests : SeesRow(r)

\* What a request in flight holds after a step in which it does not open a report.
Shrinks(r) == req'[r] = req[r] \/ req'[r] = Idle

LEMMA FinishShrinks ==
  ASSUME TypeOK, NEW r \in Requests, Finish(r)
  PROVE  \A q \in Requests : Shrinks(q)
BY DEF TypeOK, Finish, Shrinks

\* A step that opens nothing and takes no row away.
LEMMA ClosedKeepsRows ==
  ASSUME TypeOK, RowsFollowReports, UNCHANGED subject,
         \A c \in Checks : status'[c] = status[c] \/ (status[c] # "ABSENT" /\ status'[c] # "ABSENT"),
         \A e \in Events : Sent(e) => event'[e] = event[e],
         \A q \in Requests : Shrinks(q) \/ (~Opening(q)' /\ SeesRow(q)')
  PROVE  RowsFollowReports'
<1>1. ASSUME NEW q \in Requests, Opening(q)'
      PROVE  Opening(q) /\ req'[q] = req[q] /\ req[q].check \in Checks
  <2>1. req'[q] = req[q]
    BY <1>1 DEF Opening, At, Idle, Shrinks
  <2>2. Opening(q)
    BY <1>1, <2>1 DEF Opening, At
  <2> QED
    BY <2>1, <2>2, InitiateInFlight DEF Opening
<1>2. ASSUME NEW q \in Requests PROVE SeesRow(q)'
  <2>1. CASE req'[q] = req[q]
    <3>1. SeesRow(q)
      BY DEF RowsFollowReports
    <3>2. req[q] # Idle =>
            /\ req[q].op \in StaffOps => req[q].check \in Checks
            /\ req[q].op = "webhook" => req[q].event \in Events
      BY DEF TypeOK, Handlers, StaffOps
    <3>3. \A e \in Events : Sent(e) => event[e].check \in Checks
      BY DEF TypeOK, Sent
    <3> QED
      BY <2>1, <3>1, <3>2, <3>3 DEF SeesRow, Sent
  <2> QED
    BY <2>1 DEF Shrinks, SeesRow
<1>3. \A c \in Checks : subject'[c] = NoOne => status'[c] = "ABSENT"
  BY DEF RowsFollowReports
<1>4. \A q \in Requests : Opening(q)' =>
        /\ status'[req'[q].check] = "ABSENT"
        /\ subject'[req'[q].check] = req'[q].user
        /\ \A p \in Requests \ {q} : Opening(p)' => req'[p].check # req'[q].check
  BY <1>1 DEF RowsFollowReports
<1> QED
  BY <1>2, <1>3, <1>4 DEF RowsFollowReports

LEMMA InitRowsFollowReports == Init => RowsFollowReports
BY DEF Init, RowsFollowReports, SeesRow, Opening, At, Idle

LEMMA InitiateCallKeepsRows ==
  ASSUME TypeOK, RowsFollowReports, NEW r \in Requests, NEW c \in Checks, InitiateCall(r, c)
  PROVE  RowsFollowReports'
<1>1. /\ req' = [req EXCEPT ![r] =
           [phase |-> "sent", op |-> "initiate", user |-> req[r].user, check |-> c]]
      /\ subject[c] = NoOne /\ subject' = [subject EXCEPT ![c] = req[r].user]
      /\ status' = status
  BY DEF InitiateCall, rowVars
<1>2. req[r].user \in Volunteers
  BY InitiateInFlight DEF InitiateCall
<1>3. /\ req'[r].check = c /\ req'[r].user = req[r].user /\ req'[r].op = "initiate"
      /\ \A q \in Requests \ {r} : req'[q] = req[q]
      /\ subject'[c] = req[r].user /\ subject'[c] # NoOne
      /\ \A d \in Checks \ {c} : subject'[d] = subject[d]
  BY <1>1, <1>2, NobodyAssumption DEF TypeOK
<1>4. status[c] = "ABSENT"
  BY <1>1 DEF RowsFollowReports
<1>5. ASSUME NEW q \in Requests \ {r}, Opening(q)
      PROVE  req[q].check \in Checks /\ req[q].check # c
  <2>1. req[q].check \in Checks /\ req[q].user \in Volunteers
    BY <1>5, InitiateInFlight DEF Opening
  <2>2. subject[req[q].check] = req[q].user
    BY <1>5 DEF RowsFollowReports
  <2> QED
    BY <1>1, <2>1, <2>2, NobodyAssumption
<1>6. \A q \in Requests : Opening(q)' =>
        /\ status'[req'[q].check] = "ABSENT"
        /\ subject'[req'[q].check] = req'[q].user
        /\ \A p \in Requests \ {q} : Opening(p)' => req'[p].check # req'[q].check
  <2>1. \A q \in Requests \ {r} : Opening(q)' => Opening(q)
    BY <1>3 DEF Opening, At
  <2> QED
    BY <1>1, <1>3, <1>4, <1>5, <2>1 DEF RowsFollowReports
<1>7. \A q \in Requests : SeesRow(q)'
  <2>1. event' = event
    BY DEF InitiateCall
  <2> QED
    BY <1>1, <1>3, <2>1 DEF RowsFollowReports, SeesRow, StaffOps, Sent
<1> QED
  BY <1>1, <1>3, <1>6, <1>7 DEF RowsFollowReports

LEMMA InitiateCommitKeepsRows ==
  ASSUME TypeOK, RowsFollowReports, NEW r \in Requests, InitiateCommit(r)
  PROVE  RowsFollowReports'
<1> DEFINE c == req[r].check
<1>1. /\ Opening(r) /\ Finish(r) /\ subject' = subject
      /\ status' = [status EXCEPT ![c] = "PENDING"]
  BY DEF InitiateCommit, Opening, providerVars
<1>2. c \in Checks /\ req[r].user \in Volunteers
  BY <1>1, InitiateInFlight DEF Opening
<1>3. /\ subject[c] # NoOne
      /\ \A q \in Requests \ {r} : Opening(q) => req[q].check # c
  BY <1>1, <1>2, NobodyAssumption DEF RowsFollowReports
<1>4. /\ req'[r] = Idle
      /\ \A q \in Requests \ {r} : req'[q] = req[q]
  BY <1>1 DEF Finish, TypeOK
<1>5. status'[c] = "PENDING" /\ \A d \in Checks \ {c} : status'[d] = status[d]
  BY <1>1, <1>2 DEF TypeOK
<1> HIDE DEF c
<1>6. \A q \in Requests : Opening(q)' =>
        /\ status'[req'[q].check] = "ABSENT"
        /\ subject'[req'[q].check] = req'[q].user
        /\ \A p \in Requests \ {q} : Opening(p)' => req'[p].check # req'[q].check
  <2>1. \A q \in Requests : Opening(q)' => Opening(q) /\ req'[q] = req[q] /\ q # r
    BY <1>4 DEF Opening, At, Idle
  <2>2. \A q \in Requests : Opening(q) => req[q].check \in Checks
    BY InitiateInFlight DEF Opening
  <2> QED
    BY <1>1, <1>3, <1>5, <2>1, <2>2 DEF RowsFollowReports
<1>7. \A q \in Requests : SeesRow(q)'
  <2>1. \A q \in Requests : req[q] # Idle =>
          /\ req[q].op \in StaffOps => req[q].check \in Checks
          /\ req[q].op = "webhook" => req[q].event \in Events
    BY DEF TypeOK, Handlers, StaffOps
  <2>2. \A e \in Events : Sent(e) => event[e].check \in Checks
    BY DEF TypeOK, Sent
  <2>3. event' = event
    BY DEF InitiateCommit, providerVars
  <2> QED
    BY <1>4, <1>5, <2>1, <2>2, <2>3 DEF RowsFollowReports, SeesRow, Sent
<1> QED
  BY <1>1, <1>3, <1>5, <1>6, <1>7 DEF RowsFollowReports

LEMMA RowsStep == TypeOK /\ RowsFollowReports /\ [Next]_vars => RowsFollowReports'
<1> SUFFICES ASSUME TypeOK, RowsFollowReports, [Next]_vars PROVE RowsFollowReports'
  OBVIOUS
<1> USE DEF rowVars, providerVars, letterVars
<1>1. ASSUME NEW r \in Requests, NEW u \in Volunteers, InitiateRead(r, u)
      PROVE  RowsFollowReports'
  <2>1. \A q \in Requests : req'[q] = req[q] \/ (~Opening(q)' /\ req'[q].op = "initiate")
    BY <1>1 DEF InitiateRead, Start, Opening, At, TypeOK
  <2> QED
    BY <1>1, <2>1, ClosedKeepsRows DEF InitiateRead, Shrinks, SeesRow, StaffOps
<1>2. ASSUME NEW r \in Requests, NEW c \in Checks, InitiateCall(r, c) PROVE RowsFollowReports'
  BY <1>2, InitiateCallKeepsRows
<1>3. ASSUME NEW r \in Requests, InitiateCommit(r) PROVE RowsFollowReports'
  BY <1>3, InitiateCommitKeepsRows
<1>4. ASSUME NEW r \in Requests, NEW c \in Checks,
             \/ CancelRead(r, c) \/ NoticeRead(r, c) \/ FinalizeRead(r, c)
             \/ ResolveRead(r, c) \/ ApproveRead(r, c)
      PROVE  RowsFollowReports'
  <2>1. PICK op \in StaffOps : StaffRead(r, op, c)
    BY <1>4 DEF CancelRead, NoticeRead, FinalizeRead, ResolveRead, ApproveRead, StaffOps
  <2>2. status[c] # "ABSENT"
    BY <1>4 DEF CancelRead, NoticeRead, FinalizeRead, ResolveRead, ApproveRead, Active
  <2>3. \A q \in Requests :
          req'[q] = req[q] \/ (~Opening(q)' /\ req'[q].check = c /\ req'[q].op \in StaffOps)
    BY <2>1 DEF StaffRead, Start, Opening, At, TypeOK, StaffOps
  <2> QED
    BY <2>1, <2>2, <2>3, ClosedKeepsRows DEF StaffRead, Shrinks, SeesRow, StaffOps
<1>5. ASSUME NEW r \in Requests,
             CancelCommit(r) \/ FinalizeCommit(r) \/ ApproveCommit(r) \/ ResolveCommit(r)
               \/ NoticeCommit(r)
      PROVE  RowsFollowReports'
  <2>1. PICK op \in StaffOps, phase \in {"read", "sent"} : At(r, phase, op)
    BY <1>5 DEF CancelCommit, FinalizeCommit, ApproveCommit, ResolveCommit, NoticeCommit, StaffOps
  <2>2. req[r] # Idle /\ req[r].op \in StaffOps /\ req[r].check \in Checks
    BY <2>1, StaffInFlight DEF At, Idle, StaffHandlers
  <2>3. status[req[r].check] # "ABSENT"
    BY <2>2 DEF RowsFollowReports, SeesRow
  <2>4. /\ \/ status' = status
           \/ \E new \in {"CANCELLED", "FAILED", "COMPLETE"} :
                status' = [status EXCEPT ![req[r].check] = new]
        /\ Finish(r) /\ UNCHANGED <<subject, event>>
    BY <1>5 DEF CancelCommit, FinalizeCommit, ApproveCommit, ResolveCommit, NoticeCommit
  <2>5. \A c \in Checks : status'[c] = status[c] \/ (status[c] # "ABSENT" /\ status'[c] # "ABSENT")
    BY <2>2, <2>3, <2>4 DEF TypeOK
  <2> QED
    BY <2>4, <2>5, FinishShrinks, ClosedKeepsRows
<1>6. ASSUME NEW r \in Requests, NoticeSend(r) \/ FinalizeSend(r) PROVE RowsFollowReports'
  <2>1. PICK op \in StaffOps : At(r, "read", op)
    BY <1>6 DEF NoticeSend, FinalizeSend, StaffOps
  <2>2. req[r] \in StaffHandlers
    BY <2>1, StaffInFlight
  <2>3. /\ req'[r].op = op /\ req'[r].check = req[r].check
        /\ \A q \in Requests \ {r} : req'[q] = req[q]
    <3>1. CASE NoticeSend(r)
      BY <2>1, <2>2, <3>1 DEF NoticeSend, TypeOK, StaffHandlers, At
    <3>2. CASE FinalizeSend(r)
      BY <2>1, <2>2, <3>2 DEF FinalizeSend, TypeOK, StaffHandlers, At
    <3> QED
      BY <1>6, <3>1, <3>2
  <2>4. status[req[r].check] # "ABSENT"
    BY <2>1 DEF RowsFollowReports, SeesRow, At, Idle
  <2>5. UNCHANGED <<status, subject, event>>
    BY <1>6 DEF NoticeSend, FinalizeSend
  <2>6. ~Opening(r)' /\ SeesRow(r)'
    BY <2>3, <2>4, <2>5 DEF Opening, SeesRow, At, StaffOps
  <2> QED
    BY <2>3, <2>5, <2>6, ClosedKeepsRows DEF Shrinks
<1>7. ASSUME NEW r \in Requests, NEW e \in Events, WebhookReceive(r, e)
      PROVE  RowsFollowReports'
  <2>1. /\ req'[r].op = "webhook" /\ req'[r].event = e
        /\ req'[r].applies => event[e].result # "progress"
        /\ \A q \in Requests \ {r} : req'[q] = req[q]
    BY <1>7 DEF WebhookReceive, Start, TypeOK
  <2>2. Sent(e) /\ (event[e].result # "progress" => status[event[e].check] # "ABSENT")
    BY <1>7 DEF WebhookReceive
  <2>3. UNCHANGED <<status, subject, event>>
    BY <1>7 DEF WebhookReceive
  <2>4. ~Opening(r)' /\ SeesRow(r)'
    BY <2>1, <2>2, <2>3 DEF Opening, SeesRow, At, StaffOps, Sent
  <2> QED
    BY <2>1, <2>3, <2>4, ClosedKeepsRows DEF Shrinks
<1>8. ASSUME NEW r \in Requests, WebhookRecord(r) \/ WebhookRefused(r) \/ Rollback(r)
      PROVE  RowsFollowReports'
  BY <1>8, FinishShrinks, ClosedKeepsRows DEF WebhookRecord, WebhookRefused, Rollback
<1>9. ASSUME NEW r \in Requests, WebhookApply(r) PROVE RowsFollowReports'
  <2> DEFINE c == event[req[r].event].check
             new == ResultStatus(event[req[r].event].result)
  <2>1. /\ At(r, "read", "webhook") /\ req[r].applies /\ Finish(r)
        /\ UNCHANGED <<subject, event>>
        /\ status' = [status EXCEPT ![c] = new]
    BY <1>9 DEF WebhookApply
  <2>2. status[c] # "ABSENT"
    BY <2>1 DEF RowsFollowReports, SeesRow, At, Idle
  <2>3. new # "ABSENT"
    BY DEF ResultStatus
  <2> HIDE DEF c, new
  <2>4. \A d \in Checks : status'[d] = status[d] \/ (status[d] # "ABSENT" /\ status'[d] # "ABSENT")
    BY <2>1, <2>2, <2>3 DEF TypeOK
  <2> QED
    BY <2>1, <2>4, FinishShrinks, ClosedKeepsRows
<1>10. ASSUME UNCHANGED <<subject, status, req>>, \A e \in Events : Sent(e) => event'[e] = event[e]
       PROVE  RowsFollowReports'
  BY <1>10, ClosedKeepsRows DEF Shrinks
<1>11. ASSUME NEW r \in Requests, StaffNext(r) PROVE RowsFollowReports'
  BY <1>1, <1>2, <1>3, <1>4, <1>5, <1>6, <1>11 DEF StaffNext
<1>12. ASSUME NEW r \in Requests, WebhookNext(r) PROVE RowsFollowReports'
  BY <1>7, <1>8, <1>9, <1>12 DEF WebhookNext
<1>13. ASSUME NEW e \in Events, NEW c \in Checks, NEW result \in Results,
              ProviderSends(e, c, result)
       PROVE  RowsFollowReports'
  BY <1>10, <1>13 DEF ProviderSends, TypeOK
<1>14. ASSUME NEW e \in Events, WebhookDuplicate(e) PROVE RowsFollowReports'
  BY <1>10, <1>14 DEF WebhookDuplicate
<1>15. CASE CredentialNext \/ Tick
  BY <1>10, <1>15 DEF CredentialNext, IssueCredential, RevokeCredential, RemoveCredential, Tick
<1>16. CASE UNCHANGED vars
  BY <1>10, <1>16 DEF vars
<1> QED
  BY <1>8, <1>11, <1>12, <1>13, <1>14, <1>15, <1>16 DEF Next

\* Rows follow their reports in every reachable state: what one request is opening no
\* other touches, and no row staff or a result work on goes away (initiateProviderCheck).
THEOREM RowsInvariant == Spec => []RowsFollowReports
BY InitRowsFollowReports, RowsStep, TypeCorrect, PTL DEF Spec

---------------------------------------------------------------------------
(* Results.  A check never becomes PENDING again, so whoever has seen it   *)
(* past that may record a result without applying it.                      *)

Taken(c) == status[c] \notin {"ABSENT", "PENDING"}
ResultTaken(e) == event[e].result # "progress" => Taken(event[e].check)

RecordsRightly(r) ==
  At(r, "read", "webhook") =>
    Sent(req[r].event) /\ (req[r].applies \/ ResultTaken(req[r].event))

ResultsTaken ==
  /\ answered \subseteq processed
  /\ \A e \in processed : Sent(e) /\ ResultTaken(e)
  /\ \A r \in Requests : RecordsRightly(r)

LEMMA InitResultsTaken == Init => ResultsTaken
BY DEF Init, ResultsTaken, RecordsRightly, At, Idle

LEMMA TakenStaysTaken ==
  ASSUME TypeOK, RowsFollowReports, [Next]_vars
  PROVE  \A c \in Checks : Taken(c) => Taken(c)'
<1> USE DEF rowVars, Taken
<1>1. ASSUME NEW r \in Requests, StaffNext(r) PROVE \A c \in Checks : Taken(c) => Taken(c)'
  <2>1. CASE InitiateCommit(r)
    <3>1. status[req[r].check] = "ABSENT"
      BY <2>1 DEF InitiateCommit, Opening, RowsFollowReports
    <3>2. status' = [status EXCEPT ![req[r].check] = "PENDING"]
      BY <2>1 DEF InitiateCommit
    <3> QED
      BY <3>1, <3>2 DEF TypeOK
  <2>2. CASE CancelCommit(r) \/ FinalizeCommit(r) \/ ApproveCommit(r)
    BY <2>2 DEF CancelCommit, FinalizeCommit, ApproveCommit, TypeOK
  <2>3. CASE NoticeSend(r) \/ NoticeCommit(r) \/ FinalizeSend(r) \/ ResolveCommit(r)
    BY <2>3 DEF NoticeSend, NoticeCommit, FinalizeSend, ResolveCommit
  <2>4. CASE \E u \in Volunteers : InitiateRead(r, u)
    BY <2>4 DEF InitiateRead
  <2>5. ASSUME NEW c \in Checks,
               \/ InitiateCall(r, c) \/ CancelRead(r, c) \/ NoticeRead(r, c)
               \/ FinalizeRead(r, c) \/ ResolveRead(r, c) \/ ApproveRead(r, c)
        PROVE  status' = status
    BY <2>5 DEF InitiateCall, CancelRead, NoticeRead, FinalizeRead, ResolveRead, ApproveRead,
                StaffRead
  <2> QED
    BY <1>1, <2>1, <2>2, <2>3, <2>4, <2>5 DEF StaffNext
<1>2. ASSUME NEW r \in Requests, WebhookNext(r) PROVE \A c \in Checks : Taken(c) => Taken(c)'
  <2>1. CASE WebhookApply(r)
    <3>1. PICK c, result : status' = [status EXCEPT ![c] = ResultStatus(result)]
      BY <2>1 DEF WebhookApply
    <3>2. ResultStatus(result) \notin {"ABSENT", "PENDING"}
      BY DEF ResultStatus
    <3> QED
      BY <3>1, <3>2 DEF TypeOK
  <2> QED
    BY <1>2, <2>1 DEF WebhookNext, WebhookReceive, WebhookRecord, WebhookRefused
<1>3. ASSUME NEW r \in Requests, Rollback(r) PROVE \A c \in Checks : Taken(c) => Taken(c)'
  BY <1>3 DEF Rollback
<1>4. ASSUME NEW e \in Events, NEW c \in Checks, NEW result \in Results,
             ProviderSends(e, c, result)
      PROVE  status' = status
  BY <1>4 DEF ProviderSends
<1>5. ASSUME NEW e \in Events, WebhookDuplicate(e) PROVE status' = status
  BY <1>5 DEF WebhookDuplicate
<1>6. CASE CredentialNext \/ Tick
  BY <1>6 DEF CredentialNext, IssueCredential, RevokeCredential, RemoveCredential, Tick
<1>7. CASE UNCHANGED vars
  BY <1>7 DEF vars
<1> QED
  BY <1>1, <1>2, <1>3, <1>4, <1>5, <1>6, <1>7 DEF Next

LEMMA RecordingKeepsResults ==
  ASSUME TypeOK, TypeOK', ResultsTaken, \A c \in Checks : Taken(c) => Taken(c)',
         \A e \in Events : Sent(e) => event'[e] = event[e],
         answered' \subseteq processed',
         \A e \in processed' : e \in processed \/ (Sent(e) /\ ResultTaken(e))',
         \A q \in Requests : Shrinks(q) \/ RecordsRightly(q)'
  PROVE  ResultsTaken'
<1>1. \A e \in Events : Sent(e) => event[e].check \in Checks
  BY DEF TypeOK, Sent
<1>2. \A e \in Events : Sent(e) => Sent(e)' /\ (ResultTaken(e) => ResultTaken(e)')
  BY <1>1 DEF Sent, ResultTaken
<1>3. \A e \in processed' : (Sent(e) /\ ResultTaken(e))'
  BY <1>2 DEF ResultsTaken, TypeOK
<1>4. ASSUME NEW q \in Requests, req'[q] = req[q] PROVE RecordsRightly(q)'
  <2>1. At(q, "read", "webhook") => req[q].event \in Events
    BY WebhookInFlight
  <2>2. RecordsRightly(q)
    BY DEF ResultsTaken
  <2> QED
    BY <1>2, <1>4, <2>1, <2>2 DEF RecordsRightly, At
<1>5. ASSUME NEW q \in Requests, req'[q] = Idle PROVE RecordsRightly(q)'
  BY <1>5 DEF RecordsRightly, At, Idle
<1> QED
  BY <1>3, <1>4, <1>5 DEF ResultsTaken, Shrinks

\* Steps of staff: nothing is answered, recorded or received.
LEMMA StaffRecordsNothing ==
  ASSUME TypeOK, NEW r \in Requests, StaffNext(r) \/ Rollback(r)
  PROVE  /\ UNCHANGED <<event, processed, answered>>
         /\ \A q \in Requests : Shrinks(q) \/ req'[q].op # "webhook"
<1> USE DEF providerVars
<1>1. CASE \/ InitiateCommit(r) \/ CancelCommit(r) \/ FinalizeCommit(r) \/ ApproveCommit(r)
           \/ NoticeCommit(r) \/ ResolveCommit(r) \/ Rollback(r)
  BY <1>1, FinishShrinks DEF InitiateCommit, CancelCommit, FinalizeCommit, ApproveCommit,
                             NoticeCommit, ResolveCommit, Rollback
<1>2. CASE NoticeSend(r)
  <2>1. req[r] \in StaffHandlers
    BY <1>2, StaffInFlight DEF NoticeSend, StaffOps
  <2> QED
    BY <1>2, <2>1 DEF NoticeSend, StaffHandlers, At, Shrinks, TypeOK
<1>3. CASE FinalizeSend(r)
  <2>1. req[r] \in StaffHandlers
    BY <1>3, StaffInFlight DEF FinalizeSend, StaffOps
  <2> QED
    BY <1>3, <2>1 DEF FinalizeSend, StaffHandlers, At, Shrinks, TypeOK
<1>4. ASSUME NEW u \in Volunteers, InitiateRead(r, u)
      PROVE  /\ UNCHANGED <<event, processed, answered>>
             /\ \A q \in Requests : Shrinks(q) \/ req'[q].op # "webhook"
  BY <1>4 DEF InitiateRead, Start, Shrinks, TypeOK
<1>5. ASSUME NEW c \in Checks, InitiateCall(r, c)
      PROVE  /\ UNCHANGED <<event, processed, answered>>
             /\ \A q \in Requests : Shrinks(q) \/ req'[q].op # "webhook"
  BY <1>5 DEF InitiateCall, Shrinks, TypeOK
<1>6. ASSUME NEW c \in Checks,
             \/ CancelRead(r, c) \/ NoticeRead(r, c) \/ FinalizeRead(r, c)
             \/ ResolveRead(r, c) \/ ApproveRead(r, c)
      PROVE  /\ UNCHANGED <<event, processed, answered>>
             /\ \A q \in Requests : Shrinks(q) \/ req'[q].op # "webhook"
  <2>1. PICK op \in StaffOps : StaffRead(r, op, c)
    BY <1>6 DEF CancelRead, NoticeRead, FinalizeRead, ResolveRead, ApproveRead, StaffOps
  <2> QED
    BY <2>1 DEF StaffRead, Start, Shrinks, TypeOK, StaffOps
<1> QED
  BY <1>1, <1>2, <1>3, <1>4, <1>5, <1>6 DEF StaffNext

LEMMA ResultsStep ==
  ASSUME TypeOK, TypeOK', RowsFollowReports, ResultsTaken, Provider = "STERLING", [Next]_vars
  PROVE  ResultsTaken'
<1> USE DEF rowVars, providerVars, letterVars
<1>1. \A c \in Checks : Taken(c) => Taken(c)'
  BY TakenStaysTaken
<1>2. ASSUME UNCHANGED <<processed, answered>>,
             \A e \in Events : Sent(e) => event'[e] = event[e],
             \A q \in Requests : Shrinks(q) \/ RecordsRightly(q)'
      PROVE  ResultsTaken'
  BY <1>1, <1>2, RecordingKeepsResults DEF ResultsTaken
<1>3. ASSUME NEW r \in Requests, StaffNext(r) \/ Rollback(r) PROVE ResultsTaken'
  BY <1>2, <1>3, StaffRecordsNothing DEF RecordsRightly, At
<1>4. ASSUME NEW r \in Requests, NEW e \in Events, WebhookReceive(r, e) PROVE ResultsTaken'
  <2> DEFINE applies == event[e].result # "progress" /\ status[event[e].check] \notin Terminal
  <2>1. /\ req' = [req EXCEPT ![r] = [phase |-> "read", op |-> "webhook", event |-> e,
                                      applies |-> applies]]
        /\ UNCHANGED <<status, event, processed, answered>>
        /\ Sent(e) /\ (event[e].result # "progress" => status[event[e].check] # "ABSENT")
    BY <1>4 DEF WebhookReceive, Start
  <2>2. applies \/ ResultTaken(e)
    BY <2>1 DEF ResultTaken, Taken, Terminal
  <2>3. /\ \A q \in Requests \ {r} : req'[q] = req[q]
        /\ req'[r].event = e /\ req'[r].applies = applies
    BY <2>1 DEF TypeOK
  <2> HIDE DEF applies
  <2>4. RecordsRightly(r)'
    BY <2>1, <2>2, <2>3 DEF RecordsRightly, ResultTaken, Taken, Sent
  <2> QED
    BY <1>2, <2>1, <2>3, <2>4 DEF Shrinks
<1>5. ASSUME NEW r \in Requests, WebhookRecord(r) PROVE ResultsTaken'
  <2>1. /\ Sent(req[r].event) /\ ResultTaken(req[r].event)
        /\ processed' = processed \cup {req[r].event}
        /\ answered' \in {answered, answered \cup {req[r].event}}
        /\ UNCHANGED <<status, event>> /\ Finish(r)
    BY <1>5 DEF WebhookRecord, Answer, ResultsTaken, RecordsRightly
  <2>2. \A e \in processed' : e \in processed \/ (Sent(e) /\ ResultTaken(e))'
    BY <2>1 DEF Sent, ResultTaken, Taken
  <2> QED
    BY <1>1, <2>1, <2>2, FinishShrinks, RecordingKeepsResults DEF ResultsTaken
<1>6. ASSUME NEW r \in Requests, WebhookApply(r) PROVE ResultsTaken'
  <2>1. PICK e \in Events : e = req[r].event
    BY <1>6, WebhookInFlight DEF WebhookApply
  <2>2. /\ At(r, "read", "webhook") /\ processed' = processed \cup {e}
        /\ answered' \in {answered, answered \cup {e}}
        /\ event' = event /\ Finish(r)
        /\ status' = [status EXCEPT ![event[e].check] = ResultStatus(event[e].result)]
    BY <1>6, <2>1 DEF WebhookApply, Answer
  <2>3. Sent(e) /\ event[e].check \in Checks
    BY <2>1, <2>2 DEF ResultsTaken, RecordsRightly, TypeOK, Sent
  <2>4. Sent(e)' /\ ResultTaken(e)'
    BY <2>2, <2>3 DEF Sent, ResultTaken, Taken, ResultStatus, TypeOK
  <2> QED
    BY <1>1, <2>2, <2>4, FinishShrinks, RecordingKeepsResults DEF ResultsTaken
<1>7. ASSUME NEW r \in Requests, WebhookRefused(r) PROVE ResultsTaken'
  BY <1>2, <1>7, FinishShrinks DEF WebhookRefused
<1>8. ASSUME NEW e \in Events, NEW c \in Checks, NEW result \in Results,
             ProviderSends(e, c, result)
      PROVE  ResultsTaken'
  BY <1>2, <1>8 DEF ProviderSends, Shrinks, TypeOK
<1>9. ASSUME NEW e \in Events, WebhookDuplicate(e) PROVE ResultsTaken'
  <2>1. /\ UNCHANGED <<status, event, processed, req>>
        /\ answered' \subseteq processed
    BY <1>9 DEF WebhookDuplicate, Answer, ResultsTaken
  <2> QED
    BY <1>1, <2>1, RecordingKeepsResults DEF Shrinks
<1>10. CASE CredentialNext \/ Tick
  BY <1>2, <1>10 DEF CredentialNext, IssueCredential, RevokeCredential, RemoveCredential, Tick,
                     Shrinks
<1>11. CASE UNCHANGED vars
  BY <1>2, <1>11 DEF vars, Shrinks
<1>12. ASSUME NEW r \in Requests, WebhookNext(r) PROVE ResultsTaken'
  BY <1>4, <1>5, <1>6, <1>7, <1>12 DEF WebhookNext
<1> QED
  BY <1>3, <1>8, <1>9, <1>10, <1>11, <1>12 DEF Next

\* Whatever deliveries, duplicates, lost answers, cancellations and other requests race:
\* a result that Sterling's route has answered 200 has taken its check past PENDING
\* (handleProviderWebhookEvent, sterling/webhook/route.ts).
THEOREM ResultsReachChecks == Provider = "STERLING" => (Spec => []ResultReachesCheck)
<1> SUFFICES ASSUME Provider = "STERLING" PROVE Spec => []ResultReachesCheck
  OBVIOUS
<1>1. TypeOK /\ TypeOK' /\ RowsFollowReports /\ ResultsTaken /\ [Next]_vars => ResultsTaken'
  BY ResultsStep
<1>2. ResultsTaken => ResultReachesCheck
  BY DEF ResultsTaken, ResultTaken, Taken, ResultReachesCheck
<1> QED
  BY <1>1, <1>2, InitResultsTaken, TypeCorrect, RowsInvariant, PTL DEF Spec

---------------------------------------------------------------------------
(* Final states.  Requests that close a check do so on one of three        *)
(* grounds: staff cancel it, staff finish its review, or a result says so. *)
(* On one ground any number of them may overlap.                           *)

Closes(r, c) ==
  /\ req[r] # Idle
  /\ \/ req[r].op \in {"cancel", "finalize", "approve"} /\ req[r].check = c
     \/ req[r].op = "webhook" /\ req[r].applies /\ event[req[r].event].check = c

SameGround(r, q) ==
  \/ req[r].op = "cancel" /\ req[q].op = "cancel"
  \/ {req[r].op, req[q].op} \subseteq {"finalize", "approve"}
  \/ req[r].op = "webhook" /\ req[q].op = "webhook" /\ req[r].event = req[q].event

OneGround(c) == \A r, q \in Requests : Closes(r, c) /\ Closes(q, c) => SameGround(r, q)

Decided == {"ADVERSE_ACTION_SENT", "RESOLVED"}

\* Whoever is about to close the check finds it open, closed as it would close it itself, or
\* is refused: the adverse-action columns are decided, the event is processed.
SeesCheck(r, c) ==
  Closes(r, c) =>
    /\ req[r].op = "cancel" => status[c] \in Active \cup {"CANCELLED"}
    /\ req[r].op = "finalize" => status[c] = "CONSIDER" \/ fcra[c] \in Decided
    /\ req[r].op = "webhook" => req[r].event \in processed \/ status[c] \in Active

CheckSeen(c) == \A r \in Requests : SeesCheck(r, c)

StaysFinal(c) == status[c] \in Terminal => status'[c] = status[c]

LEMMA InitSeen ==
  ASSUME Init, NEW c \in Checks
  PROVE  CheckSeen(c)
BY DEF Init, CheckSeen, SeesCheck, Closes

\* The event of a request that applies a result stays what it is.
LEMMA ClosedBefore ==
  ASSUME TypeOK, RowsFollowReports, NEW c \in Checks, NEW q \in Requests, req'[q] = req[q],
         \A e \in Events : Sent(e) => event'[e] = event[e], Closes(q, c)'
  PROVE  Closes(q, c) /\ status[c] # "ABSENT"
<1>1. SeesRow(q)
  BY DEF RowsFollowReports
<1>2. req[q] # Idle /\ req[q].op = "webhook" => req[q].event \in Events
  BY DEF TypeOK, Handlers, StaffOps
<1>3. Closes(q, c)
  BY <1>1, <1>2 DEF SeesRow, Closes
<1> QED
  BY <1>1, <1>3 DEF SeesRow, Closes, StaffOps

LEMMA SeenStays ==
  ASSUME TypeOK, RowsFollowReports, NEW c \in Checks, NEW q \in Requests, SeesCheck(q, c),
         Shrinks(q), status'[c] = status[c], fcra[c] \in Decided => fcra'[c] \in Decided,
         processed \subseteq processed', \A e \in Events : Sent(e) => event'[e] = event[e]
  PROVE  SeesCheck(q, c)'
<1>1. CASE req'[q] = Idle
  BY <1>1 DEF SeesCheck, Closes
<1>2. ASSUME req'[q] = req[q], Closes(q, c)' PROVE SeesCheck(q, c)'
  <2>1. Closes(q, c)
    BY <1>2, ClosedBefore
  <2> QED
    BY <1>2, <2>1 DEF SeesCheck
<1> QED
  BY <1>1, <1>2 DEF Shrinks, SeesCheck

\* A request that begins or goes on, while no row changes.
LEMMA SeenGoesOn ==
  ASSUME TypeOK, RowsFollowReports, NEW c \in Checks, CheckSeen(c), NEW r \in Requests,
         UNCHANGED <<status, fcra, processed, event>>,
         \A q \in Requests \ {r} : req'[q] = req[q], SeesCheck(r, c)'
  PROVE  CheckSeen(c)' /\ StaysFinal(c)
<1>1. ASSUME NEW q \in Requests \ {r} PROVE SeesCheck(q, c)'
  BY <1>1, SeenStays DEF CheckSeen, Shrinks
<1> QED
  BY <1>1 DEF CheckSeen, StaysFinal

LEMMA StaffReadSees ==
  ASSUME TypeOK, RowsFollowReports, NEW c \in Checks, CheckSeen(c), NEW r \in Requests,
         NEW op \in StaffOps, NEW d \in Checks, StaffRead(r, op, d),
         op = "cancel" => status[d] \in Active, op = "finalize" => status[d] = "CONSIDER"
  PROVE  CheckSeen(c)' /\ StaysFinal(c)
<1>1. /\ UNCHANGED <<status, fcra, processed, event>>
      /\ req'[r].op = op /\ req'[r].check = d
      /\ \A q \in Requests \ {r} : req'[q] = req[q]
  BY DEF StaffRead, Start, rowVars, providerVars, TypeOK
<1>2. SeesCheck(r, c)'
  BY <1>1 DEF SeesCheck, Closes, StaffOps
<1> QED
  BY <1>1, <1>2, SeenGoesOn

\* Requests that close the check at the same time do not disturb one another.
LEMMA ClosingSees ==
  ASSUME TypeOK, RowsFollowReports, NEW c \in Checks, OneGround(c), CheckSeen(c),
         NEW r \in Requests, Closes(r, c), Finish(r), event' = event,
         processed \subseteq processed',
         req[r].op = "cancel" => status'[c] = "CANCELLED",
         req[r].op \in {"finalize", "approve"} => fcra'[c] \in Decided,
         req[r].op = "webhook" => req[r].event \in processed'
  PROVE  CheckSeen(c)'
<1> SUFFICES ASSUME NEW q \in Requests, Closes(q, c)' PROVE SeesCheck(q, c)'
  BY DEF CheckSeen, SeesCheck
<1>1. req'[q] = req[q] /\ q # r
  BY DEF Closes, Finish, TypeOK
<1>2. Closes(q, c)
  BY <1>1, ClosedBefore
<1>3. SameGround(q, r)
  BY <1>2 DEF OneGround
<1> QED
  BY <1>1, <1>3 DEF SeesCheck, SameGround

\* Closing another check.
LEMMA OtherCheckStays ==
  ASSUME TypeOK, RowsFollowReports, NEW c \in Checks, CheckSeen(c), NEW r \in Requests,
         Finish(r), event' = event, processed \subseteq processed',
         status'[c] = status[c], fcra[c] \in Decided => fcra'[c] \in Decided
  PROVE  CheckSeen(c)' /\ StaysFinal(c)
<1>1. ASSUME NEW q \in Requests PROVE SeesCheck(q, c)'
  BY SeenStays, FinishShrinks DEF CheckSeen
<1> QED
  BY <1>1 DEF CheckSeen, StaysFinal

LEMMA CancelSees ==
  ASSUME TypeOK, RowsFollowReports, NEW c \in Checks, OneGround(c), CheckSeen(c),
         NEW r \in Requests, CancelCommit(r)
  PROVE  CheckSeen(c)' /\ StaysFinal(c)
<1>1. /\ req[r].op = "cancel" /\ req[r] # Idle /\ req[r].check \in Checks
      /\ status' = [status EXCEPT ![req[r].check] = "CANCELLED"]
      /\ Finish(r) /\ UNCHANGED <<event, processed, fcra>>
  BY StaffInFlight DEF CancelCommit, At, Idle, StaffOps, StaffHandlers, providerVars
<1>2. CASE req[r].check = c
  <2>1. Closes(r, c) /\ status'[c] = "CANCELLED" /\ status[c] \in Active \cup {"CANCELLED"}
    BY <1>1, <1>2 DEF Closes, CheckSeen, SeesCheck, TypeOK
  <2>2. StaysFinal(c)
    BY <2>1 DEF StaysFinal, Active, Terminal
  <2> QED
    BY <1>1, <2>1, <2>2, ClosingSees
<1>3. CASE req[r].check # c
  BY <1>1, <1>3, OtherCheckStays DEF TypeOK
<1> QED
  BY <1>2, <1>3

LEMMA ReviewSees ==
  ASSUME TypeOK, RowsFollowReports, NEW c \in Checks, OneGround(c), CheckSeen(c),
         NEW r \in Requests, FinalizeCommit(r) \/ ApproveCommit(r)
  PROVE  CheckSeen(c)' /\ StaysFinal(c)
<1>1. /\ req[r].op \in {"finalize", "approve"} /\ req[r] # Idle /\ req[r].check \in Checks
      /\ req[r].op = "finalize" => fcra[req[r].check] = "PRE_ADVERSE_SENT"
      /\ req[r].op = "approve" => status[req[r].check] = "CONSIDER"
      /\ Finish(r) /\ UNCHANGED <<event, processed>>
  <2>1. CASE FinalizeCommit(r)
    BY <2>1, StaffInFlight DEF FinalizeCommit, At, Idle, StaffOps, StaffHandlers, providerVars
  <2>2. CASE ApproveCommit(r)
    BY <2>2, StaffInFlight DEF ApproveCommit, At, Idle, StaffOps, StaffHandlers, providerVars
  <2> QED
    BY <2>1, <2>2
<1>2. /\ fcra'[req[r].check] \in Decided
      /\ \A d \in Checks \ {req[r].check} : status'[d] = status[d] /\ fcra'[d] = fcra[d]
  BY <1>1 DEF FinalizeCommit, ApproveCommit, Decided, TypeOK
<1>3. CASE req[r].check = c
  <2>1. Closes(r, c)
    BY <1>1, <1>3 DEF Closes
  <2>2. status[c] = "CONSIDER"
    BY <1>1, <1>3, <2>1 DEF CheckSeen, SeesCheck, Decided
  <2>3. StaysFinal(c)
    BY <2>2 DEF StaysFinal, Terminal
  <2> QED
    BY <1>1, <1>3, <1>2, <2>1, <2>3, ClosingSees
<1>4. CASE req[r].check # c
  BY <1>1, <1>4, <1>2, OtherCheckStays
<1> QED
  BY <1>3, <1>4

LEMMA ApplySees ==
  ASSUME TypeOK, RowsFollowReports, NEW c \in Checks, OneGround(c), CheckSeen(c),
         NEW r \in Requests, WebhookApply(r)
  PROVE  CheckSeen(c)' /\ StaysFinal(c)
<1>1. PICK e \in Events : e = req[r].event
  BY WebhookInFlight DEF WebhookApply
<1>2. /\ req[r].op = "webhook" /\ req[r] # Idle /\ req[r].applies /\ e \notin processed
      /\ status' = [status EXCEPT ![event[e].check] = ResultStatus(event[e].result)]
      /\ processed' = processed \cup {e} /\ UNCHANGED <<event, fcra>> /\ Finish(r)
  BY <1>1 DEF WebhookApply, At, Idle
<1>3. CASE event[e].check = c
  <2>1. Closes(r, c)
    BY <1>1, <1>2, <1>3 DEF Closes
  <2>2. status[c] \in Active
    BY <1>1, <1>2, <2>1 DEF CheckSeen, SeesCheck
  <2>3. StaysFinal(c)
    BY <2>2 DEF StaysFinal, Active, Terminal
  <2> QED
    BY <1>1, <1>2, <2>1, <2>3, ClosingSees
<1>4. CASE event[e].check # c
  <2>1. status'[c] = status[c]
    BY <1>2, <1>4 DEF TypeOK
  <2> QED
    BY <1>2, <2>1, OtherCheckStays
<1> QED
  BY <1>3, <1>4

LEMMA OpeningSees ==
  ASSUME TypeOK, RowsFollowReports, NEW c \in Checks, CheckSeen(c),
         NEW r \in Requests, InitiateCommit(r)
  PROVE  CheckSeen(c)' /\ StaysFinal(c)
<1>1. /\ Opening(r) /\ status' = [status EXCEPT ![req[r].check] = "PENDING"]
      /\ Finish(r) /\ UNCHANGED <<event, processed, fcra>>
  BY DEF InitiateCommit, Opening, providerVars
<1>2. req[r].check \in Checks /\ status[req[r].check] = "ABSENT"
  BY <1>1, InitiateInFlight DEF Opening, RowsFollowReports
<1>3. CASE req[r].check = c
  <2>1. ASSUME NEW q \in Requests, Closes(q, c)' PROVE FALSE
    <3>1. req'[q] = req[q]
      BY <1>1, <2>1, FinishShrinks DEF Shrinks, Closes
    <3> QED
      BY <1>1, <1>2, <1>3, <2>1, <3>1, ClosedBefore
  <2> QED
    BY <1>2, <1>3, <2>1 DEF CheckSeen, SeesCheck, StaysFinal, Terminal
<1>4. CASE req[r].check # c
  BY <1>1, <1>2, <1>4, OtherCheckStays DEF TypeOK
<1> QED
  BY <1>3, <1>4

LEMMA SeenStep ==
  ASSUME TypeOK, RowsFollowReports, NEW c \in Checks, OneGround(c), CheckSeen(c), [Next]_vars
  PROVE  CheckSeen(c)' /\ StaysFinal(c)
<1> USE DEF rowVars, providerVars, letterVars
<1>1. ASSUME NEW r \in Requests,
             \/ \E u \in Volunteers : InitiateRead(r, u)
             \/ \E d \in Checks : InitiateCall(r, d)
      PROVE  CheckSeen(c)' /\ StaysFinal(c)
  <2>1. /\ UNCHANGED <<status, fcra, processed, event>>
        /\ req'[r].op = "initiate"
        /\ \A q \in Requests \ {r} : req'[q] = req[q]
    <3>1. CASE \E u \in Volunteers : InitiateRead(r, u)
      BY <3>1 DEF InitiateRead, Start, TypeOK
    <3>2. CASE \E d \in Checks : InitiateCall(r, d)
      BY <3>2 DEF InitiateCall, TypeOK
    <3> QED
      BY <1>1, <3>1, <3>2
  <2>2. SeesCheck(r, c)'
    BY <2>1 DEF SeesCheck, Closes
  <2> QED
    BY <2>1, <2>2, SeenGoesOn
<1>2. ASSUME NEW r \in Requests, NEW d \in Checks,
             \/ CancelRead(r, d) \/ NoticeRead(r, d) \/ FinalizeRead(r, d)
             \/ ResolveRead(r, d) \/ ApproveRead(r, d)
      PROVE  CheckSeen(c)' /\ StaysFinal(c)
  <2>1. PICK op \in StaffOps : /\ StaffRead(r, op, d)
                               /\ op = "cancel" => status[d] \in Active
                               /\ op = "finalize" => status[d] = "CONSIDER"
    BY <1>2 DEF CancelRead, NoticeRead, FinalizeRead, ResolveRead, ApproveRead, StaffOps
  <2> QED
    BY <2>1, StaffReadSees
<1>3. ASSUME NEW r \in Requests, NoticeSend(r) \/ FinalizeSend(r)
      PROVE  CheckSeen(c)' /\ StaysFinal(c)
  <2>1. req[r] \in StaffHandlers
    BY <1>3, StaffInFlight DEF NoticeSend, FinalizeSend, StaffOps
  <2>2. /\ req'[r].op = req[r].op /\ req'[r].check = req[r].check
        /\ req[r].op \in {"notice", "finalize"} /\ req[r] # Idle
        /\ \A q \in Requests \ {r} : req'[q] = req[q]
        /\ UNCHANGED <<status, fcra, processed, event>>
    <3>1. CASE NoticeSend(r)
      BY <2>1, <3>1 DEF NoticeSend, TypeOK, StaffHandlers, At, Idle
    <3>2. CASE FinalizeSend(r)
      BY <2>1, <3>2 DEF FinalizeSend, TypeOK, StaffHandlers, At, Idle
    <3> QED
      BY <1>3, <3>1, <3>2
  <2>3. SeesCheck(r, c)'
    BY <2>2 DEF CheckSeen, SeesCheck, Closes
  <2> QED
    BY <2>2, <2>3, SeenGoesOn
<1>4. ASSUME NEW r \in Requests, NEW e \in Events, WebhookReceive(r, e)
      PROVE  CheckSeen(c)' /\ StaysFinal(c)
  <2> DEFINE applies == event[e].result # "progress" /\ status[event[e].check] \notin Terminal
  <2>1. /\ req' = [req EXCEPT ![r] = [phase |-> "read", op |-> "webhook", event |-> e,
                                      applies |-> applies]]
        /\ UNCHANGED <<status, fcra, processed, event>>
        /\ event[e].result # "progress" => status[event[e].check] # "ABSENT"
    BY <1>4 DEF WebhookReceive, Start
  <2>2. applies /\ event[e].check = c => status[c] \in Active
    BY <2>1 DEF TypeOK, CheckStatus, Terminal, Active
  <2>3. /\ req'[r].op = "webhook" /\ req'[r].event = e /\ req'[r].applies = applies
        /\ \A q \in Requests \ {r} : req'[q] = req[q]
    BY <2>1 DEF TypeOK
  <2> HIDE DEF applies
  <2>4. SeesCheck(r, c)'
    BY <2>1, <2>2, <2>3 DEF SeesCheck, Closes
  <2> QED
    BY <2>1, <2>3, <2>4, SeenGoesOn
<1>5. ASSUME NEW r \in Requests,
             \/ NoticeCommit(r) \/ ResolveCommit(r)
             \/ WebhookRecord(r) \/ WebhookRefused(r) \/ Rollback(r)
      PROVE  CheckSeen(c)' /\ StaysFinal(c)
  <2>1. Finish(r) /\ UNCHANGED <<status, event>> /\ processed \subseteq processed'
    BY <1>5 DEF NoticeCommit, ResolveCommit, WebhookRecord, WebhookRefused, Rollback
  <2>2. fcra[c] \in Decided => fcra'[c] \in Decided
    BY <1>5 DEF NoticeCommit, ResolveCommit, WebhookRecord, WebhookRefused, Rollback,
                Decided, Resolvable, TypeOK
  <2> QED
    BY <2>1, <2>2, OtherCheckStays
<1>6. ASSUME UNCHANGED <<status, fcra, processed, req>>,
             \A e \in Events : Sent(e) => event'[e] = event[e]
      PROVE  CheckSeen(c)' /\ StaysFinal(c)
  BY <1>6, SeenStays DEF CheckSeen, Shrinks, StaysFinal
<1>7. ASSUME NEW e \in Events, NEW d \in Checks, NEW result \in Results,
             ProviderSends(e, d, result)
      PROVE  CheckSeen(c)' /\ StaysFinal(c)
  BY <1>6, <1>7 DEF ProviderSends, TypeOK
<1>8. ASSUME NEW e \in Events, WebhookDuplicate(e) PROVE CheckSeen(c)' /\ StaysFinal(c)
  BY <1>6, <1>8 DEF WebhookDuplicate
<1>9. CASE CredentialNext \/ Tick \/ UNCHANGED vars
  BY <1>6, <1>9 DEF CredentialNext, IssueCredential, RevokeCredential, RemoveCredential, Tick, vars
<1>10. ASSUME NEW r \in Requests, StaffNext(r) PROVE CheckSeen(c)' /\ StaysFinal(c)
  BY <1>1, <1>2, <1>3, <1>5, <1>10, CancelSees, ReviewSees, OpeningSees DEF StaffNext
<1>11. ASSUME NEW r \in Requests, WebhookNext(r) PROVE CheckSeen(c)' /\ StaysFinal(c)
  BY <1>4, <1>5, <1>11, ApplySees DEF WebhookNext
<1> QED
  BY <1>5, <1>7, <1>8, <1>9, <1>10, <1>11 DEF Next

\* Of a check that is closed on one ground at a time (any number of cancellations, of
\* deliveries of one event, or of staff finishing its review, but no two of these), whatever is
\* seen when a request reads holds when it commits, or the commit is refused.
THEOREM OneGroundSeen ==
  ASSUME NEW c \in Checks
  PROVE  Spec /\ []OneGround(c) => []CheckSeen(c)
<1>1. /\ Init => CheckSeen(c)
      /\ TypeOK /\ RowsFollowReports /\ OneGround(c) /\ CheckSeen(c) /\ [Next]_vars
           => CheckSeen(c)'
  BY InitSeen, SeenStep
<1> QED
  BY <1>1, TypeCorrect, RowsInvariant, PTL DEF Spec

OneGroundEach == \A c \in Checks : OneGround(c)
EachCheckSeen == \A c \in Checks : CheckSeen(c)

\* COMPLETE, FAILED and CANCELLED are final as long as each check is closed on one ground at a
\* time, late results, repeated deliveries and impatient clicks included
\* (domain/background-check.ts:10).
THEOREM OneGroundTerminal == Spec /\ []OneGroundEach => TerminalFinal
<1>1. /\ Init => EachCheckSeen
      /\ TypeOK /\ RowsFollowReports /\ OneGroundEach /\ EachCheckSeen /\ [Next]_vars
           => EachCheckSeen'
  BY InitSeen, SeenStep DEF OneGroundEach, EachCheckSeen
<1>2. TypeOK /\ RowsFollowReports /\ OneGroundEach /\ EachCheckSeen /\ [Next]_vars
        => [\A c \in Checks : status[c] \in Terminal => status'[c] = status[c]]_vars
  BY SeenStep DEF OneGroundEach, EachCheckSeen, StaysFinal
<1> QED
  BY <1>1, <1>2, TypeCorrect, RowsInvariant, PTL DEF Spec, TerminalFinal

---------------------------------------------------------------------------
(* Checks under way.                                                       *)

Initiates(r, u) == req[r] # Idle /\ req[r].op = "initiate" /\ req[r].user = u

OneInitiation(u) == \A r, q \in Requests : Initiates(r, u) /\ Initiates(q, u) => r = q

\* The volunteer has one check under way at most, and none while another is being opened.
FewChecks(u) ==
  /\ \A c, d \in ActiveChecks(u) : c = d
  /\ \A r \in Requests : Initiates(r, u) => ~HasActiveCheck(u)

LEMMA InitFewChecks ==
  ASSUME Init, NEW u \in Volunteers
  PROVE  FewChecks(u)
BY DEF Init, FewChecks, ActiveChecks, ChecksOf, Active, Initiates

\* No other check gets under way, and whoever opens one was opening one before.
LEMMA FewStay ==
  ASSUME NEW u, FewChecks(u), ActiveChecks(u)' \subseteq ActiveChecks(u),
         \A q \in Requests : Initiates(q, u)' => Initiates(q, u) \/ ~HasActiveCheck(u)
  PROVE  FewChecks(u)'
BY DEF FewChecks, HasActiveCheck

\* Only opening a check puts it under way, if those that have ended stay so.
LEMMA ActiveSince ==
  ASSUME TypeOK, RowsFollowReports, \A c \in Checks : StaysFinal(c), [Next]_vars,
         \A r \in Requests : ~InitiateCommit(r)
  PROVE  \A c \in Checks : status'[c] \in Active => status[c] \in Active
<1> USE DEF rowVars, providerVars, letterVars
<1>1. ASSUME NEW c \in Checks, status[c] = "ABSENT", status'[c] \in Active PROVE FALSE
  <2>1. ASSUME NEW r \in Requests, WebhookApply(r) PROVE FALSE
    <3>1. PICK e \in Events : e = req[r].event
      BY <2>1, WebhookInFlight DEF WebhookApply
    <3>2. /\ status' = [status EXCEPT ![event[e].check] = ResultStatus(event[e].result)]
          /\ req[r].op = "webhook" /\ req[r] # Idle /\ req[r].applies
      BY <2>1, <3>1 DEF WebhookApply, At, Idle
    <3>3. status[event[e].check] # "ABSENT"
      BY <3>1, <3>2 DEF RowsFollowReports, SeesRow
    <3> QED
      BY <1>1, <3>2, <3>3 DEF TypeOK, Active
  <2>2. ASSUME NEW r \in Requests, CancelCommit(r) \/ FinalizeCommit(r) \/ ApproveCommit(r)
        PROVE  FALSE
    <3>1. PICK d : status' = [status EXCEPT ![d] = "CANCELLED"]
                   \/ status' = [status EXCEPT ![d] = "FAILED"]
                   \/ status' = [status EXCEPT ![d] = "COMPLETE"]
      BY <2>2 DEF CancelCommit, FinalizeCommit, ApproveCommit
    <3> QED
      BY <1>1, <3>1 DEF TypeOK, Active
  <2>3. ASSUME NEW r \in Requests, StaffNext(r) \/ WebhookNext(r) \/ Rollback(r)
        PROVE  status' = status
    <3>1. CASE StaffNext(r)
      BY <2>2, <3>1 DEF StaffNext, InitiateRead, InitiateCall, CancelRead, NoticeRead, FinalizeRead,
                        ResolveRead, ApproveRead, StaffRead, NoticeSend, NoticeCommit, FinalizeSend,
                        ResolveCommit
    <3>2. CASE WebhookNext(r)
      BY <2>1, <3>2 DEF WebhookNext, WebhookReceive, WebhookRecord, WebhookRefused
    <3> QED
      BY <2>3, <3>1, <3>2 DEF Rollback
  <2>4. ASSUME \/ \E e \in Events, d \in Checks, result \in Results : ProviderSends(e, d, result)
               \/ \E e \in Events : WebhookDuplicate(e)
               \/ CredentialNext \/ Tick \/ UNCHANGED vars
        PROVE  status' = status
    BY <2>4 DEF ProviderSends, WebhookDuplicate, CredentialNext, IssueCredential, RevokeCredential,
                RemoveCredential, Tick, vars
  <2> QED
    BY <1>1, <2>3, <2>4 DEF Active, Next
<1>2. \A c \in Checks : status[c] \in Active \cup Terminal \cup {"ABSENT"}
  BY DEF TypeOK, CheckStatus, Active, Terminal
<1> QED
  BY <1>1, <1>2 DEF StaysFinal

\* A step but the opening and its beginning leaves alone who is checked and by whom.
LEMMA SubjectSteps ==
  ASSUME TypeOK, [Next]_vars
  PROVE  \/ \E r \in Requests, u \in Volunteers : InitiateRead(r, u)
         \/ \E r \in Requests, c \in Checks : InitiateCall(r, c)
         \/ \E r \in Requests : InitiateCommit(r)
         \/ subject' = subject /\ \A q \in Requests, u \in Volunteers :
                                    Initiates(q, u)' => Initiates(q, u)
<1> USE DEF rowVars, providerVars, letterVars
<1> DEFINE Kept == \A q \in Requests, u \in Volunteers : Initiates(q, u)' => Initiates(q, u)
<1>1. ASSUME NEW r \in Requests, NEW h, h.op # "initiate", req' = [req EXCEPT ![r] = h]
      PROVE  Kept
  BY <1>1 DEF Initiates, TypeOK
<1>2. ASSUME NEW r \in Requests, Finish(r) PROVE Kept
  BY <1>2 DEF Initiates, TypeOK, Finish
<1>3. ASSUME NEW r \in Requests, NEW c \in Checks,
             \/ CancelRead(r, c) \/ NoticeRead(r, c) \/ FinalizeRead(r, c)
             \/ ResolveRead(r, c) \/ ApproveRead(r, c)
      PROVE  subject' = subject /\ Kept
  <2>1. PICK op \in StaffOps : StaffRead(r, op, c)
    BY <1>3 DEF CancelRead, NoticeRead, FinalizeRead, ResolveRead, ApproveRead, StaffOps
  <2>2. [phase |-> "read", op |-> op, check |-> c, at |-> now].op # "initiate"
    BY <2>1 DEF StaffOps
  <2> QED
    BY <1>1, <2>1, <2>2 DEF StaffRead, Start
<1>4. ASSUME NEW r \in Requests, NoticeSend(r) \/ FinalizeSend(r) PROVE subject' = subject /\ Kept
  <2>1. req[r] \in StaffHandlers
    BY <1>4, StaffInFlight DEF NoticeSend, FinalizeSend, StaffOps
  <2>2. /\ req'[r].op \in StaffOps /\ \A q \in Requests \ {r} : req'[q] = req[q]
        /\ subject' = subject
    <3>1. CASE NoticeSend(r)
      BY <2>1, <3>1 DEF NoticeSend, TypeOK, StaffHandlers
    <3>2. CASE FinalizeSend(r)
      BY <2>1, <3>2 DEF FinalizeSend, TypeOK, StaffHandlers
    <3> QED
      BY <1>4, <3>1, <3>2
  <2> QED
    BY <2>2 DEF Initiates, StaffOps
<1>5. ASSUME NEW r \in Requests, NEW e \in Events, WebhookReceive(r, e)
      PROVE  subject' = subject /\ Kept
  <2>1. req'[r].op = "webhook" /\ \A q \in Requests \ {r} : req'[q] = req[q]
    BY <1>5 DEF WebhookReceive, Start, TypeOK
  <2> QED
    BY <1>5, <2>1 DEF WebhookReceive, Initiates
<1>6. ASSUME NEW r \in Requests,
             \/ CancelCommit(r) \/ NoticeCommit(r) \/ FinalizeCommit(r) \/ ResolveCommit(r)
             \/ ApproveCommit(r) \/ WebhookRecord(r) \/ WebhookApply(r) \/ WebhookRefused(r)
             \/ Rollback(r)
      PROVE  subject' = subject /\ Kept
  <2>1. subject' = subject /\ Finish(r)
    BY <1>6 DEF CancelCommit, NoticeCommit, FinalizeCommit, ResolveCommit, ApproveCommit,
                WebhookRecord, WebhookApply, WebhookRefused, Rollback
  <2> QED
    BY <1>2, <2>1
<1>7. ASSUME \/ \E e \in Events, c \in Checks, result \in Results : ProviderSends(e, c, result)
             \/ \E e \in Events : WebhookDuplicate(e)
             \/ CredentialNext \/ Tick \/ UNCHANGED vars
      PROVE  subject' = subject /\ Kept
  BY <1>7 DEF ProviderSends, WebhookDuplicate, CredentialNext, IssueCredential, RevokeCredential,
              RemoveCredential, Tick, vars, Initiates
<1> HIDE DEF Kept
<1> QED
  BY <1>3, <1>4, <1>5, <1>6, <1>7 DEF Next, StaffNext, WebhookNext, Kept

LEMMA FewStep ==
  ASSUME TypeOK, RowsFollowReports, \A c \in Checks : StaysFinal(c), NEW u \in Volunteers,
         OneInitiation(u), FewChecks(u), [Next]_vars
  PROVE  FewChecks(u)'
<1>1. ASSUME NEW r \in Requests, InitiateCommit(r) PROVE FewChecks(u)'
  <2>1. PICK c \in Checks, v \in Volunteers : c = req[r].check /\ v = req[r].user
    BY <1>1, InitiateInFlight DEF InitiateCommit
  <2>2. /\ Opening(r) /\ status' = [status EXCEPT ![c] = "PENDING"] /\ subject' = subject
        /\ Finish(r) /\ Initiates(r, v)
    BY <1>1, <2>1 DEF InitiateCommit, Opening, Initiates, At, Idle, providerVars
  <2>3. subject[c] = v
    BY <2>1, <2>2 DEF RowsFollowReports
  <2>4. \A q \in Requests : Initiates(q, u)' => Initiates(q, u) /\ q # r
    BY <2>2 DEF Initiates, Finish, TypeOK
  <2>5. CASE v = u
    <3>1. ActiveChecks(u)' \subseteq {c}
      BY <2>2, <2>5 DEF FewChecks, HasActiveCheck, ActiveChecks, ChecksOf, TypeOK
    <3>2. \A q \in Requests : ~Initiates(q, u)'
      BY <2>2, <2>4, <2>5 DEF OneInitiation
    <3> QED
      BY <3>1, <3>2 DEF FewChecks
  <2>6. CASE v # u
    <3>1. ActiveChecks(u)' \subseteq ActiveChecks(u)
      BY <2>2, <2>3, <2>6 DEF ActiveChecks, ChecksOf, TypeOK
    <3> QED
      BY <2>4, <3>1, FewStay
  <2> QED
    BY <2>5, <2>6
<1>2. ASSUME \A r \in Requests : ~InitiateCommit(r) PROVE FewChecks(u)'
  <2>1. \A c \in Checks : status'[c] \in Active => status[c] \in Active
    BY <1>2, ActiveSince
  <2>2. ASSUME NEW r \in Requests, NEW v \in Volunteers, InitiateRead(r, v) PROVE FewChecks(u)'
    <3>1. /\ UNCHANGED <<status, subject>> /\ ~HasActiveCheck(v)
          /\ req'[r].op = "initiate" /\ req'[r].user = v
          /\ \A q \in Requests \ {r} : req'[q] = req[q]
      BY <2>2 DEF InitiateRead, Start, TypeOK, rowVars, providerVars
    <3>2. ActiveChecks(u)' = ActiveChecks(u)
      BY <3>1 DEF ActiveChecks, ChecksOf
    <3>3. \A q \in Requests : Initiates(q, u)' => Initiates(q, u) \/ ~HasActiveCheck(u)
      BY <3>1 DEF Initiates
    <3> QED
      BY <3>2, <3>3, FewStay
  <2>3. ASSUME NEW r \in Requests, NEW c \in Checks, InitiateCall(r, c) PROVE FewChecks(u)'
    <3>1. /\ status' = status /\ subject[c] = NoOne
          /\ \A d \in Checks \ {c} : subject'[d] = subject[d]
          /\ req[r] # Idle /\ req[r].op = "initiate" /\ req'[r].user = req[r].user
          /\ \A q \in Requests \ {r} : req'[q] = req[q]
      BY <2>3 DEF InitiateCall, At, Idle, TypeOK, rowVars
    <3>2. status[c] \notin Active
      BY <3>1 DEF RowsFollowReports, Active
    <3>3. ActiveChecks(u)' \subseteq ActiveChecks(u)
      BY <3>1, <3>2 DEF ActiveChecks, ChecksOf
    <3>4. \A q \in Requests : Initiates(q, u)' => Initiates(q, u)
      BY <3>1 DEF Initiates
    <3> QED
      BY <3>3, <3>4, FewStay
  <2>4. ASSUME subject' = subject, \A q \in Requests : Initiates(q, u)' => Initiates(q, u)
        PROVE  FewChecks(u)'
    <3>1. ActiveChecks(u)' \subseteq ActiveChecks(u)
      BY <2>1, <2>4 DEF ActiveChecks, ChecksOf
    <3> QED
      BY <2>4, <3>1, FewStay
  <2> QED
    BY <1>2, <2>2, <2>3, <2>4, SubjectSteps
<1> QED
  BY <1>1, <1>2

OneInitiationEach == \A u \in Volunteers : OneInitiation(u)
FewChecksEach == \A u \in Volunteers : FewChecks(u)

\* No volunteer has two checks under way, however often providers fail or repeat themselves, as
\* long as two requests to check the same volunteer do not overlap
\* (findActiveCheckForUserInOrg) and each check is closed on one ground at a time.
THEOREM ApartOneActive ==
  Spec /\ []OneInitiationEach /\ []OneGroundEach => []OneActiveCheck
<1>1. /\ Init => EachCheckSeen /\ FewChecksEach
      /\ TypeOK /\ RowsFollowReports /\ OneInitiationEach /\ OneGroundEach
           /\ EachCheckSeen /\ FewChecksEach /\ [Next]_vars
           => EachCheckSeen' /\ FewChecksEach'
  BY InitSeen, SeenStep, InitFewChecks, FewStep
     DEF OneGroundEach, EachCheckSeen, OneInitiationEach, FewChecksEach
<1>2. ASSUME FewChecksEach PROVE OneActiveCheck
  <2> SUFFICES ASSUME NEW u \in Volunteers PROVE Cardinality(ActiveChecks(u)) <= 1
    BY DEF OneActiveCheck
  <2>1. CASE ActiveChecks(u) = {}
    BY <2>1, FS_EmptySet
  <2>2. ASSUME NEW c \in ActiveChecks(u) PROVE Cardinality(ActiveChecks(u)) <= 1
    <3>1. ActiveChecks(u) = {c}
      BY <1>2, <2>2 DEF FewChecksEach, FewChecks
    <3>2. Cardinality({c}) = 1
      BY FS_Singleton
    <3> QED
      BY <3>1, <3>2
  <2> QED
    BY <2>1, <2>2
<1> QED
  BY <1>1, <1>2, TypeCorrect, RowsInvariant, PTL DEF Spec

\* One request at a time is a special case of both.
LEMMA OneRequestIsOneGround ==
  ASSUME NEW q, Requests = {q}
  PROVE  OneGroundEach /\ OneInitiationEach
BY DEF OneGroundEach, OneGround, SameGround, Closes, OneInitiationEach, OneInitiation
=============================================================================
