--------------------------- MODULE BackgroundChecks ---------------------------
(***************************************************************************)
(* Background checks of one organization's volunteers:                     *)
(* backgroundCheckService.ts, the webhook route its provider reports to,   *)
(* and the BACKGROUND_CHECK credentials a check may issue.                 *)
(*                                                                         *)
(* Staff requests and webhook deliveries read the database, then perhaps   *)
(* call out (the provider's API, an email), and then write in one          *)
(* transaction at READ COMMITTED.  As in ShiftSignups, a request in flight *)
(* is the record req[r] of what it decided on when it read; phase "sent"   *)
(* says the outside call has been made.  The adverse-action columns are    *)
(* only written under a compare-and-swap, the check's status mostly not.   *)
(*                                                                         *)
(* A check is named by its provider's report (externalId): the report      *)
(* exists once the provider is called, its row once that is committed.     *)
(***************************************************************************)
EXTENDS Integers, FiniteSets

CONSTANTS
  Volunteers,     \* volunteers of the organization
  Checks,         \* reports the provider may open
  Events,         \* webhook events the provider may send
  Requests,       \* requests served at once
  Provider,       \* "CHECKR" or "STERLING": their routes answer differently
  WaitingPeriod,  \* FCRA_WAITING_PERIOD_DAYS
  MaxNow,         \* bound on the clock, in days
  Ops,            \* what staff do in this instance
  NoOne           \* not a volunteer

AllOps == {"initiate", "cancel", "notice", "finalize", "resolve", "approve",
           "issue", "revoke", "remove"}

ASSUME WaitingPeriodAssumption == WaitingPeriod \in Nat /\ MaxNow \in Nat
ASSUME ProviderAssumption == Provider \in {"CHECKR", "STERLING"}
ASSUME CheckOpsAssumption == Ops \subseteq AllOps
ASSUME NobodyAssumption == NoOne \notin Volunteers

VARIABLES
  subject,     \* whom a report is about; NoOne before the provider opens it
  status,      \* BackgroundCheckRequest.status; "ABSENT" without a row
  fcra,        \* BackgroundCheckRequest.fcraStatus
  noticeAt,    \* BackgroundCheckRequest.preAdverseNoticeSentAt
  cites,       \* whether its credentialId names the subject's credential
  credential,  \* status of the BACKGROUND_CHECK credential; "ABSENT" without one
  event,       \* the webhook events the provider has sent
  processed,   \* CheckrWebhookEvent rows
  answered,    \* events the provider got a 200 for, and does not send again
  askedAt,     \* when the mail service was first asked for a pre-adverse letter (history)
  letterAt,    \* when the first pre-adverse letter went out (history)
  adverse,     \* checks of which an adverse letter went out (history)
  now,         \* the day
  req          \* the requests in flight

rowVars == <<status, fcra, noticeAt, cites>>
providerVars == <<subject, event, answered>>
letterVars == <<askedAt, letterAt, adverse>>
vars == <<subject, status, fcra, noticeAt, cites, credential, event, processed,
          answered, askedAt, letterAt, adverse, now, req>>

---------------------------------------------------------------------------
CheckStatus == {"ABSENT", "PENDING", "CONSIDER", "COMPLETE", "FAILED", "CANCELLED"}
FcraStatus == {"NONE", "PRE_ADVERSE_SENT", "ADVERSE_ACTION_SENT", "RESOLVED"}
CredentialStatus == {"ABSENT", "PENDING", "VERIFIED", "EXPIRED", "REVOKED"}

Active == {"PENDING", "CONSIDER"}
Terminal == {"COMPLETE", "FAILED", "CANCELLED"}
Resolvable == {"NONE", "PRE_ADVERSE_SENT"}

Never == -1

\* "suspended" stands for every result but the two the code knows, "progress" for
\* every event that is not report.completed.
Results == {"clear", "consider", "suspended", "progress"}
Unsent == [result |-> "none"]
Sent(e) == event[e] # Unsent

ResultStatusRaw(result) ==                                      \* a mutant
  IF result = "clear" THEN "COMPLETE" ELSE IF result = "consider" THEN "CONSIDER" ELSE result

\* mapResultToStatus
ResultStatus(result) ==
  IF result = "clear" THEN "COMPLETE" ELSE IF result = "consider" THEN "CONSIDER" ELSE "FAILED"

ChecksOf(u) == {c \in Checks : subject[c] = u}
ActiveChecks(u) == {c \in ChecksOf(u) : status[c] \in Active}

HasPendingCheck(u) == \E c \in ChecksOf(u) : status[c] = "PENDING"   \* a mutant

HasActiveCheck(u) == ActiveChecks(u) # {}

Idle == [phase |-> "idle"]
StaffOps == {"cancel", "notice", "finalize", "resolve", "approve"}

Handlers ==
  [phase : {"read"}, op : {"initiate"}, user : Volunteers]
    \cup [phase : {"sent"}, op : {"initiate"}, user : Volunteers, check : Checks]
    \cup [phase : {"read", "sent"}, op : StaffOps, check : Checks, at : Nat]
    \cup [phase : {"read"}, op : {"webhook"}, event : Events, applies : BOOLEAN]

Start(r, h) == req[r] = Idle /\ req' = [req EXCEPT ![r] = h]
Finish(r) == req' = [req EXCEPT ![r] = Idle]
At(r, phase, op) == req[r].phase = phase /\ req[r].op = op

\* A staff request on check c has read what it needs.
StaffRead(r, op, c) ==
  /\ op \in Ops
  /\ Start(r, [phase |-> "read", op |-> op, check |-> c, at |-> now])
  /\ UNCHANGED <<rowVars, providerVars, credential, processed, letterVars, now>>

---------------------------------------------------------------------------
(* Opening and cancelling a check.                                         *)

InitiateRead(r, u) ==
  /\ "initiate" \in Ops
  /\ ~HasActiveCheck(u)
  /\ credential[u] # "VERIFIED"
  /\ Start(r, [phase |-> "read", op |-> "initiate", user |-> u])
  /\ UNCHANGED <<rowVars, providerVars, credential, processed, letterVars, now>>

\* The provider opens the report before anything is stored.
InitiateCall(r, c) ==
  LET h == req[r] IN
  /\ At(r, "read", "initiate")
  /\ subject[c] = NoOne
  /\ subject' = [subject EXCEPT ![c] = h.user]
  /\ req' = [req EXCEPT ![r] =
       [phase |-> "sent", op |-> "initiate", user |-> h.user, check |-> c]]
  /\ UNCHANGED <<rowVars, credential, event, processed, answered, letterVars, now>>

InitiateCommit(r) ==
  /\ At(r, "sent", "initiate")
  /\ status' = [status EXCEPT ![req[r].check] = "PENDING"]
  /\ Finish(r)
  /\ UNCHANGED <<fcra, noticeAt, cites, providerVars, credential, processed, letterVars, now>>

CancelReadAny(r, c) ==                                          \* a mutant
  /\ status[c] # "ABSENT"
  /\ StaffRead(r, "cancel", c)

CancelRead(r, c) ==
  /\ status[c] \in Active
  /\ StaffRead(r, "cancel", c)

\* The update looks at nothing but the id.
CancelCommit(r) ==
  /\ At(r, "read", "cancel")
  /\ status' = [status EXCEPT ![req[r].check] = "CANCELLED"]
  /\ Finish(r)
  /\ UNCHANGED <<fcra, noticeAt, cites, providerVars, credential, processed, letterVars, now>>

---------------------------------------------------------------------------
(* Results: handleProviderWebhookEvent and the routes that call it.  A     *)
(* delivery about a report without a row is answered 500 and changes       *)
(* nothing; the provider sends it again.                                   *)

ProviderSends(e, c, result) ==
  /\ ~Sent(e)
  /\ subject[c] # NoOne
  /\ event' = [event EXCEPT ![e] = [check |-> c, result |-> result]]
  /\ UNCHANGED <<rowVars, subject, answered, credential, processed, letterVars, now, req>>

WebhookReceiveUnknown(r, e) ==                                  \* a mutant
  /\ Sent(e)
  /\ e \notin processed
  /\ Start(r, [phase |-> "read", op |-> "webhook", event |-> e,
               applies |-> event[e].result # "progress" /\ status[event[e].check] \in Active])
  /\ UNCHANGED <<rowVars, providerVars, credential, processed, letterVars, now>>

WebhookReceiveActive(r, e) ==                                   \* a mutant
  /\ Sent(e)
  /\ e \notin processed
  /\ event[e].result # "progress" => status[event[e].check] \in Active
  /\ Start(r, [phase |-> "read", op |-> "webhook", event |-> e,
               applies |-> event[e].result # "progress"])
  /\ UNCHANGED <<rowVars, providerVars, credential, processed, letterVars, now>>

\* A result is applied unless the check it is for was terminal when read.
WebhookReceive(r, e) ==
  /\ Sent(e)
  /\ e \notin processed
  /\ event[e].result # "progress" => status[event[e].check] # "ABSENT"
  /\ Start(r, [phase |-> "read", op |-> "webhook", event |-> e,
               applies |-> /\ event[e].result # "progress"
                           /\ status[event[e].check] \notin Terminal])
  /\ UNCHANGED <<rowVars, providerVars, credential, processed, letterVars, now>>

\* The answer to the provider may get lost.
Answer(e) == answered' \in {answered, answered \cup {e}}

WebhookDuplicate(e) ==
  /\ e \in processed
  /\ Answer(e)
  /\ UNCHANGED <<rowVars, subject, event, credential, processed, letterVars, now, req>>

\* The unique index on checkrId takes an event once.
WebhookRecord(r) ==
  LET e == req[r].event IN
  /\ At(r, "read", "webhook") /\ ~req[r].applies
  /\ e \notin processed
  /\ processed' = processed \cup {e}
  /\ Answer(e)
  /\ Finish(r)
  /\ UNCHANGED <<rowVars, subject, event, credential, letterVars, now>>

\* A clear result verifies the credential and cites it.  The one credential a
\* volunteer has is cited by one check at most: credentialId is unique too.
Citable(c) == \A d \in ChecksOf(subject[c]) \ {c} : ~cites[d]

WebhookApply(r) ==
  LET e == req[r].event
      c == event[e].check
      clear == event[e].result = "clear"
  IN
  /\ At(r, "read", "webhook") /\ req[r].applies
  /\ e \notin processed
  /\ clear => Citable(c)
  /\ processed' = processed \cup {e}
  /\ credential' = IF clear THEN [credential EXCEPT ![subject[c]] = "VERIFIED"] ELSE credential
  /\ cites' = [cites EXCEPT ![c] = @ \/ clear]
  /\ status' = [status EXCEPT ![c] = ResultStatus(event[e].result)]
  /\ Answer(e)
  /\ Finish(r)
  /\ UNCHANGED <<fcra, noticeAt, subject, event, letterVars, now>>

\* Either unique index refuses the transaction with the same error, P2002, which
\* Checkr's route takes for a duplicate event.  Sterling's answers 500.
WebhookRefused(r) ==
  LET e == req[r].event IN
  /\ At(r, "read", "webhook")
  /\ \/ e \in processed
     \/ req[r].applies /\ event[e].result = "clear" /\ ~Citable(event[e].check)
  /\ IF Provider = "CHECKR" THEN Answer(e) ELSE UNCHANGED answered
  /\ Finish(r)
  /\ UNCHANGED <<rowVars, subject, event, credential, processed, letterVars, now>>

---------------------------------------------------------------------------
(* Adverse action.  Both letters are sent before their transaction.  The   *)
(* mail service throws only when it cannot be asked at all (Rollback): a   *)
(* letter it refuses comes back as an error nobody looks at, and the       *)
(* request goes on as if the letter were out.                              *)

PreAdverseLetter(c) ==
  /\ askedAt' = [askedAt EXCEPT ![c] = IF @ = Never THEN now ELSE @]
  /\ \/ letterAt' = [letterAt EXCEPT ![c] = IF @ = Never THEN now ELSE @]
     \/ UNCHANGED letterAt

NoticeRead(r, c) ==
  /\ status[c] = "CONSIDER"
  /\ fcra[c] = "NONE"
  /\ StaffRead(r, "notice", c)

NoticeSendStampedAtRead(r) ==                                   \* a mutant
  /\ At(r, "read", "notice")
  /\ PreAdverseLetter(req[r].check)
  /\ req' = [req EXCEPT ![r] = [@ EXCEPT !.phase = "sent"]]
  /\ UNCHANGED <<rowVars, providerVars, credential, processed, adverse, now>>

NoticeSend(r) ==
  /\ At(r, "read", "notice")
  /\ PreAdverseLetter(req[r].check)
  /\ req' = [req EXCEPT ![r] = [@ EXCEPT !.phase = "sent", !.at = now]]
  /\ UNCHANGED <<rowVars, providerVars, credential, processed, adverse, now>>

NoticeCommitAnyway(r) ==                                        \* a mutant
  LET h == req[r] IN
  /\ At(r, "sent", "notice")
  /\ fcra' = [fcra EXCEPT ![h.check] = "PRE_ADVERSE_SENT"]
  /\ \E stamp \in h.at .. now : noticeAt' = [noticeAt EXCEPT ![h.check] = stamp]
  /\ Finish(r)
  /\ UNCHANGED <<status, cites, providerVars, credential, processed, letterVars, now>>

\* The stamp is taken some time between the email and the commit.
NoticeCommit(r) ==
  LET h == req[r] IN
  /\ At(r, "sent", "notice")
  /\ fcra[h.check] = "NONE"
  /\ fcra' = [fcra EXCEPT ![h.check] = "PRE_ADVERSE_SENT"]
  /\ \E stamp \in h.at .. now : noticeAt' = [noticeAt EXCEPT ![h.check] = stamp]
  /\ Finish(r)
  /\ UNCHANGED <<status, cites, providerVars, credential, processed, letterVars, now>>

FinalizeRead(r, c) ==
  /\ status[c] = "CONSIDER"
  /\ fcra[c] = "PRE_ADVERSE_SENT"
  /\ noticeAt[c] # Never
  /\ now - noticeAt[c] >= WaitingPeriod
  /\ StaffRead(r, "finalize", c)

FinalizeSend(r) ==
  /\ At(r, "read", "finalize")
  /\ adverse' \in {adverse, adverse \cup {req[r].check}}
  /\ req' = [req EXCEPT ![r] = [@ EXCEPT !.phase = "sent"]]
  /\ UNCHANGED <<rowVars, providerVars, credential, processed, askedAt, letterAt, now>>

\* The swap is on fcraStatus alone: status may have changed since it was read.
FinalizeCommit(r) ==
  LET c == req[r].check IN
  /\ At(r, "sent", "finalize")
  /\ fcra[c] = "PRE_ADVERSE_SENT"
  /\ fcra' = [fcra EXCEPT ![c] = "ADVERSE_ACTION_SENT"]
  /\ status' = [status EXCEPT ![c] = "FAILED"]
  /\ Finish(r)
  /\ UNCHANGED <<noticeAt, cites, providerVars, credential, processed, letterVars, now>>

ResolveRead(r, c) ==
  /\ status[c] = "CONSIDER"
  /\ fcra[c] \in Resolvable
  /\ StaffRead(r, "resolve", c)

ResolveCommit(r) ==
  LET c == req[r].check IN
  /\ At(r, "read", "resolve")
  /\ fcra[c] \in Resolvable
  /\ fcra' = [fcra EXCEPT ![c] = "RESOLVED"]
  /\ Finish(r)
  /\ UNCHANGED <<status, noticeAt, cites, providerVars, credential, processed, letterVars, now>>

\* issueCredentialAndResolveFcra: its credential is not cited by the check.
ApproveRead(r, c) ==
  /\ status[c] = "CONSIDER"
  /\ fcra[c] \in Resolvable
  /\ StaffRead(r, "approve", c)

ApproveCommit(r) ==
  LET c == req[r].check IN
  /\ At(r, "read", "approve")
  /\ status[c] = "CONSIDER"
  /\ fcra[c] \in Resolvable
  /\ status' = [status EXCEPT ![c] = "COMPLETE"]
  /\ fcra' = [fcra EXCEPT ![c] = "RESOLVED"]
  /\ credential' = [credential EXCEPT ![subject[c]] = "VERIFIED"]
  /\ Finish(r)
  /\ UNCHANGED <<noticeAt, cites, providerVars, processed, letterVars, now>>

---------------------------------------------------------------------------
(* The credential by itself: volunteerCredentialService.ts.                *)

IssueCredential(u, value) ==
  /\ "issue" \in Ops
  /\ credential' = [credential EXCEPT ![u] = value]
  /\ UNCHANGED <<rowVars, providerVars, processed, letterVars, now, req>>

\* The same upsert: revoking a credential nobody has creates it, revoked.
RevokeCredential(u) ==
  /\ "revoke" \in Ops
  /\ credential' = [credential EXCEPT ![u] = "REVOKED"]
  /\ UNCHANGED <<rowVars, providerVars, processed, letterVars, now, req>>

\* Checks that cite a deleted credential cite none (onDelete: SetNull).
RemoveCredential(u) ==
  /\ "remove" \in Ops
  /\ credential[u] # "ABSENT"
  /\ credential' = [credential EXCEPT ![u] = "ABSENT"]
  /\ cites' = [c \in Checks |-> cites[c] /\ subject[c] # u]
  /\ UNCHANGED <<status, fcra, noticeAt, providerVars, processed, letterVars, now, req>>

---------------------------------------------------------------------------
Tick ==
  /\ now < MaxNow
  /\ now' = now + 1
  /\ UNCHANGED <<rowVars, providerVars, credential, processed, letterVars, req>>

\* A request ends without a commit: the provider or the mail service fails, a swap
\* finds its column changed, or the invocation dies.
Rollback(r) ==
  /\ req[r] # Idle
  /\ Finish(r)
  /\ UNCHANGED <<rowVars, providerVars, credential, processed, letterVars, now>>

Init ==
  /\ subject = [c \in Checks |-> NoOne]
  /\ status = [c \in Checks |-> "ABSENT"]
  /\ fcra = [c \in Checks |-> "NONE"]
  /\ noticeAt = [c \in Checks |-> Never]
  /\ cites = [c \in Checks |-> FALSE]
  /\ credential = [u \in Volunteers |-> "ABSENT"]
  /\ event = [e \in Events |-> Unsent]
  /\ processed = {}
  /\ answered = {}
  /\ askedAt = [c \in Checks |-> Never]
  /\ letterAt = [c \in Checks |-> Never]
  /\ adverse = {}
  /\ now = 0
  /\ req = [r \in Requests |-> Idle]

StaffNext(r) ==
  \/ \E u \in Volunteers : InitiateRead(r, u)
  \/ \E c \in Checks :
       \/ InitiateCall(r, c)
       \/ CancelRead(r, c)
       \/ NoticeRead(r, c)
       \/ FinalizeRead(r, c)
       \/ ResolveRead(r, c)
       \/ ApproveRead(r, c)
  \/ InitiateCommit(r)
  \/ CancelCommit(r)
  \/ NoticeSend(r)
  \/ NoticeCommit(r)
  \/ FinalizeSend(r)
  \/ FinalizeCommit(r)
  \/ ResolveCommit(r)
  \/ ApproveCommit(r)

WebhookNext(r) ==
  \/ \E e \in Events : WebhookReceive(r, e)
  \/ WebhookRecord(r)
  \/ WebhookApply(r)
  \/ WebhookRefused(r)

CredentialNext ==
  \E u \in Volunteers :
    \/ \E value \in CredentialStatus \ {"ABSENT"} : IssueCredential(u, value)
    \/ RevokeCredential(u)
    \/ RemoveCredential(u)

Next ==
  \/ \E r \in Requests : StaffNext(r) \/ WebhookNext(r) \/ Rollback(r)
  \/ \E e \in Events, c \in Checks, result \in Results : ProviderSends(e, c, result)
  \/ \E e \in Events : WebhookDuplicate(e)
  \/ CredentialNext
  \/ Tick

Spec == Init /\ [][Next]_vars

\* The provider repeats a delivery until one is answered 200, and not every attempt
\* fails; no invocation runs for ever.  Staff need not do anything.
Delivered(e) == WebhookDuplicate(e) /\ answered' = answered \cup {e}

Handled(r, e) == req[r] # Idle /\ At(r, "read", "webhook") /\ req[r].event = e
                   /\ (WebhookRecord(r) \/ WebhookApply(r) \/ WebhookRefused(r))

Fairness ==
  /\ \A r \in Requests : WF_vars(Rollback(r))
  /\ \A e \in Events :
       /\ SF_vars(\E r \in Requests : WebhookReceive(r, e))
       /\ SF_vars(\E r \in Requests : Handled(r, e))
       /\ WF_vars(Delivered(e))

FairSpec == Spec /\ Fairness

---------------------------------------------------------------------------
TypeOK ==
  /\ subject \in [Checks -> Volunteers \cup {NoOne}]
  /\ status \in [Checks -> CheckStatus]
  /\ fcra \in [Checks -> FcraStatus]
  /\ noticeAt \in [Checks -> Nat \cup {Never}]
  /\ cites \in [Checks -> BOOLEAN]
  /\ credential \in [Volunteers -> CredentialStatus]
  /\ event \in [Events -> {Unsent} \cup [check : Checks, result : Results]]
  /\ processed \in SUBSET Events
  /\ answered \in SUBSET Events
  /\ askedAt \in [Checks -> Nat \cup {Never}]
  /\ letterAt \in [Checks -> Nat \cup {Never}]
  /\ adverse \in SUBSET Checks
  /\ now \in Nat
  /\ req \in [Requests -> {Idle} \cup Handlers]

---------------------------------------------------------------------------
(* What holds whatever requests, deliveries and failures interleave.       *)

\* Whether the mail service took the first pre-adverse letter it was asked for.
FirstLetterOut(c) == letterAt[c] = askedAt[c]

\* WaitingPeriod days have passed since the mail service was first asked.
Waited(c) == askedAt[c] # Never /\ now - askedAt[c] >= WaitingPeriod

\* No adverse letter goes out before WaitingPeriod days have passed since the
\* volunteer was first written to (finalizeAdverseAction, domain line 153), or would
\* have been, had the mail service not refused the letter.  The first letter, its
\* stamp, the check of the stamp and the adverse letter are in three requests.
AdverseLetterWaits ==
  [][\A c \in adverse' \ adverse :
       /\ Waited(c)
       /\ FirstLetterOut(c) => letterAt[c] # Never /\ now - letterAt[c] >= WaitingPeriod]_vars

\* The invariant behind it: a stamp is never older than the first attempt to write, a
\* notice on record follows such an attempt, a letter is never older than it, and a
\* request about to finalize has seen a notice that is old enough.
NoticeInv ==
  /\ \A c \in Checks :
       /\ askedAt[c] # Never => askedAt[c] <= now
       /\ letterAt[c] # Never =>
            askedAt[c] # Never /\ askedAt[c] <= letterAt[c] /\ letterAt[c] <= now
       /\ fcra[c] \in {"PRE_ADVERSE_SENT", "ADVERSE_ACTION_SENT"} =>
            askedAt[c] # Never /\ noticeAt[c] # Never
       /\ noticeAt[c] # Never => askedAt[c] # Never /\ askedAt[c] <= noticeAt[c]
  /\ \A r \in Requests :
       /\ At(r, "sent", "notice") =>
            askedAt[req[r].check] # Never /\ askedAt[req[r].check] <= req[r].at
       /\ At(r, "read", "finalize") \/ At(r, "sent", "finalize") =>
            Waited(req[r].check)

\* The adverse-action columns implement the life cycle the domain module draws:
\* one notice after a letter was asked for, then one decision, an adverse one never
\* early.  A letter the mail service refuses counts in neither direction.
Fcra == INSTANCE FcraLifecycle WITH phase <- fcra
FcraRefinement == Fcra!Spec

\* A result the provider was told we have has reached its check: a check whose
\* completed report was answered 200 is not still PENDING, or without a row.
ResultReachesCheck ==
  \A e \in answered :
    event[e].result # "progress" => status[event[e].check] \notin {"ABSENT", "PENDING"}

\* Sterling's route answers 500 to a clear result whose credential another check of
\* the volunteer cites, as long as it does.
Uncitable(e) ==
  /\ Provider = "STERLING"
  /\ event[e].result = "clear"
  /\ ~Citable(event[e].check)

\* An event about a check that has a row is answered 200 in the end, so that the
\* provider stops repeating it, however often a delivery fails or races another,
\* unless it is a clear result for a volunteer whose credential another check cites:
\* then again and again, for as long as nobody removes the credential.
EventsAnswered ==
  \A e \in Events :
    (Sent(e) /\ status[event[e].check] # "ABSENT") ~> (e \in answered \/ Uncitable(e))

---------------------------------------------------------------------------
(* What comments say and the code does not keep; the first two hold when   *)
(* requests come one at a time.                                            *)

\* domain/background-check.ts:10-25 calls COMPLETE, FAILED and CANCELLED terminal.
TerminalFinal ==
  [][\A c \in Checks : status[c] \in Terminal => status'[c] = status[c]]_vars

\* backgroundCheckRepo.ts:94, of the guard of initiateProviderCheck: "Used to
\* prevent duplicate in-flight checks".
OneActiveCheck == \A u \in Volunteers : Cardinality(ActiveChecks(u)) <= 1

\* checkr/webhook/route.ts:15: a P2002 is a duplicate event, "already processed".
AnsweredMeansProcessed == answered \subseteq processed

\* sendFcraEmails.ts:25: "caller must NOT update DB on failure".  A notice is on
\* record, and an adverse letter out, only if a pre-adverse letter went out.
NoticeMeansLetter ==
  /\ \A c \in Checks : noticeAt[c] # Never => letterAt[c] # Never
  /\ \A c \in adverse : letterAt[c] # Never

\* sterling/webhook/route.ts:15: "Any other error -> 500 (retry until success)".  The
\* clear result of a volunteer's second check is answered 500 for as long as the first
\* cites the credential.
EveryEventAnswered ==
  \A e \in Events : (Sent(e) /\ status[event[e].check] # "ABSENT") ~> e \in answered
===============================================================================
