---------------------------- MODULE ExpiryNotices ----------------------------
(***************************************************************************)
(* Warning the staff of one organization of credentials that are about to  *)
(* expire: credential-expiry-notice-service.ts, the notifications it goes  *)
(* through (notificationService.ts) and the daily digest that mails what   *)
(* no other mail has said (digest-service.ts).                             *)
(*                                                                         *)
(* Nothing is sent and recorded at once.  Each job sends first and stamps  *)
(* afterwards; a mail may fail, a run may be cut short anywhere, and two   *)
(* runs, or two digests, may overlap: nothing keeps them apart.            *)
(*                                                                         *)
(* Days are counted from today: a day that lies ahead as the days until    *)
(* then, one that is past as its age, which stops at Window + 1.           *)
(***************************************************************************)
EXTENDS Naturals, FiniteSets

CONSTANTS
  Credentials,  \* VolunteerCredential rows of the organization
  Staff,        \* its owners and admins
  Runs,         \* nightly runs that may overlap
  Digests,      \* invocations of the digest that may overlap
  Rows,         \* Notification rows, a bound on how many there are
  Window,       \* CREDENTIAL_EXPIRY_WARNING_DAYS
  Terms,        \* the days a credential may be valid for
  Ops,          \* the operations of this instance
  NoRow         \* no Notification

AllOps == {"issue", "revoke", "remove", "digest"}

ASSUME WindowAssumption == Window \in Nat \ {0} /\ Terms \subseteq Nat \ {0}
ASSUME NoticeOpsAssumption == Ops \subseteq AllOps
ASSUME NoRowAssumption == NoRow \notin Rows

VARIABLES
  expires,   \* VolunteerCredential.expiresAt; 0 once it is past or it is not VERIFIED
  notified,  \* the age of VolunteerCredential.notifiedAt
  wants,     \* NotificationPreference of each: "app", "mail", both or none
  to,        \* Notification.userId, as the set of rows of each
  stamped,   \* rows whose emailSentAt is set
  run,       \* the nightly runs
  digest,    \* the invocations of the digest
  warned,    \* history: the age of the last mail to each about a credential, or Window + 1
  announced, \* history: pairs whose mail named the expiry the credential has now
  renewed,   \* history: credentials whose stamp is about an expiry they no longer have
  covered,   \* history: credentials a run without failures has looked at today, as they are
  excused,   \* history: pairs a stamp counts as warned although the notification threw
  fault,     \* history: credentials whose last warning was cut short, failed or doubled
  mailed,    \* history: rows whose message went out
  echoed,    \* history: rows whose message went out again
  doubtful   \* history: rows that may go out twice: their stamp failed or came late, or
             \*   two jobs mail them at once

credentialVars == <<expires, notified>>
rowVars == <<to, stamped, mailed, echoed, doubtful>>
warnVars == <<warned, announced, renewed, covered, excused, fault>>
vars == <<expires, notified, wants, to, stamped, run, digest, warned, announced, renewed,
          covered, excused, fault, mailed, echoed, doubtful>>

---------------------------------------------------------------------------
\* noticeDueWhere: in the window, and not warned about since credentialNoticeCycleStart.
Never == Window + 2
Older(age) == IF age > Window THEN age ELSE age + 1

InWindow(k) == expires[k] \in 1..Window

UnwarnedEver(k, later) == notified[k] = Never                    \* a mutant
UnwarnedThisCycle(k, later) ==
  notified[k] > Window \/ (notified[k] = Window /\ later)

\* Whether a stamp that is Window days old is older than that depends on the minute.
Due(later) == {k \in Credentials : InWindow(k) /\ UnwarnedThisCycle(k, later)}

Used == UNION {to[s] : s \in Staff}
Mailed(s) == "mail" \in wants[s]

Idle == [phase |-> "idle"]

\* due: what the scan found; fresh: history, those of them that still expire as it read.
Running == [phase : {"next", "made", "sent"}, due : SUBSET Credentials,
            fresh : SUBSET Credentials, later : BOOLEAN, left : SUBSET Staff,
            staff : SUBSET Staff, row : Rows \cup {NoRow}, failed : BOOLEAN,
            threw : SUBSET Staff]
Digesting == [phase : {"read", "mailed"}, staff : Staff, rows : SUBSET Rows]

At(r, phase) == run[r].phase = phase
Active == {r \in Runs : run[r] # Idle}

---------------------------------------------------------------------------
(* Credentials.  upsertCredential leaves notifiedAt alone.                 *)

\* k expires otherwise than it did: what anybody was told of it, and what runs at work have
\* read, is of the past.
Change(k, term, gone) ==
  /\ expires' = [expires EXCEPT ![k] = term]
  /\ run' = [r \in Runs |-> IF run[r] = Idle THEN Idle
               ELSE [run[r] EXCEPT !.due = @ \ gone, !.fresh = @ \ {k}]]
  /\ announced' = announced \ ({k} \X Staff)
  /\ excused' = excused \ ({k} \X Staff)

Issue(k, term) ==
  /\ "issue" \in Ops
  /\ covered' = covered \ {k}
  /\ IF term = expires[k]
     THEN UNCHANGED <<expires, run, announced, renewed, excused>>
     ELSE Change(k, term, {}) /\ renewed' = renewed \cup {k}
  /\ UNCHANGED <<notified, wants, rowVars, digest, warned, fault>>

Revoke(k) ==
  /\ "revoke" \in Ops
  /\ expires[k] # 0
  /\ covered' = covered \ {k}
  /\ Change(k, 0, {}) /\ renewed' = renewed \cup {k}
  /\ UNCHANGED <<notified, wants, rowVars, digest, warned, fault>>

\* The row goes, and with it the stamp; runs at work find nothing to stamp, and the next
\* row of this volunteer and type is new.
Remove(k) ==
  /\ "remove" \in Ops
  /\ expires[k] # 0
  /\ notified' = [notified EXCEPT ![k] = Never]
  /\ covered' = covered \ {k}
  /\ Change(k, 0, {k}) /\ renewed' = renewed \ {k}
  /\ fault' = fault \cup {k}
  /\ UNCHANGED <<wants, rowVars, digest, warned>>

---------------------------------------------------------------------------
(* The nightly run: notifyStaffOfExpiringCredentials.                      *)

\* A second run at work on the same credentials doubles the warning.
Scan(r) ==
  /\ run[r] = Idle
  /\ \E later \in BOOLEAN :
       /\ covered' = covered \cup (Credentials \ Due(later))
       /\ IF Due(later) = {}
          THEN UNCHANGED <<run, fault>>
          ELSE /\ run' = [run EXCEPT ![r] =
                    [phase |-> "next", due |-> Due(later), fresh |-> Due(later),
                     later |-> later, left |-> Staff, staff |-> {}, row |-> NoRow,
                     failed |-> FALSE, threw |-> {}]]
               /\ fault' = fault \cup UNION {run[q].due \cap Due(later) : q \in Active}
  /\ UNCHANGED <<credentialVars, wants, rowVars, digest, warned, announced, renewed, excused>>

\* notify for recipient s: the row, for those who want one.
Create(r, s) ==
  /\ At(r, "next")
  /\ s \in run[r].left
  /\ \E n \in IF "app" \in wants[s] THEN Rows \ Used ELSE {NoRow} :
       /\ to' = IF n = NoRow THEN to ELSE [to EXCEPT ![s] = @ \cup {n}]
       /\ run' = [run EXCEPT ![r].phase = "made", ![r].left = @ \ {s}, ![r].staff = {s},
                             ![r].row = n]
  /\ UNCHANGED <<credentialVars, wants, stamped, mailed, echoed, doubtful, digest, warnVars>>

\* The preference cannot be read, or the row not written: tryNotify reports that no mail
\* was attempted, which is not a failure.
NotifyThrows(r, s) ==
  /\ At(r, "next")
  /\ s \in run[r].left
  /\ run' = [run EXCEPT ![r].left = @ \ {s}, ![r].threw = @ \cup {s}]
  /\ UNCHANGED <<credentialVars, wants, rowVars, digest, warnVars>>

GoOut(rows) == mailed' = mailed \cup rows /\ echoed' = echoed \cup (rows \cap mailed)

\* A mail to s names what the run found due, with the expiry it read.
Tell(r, s) ==
  /\ warned' = [k \in Credentials |->
       IF k \in run[r].due THEN [warned[k] EXCEPT ![s] = 0] ELSE warned[k]]
  /\ announced' = announced \cup (run[r].fresh \X {s})
  /\ excused' = excused \ (run[r].fresh \X {s})

SendForRow(r) ==                                                 \* a mutant
  /\ At(r, "made")
  /\ \E s \in run[r].staff : Mailed(s) /\ Tell(r, s)
  /\ run' = [run EXCEPT ![r].phase = "sent"]
  /\ GoOut({run[r].row} \ {NoRow})
  /\ UNCHANGED <<credentialVars, wants, to, stamped, doubtful, digest, renewed, covered, fault>>

\* sendEmail returns true.
Send(r) ==
  /\ At(r, "made")
  /\ \E s \in run[r].staff : Mailed(s) /\ Tell(r, s)
  /\ IF run[r].row = NoRow
     THEN /\ run' = [run EXCEPT ![r].phase = "next", ![r].staff = {}]
          /\ UNCHANGED <<mailed, echoed>>
     ELSE /\ run' = [run EXCEPT ![r].phase = "sent"]
          /\ GoOut({run[r].row})
  /\ UNCHANGED <<credentialVars, wants, to, stamped, doubtful, digest, renewed, covered, fault>>

\* sendEmail returns false, or there is no mail to send.
DoNotSend(r) ==
  /\ At(r, "made")
  /\ \E s \in run[r].staff :
       run' = [run EXCEPT ![r].phase = "next", ![r].staff = {}, ![r].row = NoRow,
                          ![r].failed = @ \/ Mailed(s)]
  /\ UNCHANGED <<credentialVars, wants, rowVars, digest, warnVars>>

\* markNotificationEmailSent; its failure is absorbed.
MarkRow(r) ==
  /\ At(r, "sent")
  /\ \/ stamped' = stamped \cup {run[r].row} /\ UNCHANGED doubtful
     \/ doubtful' = doubtful \cup {run[r].row} /\ UNCHANGED stamped
  /\ run' = [run EXCEPT ![r].phase = "next", ![r].staff = {}, ![r].row = NoRow]
  /\ UNCHANGED <<credentialVars, wants, to, mailed, echoed, digest, warnVars>>

SomebodyReached(r) ==                                            \* a mutant
  \E s \in Staff : \A k \in run[r].due : warned[k][s] = 0

\* shouldStampNotifiedAt
ShouldStamp(r) == ~run[r].failed

StampFirstTime(r) ==                                             \* a mutant
  LET due == {k \in run[r].due : notified[k] = Never}
      alone == {k \in run[r].due : \A q \in Active \ {r} : k \notin run[q].due}
  IN /\ At(r, "next")
     /\ run[r].left = {}
     /\ ShouldStamp(r)
     /\ notified' = [k \in Credentials |-> IF k \in due THEN 0 ELSE notified[k]]
     /\ excused' = excused \cup (((due \cap run[r].fresh) \X run[r].threw) \ announced)
     /\ covered' = covered \cup {k \in run[r].due : expires[k] # 0}
     /\ fault' = fault \ alone
     /\ renewed' = (renewed \ due) \cup (due \ run[r].fresh)
     /\ run' = [run EXCEPT ![r] = Idle]
     /\ UNCHANGED <<expires, wants, rowVars, digest, warned, announced>>

\* markCredentialsNotifiedTx looks at the cycle again, but not at the expiry.
Stamp(r) ==
  LET due == {k \in run[r].due : UnwarnedThisCycle(k, run[r].later)}
      alone == {k \in run[r].due : \A q \in Active \ {r} : k \notin run[q].due}
  IN /\ At(r, "next")
     /\ run[r].left = {}
     /\ ShouldStamp(r)
     /\ notified' = [k \in Credentials |-> IF k \in due THEN 0 ELSE notified[k]]
     /\ excused' = excused \cup (((due \cap run[r].fresh) \X run[r].threw) \ announced)
     /\ covered' = covered \cup {k \in run[r].due : expires[k] # 0}
     /\ fault' = fault \ alone
     /\ renewed' = (renewed \ due) \cup (due \ run[r].fresh)
     /\ run' = [run EXCEPT ![r] = Idle]
     /\ UNCHANGED <<expires, wants, rowVars, digest, warned, announced>>

\* Somebody's mail failed, or the run is cut short: nothing is stamped.
EndUnstamped(r) ==
  /\ run[r] # Idle
  /\ fault' = fault \cup run[r].due
  /\ doubtful' = doubtful \cup (IF At(r, "sent") THEN {run[r].row} ELSE {})
  /\ run' = [run EXCEPT ![r] = Idle]
  /\ UNCHANGED <<credentialVars, wants, to, stamped, mailed, echoed, digest, warned,
                 announced, renewed, covered, excused>>

---------------------------------------------------------------------------
(* The daily digest: sendDigestEmails.                                     *)

InFlight == {run[r].row : r \in Active} \ {NoRow}

Reading(d) == digest[d] # Idle
InDigests == UNION {digest[d].rows : d \in {e \in Digests : Reading(e)}}

UnsentOrNot(s) == IF Mailed(s) THEN to[s] ELSE {}                \* a mutant

\* What the digest of s would say: everything no mail has said, unless they take none.
Unsent(s) == IF Mailed(s) THEN to[s] \ stamped ELSE {}

\* Whether a digest is due (its frequency, the hour at the organization, lastDigestSentAt)
\* is left open.  A row that is being mailed at this moment, by notify or by another
\* invocation, may be read here too.
DigestRead(d, s) ==
  /\ "digest" \in Ops
  /\ ~Reading(d)
  /\ Unsent(s) # {}
  /\ digest' = [digest EXCEPT ![d] = [phase |-> "read", staff |-> s, rows |-> Unsent(s)]]
  /\ doubtful' = doubtful \cup (Unsent(s) \cap (InFlight \cup InDigests))
  /\ UNCHANGED <<credentialVars, wants, to, stamped, mailed, echoed, run, warnVars>>

DigestSend(d) ==
  /\ digest[d].phase = "read"
  /\ GoOut(digest[d].rows)
  /\ digest' = [digest EXCEPT ![d] = [@ EXCEPT !.phase = "mailed"]]
  /\ UNCHANGED <<credentialVars, wants, to, stamped, doubtful, run, warnVars>>

DigestMarkAll(d) ==                                              \* a mutant
  /\ digest[d].phase = "mailed"
  /\ stamped' = stamped \cup to[digest[d].staff]
  /\ digest' = [digest EXCEPT ![d] = Idle]
  /\ UNCHANGED <<credentialVars, wants, to, mailed, echoed, doubtful, run, warnVars>>

\* By id: rows that came in since are left for the next digest.
DigestMark(d) ==
  /\ digest[d].phase = "mailed"
  /\ stamped' = stamped \cup digest[d].rows
  /\ digest' = [digest EXCEPT ![d] = Idle]
  /\ UNCHANGED <<credentialVars, wants, to, mailed, echoed, doubtful, run, warnVars>>

\* The mail fails, an update fails or the run is cut short; what was mailed may be again.
DigestFails(d) ==
  /\ Reading(d)
  /\ doubtful' = doubtful \cup (IF digest[d].phase = "mailed" THEN digest[d].rows ELSE {})
  /\ digest' = [digest EXCEPT ![d] = Idle]
  /\ UNCHANGED <<credentialVars, wants, to, stamped, mailed, echoed, run, warnVars>>

---------------------------------------------------------------------------
\* A run has five minutes, so none sees the next day.
Tick ==
  /\ Active = {} /\ \A d \in Digests : ~Reading(d)
  /\ expires' = [k \in Credentials |-> IF expires[k] = 0 THEN 0 ELSE expires[k] - 1]
  /\ notified' = [k \in Credentials |-> Older(notified[k])]
  /\ warned' = [k \in Credentials |-> [s \in Staff |-> Older(warned[k][s])]]
  /\ covered' = {}
  /\ UNCHANGED <<wants, rowVars, run, digest, announced, renewed, excused, fault>>

Init ==
  /\ expires = [k \in Credentials |-> 0]
  /\ notified = [k \in Credentials |-> Never]
  /\ wants \in [Staff -> SUBSET {"app", "mail"}]
  /\ to = [s \in Staff |-> {}]
  /\ stamped = {}
  /\ run = [r \in Runs |-> Idle]
  /\ digest = [d \in Digests |-> Idle]
  /\ announced = {}
  /\ renewed = {}
  /\ warned = [k \in Credentials |-> [s \in Staff |-> Window + 1]]
  /\ covered = {}
  /\ excused = {}
  /\ fault = {}
  /\ mailed = {}
  /\ echoed = {}
  /\ doubtful = {}

CredentialNext ==
  \E k \in Credentials :
    (\E term \in Terms : Issue(k, term)) \/ Revoke(k) \/ Remove(k)

RunNext(r) ==
  \/ Scan(r)
  \/ \E s \in Staff : Create(r, s) \/ NotifyThrows(r, s)
  \/ Send(r) \/ DoNotSend(r)
  \/ MarkRow(r)
  \/ Stamp(r) \/ EndUnstamped(r)

DigestNext(d) ==
  (\E s \in Staff : DigestRead(d, s)) \/ DigestSend(d) \/ DigestMark(d) \/ DigestFails(d)

Next ==
  \/ CredentialNext
  \/ \E r \in Runs : RunNext(r)
  \/ \E d \in Digests : DigestNext(d)
  \/ Tick

Spec == Init /\ [][Next]_vars

---------------------------------------------------------------------------
\* Rows and jobs stay within their types; a row is one person's.
TypeOK ==
  /\ expires \in [Credentials -> Nat] /\ notified \in [Credentials -> 0..Never]
  /\ wants \in [Staff -> SUBSET {"app", "mail"}]
  /\ to \in [Staff -> SUBSET Rows]
  /\ \A s, u \in Staff : s # u => to[s] \cap to[u] = {}
  /\ stamped \cup mailed \cup echoed \subseteq Used /\ doubtful \subseteq Used
  /\ run \in [Runs -> {Idle} \cup Running]
  /\ digest \in [Digests -> {Idle} \cup Digesting]
  /\ warned \in [Credentials -> [Staff -> 0..Never]]
  /\ covered \cup renewed \cup fault \subseteq Credentials
  /\ announced \cup excused \subseteq Credentials \X Staff

\* No credential lapses unannounced, renewed or not: if the last nightly run before it does
\* has no failure, each member of staff who takes mail was told of this very expiry, unless
\* their notification threw, or the credential was renewed to end within a window of the
\* stamp its former expiry left (credential-expiry.ts:113, tryNotify).
LapseIsAnnounced ==
  [][\A k \in Credentials, s \in Staff :
       Tick /\ expires[k] = 1 /\ k \in covered /\ Mailed(s) =>
         \/ <<k, s>> \in announced \cup excused
         \/ k \in renewed /\ notified[k] <= Window]_vars

\* Nobody is told twice of the same credential within one window, unless the earlier
\* warning failed for somebody, was cut short or ran twice at once, or the row is new.
ToldOncePerCycle ==
  [][\A k \in Credentials, s \in Staff :
       /\ \E r \in Runs : Send(r) /\ k \in run[r].due /\ s \in run[r].staff
       /\ warned[k][s] < Window
       => k \in fault]_vars

\* What counts as mailed was mailed: a notification that arrives while a digest is being
\* sent is not lost to it (digest-service.ts:13, notificationService.ts:94).
StampedWasMailed == stamped \subseteq mailed

\* A notification goes out twice only when its stamp failed, a digest was cut short after
\* its mail, or a digest read the row in the middle of notify or of another digest, which
\* nothing prevents (notificationRepo.ts:23, digest-service.ts:92).
NoEcho == echoed \subseteq doubtful

---------------------------------------------------------------------------
(* What the comments say, and TLC refutes.                                 *)

\* "A RENEWED credential is warned about again on its new expiry date"
\* (credential-expiry-notice-service.ts:81).
RenewalIsAnnounced ==
  [][\A k \in Credentials, s \in Staff :
       Tick /\ expires[k] = 1 /\ k \in covered /\ Mailed(s) =>
         <<k, s>> \in announced \cup excused]_vars
=============================================================================
