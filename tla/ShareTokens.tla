----------------------------- MODULE ShareTokens -----------------------------
(***************************************************************************)
(* Sharing one volunteer's credential of one type between organizations:   *)
(* credentialShareService.ts, the rows it copies, and the nightly job of   *)
(* credential-expiry-service.ts that expires credentials and links.        *)
(*                                                                         *)
(* A credential is verified by one organization and copied to another when *)
(* that one claims a link (a token) the volunteer made, or when the        *)
(* volunteer applies there and brings all of them.  Requests read first    *)
(* and write later, as in ShiftSignups.  Only the claim of a link looks    *)
(* again when it writes; everything else writes by id.                     *)
(***************************************************************************)
EXTENDS Integers, FiniteSets

CONSTANTS
  Orgs,         \* organizations
  Credentials,  \* ids of VolunteerCredential rows
  Tokens,       \* ids of CredentialShareToken rows
  Requests,     \* requests served at once
  Grades,       \* statuses staff give a credential
  Expiries,     \* ends staff give a credential: days, or Forever
  Lifetime,     \* SHARE_TOKEN_EXPIRY_DAYS
  MaxNow,       \* bound on the clock, in days
  ExpiryBatch,  \* how many overdue rows one run of the job picks up
  Ops,          \* the operations clients use in this instance
  Nobody        \* neither an organization nor a credential

AllOps == {"issue", "remove", "generate", "claim", "revoke", "shareAll", "expire"}

Forever == -1   \* a null expiresAt

ASSUME GradesAssumption == Grades \subseteq {"PENDING", "VERIFIED", "EXPIRED", "REVOKED"}
ASSUME ShareDaysAssumption ==
  Expiries \subseteq Nat \cup {Forever} /\ Expiries # {} /\ Lifetime \in Nat /\ MaxNow \in Nat
ASSUME ShareBatchAssumption == ExpiryBatch \in Nat \ {0}
ASSUME ShareOpsAssumption == Ops \subseteq AllOps
ASSUME NobodyAssumption == Nobody \notin Orgs \cup Credentials

VARIABLES
  status,     \* VolunteerCredential.status; "ABSENT" before the row, "DELETED" after
  org,        \* VolunteerCredential.orgId
  expires,    \* VolunteerCredential.expiresAt
  source,     \* VolunteerCredential.sharedFromCredentialId
  token,      \* CredentialShareToken.status, likewise
  of,         \* CredentialShareToken.credentialId
  lapses,     \* CredentialShareToken.expiresAt
  claimedBy,  \* CredentialShareToken.claimedByOrgId
  now,        \* the day
  overdue,    \* credentials the running job has yet to expire
  stale,      \* links the running job has yet to expire
  req,        \* the requests in flight
  copies,     \* organizations that got a copy through a link (history)
  revoked     \* links the volunteer was told are revoked (history)

credentialVars == <<status, org, expires, source>>
tokenVars == <<token, of, lapses, claimedBy>>
jobVars == <<overdue, stale>>
historyVars == <<copies, revoked>>
vars == <<status, org, expires, source, token, of, lapses, claimedBy, now, overdue,
          stale, req, copies, revoked>>

---------------------------------------------------------------------------
CredentialStatus == {"PENDING", "VERIFIED", "EXPIRED", "REVOKED"}
TokenStatus == {"ACTIVE", "CLAIMED", "EXPIRED"}

Stored(c) == status[c] \in CredentialStatus
Held(o) == {c \in Credentials : Stored(c) /\ org[c] = o}   \* at most one: a unique index

\* The guards compare with <=, the job with <.
Lapsed(day) == day # Forever /\ day <= now
Overdue(day) == day # Forever /\ day < now

\* canShareCredential
Shareable(c) == status[c] = "VERIFIED" /\ ~Lapsed(expires[c])

Idle == [phase |-> "idle"]

Handlers ==
  [phase : {"read"}, op : {"generate"}, credential : Credentials, at : Nat]
    \cup [phase : {"read"}, op : {"claim"}, token : Tokens, org : Orgs,
          credential : Credentials, expires : Expiries]
    \cup [phase : {"read"}, op : {"revoke"}, token : Tokens]
    \cup [phase : {"read"}, op : {"shareAll"}, org : Orgs,
          sources : SUBSET (Credentials \X Expiries)]

Start(r, h) == req[r] = Idle /\ req' = [req EXCEPT ![r] = h]
Finish(r) == req' = [req EXCEPT ![r] = Idle]
At(r, op) == req[r].phase = "read" /\ req[r].op = op

\* A new row k at organization o.
Insert(k, o, value, day, from) ==
  /\ status[k] = "ABSENT"
  /\ Held(o) = {}
  /\ status' = [status EXCEPT ![k] = value]
  /\ org' = [org EXCEPT ![k] = o]
  /\ expires' = [expires EXCEPT ![k] = day]
  /\ source' = [source EXCEPT ![k] = from]

---------------------------------------------------------------------------
(* Credentials: upsertCredential and deleteCredential, as staff (issue,    *)
(* revoke, a background check) use them.                                   *)

IssueNew(k, o, value, day) ==
  /\ "issue" \in Ops
  /\ Insert(k, o, value, day, Nobody)
  /\ UNCHANGED <<tokenVars, now, jobVars, req, historyVars>>

\* An update may leave the expiry alone; it never touches the provenance.
IssueAgain(c, value, day) ==
  /\ "issue" \in Ops
  /\ Stored(c)
  /\ status' = [status EXCEPT ![c] = value]
  /\ expires' = [expires EXCEPT ![c] = day]
  /\ UNCHANGED <<org, source, tokenVars, now, jobVars, req, historyVars>>

\* The links of a deleted credential go with it.
RemoveCredential(c) ==
  /\ "remove" \in Ops
  /\ Stored(c)
  /\ status' = [status EXCEPT ![c] = "DELETED"]
  /\ token' = [t \in Tokens |->
       IF token[t] \in TokenStatus /\ of[t] = c THEN "DELETED" ELSE token[t]]
  /\ UNCHANGED <<org, expires, source, of, lapses, claimedBy, now, jobVars, req, historyVars>>

---------------------------------------------------------------------------
(* Links: generateShareToken, claimShareToken and revokeShareToken.        *)

GenerateRead(r, c) ==
  /\ "generate" \in Ops
  /\ Shareable(c)
  /\ Start(r, [phase |-> "read", op |-> "generate", credential |-> c, at |-> now])
  /\ UNCHANGED <<credentialVars, tokenVars, now, jobVars, historyVars>>

GenerateCommit(r, t) ==
  LET h == req[r] IN
  /\ At(r, "generate")
  /\ Stored(h.credential)
  /\ token[t] = "ABSENT"
  /\ token' = [token EXCEPT ![t] = "ACTIVE"]
  /\ of' = [of EXCEPT ![t] = h.credential]
  /\ lapses' = [lapses EXCEPT ![t] = h.at + Lifetime]
  /\ Finish(r)
  /\ UNCHANGED <<credentialVars, claimedBy, now, jobVars, historyVars>>

\* canClaimToken, and no credential in the claiming organization yet.
Claimable(t, o) ==
  /\ token[t] = "ACTIVE"
  /\ ~Lapsed(lapses[t])
  /\ Shareable(of[t])
  /\ org[of[t]] # o
  /\ Held(o) = {}

ClaimRead(r, t, o) ==
  /\ "claim" \in Ops
  /\ Claimable(t, o)
  /\ Start(r, [phase |-> "read", op |-> "claim", token |-> t, org |-> o,
               credential |-> of[t], expires |-> expires[of[t]]])
  /\ UNCHANGED <<credentialVars, tokenVars, now, jobVars, historyVars>>

StillActiveUnchecked(t) == token[t] \in TokenStatus             \* a mutant
StillActiveOrExpired(t) == token[t] \in {"ACTIVE", "EXPIRED"}   \* a mutant

\* The condition of the UPDATE in markTokenClaimedTx.
StillActive(t) == token[t] = "ACTIVE"

\* Of everything that was read, only the link's status is looked at again.
ClaimCommit(r, k) ==
  LET h == req[r] IN
  /\ At(r, "claim")
  /\ StillActive(h.token)
  /\ token' = [token EXCEPT ![h.token] = "CLAIMED"]
  /\ claimedBy' = [claimedBy EXCEPT ![h.token] = h.org]
  /\ Insert(k, h.org, "VERIFIED", h.expires, h.credential)
  /\ copies' = [copies EXCEPT ![h.token] = @ \cup {h.org}]
  /\ Finish(r)
  /\ UNCHANGED <<of, lapses, now, jobVars, revoked>>

RevokeRead(r, t) ==
  /\ "revoke" \in Ops
  /\ token[t] = "ACTIVE"
  /\ Start(r, [phase |-> "read", op |-> "revoke", token |-> t])
  /\ UNCHANGED <<credentialVars, tokenVars, now, jobVars, historyVars>>

RevokeCommitAsRevoked(r) ==                                     \* a mutant
  LET t == req[r].token IN
  /\ At(r, "revoke")
  /\ token[t] \in TokenStatus
  /\ token' = [token EXCEPT ![t] = "REVOKED"]
  /\ revoked' = revoked \cup {t}
  /\ Finish(r)
  /\ UNCHANGED <<credentialVars, of, lapses, claimedBy, now, jobVars, copies>>

\* By id: the link may have been claimed since.
RevokeCommit(r) ==
  LET t == req[r].token IN
  /\ At(r, "revoke")
  /\ token[t] \in TokenStatus
  /\ token' = [token EXCEPT ![t] = "EXPIRED"]
  /\ revoked' = revoked \cup {t}
  /\ Finish(r)
  /\ UNCHANGED <<credentialVars, of, lapses, claimedBy, now, jobVars, copies>>

---------------------------------------------------------------------------
(* Bringing every credential along to an application: shareAllOnApply.     *)

\* VERIFIED is enough here: a credential past its end is not left out.
ShareAllRead(r, o) ==
  LET sources == {<<c, expires[c]>> : c \in {d \in Credentials : status[d] = "VERIFIED" /\ org[d] # o}}
  IN
  /\ "shareAll" \in Ops
  /\ Held(o) = {}
  /\ sources # {}
  /\ Start(r, [phase |-> "read", op |-> "shareAll", org |-> o,
               sources |-> sources])
  /\ UNCHANGED <<credentialVars, tokenVars, now, jobVars, historyVars>>

\* For each source a link that is claimed at once, and a copy.
ShareAllCommit(r, t, k) ==
  LET h == req[r] IN
  /\ At(r, "shareAll")
  /\ token[t] = "ABSENT"
  /\ \E c \in Credentials, day \in Expiries :
       /\ h.sources = {<<c, day>>}
       /\ Stored(c)
       /\ of' = [of EXCEPT ![t] = c]
       /\ Insert(k, h.org, "VERIFIED", day, c)
  /\ token' = [token EXCEPT ![t] = "CLAIMED"]
  /\ lapses' = [lapses EXCEPT ![t] = now + Lifetime]
  /\ claimedBy' = [claimedBy EXCEPT ![t] = h.org]
  /\ copies' = [copies EXCEPT ![t] = @ \cup {h.org}]
  /\ Finish(r)
  /\ UNCHANGED <<now, jobVars, revoked>>

\* The unique index refuses a second copy, whoever made the first: a claim that
\* came between, or this very request, for the first of two sources.
ShareAllRefused(r) ==
  /\ At(r, "shareAll")
  /\ Held(req[r].org) # {} \/ Cardinality(req[r].sources) > 1
  /\ Finish(r)
  /\ UNCHANGED <<credentialVars, tokenVars, now, jobVars, historyVars>>

---------------------------------------------------------------------------
(* The clock and the nightly job: expireStaleCredentialsAndTokens.  It     *)
(* visits what its scan found and writes EXPIRED by id, whatever the row   *)
(* has become; a visit that fails, and a row that is gone, is skipped.     *)

Tick ==
  /\ now < MaxNow
  /\ now' = now + 1
  /\ UNCHANGED <<credentialVars, tokenVars, jobVars, req, historyVars>>

\* At most ExpiryBatch of the rows found, in no order.
Batches(found) ==
  {batch \in SUBSET found : /\ batch # {}
                            /\ \/ Cardinality(batch) = ExpiryBatch
                               \/ batch = found /\ Cardinality(found) < ExpiryBatch}

CredentialScan ==
  /\ "expire" \in Ops
  /\ overdue = {}
  /\ overdue' \in Batches({c \in Credentials : status[c] = "VERIFIED" /\ Overdue(expires[c])})
  /\ UNCHANGED <<credentialVars, tokenVars, now, stale, req, historyVars>>

CredentialVisit(c) ==
  /\ c \in overdue
  /\ Stored(c)
  /\ status' = [status EXCEPT ![c] = "EXPIRED"]
  /\ overdue' = overdue \ {c}
  /\ UNCHANGED <<org, expires, source, tokenVars, now, stale, req, historyVars>>

TokenScan ==
  /\ "expire" \in Ops
  /\ stale = {}
  /\ stale' \in Batches({t \in Tokens : token[t] = "ACTIVE" /\ Overdue(lapses[t])})
  /\ UNCHANGED <<credentialVars, tokenVars, now, overdue, req, historyVars>>

TokenVisit(t) ==
  /\ t \in stale
  /\ token[t] \in TokenStatus
  /\ token' = [token EXCEPT ![t] = "EXPIRED"]
  /\ stale' = stale \ {t}
  /\ UNCHANGED <<credentialVars, of, lapses, claimedBy, now, overdue, req, historyVars>>

Skip ==
  /\ \/ \E c \in overdue : overdue' = overdue \ {c} /\ UNCHANGED stale
     \/ \E t \in stale : stale' = stale \ {t} /\ UNCHANGED overdue
  /\ UNCHANGED <<credentialVars, tokenVars, now, req, historyVars>>

---------------------------------------------------------------------------
\* A request ends without a commit: the database refuses it or the invocation dies.
Rollback(r) ==
  /\ req[r] # Idle
  /\ Finish(r)
  /\ UNCHANGED <<credentialVars, tokenVars, now, jobVars, historyVars>>

Init ==
  /\ status = [c \in Credentials |-> "ABSENT"]
  /\ org = [c \in Credentials |-> Nobody]
  /\ expires = [c \in Credentials |-> CHOOSE day \in Expiries : TRUE]
  /\ source = [c \in Credentials |-> Nobody]
  /\ token = [t \in Tokens |-> "ABSENT"]
  /\ of = [t \in Tokens |-> Nobody]
  /\ lapses = [t \in Tokens |-> 0]
  /\ claimedBy = [t \in Tokens |-> Nobody]
  /\ now = 0
  /\ overdue = {}
  /\ stale = {}
  /\ req = [r \in Requests |-> Idle]
  /\ copies = [t \in Tokens |-> {}]
  /\ revoked = {}

StaffNext ==
  \E c \in Credentials :
    \/ \E value \in Grades, day \in Expiries :
         (\E o \in Orgs : IssueNew(c, o, value, day)) \/ IssueAgain(c, value, day)
    \/ RemoveCredential(c)

ShareNext(r) ==
  \/ \E c \in Credentials : GenerateRead(r, c) \/ ClaimCommit(r, c)
  \/ \E t \in Tokens : GenerateCommit(r, t) \/ RevokeRead(r, t)
  \/ \E t \in Tokens, o \in Orgs : ClaimRead(r, t, o)
  \/ RevokeCommit(r)
  \/ \E o \in Orgs : ShareAllRead(r, o)
  \/ \E t \in Tokens, k \in Credentials : ShareAllCommit(r, t, k)
  \/ ShareAllRefused(r)
  \/ Rollback(r)

JobNext ==
  \/ CredentialScan
  \/ \E c \in Credentials : CredentialVisit(c)
  \/ TokenScan
  \/ \E t \in Tokens : TokenVisit(t)
  \/ Skip

Next == StaffNext \/ (\E r \in Requests : ShareNext(r)) \/ JobNext \/ Tick

Spec == Init /\ [][Next]_vars

---------------------------------------------------------------------------
TypeOK ==
  /\ status \in [Credentials -> CredentialStatus \cup {"ABSENT", "DELETED"}]
  /\ org \in [Credentials -> Orgs \cup {Nobody}]
  /\ expires \in [Credentials -> Expiries]
  /\ source \in [Credentials -> Credentials \cup {Nobody}]
  /\ token \in [Tokens -> TokenStatus \cup {"ABSENT", "DELETED"}]
  /\ of \in [Tokens -> Credentials \cup {Nobody}]
  /\ lapses \in [Tokens -> Nat]
  /\ claimedBy \in [Tokens -> Orgs \cup {Nobody}]
  /\ now \in Nat
  /\ overdue \in SUBSET Credentials
  /\ stale \in SUBSET Tokens
  /\ req \in [Requests -> {Idle} \cup Handlers]
  /\ copies \in [Tokens -> SUBSET Orgs]
  /\ revoked \in SUBSET Tokens

\* The volunteer's list of shares is exact: a link hands out one copy at most, and
\* its row names the organization that has it, whatever claims, revocations and the
\* job do at once (markTokenClaimedTx, listShareTokensByUser).
ShareListExact ==
  \A t \in Tokens : copies[t] = {claimedBy[t]} \ {Nobody}

\* Once the volunteer has been told that a link is revoked, nobody gets a copy
\* through it, not even a claim that was validated before (revokeShareToken).
NoCopyAfterRevoke ==
  [][\A t \in revoked : copies'[t] = copies[t]]_vars

\* The inductive invariant behind both: an unclaimed link has handed out nothing, a
\* revoked one can no longer be claimed, and there are links only for rows that exist.
ShareInv ==
  /\ \A t \in Tokens :
       /\ token[t] \in {"ABSENT", "ACTIVE"} => claimedBy[t] = Nobody /\ t \notin revoked
       /\ token[t] = "ABSENT" => copies[t] = {}
       /\ token[t] \in TokenStatus => of[t] \in Credentials /\ Stored(of[t])
  /\ ShareListExact

MadeLinks == {t \in Tokens : token[t] # "ABSENT"}
OpenLinks == {t \in Tokens : token[t] = "ACTIVE"}

\* Although revocations and the job write a status they have not looked at again, every
\* interleaving is one of links that are used once, by one organization, and never open
\* again (markTokenClaimedTx, markTokenExpiredTx).
Promised == INSTANCE SingleUseLinks
  WITH Links <- Tokens, made <- MadeLinks, open <- OpenLinks, listed <- claimedBy,
       given <- copies, withdrawn <- revoked
LinkRefinement == Promised!Spec

\* CHANGELOG.md:3181: bringing one's credentials "auto-shares all verified
\* credentials".  So it is refused only when the organization has got one meanwhile.
ShareAllSucceeds ==
  [][\A r \in Requests : ShareAllRefused(r) => Held(req[r].org) # {}]_vars
=============================================================================
