-------------------------- MODULE ShareTokensProofs --------------------------
(* Theorems about ShareTokens, for every set of organizations, credentials,  *)
(* links, requests and operations, every expiry and every batch size.        *)
EXTENDS ShareTokens, TLAPS

---------------------------------------------------------------------------
(* What a request in flight holds.                                         *)

LEMMA GenerateInFlight ==
  ASSUME TypeOK, NEW r \in Requests, At(r, "generate")
  PROVE  req[r].credential \in Credentials /\ req[r].at \in Nat
BY DEF TypeOK, Handlers, At, Idle

LEMMA ClaimInFlight ==
  ASSUME TypeOK, NEW r \in Requests, At(r, "claim")
  PROVE  /\ req[r].token \in Tokens
         /\ req[r].org \in Orgs
         /\ req[r].credential \in Credentials
         /\ req[r].expires \in Expiries
BY DEF TypeOK, Handlers, At, Idle

LEMMA RevokeInFlight ==
  ASSUME TypeOK, NEW r \in Requests, At(r, "revoke")
  PROVE  req[r].token \in Tokens
BY DEF TypeOK, Handlers, At, Idle

LEMMA ShareAllInFlight ==
  ASSUME TypeOK, NEW r \in Requests, At(r, "shareAll")
  PROVE  req[r].org \in Orgs
BY DEF TypeOK, Handlers, At, Idle

LEMMA StartType ==
  ASSUME TypeOK, NEW r \in Requests, NEW h \in {Idle} \cup Handlers,
         req' = [req EXCEPT ![r] = h]
  PROVE  req' \in [Requests -> {Idle} \cup Handlers]
BY DEF TypeOK

\* A new row is well typed, and leaves every other row as it was.
LEMMA InsertType ==
  ASSUME TypeOK, NEW k \in Credentials, NEW o \in Orgs, NEW value \in CredentialStatus,
         NEW day \in Expiries, NEW from \in Credentials \cup {Nobody},
         Insert(k, o, value, day, from)
  PROVE  /\ status' \in [Credentials -> CredentialStatus \cup {"ABSENT", "DELETED"}]
         /\ org' \in [Credentials -> Orgs \cup {Nobody}]
         /\ expires' \in [Credentials -> Expiries]
         /\ source' \in [Credentials -> Credentials \cup {Nobody}]
BY DEF TypeOK, Insert

LEMMA InsertStores ==
  ASSUME TypeOK, NEW k \in Credentials, NEW o, NEW value \in CredentialStatus,
         NEW day, NEW from, Insert(k, o, value, day, from)
  PROVE  \A c \in Credentials : Stored(c) => Stored(c)'
BY DEF TypeOK, Insert, Stored

---------------------------------------------------------------------------
(* Types.  A claim reads the row its link is for: that there is one is      *)
(* ShareInv, so the two are proved together.                               *)

LEMMA InitTypeOK == Init => TypeOK
<1>1. (CHOOSE day \in Expiries : TRUE) \in Expiries
  BY ShareDaysAssumption
<1> QED
  BY <1>1 DEF Init, TypeOK

LEMMA StaffTypeOK ==
  ASSUME TypeOK, StaffNext
  PROVE  TypeOK'
<1> USE DEF tokenVars, jobVars, historyVars
<1>1. ASSUME NEW c \in Credentials, NEW o \in Orgs, NEW value \in Grades,
             NEW day \in Expiries, IssueNew(c, o, value, day)
      PROVE  TypeOK'
  <2>1. value \in CredentialStatus
    BY GradesAssumption DEF CredentialStatus
  <2> QED
    BY <1>1, <2>1, InsertType DEF IssueNew, TypeOK
<1>2. ASSUME NEW c \in Credentials, NEW value \in Grades, NEW day \in Expiries,
             IssueAgain(c, value, day)
      PROVE  TypeOK'
  <2>1. value \in CredentialStatus
    BY GradesAssumption DEF CredentialStatus
  <2> QED
    BY <1>2, <2>1 DEF IssueAgain, TypeOK
<1>3. ASSUME NEW c \in Credentials, RemoveCredential(c) PROVE TypeOK'
  BY <1>3 DEF RemoveCredential, TypeOK
<1> QED
  BY <1>1, <1>2, <1>3 DEF StaffNext

LEMMA ShareReadTypeOK ==
  ASSUME TypeOK, ShareInv, NEW r \in Requests
  PROVE  /\ \A c \in Credentials : GenerateRead(r, c) => TypeOK'
         /\ \A t \in Tokens, o \in Orgs : ClaimRead(r, t, o) => TypeOK'
         /\ \A t \in Tokens : RevokeRead(r, t) => TypeOK'
         /\ \A o \in Orgs : ShareAllRead(r, o) => TypeOK'
<1> USE DEF credentialVars, tokenVars, jobVars, historyVars
<1>1. ASSUME NEW h \in Handlers, Start(r, h),
             UNCHANGED <<credentialVars, tokenVars, now, jobVars, historyVars>>
      PROVE  TypeOK'
  <2>1. req' \in [Requests -> {Idle} \cup Handlers]
    BY <1>1, StartType DEF Start
  <2> QED
    BY <1>1, <2>1 DEF TypeOK
<1>2. ASSUME NEW c \in Credentials, GenerateRead(r, c) PROVE TypeOK'
  <2>1. [phase |-> "read", op |-> "generate", credential |-> c, at |-> now] \in Handlers
    BY DEF Handlers, TypeOK
  <2> QED
    BY <1>1, <1>2, <2>1 DEF GenerateRead
<1>3. ASSUME NEW t \in Tokens, NEW o \in Orgs, ClaimRead(r, t, o) PROVE TypeOK'
  <2>1. of[t] \in Credentials
    BY <1>3 DEF ClaimRead, Claimable, ShareInv, TokenStatus
  <2>2. [phase |-> "read", op |-> "claim", token |-> t, org |-> o,
         credential |-> of[t], expires |-> expires[of[t]]] \in Handlers
    BY <2>1 DEF Handlers, TypeOK
  <2> QED
    BY <1>1, <1>3, <2>2 DEF ClaimRead
<1>4. ASSUME NEW t \in Tokens, RevokeRead(r, t) PROVE TypeOK'
  <2>1. [phase |-> "read", op |-> "revoke", token |-> t] \in Handlers
    BY DEF Handlers
  <2> QED
    BY <1>1, <1>4, <2>1 DEF RevokeRead
<1>5. ASSUME NEW o \in Orgs, ShareAllRead(r, o) PROVE TypeOK'
  <2> DEFINE sources == {<<c, expires[c]>> :
                           c \in {d \in Credentials : status[d] = "VERIFIED" /\ org[d] # o}}
  <2>1. sources \in SUBSET (Credentials \X Expiries)
    BY DEF TypeOK
  <2> DEFINE h == [phase |-> "read", op |-> "shareAll", org |-> o, sources |-> sources]
  <2>2. h \in Handlers
    <3> HIDE DEF sources
    <3> QED BY <2>1 DEF Handlers
  <2>3. /\ Start(r, h)
        /\ UNCHANGED <<credentialVars, tokenVars, now, jobVars, historyVars>>
    BY <1>5 DEF ShareAllRead
  <2> HIDE DEF h
  <2> QED
    BY <1>1, <2>2, <2>3
<1> QED
  BY <1>2, <1>3, <1>4, <1>5

LEMMA ShareWriteTypeOK ==
  ASSUME TypeOK, NEW r \in Requests
  PROVE  /\ \A t \in Tokens : GenerateCommit(r, t) => TypeOK'
         /\ \A k \in Credentials : ClaimCommit(r, k) => TypeOK'
         /\ RevokeCommit(r) => TypeOK'
         /\ \A t \in Tokens, k \in Credentials : ShareAllCommit(r, t, k) => TypeOK'
         /\ ShareAllRefused(r) => TypeOK'
         /\ Rollback(r) => TypeOK'
<1> USE DEF credentialVars, tokenVars, jobVars, historyVars
<1>1. ASSUME Finish(r) PROVE req' \in [Requests -> {Idle} \cup Handlers]
  BY <1>1, StartType DEF Finish
<1>2. ASSUME NEW t \in Tokens, GenerateCommit(r, t) PROVE TypeOK'
  <2>1. req[r].credential \in Credentials /\ req[r].at \in Nat
    BY <1>2, GenerateInFlight DEF GenerateCommit
  <2>2. req[r].at + Lifetime \in Nat
    BY <2>1, ShareDaysAssumption
  <2> QED
    BY <1>1, <1>2, <2>1, <2>2 DEF GenerateCommit, TypeOK, TokenStatus
<1>3. ASSUME NEW k \in Credentials, ClaimCommit(r, k) PROVE TypeOK'
  <2>1. /\ req[r].token \in Tokens
        /\ req[r].org \in Orgs
        /\ req[r].credential \in Credentials
        /\ req[r].expires \in Expiries
    BY <1>3, ClaimInFlight DEF ClaimCommit
  <2>2. Insert(k, req[r].org, "VERIFIED", req[r].expires, req[r].credential)
    BY <1>3 DEF ClaimCommit
  <2>3. "VERIFIED" \in CredentialStatus
    BY DEF CredentialStatus
  <2>4. /\ status' \in [Credentials -> CredentialStatus \cup {"ABSENT", "DELETED"}]
        /\ org' \in [Credentials -> Orgs \cup {Nobody}]
        /\ expires' \in [Credentials -> Expiries]
        /\ source' \in [Credentials -> Credentials \cup {Nobody}]
    BY <2>1, <2>2, <2>3, InsertType
  <2> QED
    BY <1>1, <1>3, <2>1, <2>4 DEF ClaimCommit, TypeOK, TokenStatus
<1>4. ASSUME RevokeCommit(r) PROVE TypeOK'
  <2>1. req[r].token \in Tokens
    BY <1>4, RevokeInFlight DEF RevokeCommit
  <2> QED
    BY <1>1, <1>4, <2>1 DEF RevokeCommit, TypeOK, TokenStatus
<1>5. ASSUME NEW t \in Tokens, NEW k \in Credentials, ShareAllCommit(r, t, k) PROVE TypeOK'
  <2>1. req[r].org \in Orgs
    BY <1>5, ShareAllInFlight DEF ShareAllCommit
  <2>2. PICK c \in Credentials, day \in Expiries :
          /\ of' = [of EXCEPT ![t] = c]
          /\ Insert(k, req[r].org, "VERIFIED", day, c)
    BY <1>5 DEF ShareAllCommit
  <2>3. "VERIFIED" \in CredentialStatus
    BY DEF CredentialStatus
  <2>4. /\ status' \in [Credentials -> CredentialStatus \cup {"ABSENT", "DELETED"}]
        /\ org' \in [Credentials -> Orgs \cup {Nobody}]
        /\ expires' \in [Credentials -> Expiries]
        /\ source' \in [Credentials -> Credentials \cup {Nobody}]
    BY <2>1, <2>2, <2>3, InsertType
  <2>5. now + Lifetime \in Nat
    BY ShareDaysAssumption DEF TypeOK
  <2> QED
    BY <1>1, <1>5, <2>1, <2>2, <2>4, <2>5 DEF ShareAllCommit, TypeOK, TokenStatus
<1>6. ASSUME ShareAllRefused(r) \/ Rollback(r) PROVE TypeOK'
  BY <1>1, <1>6 DEF ShareAllRefused, Rollback, TypeOK
<1> QED
  BY <1>2, <1>3, <1>4, <1>5, <1>6

LEMMA JobTypeOK ==
  ASSUME TypeOK, JobNext \/ Tick
  PROVE  TypeOK'
<1> USE DEF credentialVars, tokenVars, jobVars, historyVars
<1>1. CASE CredentialScan
  BY <1>1 DEF CredentialScan, Batches, TypeOK
<1>2. ASSUME NEW c \in Credentials, CredentialVisit(c) PROVE TypeOK'
  BY <1>2 DEF CredentialVisit, TypeOK, CredentialStatus
<1>3. CASE TokenScan
  BY <1>3 DEF TokenScan, Batches, TypeOK
<1>4. ASSUME NEW t \in Tokens, TokenVisit(t) PROVE TypeOK'
  BY <1>4 DEF TokenVisit, TypeOK, TokenStatus
<1>5. CASE Skip
  BY <1>5 DEF Skip, TypeOK
<1>6. CASE Tick
  BY <1>6 DEF Tick, TypeOK
<1> QED
  BY <1>1, <1>2, <1>3, <1>4, <1>5, <1>6 DEF JobNext

LEMMA NextTypeOK ==
  ASSUME TypeOK, ShareInv, [Next]_vars
  PROVE  TypeOK'
<1>1. ASSUME NEW r \in Requests, ShareNext(r) PROVE TypeOK'
  BY <1>1, ShareReadTypeOK, ShareWriteTypeOK DEF ShareNext
<1>2. CASE UNCHANGED vars
  BY <1>2 DEF vars, TypeOK
<1> QED
  BY <1>1, <1>2, StaffTypeOK, JobTypeOK DEF Next

---------------------------------------------------------------------------
(* The share list.                                                         *)

\* What ShareInv says of one link.
LinkInv(t) ==
  /\ token[t] \in {"ABSENT", "ACTIVE"} => claimedBy[t] = Nobody /\ t \notin revoked
  /\ token[t] = "ABSENT" => copies[t] = {}
  /\ token[t] \in TokenStatus => of[t] \in Credentials /\ Stored(of[t])
  /\ copies[t] = {claimedBy[t]} \ {Nobody}

LEMMA LinkInvs ==
  /\ ShareInv <=> \A t \in Tokens : LinkInv(t)
  /\ ShareInv' <=> \A t \in Tokens : LinkInv(t)'
BY DEF ShareInv, ShareListExact, LinkInv

LEMMA InitShareInv == Init => ShareInv
BY DEF Init, ShareInv, ShareListExact, TokenStatus

\* Nothing ShareInv speaks of is disturbed by a step that leaves the links and their
\* history alone and deletes no credential.
LEMMA ShareInvKept ==
  ASSUME ShareInv, UNCHANGED <<tokenVars, historyVars>>,
         \A c \in Credentials : Stored(c) => Stored(c)'
  PROVE  ShareInv'
BY DEF ShareInv, ShareListExact, tokenVars, historyVars

\* A link that exists and has handed out nothing new may become EXPIRED.
LEMMA ExpiredShareInv ==
  ASSUME TypeOK, ShareInv, NEW t \in Tokens,
         token[t] \in TokenStatus,
         token' = [token EXCEPT ![t] = "EXPIRED"],
         revoked' \subseteq revoked \cup {t},
         UNCHANGED <<credentialVars, of, claimedBy, copies>>
  PROVE  ShareInv'
BY DEF ShareInv, ShareListExact, TypeOK, TokenStatus, Stored, credentialVars

LEMMA StaffShareInv ==
  ASSUME TypeOK, ShareInv, StaffNext
  PROVE  ShareInv'
<1>1. ASSUME NEW c \in Credentials, NEW o \in Orgs, NEW value \in Grades,
             NEW day \in Expiries, IssueNew(c, o, value, day)
      PROVE  ShareInv'
  <2>1. value \in CredentialStatus
    BY GradesAssumption DEF CredentialStatus
  <2>2. \A d \in Credentials : Stored(d) => Stored(d)'
    BY <1>1, <2>1, InsertStores DEF IssueNew
  <2> QED
    BY <1>1, <2>2, ShareInvKept DEF IssueNew
<1>2. ASSUME NEW c \in Credentials, NEW value \in Grades, NEW day \in Expiries,
             IssueAgain(c, value, day)
      PROVE  ShareInv'
  <2>1. value \in CredentialStatus
    BY GradesAssumption DEF CredentialStatus
  <2>2. \A d \in Credentials : Stored(d) => Stored(d)'
    BY <1>2, <2>1 DEF IssueAgain, Stored, TypeOK
  <2> QED
    BY <1>2, <2>2, ShareInvKept DEF IssueAgain
<1>3. ASSUME NEW c \in Credentials, RemoveCredential(c) PROVE ShareInv'
  <2>1. \A t \in Tokens : token'[t] = "DELETED" \/ (token'[t] = token[t] /\ ~(token[t] \in TokenStatus /\ of[t] = c))
    BY <1>3 DEF RemoveCredential
  <2>2. \A d \in Credentials : d # c /\ Stored(d) => Stored(d)'
    BY <1>3 DEF RemoveCredential, Stored, TypeOK
  <2>3. UNCHANGED <<of, claimedBy, copies, revoked>>
    BY <1>3 DEF RemoveCredential, historyVars
  <2>4. "DELETED" \notin TokenStatus \cup {"ABSENT", "ACTIVE"}
    BY DEF TokenStatus
  <2> QED
    BY <2>1, <2>2, <2>3, <2>4 DEF ShareInv, ShareListExact
<1> QED
  BY <1>1, <1>2, <1>3 DEF StaffNext

LEMMA ShareShareInv ==
  ASSUME TypeOK, ShareInv, NEW r \in Requests, ShareNext(r)
  PROVE  ShareInv'
<1>1. ASSUME UNCHANGED <<credentialVars, tokenVars, historyVars>> PROVE ShareInv'
  BY <1>1, ShareInvKept DEF credentialVars, Stored
<1>2. CASE \/ \E c \in Credentials : GenerateRead(r, c)
           \/ \E t \in Tokens : RevokeRead(r, t)
           \/ \E t \in Tokens, o \in Orgs : ClaimRead(r, t, o)
           \/ \E o \in Orgs : ShareAllRead(r, o)
           \/ ShareAllRefused(r)
           \/ Rollback(r)
  BY <1>1, <1>2 DEF GenerateRead, RevokeRead, ClaimRead, ShareAllRead, ShareAllRefused, Rollback
<1>3. ASSUME NEW t \in Tokens, GenerateCommit(r, t) PROVE ShareInv'
  <2>1. req[r].credential \in Credentials /\ Stored(req[r].credential)
    BY <1>3, GenerateInFlight DEF GenerateCommit
  <2>2. \A c : Stored(c)' = Stored(c)
    BY <1>3 DEF GenerateCommit, credentialVars, Stored
  <2> QED
    BY <1>3, <2>1, <2>2 DEF GenerateCommit, ShareInv, ShareListExact, TypeOK, historyVars
<1>4. ASSUME NEW k \in Credentials, ClaimCommit(r, k) PROVE ShareInv'
  <2> DEFINE t == req[r].token
             o == req[r].org
  <2>1. t \in Tokens /\ o \in Orgs
    BY <1>4, ClaimInFlight DEF ClaimCommit
  <2>2. token[t] = "ACTIVE"
    BY <1>4 DEF ClaimCommit, StillActive
  <2>3. claimedBy[t] = Nobody /\ copies[t] = {} /\ of[t] \in Credentials /\ Stored(of[t])
    BY <2>1, <2>2 DEF ShareInv, ShareListExact, TokenStatus
  <2>4. /\ token' = [token EXCEPT ![t] = "CLAIMED"]
        /\ claimedBy' = [claimedBy EXCEPT ![t] = o]
        /\ copies' = [copies EXCEPT ![t] = copies[t] \cup {o}]
        /\ of' = of
        /\ revoked' = revoked
    BY <1>4 DEF ClaimCommit
  <2>5. \A c \in Credentials : Stored(c) => Stored(c)'
    <3>1. Insert(k, req[r].org, "VERIFIED", req[r].expires, req[r].credential)
      BY <1>4 DEF ClaimCommit
    <3>2. "VERIFIED" \in CredentialStatus
      BY DEF CredentialStatus
    <3> QED
      BY <3>1, <3>2, InsertStores
  <2>6. o # Nobody
    BY <2>1, NobodyAssumption
  <2> HIDE DEF t, o
  <2>7. ASSUME NEW u \in Tokens
        PROVE  LinkInv(u)'
    <3>1. CASE u = t
      <4>1. token'[u] = "CLAIMED" /\ claimedBy'[u] = o /\ copies'[u] = {o} /\ of'[u] = of[t]
        BY <2>1, <2>3, <2>4, <3>1 DEF TypeOK
      <4> QED
        BY <4>1, <2>3, <2>5, <2>6 DEF LinkInv
    <3>2. CASE u # t
      <4>1. token'[u] = token[u] /\ claimedBy'[u] = claimedBy[u] /\ copies'[u] = copies[u]
        BY <2>4, <3>2 DEF TypeOK
      <4> QED
        BY <4>1, <2>4, <2>5, LinkInvs DEF LinkInv
    <3> QED BY <3>1, <3>2
  <2> QED
    BY <2>7, LinkInvs
<1>5. ASSUME RevokeCommit(r) PROVE ShareInv'
  <2>1. req[r].token \in Tokens
    BY <1>5, RevokeInFlight DEF RevokeCommit
  <2> QED
    BY <1>5, <2>1, ExpiredShareInv DEF RevokeCommit
<1>6. ASSUME NEW t \in Tokens, NEW k \in Credentials, ShareAllCommit(r, t, k) PROVE ShareInv'
  <2> DEFINE o == req[r].org
  <2>1. o \in Orgs /\ o # Nobody
    BY <1>6, ShareAllInFlight, NobodyAssumption DEF ShareAllCommit
  <2>2. token[t] = "ABSENT" /\ copies[t] = {}
    BY <1>6 DEF ShareAllCommit, ShareInv
  <2>3. PICK c \in Credentials, day \in Expiries :
          /\ Stored(c)
          /\ of' = [of EXCEPT ![t] = c]
          /\ Insert(k, o, "VERIFIED", day, c)
    BY <1>6 DEF ShareAllCommit
  <2>4. /\ token' = [token EXCEPT ![t] = "CLAIMED"]
        /\ claimedBy' = [claimedBy EXCEPT ![t] = o]
        /\ copies' = [copies EXCEPT ![t] = copies[t] \cup {o}]
        /\ revoked' = revoked
    BY <1>6 DEF ShareAllCommit
  <2>5. \A d \in Credentials : Stored(d) => Stored(d)'
    <3>1. "VERIFIED" \in CredentialStatus
      BY DEF CredentialStatus
    <3> QED
      BY <2>3, <3>1, InsertStores
  <2> HIDE DEF o
  <2>6. ASSUME NEW u \in Tokens
        PROVE  LinkInv(u)'
    <3>1. CASE u = t
      <4>1. token'[u] = "CLAIMED" /\ claimedBy'[u] = o /\ copies'[u] = {o} /\ of'[u] = c
        BY <2>2, <2>3, <2>4, <3>1 DEF TypeOK
      <4> QED
        BY <4>1, <2>1, <2>3, <2>5 DEF LinkInv
    <3>2. CASE u # t
      <4>1. /\ token'[u] = token[u] /\ claimedBy'[u] = claimedBy[u]
            /\ copies'[u] = copies[u] /\ of'[u] = of[u]
        BY <2>3, <2>4, <3>2 DEF TypeOK
      <4> QED
        BY <4>1, <2>4, <2>5, LinkInvs DEF LinkInv
    <3> QED BY <3>1, <3>2
  <2> QED
    BY <2>6, LinkInvs
<1> QED
  BY <1>2, <1>3, <1>4, <1>5, <1>6 DEF ShareNext

LEMMA JobShareInv ==
  ASSUME TypeOK, ShareInv, JobNext \/ Tick
  PROVE  ShareInv'
<1>1. CASE CredentialScan \/ TokenScan \/ Skip \/ Tick
  <2>1. UNCHANGED <<status, tokenVars, historyVars>>
    BY <1>1 DEF CredentialScan, TokenScan, Skip, Tick, credentialVars
  <2> QED
    BY <2>1, ShareInvKept DEF Stored
<1>2. ASSUME NEW c \in Credentials, CredentialVisit(c) PROVE ShareInv'
  <2>1. \A d \in Credentials : Stored(d) => Stored(d)'
    BY <1>2 DEF CredentialVisit, Stored, TypeOK, CredentialStatus
  <2> QED
    BY <1>2, <2>1, ShareInvKept DEF CredentialVisit
<1>3. ASSUME NEW t \in Tokens, TokenVisit(t) PROVE ShareInv'
  BY <1>3, ExpiredShareInv DEF TokenVisit, historyVars
<1> QED
  BY <1>1, <1>2, <1>3 DEF JobNext

LEMMA NextShareInv ==
  ASSUME TypeOK, ShareInv, [Next]_vars
  PROVE  ShareInv'
<1>1. CASE UNCHANGED vars
  BY <1>1, ShareInvKept DEF vars, tokenVars, historyVars, Stored
<1> QED
  BY <1>1, StaffShareInv, ShareShareInv, JobShareInv DEF Next

\* Every reachable state is well typed, and in it an unclaimed link has handed out
\* nothing, a revoked one can no longer be claimed, and a link's row exists.
THEOREM Invariants == Spec => [](TypeOK /\ ShareInv)
<1>1. Init => TypeOK /\ ShareInv
  BY InitTypeOK, InitShareInv
<1>2. TypeOK /\ ShareInv /\ [Next]_vars => (TypeOK /\ ShareInv)'
  BY NextTypeOK, NextShareInv
<1> QED
  BY <1>1, <1>2, PTL DEF Spec

\* TypeOK holds in every reachable state, so every claim that reads a link finds a row.
THEOREM TypeCorrect == Spec => []TypeOK
BY Invariants, PTL

\* ShareInv holds in every reachable state, whatever requests and the job interleave.
THEOREM ShareInvariant == Spec => []ShareInv
BY Invariants, PTL

\* A link hands out one copy at most, to the organization its row names: the list
\* a volunteer sees is exact (markTokenClaimedTx).
THEOREM ShareListCorrect == Spec => []ShareListExact
<1>1. ShareInv => ShareListExact
  BY DEF ShareInv
<1> QED
  BY <1>1, ShareInvariant, PTL

\* A link that is revoked hands out no copy any more (revokeShareToken).
THEOREM RevokedStaysRevoked == Spec => NoCopyAfterRevoke
<1>1. ASSUME TypeOK, ShareInv, [Next]_vars, NEW t \in revoked
      PROVE  copies'[t] = copies[t]
  <2>1. t \in Tokens /\ token[t] \notin {"ABSENT", "ACTIVE"}
    BY <1>1 DEF TypeOK, ShareInv
  <2>2. ASSUME NEW r \in Requests, NEW k \in Credentials, ClaimCommit(r, k)
        PROVE  copies'[t] = copies[t]
    <3>1. req[r].token # t
      BY <2>1, <2>2 DEF ClaimCommit, StillActive
    <3> QED
      BY <1>1, <2>2, <3>1 DEF ClaimCommit, TypeOK
  <2>3. ASSUME NEW r \in Requests, NEW u \in Tokens, NEW k \in Credentials,
               ShareAllCommit(r, u, k)
        PROVE  copies'[t] = copies[t]
    <3>1. u # t
      BY <2>1, <2>3 DEF ShareAllCommit
    <3> QED
      BY <1>1, <2>3, <3>1 DEF ShareAllCommit, TypeOK
  <2>4. ASSUME NEW r \in Requests, ShareNext(r),
               ~ \E k \in Credentials : ClaimCommit(r, k),
               ~ \E u \in Tokens, k \in Credentials : ShareAllCommit(r, u, k)
        PROVE  copies' = copies
    BY <2>4 DEF ShareNext, GenerateRead, GenerateCommit, ClaimRead, RevokeRead, RevokeCommit,
                ShareAllRead, ShareAllRefused, Rollback, historyVars
  <2>5. ASSUME StaffNext \/ JobNext \/ Tick \/ UNCHANGED vars
        PROVE  copies' = copies
    BY <2>5 DEF StaffNext, IssueNew, IssueAgain, RemoveCredential, JobNext, CredentialScan,
                CredentialVisit, TokenScan, TokenVisit, Skip, Tick, historyVars, vars
  <2> QED
    BY <1>1, <2>2, <2>3, <2>4, <2>5 DEF Next
<1>2. TypeOK /\ ShareInv /\ [Next]_vars => [\A t \in revoked : copies'[t] = copies[t]]_vars
  BY <1>1
<1> QED
  BY <1>2, Invariants, PTL DEF Spec, NoCopyAfterRevoke
---------------------------------------------------------------------------
(* What volunteers are promised.  Reading, and what is done to credentials *)
(* alone, are stutters; a status written over one that has been closed is  *)
(* one too.                                                                *)

LEMMA Stutters ==
  ASSUME UNCHANGED <<token, claimedBy, copies, revoked>>
  PROVE  UNCHANGED Promised!vars
BY DEF Promised!vars, MadeLinks, OpenLinks

\* Expiring a link closes it, whatever it was.
LEMMA ExpiryCloses ==
  ASSUME TypeOK, NEW t \in Tokens, token[t] \in TokenStatus,
         token' = [token EXCEPT ![t] = "EXPIRED"]
  PROVE  t \in MadeLinks /\ MadeLinks' = MadeLinks /\ OpenLinks' = OpenLinks \ {t}
BY DEF TypeOK, TokenStatus, MadeLinks, OpenLinks

LEMMA CloseStep ==
  ASSUME NEW closed \in SUBSET OpenLinks, OpenLinks' = OpenLinks \ closed,
         MadeLinks' = MadeLinks, UNCHANGED <<claimedBy, copies, revoked>>
  PROVE  Promised!Next
BY DEF Promised!Next, Promised!Close

LEMMA StaffPromised ==
  ASSUME TypeOK, StaffNext
  PROVE  [Promised!Next]_(Promised!vars)
<1>1. ASSUME UNCHANGED <<tokenVars, historyVars>> PROVE UNCHANGED Promised!vars
  BY <1>1, Stutters DEF tokenVars, historyVars
<1>2. ASSUME NEW c \in Credentials, RemoveCredential(c) PROVE Promised!Next
  <2> DEFINE closed == {t \in Tokens : token[t] = "ACTIVE" /\ of[t] = c}
  <2>1. token' = [t \in Tokens |->
          IF token[t] \in TokenStatus /\ of[t] = c THEN "DELETED" ELSE token[t]]
    BY <1>2 DEF RemoveCredential
  <2>2. MadeLinks' = MadeLinks
    BY <2>1 DEF MadeLinks, TokenStatus
  <2>3. closed \in SUBSET OpenLinks /\ OpenLinks' = OpenLinks \ closed
    BY <2>1 DEF OpenLinks, TokenStatus
  <2>4. UNCHANGED <<claimedBy, copies, revoked>>
    BY <1>2 DEF RemoveCredential, historyVars
  <2> HIDE DEF closed
  <2> QED
    BY <2>2, <2>3, <2>4, CloseStep
<1>3. ASSUME NEW c \in Credentials, NEW value, NEW day,
             (\E o \in Orgs : IssueNew(c, o, value, day)) \/ IssueAgain(c, value, day)
      PROVE  UNCHANGED <<tokenVars, historyVars>>
  BY <1>3 DEF IssueNew, IssueAgain
<1> QED
  BY <1>1, <1>2, <1>3 DEF StaffNext

LEMMA SharePromised ==
  ASSUME TypeOK, ShareInv, NEW r \in Requests, ShareNext(r)
  PROVE  [Promised!Next]_(Promised!vars)
<1>1. CASE \/ \E c \in Credentials : GenerateRead(r, c)
           \/ \E t \in Tokens : RevokeRead(r, t)
           \/ \E t \in Tokens, o \in Orgs : ClaimRead(r, t, o)
           \/ \E o \in Orgs : ShareAllRead(r, o)
           \/ ShareAllRefused(r)
           \/ Rollback(r)
  <2>1. UNCHANGED <<tokenVars, historyVars>>
    BY <1>1 DEF GenerateRead, RevokeRead, ClaimRead, ShareAllRead, ShareAllRefused, Rollback
  <2> QED
    BY <2>1, Stutters DEF tokenVars, historyVars
<1>2. ASSUME NEW t \in Tokens, GenerateCommit(r, t) PROVE Promised!Next
  <2>1. token[t] = "ABSENT" /\ token' = [token EXCEPT ![t] = "ACTIVE"]
    BY <1>2 DEF GenerateCommit
  <2>2. /\ t \notin MadeLinks
        /\ MadeLinks' = MadeLinks \cup {t}
        /\ OpenLinks' = OpenLinks \cup {t}
    BY <2>1 DEF TypeOK, MadeLinks, OpenLinks
  <2>3. UNCHANGED <<claimedBy, copies, revoked>>
    BY <1>2 DEF GenerateCommit, historyVars
  <2> QED
    BY <2>2, <2>3 DEF Promised!Next, Promised!Make
<1>3. ASSUME NEW k \in Credentials, ClaimCommit(r, k) PROVE Promised!Next
  <2> DEFINE t == req[r].token
             o == req[r].org
  <2>1. t \in Tokens /\ o \in Orgs
    BY <1>3, ClaimInFlight DEF ClaimCommit
  <2>2. /\ token[t] = "ACTIVE"
        /\ token' = [token EXCEPT ![t] = "CLAIMED"]
        /\ claimedBy' = [claimedBy EXCEPT ![t] = o]
        /\ copies' = [copies EXCEPT ![t] = copies[t] \cup {o}]
        /\ revoked' = revoked
    BY <1>3 DEF ClaimCommit, StillActive
  <2> HIDE DEF t, o
  <2>3. copies[t] = {}
    BY <2>1, <2>2 DEF ShareInv, ShareListExact
  <2>4. t \in OpenLinks /\ MadeLinks' = MadeLinks /\ OpenLinks' = OpenLinks \ {t}
    BY <2>1, <2>2 DEF TypeOK, MadeLinks, OpenLinks
  <2>5. Promised!Use(t, o)
    BY <2>2, <2>3, <2>4 DEF Promised!Use, Promised!HandOut
  <2> QED
    BY <2>1, <2>5 DEF Promised!Next
<1>4. ASSUME RevokeCommit(r) PROVE Promised!Next
  <2> DEFINE t == req[r].token
  <2>1. t \in Tokens
    BY <1>4, RevokeInFlight DEF RevokeCommit
  <2>2. t \in MadeLinks /\ MadeLinks' = MadeLinks /\ OpenLinks' = OpenLinks \ {t}
    BY <1>4, <2>1, ExpiryCloses DEF RevokeCommit
  <2>3. revoked' = revoked \cup {t} /\ UNCHANGED <<claimedBy, copies>>
    BY <1>4 DEF RevokeCommit
  <2> HIDE DEF t
  <2>4. Promised!Withdraw(t)
    BY <2>2, <2>3 DEF Promised!Withdraw
  <2> QED
    BY <2>1, <2>4 DEF Promised!Next
<1>5. ASSUME NEW t \in Tokens, NEW k \in Credentials, ShareAllCommit(r, t, k)
      PROVE  Promised!Next
  <2> DEFINE o == req[r].org
  <2>1. o \in Orgs
    BY <1>5, ShareAllInFlight DEF ShareAllCommit
  <2>2. /\ token[t] = "ABSENT"
        /\ token' = [token EXCEPT ![t] = "CLAIMED"]
        /\ claimedBy' = [claimedBy EXCEPT ![t] = o]
        /\ copies' = [copies EXCEPT ![t] = copies[t] \cup {o}]
        /\ revoked' = revoked
    BY <1>5 DEF ShareAllCommit
  <2> HIDE DEF o
  <2>3. copies[t] = {}
    BY <2>2 DEF ShareInv
  <2>4. t \notin MadeLinks /\ MadeLinks' = MadeLinks \cup {t} /\ OpenLinks' = OpenLinks
    BY <2>2 DEF TypeOK, MadeLinks, OpenLinks
  <2>5. Promised!MakeUsed(t, o)
    BY <2>2, <2>3, <2>4 DEF Promised!MakeUsed, Promised!HandOut
  <2> QED
    BY <2>1, <2>5 DEF Promised!Next
<1> QED
  BY <1>1, <1>2, <1>3, <1>4, <1>5 DEF ShareNext

LEMMA JobPromised ==
  ASSUME TypeOK, JobNext \/ Tick
  PROVE  [Promised!Next]_(Promised!vars)
<1>1. ASSUME NEW t \in Tokens, TokenVisit(t) PROVE [Promised!Next]_(Promised!vars)
  <2>1. MadeLinks' = MadeLinks /\ OpenLinks' = OpenLinks \ (OpenLinks \cap {t})
    BY <1>1, ExpiryCloses DEF TokenVisit
  <2>2. UNCHANGED <<claimedBy, copies, revoked>>
    BY <1>1 DEF TokenVisit, historyVars
  <2> QED
    BY <2>1, <2>2, CloseStep
<1>2. CASE CredentialScan \/ (\E c \in Credentials : CredentialVisit(c)) \/ TokenScan
           \/ Skip \/ Tick
  <2>1. UNCHANGED <<tokenVars, historyVars>>
    BY <1>2 DEF CredentialScan, CredentialVisit, TokenScan, Skip, Tick
  <2> QED
    BY <2>1, Stutters DEF tokenVars, historyVars
<1> QED
  BY <1>1, <1>2 DEF JobNext

\* Whatever claims, revocations, applications, removals and the nightly job do at once, a
\* link is used once, by one organization, and never opens again: every interleaving is one
\* of SingleUseLinks (markTokenClaimedTx, markTokenExpiredTx).
THEOREM LinksImplemented == Spec => LinkRefinement
<1>1. Init => Promised!Init
  BY DEF Init, Promised!Init, MadeLinks, OpenLinks
<1>2. TypeOK /\ ShareInv /\ [Next]_vars => [Promised!Next]_(Promised!vars)
  <2>1. UNCHANGED vars => UNCHANGED Promised!vars
    BY Stutters DEF vars
  <2> QED
    BY <2>1, StaffPromised, SharePromised, JobPromised DEF Next
<1> QED
  BY <1>1, <1>2, Invariants, PTL DEF Spec, LinkRefinement, Promised!Spec
---------------------------------------------------------------------------
(* The promise itself: SingleUseLinks alone implies what is claimed of the *)
(* volunteer's list and of revocations.                                    *)

\* An open link is new: nobody is listed, and it was not withdrawn.
Kept ==
  /\ claimedBy = [t \in Tokens |-> claimedBy[t]]
  /\ copies = [t \in Tokens |-> {claimedBy[t]} \ {Nobody}]
  /\ \A t \in Tokens :
       t \in OpenLinks \/ t \notin MadeLinks => claimedBy[t] = Nobody /\ t \notin revoked
  /\ OpenLinks \subseteq MadeLinks
  /\ revoked \subseteq Tokens

LEMMA HandedOut ==
  ASSUME Kept, NEW t \in Tokens, NEW o \in Orgs, Promised!HandOut(t, o)
  PROVE  /\ claimedBy' = [u \in Tokens |-> IF u = t THEN o ELSE claimedBy[u]]
         /\ copies' = [u \in Tokens |-> {claimedBy'[u]} \ {Nobody}]
<1>1. claimedBy' = [claimedBy EXCEPT ![t] = o] /\ copies' = [copies EXCEPT ![t] = {o}]
  BY DEF Promised!HandOut
<1>2. claimedBy' = [u \in Tokens |-> IF u = t THEN o ELSE claimedBy[u]]
  BY <1>1 DEF Kept
<1>3. copies' = [u \in Tokens |-> IF u = t THEN {o} ELSE {claimedBy[u]} \ {Nobody}]
  BY <1>1 DEF Kept
<1>4. o # Nobody
  BY NobodyAssumption
<1>5. \A u \in Tokens :
        (IF u = t THEN {o} ELSE {claimedBy[u]} \ {Nobody}) = {claimedBy'[u]} \ {Nobody}
  BY <1>2, <1>4
<1> QED
  BY <1>2, <1>3, <1>5

LEMMA KeptStep ==
  ASSUME Kept, [Promised!Next]_(Promised!vars)
  PROVE  Kept' /\ (\A t \in revoked : copies'[t] = copies[t])
<1>1. CASE UNCHANGED Promised!vars
  BY <1>1 DEF Kept, Promised!vars
<1>2. ASSUME UNCHANGED <<claimedBy, copies, revoked>>,
             OpenLinks' \subseteq MadeLinks', MadeLinks \subseteq MadeLinks',
             \A t \in OpenLinks' : t \in OpenLinks \/ t \notin MadeLinks
      PROVE  Kept' /\ (\A t \in revoked : copies'[t] = copies[t])
  BY <1>2 DEF Kept
<1>3. ASSUME NEW t \in Tokens, Promised!Make(t)
      PROVE  Kept' /\ (\A u \in revoked : copies'[u] = copies[u])
  BY <1>2, <1>3 DEF Kept, Promised!Make
<1>4. ASSUME NEW closed \in SUBSET OpenLinks, Promised!Close(closed)
      PROVE  Kept' /\ (\A u \in revoked : copies'[u] = copies[u])
  BY <1>2, <1>4 DEF Kept, Promised!Close
<1>5. ASSUME NEW t \in Tokens, Promised!Withdraw(t)
      PROVE  Kept' /\ (\A u \in revoked : copies'[u] = copies[u])
  BY <1>5 DEF Kept, Promised!Withdraw
<1>6. ASSUME NEW t \in Tokens, NEW o \in Orgs, Promised!Use(t, o) \/ Promised!MakeUsed(t, o)
      PROVE  Kept' /\ (\A u \in revoked : copies'[u] = copies[u])
  <2>1. /\ Promised!HandOut(t, o)
        /\ revoked' = revoked /\ t \notin OpenLinks' /\ t \in MadeLinks'
        /\ OpenLinks' \subseteq OpenLinks /\ MadeLinks \subseteq MadeLinks'
        /\ t \in OpenLinks \/ t \notin MadeLinks
    BY <1>6 DEF Kept, Promised!Use, Promised!MakeUsed
  <2>2. /\ claimedBy' = [u \in Tokens |-> IF u = t THEN o ELSE claimedBy[u]]
        /\ copies' = [u \in Tokens |-> {claimedBy'[u]} \ {Nobody}]
    BY <2>1, HandedOut
  <2>3. \A u \in Tokens \ {t} : claimedBy'[u] = claimedBy[u] /\ copies'[u] = copies[u]
    BY <2>2 DEF Kept
  <2>4. claimedBy' = [u \in Tokens |-> claimedBy'[u]]
    BY <2>2
  <2>5. Kept'
    BY <2>1, <2>2, <2>3, <2>4 DEF Kept
  <2>6. revoked \subseteq Tokens \ {t}
    BY <2>1 DEF Kept
  <2> QED
    BY <2>3, <2>5, <2>6
<1> QED
  BY <1>1, <1>3, <1>4, <1>5, <1>6 DEF Promised!Next

LEMMA KeptAlways == LinkRefinement => []Kept
<1>1. Promised!Init => Kept
  BY DEF Promised!Init, Kept
<1> QED
  BY <1>1, KeptStep, PTL DEF LinkRefinement, Promised!Spec

\* The promise is enough for a volunteer to believe the list: whatever keeps SingleUseLinks
\* hands out one copy by link at most, and names who has it (listShareTokensByUser).
THEOREM PromiseListExact == LinkRefinement => []ShareListExact
<1>1. Kept => ShareListExact
  BY DEF Kept, ShareListExact
<1> QED
  BY <1>1, KeptAlways, PTL

\* And it is enough to believe the answer to a revocation: whatever keeps SingleUseLinks
\* hands out nothing through a link that was withdrawn (revokeShareToken).
THEOREM PromiseNoCopyAfterRevoke == LinkRefinement => NoCopyAfterRevoke
<1>1. Kept /\ [Promised!Next]_(Promised!vars) => [\A t \in revoked : copies'[t] = copies[t]]_vars
  BY KeptStep
<1> QED
  BY <1>1, KeptAlways, PTL DEF LinkRefinement, Promised!Spec, NoCopyAfterRevoke

=============================================================================
