-------------------------- MODULE ExpiryNoticesProofs --------------------------
(* Theorems about ExpiryNotices, for every set of credentials, staff, runs, *)
(* digests and rows, and for every window.                                  *)
EXTENDS ExpiryNotices, TLAPS

---------------------------------------------------------------------------
(* The inductive invariant.                                                *)

Making(r) == At(r, "made") /\ run[r].row # NoRow
Emailed == UNION {digest[d].rows : d \in {e \in Digests : digest[e].phase = "mailed"}}

\* A run that is between two recipients has nobody and no row in hand; whoever it has in
\* hand is not to come again.
RunsHold ==
  \A r \in Runs : run[r] # Idle =>
    /\ At(r, "next") => run[r].row = NoRow /\ run[r].staff = {}
    /\ \A s, u \in run[r].staff : s = u
    /\ run[r].staff \cap run[r].left = {}
    /\ run[r].row # NoRow => run[r].row \in Used
    /\ At(r, "sent") => run[r].row # NoRow /\ run[r].row \in mailed
    /\ \A q \in Runs \ {r} : run[q] # Idle /\ run[r].row # NoRow => run[q].row # run[r].row

\* Two digests share no row but a doubtful one.
DigestHolds(d) ==
  /\ digest[d].rows \subseteq Used
  /\ digest[d].phase = "read" => digest[d].rows \cap mailed \subseteq doubtful
  /\ digest[d].phase = "mailed" => digest[d].rows \subseteq mailed
  /\ \A e \in Digests \ {d} :
       Reading(e) => digest[d].rows \cap digest[e].rows \subseteq doubtful

\* What was mailed and not stamped is in somebody's hands or doubtful.
RowsHold ==
  /\ \A r \in Runs : Making(r) /\ run[r].row \in mailed \cup InDigests => run[r].row \in doubtful
  /\ \A d \in Digests : Reading(d) => DigestHolds(d)
  /\ mailed \ stamped \subseteq doubtful \cup InFlight \cup Emailed
  /\ stamped \subseteq mailed
  /\ echoed \subseteq doubtful

\* A stamp about the expiry a credential has counts as warned whoever was told of that
\* expiry, or whose notification threw.
StampsHold ==
  \A k \in Credentials \ renewed, s \in Staff :
    Mailed(s) /\ notified[k] # Never => <<k, s>> \in announced \cup excused

\* So does a run that has not failed, of those it has done with.
DoneWith(r, s) ==
  s \notin run[r].left /\ s \notin run[r].threw /\ (s \in run[r].staff => At(r, "sent"))

RunsWarn ==
  \A r \in Runs, k \in Credentials, s \in Staff :
    run[r] # Idle /\ ~run[r].failed /\ k \in run[r].fresh /\ Mailed(s) /\ DoneWith(r, s) =>
      <<k, s>> \in announced

CoveredHolds == \A k \in covered : InWindow(k) => notified[k] <= Window

\* Unless something went wrong with its last warning, a credential that no run works on
\* has been stamped since, and one that a run works on was warned of a window ago.
QuietSince ==
  \A k \in Credentials \ fault, s \in Staff :
    (\A r \in Active : k \notin run[r].due) /\ warned[k][s] <= Window =>
      notified[k] <= warned[k][s]

ToBeTold(r) == run[r].left \cup (IF At(r, "made") THEN run[r].staff ELSE {})

DueSince ==
  \A r \in Active : \A k \in run[r].due \ fault : \A s \in ToBeTold(r) : warned[k][s] >= Window

\* A run stamps what it works on, unless another has just done so.
StillDue(r, k) == UnwarnedThisCycle(k, run[r].later) \/ notified[k] = 0

DueStill == \A r \in Active : \A k \in run[r].due : StillDue(r, k)

NoOverlap ==
  \A r, q \in Active : \A k \in run[r].due \cap run[q].due : r # q => k \in fault

WarningsHold ==
  /\ StampsHold /\ RunsWarn /\ CoveredHolds
  /\ QuietSince /\ DueSince /\ DueStill /\ NoOverlap

NoticeInv == TypeOK /\ RunsHold /\ RowsHold /\ WarningsHold

---------------------------------------------------------------------------
(* Types.                                                                  *)

LEMMA Busy ==
  ASSUME TypeOK, NEW r \in Runs, run[r] # Idle
  PROVE  run[r] \in Running
BY DEF TypeOK

LEMMA AtBusy ==
  ASSUME TypeOK, NEW r \in Runs, NEW phase \in {"next", "made", "sent"}, At(r, phase)
  PROVE  run[r] \in Running /\ run[r] # Idle
BY DEF TypeOK, At, Idle

LEMMA DigestBusy ==
  ASSUME TypeOK, NEW d \in Digests
  PROVE  /\ Reading(d) => digest[d] \in Digesting
         /\ digest[d].phase \in {"read", "mailed"} => Reading(d)
BY DEF TypeOK, Reading, Idle

LEMMA InDigestsIs ==
  ASSUME NEW x
  PROVE  x \in InDigests <=> \E d \in Digests : Reading(d) /\ x \in digest[d].rows
BY DEF InDigests

LEMMA EmailedIs ==
  ASSUME NEW x
  PROVE  x \in Emailed <=> \E d \in Digests : digest[d].phase = "mailed" /\ x \in digest[d].rows
BY DEF Emailed

LEMMA InUse ==
  ASSUME NEW n
  PROVE  n \in Used <=> \E s \in Staff : n \in to[s]
BY DEF Used

LEMMA UnsentInUse ==
  ASSUME TypeOK, NEW s \in Staff
  PROVE  Unsent(s) \subseteq Used /\ Unsent(s) \subseteq Rows
BY InUse DEF TypeOK, Unsent, Used

\* One step of run r leaves it at h.
StepTo(r, h) == run' = [run EXCEPT ![r] = h]

LEMMA StepType ==
  ASSUME TypeOK, NEW r \in Runs, NEW h \in Running \cup {Idle}, StepTo(r, h)
  PROVE  run' \in [Runs -> {Idle} \cup Running]
BY DEF TypeOK, StepTo

\* What each action of a run leaves in it.
Fresh(later) ==
  [phase |-> "next", due |-> Due(later), fresh |-> Due(later), later |-> later,
   left |-> Staff, staff |-> {}, row |-> NoRow, failed |-> FALSE, threw |-> {}]

After(r, phase, failed) ==
  [run[r] EXCEPT !.phase = phase, !.staff = {}, !.row = NoRow, !.failed = failed]

LEMMA FreshType ==
  ASSUME NEW later \in BOOLEAN
  PROVE  Fresh(later) \in Running
BY DEF Fresh, Running, Due

LEMMA ScanStep ==
  ASSUME TypeOK, NEW r \in Runs, Scan(r)
  PROVE  \/ UNCHANGED run
         \/ \E later \in BOOLEAN : StepTo(r, Fresh(later))
BY DEF Scan, StepTo, Fresh

LEMMA CreateStep ==
  ASSUME TypeOK, NEW r \in Runs, NEW s \in Staff, Create(r, s)
  PROVE  \E n \in Rows \cup {NoRow} :
           /\ n # NoRow => n \notin Used
           /\ to' = IF n = NoRow THEN to ELSE [to EXCEPT ![s] = @ \cup {n}]
           /\ StepTo(r, [run[r] EXCEPT !.phase = "made", !.left = @ \ {s}, !.staff = {s}, !.row = n])
           /\ [run[r] EXCEPT !.phase = "made", !.left = @ \ {s}, !.staff = {s}, !.row = n]
                \in Running
<1>1. PICK n \in IF "app" \in wants[s] THEN Rows \ Used ELSE {NoRow} :
        /\ to' = IF n = NoRow THEN to ELSE [to EXCEPT ![s] = @ \cup {n}]
        /\ run' = [run EXCEPT ![r].phase = "made", ![r].left = @ \ {s}, ![r].staff = {s},
                              ![r].row = n]
  BY DEF Create
<1>2. n \in Rows \cup {NoRow} /\ (n # NoRow => n \notin Used)
  OBVIOUS
<1>3. run[r] \in Running /\ s \in run[r].left
  BY AtBusy DEF Create
<1>4. StepTo(r, [run[r] EXCEPT !.phase = "made", !.left = @ \ {s}, !.staff = {s}, !.row = n])
  BY <1>1 DEF TypeOK, StepTo
<1>5. [run[r] EXCEPT !.phase = "made", !.left = @ \ {s}, !.staff = {s}, !.row = n] \in Running
  BY <1>2, <1>3 DEF Running
<1> QED
  BY <1>1, <1>2, <1>4, <1>5

LEMMA ThrowStep ==
  ASSUME TypeOK, NEW r \in Runs, NEW s \in Staff, NotifyThrows(r, s)
  PROVE  /\ StepTo(r, [run[r] EXCEPT !.left = @ \ {s}, !.threw = @ \cup {s}])
         /\ [run[r] EXCEPT !.left = @ \ {s}, !.threw = @ \cup {s}] \in Running
<1>1. run[r] \in Running
  BY AtBusy DEF NotifyThrows
<1> QED
  BY <1>1 DEF NotifyThrows, TypeOK, StepTo, Running

LEMMA SendStep ==
  ASSUME TypeOK, NEW r \in Runs, Send(r)
  PROVE  /\ run[r].row = NoRow => StepTo(r, [run[r] EXCEPT !.phase = "next", !.staff = {}])
         /\ run[r].row # NoRow => StepTo(r, [run[r] EXCEPT !.phase = "sent"])
         /\ [run[r] EXCEPT !.phase = "next", !.staff = {}] \in Running
         /\ [run[r] EXCEPT !.phase = "sent"] \in Running
<1>1. run[r] \in Running
  BY AtBusy DEF Send
<1> QED
  BY <1>1 DEF Send, TypeOK, StepTo, Running

LEMMA DoNotSendStep ==
  ASSUME TypeOK, NEW r \in Runs, DoNotSend(r)
  PROVE  \E s \in run[r].staff :
           /\ StepTo(r, After(r, "next", run[r].failed \/ Mailed(s)))
           /\ After(r, "next", run[r].failed \/ Mailed(s)) \in Running
<1>1. run[r] \in Running
  BY AtBusy DEF DoNotSend
<1>2. PICK s \in run[r].staff :
        run' = [run EXCEPT ![r].phase = "next", ![r].staff = {}, ![r].row = NoRow,
                           ![r].failed = @ \/ Mailed(s)]
  BY DEF DoNotSend
<1>3. StepTo(r, After(r, "next", run[r].failed \/ Mailed(s)))
  BY <1>1, <1>2 DEF TypeOK, StepTo, After
<1>4. (run[r].failed \/ Mailed(s)) \in BOOLEAN
  BY Zenon
<1>5. After(r, "next", run[r].failed \/ Mailed(s)) \in Running
  BY <1>1, <1>4 DEF Running, After
<1> QED
  BY <1>3, <1>5

LEMMA MarkRowStep ==
  ASSUME TypeOK, NEW r \in Runs, MarkRow(r)
  PROVE  /\ StepTo(r, After(r, "next", run[r].failed))
         /\ After(r, "next", run[r].failed) \in Running
<1>1. run[r] \in Running
  BY AtBusy DEF MarkRow
<1> QED
  BY <1>1 DEF MarkRow, TypeOK, StepTo, After, Running

LEMMA RunTypeStep ==
  ASSUME TypeOK, NEW r \in Runs, RunNext(r)
  PROVE  run' \in [Runs -> {Idle} \cup Running]
<1>1. CASE Scan(r)
  BY <1>1, ScanStep, FreshType, StepType DEF TypeOK
<1>2. ASSUME NEW s \in Staff, Create(r, s) PROVE run' \in [Runs -> {Idle} \cup Running]
  BY <1>2, CreateStep, StepType
<1>3. ASSUME NEW s \in Staff, NotifyThrows(r, s) PROVE run' \in [Runs -> {Idle} \cup Running]
  BY <1>3, ThrowStep, StepType
<1>4. CASE Send(r)
  BY <1>4, SendStep, StepType
<1>5. CASE DoNotSend(r)
  BY <1>5, DoNotSendStep, StepType
<1>6. CASE MarkRow(r)
  BY <1>6, MarkRowStep, StepType
<1>7. CASE Stamp(r) \/ EndUnstamped(r)
  <2>1. StepTo(r, Idle)
    BY <1>7 DEF Stamp, EndUnstamped, StepTo
  <2> QED
    BY <2>1, StepType
<1> QED
  BY <1>1, <1>2, <1>3, <1>4, <1>5, <1>6, <1>7 DEF RunNext

\* A new row belongs to one member of staff.
LEMMA CreateRows ==
  ASSUME TypeOK, NEW s \in Staff, NEW n \in Rows \cup {NoRow},
         n # NoRow => n \notin Used,
         to' = IF n = NoRow THEN to ELSE [to EXCEPT ![s] = @ \cup {n}]
  PROVE  /\ to' \in [Staff -> SUBSET Rows]
         /\ \A u, w \in Staff : u # w => to'[u] \cap to'[w] = {}
         /\ Used \subseteq Used'
         /\ n # NoRow => n \in Used'
<1>1. CASE n = NoRow
  BY <1>1 DEF TypeOK, Used
<1>2. CASE n # NoRow
  <2>1. n \in Rows /\ \A u \in Staff : n \notin to[u]
    BY <1>2, InUse
  <2>2. to' = [to EXCEPT ![s] = @ \cup {n}]
    BY <1>2
  <2>3. \A u \in Staff : to'[u] = IF u = s THEN to[u] \cup {n} ELSE to[u]
    BY <2>2 DEF TypeOK
  <2>4. to' \in [Staff -> SUBSET Rows]
    BY <2>1, <2>2 DEF TypeOK
  <2>5. \A u, w \in Staff : u # w => to'[u] \cap to'[w] = {}
    BY <2>1, <2>3 DEF TypeOK
  <2>6. Used \subseteq Used' /\ n \in Used'
    BY <2>3 DEF Used
  <2> QED
    BY <2>4, <2>5, <2>6
<1> QED
  BY <1>1, <1>2

LEMMA OlderType ==
  ASSUME NEW age \in 0..Never
  PROVE  Older(age) \in 0..Never
BY WindowAssumption DEF Older, Never

\* Runs at work keep their place when a credential changes; they only lose sight of it.
LEMMA CredentialRuns ==
  ASSUME TypeOK, CredentialNext
  PROVE  /\ run' \in [Runs -> {Idle} \cup Running] /\ Active' = Active
         /\ \A r \in Runs : run'[r] = Idle <=> run[r] = Idle
         /\ \A r \in Runs : run[r] # Idle =>
              /\ run'[r].phase = run[r].phase /\ run'[r].row = run[r].row
              /\ run'[r].staff = run[r].staff /\ run'[r].left = run[r].left
              /\ run'[r].failed = run[r].failed /\ run'[r].threw = run[r].threw
              /\ run'[r].later = run[r].later
              /\ run'[r].due \subseteq run[r].due /\ run'[r].fresh \subseteq run[r].fresh
<1>1. PICK k \in Credentials : (\E term \in Terms : Issue(k, term)) \/ Revoke(k) \/ Remove(k)
  BY DEF CredentialNext
<1>2. CASE UNCHANGED run
  BY <1>2 DEF TypeOK, Active
<1>3. ASSUME NEW gone \in SUBSET Credentials,
             run' = [r \in Runs |-> IF run[r] = Idle THEN Idle
                       ELSE [run[r] EXCEPT !.due = @ \ gone, !.fresh = @ \ {k}]]
      PROVE  /\ run' \in [Runs -> {Idle} \cup Running] /\ Active' = Active
             /\ \A r \in Runs : run'[r] = Idle <=> run[r] = Idle
             /\ \A r \in Runs : run[r] # Idle =>
                  /\ run'[r].phase = run[r].phase /\ run'[r].row = run[r].row
                  /\ run'[r].staff = run[r].staff /\ run'[r].left = run[r].left
                  /\ run'[r].failed = run[r].failed /\ run'[r].threw = run[r].threw
                  /\ run'[r].later = run[r].later
                  /\ run'[r].due \subseteq run[r].due /\ run'[r].fresh \subseteq run[r].fresh
  <2>1. \A r \in Runs : run[r] = Idle => run'[r] = Idle
    BY <1>3
  <2>2. ASSUME NEW r \in Runs, run[r] # Idle
        PROVE  /\ run'[r] \in Running
               /\ run'[r].phase = run[r].phase /\ run'[r].row = run[r].row
               /\ run'[r].staff = run[r].staff /\ run'[r].left = run[r].left
               /\ run'[r].failed = run[r].failed /\ run'[r].threw = run[r].threw
               /\ run'[r].later = run[r].later
               /\ run'[r].due \subseteq run[r].due /\ run'[r].fresh \subseteq run[r].fresh
    <3>1. run'[r] = [run[r] EXCEPT !.due = @ \ gone, !.fresh = @ \ {k}]
      BY <1>3, <2>2
    <3>2. run[r] \in Running
      BY <2>2, Busy
    <3>3. /\ run'[r].phase = run[r].phase /\ run'[r].row = run[r].row
          /\ run'[r].staff = run[r].staff /\ run'[r].left = run[r].left
          /\ run'[r].failed = run[r].failed /\ run'[r].threw = run[r].threw
          /\ run'[r].later = run[r].later
          /\ run'[r].due = run[r].due \ gone /\ run'[r].fresh = run[r].fresh \ {k}
      BY <3>1, <3>2 DEF Running
    <3>4. run[r].due \ gone \in SUBSET Credentials /\ run[r].fresh \ {k} \in SUBSET Credentials
      BY <3>2 DEF Running
    <3>5. run'[r] \in Running
      BY <3>1, <3>2, <3>4 DEF Running
    <3> QED
      BY <3>3, <3>5
  <2>3. \A r \in Runs : run[r] # Idle => run'[r] # Idle
    BY <2>2 DEF Running, Idle
  <2>4. run' \in [Runs -> {Idle} \cup Running]
    <3>1. DOMAIN run' = Runs /\ run' = [r \in Runs |-> run'[r]]
      BY <1>3
    <3> QED
      BY <2>1, <2>2, <3>1
  <2>5. Active' = Active
    BY <2>1, <2>3 DEF Active
  <2> QED
    BY <2>1, <2>2, <2>3, <2>4, <2>5
<1>4. UNCHANGED run \/ \E gone \in {{}, {k}} :
        run' = [r \in Runs |-> IF run[r] = Idle THEN Idle
                  ELSE [run[r] EXCEPT !.due = @ \ gone, !.fresh = @ \ {k}]]
  BY <1>1 DEF Issue, Revoke, Remove, Change
<1>5. CASE ~UNCHANGED run
  <2>1. PICK gone \in {{}, {k}} :
          run' = [r \in Runs |-> IF run[r] = Idle THEN Idle
                    ELSE [run[r] EXCEPT !.due = @ \ gone, !.fresh = @ \ {k}]]
    BY <1>4, <1>5
  <2>2. gone \in SUBSET Credentials
    OBVIOUS
  <2> QED
    BY <1>3, <2>1, <2>2
<1> QED
  BY <1>2, <1>5

\* What becomes of the others, and of the credential itself.
LEMMA CredentialStep ==
  ASSUME TypeOK, CredentialNext
  PROVE  \E k \in Credentials :
           /\ UNCHANGED <<wants, rowVars, digest, warned>>
           /\ covered' = covered \ {k}
           /\ fault' = fault \/ fault' = fault \cup {k}
           /\ expires' \in [Credentials -> Nat]
           /\ notified' \in [Credentials -> 0..Never]
           /\ \A c \in Credentials \ {k} : notified'[c] = notified[c] /\ expires'[c] = expires[c]
           /\ \/ /\ UNCHANGED notified
                 /\ \A r \in Runs : run[r] # Idle => run'[r].due = run[r].due
              \/ /\ notified'[k] = Never /\ k \in fault'
                 /\ \A r \in Runs : run[r] # Idle => run'[r].due = run[r].due \ {k}
           /\ \/ UNCHANGED <<announced, excused, renewed, run>>
              \/ /\ announced' = announced \ ({k} \X Staff)
                 /\ excused' = excused \ ({k} \X Staff)
                 /\ \A r \in Runs : run[r] # Idle => k \notin run'[r].fresh
                 /\ \/ renewed' = renewed \cup {k}
                    \/ renewed' = renewed \ {k} /\ notified'[k] = Never
<1>1. PICK k \in Credentials : (\E term \in Terms : Issue(k, term)) \/ Revoke(k) \/ Remove(k)
  BY DEF CredentialNext
<1>2. \A term \in Terms : term \in Nat
  BY WindowAssumption
<1>3. Never \in 0..Never
  BY WindowAssumption DEF Never
<1>4. ASSUME NEW term \in Nat, NEW gone, Change(k, term, gone)
      PROVE  /\ expires' \in [Credentials -> Nat]
             /\ \A c \in Credentials \ {k} : expires'[c] = expires[c]
             /\ announced' = announced \ ({k} \X Staff)
             /\ excused' = excused \ ({k} \X Staff)
             /\ \A r \in Runs : run[r] # Idle =>
                  run'[r].fresh = run[r].fresh \ {k} /\ run'[r].due = run[r].due \ gone
  <2>1. ASSUME NEW r \in Runs, run[r] # Idle
        PROVE  run'[r].fresh = run[r].fresh \ {k} /\ run'[r].due = run[r].due \ gone
    <3>1. run'[r] = [run[r] EXCEPT !.due = @ \ gone, !.fresh = @ \ {k}]
      BY <1>4, <2>1 DEF Change
    <3>2. run[r] \in Running
      BY <2>1, Busy
    <3> QED
      BY <3>1, <3>2 DEF Running
  <2>2. expires' = [expires EXCEPT ![k] = term]
    BY <1>4 DEF Change
  <2>3. expires' \in [Credentials -> Nat] /\ \A c \in Credentials \ {k} : expires'[c] = expires[c]
    BY <2>2 DEF TypeOK
  <2> QED
    BY <1>4, <2>1, <2>3 DEF Change
<1>5. CASE \E term \in Terms : Issue(k, term)
  <2>1. PICK term \in Terms : Issue(k, term)
    BY <1>5
  <2>2. /\ UNCHANGED <<notified, wants, rowVars, digest, warned, fault>>
        /\ covered' = covered \ {k}
        /\ \/ UNCHANGED <<expires, run, announced, renewed, excused>>
           \/ Change(k, term, {}) /\ renewed' = renewed \cup {k}
    BY <2>1 DEF Issue
  <2>3. CASE UNCHANGED <<expires, run, announced, renewed, excused>>
    BY <2>2, <2>3 DEF TypeOK
  <2>4. CASE Change(k, term, {}) /\ renewed' = renewed \cup {k}
    <3>1. /\ expires' \in [Credentials -> Nat]
          /\ \A c \in Credentials \ {k} : expires'[c] = expires[c]
          /\ announced' = announced \ ({k} \X Staff)
          /\ excused' = excused \ ({k} \X Staff)
          /\ \A r \in Runs : run[r] # Idle =>
               run'[r].fresh = run[r].fresh \ {k} /\ run'[r].due = run[r].due \ {}
      BY <1>2, <1>4, <2>4
    <3>2. \A r \in Runs : run[r] # Idle => k \notin run'[r].fresh /\ run'[r].due = run[r].due
      BY <3>1
    <3> QED
      BY <2>2, <2>4, <3>1, <3>2 DEF TypeOK
  <2> QED
    BY <2>2, <2>3, <2>4
<1>6. CASE Revoke(k)
  <2>1. /\ UNCHANGED <<notified, wants, rowVars, digest, warned, fault>>
        /\ covered' = covered \ {k} /\ Change(k, 0, {}) /\ renewed' = renewed \cup {k}
    BY <1>6 DEF Revoke
  <2>2. /\ expires' \in [Credentials -> Nat]
        /\ \A c \in Credentials \ {k} : expires'[c] = expires[c]
        /\ announced' = announced \ ({k} \X Staff)
        /\ excused' = excused \ ({k} \X Staff)
        /\ \A r \in Runs : run[r] # Idle =>
             run'[r].fresh = run[r].fresh \ {k} /\ run'[r].due = run[r].due \ {}
    BY <1>4, <2>1
  <2>3. \A r \in Runs : run[r] # Idle => k \notin run'[r].fresh /\ run'[r].due = run[r].due
    BY <2>2
  <2> QED
    BY <2>1, <2>2, <2>3 DEF TypeOK
<1>7. CASE Remove(k)
  <2>1. /\ UNCHANGED <<wants, rowVars, digest, warned>>
        /\ covered' = covered \ {k} /\ Change(k, 0, {k}) /\ renewed' = renewed \ {k}
        /\ fault' = fault \cup {k} /\ notified' = [notified EXCEPT ![k] = Never]
    BY <1>7 DEF Remove
  <2>2. /\ notified' \in [Credentials -> 0..Never] /\ notified'[k] = Never
        /\ \A c \in Credentials \ {k} : notified'[c] = notified[c]
    BY <1>3, <2>1 DEF TypeOK
  <2> QED
    BY <1>4, <2>1, <2>2
<1> QED
  BY <1>1, <1>5, <1>6, <1>7

LEMMA CredentialType ==
  ASSUME TypeOK, CredentialNext
  PROVE  TypeOK'
<1>1. PICK k \in Credentials :
        /\ UNCHANGED <<wants, rowVars, digest, warned>>
        /\ covered' = covered \ {k}
        /\ fault' = fault \/ fault' = fault \cup {k}
        /\ expires' \in [Credentials -> Nat]
        /\ notified' \in [Credentials -> 0..Never]
        /\ \/ UNCHANGED <<announced, excused, renewed, run>>
           \/ /\ announced' = announced \ ({k} \X Staff)
              /\ excused' = excused \ ({k} \X Staff)
              /\ renewed' = renewed \cup {k} \/ renewed' = renewed \ {k}
  BY CredentialStep
<1>2. run' \in [Runs -> {Idle} \cup Running]
  BY CredentialRuns
<1>3. covered' \cup renewed' \cup fault' \subseteq Credentials
  BY <1>1 DEF TypeOK
<1>4. announced' \cup excused' \subseteq Credentials \X Staff
  BY <1>1 DEF TypeOK
<1> QED
  BY <1>1, <1>2, <1>3, <1>4 DEF TypeOK, rowVars, Used

LEMMA RunType ==
  ASSUME TypeOK, RunsHold, NEW r \in Runs, RunNext(r)
  PROVE  TypeOK'
<1>0. run' \in [Runs -> {Idle} \cup Running]
  BY RunTypeStep
<1>1. CASE Scan(r)
  <2>1. covered' \subseteq Credentials /\ fault' \subseteq Credentials
    BY <1>1 DEF Scan, Due, TypeOK
  <2> QED
    BY <1>0, <1>1, <2>1 DEF Scan, TypeOK, Used, credentialVars, rowVars
<1>2. ASSUME NEW s \in Staff, Create(r, s) PROVE TypeOK'
  <2>1. PICK n \in Rows \cup {NoRow} :
          /\ n # NoRow => n \notin Used
          /\ to' = IF n = NoRow THEN to ELSE [to EXCEPT ![s] = @ \cup {n}]
    BY <1>2, CreateStep
  <2>2. /\ to' \in [Staff -> SUBSET Rows]
        /\ \A u, w \in Staff : u # w => to'[u] \cap to'[w] = {}
        /\ Used \subseteq Used'
    BY <2>1, CreateRows
  <2> QED
    BY <1>0, <1>2, <2>2 DEF Create, TypeOK, credentialVars, warnVars
<1>3. ASSUME NEW s \in Staff, NotifyThrows(r, s) PROVE TypeOK'
  <2>1. UNCHANGED <<credentialVars, wants, rowVars, digest, warnVars>>
    BY <1>3 DEF NotifyThrows
  <2> QED
    BY <1>0, <2>1 DEF TypeOK, Used, credentialVars, rowVars, warnVars
<1>4. CASE Send(r)
  <2>1. PICK s \in run[r].staff :
          /\ warned' = [k \in Credentials |->
               IF k \in run[r].due THEN [warned[k] EXCEPT ![s] = 0] ELSE warned[k]]
          /\ announced' = announced \cup (run[r].fresh \X {s})
          /\ excused' = excused \ (run[r].fresh \X {s})
    BY <1>4 DEF Send, Tell
  <2>2. warned' \in [Credentials -> [Staff -> 0..Never]]
    <3>1. 0 \in 0..Never
      BY WindowAssumption DEF Never
    <3>2. \A k \in Credentials : [warned[k] EXCEPT ![s] = 0] \in [Staff -> 0..Never]
      BY <3>1 DEF TypeOK
    <3> QED
      BY <2>1, <3>2 DEF TypeOK
  <2>4. run[r] \in Running
    BY <1>4, AtBusy DEF Send
  <2>3. announced' \cup excused' \subseteq Credentials \X Staff
    BY <2>1, <2>4 DEF TypeOK, Running
  <2>5. mailed' \cup echoed' \subseteq Used
    BY <1>4, <2>4, AtBusy DEF Send, GoOut, TypeOK, RunsHold
  <2> QED
    BY <1>0, <1>4, <2>2, <2>3, <2>5 DEF Send, TypeOK, Used, credentialVars
<1>5. CASE DoNotSend(r)
  BY <1>0, <1>5 DEF DoNotSend, TypeOK, Used, credentialVars, rowVars, warnVars
<1>6. CASE MarkRow(r)
  <2>1. run[r].row \in Used
    BY <1>6, AtBusy DEF MarkRow, RunsHold
  <2> QED
    BY <1>0, <1>6, <2>1 DEF MarkRow, TypeOK, Used, credentialVars, warnVars
<1>7. CASE Stamp(r)
  <2>1. run[r] \in Running
    BY <1>7, AtBusy DEF Stamp
  <2>2. run[r].due \cup run[r].fresh \subseteq Credentials /\ run[r].threw \subseteq Staff
    BY <2>1 DEF Running
  <2>3. notified' \in [Credentials -> 0..Never]
    BY <1>7, WindowAssumption DEF Stamp, TypeOK, Never
  <2>4. covered' \cup renewed' \cup fault' \subseteq Credentials
    BY <1>7, <2>2 DEF Stamp, TypeOK
  <2>5. excused' \subseteq Credentials \X Staff
    BY <1>7, <2>2 DEF Stamp, TypeOK
  <2> QED
    BY <1>0, <1>7, <2>3, <2>4, <2>5 DEF Stamp, TypeOK, Used, rowVars
<1>8. CASE EndUnstamped(r)
  <2>1. run[r] \in Running
    BY <1>8, Busy DEF EndUnstamped
  <2>2. fault' \subseteq Credentials
    BY <1>8, <2>1 DEF EndUnstamped, TypeOK, Running
  <2>3. doubtful' \subseteq Used
    BY <1>8, <2>1 DEF EndUnstamped, TypeOK, RunsHold
  <2> QED
    <3>1. UNCHANGED <<credentialVars, wants, to, stamped, mailed, echoed, digest, warned,
                      announced, renewed, covered, excused>>
      BY <1>8 DEF EndUnstamped
    <3>2. Used' = Used
      BY <3>1 DEF Used
    <3> QED
      BY <1>0, <2>2, <2>3, <3>1, <3>2 DEF TypeOK, credentialVars
<1> QED
  BY <1>1, <1>2, <1>3, <1>4, <1>5, <1>6, <1>7, <1>8 DEF RunNext

LEMMA DigestType ==
  ASSUME TypeOK, RowsHold, NEW d \in Digests, DigestNext(d)
  PROVE  TypeOK'
<1>1. UNCHANGED <<credentialVars, wants, to, run, warnVars>>
  BY DEF DigestNext, DigestRead, DigestSend, DigestMark, DigestFails
<1>2. Used' = Used
  BY <1>1 DEF Used
<1>3. Reading(d) => digest[d].rows \subseteq Used
  BY DEF RowsHold, DigestHolds
<1>4. ASSUME NEW s \in Staff, DigestRead(d, s) PROVE TypeOK'
  <2>1. [phase |-> "read", staff |-> s, rows |-> Unsent(s)] \in Digesting
    BY UnsentInUse DEF Digesting
  <2>2. digest' \in [Digests -> {Idle} \cup Digesting]
    BY <1>4, <2>1 DEF DigestRead, TypeOK
  <2>3. doubtful' \subseteq Used
    BY <1>4, UnsentInUse DEF DigestRead, TypeOK
  <2> QED
    BY <1>1, <1>2, <1>4, <2>2, <2>3 DEF DigestRead, TypeOK, credentialVars, warnVars
<1>5. CASE DigestSend(d)
  <2>1. Reading(d) /\ digest[d] \in Digesting
    BY <1>5, DigestBusy DEF DigestSend
  <2>2. [digest[d] EXCEPT !.phase = "mailed"] \in Digesting
    BY <2>1 DEF Digesting
  <2>3. digest' \in [Digests -> {Idle} \cup Digesting]
    BY <1>5, <2>2 DEF DigestSend, TypeOK
  <2> QED
    BY <1>1, <1>2, <1>3, <1>5, <2>1, <2>3
    DEF DigestSend, GoOut, TypeOK, credentialVars, warnVars
<1>6. CASE DigestMark(d)
  <2>1. Reading(d)
    BY <1>6, DigestBusy DEF DigestMark
  <2>2. digest' \in [Digests -> {Idle} \cup Digesting]
    BY <1>6 DEF DigestMark, TypeOK
  <2> QED
    BY <1>1, <1>2, <1>3, <1>6, <2>1, <2>2 DEF DigestMark, TypeOK, credentialVars, warnVars
<1>7. CASE DigestFails(d)
  <2>1. digest' \in [Digests -> {Idle} \cup Digesting]
    BY <1>7 DEF DigestFails, TypeOK
  <2> QED
    BY <1>1, <1>2, <1>3, <1>7, <2>1 DEF DigestFails, TypeOK, credentialVars, warnVars
<1> QED
  BY <1>4, <1>5, <1>6, <1>7 DEF DigestNext

LEMMA TickType ==
  ASSUME TypeOK, Tick
  PROVE  TypeOK'
<1>1. expires' \in [Credentials -> Nat]
  <2>1. \A k \in Credentials : (IF expires[k] = 0 THEN 0 ELSE expires[k] - 1) \in Nat
    BY DEF TypeOK
  <2> QED
    BY <2>1 DEF Tick
<1>2. notified' \in [Credentials -> 0..Never]
  BY OlderType DEF Tick, TypeOK
<1>3. warned' \in [Credentials -> [Staff -> 0..Never]]
  BY OlderType DEF Tick, TypeOK
<1> QED
  BY <1>1, <1>2, <1>3 DEF Tick, TypeOK, rowVars, Used

---------------------------------------------------------------------------
(* Rows: what is mailed and not stamped is in somebody's hands or doubtful. *)

\* h is a run that holds what runs hold, beside the runs other than r.
HoldsBeside(r, h) ==
  /\ h.phase = "next" => h.row = NoRow /\ h.staff = {}
  /\ \A s, u \in h.staff : s = u
  /\ h.staff \cap h.left = {}
  /\ h.row # NoRow => h.row \in Used'
  /\ h.phase = "sent" => h.row # NoRow /\ h.row \in mailed'
  /\ \A q \in Runs \ {r} : run[q] # Idle /\ h.row # NoRow => run[q].row # h.row

LEMMA StepHolds ==
  ASSUME TypeOK, RunsHold, NEW r \in Runs, NEW h \in Running \cup {Idle}, StepTo(r, h),
         h # Idle => HoldsBeside(r, h), Used \subseteq Used', mailed \subseteq mailed'
  PROVE  RunsHold'
<1>1. \A q \in Runs : run'[q] = IF q = r THEN h ELSE run[q]
  BY DEF StepTo, TypeOK
<1>2. SUFFICES ASSUME NEW q \in Runs, run'[q] # Idle
               PROVE  /\ At(q, "next")' => run'[q].row = NoRow /\ run'[q].staff = {}
                      /\ \A s, u \in run'[q].staff : s = u
                      /\ run'[q].staff \cap run'[q].left = {}
                      /\ run'[q].row # NoRow => run'[q].row \in Used'
                      /\ At(q, "sent")' => run'[q].row # NoRow /\ run'[q].row \in mailed'
                      /\ \A p \in Runs \ {q} :
                           run'[p] # Idle /\ run'[q].row # NoRow => run'[p].row # run'[q].row
  BY DEF RunsHold
<1>3. CASE q = r
  BY <1>1, <1>2, <1>3 DEF HoldsBeside, At
<1>4. CASE q # r
  <2>1. run'[q] = run[q] /\ run[q] # Idle
    BY <1>1, <1>2, <1>4
  <2>2. \A p \in Runs \ {q} :
          run'[p] # Idle /\ run[q].row # NoRow => run'[p].row # run[q].row
    <3> SUFFICES ASSUME NEW p \in Runs \ {q}, run'[p] # Idle, run[q].row # NoRow
                 PROVE  run'[p].row # run[q].row
      OBVIOUS
    <3>1. CASE p = r
      BY <1>1, <1>4, <2>1, <3>1 DEF HoldsBeside
    <3>2. CASE p # r
      BY <1>1, <2>1, <3>2 DEF RunsHold
    <3> QED
      BY <3>1, <3>2
  <2>3. /\ At(q, "next") => run[q].row = NoRow /\ run[q].staff = {}
        /\ \A s, u \in run[q].staff : s = u
        /\ run[q].staff \cap run[q].left = {}
        /\ run[q].row # NoRow => run[q].row \in Used
        /\ At(q, "sent") => run[q].row # NoRow /\ run[q].row \in mailed
    BY <2>1 DEF RunsHold
  <2> QED
    BY <2>1, <2>2, <2>3 DEF At
<1> QED
  BY <1>3, <1>4

LEMMA RunsHoldStep ==
  ASSUME TypeOK, RunsHold, NEW r \in Runs, RunNext(r)
  PROVE  RunsHold'
<1>1. CASE Scan(r)
  <2>1. Used' = Used /\ mailed' = mailed
    BY <1>1 DEF Scan, rowVars, Used
  <2>2. CASE UNCHANGED run
    BY <2>1, <2>2 DEF RunsHold, At
  <2>3. ASSUME NEW later \in BOOLEAN, StepTo(r, Fresh(later)) PROVE RunsHold'
    <3>1. HoldsBeside(r, Fresh(later))
      BY DEF HoldsBeside, Fresh
    <3> QED
      BY <2>1, <2>3, <3>1, FreshType, StepHolds
  <2> QED
    BY <1>1, <2>2, <2>3, ScanStep
<1>2. ASSUME NEW s \in Staff, Create(r, s) PROVE RunsHold'
  <2>1. PICK n \in Rows \cup {NoRow} :
          /\ n # NoRow => n \notin Used
          /\ to' = IF n = NoRow THEN to ELSE [to EXCEPT ![s] = @ \cup {n}]
          /\ StepTo(r, [run[r] EXCEPT !.phase = "made", !.left = @ \ {s}, !.staff = {s}, !.row = n])
          /\ [run[r] EXCEPT !.phase = "made", !.left = @ \ {s}, !.staff = {s}, !.row = n]
               \in Running
    BY <1>2, CreateStep
  <2> DEFINE h == [run[r] EXCEPT !.phase = "made", !.left = @ \ {s}, !.staff = {s}, !.row = n]
  <2>2. Used \subseteq Used' /\ (n # NoRow => n \in Used')
    BY <2>1, CreateRows
  <2>3. mailed' = mailed
    BY <1>2 DEF Create
  <2>4. run[r] \in Running
    BY <1>2, AtBusy DEF Create
  <2>5. h.phase = "made" /\ h.staff = {s} /\ h.row = n /\ h.left = run[r].left \ {s}
    BY <2>4 DEF Running
  <2>6. HoldsBeside(r, h)
    BY <2>1, <2>2, <2>5 DEF HoldsBeside, RunsHold
  <2> QED
    BY <2>1, <2>2, <2>3, <2>6, StepHolds
<1>3. ASSUME NEW s \in Staff, NotifyThrows(r, s) PROVE RunsHold'
  <2> DEFINE h == [run[r] EXCEPT !.left = @ \ {s}, !.threw = @ \cup {s}]
  <2>1. Used' = Used /\ mailed' = mailed
    BY <1>3 DEF NotifyThrows, rowVars, Used
  <2>2. run[r] \in Running /\ run[r].row = NoRow /\ run[r].staff = {} /\ run[r].phase = "next"
    BY <1>3, AtBusy DEF NotifyThrows, RunsHold, At
  <2>3. h.phase = "next" /\ h.staff = {} /\ h.row = NoRow
    BY <2>2 DEF Running
  <2>4. HoldsBeside(r, h)
    BY <2>3 DEF HoldsBeside
  <2> QED
    BY <1>3, <2>1, <2>4, ThrowStep, StepHolds
<1>4. CASE Send(r)
  <2> DEFINE g == [run[r] EXCEPT !.phase = "next", !.staff = {}]
             h == [run[r] EXCEPT !.phase = "sent"]
  <2>1. Used' = Used
    BY <1>4 DEF Send, Used
  <2>2. run[r] \in Running /\ run[r] # Idle
    BY <1>4, AtBusy DEF Send
  <2>3. CASE run[r].row = NoRow
    <3>1. g.phase = "next" /\ g.staff = {} /\ g.row = NoRow
      BY <2>2, <2>3 DEF Running
    <3>2. mailed' = mailed
      BY <1>4, <2>3 DEF Send
    <3>3. HoldsBeside(r, g)
      BY <3>1 DEF HoldsBeside
    <3> QED
      BY <1>4, <2>1, <2>3, <3>2, <3>3, SendStep, StepHolds
  <2>4. CASE run[r].row # NoRow
    <3>1. h.phase = "sent" /\ h.staff = run[r].staff /\ h.row = run[r].row /\ h.left = run[r].left
      BY <2>2 DEF Running
    <3>2. mailed' = mailed \cup {run[r].row}
      BY <1>4, <2>4 DEF Send, GoOut
    <3>3. HoldsBeside(r, h)
      BY <2>1, <2>2, <2>4, <3>1, <3>2 DEF HoldsBeside, RunsHold
    <3> QED
      BY <1>4, <2>1, <2>4, <3>2, <3>3, SendStep, StepHolds
  <2> QED
    BY <2>3, <2>4
<1>5. CASE DoNotSend(r) \/ MarkRow(r)
  <2>1. PICK failed : /\ StepTo(r, After(r, "next", failed))
                      /\ After(r, "next", failed) \in Running
    BY <1>5, DoNotSendStep, MarkRowStep
  <2>2. Used' = Used /\ mailed' = mailed
    BY <1>5 DEF DoNotSend, MarkRow, rowVars, Used
  <2>3. run[r] \in Running
    BY <1>5, AtBusy DEF DoNotSend, MarkRow
  <2>4. HoldsBeside(r, After(r, "next", failed))
    BY <2>3 DEF HoldsBeside, After, Running
  <2> QED
    BY <2>1, <2>2, <2>4, StepHolds
<1>6. CASE Stamp(r) \/ EndUnstamped(r)
  <2>1. StepTo(r, Idle) /\ Used' = Used /\ mailed' = mailed
    BY <1>6 DEF Stamp, EndUnstamped, StepTo, rowVars, Used
  <2> QED
    BY <2>1, StepHolds
<1> QED
  BY <1>1, <1>2, <1>3, <1>4, <1>5, <1>6 DEF RunNext

LEMMA RunsHoldElsewhere ==
  ASSUME TypeOK, RunsHold, UNCHANGED <<to, run>>, mailed \subseteq mailed'
  PROVE  RunsHold'
<1>1. Used' = Used
  BY DEF Used
<1> QED
  BY <1>1 DEF RunsHold, At

LEMMA RunsHoldCredential ==
  ASSUME TypeOK, RunsHold, CredentialNext
  PROVE  RunsHold'
<1>1. \A r \in Runs : run'[r] # Idle =>
        /\ run[r] # Idle /\ run'[r].phase = run[r].phase /\ run'[r].row = run[r].row
        /\ run'[r].staff = run[r].staff /\ run'[r].left = run[r].left
  BY CredentialRuns
<1>2. UNCHANGED <<to, mailed>>
  BY CredentialStep DEF rowVars
<1>3. Used' = Used
  BY <1>2 DEF Used
<1> SUFFICES ASSUME NEW r \in Runs, run'[r] # Idle
             PROVE  /\ At(r, "next")' => run'[r].row = NoRow /\ run'[r].staff = {}
                    /\ \A s, u \in run'[r].staff : s = u
                    /\ run'[r].staff \cap run'[r].left = {}
                    /\ run'[r].row # NoRow => run'[r].row \in Used'
                    /\ At(r, "sent")' => run'[r].row # NoRow /\ run'[r].row \in mailed'
                    /\ \A q \in Runs \ {r} :
                         run'[q] # Idle /\ run'[r].row # NoRow => run'[q].row # run'[r].row
  BY DEF RunsHold
<1>4. /\ At(r, "next") => run[r].row = NoRow /\ run[r].staff = {}
      /\ \A s, u \in run[r].staff : s = u
      /\ run[r].staff \cap run[r].left = {}
      /\ run[r].row # NoRow => run[r].row \in Used
      /\ At(r, "sent") => run[r].row # NoRow /\ run[r].row \in mailed
      /\ \A q \in Runs \ {r} : run[q] # Idle /\ run[r].row # NoRow => run[q].row # run[r].row
  BY <1>1 DEF RunsHold
<1> QED
  BY <1>1, <1>2, <1>3, <1>4 DEF At

LEMMA InFlightIs ==
  ASSUME NEW x
  PROVE  x \in InFlight <=> x # NoRow /\ \E r \in Runs : run[r] # Idle /\ run[r].row = x
BY DEF InFlight, Active

\* What run r may do to the rows on its way to h.
RowsBeside(r, h) ==
  /\ digest' = digest /\ Used \subseteq Used' /\ doubtful \subseteq doubtful'
  /\ mailed \subseteq mailed' /\ stamped \subseteq stamped'
  /\ stamped' \subseteq mailed' /\ echoed' \subseteq doubtful'
  /\ h.phase = "made" /\ h.row # NoRow =>
       /\ h.row \in mailed' => h.row \in doubtful'
       /\ h.row \in InDigests => h.row \in doubtful'
  /\ \A x \in mailed' \ mailed :
       /\ h # Idle /\ h.row = x /\ x # NoRow
       /\ x \in InDigests => x \in doubtful'
       /\ \A q \in Runs \ {r} : run[q] # Idle => run[q].row # x
  /\ run[r] # Idle /\ run[r].row # NoRow /\ run[r].row \in mailed' \ stamped' =>
       run[r].row \in doubtful' \/ (h # Idle /\ h.row = run[r].row)

LEMMA StepRows ==
  ASSUME TypeOK, RunsHold, RowsHold, NEW r \in Runs, NEW h \in Running \cup {Idle},
         StepTo(r, h), RowsBeside(r, h)
  PROVE  RowsHold'
<1> USE DEF RowsBeside
<1>0. InDigests' = InDigests /\ Emailed' = Emailed
  BY DEF InDigests, Emailed, Reading
<1>1. \A q \in Runs : run'[q] = IF q = r THEN h ELSE run[q]
  BY DEF StepTo, TypeOK
<1>2. ASSUME NEW q \in Runs, Making(q)', run'[q].row \in mailed' \cup InDigests'
      PROVE  run'[q].row \in doubtful'
  <2>1. CASE q = r
    BY <1>0, <1>1, <1>2, <2>1 DEF Making, At
  <2>2. CASE q # r
    <3>1. run'[q] = run[q] /\ Making(q)
      BY <1>1, <1>2, <2>2 DEF Making, At
    <3>2. run[q] # Idle
      BY <3>1, AtBusy DEF Making
    <3>3. run[q].row \in mailed' => run[q].row \in mailed
      BY <2>2, <3>2
    <3> QED
      BY <1>0, <1>2, <3>1, <3>3 DEF RowsHold
  <2> QED
    BY <2>1, <2>2
<1>3. ASSUME NEW d \in Digests, Reading(d)' PROVE DigestHolds(d)'
  <2>1. Reading(d) /\ DigestHolds(d)
    BY <1>3 DEF Reading, RowsHold
  <2>2. \A x \in digest[d].rows : x \in InDigests
    BY <2>1, InDigestsIs
  <2>3. digest[d].phase = "read" => digest[d].rows \cap mailed' \subseteq doubtful'
    BY <2>1, <2>2 DEF DigestHolds
  <2> QED
    BY <2>1, <2>3 DEF DigestHolds, Reading
<1>4. mailed' \ stamped' \subseteq doubtful' \cup InFlight' \cup Emailed'
  <2> SUFFICES ASSUME NEW x \in mailed' \ stamped', x \notin doubtful', x \notin Emailed
               PROVE  x \in InFlight'
    BY <1>0
  <2>1. CASE x \notin mailed
    BY <1>1, <2>1 DEF InFlight, Active
  <2>2. CASE x \in mailed
    <3>1. x \in InFlight
      BY <2>2 DEF RowsHold
    <3>2. PICK q \in Runs : run[q] # Idle /\ run[q].row = x /\ x # NoRow
      BY <3>1, InFlightIs
    <3>3. CASE q = r
      <4>1. h # Idle /\ h.row = x
        BY <3>2, <3>3
      <4> QED
        BY <1>1, <3>2, <4>1 DEF InFlight, Active
    <3>4. CASE q # r
      BY <1>1, <3>2, <3>4 DEF InFlight, Active
    <3> QED
      BY <3>3, <3>4
  <2> QED
    BY <2>1, <2>2
<1> QED
  BY <1>2, <1>3, <1>4 DEF RowsHold

LEMMA RowsHoldStep ==
  ASSUME TypeOK, RunsHold, RowsHold, NEW r \in Runs, RunNext(r)
  PROVE  RowsHold'
<1>1. CASE Scan(r)
  <2>1. UNCHANGED <<rowVars, digest, Used>>
    BY <1>1 DEF Scan, rowVars, Used
  <2>2. CASE UNCHANGED run
    BY <2>1, <2>2 DEF RowsHold, DigestHolds, Reading, Making, Emailed, InDigests, InFlight,
       Active, At, rowVars
  <2>3. ASSUME NEW later \in BOOLEAN, StepTo(r, Fresh(later)) PROVE RowsHold'
    <3>1. RowsBeside(r, Fresh(later))
      BY <1>1, <2>1 DEF RowsBeside, Fresh, RowsHold, rowVars, Scan
    <3> QED
      BY <2>3, <3>1, FreshType, StepRows
  <2> QED
    BY <1>1, <2>2, <2>3, ScanStep
<1>2. ASSUME NEW s \in Staff, Create(r, s) PROVE RowsHold'
  <2>1. PICK n \in Rows \cup {NoRow} :
          /\ n # NoRow => n \notin Used
          /\ to' = IF n = NoRow THEN to ELSE [to EXCEPT ![s] = @ \cup {n}]
          /\ StepTo(r, [run[r] EXCEPT !.phase = "made", !.left = @ \ {s}, !.staff = {s}, !.row = n])
          /\ [run[r] EXCEPT !.phase = "made", !.left = @ \ {s}, !.staff = {s}, !.row = n]
               \in Running
    BY <1>2, CreateStep
  <2> DEFINE h == [run[r] EXCEPT !.phase = "made", !.left = @ \ {s}, !.staff = {s}, !.row = n]
  <2>2. Used \subseteq Used'
    BY <2>1, CreateRows
  <2>3. UNCHANGED <<stamped, mailed, echoed, doubtful, digest>>
    BY <1>2 DEF Create
  <2>4. run[r] \in Running /\ run[r].row = NoRow
    BY <1>2, AtBusy DEF Create, RunsHold
  <2>5. h.row = n
    BY <2>4 DEF Running
  <2>6. n # NoRow => n \notin mailed /\ n \notin InDigests
    BY <2>1, InDigestsIs DEF TypeOK, RowsHold, DigestHolds
  <2>7. stamped \subseteq mailed /\ echoed \subseteq doubtful
    BY DEF RowsHold
  <2>8. RowsBeside(r, h)
    BY <2>2, <2>3, <2>4, <2>5, <2>6, <2>7 DEF RowsBeside
  <2> QED
    BY <2>1, <2>8, StepRows
<1>3. ASSUME NEW s \in Staff, NotifyThrows(r, s) PROVE RowsHold'
  <2> DEFINE h == [run[r] EXCEPT !.left = @ \ {s}, !.threw = @ \cup {s}]
  <2>1. UNCHANGED <<rowVars, digest, Used>>
    BY <1>3 DEF NotifyThrows, rowVars, Used
  <2>2. run[r] \in Running /\ run[r].row = NoRow
    BY <1>3, AtBusy DEF NotifyThrows, RunsHold
  <2>3. h.row = NoRow
    BY <2>2 DEF Running
  <2>4. RowsBeside(r, h)
    BY <2>1, <2>2, <2>3 DEF RowsBeside, RowsHold, rowVars
  <2> QED
    BY <1>3, <2>4, ThrowStep, StepRows
<1>4. CASE Send(r)
  <2> DEFINE g == [run[r] EXCEPT !.phase = "next", !.staff = {}]
             h == [run[r] EXCEPT !.phase = "sent"]
  <2>1. UNCHANGED <<to, stamped, doubtful, digest, Used>>
    BY <1>4 DEF Send, Used
  <2>2. run[r] \in Running /\ run[r] # Idle /\ run[r].phase = "made"
    BY <1>4, AtBusy DEF Send, At
  <2>3. stamped \subseteq mailed /\ echoed \subseteq doubtful
    BY DEF RowsHold
  <2>4. CASE run[r].row = NoRow
    <3>1. g.row = NoRow
      BY <2>2, <2>4 DEF Running
    <3>2. mailed' = mailed /\ echoed' = echoed
      BY <1>4, <2>4 DEF Send
    <3>3. RowsBeside(r, g)
      BY <2>1, <2>3, <2>4, <3>1, <3>2 DEF RowsBeside
    <3> QED
      BY <1>4, <2>4, <3>3, SendStep, StepRows
  <2>5. CASE run[r].row # NoRow
    <3>1. h.phase = "sent" /\ h.row = run[r].row
      BY <2>2 DEF Running
    <3>2. mailed' = mailed \cup {run[r].row} /\ echoed' = echoed \cup ({run[r].row} \cap mailed)
      BY <1>4, <2>5 DEF Send, GoOut
    <3>3. /\ run[r].row \in mailed => run[r].row \in doubtful
          /\ run[r].row \in InDigests => run[r].row \in doubtful
      BY <2>2, <2>5 DEF RowsHold, Making, At
    <3>4. \A q \in Runs \ {r} : run[q] # Idle => run[q].row # run[r].row
      BY <2>2, <2>5 DEF RunsHold
    <3>5. echoed' \subseteq doubtful
      BY <2>3, <3>2, <3>3
    <3>6. h # Idle
      BY <1>4, <3>1, SendStep DEF Running, Idle
    <3>7. \A x \in mailed' \ mailed : x = run[r].row
      BY <3>2
    <3>8. stamped' \subseteq mailed' /\ mailed \subseteq mailed'
      BY <2>1, <2>3, <3>2
    <3>9. RowsBeside(r, h)
      BY <2>1, <2>5, <3>1, <3>3, <3>4, <3>5, <3>6, <3>7, <3>8 DEF RowsBeside
    <3> QED
      BY <1>4, <2>5, <3>9, SendStep, StepRows
  <2> QED
    BY <2>4, <2>5
<1>5. CASE DoNotSend(r)
  <2>1. PICK failed : /\ StepTo(r, After(r, "next", failed))
                      /\ After(r, "next", failed) \in Running
    BY <1>5, DoNotSendStep
  <2>2. UNCHANGED <<rowVars, digest, Used>>
    BY <1>5 DEF DoNotSend, rowVars, Used
  <2>3. run[r] \in Running /\ run[r].phase = "made"
    BY <1>5, AtBusy DEF DoNotSend, At
  <2>4. run[r].row # NoRow /\ run[r].row \in mailed => run[r].row \in doubtful
    BY <2>3 DEF RowsHold, Making, At
  <2>5. After(r, "next", failed).row = NoRow
    BY <2>3 DEF After, Running
  <2>6. RowsBeside(r, After(r, "next", failed))
    BY <2>2, <2>4, <2>5 DEF RowsBeside, RowsHold, rowVars
  <2> QED
    BY <2>1, <2>6, StepRows
<1>6. CASE MarkRow(r)
  <2> DEFINE h == After(r, "next", run[r].failed)
  <2>1. UNCHANGED <<mailed, echoed, digest, Used>>
    BY <1>6 DEF MarkRow, Used
  <2>2. run[r] \in Running /\ run[r].row \in mailed
    BY <1>6, AtBusy DEF MarkRow, RunsHold
  <2>3. h.row = NoRow
    BY <2>2 DEF After, Running
  <2>4. \/ stamped' = stamped \cup {run[r].row} /\ UNCHANGED doubtful
        \/ doubtful' = doubtful \cup {run[r].row} /\ UNCHANGED stamped
    BY <1>6 DEF MarkRow
  <2>5. RowsBeside(r, h)
    BY <2>1, <2>2, <2>3, <2>4 DEF RowsBeside, RowsHold
  <2> QED
    BY <1>6, <2>5, MarkRowStep, StepRows
<1>7. CASE Stamp(r)
  <2>1. StepTo(r, Idle) /\ UNCHANGED <<rowVars, digest, Used>>
    BY <1>7 DEF Stamp, StepTo, rowVars, Used
  <2>2. run[r].row = NoRow
    BY <1>7, AtBusy DEF Stamp, RunsHold
  <2>3. RowsBeside(r, Idle)
    BY <2>1, <2>2 DEF RowsBeside, RowsHold, rowVars, Idle
  <2> QED
    BY <2>1, <2>3, StepRows
<1>8. CASE EndUnstamped(r)
  <2>1. StepTo(r, Idle) /\ UNCHANGED <<stamped, mailed, echoed, digest, Used>>
    BY <1>8 DEF EndUnstamped, StepTo, Used
  <2>2. run[r] \in Running /\ run[r] # Idle
    BY <1>8, Busy DEF EndUnstamped
  <2>3. doubtful' = doubtful \cup (IF At(r, "sent") THEN {run[r].row} ELSE {})
    BY <1>8 DEF EndUnstamped
  <2>4. run[r].row # NoRow /\ run[r].row \in mailed => run[r].row \in doubtful'
    <3>1. run[r].phase \in {"next", "made", "sent"}
      BY <2>2 DEF Running
    <3> QED
      BY <2>2, <2>3, <3>1 DEF RunsHold, RowsHold, Making, At
  <2>5. RowsBeside(r, Idle)
    BY <2>1, <2>2, <2>3, <2>4 DEF RowsBeside, RowsHold, Idle
  <2> QED
    BY <2>1, <2>5, StepRows
<1> QED
  BY <1>1, <1>2, <1>3, <1>4, <1>5, <1>6, <1>7, <1>8 DEF RunNext

LEMMA RowsHoldDigest ==
  ASSUME TypeOK, RunsHold, RowsHold, NEW d \in Digests, DigestNext(d)
  PROVE  RowsHold'
<1>1. UNCHANGED <<to, run, Used, InFlight>>
  BY DEF DigestNext, DigestRead, DigestSend, DigestMark, DigestFails, Used, InFlight, Active
<1>2. \A r \in Runs : Making(r)' = Making(r)
  BY <1>1 DEF Making, At
<1>3. \A r \in Runs : Making(r) => run[r].row \in InFlight
  BY AtBusy, InFlightIs DEF Making
<1>4. \A e \in Digests \ {d} : digest'[e] = digest[e]
  BY DEF DigestNext, DigestRead, DigestSend, DigestMark, DigestFails, TypeOK
<1>5. stamped \subseteq mailed /\ echoed \subseteq doubtful
  BY DEF RowsHold
<1>6. ASSUME NEW s \in Staff, DigestRead(d, s) PROVE RowsHold'
  <2>1. /\ digest'[d] = [phase |-> "read", staff |-> s, rows |-> Unsent(s)]
        /\ doubtful' = doubtful \cup (Unsent(s) \cap (InFlight \cup InDigests))
        /\ ~Reading(d) /\ UNCHANGED <<stamped, mailed, echoed>>
    BY <1>6 DEF DigestRead, TypeOK
  <2>2. digest'[d].rows = Unsent(s) /\ digest'[d].phase = "read" /\ Reading(d)'
    BY <2>1 DEF Reading, Idle
  <2>3. Unsent(s) \subseteq Used /\ Unsent(s) \cap stamped = {}
    BY UnsentInUse DEF Unsent
  <2>4. \A x : x \in InDigests' <=> x \in InDigests \/ x \in Unsent(s)
    BY <1>4, <2>1, <2>2 DEF InDigests, Reading
  <2>5. Emailed' = Emailed
    <3>1. digest[d].phase # "mailed"
      BY <2>1, DigestBusy
    <3> QED
      BY <1>4, <2>2, <3>1 DEF Emailed
  <2>6. Emailed \subseteq InDigests
    BY EmailedIs, InDigestsIs, DigestBusy
  <2>7. mailed \ stamped \subseteq doubtful \cup InFlight \cup Emailed
    BY DEF RowsHold
  <2>8. Unsent(s) \cap mailed \subseteq doubtful'
    BY <2>1, <2>3, <2>6, <2>7
  <2>9. ASSUME NEW e \in Digests, Reading(e)' PROVE DigestHolds(e)'
    <3>1. CASE e = d
      <4>1. \A c \in Digests \ {d} : Reading(c)' => Unsent(s) \cap digest'[c].rows \subseteq doubtful'
        BY <1>4, <2>1, InDigestsIs DEF Reading
      <4> QED
        BY <1>1, <2>1, <2>2, <2>3, <2>8, <3>1, <4>1 DEF DigestHolds
    <3>2. CASE e # d
      <4>1. digest'[e] = digest[e] /\ Reading(e) /\ DigestHolds(e)
        BY <1>4, <2>9, <3>2 DEF Reading, RowsHold
      <4>2. digest[e].rows \cap Unsent(s) \subseteq doubtful'
        BY <2>1, <4>1, InDigestsIs
      <4>3. \A c \in Digests \ {e} : Reading(c)' => digest[e].rows \cap digest'[c].rows \subseteq doubtful'
        BY <1>4, <2>1, <2>2, <4>1, <4>2 DEF DigestHolds, Reading
      <4> QED
        BY <1>1, <2>1, <4>1, <4>3 DEF DigestHolds
    <3> QED
      BY <3>1, <3>2
  <2>10. ASSUME NEW r \in Runs, Making(r)', run'[r].row \in mailed' \cup InDigests'
         PROVE  run'[r].row \in doubtful'
    BY <1>1, <1>2, <1>3, <2>1, <2>4, <2>10 DEF RowsHold
  <2>11. mailed' \ stamped' \subseteq doubtful' \cup InFlight' \cup Emailed'
    BY <1>1, <2>1, <2>5, <2>7
  <2> QED
    BY <1>5, <2>1, <2>9, <2>10, <2>11 DEF RowsHold
<1>7. CASE DigestSend(d)
  <2>1. Reading(d) /\ digest[d].phase = "read" /\ digest[d] \in Digesting
    BY <1>7, DigestBusy DEF DigestSend
  <2>2. /\ mailed' = mailed \cup digest[d].rows
        /\ echoed' = echoed \cup (digest[d].rows \cap mailed)
        /\ digest'[d] = [digest[d] EXCEPT !.phase = "mailed"]
        /\ UNCHANGED <<stamped, doubtful>>
    BY <1>7 DEF DigestSend, GoOut, TypeOK
  <2>3. digest'[d].phase = "mailed" /\ digest'[d].rows = digest[d].rows /\ Reading(d)'
    BY <2>1, <2>2 DEF Digesting, Reading, Idle
  <2>4. DigestHolds(d)
    BY <2>1 DEF RowsHold
  <2>5. \A e \in Digests : (Reading(e)' <=> Reading(e)) /\ digest'[e].rows = digest[e].rows
    BY <1>4, <2>1, <2>3 DEF Reading
  <2>6. \A x : x \in InDigests' <=> x \in InDigests
    BY <2>5 DEF InDigests
  <2>7. \A x \in digest[d].rows : x \in InDigests
    BY <2>1, InDigestsIs
  <2>8. \A x : x \in Emailed' <=> x \in Emailed \/ x \in digest[d].rows
    BY <1>4, <2>1, <2>3 DEF Emailed
  <2>9. ASSUME NEW e \in Digests, Reading(e)' PROVE DigestHolds(e)'
    <3>1. Reading(e) /\ DigestHolds(e)
      BY <2>5, <2>9 DEF RowsHold
    <3>2. \A c \in Digests \ {e} : Reading(c)' => digest'[e].rows \cap digest'[c].rows \subseteq doubtful'
      BY <2>2, <2>5, <3>1 DEF DigestHolds
    <3>3. CASE e = d
      BY <1>1, <2>2, <2>3, <3>1, <3>2, <3>3 DEF DigestHolds
    <3>4. CASE e # d
      <4>1. digest'[e] = digest[e] /\ digest[e].rows \cap digest[d].rows \subseteq doubtful
        BY <1>4, <2>1, <3>1, <3>4 DEF DigestHolds
      <4> QED
        BY <1>1, <2>2, <3>1, <3>2, <4>1 DEF DigestHolds
    <3> QED
      BY <3>3, <3>4
  <2>10. ASSUME NEW r \in Runs, Making(r)', run'[r].row \in mailed' \cup InDigests'
         PROVE  run'[r].row \in doubtful'
    BY <1>1, <1>2, <2>2, <2>6, <2>7, <2>10 DEF RowsHold
  <2>11. mailed' \ stamped' \subseteq doubtful' \cup InFlight' \cup Emailed'
    <3>1. mailed \ stamped \subseteq doubtful \cup InFlight \cup Emailed
      BY DEF RowsHold
    <3> QED
      BY <1>1, <2>2, <2>8, <3>1
  <2>12. stamped' \subseteq mailed' /\ echoed' \subseteq doubtful'
    BY <1>5, <2>1, <2>2, <2>4 DEF DigestHolds
  <2> QED
    BY <2>9, <2>10, <2>11, <2>12 DEF RowsHold
<1>8. CASE DigestMark(d) \/ DigestFails(d)
  <2>1. /\ Reading(d) /\ digest'[d] = Idle /\ UNCHANGED <<mailed, echoed>>
        /\ doubtful \subseteq doubtful' /\ stamped \subseteq stamped'
        /\ \A x : x \in stamped' => x \in stamped \/ (digest[d].phase = "mailed" /\ x \in digest[d].rows)
        /\ digest[d].phase = "mailed" => digest[d].rows \subseteq doubtful' \cup stamped'
    BY <1>8, DigestBusy DEF DigestMark, DigestFails, TypeOK
  <2>2. ~Reading(d)' /\ digest'[d].phase # "mailed"
    BY <2>1 DEF Reading, Idle
  <2>3. DigestHolds(d)
    BY <2>1 DEF RowsHold
  <2>4. \A x : x \in InDigests' => x \in InDigests
    BY <1>4, <2>2 DEF InDigests, Reading
  <2>5. \A x : x \in Emailed => x \in Emailed' \/ (digest[d].phase = "mailed" /\ x \in digest[d].rows)
    BY <1>4 DEF Emailed
  <2>6. ASSUME NEW e \in Digests, Reading(e)' PROVE DigestHolds(e)'
    <3>1. e # d /\ digest'[e] = digest[e] /\ Reading(e) /\ DigestHolds(e)
      BY <1>4, <2>2, <2>6 DEF Reading, RowsHold
    <3>2. \A c \in Digests \ {e} : Reading(c)' => digest[e].rows \cap digest'[c].rows \subseteq doubtful'
      BY <1>4, <2>1, <2>2, <3>1 DEF DigestHolds, Reading
    <3> QED
      BY <1>1, <2>1, <3>1, <3>2 DEF DigestHolds
  <2>7. ASSUME NEW r \in Runs, Making(r)', run'[r].row \in mailed' \cup InDigests'
        PROVE  run'[r].row \in doubtful'
    BY <1>1, <1>2, <2>1, <2>4, <2>7 DEF RowsHold
  <2>8. mailed' \ stamped' \subseteq doubtful' \cup InFlight' \cup Emailed'
    <3>1. mailed \ stamped \subseteq doubtful \cup InFlight \cup Emailed
      BY DEF RowsHold
    <3> QED
      BY <1>1, <2>1, <2>5, <3>1
  <2>9. stamped' \subseteq mailed' /\ echoed' \subseteq doubtful'
    BY <1>5, <2>1, <2>3 DEF DigestHolds
  <2> QED
    BY <2>6, <2>7, <2>8, <2>9 DEF RowsHold
<1> QED
  BY <1>6, <1>7, <1>8 DEF DigestNext

LEMMA RowsHoldElsewhere ==
  ASSUME TypeOK, RowsHold, UNCHANGED <<rowVars, run, digest>>
  PROVE  RowsHold'
BY DEF RowsHold, DigestHolds, Reading, Making, Emailed, InDigests, InFlight, Active, Used,
   At, rowVars

LEMMA RowsHoldCredential ==
  ASSUME TypeOK, RowsHold, CredentialNext
  PROVE  RowsHold'
<1>1. UNCHANGED <<rowVars, digest>>
  BY CredentialStep
<1>2. /\ Active' = Active
      /\ \A r \in Runs : run'[r] = Idle <=> run[r] = Idle
      /\ \A r \in Runs : run[r] # Idle => run'[r].phase = run[r].phase /\ run'[r].row = run[r].row
  BY CredentialRuns
<1>3. InFlight' = InFlight
  BY <1>2 DEF InFlight, Active
<1>4. ASSUME NEW r \in Runs, Making(r)' PROVE Making(r) /\ run'[r].row = run[r].row
  BY <1>2, <1>4 DEF Making, At, Idle
<1>5. Emailed' = Emailed /\ InDigests' = InDigests /\ Used' = Used
  BY <1>1 DEF Emailed, InDigests, Reading, Used, rowVars
<1>6. \A d \in Digests : Reading(d)' => DigestHolds(d)'
  BY <1>1, <1>5 DEF RowsHold, DigestHolds, Reading, rowVars
<1> QED
  BY <1>1, <1>3, <1>4, <1>5, <1>6 DEF RowsHold, rowVars

---------------------------------------------------------------------------
(* Warnings.                                                               *)

LEMMA OlderGrows ==
  ASSUME NEW age \in 0..Never, NEW other \in 0..Never, age <= other
  PROVE  Older(age) <= Older(other)
BY WindowAssumption DEF Older, Never

LEMMA OlderNever ==
  ASSUME NEW age \in 0..Never, Older(age) # Never
  PROVE  age # Never
BY WindowAssumption DEF Older, Never

LEMMA OlderStays ==
  ASSUME NEW age \in 0..Never, Older(age) <= Window
  PROVE  age <= Window
BY WindowAssumption DEF Older, Never

LEMMA WarningsElsewhere ==
  ASSUME WarningsHold, UNCHANGED <<credentialVars, wants, run, warnVars>>
  PROVE  WarningsHold'
<1> USE DEF credentialVars, warnVars, At, Active
<1>1. StampsHold'
  BY DEF WarningsHold, StampsHold, Mailed
<1>2. RunsWarn'
  BY DEF WarningsHold, RunsWarn, DoneWith, Mailed
<1>3. CoveredHolds'
  BY DEF WarningsHold, CoveredHolds, InWindow
<1>4. QuietSince'
  BY DEF WarningsHold, QuietSince
<1>5. DueSince'
  BY DEF WarningsHold, DueSince, ToBeTold
<1>6. DueStill'
  BY DEF WarningsHold, DueStill, StillDue, UnwarnedThisCycle
<1>7. NoOverlap'
  BY DEF WarningsHold, NoOverlap
<1> QED
  BY <1>1, <1>2, <1>3, <1>4, <1>5, <1>6, <1>7 DEF WarningsHold

LEMMA WarningsCredential ==
  ASSUME TypeOK, WarningsHold, CredentialNext
  PROVE  WarningsHold'
<1>1. PICK k \in Credentials :
        /\ UNCHANGED <<wants, warned>>
        /\ covered' = covered \ {k} /\ fault \subseteq fault'
        /\ \A c \in Credentials \ {k} : notified'[c] = notified[c] /\ expires'[c] = expires[c]
        /\ \/ /\ UNCHANGED notified
              /\ \A r \in Runs : run[r] # Idle => run'[r].due = run[r].due
           \/ /\ notified'[k] = Never /\ k \in fault'
              /\ \A r \in Runs : run[r] # Idle => run'[r].due = run[r].due \ {k}
        /\ \/ UNCHANGED <<announced, excused, renewed, run>>
           \/ /\ announced' = announced \ ({k} \X Staff)
              /\ excused' = excused \ ({k} \X Staff)
              /\ \A r \in Runs : run[r] # Idle => k \notin run'[r].fresh
              /\ \/ renewed' = renewed \cup {k}
                 \/ renewed' = renewed \ {k} /\ notified'[k] = Never
  <2>1. PICK k \in Credentials :
          /\ UNCHANGED <<wants, rowVars, digest, warned>>
          /\ covered' = covered \ {k}
          /\ fault' = fault \/ fault' = fault \cup {k}
          /\ \A c \in Credentials \ {k} : notified'[c] = notified[c] /\ expires'[c] = expires[c]
          /\ \/ /\ UNCHANGED notified
                /\ \A r \in Runs : run[r] # Idle => run'[r].due = run[r].due
             \/ /\ notified'[k] = Never /\ k \in fault'
                /\ \A r \in Runs : run[r] # Idle => run'[r].due = run[r].due \ {k}
          /\ \/ UNCHANGED <<announced, excused, renewed, run>>
             \/ /\ announced' = announced \ ({k} \X Staff)
                /\ excused' = excused \ ({k} \X Staff)
                /\ \A r \in Runs : run[r] # Idle => k \notin run'[r].fresh
                /\ \/ renewed' = renewed \cup {k}
                   \/ renewed' = renewed \ {k} /\ notified'[k] = Never
    BY CredentialStep
  <2>2. fault \subseteq fault'
    BY <2>1
  <2> QED
    BY <2>1, <2>2
<1>2. /\ Active' = Active
      /\ \A r \in Runs : run'[r] = Idle <=> run[r] = Idle
      /\ \A r \in Runs : run[r] # Idle =>
           /\ run'[r].phase = run[r].phase /\ run'[r].staff = run[r].staff
           /\ run'[r].left = run[r].left /\ run'[r].failed = run[r].failed
           /\ run'[r].threw = run[r].threw /\ run'[r].later = run[r].later
           /\ run'[r].due \subseteq run[r].due /\ run'[r].fresh \subseteq run[r].fresh
  BY CredentialRuns
<1>3. \A r \in Active : r \in Runs /\ run[r] # Idle /\ run[r].due \subseteq Credentials
  BY Busy DEF Active, Running
<1>4. StampsHold'
  <2> SUFFICES ASSUME NEW c \in Credentials \ renewed', NEW s \in Staff, Mailed(s)',
                      notified'[c] # Never
               PROVE  <<c, s>> \in announced' \cup excused'
    BY DEF StampsHold, Never
  <2>1. Mailed(s)
    BY <1>1 DEF Mailed
  <2>2. CASE c = k
    <3>1. UNCHANGED <<announced, excused, renewed>> /\ UNCHANGED notified
      BY <1>1, <2>2
    <3> QED
      BY <2>1, <3>1 DEF WarningsHold, StampsHold
  <2>3. CASE c # k
    <3>1. c \notin renewed /\ notified[c] # Never
      BY <1>1, <2>3
    <3>2. <<c, s>> \in announced \cup excused
      BY <2>1, <3>1 DEF WarningsHold, StampsHold
    <3> QED
      BY <1>1, <2>3, <3>2
  <2> QED
    BY <2>2, <2>3
<1>5. RunsWarn'
  <2> SUFFICES ASSUME NEW r \in Runs, NEW c \in Credentials, NEW s \in Staff, run'[r] # Idle,
                      ~run'[r].failed, c \in run'[r].fresh, Mailed(s)', DoneWith(r, s)'
               PROVE  <<c, s>> \in announced'
    BY DEF RunsWarn
  <2>1. run[r] # Idle /\ ~run[r].failed /\ c \in run[r].fresh /\ Mailed(s) /\ DoneWith(r, s)
    BY <1>1, <1>2 DEF Mailed, DoneWith, At
  <2>2. <<c, s>> \in announced
    BY <2>1 DEF WarningsHold, RunsWarn
  <2>3. announced' = announced \/ (c # k /\ announced' = announced \ ({k} \X Staff))
    BY <1>1, <2>1
  <2> QED
    BY <2>2, <2>3
<1>6. CoveredHolds'
  BY <1>1 DEF WarningsHold, CoveredHolds, InWindow, TypeOK
<1>7. QuietSince'
  <2> SUFFICES ASSUME NEW c \in Credentials \ fault', NEW s \in Staff,
                      \A r \in Active' : c \notin run'[r].due, warned'[c][s] <= Window
               PROVE  notified'[c] <= warned'[c][s]
    BY DEF QuietSince
  <2>1. c \notin fault /\ notified'[c] = notified[c]
    BY <1>1
  <2>2. \A r \in Active : c \notin run[r].due
    BY <1>1, <1>2, <1>3
  <2> QED
    BY <1>1, <2>1, <2>2 DEF WarningsHold, QuietSince
<1>8. DueSince'
  <2> SUFFICES ASSUME NEW r \in Active', NEW c \in run'[r].due \ fault', NEW s \in ToBeTold(r)'
               PROVE  warned'[c][s] >= Window
    BY DEF DueSince
  <2>1. r \in Active /\ c \in run[r].due \ fault
    BY <1>1, <1>2, <1>3
  <2>2. s \in ToBeTold(r)
    BY <1>2, <1>3, <2>1 DEF ToBeTold, At
  <2> QED
    BY <1>1, <2>1, <2>2 DEF WarningsHold, DueSince
<1>9. DueStill'
  <2> SUFFICES ASSUME NEW r \in Active', NEW c \in run'[r].due
               PROVE  StillDue(r, c)'
    BY DEF DueStill
  <2>1. r \in Active /\ c \in run[r].due /\ c \in Credentials /\ run'[r].later = run[r].later
    BY <1>2, <1>3
  <2>2. StillDue(r, c)
    BY <2>1 DEF WarningsHold, DueStill
  <2>3. notified'[c] = notified[c]
    BY <1>1, <1>2, <1>3, <2>1
  <2> QED
    BY <2>1, <2>2, <2>3 DEF StillDue, UnwarnedThisCycle
<1>10. NoOverlap'
  <2> SUFFICES ASSUME NEW r \in Active', NEW q \in Active', r # q,
                      NEW c \in run'[r].due \cap run'[q].due
               PROVE  c \in fault'
    BY DEF NoOverlap
  <2>1. r \in Active /\ q \in Active /\ c \in run[r].due \cap run[q].due
    BY <1>2, <1>3
  <2> QED
    BY <1>1, <2>1 DEF WarningsHold, NoOverlap
<1> QED
  BY <1>4, <1>5, <1>6, <1>7, <1>8, <1>9, <1>10 DEF WarningsHold

LEMMA WarningsTick ==
  ASSUME TypeOK, WarningsHold, Tick
  PROVE  WarningsHold'
<1>1. Active = {} /\ UNCHANGED <<wants, run, announced, renewed, excused, fault>> /\ covered' = {}
  BY DEF Tick, rowVars
<1>2. \A r \in Runs : run'[r] = Idle
  BY <1>1 DEF Active
<1>3. Active' = {}
  BY <1>2 DEF Active
<1>4. \A k \in Credentials : notified'[k] = Older(notified[k]) /\ notified[k] \in 0..Never
  BY DEF Tick, TypeOK
<1>5. \A k \in Credentials, s \in Staff :
        warned'[k][s] = Older(warned[k][s]) /\ warned[k][s] \in 0..Never
  BY DEF Tick, TypeOK
<1>6. StampsHold'
  <2> SUFFICES ASSUME NEW k \in Credentials \ renewed, NEW s \in Staff, Mailed(s)',
                      notified'[k] # Never
               PROVE  <<k, s>> \in announced \cup excused
    BY <1>1 DEF StampsHold, Never
  <2>1. notified[k] # Never
    BY <1>4, OlderNever
  <2> QED
    BY <1>1, <2>1 DEF WarningsHold, StampsHold, Mailed
<1>7. QuietSince'
  <2> SUFFICES ASSUME NEW k \in Credentials \ fault, NEW s \in Staff, warned'[k][s] <= Window
               PROVE  notified'[k] <= warned'[k][s]
    BY <1>1 DEF QuietSince
  <2>0. warned[k][s] <= Window
    BY <1>5, OlderStays
  <2>1. notified[k] <= warned[k][s]
    BY <1>1, <2>0 DEF WarningsHold, QuietSince
  <2> QED
    BY <1>4, <1>5, <2>1, OlderGrows
<1>8. RunsWarn'
  BY <1>2 DEF RunsWarn
<1>9. CoveredHolds' /\ DueSince' /\ DueStill' /\ NoOverlap'
  BY <1>1, <1>3 DEF CoveredHolds, DueSince, DueStill, NoOverlap
<1> QED
  BY <1>6, <1>7, <1>8, <1>9 DEF WarningsHold

\* A run goes on without telling anybody or stamping anything.
LEMMA WarningsGoOn ==
  ASSUME TypeOK, WarningsHold, NEW r \in Runs, run[r] # Idle, NEW h \in Running, StepTo(r, h),
         UNCHANGED <<credentialVars, wants, warnVars>>,
         h.due = run[r].due, h.fresh = run[r].fresh, h.later = run[r].later,
         \A s \in Staff :
           /\ ~h.failed /\ Mailed(s) /\ s \notin h.left /\ s \notin h.threw
           /\ s \in h.staff => h.phase = "sent"
           => ~run[r].failed /\ DoneWith(r, s),
         \A s \in h.left \cup (IF h.phase = "made" THEN h.staff ELSE {}) : s \in ToBeTold(r)
  PROVE  WarningsHold'
<1> USE DEF credentialVars, warnVars
<1>1. \A q \in Runs : run'[q] = IF q = r THEN h ELSE run[q]
  BY DEF StepTo, TypeOK
<1>2. Active' = Active /\ h # Idle
  BY <1>1 DEF Active, Running, Idle
<1>3. \A q \in Active : run'[q].due = run[q].due /\ run'[q].later = run[q].later
  BY <1>1 DEF Active
<1>4. StampsHold'
  BY DEF WarningsHold, StampsHold, Mailed
<1>5. RunsWarn'
  <2> SUFFICES ASSUME NEW q \in Runs, NEW k \in Credentials, NEW s \in Staff, run'[q] # Idle,
                      ~run'[q].failed, k \in run'[q].fresh, Mailed(s)', DoneWith(q, s)'
               PROVE  <<k, s>> \in announced'
    BY DEF RunsWarn
  <2>1. Mailed(s)
    BY DEF Mailed
  <2>2. CASE q = r
    <3>1. run'[q] = h
      BY <1>1, <2>2
    <3>2. s \notin h.left /\ s \notin h.threw /\ (s \in h.staff => h.phase = "sent")
      BY <3>1 DEF DoneWith, At
    <3>3. ~run[r].failed /\ DoneWith(r, s) /\ k \in run[r].fresh
      BY <2>1, <3>1, <3>2
    <3> QED
      BY <2>1, <3>3 DEF WarningsHold, RunsWarn
  <2>3. CASE q # r
    <3>1. run'[q] = run[q]
      BY <1>1, <2>3
    <3> QED
      BY <2>1, <3>1 DEF WarningsHold, RunsWarn, DoneWith, At
  <2> QED
    BY <2>2, <2>3
<1>6. CoveredHolds'
  BY DEF WarningsHold, CoveredHolds, InWindow
<1>7. QuietSince'
  BY <1>2, <1>3 DEF WarningsHold, QuietSince
<1>8. DueSince'
  <2>1. ASSUME NEW q \in Active, NEW s \in ToBeTold(q)' PROVE s \in ToBeTold(q)
    <3>1. CASE q = r
      <4>1. run'[q] = h
        BY <1>1, <3>1
      <4>2. s \in h.left \cup (IF h.phase = "made" THEN h.staff ELSE {})
        BY <4>1 DEF ToBeTold, At
      <4> QED
        BY <3>1, <4>2
    <3>2. CASE q # r
      <4>1. run'[q] = run[q]
        BY <1>1, <3>2 DEF Active
      <4> QED
        BY <4>1 DEF ToBeTold, At
    <3> QED
      BY <3>1, <3>2
  <2> QED
    BY <1>2, <1>3, <2>1 DEF WarningsHold, DueSince
<1>9. DueStill'
  BY <1>2, <1>3 DEF WarningsHold, DueStill, StillDue, UnwarnedThisCycle
<1>10. NoOverlap'
  BY <1>2, <1>3 DEF WarningsHold, NoOverlap
<1> QED
  BY <1>4, <1>5, <1>6, <1>7, <1>8, <1>9, <1>10 DEF WarningsHold

LEMMA WarningsScan ==
  ASSUME TypeOK, WarningsHold, NEW r \in Runs, Scan(r)
  PROVE  WarningsHold'
<1>1. PICK later \in BOOLEAN :
        /\ covered' = covered \cup (Credentials \ Due(later))
        /\ IF Due(later) = {}
           THEN UNCHANGED <<run, fault>>
           ELSE /\ StepTo(r, Fresh(later))
                /\ fault' = fault \cup UNION {run[q].due \cap Due(later) : q \in Active}
  BY DEF Scan, StepTo, Fresh
<1>2. run[r] = Idle /\ UNCHANGED <<credentialVars, wants, warned, announced, renewed, excused>>
  BY DEF Scan
<1>3. StampsHold'
  BY <1>2 DEF WarningsHold, StampsHold, Mailed, credentialVars
<1>4. CoveredHolds'
  <2>1. \A k \in Credentials \ Due(later) : InWindow(k) => notified[k] <= Window
    BY WindowAssumption DEF Due, UnwarnedThisCycle, TypeOK, Never
  <2> QED
    BY <1>1, <1>2, <2>1 DEF WarningsHold, CoveredHolds, InWindow, credentialVars, TypeOK
<1>5. CASE Due(later) = {}
  <2>1. UNCHANGED <<run, fault>>
    BY <1>1, <1>5
  <2>2. RunsWarn'
    BY <1>2, <2>1 DEF WarningsHold, RunsWarn, DoneWith, Mailed, At
  <2>3. QuietSince' /\ DueSince' /\ NoOverlap'
    BY <1>2, <2>1 DEF WarningsHold, QuietSince, DueSince, NoOverlap, ToBeTold, Active, At,
       credentialVars
  <2>4. DueStill'
    BY <1>2, <2>1 DEF WarningsHold, DueStill, StillDue, UnwarnedThisCycle, Active, credentialVars
  <2> QED
    BY <1>3, <1>4, <2>2, <2>3, <2>4 DEF WarningsHold
<1>6. CASE Due(later) # {}
  <2>1. /\ StepTo(r, Fresh(later))
        /\ fault' = fault \cup UNION {run[q].due \cap Due(later) : q \in Active}
    BY <1>1, <1>6
  <2>2. \A q \in Runs : run'[q] = IF q = r THEN Fresh(later) ELSE run[q]
    BY <2>1 DEF StepTo, TypeOK
  <2>3. /\ Fresh(later).due = Due(later) /\ Fresh(later).later = later
        /\ Fresh(later).left = Staff /\ Fresh(later).phase = "next" /\ Fresh(later) # Idle
    BY DEF Fresh, Idle
  <2>4. Active' = Active \cup {r} /\ r \notin Active
    BY <1>2, <2>2, <2>3 DEF Active
  <2>5. fault \subseteq fault' /\ \A q \in Active : run[q].due \cap Due(later) \subseteq fault'
    BY <2>1
  <2>6. \A q \in Active : run'[q] = run[q]
    BY <2>2, <2>4 DEF Active
  <2>7. RunsWarn'
    <3> SUFFICES ASSUME NEW q \in Runs, NEW k \in Credentials, NEW s \in Staff, run'[q] # Idle,
                        ~run'[q].failed, k \in run'[q].fresh, Mailed(s)', DoneWith(q, s)'
                 PROVE  <<k, s>> \in announced'
      BY <1>2 DEF RunsWarn
    <3>1. q # r
      BY <2>2, <2>3 DEF DoneWith
    <3>2. run'[q] = run[q]
      BY <2>2, <3>1
    <3> QED
      BY <1>2, <3>2 DEF WarningsHold, RunsWarn, DoneWith, Mailed, At
  <2>8. QuietSince'
    <3> SUFFICES ASSUME NEW k \in Credentials \ fault', NEW s \in Staff,
                        \A q \in Active' : k \notin run'[q].due, warned'[k][s] <= Window
                 PROVE  notified'[k] <= warned'[k][s]
      BY DEF QuietSince
    <3>1. k \notin fault /\ \A q \in Active : k \notin run[q].due
      BY <2>4, <2>5, <2>6
    <3> QED
      BY <1>2, <3>1 DEF WarningsHold, QuietSince, credentialVars
  <2>9. DueSince'
    <3> SUFFICES ASSUME NEW q \in Active', NEW k \in run'[q].due \ fault', NEW s \in ToBeTold(q)'
                 PROVE  warned[k][s] >= Window
      BY <1>2 DEF DueSince
    <3>1. CASE q = r
      <4>1. k \in Due(later) /\ k \in Credentials /\ s \in Staff
        BY <2>2, <2>3, <3>1 DEF Due, ToBeTold, At
      <4>2. k \notin fault /\ \A p \in Active : k \notin run[p].due
        BY <2>5, <4>1
      <4>3. warned[k][s] <= Window => notified[k] <= warned[k][s]
        BY <4>1, <4>2 DEF WarningsHold, QuietSince
      <4>4. notified[k] >= Window /\ notified[k] \in Nat /\ warned[k][s] \in Nat
        BY <4>1, WindowAssumption DEF Due, UnwarnedThisCycle, TypeOK, Never
      <4> QED
        BY <4>3, <4>4, WindowAssumption
    <3>2. CASE q # r
      <4>1. q \in Active /\ run'[q] = run[q]
        BY <2>4, <2>6, <3>2
      <4>2. k \in run[q].due \ fault /\ s \in ToBeTold(q)
        BY <2>5, <4>1 DEF ToBeTold, At
      <4> QED
        BY <4>1, <4>2 DEF WarningsHold, DueSince
    <3> QED
      BY <3>1, <3>2
  <2>10. DueStill'
    <3> SUFFICES ASSUME NEW q \in Active', NEW k \in run'[q].due PROVE StillDue(q, k)'
      BY DEF DueStill
    <3>1. CASE q = r
      BY <1>2, <2>2, <2>3, <3>1 DEF StillDue, Due, UnwarnedThisCycle, credentialVars
    <3>2. CASE q # r
      <4>1. q \in Active /\ run'[q] = run[q]
        BY <2>4, <2>6, <3>2
      <4> QED
        BY <1>2, <4>1 DEF WarningsHold, DueStill, StillDue, UnwarnedThisCycle, credentialVars
    <3> QED
      BY <3>1, <3>2
  <2>11. NoOverlap'
    BY <2>2, <2>3, <2>4, <2>5, <2>6 DEF WarningsHold, NoOverlap
  <2> QED
    BY <1>3, <1>4, <2>7, <2>8, <2>9, <2>10, <2>11 DEF WarningsHold
<1> QED
  BY <1>5, <1>6

LEMMA WarningsSend ==
  ASSUME TypeOK, RunsHold, WarningsHold, NEW r \in Runs, Send(r)
  PROVE  WarningsHold'
<1>1. run[r] \in Running /\ run[r] # Idle /\ run[r].phase = "made"
  BY AtBusy DEF Send, At
<1>2. PICK s \in run[r].staff :
        /\ warned' = [k \in Credentials |->
             IF k \in run[r].due THEN [warned[k] EXCEPT ![s] = 0] ELSE warned[k]]
        /\ announced' = announced \cup (run[r].fresh \X {s})
        /\ excused' = excused \ (run[r].fresh \X {s})
  BY DEF Send, Tell
<1>3. UNCHANGED <<credentialVars, wants, covered, renewed, fault>>
  BY DEF Send
<1>4. s \in Staff /\ s \notin run[r].left /\ \A u \in run[r].staff : u = s
  BY <1>1, <1>2 DEF RunsHold, Running
<1>5. PICK h \in Running :
        /\ StepTo(r, h) /\ h.due = run[r].due /\ h.fresh = run[r].fresh
        /\ h.later = run[r].later /\ h.left = run[r].left
        /\ h.threw = run[r].threw /\ h.failed = run[r].failed /\ h.phase # "made"
  <2>1. CASE run[r].row = NoRow
    <3> DEFINE g == [run[r] EXCEPT !.phase = "next", !.staff = {}]
    <3>1. g \in Running /\ StepTo(r, g)
      BY <2>1, SendStep
    <3>2. /\ g.due = run[r].due /\ g.fresh = run[r].fresh
          /\ g.later = run[r].later /\ g.left = run[r].left
          /\ g.threw = run[r].threw /\ g.failed = run[r].failed /\ g.phase = "next"
      BY <1>1 DEF Running
    <3> QED
      BY <3>1, <3>2
  <2>2. CASE run[r].row # NoRow
    <3> DEFINE g == [run[r] EXCEPT !.phase = "sent"]
    <3>1. g \in Running /\ StepTo(r, g)
      BY <2>2, SendStep
    <3>2. /\ g.due = run[r].due /\ g.fresh = run[r].fresh
          /\ g.later = run[r].later /\ g.left = run[r].left
          /\ g.threw = run[r].threw /\ g.failed = run[r].failed /\ g.phase = "sent"
      BY <1>1 DEF Running
    <3> QED
      BY <3>1, <3>2
  <2> QED
    BY <2>1, <2>2
<1>6. \A q \in Runs : run'[q] = IF q = r THEN h ELSE run[q]
  BY <1>5 DEF StepTo, TypeOK
<1>7. Active' = Active /\ r \in Active
  BY <1>1, <1>5, <1>6 DEF Active, Running, Idle
<1>8. \A q \in Active : run'[q].due = run[q].due /\ run'[q].later = run[q].later
  BY <1>5, <1>6 DEF Active
<1>9. \A k \in Credentials, u \in Staff :
        warned'[k][u] = IF k \in run[r].due /\ u = s THEN 0 ELSE warned[k][u]
  BY <1>2, <1>4 DEF TypeOK
<1>10. StampsHold'
  <2>1. announced \cup excused \subseteq announced' \cup excused'
    BY <1>2
  <2> QED
    BY <1>3, <2>1 DEF WarningsHold, StampsHold, credentialVars, Mailed
<1>11. RunsWarn'
  <2> SUFFICES ASSUME NEW q \in Runs, NEW k \in Credentials, NEW u \in Staff, run'[q] # Idle,
                      ~run'[q].failed, k \in run'[q].fresh, Mailed(u)', DoneWith(q, u)'
               PROVE  <<k, u>> \in announced'
    BY DEF RunsWarn
  <2>1. Mailed(u)
    BY <1>3 DEF Mailed
  <2>2. CASE q = r
    <3>1. run'[q] = h
      BY <1>6, <2>2
    <3>2. u \notin run[r].left /\ u \notin run[r].threw /\ ~run[r].failed /\ k \in run[r].fresh
      BY <1>5, <3>1 DEF DoneWith
    <3>3. CASE u = s
      BY <1>2, <3>2, <3>3
    <3>4. CASE u # s
      <4>1. DoneWith(r, u)
        BY <1>4, <3>2, <3>4 DEF DoneWith
      <4>2. <<k, u>> \in announced
        BY <1>1, <2>1, <3>2, <4>1 DEF WarningsHold, RunsWarn
      <4> QED
        BY <1>2, <4>2
    <3> QED
      BY <3>3, <3>4
  <2>3. CASE q # r
    <3>1. run'[q] = run[q]
      BY <1>6, <2>3
    <3>2. <<k, u>> \in announced
      BY <2>1, <3>1 DEF WarningsHold, RunsWarn, DoneWith, At
    <3> QED
      BY <1>2, <3>2
  <2> QED
    BY <2>2, <2>3
<1>12. CoveredHolds'
  BY <1>3 DEF WarningsHold, CoveredHolds, InWindow, credentialVars
<1>13. QuietSince'
  <2> SUFFICES ASSUME NEW k \in Credentials \ fault', NEW u \in Staff,
                      \A q \in Active' : k \notin run'[q].due, warned'[k][u] <= Window
               PROVE  notified'[k] <= warned'[k][u]
    BY DEF QuietSince
  <2>1. k \notin fault /\ \A q \in Active : k \notin run[q].due
    BY <1>3, <1>7, <1>8
  <2>2. warned'[k][u] = warned[k][u]
    BY <1>7, <1>9, <2>1
  <2> QED
    BY <1>3, <2>1, <2>2 DEF WarningsHold, QuietSince, credentialVars
<1>14. DueSince'
  <2> SUFFICES ASSUME NEW q \in Active', NEW k \in run'[q].due \ fault', NEW u \in ToBeTold(q)'
               PROVE  warned'[k][u] >= Window
    BY DEF DueSince
  <2>1. q \in Active /\ q \in Runs /\ k \in run[q].due \ fault
    BY <1>3, <1>7, <1>8 DEF Active
  <2>2. u \in ToBeTold(q)
    BY <1>5, <1>6, <2>1 DEF ToBeTold, At
  <2>3. k \in Credentials /\ u \in Staff
    <3>1. run[q] \in Running
      BY <2>1, Busy DEF Active
    <3> QED
      BY <2>1, <2>2, <3>1 DEF Running, ToBeTold
  <2>4. warned[k][u] >= Window
    BY <2>1, <2>2 DEF WarningsHold, DueSince
  <2>5. ~(k \in run[r].due /\ u = s)
    <3>1. CASE q = r
      <4>1. u \in h.left
        BY <1>5, <1>6, <3>1 DEF ToBeTold, At
      <4> QED
        BY <1>4, <1>5, <4>1
    <3>2. CASE q # r
      BY <1>7, <2>1, <3>2 DEF WarningsHold, NoOverlap
    <3> QED
      BY <3>1, <3>2
  <2> QED
    BY <1>9, <2>3, <2>4, <2>5
<1>15. DueStill' /\ NoOverlap'
  <2>1. DueStill'
    BY <1>3, <1>7, <1>8 DEF WarningsHold, DueStill, StillDue, UnwarnedThisCycle, credentialVars
  <2>2. NoOverlap'
    BY <1>3, <1>7, <1>8 DEF WarningsHold, NoOverlap
  <2> QED
    BY <2>1, <2>2
<1> QED
  BY <1>10, <1>11, <1>12, <1>13, <1>14, <1>15 DEF WarningsHold

LEMMA WarningsStamp ==
  ASSUME TypeOK, RunsHold, WarningsHold, NEW r \in Runs, Stamp(r)
  PROVE  WarningsHold'
<1> DEFINE due == {k \in run[r].due : UnwarnedThisCycle(k, run[r].later)}
           alone == {k \in run[r].due : \A q \in Active \ {r} : k \notin run[q].due}
<1>1. /\ run[r].left = {} /\ ~run[r].failed
      /\ notified' = [k \in Credentials |-> IF k \in due THEN 0 ELSE notified[k]]
      /\ excused' = excused \cup (((due \cap run[r].fresh) \X run[r].threw) \ announced)
      /\ renewed' = (renewed \ due) \cup (due \ run[r].fresh)
      /\ covered' = covered \cup {k \in run[r].due : expires[k] # 0}
      /\ fault' = fault \ alone
      /\ run' = [run EXCEPT ![r] = Idle]
      /\ UNCHANGED <<expires, wants, warned, announced>>
  BY DEF Stamp, ShouldStamp
<1>2. run[r] \in Running /\ run[r] # Idle /\ run[r].staff = {}
  BY AtBusy DEF Stamp, RunsHold
<1>3. \A q \in Runs : run'[q] = IF q = r THEN Idle ELSE run[q]
  BY <1>1 DEF TypeOK
<1>4. Active' = Active \ {r} /\ r \in Active /\ \A q \in Active' : run'[q] = run[q]
  BY <1>2, <1>3 DEF Active
<1>5. \A k \in Credentials : notified'[k] = IF k \in due THEN 0 ELSE notified[k]
  BY <1>1
<1> HIDE DEF due, alone
<1>6. StampsHold'
  <2> SUFFICES ASSUME NEW k \in Credentials \ renewed', NEW u \in Staff, Mailed(u)',
                      notified'[k] # Never
               PROVE  <<k, u>> \in announced' \cup excused'
    BY DEF StampsHold, Never
  <2>1. Mailed(u)
    BY <1>1 DEF Mailed
  <2>2. CASE k \in due
    <3>1. k \in run[r].fresh
      BY <1>1, <2>2
    <3>2. CASE u \in run[r].threw
      BY <1>1, <2>2, <3>1, <3>2
    <3>3. CASE u \notin run[r].threw
      <4>1. DoneWith(r, u)
        BY <1>1, <1>2, <3>3 DEF DoneWith
      <4>2. <<k, u>> \in announced
        BY <1>1, <1>2, <2>1, <3>1, <4>1 DEF WarningsHold, RunsWarn
      <4> QED
        BY <1>1, <4>2
    <3> QED
      BY <3>2, <3>3
  <2>3. CASE k \notin due
    <3>1. k \notin renewed /\ notified[k] # Never
      BY <1>1, <1>5, <2>3
    <3> QED
      BY <1>1, <2>1, <3>1 DEF WarningsHold, StampsHold
  <2> QED
    BY <2>2, <2>3
<1>7. RunsWarn'
  <2> SUFFICES ASSUME NEW q \in Runs, NEW k \in Credentials, NEW s \in Staff, run'[q] # Idle,
                      ~run'[q].failed, k \in run'[q].fresh, Mailed(s)', DoneWith(q, s)'
               PROVE  <<k, s>> \in announced'
    BY <1>1 DEF RunsWarn
  <2>1. q # r /\ run'[q] = run[q]
    BY <1>3
  <2> QED
    BY <1>1, <2>1 DEF WarningsHold, RunsWarn, DoneWith, Mailed, At
<1>8. CoveredHolds'
  <2> SUFFICES ASSUME NEW k \in covered', InWindow(k)' PROVE notified'[k] <= Window
    BY DEF CoveredHolds
  <2>1. InWindow(k) /\ k \in Credentials
    BY <1>1, <1>2 DEF InWindow, TypeOK, Running
  <2>2. CASE k \in due
    BY <1>5, <2>1, <2>2, WindowAssumption
  <2>3. CASE k \notin due /\ k \in run[r].due
    BY <1>5, <2>1, <2>3, WindowAssumption DEF due, UnwarnedThisCycle, TypeOK, Never
  <2>4. CASE k \notin run[r].due
    <3>1. k \in covered /\ k \notin due
      BY <1>1, <2>4 DEF due
    <3> QED
      BY <1>5, <2>1, <3>1 DEF WarningsHold, CoveredHolds
  <2> QED
    BY <2>2, <2>3, <2>4
<1>9. QuietSince'
  <2> SUFFICES ASSUME NEW k \in Credentials \ fault', NEW s \in Staff,
                      \A q \in Active' : k \notin run'[q].due, warned[k][s] <= Window
               PROVE  notified'[k] <= warned[k][s]
    BY <1>1 DEF QuietSince
  <2>1. \A q \in Active \ {r} : k \notin run[q].due
    BY <1>4
  <2>2. warned[k][s] \in Nat
    BY WindowAssumption DEF TypeOK, Never
  <2>3. CASE k \in run[r].due
    <3>1. StillDue(r, k)
      BY <1>4, <2>3 DEF WarningsHold, DueStill
    <3>2. notified'[k] = 0
      BY <1>5, <2>3, <3>1 DEF StillDue, due
    <3> QED
      BY <2>2, <3>2
  <2>4. CASE k \notin run[r].due
    <3>1. k \notin fault /\ k \notin due
      BY <1>1, <2>4 DEF due, alone
    <3>2. \A q \in Active : k \notin run[q].due
      BY <2>1, <2>4
    <3> QED
      BY <1>5, <3>1, <3>2 DEF WarningsHold, QuietSince
  <2> QED
    BY <2>3, <2>4
<1>10. \A q \in Active', k \in Credentials : k \in run[q].due /\ k \notin fault' => k \notin fault
  BY <1>1, <1>4 DEF alone
<1>11. \A q \in Active' : q \in Active /\ run[q].due \subseteq Credentials
  BY <1>4, Busy DEF Active, Running
<1>12. DueSince'
  <2> SUFFICES ASSUME NEW q \in Active', NEW k \in run'[q].due \ fault', NEW s \in ToBeTold(q)'
               PROVE  warned[k][s] >= Window
    BY <1>1 DEF DueSince
  <2>1. run'[q] = run[q] /\ q \in Active
    BY <1>4
  <2>2. k \in run[q].due \ fault
    BY <1>10, <1>11, <2>1
  <2>3. s \in ToBeTold(q)
    BY <2>1 DEF ToBeTold, At
  <2> QED
    BY <2>1, <2>2, <2>3 DEF WarningsHold, DueSince
<1>13. DueStill'
  <2> SUFFICES ASSUME NEW q \in Active', NEW k \in run'[q].due PROVE StillDue(q, k)'
    BY DEF DueStill
  <2>1. run'[q] = run[q] /\ q \in Active /\ k \in run[q].due /\ k \in Credentials
    BY <1>4, <1>11
  <2>2. StillDue(q, k)
    BY <2>1 DEF WarningsHold, DueStill
  <2>3. notified'[k] = 0 \/ notified'[k] = notified[k]
    BY <1>5, <2>1
  <2> QED
    BY <2>1, <2>2, <2>3 DEF StillDue, UnwarnedThisCycle
<1>14. NoOverlap'
  <2> SUFFICES ASSUME NEW p \in Active', NEW q \in Active', p # q,
                      NEW k \in run'[p].due \cap run'[q].due
               PROVE  k \in fault'
    BY DEF NoOverlap
  <2>1. /\ p \in Active \ {r} /\ q \in Active \ {r}
        /\ k \in run[p].due \cap run[q].due /\ k \in Credentials
    BY <1>4, <1>11
  <2>2. k \in fault
    BY <2>1 DEF WarningsHold, NoOverlap
  <2> QED
    BY <1>10, <2>1, <2>2
<1> QED
  BY <1>6, <1>7, <1>8, <1>9, <1>12, <1>13, <1>14 DEF WarningsHold

LEMMA WarningsEnd ==
  ASSUME TypeOK, WarningsHold, NEW r \in Runs, EndUnstamped(r)
  PROVE  WarningsHold'
<1>1. /\ run[r] # Idle /\ fault' = fault \cup run[r].due
      /\ run' = [run EXCEPT ![r] = Idle]
      /\ UNCHANGED <<credentialVars, wants, warned, announced, renewed, covered, excused>>
  BY DEF EndUnstamped
<1>2. \A q \in Runs : run'[q] = IF q = r THEN Idle ELSE run[q]
  BY <1>1 DEF TypeOK
<1>3. Active' = Active \ {r} /\ r \in Active /\ \A q \in Active' : run'[q] = run[q]
  BY <1>1, <1>2 DEF Active
<1>4. StampsHold' /\ CoveredHolds'
  BY <1>1 DEF WarningsHold, StampsHold, CoveredHolds, Mailed, InWindow, credentialVars
<1>5. RunsWarn'
  <2> SUFFICES ASSUME NEW q \in Runs, NEW k \in Credentials, NEW s \in Staff, run'[q] # Idle,
                      ~run'[q].failed, k \in run'[q].fresh, Mailed(s)', DoneWith(q, s)'
               PROVE  <<k, s>> \in announced'
    BY <1>1 DEF RunsWarn
  <2>1. q # r /\ run'[q] = run[q]
    BY <1>2
  <2> QED
    BY <1>1, <2>1 DEF WarningsHold, RunsWarn, DoneWith, Mailed, At
<1>6. QuietSince'
  <2> SUFFICES ASSUME NEW k \in Credentials \ fault', NEW s \in Staff,
                      \A q \in Active' : k \notin run'[q].due, warned[k][s] <= Window
               PROVE  notified[k] <= warned[k][s]
    BY <1>1 DEF QuietSince, credentialVars
  <2>1. k \notin fault /\ \A q \in Active : k \notin run[q].due
    BY <1>1, <1>3
  <2> QED
    BY <2>1 DEF WarningsHold, QuietSince
<1>7. DueSince'
  <2> SUFFICES ASSUME NEW q \in Active', NEW k \in run'[q].due \ fault', NEW s \in ToBeTold(q)'
               PROVE  warned[k][s] >= Window
    BY <1>1 DEF DueSince
  <2>1. run'[q] = run[q] /\ q \in Active /\ k \in run[q].due \ fault
    BY <1>1, <1>3
  <2>2. s \in ToBeTold(q)
    BY <2>1 DEF ToBeTold, At
  <2> QED
    BY <2>1, <2>2 DEF WarningsHold, DueSince
<1>8. DueStill'
  BY <1>1, <1>3 DEF WarningsHold, DueStill, StillDue, UnwarnedThisCycle, credentialVars
<1>9. NoOverlap'
  BY <1>1, <1>3 DEF WarningsHold, NoOverlap
<1> QED
  BY <1>4, <1>5, <1>6, <1>7, <1>8, <1>9 DEF WarningsHold

LEMMA WarningsRun ==
  ASSUME TypeOK, RunsHold, WarningsHold, NEW r \in Runs, RunNext(r)
  PROVE  WarningsHold'
<1>1. ASSUME NEW s \in Staff, Create(r, s) PROVE WarningsHold'
  <2>1. PICK n \in Rows \cup {NoRow} :
          /\ StepTo(r, [run[r] EXCEPT !.phase = "made", !.left = @ \ {s}, !.staff = {s}, !.row = n])
          /\ [run[r] EXCEPT !.phase = "made", !.left = @ \ {s}, !.staff = {s}, !.row = n]
               \in Running
    BY <1>1, CreateStep
  <2> DEFINE h == [run[r] EXCEPT !.phase = "made", !.left = @ \ {s}, !.staff = {s}, !.row = n]
  <2>2. /\ run[r] \in Running /\ run[r] # Idle /\ run[r].staff = {} /\ s \in run[r].left
        /\ run[r].phase = "next"
    BY <1>1, AtBusy DEF Create, RunsHold, At
  <2>3. /\ h.due = run[r].due /\ h.fresh = run[r].fresh
        /\ h.later = run[r].later /\ h.left = run[r].left \ {s}
        /\ h.staff = {s} /\ h.phase = "made" /\ h.threw = run[r].threw /\ h.failed = run[r].failed
    BY <2>2 DEF Running
  <2>4. UNCHANGED <<credentialVars, wants, warnVars>>
    BY <1>1 DEF Create
  <2> HIDE DEF h
  <2>5. StepTo(r, h) /\ h \in Running
    BY <2>1 DEF h
  <2>6. \A u \in Staff :
          /\ ~h.failed /\ Mailed(u) /\ u \notin h.left /\ u \notin h.threw
          /\ u \in h.staff => h.phase = "sent"
          => ~run[r].failed /\ DoneWith(r, u)
    BY <2>2, <2>3 DEF DoneWith
  <2>7. \A u \in h.left \cup (IF h.phase = "made" THEN h.staff ELSE {}) : u \in ToBeTold(r)
    BY <2>2, <2>3 DEF ToBeTold
  <2> QED
    BY <2>2, <2>3, <2>4, <2>5, <2>6, <2>7, WarningsGoOn
<1>2. ASSUME NEW s \in Staff, NotifyThrows(r, s) PROVE WarningsHold'
  <2> DEFINE h == [run[r] EXCEPT !.left = @ \ {s}, !.threw = @ \cup {s}]
  <2>1. /\ run[r] \in Running /\ run[r] # Idle /\ run[r].staff = {} /\ run[r].phase = "next"
    BY <1>2, AtBusy DEF NotifyThrows, RunsHold, At
  <2>2. /\ h.due = run[r].due /\ h.fresh = run[r].fresh
        /\ h.later = run[r].later /\ h.left = run[r].left \ {s}
        /\ h.staff = {} /\ h.phase = "next" /\ h.threw = run[r].threw \cup {s}
        /\ h.failed = run[r].failed
    BY <2>1 DEF Running
  <2>3. UNCHANGED <<credentialVars, wants, warnVars>>
    BY <1>2 DEF NotifyThrows
  <2>4. StepTo(r, h) /\ h \in Running
    BY <1>2, ThrowStep
  <2> HIDE DEF h
  <2>5. \A u \in Staff :
          /\ ~h.failed /\ Mailed(u) /\ u \notin h.left /\ u \notin h.threw
          /\ u \in h.staff => h.phase = "sent"
          => ~run[r].failed /\ DoneWith(r, u)
    BY <2>1, <2>2 DEF DoneWith
  <2>6. \A u \in h.left \cup (IF h.phase = "made" THEN h.staff ELSE {}) : u \in ToBeTold(r)
    BY <2>1, <2>2 DEF ToBeTold
  <2> QED
    BY <2>1, <2>2, <2>3, <2>4, <2>5, <2>6, WarningsGoOn
<1>3. CASE DoNotSend(r)
  <2>1. PICK s \in run[r].staff :
          /\ StepTo(r, After(r, "next", run[r].failed \/ Mailed(s)))
          /\ After(r, "next", run[r].failed \/ Mailed(s)) \in Running
    BY <1>3, DoNotSendStep
  <2> DEFINE h == After(r, "next", run[r].failed \/ Mailed(s))
  <2>2. run[r] \in Running /\ run[r] # Idle /\ run[r].phase = "made"
    BY <1>3, AtBusy DEF DoNotSend, At
  <2>3. \A u \in run[r].staff : u = s
    BY <2>1, <2>2 DEF RunsHold
  <2>4. /\ h.due = run[r].due /\ h.fresh = run[r].fresh
        /\ h.later = run[r].later /\ h.left = run[r].left
        /\ h.staff = {} /\ h.phase = "next" /\ h.threw = run[r].threw
        /\ h.failed = (run[r].failed \/ Mailed(s))
    BY <2>2 DEF After, Running
  <2>5. UNCHANGED <<credentialVars, wants, warnVars>>
    BY <1>3 DEF DoNotSend
  <2>6. StepTo(r, h) /\ h \in Running
    BY <2>1
  <2> HIDE DEF h
  <2>7. \A u \in Staff :
          /\ ~h.failed /\ Mailed(u) /\ u \notin h.left /\ u \notin h.threw
          /\ u \in h.staff => h.phase = "sent"
          => ~run[r].failed /\ DoneWith(r, u)
    BY <2>3, <2>4 DEF DoneWith
  <2>8. \A u \in h.left \cup (IF h.phase = "made" THEN h.staff ELSE {}) : u \in ToBeTold(r)
    BY <2>4 DEF ToBeTold
  <2> QED
    BY <2>2, <2>4, <2>5, <2>6, <2>7, <2>8, WarningsGoOn
<1>4. CASE MarkRow(r)
  <2> DEFINE h == After(r, "next", run[r].failed)
  <2>1. run[r] \in Running /\ run[r] # Idle /\ run[r].phase = "sent"
    BY <1>4, AtBusy DEF MarkRow, At
  <2>2. /\ h.due = run[r].due /\ h.fresh = run[r].fresh
        /\ h.later = run[r].later /\ h.left = run[r].left
        /\ h.staff = {} /\ h.phase = "next" /\ h.threw = run[r].threw
        /\ h.failed = run[r].failed
    BY <2>1 DEF After, Running
  <2>3. UNCHANGED <<credentialVars, wants, warnVars>>
    BY <1>4 DEF MarkRow
  <2>4. StepTo(r, h) /\ h \in Running
    BY <1>4, MarkRowStep
  <2> HIDE DEF h
  <2>5. \A u \in Staff :
          /\ ~h.failed /\ Mailed(u) /\ u \notin h.left /\ u \notin h.threw
          /\ u \in h.staff => h.phase = "sent"
          => ~run[r].failed /\ DoneWith(r, u)
    BY <2>1, <2>2 DEF DoneWith, At
  <2>6. \A u \in h.left \cup (IF h.phase = "made" THEN h.staff ELSE {}) : u \in ToBeTold(r)
    BY <2>2 DEF ToBeTold
  <2> QED
    BY <2>1, <2>2, <2>3, <2>4, <2>5, <2>6, WarningsGoOn
<1> QED
  BY <1>1, <1>2, <1>3, <1>4, WarningsScan, WarningsSend, WarningsStamp, WarningsEnd DEF RunNext

---------------------------------------------------------------------------
(* The theorems.                                                           *)

LEMMA NoticeInit == Init => NoticeInv
<1> SUFFICES ASSUME Init PROVE NoticeInv
  OBVIOUS
<1>1. Never \in 0..Never /\ Window + 1 \in 0..Never /\ ~(Window + 1 <= Window)
  BY WindowAssumption DEF Never
<1>2. TypeOK
  BY <1>1 DEF Init, TypeOK, Used
<1>3. \A r \in Runs : run[r] = Idle
  BY DEF Init
<1>4. Active = {} /\ \A d \in Digests : digest[d] = Idle
  BY <1>3 DEF Active, Init
<1>5. RunsHold
  BY <1>3 DEF RunsHold
<1>6. RowsHold
  BY <1>3, <1>4 DEF RowsHold, Reading, Making, At, Idle, Init
<1>7. StampsHold /\ RunsWarn /\ CoveredHolds
  BY <1>3 DEF StampsHold, RunsWarn, CoveredHolds, Init
<1>8. QuietSince
  BY <1>1 DEF QuietSince, Init
<1>9. DueSince /\ DueStill /\ NoOverlap
  BY <1>4 DEF DueSince, DueStill, NoOverlap
<1> QED
  BY <1>2, <1>5, <1>6, <1>7, <1>8, <1>9 DEF NoticeInv, WarningsHold

LEMMA NoticeStep == NoticeInv /\ [Next]_vars => NoticeInv'
<1> SUFFICES ASSUME NoticeInv, [Next]_vars PROVE NoticeInv'
  OBVIOUS
<1> USE DEF NoticeInv
<1>1. CASE CredentialNext
  <2>1. TypeOK' /\ RunsHold' /\ RowsHold' /\ WarningsHold'
    BY <1>1, CredentialType, RunsHoldCredential, RowsHoldCredential, WarningsCredential
  <2> QED
    BY <2>1
<1>2. ASSUME NEW r \in Runs, RunNext(r) PROVE NoticeInv'
  <2>1. TypeOK' /\ RunsHold' /\ RowsHold' /\ WarningsHold'
    BY <1>2, RunType, RunsHoldStep, RowsHoldStep, WarningsRun
  <2> QED
    BY <2>1
<1>3. ASSUME NEW d \in Digests, DigestNext(d) PROVE NoticeInv'
  <2>1. UNCHANGED <<credentialVars, wants, to, run, warnVars>> /\ mailed \subseteq mailed'
    BY <1>3 DEF DigestNext, DigestRead, DigestSend, DigestMark, DigestFails, GoOut
  <2>2. TypeOK' /\ RunsHold' /\ RowsHold' /\ WarningsHold'
    BY <1>3, <2>1, DigestType, RunsHoldElsewhere, RowsHoldDigest, WarningsElsewhere
  <2> QED
    BY <2>2
<1>4. CASE Tick
  <2>1. UNCHANGED <<rowVars, run, digest>> /\ UNCHANGED <<to, mailed>>
    BY <1>4 DEF Tick, rowVars
  <2>2. TypeOK' /\ RunsHold' /\ RowsHold' /\ WarningsHold'
    BY <1>4, <2>1, TickType, RunsHoldElsewhere, RowsHoldElsewhere, WarningsTick
  <2> QED
    BY <2>2
<1>5. CASE UNCHANGED vars
  <2>1. UNCHANGED <<credentialVars, wants, rowVars, run, digest, warnVars>>
    BY <1>5 DEF vars, credentialVars, rowVars, warnVars
  <2>2. TypeOK'
    BY <2>1 DEF TypeOK, Used, credentialVars, rowVars, warnVars
  <2>3. RunsHold'
    BY <2>1, RunsHoldElsewhere DEF rowVars
  <2>4. RowsHold'
    BY <2>1, RowsHoldElsewhere
  <2>5. WarningsHold'
    BY <2>1, WarningsElsewhere
  <2> QED
    BY <2>2, <2>3, <2>4, <2>5
<1> QED
  BY <1>1, <1>2, <1>3, <1>4, <1>5 DEF Next

\* Runs, rows, stamps and warnings agree, in every reachable state.
THEOREM NoticeInvariant == Spec => []NoticeInv
<1> QED
  BY NoticeInit, NoticeStep, PTL DEF Spec

\* Rows and jobs keep their types, and a row stays one person's.
THEOREM TypeCorrect == Spec => []TypeOK
<1>1. NoticeInv => TypeOK
  BY DEF NoticeInv
<1> QED
  BY <1>1, NoticeInvariant, PTL

\* Nothing counts as mailed that was not: no digest swallows what arrives beside it.
THEOREM StampedMailed == Spec => []StampedWasMailed
<1>1. NoticeInv => StampedWasMailed
  BY DEF NoticeInv, RowsHold, StampedWasMailed
<1> QED
  BY <1>1, NoticeInvariant, PTL

\* A message goes out twice only where a stamp failed or came late, or two jobs had the row
\* in hand at once: for any number of runs and digests that overlap.
THEOREM NoEchoes == Spec => []NoEcho
<1>1. NoticeInv => NoEcho
  BY DEF NoticeInv, RowsHold, NoEcho
<1> QED
  BY <1>1, NoticeInvariant, PTL

\* No credential lapses unannounced, renewed or not: those who take mail were told of the
\* expiry it has, or the stamp of its former expiry is less than a window old.
THEOREM LapsesAnnounced == Spec => LapseIsAnnounced
<1>1. ASSUME NoticeInv, NEW k \in Credentials, NEW s \in Staff,
             expires[k] = 1, k \in covered, Mailed(s)
      PROVE  \/ <<k, s>> \in announced \cup excused
             \/ k \in renewed /\ notified[k] <= Window
  <2>1. InWindow(k)
    BY <1>1, WindowAssumption DEF InWindow
  <2>2. notified[k] <= Window
    BY <1>1, <2>1 DEF NoticeInv, WarningsHold, CoveredHolds
  <2>3. notified[k] # Never
    BY <2>2, WindowAssumption DEF Never
  <2>4. k \notin renewed => <<k, s>> \in announced \cup excused
    BY <1>1, <2>3 DEF NoticeInv, WarningsHold, StampsHold
  <2> QED
    BY <2>2, <2>4
<1>2. NoticeInv /\ [Next]_vars =>
        [\A k \in Credentials, s \in Staff :
           Tick /\ expires[k] = 1 /\ k \in covered /\ Mailed(s) =>
             \/ <<k, s>> \in announced \cup excused
             \/ k \in renewed /\ notified[k] <= Window]_vars
  BY <1>1
<1> QED
  BY <1>2, NoticeInvariant, PTL DEF Spec, LapseIsAnnounced

\* Nobody is told twice within a window, unless the last warning went wrong.
THEOREM ToldOnce == Spec => ToldOncePerCycle
<1>1. ASSUME NoticeInv, NEW k \in Credentials, NEW s \in Staff, NEW r \in Runs,
             Send(r), k \in run[r].due, s \in run[r].staff, warned[k][s] < Window
      PROVE  k \in fault
  <2>1. TypeOK /\ DueSince
    BY <1>1 DEF NoticeInv, WarningsHold
  <2>2. r \in Active /\ s \in ToBeTold(r)
    BY <1>1, <2>1, AtBusy DEF Send, Active, ToBeTold
  <2>3. warned[k][s] \in Nat
    BY <2>1, WindowAssumption DEF TypeOK, Never
  <2>4. SUFFICES ASSUME k \notin fault PROVE FALSE
    OBVIOUS
  <2>5. warned[k][s] >= Window
    BY <1>1, <2>1, <2>2, <2>4 DEF DueSince
  <2> QED
    BY <1>1, <2>3, <2>5, WindowAssumption
<1>2. NoticeInv /\ [Next]_vars =>
        [\A k \in Credentials, s \in Staff :
           /\ \E r \in Runs : Send(r) /\ k \in run[r].due /\ s \in run[r].staff
           /\ warned[k][s] < Window
           => k \in fault]_vars
  BY <1>1
<1> QED
  BY <1>2, NoticeInvariant, PTL DEF Spec, ToldOncePerCycle
=============================================================================
