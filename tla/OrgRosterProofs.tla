---------------------------- MODULE OrgRosterProofs ----------------------------
(* Theorems about OrgRoster, for every set of roster rows, applications,    *)
(* opportunities, shifts, requests and operations.                          *)
EXTENDS OrgRoster, TLAPS

---------------------------------------------------------------------------
(* Types, with what requests rely on: a commit writes what its handler     *)
(* holds.                                                                  *)

LEMMA InFlight ==
  ASSUME TypeOK, NEW r \in Requests, req[r] # Idle
  PROVE  req[r] \in Handler
BY DEF TypeOK

LEMMA AtInFlight ==
  ASSUME TypeOK, NEW r \in Requests, NEW op, NEW phase \in {"read", "updated", "checked", "ensured"},
         At(r, op, phase)
  PROVE  req[r] \in Handler /\ req[r] # Idle
BY DEF TypeOK, At, Idle

LEMMA BeginType ==
  ASSUME TypeOK, NEW r \in Requests, NEW h \in Handler, Begin(r, h)
  PROVE  req' \in [Requests -> Handler \cup {Idle}]
BY DEF TypeOK, Begin

LEMMA FinishType ==
  ASSUME TypeOK, NEW r \in Requests, Finish(r)
  PROVE  /\ req' \in [Requests -> Handler \cup {Idle}]
         /\ lock' \in [Applications -> Requests \cup {None}]
BY DEF TypeOK, Finish

\* A row goes live where none was.
LEMMA GoesLiveType ==
  ASSUME TypeOK, NEW r \in Requests, NEW x \in Rows, Live = {}, GoesLive(r, x)
  PROVE  /\ row' \in [Rows -> {"free", "live", "removed"}]
         /\ Live' = {x}
         /\ inert' \subseteq Live'
<1>1. row' \in [Rows -> {"free", "live", "removed"}] /\ Live' = {x}
  BY DEF TypeOK, GoesLive, Live
<1>2. inert = {}
  BY DEF TypeOK
<1>3. inert' \subseteq {x}
  BY <1>2 DEF GoesLive
<1> QED
  BY <1>1, <1>3

LEMMA CommittingInFlight ==
  ASSUME TypeOK, NEW r \in Requests, NEW op, Committing(r, op)
  PROVE  req[r] \in Handler /\ req[r] # Idle /\ req[r].op = op /\ req[r].phase \in Checked
BY AtInFlight DEF Committing, At, Checked

LEMMA EnsureRosterRowStep ==
  ASSUME TypeOK, NEW r \in Requests, EnsureRosterRow(r)
  PROVE  /\ req[r] \in Handler /\ req[r].op \in {"claim", "status"} /\ req[r].phase = "checked"
         /\ \A q \in Requests \ {r} : req'[q] = req[q]
         /\ req'[r].op = req[r].op /\ req'[r].lifted = req[r].lifted
         /\ req'[r].refused = req[r].refused
<1>1. /\ req[r] \in Handler /\ req[r].op \in {"claim", "status"} /\ req[r].phase = "checked"
  BY AtInFlight DEF EnsureRosterRow, At
<1>2. PICK x \in Rows, i \in BOOLEAN : Ensured(r, x, i)
  BY DEF EnsureRosterRow, Live
<1>3. /\ req'[r] = [req[r] EXCEPT !.phase = "ensured", !.row = x, !.inserts = i]
      /\ \A q \in Requests \ {r} : req'[q] = req[q]
  BY <1>2 DEF Ensured, TypeOK
<1> QED
  BY <1>1, <1>3 DEF Handler

LEMMA CommitRosterRowType ==
  ASSUME TypeOK, RequestsHold, InsertsAlone, NEW r \in Requests, req[r] # Idle,
         CommitRosterRow(r)
  PROVE  /\ row' \in [Rows -> {"free", "live", "removed"}]
         /\ \A x, y \in Live' : x = y
         /\ inert' \subseteq Live'
<1>1. CASE req[r].inserts
  <2>1. req[r].row \in Rows /\ Live = {}
    BY <1>1 DEF RequestsHold, Holds, InsertsAlone, Inserting
  <2> QED
    BY <1>1, <2>1, GoesLiveType DEF CommitRosterRow
<1>2. CASE ~req[r].inserts
  BY <1>2 DEF CommitRosterRow, TypeOK, Live
<1> QED
  BY <1>1, <1>2

LEMMA ViewType ==
  ASSUME NEW op \in AllOps, NEW phase \in {"read", "updated", "checked"}
  PROVE  View(op, phase) \in Handler
BY DEF View, Handler

LEMMA AppType ==
  ASSUME TypeOK, NEW a \in Applications, Exists(a)
  PROVE  app[a] \in AppRecord
BY DEF TypeOK, Exists, AppRecord

\* What staff and the volunteer do to the roster.
LEMMA RosterTypeOK ==
  ASSUME TypeOK, RequestsHold, NEW r \in Requests, RosterNext(r)
  PROVE  TypeOK'
<1> USE DEF roster
<1>1. CASE AddRead(r)
  <2>1. View("add", "checked") \in Handler
    BY ViewType DEF AllOps
  <2>2. req' \in [Requests -> Handler \cup {Idle}]
    BY <1>1, <2>1, BeginType DEF AddRead
  <2> QED
    BY <1>1, <2>2 DEF AddRead, TypeOK, Live
<1>2. ASSUME NEW x \in Rows, AddCommit(r, x) PROVE TypeOK'
  <2>1. /\ req' \in [Requests -> Handler \cup {Idle}]
        /\ lock' \in [Applications -> Requests \cup {None}]
    BY <1>2, FinishType DEF AddCommit
  <2>2. /\ row' \in [Rows -> {"free", "live", "removed"}]
        /\ Live' = {x}
        /\ inert' \subseteq Live'
    BY <1>2, GoesLiveType DEF AddCommit
  <2> QED
    BY <1>2, <2>1, <2>2 DEF AddCommit, TypeOK
<1>3. ASSUME NEW x \in Rows, RestoreRead(r, x) PROVE TypeOK'
  <2> DEFINE h == [View("restore", "checked") EXCEPT !.row = x]
  <2>1. h \in Handler
    BY DEF View, Handler, AllOps
  <2>2. req' \in [Requests -> Handler \cup {Idle}]
    BY <1>3, <2>1, BeginType DEF RestoreRead
  <2> QED
    BY <1>3, <2>2 DEF RestoreRead, TypeOK, Live
<1>4. CASE RestoreCommit(r)
  <2>1. req[r] # Idle /\ req[r].op = "restore"
    BY <1>4 DEF RestoreCommit, At, Idle
  <2>2. req[r].row \in Rows
    BY <2>1 DEF RequestsHold, Holds
  <2>3. /\ req' \in [Requests -> Handler \cup {Idle}]
        /\ lock' \in [Applications -> Requests \cup {None}]
    BY <1>4, FinishType DEF RestoreCommit
  <2>4. /\ row' \in [Rows -> {"free", "live", "removed"}]
        /\ Live' = {req[r].row}
        /\ inert' \subseteq Live'
    BY <1>4, <2>2, GoesLiveType DEF RestoreCommit
  <2> QED
    BY <1>4, <2>3, <2>4 DEF RestoreCommit, TypeOK
<1>5. CASE LeaveRead(r)
  <2>1. PICK x \in IF Live = {} THEN {None} ELSE Live :
          Begin(r, [View("leave", "checked") EXCEPT !.row = x])
    BY <1>5 DEF LeaveRead
  <2>2. x \in Rows \cup {None}
    BY <2>1 DEF Live
  <2> DEFINE h == [View("leave", "checked") EXCEPT !.row = x]
  <2>3. h \in Handler
    BY <2>2 DEF View, Handler, AllOps
  <2>4. req' \in [Requests -> Handler \cup {Idle}]
    BY <2>1, <2>3, BeginType
  <2> QED
    BY <1>5, <2>4 DEF LeaveRead, TypeOK, Live
<1>6. CASE LeaveCommit(r)
  <2>1. /\ req' \in [Requests -> Handler \cup {Idle}]
        /\ lock' \in [Applications -> Requests \cup {None}]
    BY <1>6, FinishType DEF LeaveCommit
  <2>2. Live' = Live \ {req[r].row} /\ row' \in [Rows -> {"free", "live", "removed"}]
    BY <1>6 DEF LeaveCommit, TypeOK, Live
  <2>3. inert' \subseteq Live' /\ \A x, y \in Live' : x = y
    BY <1>6, <2>2 DEF LeaveCommit, TypeOK
  <2> QED
    BY <1>6, <2>1, <2>2, <2>3 DEF LeaveCommit, TypeOK
<1> QED
  BY <1>1, <1>2, <1>3, <1>4, <1>5, <1>6 DEF RosterNext

\* Claims, withdrawals and the pipeline.
LEMMA ApplicationTypeOK ==
  ASSUME TypeOK, RequestsHold, InsertsAlone, NEW r \in Requests, ApplicationNext(r)
  PROVE  TypeOK'
<1> USE DEF roster
<1>1. ASSUME NEW a \in Applications, ClaimUpdate(r, a) PROVE TypeOK'
  <2> DEFINE h == [View("claim", "updated") EXCEPT !.application = a, !.lifted = block]
  <2>1. h \in Handler
    BY DEF View, Handler, AllOps, TypeOK
  <2>2. req' \in [Requests -> Handler \cup {Idle}]
    BY <1>1, <2>1, BeginType DEF ClaimUpdate
  <2> QED
    BY <1>1, <2>2 DEF ClaimUpdate, TypeOK, Live
<1>2. ASSUME NEW a \in Applications, WithdrawRead(r, a) PROVE TypeOK'
  <2> DEFINE h == [View("withdraw", "checked") EXCEPT !.application = a]
  <2>1. h \in Handler
    BY DEF View, Handler, AllOps
  <2>2. req' \in [Requests -> Handler \cup {Idle}]
    BY <1>2, <2>1, BeginType DEF WithdrawRead
  <2> QED
    BY <1>2, <2>2 DEF WithdrawRead, TypeOK, Live
<1>3. ASSUME NEW a \in Applications, NEW to \in ApplicationStatus, StatusRead(r, a, to)
      PROVE  TypeOK'
  <2> DEFINE h == [View("status", "read") EXCEPT !.application = a, !.to = to,
                                                 !.prev = app[a].status]
  <2>1. app[a].status \in ApplicationStatus
    BY <1>3, AppType DEF StatusRead, AppRecord
  <2>2. h \in Handler
    BY <2>1 DEF View, Handler, AllOps
  <2>3. req' \in [Requests -> Handler \cup {Idle}]
    BY <1>3, <2>2, BeginType DEF StatusRead
  <2> QED
    BY <1>3, <2>3 DEF StatusRead, TypeOK, Live
<1>4. CASE ClaimCheck(r)
  <2>1. req[r] \in Handler
    BY <1>4, AtInFlight DEF ClaimCheck
  <2>2. [req[r] EXCEPT !.phase = "checked", !.refused = block /\ ~req[r].lifted] \in Handler
    BY <2>1 DEF Handler, TypeOK
  <2>3. req' \in [Requests -> Handler \cup {Idle}]
    BY <1>4, <2>2 DEF ClaimCheck, TypeOK
  <2> QED
    BY <1>4, <2>3 DEF ClaimCheck, TypeOK, Live
<1>5. CASE ClaimCommit(r)
  <2> DEFINE a == req[r].application
  <2>1. a \in Applications /\ Exists(a)
    BY <1>5, CommittingInFlight DEF ClaimCommit, RequestsHold, Holds
  <2>2. [app[a] EXCEPT !.bound = TRUE] \in AppRecord
    BY <2>1, AppType DEF AppRecord
  <2>3. app' \in [Applications -> {None} \cup AppRecord]
    BY <1>5, <2>1, <2>2 DEF ClaimCommit, TypeOK, AppRecord
  <2>4. /\ req' \in [Requests -> Handler \cup {Idle}]
        /\ lock' \in [Applications -> Requests \cup {None}]
    BY <1>5, FinishType DEF ClaimCommit
  <2>5. /\ row' \in [Rows -> {"free", "live", "removed"}]
        /\ \A x, y \in Live' : x = y
        /\ inert' \subseteq Live'
    BY <1>5, CommittingInFlight, CommitRosterRowType DEF ClaimCommit
  <2>6. block' \in BOOLEAN
    BY <1>5 DEF ClaimCommit
  <2> QED
    BY <1>5, <2>3, <2>4, <2>5, <2>6 DEF ClaimCommit, TypeOK, AppRecord
<1>6. CASE WithdrawCommit(r)
  <2> DEFINE a == req[r].application
  <2>1. a \in Applications /\ Exists(a)
    BY <1>6, AtInFlight DEF WithdrawCommit, RequestsHold, Holds, At
  <2>2. [app[a] EXCEPT !.status = "REJECTED"] \in AppRecord
    BY <2>1, AppType DEF AppRecord, ApplicationStatus
  <2>3. app' \in [Applications -> {None} \cup AppRecord]
    BY <1>6, <2>1, <2>2 DEF WithdrawCommit, TypeOK, AppRecord
  <2>4. /\ req' \in [Requests -> Handler \cup {Idle}]
        /\ lock' \in [Applications -> Requests \cup {None}]
    BY <1>6, FinishType DEF WithdrawCommit
  <2> QED
    BY <1>6, <2>3, <2>4 DEF WithdrawCommit, TypeOK, AppRecord, Live
<1>7. CASE StatusUpdate(r)
  <2> DEFINE a == req[r].application
  <2>1. req[r] \in Handler /\ a \in Applications /\ Exists(a)
    BY <1>7, AtInFlight DEF StatusUpdate, RequestsHold, Holds, At
  <2>2. app[a].bound \in BOOLEAN
    BY <2>1, AppType DEF AppRecord
  <2>3. [req[r] EXCEPT !.phase = "checked", !.refused = block, !.bound = app[a].bound]
          \in Handler
    BY <2>1, <2>2 DEF Handler, TypeOK
  <2>4. req' \in [Requests -> Handler \cup {Idle}]
    BY <1>7, <2>3 DEF StatusUpdate, TypeOK
  <2> QED
    BY <1>7, <2>4 DEF StatusUpdate, TypeOK, Live
<1>8. CASE StatusCommit(r)
  <2> DEFINE a == req[r].application
  <2>1. a \in Applications /\ Exists(a) /\ req[r].to \in ApplicationStatus
    BY <1>8, CommittingInFlight DEF StatusCommit, RequestsHold, Holds
  <2>2. [app[a] EXCEPT !.status = req[r].to] \in AppRecord
    BY <2>1, AppType DEF AppRecord
  <2>3. app' \in [Applications -> {None} \cup AppRecord]
    BY <1>8, <2>1, <2>2 DEF StatusCommit, TypeOK, AppRecord
  <2>4. /\ req' \in [Requests -> Handler \cup {Idle}]
        /\ lock' \in [Applications -> Requests \cup {None}]
    BY <1>8, FinishType DEF StatusCommit
  <2>5. /\ row' \in [Rows -> {"free", "live", "removed"}]
        /\ \A x, y \in Live' : x = y
        /\ inert' \subseteq Live'
    BY <1>8, CommittingInFlight, CommitRosterRowType DEF StatusCommit
  <2> QED
    BY <1>8, <2>3, <2>4, <2>5 DEF StatusCommit, TypeOK, AppRecord
<1>9. CASE EnsureRosterRow(r)
  <2>1. PICK x \in Rows, i \in BOOLEAN : Ensured(r, x, i)
    BY <1>9 DEF EnsureRosterRow, Live
  <2>2. req[r] \in Handler
    BY <1>9, AtInFlight DEF EnsureRosterRow
  <2>3. [req[r] EXCEPT !.phase = "ensured", !.row = x, !.inserts = i] \in Handler
    BY <2>2 DEF Handler
  <2>4. req' \in [Requests -> Handler \cup {Idle}]
    BY <2>1, <2>3 DEF Ensured, TypeOK
  <2> QED
    BY <1>9, <2>4 DEF EnsureRosterRow, TypeOK, Live
<1> QED
  BY <1>1, <1>2, <1>3, <1>4, <1>5, <1>6, <1>7, <1>8, <1>9 DEF ApplicationNext

LEMMA OtherTypeOK ==
  ASSUME TypeOK, RequestsHold, OtherNext
  PROVE  TypeOK'
<1> USE DEF roster
<1>1. ASSUME NEW r \in Requests, AssignCommit(r) PROVE TypeOK'
  <2>1. req[r].shift \in Shifts
    BY <1>1, AtInFlight DEF AssignCommit, RequestsHold, Holds, At
  <2>2. /\ req' \in [Requests -> Handler \cup {Idle}]
        /\ lock' \in [Applications -> Requests \cup {None}]
    BY <1>1, FinishType DEF AssignCommit
  <2> QED
    BY <1>1, <2>1, <2>2 DEF AssignCommit, TypeOK, Live
<1>2. ASSUME NEW r \in Requests, NEW s \in Shifts, AssignRead(r, s) PROVE TypeOK'
  <2> DEFINE h == [View("assign", "checked") EXCEPT !.shift = s]
  <2>1. h \in Handler
    BY DEF View, Handler, AllOps
  <2>2. req' \in [Requests -> Handler \cup {Idle}]
    BY <1>2, <2>1, BeginType DEF AssignRead
  <2> QED
    BY <1>2, <2>2 DEF AssignRead, TypeOK, Live
<1>3. ASSUME NEW r \in Requests, Rollback(r) PROVE TypeOK'
  <2>1. /\ req' \in [Requests -> Handler \cup {Idle}]
        /\ lock' \in [Applications -> Requests \cup {None}]
    BY <1>3, FinishType DEF Rollback
  <2> QED
    BY <1>3, <2>1 DEF Rollback, TypeOK, Live
<1>4. ASSUME NEW s \in Shifts, SignUp(s) PROVE TypeOK'
  BY <1>4 DEF SignUp, TypeOK, Live
<1>5. ASSUME NEW x \in Rows, RemoveVolunteer(x) PROVE TypeOK'
  <2>1. Live' = Live \ {x} /\ row' \in [Rows -> {"free", "live", "removed"}]
    BY <1>5 DEF RemoveVolunteer, TypeOK, Live
  <2> QED
    BY <1>5, <2>1 DEF RemoveVolunteer, TypeOK
<1>6. ASSUME NEW a \in Applications, Decline(a) PROVE TypeOK'
  <2>1. [app[a] EXCEPT !.declined = TRUE] \in AppRecord
    BY <1>6, AppType DEF Decline, AppRecord
  <2>2. app' \in [Applications -> {None} \cup AppRecord]
    BY <1>6, <2>1 DEF Decline, TypeOK, AppRecord
  <2> QED
    BY <1>6, <2>2 DEF Decline, TypeOK, AppRecord, Live
<1>7. ASSUME NEW a \in Applications, NEW bound \in BOOLEAN, Submit(a, bound), block' \in BOOLEAN
      PROVE  TypeOK'
  <2>1. app' \in [Applications -> {None} \cup AppRecord]
    BY <1>7 DEF Submit, TypeOK, AppRecord, ApplicationStatus
  <2> QED
    BY <1>7, <2>1 DEF Submit, TypeOK, AppRecord, Live
<1>8. ASSUME NEW a \in Applications, SubmitOwn(a) \/ SubmitAnonymous(a) PROVE TypeOK'
  BY <1>7, <1>8 DEF SubmitOwn, SubmitAnonymous, TypeOK
<1> QED
  BY <1>1, <1>2, <1>3, <1>4, <1>5, <1>6, <1>8 DEF OtherNext

---------------------------------------------------------------------------
(* What requests rely on.                                                  *)

\* A row that was there is never gone again, and one that someone inserts is left to them.
RowsKept(others) ==
  /\ \A x \in Rows : row[x] # "free" => row'[x] # "free"
  /\ \A q \in others : Inserting(q) => row'[req[q].row] = row[req[q].row]

LEMMA GoesLiveKeeps ==
  ASSUME TypeOK, NEW r \in Requests, NEW x \in Rows, GoesLive(r, x),
         \A q \in Requests \ {r} : ~Inserting(q)
  PROVE  RowsKept(Requests \ {r})
BY DEF RowsKept, GoesLive, TypeOK

LEMMA RemovalKeeps ==
  ASSUME TypeOK, RequestsHold,
         \A x \in Rows : row'[x] = row[x] \/ (row[x] = "live" /\ row'[x] = "removed")
  PROVE  RowsKept(Requests)
<1>1. ASSUME NEW q \in Requests, Inserting(q) PROVE row'[req[q].row] = row[req[q].row]
  <2>1. req[q].row \in Rows /\ row[req[q].row] = "free"
    BY <1>1 DEF RequestsHold, Holds, Inserting
  <2> QED
    BY <2>1
<1> QED
  BY <1>1 DEF RowsKept, TypeOK

LEMMA CommitRosterRowKeeps ==
  ASSUME TypeOK, RequestsHold, InsertsAlone, NEW r \in Requests, req[r] # Idle,
         CommitRosterRow(r)
  PROVE  RowsKept(Requests \ {r})
<1>1. CASE req[r].inserts
  <2>1. req[r].row \in Rows /\ \A q \in Requests \ {r} : ~Inserting(q)
    BY <1>1 DEF RequestsHold, Holds, InsertsAlone, Inserting
  <2> QED
    BY <1>1, <2>1, GoesLiveKeeps DEF CommitRosterRow
<1>2. CASE ~req[r].inserts
  BY <1>2 DEF CommitRosterRow, RowsKept
<1> QED
  BY <1>1, <1>2

\* A request that does nothing keeps what it holds, if nobody writes what it has locked.
LEMMA StillHolds ==
  ASSUME TypeOK, NEW q \in Requests, Holds(q), req'[q] = req[q], RowsKept({q}),
         \A a \in Applications : Exists(a) => Exists(a)',
         \A a \in Applications : Exists(a) /\ lock[a] = q =>
           /\ lock'[a] = q
           /\ app'[a].declined = app[a].declined
           /\ app'[a].bound = app[a].bound
  PROVE  Holds(q)'
<1>1. SUFFICES ASSUME req[q] # Idle
      PROVE  Holds(q)'
  BY DEF Holds
<1> DEFINE h == req[q]
<1>2. h.phase = "ensured" => h.row \in Rows /\ h.inserts = (row'[h.row] = "free")
  <2>1. h.phase = "ensured" => h.row \in Rows /\ h.inserts = (row[h.row] = "free")
    BY <1>1 DEF Holds
  <2>2. h.inserts => row'[h.row] = row[h.row]
    BY <1>1 DEF RowsKept, Inserting
  <2>3. h.inserts \in BOOLEAN
    BY <1>1, InFlight DEF Handler
  <2> QED
    BY <2>1, <2>2, <2>3 DEF RowsKept
<1> QED
  BY <1>1, <1>2 DEF Holds

\* A step that only begins a request, or moves it on.
LEMMA ReadHolds ==
  ASSUME TypeOK, RequestsHold, NEW r \in Requests, NEW h, req' = [req EXCEPT ![r] = h],
         app' = app, row' = row,
         \A a \in Applications : lock[a] # None => lock'[a] = lock[a],
         Holds(r)'
  PROVE  RequestsHold'
<1>0. \A q : RowsKept({q})
  BY DEF RowsKept
<1>1. ASSUME NEW q \in Requests \ {r} PROVE Holds(q)'
  <2>1. req'[q] = req[q] /\ Holds(q)
    BY DEF TypeOK, RequestsHold
  <2>2. \A a \in Applications : Exists(a) => Exists(a)'
    BY DEF Exists
  <2>3. \A a \in Applications : Exists(a) /\ lock[a] = q =>
          lock'[a] = q /\ app'[a].declined = app[a].declined /\ app'[a].bound = app[a].bound
    BY NoneAssumption
  <2> QED
    BY <1>0, <2>1, <2>2, <2>3, StillHolds
<1> QED
  BY <1>1 DEF RequestsHold

\* A commit, which writes at most one application that nobody else has locked.
LEMMA CommitHolds ==
  ASSUME TypeOK, RequestsHold, NEW r \in Requests, Finish(r), RowsKept(Requests \ {r}),
         NEW b, b \in Applications => lock[b] \in {None, r} /\ (Exists(b) => Exists(b)'),
         \A a \in Applications \ {b} : app'[a] = app[a]
  PROVE  RequestsHold'
<1>1. ASSUME NEW q \in Requests \ {r} PROVE Holds(q)'
  <2>1. req'[q] = req[q] /\ Holds(q)
    BY DEF TypeOK, RequestsHold, Finish
  <2>2. \A a \in Applications : Exists(a) => Exists(a)'
    BY DEF Exists
  <2>3. \A a \in Applications : Exists(a) /\ lock[a] = q =>
          lock'[a] = q /\ app'[a].declined = app[a].declined /\ app'[a].bound = app[a].bound
    BY NoneAssumption DEF Finish
  <2>4. RowsKept({q})
    BY DEF RowsKept
  <2> QED
    BY <2>1, <2>2, <2>3, <2>4, StillHolds
<1>2. Holds(r)'
  BY DEF Finish, TypeOK, Holds
<1> QED
  BY <1>1, <1>2 DEF RequestsHold

\* A step without a request writes at most one application that nobody has locked.
LEMMA WriteHolds ==
  ASSUME TypeOK, RequestsHold, req' = req, lock' = lock, RowsKept(Requests),
         NEW b, b \in Applications => ~Exists(b) \/ (lock[b] = None /\ Exists(b)'),
         \A a \in Applications \ {b} : app'[a] = app[a]
  PROVE  RequestsHold'
<1>1. ASSUME NEW q \in Requests PROVE Holds(q)'
  <2>1. Holds(q)
    BY DEF RequestsHold
  <2>2. \A a \in Applications : Exists(a) => Exists(a)'
    BY DEF Exists
  <2>3. \A a \in Applications : Exists(a) /\ lock[a] = q =>
          lock'[a] = q /\ app'[a].declined = app[a].declined /\ app'[a].bound = app[a].bound
    BY NoneAssumption
  <2>4. RowsKept({q})
    BY DEF RowsKept
  <2> QED
    BY <2>1, <2>2, <2>3, <2>4, StillHolds
<1> QED
  BY <1>1 DEF RequestsHold

LEMMA RosterHolds ==
  ASSUME TypeOK, RequestsHold, InsertsAlone, NEW r \in Requests, RosterNext(r)
  PROVE  RequestsHold'
<1> USE DEF roster
<1>1. CASE AddRead(r)
  <2>1. Holds(r)'
    BY <1>1 DEF AddRead, Begin, View, Holds, TypeOK
  <2> QED
    BY <1>1, <2>1, ReadHolds DEF AddRead, Begin
<1>2. ASSUME NEW x \in Rows, RestoreRead(r, x) PROVE RequestsHold'
  <2>1. Holds(r)'
    BY <1>2 DEF RestoreRead, Begin, View, Holds, TypeOK
  <2> QED
    BY <1>2, <2>1, ReadHolds DEF RestoreRead, Begin
<1>3. CASE LeaveRead(r)
  <2>1. PICK x \in IF Live = {} THEN {None} ELSE Live :
          Begin(r, [View("leave", "checked") EXCEPT !.row = x])
    BY <1>3 DEF LeaveRead
  <2>2. Holds(r)'
    BY <2>1 DEF Begin, View, Holds, TypeOK
  <2> QED
    BY <1>3, <2>1, <2>2, ReadHolds DEF LeaveRead, Begin
<1>4. ASSUME (\E x \in Rows : AddCommit(r, x)) \/ RestoreCommit(r) \/ LeaveCommit(r)
      PROVE  RequestsHold'
  <2>1. Finish(r) /\ app' = app
    BY <1>4 DEF AddCommit, RestoreCommit, LeaveCommit
  <2>2. ASSUME NEW x \in Rows, AddCommit(r, x) PROVE RowsKept(Requests \ {r})
    BY <2>2, GoesLiveKeeps DEF AddCommit, NobodyInserts
  <2>3. ASSUME RestoreCommit(r) PROVE RowsKept(Requests \ {r})
    <3>1. req[r].row \in Rows
      BY <2>3, AtInFlight DEF RestoreCommit, At, RequestsHold, Holds
    <3> QED
      BY <2>3, <3>1, GoesLiveKeeps DEF RestoreCommit, NobodyInserts
  <2>4. ASSUME LeaveCommit(r) PROVE RowsKept(Requests \ {r})
    <3>1. \A x \in Rows : row'[x] = row[x] \/ (row[x] = "live" /\ row'[x] = "removed")
      BY <2>4 DEF LeaveCommit
    <3>2. RowsKept(Requests)
      BY <3>1, RemovalKeeps
    <3> QED
      BY <3>2 DEF RowsKept
  <2>5. RowsKept(Requests \ {r})
    BY <1>4, <2>2, <2>3, <2>4
  <2> QED
    BY <2>1, <2>5, NoneAssumption, CommitHolds
<1> QED
  BY <1>1, <1>2, <1>3, <1>4 DEF RosterNext

LEMMA NewExists ==
  ASSUME TypeOK, NEW a \in Applications, NEW new \in AppRecord, app' = [app EXCEPT ![a] = new]
  PROVE  Exists(a)'
<1>1. app'[a] = new
  BY DEF TypeOK
<1>2. new # None
  BY NoneAssumption
<1> QED
  BY <1>1, <1>2 DEF Exists

LEMMA ApplicationHolds ==
  ASSUME TypeOK, RequestsHold, InsertsAlone, DeclinedIsNotBound, NEW r \in Requests,
         ApplicationNext(r)
  PROVE  RequestsHold'
<1> USE DEF roster
<1>1. ASSUME NEW a \in Applications, ClaimUpdate(r, a) PROVE RequestsHold'
  <2>1. Holds(r)'
    BY <1>1 DEF ClaimUpdate, Begin, View, Holds, Exists, TypeOK
  <2> QED
    BY <1>1, <2>1, ReadHolds DEF ClaimUpdate, Begin, RowFree, TypeOK
<1>2. ASSUME NEW a \in Applications, WithdrawRead(r, a) PROVE RequestsHold'
  <2>1. Holds(r)'
    BY <1>2 DEF WithdrawRead, Begin, View, Holds, Bound, Exists, TypeOK
  <2> QED
    BY <1>2, <2>1, ReadHolds DEF WithdrawRead, Begin
<1>3. ASSUME NEW a \in Applications, NEW to \in ApplicationStatus, StatusRead(r, a, to)
      PROVE  RequestsHold'
  <2>1. Holds(r)'
    BY <1>3 DEF StatusRead, Begin, View, Holds, Exists, TypeOK, Checked
  <2> QED
    BY <1>3, <2>1, ReadHolds DEF StatusRead, Begin
<1>4. CASE ClaimCheck(r)
  <2>1. req[r] \in Handler /\ req[r] # Idle /\ Holds(r)
    BY <1>4, AtInFlight DEF ClaimCheck, RequestsHold
  <2>2. Holds(r)'
    BY <1>4, <2>1 DEF ClaimCheck, At, Holds, Exists, TypeOK, Handler, Checked
  <2> QED
    BY <1>4, <2>2, ReadHolds DEF ClaimCheck
<1>5. CASE StatusUpdate(r)
  <2>1. req[r] \in Handler /\ req[r] # Idle /\ Holds(r)
    BY <1>5, AtInFlight DEF StatusUpdate, RequestsHold
  <2>2. Holds(r)'
    BY <1>5, <2>1 DEF StatusUpdate, At, Holds, Exists, TypeOK, Handler, Checked
  <2> QED
    BY <1>5, <2>2, ReadHolds DEF StatusUpdate, RowFree, TypeOK
<1>6. ASSUME NEW a \in Applications, a = req[r].application, Exists(a), lock[a] \in {None, r},
             Finish(r), RowsKept(Requests \ {r}),
             NEW new \in AppRecord, app' = [app EXCEPT ![a] = new]
      PROVE  RequestsHold'
  <2>1. \A b \in Applications \ {a} : app'[b] = app[b]
    BY <1>6 DEF TypeOK
  <2>2. Exists(a)'
    BY <1>6, NewExists
  <2> QED
    BY <1>6, <2>1, <2>2, CommitHolds
<1>7. CASE ClaimCommit(r)
  <2> DEFINE a == req[r].application
  <2>1. a \in Applications /\ Exists(a) /\ lock[a] = r
    BY <1>7, CommittingInFlight DEF ClaimCommit, RequestsHold, Holds
  <2>2. [app[a] EXCEPT !.bound = TRUE] \in AppRecord
    BY <2>1, AppType DEF AppRecord
  <2>3. RowsKept(Requests \ {r})
    BY <1>7, CommittingInFlight, CommitRosterRowKeeps DEF ClaimCommit
  <2> QED
    BY <1>6, <1>7, <2>1, <2>2, <2>3 DEF ClaimCommit
<1>8. CASE WithdrawCommit(r)
  <2> DEFINE a == req[r].application
  <2>1. a \in Applications /\ Exists(a)
    BY <1>8, AtInFlight DEF WithdrawCommit, RequestsHold, Holds, At
  <2>2. [app[a] EXCEPT !.status = "REJECTED"] \in AppRecord
    BY <2>1, AppType DEF AppRecord, ApplicationStatus
  <2>3. RowsKept(Requests \ {r})
    BY <1>8 DEF WithdrawCommit, RowsKept
  <2> QED
    BY <1>6, <1>8, <2>1, <2>2, <2>3 DEF WithdrawCommit, RowFree
<1>9. CASE StatusCommit(r)
  <2> DEFINE a == req[r].application
  <2>1. a \in Applications /\ Exists(a) /\ lock[a] = r /\ req[r].to \in ApplicationStatus
    BY <1>9, CommittingInFlight DEF StatusCommit, RequestsHold, Holds
  <2>2. [app[a] EXCEPT !.status = req[r].to] \in AppRecord
    BY <2>1, AppType DEF AppRecord
  <2>3. RowsKept(Requests \ {r})
    BY <1>9, CommittingInFlight, CommitRosterRowKeeps DEF StatusCommit
  <2> QED
    BY <1>6, <1>9, <2>1, <2>2, <2>3 DEF StatusCommit
<1>10. CASE EnsureRosterRow(r)
  <2>1. PICK x \in Rows, i \in BOOLEAN : Ensured(r, x, i) /\ i = (row[x] = "free")
    BY <1>10 DEF EnsureRosterRow, Live
  <2>2. /\ req[r] \in Handler /\ req[r] # Idle /\ Holds(r)
        /\ req[r].op \in {"claim", "status"} /\ req[r].phase = "checked"
        /\ ~req[r].refused
    BY <1>10, AtInFlight DEF EnsureRosterRow, Ensures, At, RequestsHold
  <2>3. Holds(r)'
    BY <1>10, <2>1, <2>2
    DEF EnsureRosterRow, Ensured, Holds, Exists, TypeOK, Handler, Checked
  <2> QED
    BY <1>10, <2>1, <2>3, ReadHolds DEF EnsureRosterRow, Ensured
<1> QED
  BY <1>1, <1>2, <1>3, <1>4, <1>5, <1>7, <1>8, <1>9, <1>10 DEF ApplicationNext

LEMMA OtherHolds ==
  ASSUME TypeOK, RequestsHold, OtherNext
  PROVE  RequestsHold'
<1> USE DEF roster
<1>1. ASSUME NEW r \in Requests, AssignCommit(r) \/ Rollback(r) PROVE RequestsHold'
  <2>1. Finish(r) /\ app' = app
    BY <1>1 DEF AssignCommit, Rollback
  <2>2. RowsKept(Requests \ {r})
    BY <1>1 DEF AssignCommit, Rollback, RowsKept
  <2> QED
    BY <2>1, <2>2, NoneAssumption, CommitHolds
<1>2. ASSUME NEW r \in Requests, NEW s \in Shifts, AssignRead(r, s) PROVE RequestsHold'
  <2>1. Holds(r)'
    BY <1>2 DEF AssignRead, Begin, View, Holds, TypeOK
  <2> QED
    BY <1>2, <2>1, ReadHolds DEF AssignRead, Begin
<1>3. ASSUME (\E s \in Shifts : SignUp(s)) \/ (\E x \in Rows : RemoveVolunteer(x))
      PROVE  RequestsHold'
  <2>1. app' = app /\ req' = req /\ lock' = lock
    BY <1>3 DEF SignUp, RemoveVolunteer
  <2>2. RowsKept(Requests)
    BY <1>3, RemovalKeeps DEF SignUp, RemoveVolunteer, TypeOK
  <2> QED
    BY <2>1, <2>2, NoneAssumption, WriteHolds
<1>4. ASSUME NEW a \in Applications, Decline(a) PROVE RequestsHold'
  <2>1. [app[a] EXCEPT !.declined = TRUE] \in AppRecord
    BY <1>4, AppType DEF Decline, AppRecord
  <2>2. Exists(a)'
    BY <1>4, <2>1, NewExists DEF Decline
  <2>3. lock[a] = None /\ req' = req /\ lock' = lock /\ \A b \in Applications \ {a} : app'[b] = app[b]
    BY <1>4 DEF Decline, RowFree, TypeOK
  <2>4. RowsKept(Requests)
    BY <1>4 DEF Decline, RowsKept
  <2> QED
    BY <2>2, <2>3, <2>4, WriteHolds
<1>5. ASSUME NEW a \in Applications, SubmitOwn(a) \/ SubmitAnonymous(a) PROVE RequestsHold'
  <2>1. ~Exists(a) /\ req' = req /\ lock' = lock /\ \A b \in Applications \ {a} : app'[b] = app[b]
    BY <1>5 DEF SubmitOwn, SubmitAnonymous, Submit, TypeOK
  <2>2. RowsKept(Requests)
    BY <1>5 DEF SubmitOwn, SubmitAnonymous, Submit, RowsKept
  <2> QED
    BY <2>1, <2>2, WriteHolds
<1> QED
  BY <1>1, <1>2, <1>3, <1>4, <1>5 DEF OtherNext

---------------------------------------------------------------------------
(* Inserts wait for each other, and for whoever makes a row live.          *)

LEMMA StillAlone ==
  ASSUME InsertsAlone, Live' \subseteq Live,
         \A q \in Requests : Inserting(q)' => Inserting(q)
  PROVE  InsertsAlone'
BY DEF InsertsAlone

LEMMA BeginAlone ==
  ASSUME TypeOK, InsertsAlone, NEW r \in Requests, NEW h, ~h.inserts, Begin(r, h), row' = row
  PROVE  InsertsAlone'
BY StillAlone DEF Begin, Inserting, TypeOK, Live

LEMMA FinishInserts ==
  ASSUME TypeOK, NEW r \in Requests, Finish(r)
  PROVE  \A q \in Requests : Inserting(q)' => q # r /\ Inserting(q)
BY DEF Finish, Inserting, TypeOK

\* Once the one that inserts has committed nobody does.
LEMMA CommitAlone ==
  ASSUME TypeOK, InsertsAlone, NEW r \in Requests, req[r] # Idle, Finish(r),
         CommitRosterRow(r)
  PROVE  InsertsAlone'
<1>1. CASE req[r].inserts
  BY <1>1, FinishInserts DEF InsertsAlone, Inserting
<1>2. CASE ~req[r].inserts
  BY <1>2, FinishInserts, StillAlone DEF CommitRosterRow, Live
<1> QED
  BY <1>1, <1>2

LEMMA RosterAlone ==
  ASSUME TypeOK, InsertsAlone, NEW r \in Requests, RosterNext(r)
  PROVE  InsertsAlone'
<1> USE DEF roster
<1>1. CASE AddRead(r)
  <2>1. ~View("add", "checked").inserts
    BY DEF View
  <2> QED
    BY <1>1, <2>1, BeginAlone DEF AddRead
<1>2. ASSUME NEW x \in Rows, RestoreRead(r, x) PROVE InsertsAlone'
  <2>1. ~[View("restore", "checked") EXCEPT !.row = x].inserts
    BY DEF View
  <2> QED
    BY <1>2, <2>1, BeginAlone DEF RestoreRead
<1>3. CASE LeaveRead(r)
  <2>1. PICK x \in IF Live = {} THEN {None} ELSE Live :
          Begin(r, [View("leave", "checked") EXCEPT !.row = x])
    BY <1>3 DEF LeaveRead
  <2>2. ~[View("leave", "checked") EXCEPT !.row = x].inserts
    BY DEF View
  <2> QED
    BY <1>3, <2>1, <2>2, BeginAlone DEF LeaveRead
<1>4. CASE (\E x \in Rows : AddCommit(r, x)) \/ RestoreCommit(r)
  BY <1>4, FinishInserts DEF AddCommit, RestoreCommit, NobodyInserts, InsertsAlone
<1>5. CASE LeaveCommit(r)
  <2>1. Live' \subseteq Live
    BY <1>5 DEF LeaveCommit, TypeOK, Live
  <2> QED
    BY <1>5, <2>1, FinishInserts, StillAlone DEF LeaveCommit
<1> QED
  BY <1>1, <1>2, <1>3, <1>4, <1>5 DEF RosterNext

LEMMA ApplicationAlone ==
  ASSUME TypeOK, InsertsAlone, NEW r \in Requests, ApplicationNext(r)
  PROVE  InsertsAlone'
<1> USE DEF roster
<1>1. ASSUME NEW a \in Applications, ClaimUpdate(r, a) PROVE InsertsAlone'
  <2>1. ~[View("claim", "updated") EXCEPT !.application = a, !.lifted = block].inserts
    BY DEF View
  <2> QED
    BY <1>1, <2>1, BeginAlone DEF ClaimUpdate
<1>2. ASSUME NEW a \in Applications, WithdrawRead(r, a) PROVE InsertsAlone'
  <2>1. ~[View("withdraw", "checked") EXCEPT !.application = a].inserts
    BY DEF View
  <2> QED
    BY <1>2, <2>1, BeginAlone DEF WithdrawRead
<1>3. ASSUME NEW a \in Applications, NEW to \in ApplicationStatus, StatusRead(r, a, to)
      PROVE  InsertsAlone'
  <2>1. ~[View("status", "read") EXCEPT !.application = a, !.to = to,
                                        !.prev = app[a].status].inserts
    BY DEF View
  <2> QED
    BY <1>3, <2>1, BeginAlone DEF StatusRead
<1>4. CASE ClaimCheck(r) \/ StatusUpdate(r)
  <2>1. req[r] \in Handler /\ req[r] # Idle
    BY <1>4, AtInFlight DEF ClaimCheck, StatusUpdate
  <2>2. req'[r].inserts = req[r].inserts /\ \A q \in Requests \ {r} : req'[q] = req[q]
    BY <1>4, <2>1 DEF ClaimCheck, StatusUpdate, TypeOK, Handler
  <2>3. Live' = Live
    BY <1>4 DEF ClaimCheck, StatusUpdate, Live
  <2> QED
    BY <2>1, <2>2, <2>3, StillAlone DEF Inserting
<1>5. CASE EnsureRosterRow(r)
  <2>1. Live' = Live
    BY <1>5 DEF EnsureRosterRow, Live
  <2>2. PICK x \in Rows, i \in BOOLEAN : Ensured(r, x, i) /\ (i => Live = {} /\ NobodyInserts)
    BY <1>5 DEF EnsureRosterRow, Live
  <2>3. req[r] \in Handler /\ req[r] # Idle
    BY <1>5, AtInFlight DEF EnsureRosterRow
  <2>4. req'[r].inserts = i /\ \A q \in Requests \ {r} : req'[q] = req[q]
    BY <2>2, <2>3 DEF Ensured, TypeOK, Handler
  <2>5. CASE i
    <3>1. \A q \in Requests \ {r} : ~Inserting(q)'
      BY <2>2, <2>4, <2>5 DEF NobodyInserts, Inserting
    <3> QED
      BY <2>1, <2>2, <2>5, <3>1 DEF InsertsAlone
  <2>6. CASE ~i
    BY <2>1, <2>4, <2>6, StillAlone DEF Inserting
  <2> QED
    BY <2>5, <2>6
<1>6. CASE ClaimCommit(r) \/ StatusCommit(r)
  <2>1. req[r] # Idle /\ Finish(r) /\ CommitRosterRow(r)
    BY <1>6, CommittingInFlight DEF ClaimCommit, StatusCommit
  <2> QED
    BY <2>1, CommitAlone
<1>7. CASE WithdrawCommit(r)
  BY <1>7, FinishInserts, StillAlone DEF WithdrawCommit, Live
<1> QED
  BY <1>1, <1>2, <1>3, <1>4, <1>5, <1>6, <1>7 DEF ApplicationNext

LEMMA OtherAlone ==
  ASSUME TypeOK, InsertsAlone, OtherNext
  PROVE  InsertsAlone'
<1> USE DEF roster
<1>1. ASSUME NEW r \in Requests, AssignCommit(r) \/ Rollback(r) PROVE InsertsAlone'
  BY <1>1, FinishInserts, StillAlone DEF AssignCommit, Rollback, Live
<1>2. ASSUME NEW r \in Requests, NEW s \in Shifts, AssignRead(r, s) PROVE InsertsAlone'
  <2>1. ~[View("assign", "checked") EXCEPT !.shift = s].inserts
    BY DEF View
  <2> QED
    BY <1>2, <2>1, BeginAlone DEF AssignRead
<1>3. ASSUME req' = req, Live' \subseteq Live PROVE InsertsAlone'
  BY <1>3, StillAlone DEF Inserting
<1>4. ASSUME NEW x \in Rows, RemoveVolunteer(x) PROVE InsertsAlone'
  BY <1>3, <1>4 DEF RemoveVolunteer, TypeOK, Live
<1> QED
  BY <1>1, <1>2, <1>3, <1>4
  DEF OtherNext, SignUp, Decline, SubmitOwn, SubmitAnonymous, Submit, Live

---------------------------------------------------------------------------
(* Departures.                                                             *)

\* A departure goes on knowing of every row but its own, if what goes live is inert.
LEMMA StillKnow ==
  ASSUME TypeOK, DeparturesKnow,
         \A q \in Requests : Departing(q)' => Departing(q) /\ req'[q].row = req[q].row,
         (\E q \in Requests : Departing(q)) =>
           Live' \ Live \subseteq inert' /\ Live' \cap inert \subseteq inert'
  PROVE  DeparturesKnow'
BY DEF DeparturesKnow

LEMMA BeginDeparts ==
  ASSUME TypeOK, NEW r \in Requests, NEW h, h.op # "leave", Begin(r, h)
  PROVE  \A q \in Requests : Departing(q)' => Departing(q) /\ req'[q].row = req[q].row
BY DEF Begin, Departing, TypeOK

LEMMA FinishDeparts ==
  ASSUME TypeOK, NEW r \in Requests, Finish(r)
  PROVE  \A q \in Requests : Departing(q)' => Departing(q) /\ req'[q].row = req[q].row
BY DEF Finish, Departing, TypeOK

LEMMA GoesLiveEffect ==
  ASSUME TypeOK, NEW r \in Requests, NEW x \in Rows, GoesLive(r, x)
  PROVE  /\ Live' = Live \cup {x}
         /\ inert \subseteq inert'
         /\ r \in late \/ (\E q \in Requests : Departing(q)) => x \in inert'
BY DEF GoesLive, Live, TypeOK

\* A request that overlaps a departure leaves only inert rows behind.
LEMMA CommitRosterRowEffect ==
  ASSUME TypeOK, RequestsHold, NEW r \in Requests, req[r] # Idle, CommitRosterRow(r)
  PROVE  /\ Live \subseteq Live' /\ inert \subseteq inert'
         /\ (\E q \in Requests : Departing(q)) => Live' \ Live \subseteq inert'
         /\ r \in late => Live' \ Live \subseteq inert'
         /\ ~req[r].inserts => Live' = Live /\ row' = row
         /\ req[r].inserts => Live' # {}
<1>1. CASE req[r].inserts
  <2>1. req[r].row \in Rows
    BY <1>1 DEF RequestsHold, Holds
  <2> QED
    BY <1>1, <2>1, GoesLiveEffect DEF CommitRosterRow
<1>2. CASE ~req[r].inserts
  BY <1>2 DEF CommitRosterRow, Live
<1> QED
  BY <1>1, <1>2

LEMMA RosterKnows ==
  ASSUME TypeOK, RequestsHold, DeparturesKnow, NEW r \in Requests, RosterNext(r)
  PROVE  DeparturesKnow'
<1> USE DEF roster
<1>1. CASE AddRead(r)
  <2>1. View("add", "checked").op # "leave"
    BY DEF View
  <2> QED
    BY <1>1, <2>1, BeginDeparts, StillKnow DEF AddRead, Live
<1>2. ASSUME NEW x \in Rows, RestoreRead(r, x) PROVE DeparturesKnow'
  <2>1. [View("restore", "checked") EXCEPT !.row = x].op # "leave"
    BY DEF View
  <2> QED
    BY <1>2, <2>1, BeginDeparts, StillKnow DEF RestoreRead, Live
<1>3. ASSUME NEW x \in Rows, Finish(r), GoesLive(r, x) PROVE DeparturesKnow'
  BY <1>3, FinishDeparts, GoesLiveEffect, StillKnow
<1>4. ASSUME NEW x \in Rows, AddCommit(r, x) PROVE DeparturesKnow'
  BY <1>3, <1>4 DEF AddCommit
<1>5. CASE RestoreCommit(r)
  <2>1. req[r].row \in Rows
    BY <1>5, AtInFlight DEF RestoreCommit, At, RequestsHold, Holds
  <2> QED
    BY <1>3, <1>5, <2>1 DEF RestoreCommit
<1>6. CASE LeaveRead(r)
  <2>1. PICK x \in IF Live = {} THEN {None} ELSE Live :
          Begin(r, [View("leave", "checked") EXCEPT !.row = x])
    BY <1>6 DEF LeaveRead
  <2>2. req'[r].row = x /\ \A q \in Requests \ {r} : req'[q] = req[q]
    BY <2>1 DEF Begin, View, TypeOK
  <2>3. Live' = Live /\ inert' = inert
    BY <1>6 DEF LeaveRead, Live
  <2>4. Live \ {x} = {}
    BY <2>1 DEF TypeOK
  <2> QED
    BY <2>2, <2>3, <2>4 DEF DeparturesKnow, Departing
<1>7. CASE LeaveCommit(r)
  <2>1. Live' = Live \ {req[r].row} /\ inert' = inert \ {req[r].row}
    BY <1>7 DEF LeaveCommit, TypeOK, Live
  <2> QED
    BY <1>7, <2>1, FinishDeparts, StillKnow DEF LeaveCommit
<1> QED
  BY <1>1, <1>2, <1>4, <1>5, <1>6, <1>7 DEF RosterNext

LEMMA ApplicationKnows ==
  ASSUME TypeOK, RequestsHold, DeparturesKnow, NEW r \in Requests, ApplicationNext(r)
  PROVE  DeparturesKnow'
<1> USE DEF roster
<1>1. ASSUME NEW a \in Applications, ClaimUpdate(r, a) PROVE DeparturesKnow'
  <2>1. [View("claim", "updated") EXCEPT !.application = a, !.lifted = block].op # "leave"
    BY DEF View
  <2> QED
    BY <1>1, <2>1, BeginDeparts, StillKnow DEF ClaimUpdate, Live
<1>2. ASSUME NEW a \in Applications, WithdrawRead(r, a) PROVE DeparturesKnow'
  <2>1. [View("withdraw", "checked") EXCEPT !.application = a].op # "leave"
    BY DEF View
  <2> QED
    BY <1>2, <2>1, BeginDeparts, StillKnow DEF WithdrawRead, Live
<1>3. ASSUME NEW a \in Applications, NEW to \in ApplicationStatus, StatusRead(r, a, to)
      PROVE  DeparturesKnow'
  <2>1. [View("status", "read") EXCEPT !.application = a, !.to = to,
                                       !.prev = app[a].status].op # "leave"
    BY DEF View
  <2> QED
    BY <1>3, <2>1, BeginDeparts, StillKnow DEF StatusRead, Live
<1>4. CASE ClaimCheck(r) \/ StatusUpdate(r) \/ EnsureRosterRow(r)
  <2>1. req[r].op \in {"claim", "status"} /\ req[r] \in Handler
    BY <1>4, AtInFlight, EnsureRosterRowStep DEF ClaimCheck, StatusUpdate, At
  <2>2. req'[r].op # "leave" /\ \A q \in Requests \ {r} : req'[q] = req[q]
    BY <1>4, <2>1, EnsureRosterRowStep DEF ClaimCheck, StatusUpdate, TypeOK, Handler
  <2>3. Live' = Live /\ inert' = inert
    BY <1>4 DEF ClaimCheck, StatusUpdate, EnsureRosterRow, Live
  <2> QED
    BY <2>2, <2>3, StillKnow DEF Departing
<1>5. CASE WithdrawCommit(r)
  BY <1>5, FinishDeparts, StillKnow DEF WithdrawCommit, Live
<1>6. CASE ClaimCommit(r) \/ StatusCommit(r)
  <2>1. req[r] # Idle /\ Finish(r) /\ CommitRosterRow(r)
    BY <1>6, CommittingInFlight DEF ClaimCommit, StatusCommit
  <2> QED
    BY <2>1, FinishDeparts, CommitRosterRowEffect, StillKnow
<1> QED
  BY <1>1, <1>2, <1>3, <1>4, <1>5, <1>6 DEF ApplicationNext

LEMMA OtherKnows ==
  ASSUME TypeOK, RequestsHold, DeparturesKnow, OtherNext
  PROVE  DeparturesKnow'
<1> USE DEF roster
<1>1. ASSUME NEW r \in Requests, AssignCommit(r) \/ Rollback(r) PROVE DeparturesKnow'
  BY <1>1, FinishDeparts, StillKnow DEF AssignCommit, Rollback, Live
<1>2. ASSUME NEW r \in Requests, NEW s \in Shifts, AssignRead(r, s) PROVE DeparturesKnow'
  <2>1. [View("assign", "checked") EXCEPT !.shift = s].op # "leave"
    BY DEF View
  <2> QED
    BY <1>2, <2>1, BeginDeparts, StillKnow DEF AssignRead, Live
<1>3. ASSUME NEW x \in Rows, RemoveVolunteer(x) PROVE DeparturesKnow'
  <2>1. Live' = Live \ {x} /\ inert' = inert \ {x} /\ req' = req
    BY <1>3 DEF RemoveVolunteer, TypeOK, Live
  <2> QED
    BY <2>1, StillKnow DEF Departing
<1>4. ASSUME UNCHANGED <<row, inert, req>> PROVE DeparturesKnow'
  BY <1>4 DEF DeparturesKnow, Departing, Live
<1> QED
  BY <1>1, <1>2, <1>3, <1>4
  DEF OtherNext, SignUp, Decline, SubmitOwn, SubmitAnonymous, Submit

---------------------------------------------------------------------------
(* The block.                                                              *)

\* A block that was there before stays seen, if nobody becomes unaware of it.
LEMMA StillOvertaken ==
  ASSUME TypeOK, ChecksOvertaken, block' => block,
         \A q \in Requests : Unaware(q)' /\ block => Unaware(q) /\ (q \in late => q \in late')
  PROVE  ChecksOvertaken'
BY DEF ChecksOvertaken

LEMMA FinishUnaware ==
  ASSUME TypeOK, NEW r \in Requests, Finish(r)
  PROVE  \A q \in Requests : Unaware(q)' => q # r /\ Unaware(q)
BY DEF Finish, Unaware, TypeOK, Idle, Checked

\* A request that begins without its checks, or sees the block.
LEMMA BeginUnaware ==
  ASSUME TypeOK, NEW r \in Requests, NEW h, Begin(r, h),
         h.phase \notin Checked \/ h.op = "leave" \/ h.op = "withdraw" \/ ~block
  PROVE  \A q \in Requests : Unaware(q)' /\ block => Unaware(q)
BY DEF Begin, Unaware, TypeOK

LEMMA RosterOvertaken ==
  ASSUME TypeOK, ChecksOvertaken, NEW r \in Requests, RosterNext(r)
  PROVE  ChecksOvertaken'
<1> USE DEF roster
<1>1. CASE AddRead(r)
  BY <1>1, BeginUnaware, StillOvertaken DEF AddRead
<1>2. ASSUME NEW x \in Rows, RestoreRead(r, x) PROVE ChecksOvertaken'
  BY <1>2, BeginUnaware, StillOvertaken DEF RestoreRead
<1>3. CASE (\E x \in Rows : AddCommit(r, x)) \/ RestoreCommit(r)
  <2>1. Finish(r) /\ late' = late \ {r} /\ block' = block
    BY <1>3 DEF AddCommit, RestoreCommit
  <2> QED
    BY <2>1, FinishUnaware, StillOvertaken
<1>4. CASE LeaveRead(r)
  BY <1>4, BeginUnaware, StillOvertaken DEF LeaveRead
<1>5. CASE LeaveCommit(r)
  <2>1. \A q \in Requests : Unaware(q)' => q # r /\ req[q].phase \in Checked
    BY <1>5, FinishUnaware DEF LeaveCommit, Unaware
  <2> QED
    BY <1>5, <2>1 DEF LeaveCommit, ChecksOvertaken
<1> QED
  BY <1>1, <1>2, <1>3, <1>4, <1>5 DEF RosterNext

LEMMA ApplicationOvertaken ==
  ASSUME TypeOK, ChecksOvertaken, NEW r \in Requests, ApplicationNext(r)
  PROVE  ChecksOvertaken'
<1> USE DEF roster
<1>1. ASSUME NEW a \in Applications, ClaimUpdate(r, a) PROVE ChecksOvertaken'
  <2>1. [View("claim", "updated") EXCEPT !.application = a, !.lifted = block].phase \notin Checked
    BY DEF View, Checked
  <2> QED
    BY <1>1, <2>1, BeginUnaware, StillOvertaken DEF ClaimUpdate
<1>2. ASSUME NEW a \in Applications, WithdrawRead(r, a) PROVE ChecksOvertaken'
  <2>1. [View("withdraw", "checked") EXCEPT !.application = a].op = "withdraw"
    BY DEF View
  <2> QED
    BY <1>2, <2>1, BeginUnaware, StillOvertaken DEF WithdrawRead
<1>3. ASSUME NEW a \in Applications, NEW to \in ApplicationStatus, StatusRead(r, a, to)
      PROVE  ChecksOvertaken'
  <2>1. [View("status", "read") EXCEPT !.application = a, !.to = to,
                                       !.prev = app[a].status].phase \notin Checked
    BY DEF View, Checked
  <2> QED
    BY <1>3, <2>1, BeginUnaware, StillOvertaken DEF StatusRead
<1>4. CASE ClaimCheck(r)
  <2>1. req[r] \in Handler /\ req[r].op = "claim"
    BY <1>4, AtInFlight DEF ClaimCheck, At
  <2>2. /\ \A q \in Requests \ {r} : req'[q] = req[q]
        /\ req'[r].op = "claim" /\ req'[r].lifted = req[r].lifted
        /\ req'[r].refused = (block /\ ~req[r].lifted)
    BY <1>4, <2>1 DEF ClaimCheck, TypeOK, Handler
  <2>3. \A q \in Requests : Unaware(q)' /\ block => Unaware(q)
    BY <2>2 DEF Unaware
  <2> QED
    BY <1>4, <2>3, StillOvertaken DEF ClaimCheck
<1>5. CASE StatusUpdate(r)
  <2>1. req[r] \in Handler /\ req[r].op = "status"
    BY <1>5, AtInFlight DEF StatusUpdate, At
  <2>2. /\ \A q \in Requests \ {r} : req'[q] = req[q]
        /\ req'[r].op = "status" /\ req'[r].refused = block
    BY <1>5, <2>1 DEF StatusUpdate, TypeOK, Handler
  <2>3. \A q \in Requests : Unaware(q)' /\ block => Unaware(q)
    BY <2>2 DEF Unaware
  <2> QED
    BY <1>5, <2>3, StillOvertaken DEF StatusUpdate
<1>6. CASE ClaimCommit(r) \/ WithdrawCommit(r) \/ StatusCommit(r)
  <2>1. Finish(r) /\ late' = late \ {r}
    BY <1>6 DEF ClaimCommit, WithdrawCommit, StatusCommit
  <2>2. block' = block \/ block' = (block /\ ~req[r].lifted)
    BY <1>6, Zenon DEF ClaimCommit, WithdrawCommit, StatusCommit
  <2>3. block' => block
    BY <2>2
  <2> QED
    BY <2>1, <2>3, FinishUnaware, StillOvertaken
<1>7. CASE EnsureRosterRow(r)
  <2>1. \A q \in Requests : Unaware(q)' => Unaware(q)
    BY <1>7, EnsureRosterRowStep DEF Unaware, Checked
  <2> QED
    BY <1>7, <2>1, StillOvertaken DEF EnsureRosterRow
<1> QED
  BY <1>1, <1>2, <1>3, <1>4, <1>5, <1>6, <1>7 DEF ApplicationNext

LEMMA OtherOvertaken ==
  ASSUME TypeOK, ChecksOvertaken, OtherNext
  PROVE  ChecksOvertaken'
<1> USE DEF roster
<1>1. ASSUME NEW r \in Requests, AssignCommit(r) \/ Rollback(r) PROVE ChecksOvertaken'
  <2>1. Finish(r) /\ late' = late \ {r} /\ block' = block
    BY <1>1 DEF AssignCommit, Rollback
  <2> QED
    BY <2>1, FinishUnaware, StillOvertaken
<1>2. ASSUME NEW r \in Requests, NEW s \in Shifts, AssignRead(r, s) PROVE ChecksOvertaken'
  BY <1>2, BeginUnaware, StillOvertaken DEF AssignRead
<1>3. ASSUME req' = req, late' = late, block' => block PROVE ChecksOvertaken'
  BY <1>3, StillOvertaken DEF Unaware
<1> QED
  BY <1>1, <1>2, <1>3
  DEF OtherNext, SignUp, RemoveVolunteer, Decline, SubmitOwn, SubmitAnonymous, Submit

\* Nothing goes live under a block but what is inert.
LEMMA NextRefused ==
  ASSUME TypeOK, RosterInv, Next
  PROVE  RefusedIsOffRoster'
<1> USE DEF roster
<1>1. ASSUME block' => block, Live' = Live, inert' = inert PROVE RefusedIsOffRoster'
  BY <1>1 DEF RosterInv, RefusedIsOffRoster
<1>2. ASSUME NEW r \in Requests, NEW x \in Rows, Live = {}, Unaware(r), GoesLive(r, x),
             block' = block
      PROVE  RefusedIsOffRoster'
  BY <1>2, GoesLiveEffect DEF RosterInv, ChecksOvertaken, RefusedIsOffRoster
<1>3. ASSUME NEW r \in Requests, NEW x \in Rows, AddCommit(r, x) PROVE RefusedIsOffRoster'
  BY <1>2, <1>3 DEF AddCommit, At, Unaware, Checked
<1>4. ASSUME NEW r \in Requests, RestoreCommit(r) PROVE RefusedIsOffRoster'
  <2>1. req[r].row \in Rows
    BY <1>4, AtInFlight DEF RestoreCommit, At, RosterInv, RequestsHold, Holds
  <2> QED
    BY <1>2, <1>4, <2>1 DEF RestoreCommit, At, Unaware, Checked
<1>5. ASSUME NEW r \in Requests, LeaveCommit(r) PROVE RefusedIsOffRoster'
  <2>1. Departing(r)
    BY <1>5, AtInFlight DEF LeaveCommit, At, Departing
  <2>2. Live' = Live \ {req[r].row} /\ inert' = inert \ {req[r].row}
    BY <1>5 DEF LeaveCommit, TypeOK, Live
  <2> QED
    BY <2>1, <2>2 DEF RosterInv, DeparturesKnow, RefusedIsOffRoster
<1>6. ASSUME NEW r \in Requests, ClaimCommit(r) \/ StatusCommit(r) PROVE RefusedIsOffRoster'
  <2>1. /\ req[r] # Idle /\ CommitRosterRow(r)
        /\ req[r].op \in {"claim", "status"} /\ req[r].phase \in Checked
    BY <1>6, CommittingInFlight DEF ClaimCommit, StatusCommit
  <2>2. CASE ~req[r].inserts
    <3>1. Live' = Live /\ inert' = inert
      BY <2>1, <2>2 DEF CommitRosterRow, Live
    <3>2. block' => block
      BY <1>6, Zenon DEF ClaimCommit, StatusCommit
    <3> QED
      BY <1>1, <3>1, <3>2
  <2>3. CASE req[r].inserts /\ block'
    <3>1. block /\ (req[r].op = "claim" => ~req[r].lifted)
      <4>1. CASE ClaimCommit(r)
        BY <2>3, <4>1 DEF ClaimCommit
      <4>2. CASE StatusCommit(r)
        BY <2>3, <4>2, CommittingInFlight DEF StatusCommit
      <4> QED
        BY <1>6, <4>1, <4>2
    <3>2. ~req[r].refused
      BY <2>1, <2>3 DEF RosterInv, RequestsHold, Holds
    <3>3. r \in late
      BY <2>1, <3>1, <3>2 DEF RosterInv, ChecksOvertaken, Unaware
    <3>4. Live' \ Live \subseteq inert' /\ inert \subseteq inert'
      BY <2>1, <3>3, CommitRosterRowEffect DEF RosterInv
    <3> QED
      BY <3>1, <3>4 DEF RosterInv, RefusedIsOffRoster
  <2> QED
    BY <2>2, <2>3 DEF RefusedIsOffRoster
<1>7. ASSUME NEW r \in Requests, ApplicationNext(r) PROVE RefusedIsOffRoster'
  BY <1>1, <1>6, <1>7
  DEF ApplicationNext, ClaimUpdate, ClaimCheck, WithdrawRead, WithdrawCommit, StatusRead,
      StatusUpdate, EnsureRosterRow, Live
<1>8. ASSUME NEW r \in Requests, RosterNext(r) PROVE RefusedIsOffRoster'
  BY <1>1, <1>3, <1>4, <1>5, <1>8 DEF RosterNext, AddRead, RestoreRead, LeaveRead, Live
<1>9. ASSUME NEW x \in Rows, RemoveVolunteer(x) PROVE RefusedIsOffRoster'
  <2>1. Live' = Live \ {x} /\ inert' = inert \ {x} /\ block' = block
    BY <1>9 DEF RemoveVolunteer, TypeOK, Live
  <2> QED
    BY <2>1 DEF RosterInv, RefusedIsOffRoster
<1>10. ASSUME OtherNext PROVE RefusedIsOffRoster'
  BY <1>1, <1>9, <1>10
  DEF OtherNext, Rollback, AssignCommit, AssignRead, SignUp, Decline, SubmitOwn,
      SubmitAnonymous, Submit, Live
<1> QED
  BY <1>7, <1>8, <1>10 DEF Next

\* A claim binds an application that it has locked, and that nobody had declined.
LEMMA NextDeclined ==
  ASSUME TypeOK, RosterInv, Next
  PROVE  DeclinedIsNotBound'
<1> USE DEF roster
<1>1. ASSUME NEW b, NEW new \in AppRecord, b \in Applications => ~(new.bound /\ new.declined),
             app' = [app EXCEPT ![b] = new]
      PROVE  DeclinedIsNotBound'
  BY <1>1, NoneAssumption DEF TypeOK, RosterInv, DeclinedIsNotBound, Bound, Exists
<1>2. ASSUME app' = app PROVE DeclinedIsNotBound'
  BY <1>2 DEF RosterInv, DeclinedIsNotBound, Bound, Exists
<1>3. ASSUME NEW r \in Requests, ClaimCommit(r) PROVE DeclinedIsNotBound'
  <2> DEFINE a == req[r].application
  <2>1. a \in Applications /\ Exists(a) /\ ~app[a].declined
    BY <1>3, CommittingInFlight DEF ClaimCommit, RosterInv, RequestsHold, Holds
  <2> DEFINE new == [app[a] EXCEPT !.bound = TRUE]
  <2>2. new \in AppRecord /\ ~new.declined
    BY <2>1, AppType DEF AppRecord
  <2> QED
    BY <1>1, <1>3, <2>2 DEF ClaimCommit
<1>4. ASSUME NEW r \in Requests, WithdrawCommit(r) \/ StatusCommit(r)
      PROVE  DeclinedIsNotBound'
  <2> DEFINE a == req[r].application
  <2>1. a \in Applications /\ Exists(a)
    BY <1>4, AtInFlight, CommittingInFlight
    DEF WithdrawCommit, StatusCommit, RosterInv, RequestsHold, Holds, At
  <2>2. ~(app[a].bound /\ app[a].declined) /\ app[a] \in AppRecord
    BY <2>1, AppType DEF RosterInv, DeclinedIsNotBound, Bound
  <2>3. CASE WithdrawCommit(r)
    <3> DEFINE new == [app[a] EXCEPT !.status = "REJECTED"]
    <3>1. new \in AppRecord /\ ~(new.bound /\ new.declined)
      BY <2>2 DEF AppRecord, ApplicationStatus
    <3> QED
      BY <1>1, <2>3, <3>1 DEF WithdrawCommit
  <2>4. CASE StatusCommit(r)
    <3> DEFINE new == [app[a] EXCEPT !.status = req[r].to]
    <3>1. req[r].to \in ApplicationStatus
      BY <2>4, CommittingInFlight DEF StatusCommit, RosterInv, RequestsHold, Holds
    <3>2. new \in AppRecord /\ ~(new.bound /\ new.declined)
      BY <2>2, <3>1 DEF AppRecord
    <3> QED
      BY <1>1, <2>4, <3>2 DEF StatusCommit
  <2> QED
    BY <1>4, <2>3, <2>4
<1>5. ASSUME NEW a \in Applications, Decline(a) PROVE DeclinedIsNotBound'
  <2> DEFINE new == [app[a] EXCEPT !.declined = TRUE]
  <2>1. new \in AppRecord /\ ~new.bound
    BY <1>5, AppType DEF Decline, AppRecord
  <2> QED
    BY <1>1, <1>5, <2>1 DEF Decline
<1>6. ASSUME NEW a \in Applications, NEW bound \in BOOLEAN, Submit(a, bound)
      PROVE  DeclinedIsNotBound'
  <2> DEFINE new == [status |-> "SUBMITTED", bound |-> bound, declined |-> FALSE]
  <2>1. new \in AppRecord /\ ~new.declined
    BY DEF AppRecord, ApplicationStatus
  <2> QED
    BY <1>1, <1>6, <2>1 DEF Submit
<1>7. ASSUME NEW r \in Requests, ApplicationNext(r) PROVE DeclinedIsNotBound'
  BY <1>2, <1>3, <1>4, <1>7
  DEF ApplicationNext, ClaimUpdate, ClaimCheck, WithdrawRead, StatusRead, StatusUpdate,
      EnsureRosterRow
<1>8. ASSUME NEW r \in Requests, RosterNext(r) PROVE DeclinedIsNotBound'
  BY <1>2, <1>8
  DEF RosterNext, AddRead, AddCommit, RestoreRead, RestoreCommit, LeaveRead, LeaveCommit
<1>9. ASSUME OtherNext PROVE DeclinedIsNotBound'
  BY <1>2, <1>5, <1>6, <1>9
  DEF OtherNext, Rollback, AssignCommit, AssignRead, SignUp, RemoveVolunteer, SubmitOwn,
      SubmitAnonymous
<1> QED
  BY <1>7, <1>8, <1>9 DEF Next

---------------------------------------------------------------------------
(* The invariant.                                                          *)

LEMMA InitInv ==
  ASSUME Init
  PROVE  TypeOK /\ RosterInv
<1>1. TypeOK
  BY DEF Init, TypeOK, Live, AppRecord
<1>2. RequestsHold /\ DeparturesKnow /\ ChecksOvertaken
  BY DEF Init, RequestsHold, Holds, DeparturesKnow, Departing, ChecksOvertaken
<1>3. InsertsAlone /\ RefusedIsOffRoster /\ DeclinedIsNotBound
  BY DEF Init, InsertsAlone, Inserting, RefusedIsOffRoster, DeclinedIsNotBound, Bound, Exists
<1> QED
  BY <1>1, <1>2, <1>3 DEF RosterInv

LEMMA StutterInv ==
  ASSUME TypeOK, RosterInv, UNCHANGED vars
  PROVE  (TypeOK /\ RosterInv)'
<1> USE DEF vars
<1>1. TypeOK'
  BY DEF TypeOK, Live
<1>2. RequestsHold'
  BY DEF RosterInv, RequestsHold, Holds, Exists
<1>3. DeparturesKnow' /\ RefusedIsOffRoster'
  BY DEF RosterInv, DeparturesKnow, Departing, RefusedIsOffRoster, Live
<1>4. ChecksOvertaken' /\ DeclinedIsNotBound'
  BY DEF RosterInv, ChecksOvertaken, Unaware, DeclinedIsNotBound, Bound, Exists
<1>5. InsertsAlone'
  BY DEF RosterInv, InsertsAlone, Inserting, Live
<1> QED
  BY <1>1, <1>2, <1>3, <1>4, <1>5 DEF RosterInv

LEMMA NextInv ==
  ASSUME TypeOK, RosterInv, Next
  PROVE  (TypeOK /\ RosterInv)'
<1>1. TypeOK'
  BY RosterTypeOK, ApplicationTypeOK, OtherTypeOK DEF Next, RosterInv
<1>2. RequestsHold'
  BY RosterHolds, ApplicationHolds, OtherHolds DEF Next, RosterInv
<1>3. DeparturesKnow'
  BY RosterKnows, ApplicationKnows, OtherKnows DEF Next, RosterInv
<1>4. ChecksOvertaken'
  BY RosterOvertaken, ApplicationOvertaken, OtherOvertaken DEF Next, RosterInv
<1>5. InsertsAlone'
  BY RosterAlone, ApplicationAlone, OtherAlone DEF Next, RosterInv
<1> QED
  BY <1>1, <1>2, <1>3, <1>4, <1>5, NextRefused, NextDeclined DEF RosterInv

\* The types and RosterInv hold in every reachable state, whatever requests interleave.
THEOREM Invariants == Spec => [](TypeOK /\ RosterInv)
<1>1. Init => TypeOK /\ RosterInv
  BY InitInv
<1>2. TypeOK /\ RosterInv /\ [Next]_vars => (TypeOK /\ RosterInv)'
  BY NextInv, StutterInv
<1> QED
  BY <1>1, <1>2, PTL DEF Spec

\* TypeOK holds in every reachable state: one roster row at most is ever live.
THEOREM TypeCorrect == Spec => []TypeOK
BY Invariants, PTL

\* RosterInv holds in every reachable state.
THEOREM RosterInvariant == Spec => []RosterInv
BY Invariants, PTL

\* Nothing but a request that the departure overtook puts a volunteer who left back on
\* the roster (leaveOrgRoster and every reader of isOrgBlockedByVolunteer).
THEOREM RefusedOffRoster == Spec => []RefusedIsOffRoster
<1>1. RosterInv => RefusedIsOffRoster
  BY DEF RosterInv
<1> QED
  BY <1>1, RosterInvariant, PTL

\* A declined application is never bound (claimApplication, declineApplication).
THEOREM DeclinedNeverBound == Spec => []DeclinedIsNotBound
<1>1. RosterInv => DeclinedIsNotBound
  BY DEF RosterInv
<1> QED
  BY <1>1, RosterInvariant, PTL

\* Only an assignment that the departure overtook schedules a volunteer who refuses
\* (assignVolunteerToShift).
THEOREM RefusedNotScheduled == Spec => RefusedIsNotScheduled
<1> USE DEF roster
<1>1. ASSUME TypeOK, RosterInv, [Next]_vars, NEW s \in Shifts,
             signup[s] # "staff", signup'[s] = "staff", block
      PROVE  \E r \in late : req[r].op = "assign" /\ req[r].shift = s
  <2>1. ASSUME NEW r \in Requests, AssignCommit(r)
        PROVE  \E q \in late : req[q].op = "assign" /\ req[q].shift = s
    <3>1. req[r].op = "assign" /\ req[r].shift = s
      BY <1>1, <2>1 DEF AssignCommit, At, TypeOK
    <3>2. r \in late
      BY <1>1, <2>1 DEF AssignCommit, At, RosterInv, ChecksOvertaken, Unaware, Checked
    <3> QED
      BY <3>1, <3>2
  <2>2. signup' # signup
    BY <1>1
  <2>3. CASE OtherNext
    <3>1. ~ \E t \in Shifts : SignUp(t)
      BY <1>1 DEF SignUp, TypeOK
    <3> QED
      BY <2>1, <2>2, <2>3, <3>1
      DEF OtherNext, Rollback, AssignRead, RemoveVolunteer, Decline, SubmitOwn,
          SubmitAnonymous, Submit
  <2>4. ~ \E r \in Requests : RosterNext(r)
    BY <2>2 DEF RosterNext, AddRead, AddCommit, RestoreRead, RestoreCommit, LeaveRead,
                LeaveCommit
  <2>5. ~ \E r \in Requests : ApplicationNext(r)
    BY <2>2 DEF ApplicationNext, ClaimUpdate, ClaimCheck, ClaimCommit, WithdrawRead,
                WithdrawCommit, StatusRead, StatusUpdate, EnsureRosterRow, StatusCommit
  <2>6. ~UNCHANGED vars
    BY <2>2 DEF vars
  <2> QED
    BY <1>1, <2>3, <2>4, <2>5, <2>6 DEF Next
<1>2. TypeOK /\ RosterInv /\ [Next]_vars =>
        [\A s \in Shifts : signup[s] # "staff" /\ signup'[s] = "staff" /\ block =>
           \E r \in late : req[r].op = "assign" /\ req[r].shift = s]_vars
  BY <1>1
<1> QED
  BY <1>2, Invariants, PTL DEF Spec, RefusedIsNotScheduled

\* Whether an application is approved and bound changes only when it is written.
LEMMA ApprovedByCommit ==
  ASSUME TypeOK, RosterInv, Next, NEW a \in Applications,
         ~ApprovedAndBound(a), ApprovedAndBound(a)'
  PROVE  \E r \in Requests : /\ ClaimCommit(r) \/ StatusCommit(r)
                             /\ req[r].application = a
<1> USE DEF roster
<1>1. app' # app
  BY DEF ApprovedAndBound, Bound, Exists
<1>2. CASE OtherNext
  <2>1. ASSUME NEW b \in Applications, Decline(b) PROVE FALSE
    <3>1. app[b] \in AppRecord
      BY <2>1, AppType DEF Decline
    <3> QED
      BY <2>1, <3>1 DEF Decline, ApprovedAndBound, Bound, Exists, TypeOK, AppRecord
  <2>2. ASSUME NEW b \in Applications, NEW bound, Submit(b, bound) PROVE FALSE
    BY <2>2 DEF Submit, ApprovedAndBound, Bound, Exists, TypeOK
  <2> QED
    BY <1>1, <1>2, <2>1, <2>2
    DEF OtherNext, Rollback, AssignRead, AssignCommit, RemoveVolunteer, SignUp, SubmitOwn,
        SubmitAnonymous
<1>3. ASSUME NEW r \in Requests, RosterNext(r) PROVE FALSE
  BY <1>1, <1>3 DEF RosterNext, AddRead, AddCommit, RestoreRead, RestoreCommit, LeaveRead,
                    LeaveCommit
<1>4. ASSUME NEW r \in Requests, ApplicationNext(r)
      PROVE  \E q \in Requests : /\ ClaimCommit(q) \/ StatusCommit(q)
                                 /\ req[q].application = a
  <2>1. ClaimCommit(r) \/ WithdrawCommit(r) \/ StatusCommit(r)
    BY <1>1, <1>4 DEF ApplicationNext, ClaimUpdate, ClaimCheck, WithdrawRead, StatusRead,
                      StatusUpdate, EnsureRosterRow
  <2>2. ~WithdrawCommit(r)
    <3> DEFINE b == req[r].application
    <3>1. ASSUME WithdrawCommit(r) PROVE b \in Applications /\ Exists(b)
      BY <3>1, AtInFlight DEF WithdrawCommit, RosterInv, RequestsHold, Holds, At
    <3>2. ASSUME WithdrawCommit(r) PROVE app[b] \in AppRecord
      BY <3>1, <3>2, AppType
    <3> QED
      BY <3>1, <3>2 DEF WithdrawCommit, ApprovedAndBound, Bound, Exists, TypeOK, AppRecord
  <2>3. req[r].application = a
    BY <2>1, <2>2 DEF ClaimCommit, StatusCommit, ApprovedAndBound, Bound, Exists, TypeOK
  <2> QED
    BY <2>1, <2>2, <2>3
<1> QED
  BY <1>2, <1>3, <1>4 DEF Next

\* The volunteer of an application that becomes approved and bound is on the roster then,
\* unless they refuse, the request had read APPROVED, or the row the request had found live
\* has been removed before it committed (claimApplication, updateOrgApplicationStatus,
\* ensureAppliedRosterRow).
THEOREM ApprovedRostered == Spec => ApprovedIsRostered
<1> DEFINE Excused(a) ==
      \E r \in Requests :
        /\ req[r] # Idle /\ req[r].application = a
        /\ \/ req[r].refused
           \/ req[r].prev = "APPROVED"
           \/ /\ req[r].phase = "ensured" /\ ~req[r].inserts
              /\ row[req[r].row] = "removed"
<1>1. ASSUME TypeOK, RosterInv, Next, NEW a \in Applications,
             ~ApprovedAndBound(a), ApprovedAndBound(a)'
      PROVE  Live' # {} \/ Excused(a)
  <2>1. PICK r \in Requests : /\ ClaimCommit(r) \/ StatusCommit(r)
                              /\ req[r].application = a
    BY <1>1, ApprovedByCommit
  <2>2. /\ req[r] # Idle /\ req[r].phase \in Checked
        /\ req[r].op \in {"claim", "status"}
    BY <1>1, <2>1, CommittingInFlight DEF ClaimCommit, StatusCommit
  <2>3. Exists(a) /\ app[a] \in AppRecord /\ Holds(r)
    BY <1>1, <2>1, <2>2, AppType DEF RosterInv, RequestsHold, Holds
  <2>4. CASE req[r].phase = "ensured"
    <3>1. CommitRosterRow(r)
      BY <2>1 DEF ClaimCommit, StatusCommit
    <3>2. /\ req[r].inserts => Live' # {}
          /\ ~req[r].inserts => Live' = Live
      BY <1>1, <2>2, <3>1, CommitRosterRowEffect DEF RosterInv
    <3>3. req[r].row \in Rows /\ req[r].inserts = (row[req[r].row] = "free")
      BY <2>2, <2>3, <2>4 DEF Holds
    <3>4. CASE row[req[r].row] = "live"
      BY <3>2, <3>3, <3>4 DEF Live
    <3>5. CASE row[req[r].row] = "removed"
      BY <2>1, <2>2, <2>4, <3>3, <3>5
    <3> QED
      BY <1>1, <3>2, <3>3, <3>4, <3>5 DEF TypeOK
  <2>5. CASE req[r].phase # "ensured"
    <3>1. CASE ClaimCommit(r)
      <4>1. app'[a].status = app[a].status
        BY <1>1, <2>1, <2>3, <3>1 DEF ClaimCommit, TypeOK, AppRecord
      <4>2. app[a].status = "APPROVED" /\ req[r].op = "claim" /\ ~Ensures(r)
        BY <1>1, <2>5, <3>1, <4>1 DEF ClaimCommit, Committing, At, ApprovedAndBound
      <4>3. req[r].refused
        BY <2>1, <4>2 DEF Ensures
      <4> QED
        BY <2>1, <2>2, <4>3
    <3>2. CASE StatusCommit(r)
      <4>1. app'[a].bound = app[a].bound /\ app'[a].status = req[r].to
        BY <1>1, <2>1, <2>3, <3>2 DEF StatusCommit, TypeOK, AppRecord
      <4>2. req[r].op = "status" /\ ~Ensures(r)
        BY <2>5, <3>2 DEF StatusCommit, Committing, At
      <4>3. req[r].bound = app[a].bound
        BY <2>1, <2>2, <2>3, <4>2 DEF Holds
      <4>4. req[r].bound /\ req[r].to = "APPROVED"
        BY <1>1, <4>1, <4>3 DEF ApprovedAndBound, Bound
      <4>5. req[r].refused \/ req[r].prev = "APPROVED"
        BY <4>2, <4>4 DEF Ensures
      <4> QED
        BY <2>1, <2>2, <4>5
    <3> QED
      BY <2>1, <3>1, <3>2
  <2> QED
    BY <2>4, <2>5
<1>2. ASSUME UNCHANGED vars, NEW a \in Applications PROVE ApprovedAndBound(a)' = ApprovedAndBound(a)
  BY <1>2 DEF vars, ApprovedAndBound, Bound, Exists
<1>3. TypeOK /\ RosterInv /\ [Next]_vars =>
        [\A a \in Applications : ~ApprovedAndBound(a) /\ ApprovedAndBound(a)' =>
           \/ Live' # {}
           \/ \E r \in Requests :
                /\ req[r] # Idle /\ req[r].application = a
                /\ \/ req[r].refused
                   \/ req[r].prev = "APPROVED"
                   \/ /\ req[r].phase = "ensured" /\ ~req[r].inserts
                      /\ row[req[r].row] = "removed"]_vars
  BY <1>1, <1>2
<1> QED
  BY <1>3, Invariants, PTL DEF Spec, ApprovedIsRostered
=============================================================================
