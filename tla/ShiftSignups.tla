---------------------------- MODULE ShiftSignups ----------------------------
(***************************************************************************)
(* Booking seats on an organization's volunteer shifts.                    *)
(*                                                                         *)
(* Every request is served by a handler of shiftSignupService.ts that      *)
(* first reads the database, outside any transaction, and validates what   *)
(* it read; then, in one transaction, it writes what that (by now perhaps  *)
(* outdated) view called for.  Postgres runs at READ COMMITTED, so nothing *)
(* re-validates the view.  A handler is therefore a record in req[r]: the  *)
(* read step fills it in, the commit step consumes it, and the steps of    *)
(* other handlers interleave in between.                                   *)
(*                                                                         *)
(* Three transactions are split once more, because what another request    *)
(* does in the middle of them matters: cancelSignup updates its own row    *)
(* and then selects the waitlist; markAttendance selects the row FOR       *)
(* UPDATE and then writes it; and joinWaitlist stamps createdAt before     *)
(* anybody can see the row.  They hold the lock of the row (for a new row, *)
(* of its key) between the two steps (phase "tx"); see RowFree.            *)
(***************************************************************************)
EXTENDS Integers, FiniteSets

CONSTANTS
  Volunteers,   \* users who book seats
  Shifts,       \* ids of shifts of one organization
  Requests,     \* concurrent requests: one handler each
  Capacities,   \* capacities a coordinator types in
  Times,        \* start and end times a coordinator types in
  MaxDuration,  \* the longest shift validateShiftTimes accepts
  MaxNow,       \* bound on the clock
  CronBatch,    \* how many expired shifts one cron run picks up
  Ops,          \* the operations clients use in this instance
  NoOne         \* not a volunteer

AllOps == {"signUp", "assign", "cancel", "joinWaitlist", "leaveWaitlist",
           "staffMark", "checkin", "addVolunteer", "removeVolunteer", "leaveOrg",
           "createShift", "updateShift", "cancelShift", "completeShift",
           "removeShift", "clock"}

ASSUME CapacitiesAssumption == Capacities \subseteq Nat \ {0} /\ Capacities # {}
ASSUME TimesAssumption == Times \subseteq Nat /\ MaxDuration \in Nat
ASSUME ClockAssumption == MaxNow \in Nat
ASSUME CronBatchAssumption == CronBatch \in Nat \ {0}
ASSUME OpsAssumption == Ops \subseteq AllOps
ASSUME NoOneAssumption == NoOne \notin Volunteers
ASSUME FiniteAssumption == IsFiniteSet(Volunteers) /\ IsFiniteSet(Requests)

ValidTimes(start, end) == start < end /\ end - start <= MaxDuration

ASSUME SomeSlotAssumption == \E t \in Times \X Times : ValidTimes(t[1], t[2])

VARIABLES
  status,     \* Shift.status; "ABSENT" before the row exists, "DELETED" after
  capacity,   \* Shift.capacity
  slot,       \* <<Shift.startTime, Shift.endTime>>
  signup,     \* ShiftSignup.status of the (shift, user) row; "NONE" without one
  createdAt,  \* ShiftSignup.createdAt, for rows that joined the waitlist; else 0
  visibleAt,  \* when such a row was committed (history, read by no action)
  rostered,   \* users with a live OrgVolunteer row
  blocked,    \* users with an OrgVolunteerBlock row
  now,        \* wall clock
  cron,       \* expired shifts the running auto-close job has yet to visit
  req         \* the handlers in flight

shiftVars == <<status, capacity, slot>>
stampVars == <<createdAt, visibleAt>>
signupVars == <<signup, stampVars>>
rosterVars == <<rostered, blocked>>
vars == <<status, capacity, slot, signup, createdAt, visibleAt, rostered, blocked,
          now, cron, req>>

---------------------------------------------------------------------------
(* The stored rows.                                                        *)

SignupStatus == {"NONE", "CONFIRMED", "WAITLISTED", "CANCELLED", "NO_SHOW", "ATTENDED"}
ShiftStatus == {"ABSENT", "OPEN", "FULL", "CANCELLED", "COMPLETED", "DELETED"}

Active == {"OPEN", "FULL"}              \* statuses that still take people
Closed == {"CANCELLED", "COMPLETED"}    \* statuses the documentation calls final
Recorded == {"ATTENDED", "NO_SHOW"}     \* statuses that record attendance

Exists(s) == status[s] \in Active \cup Closed
Confirmed(s) == {u \in Volunteers : signup[s][u] = "CONFIRMED"}
Waiting(s) == {u \in Volunteers : signup[s][u] = "WAITLISTED"}
Rows(s) == {u \in Volunteers : signup[s][u] # "NONE"}

OverlapAtStart(a, b) == b[1] <= a[1] /\ a[1] < b[2]              \* a mutant

Overlap(a, b) == a[1] < b[2] /\ a[2] > b[1]

\* Another active shift the user is confirmed on, at an overlapping time.
Clash(s, u) ==
  \E t \in Shifts \ {s} :
    /\ signup[t][u] = "CONFIRMED"
    /\ status[t] \notin Closed
    /\ Overlap(slot[s], slot[t])

---------------------------------------------------------------------------
(* What a handler reads, and the rules it validates on what it read.       *)

View(s, u) == [status |-> status[s], capacity |-> capacity[s],
               confirmed |-> Cardinality(Confirmed(s)), own |-> signup[s][u]]

IsFull(s) == Cardinality(Confirmed(s)) >= capacity[s]

ValidateSignup(s, u, allowOverCapacity) ==
  /\ status[s] \in Active
  /\ allowOverCapacity \/ (status[s] # "FULL" /\ ~IsFull(s))
  /\ signup[s][u] # "CONFIRMED"
  /\ ~Clash(s, u)

ValidateWaitlistJoinEarly(s, u) ==                              \* a mutant
  /\ status[s] \in Active
  /\ signup[s][u] \notin {"CONFIRMED", "WAITLISTED"}

ValidateWaitlistJoin(s, u) ==
  /\ status[s] \in Active
  /\ IsFull(s)
  /\ signup[s][u] \notin {"CONFIRMED", "WAITLISTED"}

IsNewestWaitlistEntry(next, s, except) ==                       \* a mutant
  LET W == Waiting(s) \ {except}
  IN  IF W = {} THEN next = NoOne
      ELSE next \in W /\ \A v \in W : createdAt[s][next] >= createdAt[s][v]

\* `next' is the waiting user with the oldest row, `except' left out; NoOne
\* stands for the undefined of an empty waitlist.
IsNextWaitlistEntry(next, s, except) ==
  LET W == Waiting(s) \ {except}
  IN  IF W = {} THEN next = NoOne
      ELSE next \in W /\ \A v \in W : createdAt[s][next] <= createdAt[s][v]

---------------------------------------------------------------------------
(* Handlers in flight.                                                     *)

Idle == [phase |-> "idle"]

Views == [status : ShiftStatus, capacity : Capacities, confirmed : Nat,
          own : SignupStatus]

SignupOps == {"signUp", "assign", "cancel", "joinWaitlist", "leaveWaitlist", "mark"}

SignupHandlers ==
  [phase : {"read", "tx"}, op : SignupOps, shift : Shifts, user : Volunteers,
   view : Views, next : Volunteers \cup {NoOne}, mark : Recorded \cup {"NONE"}, at : Nat]

RosterHandlers == [phase : {"read"}, op : {"addVolunteer"}, user : Volunteers]

Handlers == SignupHandlers \cup RosterHandlers

Reading(op, s, u) ==
  [phase |-> "read", op |-> op, shift |-> s, user |-> u, view |-> View(s, u),
   next |-> NoOne, mark |-> "NONE", at |-> 0]

Start(r, h) == req[r] = Idle /\ req' = [req EXCEPT ![r] = h]
Finish(r) == req' = [req EXCEPT ![r] = Idle]
At(r, phase, op) == req[r].phase = phase /\ req[r].op = op

NoRowLocks(s, u) == TRUE                                        \* a mutant

\* No open transaction holds the lock of the (s, u) row.
RowFree(s, u) ==
  \A r \in Requests :
    req[r].phase = "tx" => ~(req[r].shift = s /\ req[r].user = u)

---------------------------------------------------------------------------
(* Booking a seat: signUpForShift and assignVolunteerToShift.              *)

\* The insert or update of the booking's row can commit: an insert needs the
\* unique (shift, user) pair to be free, an update needs the row to exist.
BookingWritable(h) ==
  /\ Exists(h.shift)
  /\ (h.view.own = "NONE") <=> (signup[h.shift][h.user] = "NONE")
  /\ RowFree(h.shift, h.user)

\* The row, new or revived, is CONFIRMED from now on.
ConfirmRow(h) ==
  /\ signup' = [signup EXCEPT ![h.shift][h.user] = "CONFIRMED"]
  /\ UNCHANGED stampVars

FillsShiftOffByOne(h) == h.view.confirmed >= h.view.capacity    \* a mutant

\* Whether the view says this booking takes the last seat.
FillsShift(h) == h.view.confirmed + 1 >= h.view.capacity

SignUpRead(r, s, u) ==
  /\ "signUp" \in Ops
  /\ Exists(s)
  /\ signup[s][u] \notin Recorded
  /\ ValidateSignup(s, u, FALSE)
  /\ Start(r, Reading("signUp", s, u))
  /\ UNCHANGED <<shiftVars, signupVars, rosterVars, now, cron>>

\* Signing up also lifts the block the volunteer put on the organization.
SignUpCommit(r) ==
  LET h == req[r] IN
  /\ At(r, "read", "signUp")
  /\ BookingWritable(h)
  /\ ConfirmRow(h)
  /\ blocked' = blocked \ {h.user}
  /\ status' = IF FillsShift(h) THEN [status EXCEPT ![h.shift] = "FULL"] ELSE status
  /\ Finish(r)
  /\ UNCHANGED <<capacity, slot, rostered, now, cron>>

AssignRead(r, s, u, allowOverCapacity) ==
  /\ "assign" \in Ops
  /\ Exists(s)
  /\ u \in rostered
  /\ u \notin blocked
  /\ signup[s][u] \notin {"CONFIRMED"} \cup Recorded
  /\ ValidateSignup(s, u, allowOverCapacity)
  /\ Start(r, Reading("assign", s, u))
  /\ UNCHANGED <<shiftVars, signupVars, rosterVars, now, cron>>

AssignCommit(r) ==
  LET h == req[r] IN
  /\ At(r, "read", "assign")
  /\ BookingWritable(h)
  /\ ConfirmRow(h)
  /\ status' = IF FillsShift(h) /\ h.view.status # "FULL"
               THEN [status EXCEPT ![h.shift] = "FULL"] ELSE status
  /\ Finish(r)
  /\ UNCHANGED <<capacity, slot, rosterVars, now, cron>>

---------------------------------------------------------------------------
(* Giving a seat up: cancelSignup.                                         *)

CancelRead(r, s, u) ==
  /\ "cancel" \in Ops
  /\ signup[s][u] \in {"CONFIRMED", "WAITLISTED"}
  /\ Start(r, Reading("cancel", s, u))
  /\ UNCHANGED <<shiftVars, signupVars, rosterVars, now, cron>>

CancelBeginForAnyRow(r) ==                                      \* a mutant
  LET h == req[r] IN
  /\ At(r, "read", "cancel")
  /\ h.user \in Rows(h.shift)
  /\ RowFree(h.shift, h.user)
  /\ \E next \in Volunteers \cup {NoOne} :
       /\ IsNextWaitlistEntry(next, h.shift, h.user)
       /\ req' = [req EXCEPT ![r] = [h EXCEPT !.phase = "tx", !.next = next]]
  /\ UNCHANGED <<shiftVars, signupVars, rosterVars, now, cron>>

CancelBeginAfterUpdate(r) ==                                    \* a mutant
  LET h == req[r] IN
  /\ At(r, "read", "cancel")
  /\ h.user \in Rows(h.shift)
  /\ RowFree(h.shift, h.user)
  /\ req' = [req EXCEPT ![r] =
       [h EXCEPT !.phase = "tx", !.view = [@ EXCEPT !.own = "CANCELLED"]]]
  /\ UNCHANGED <<shiftVars, signupVars, rosterVars, now, cron>>

\* In the transaction: lock the caller's row by updating it, then, if the view
\* had it CONFIRMED, select the waitlist as committed by then.
CancelBegin(r) ==
  LET h == req[r] IN
  /\ At(r, "read", "cancel")
  /\ h.user \in Rows(h.shift)
  /\ RowFree(h.shift, h.user)
  /\ \E next \in Volunteers \cup {NoOne} :
       /\ IF h.view.own = "CONFIRMED" THEN IsNextWaitlistEntry(next, h.shift, h.user)
                                      ELSE next = NoOne
       /\ req' = [req EXCEPT ![r] = [h EXCEPT !.phase = "tx", !.next = next]]
  /\ UNCHANGED <<shiftVars, signupVars, rosterVars, now, cron>>

\* Promote the selected user, whatever that row has become; without one, reopen
\* the shift if the view had it FULL.
CancelCommit(r) ==
  LET h == req[r]
      promotes == h.next # NoOne
      reopens == h.view.own = "CONFIRMED" /\ ~promotes /\ h.view.status = "FULL"
  IN
  /\ At(r, "tx", "cancel")
  /\ promotes => RowFree(h.shift, h.next)
  /\ signup' = [signup EXCEPT ![h.shift] =
       [u \in Volunteers |-> IF u = h.next THEN "CONFIRMED"
                             ELSE IF u = h.user THEN "CANCELLED" ELSE @[u]]]
  /\ status' = IF reopens THEN [status EXCEPT ![h.shift] = "OPEN"] ELSE status
  /\ Finish(r)
  /\ UNCHANGED <<capacity, slot, stampVars, rosterVars, now, cron>>

---------------------------------------------------------------------------
(* The waitlist: joinWaitlist and leaveWaitlist.                           *)

JoinWaitlistRead(r, s, u) ==
  /\ "joinWaitlist" \in Ops
  /\ Exists(s)
  /\ ValidateWaitlistJoin(s, u)
  /\ Start(r, Reading("joinWaitlist", s, u))
  /\ UNCHANGED <<shiftVars, signupVars, rosterVars, now, cron>>

\* createWaitlistEntry only inserts, so any row of the pair refuses it, and one that
\* is being inserted holds it up.  createdAt defaults to the time of the insert.
JoinWaitlistBegin(r) ==
  LET h == req[r] IN
  /\ At(r, "read", "joinWaitlist")
  /\ Exists(h.shift)
  /\ signup[h.shift][h.user] = "NONE"
  /\ RowFree(h.shift, h.user)
  /\ req' = [req EXCEPT ![r] = [h EXCEPT !.phase = "tx", !.at = now]]
  /\ UNCHANGED <<shiftVars, signupVars, rosterVars, now, cron>>

JoinWaitlistCommit(r) ==
  LET h == req[r] IN
  /\ At(r, "tx", "joinWaitlist")
  /\ signup' = [signup EXCEPT ![h.shift][h.user] = "WAITLISTED"]
  /\ createdAt' = [createdAt EXCEPT ![h.shift][h.user] = h.at]
  /\ visibleAt' = [visibleAt EXCEPT ![h.shift][h.user] = now]
  /\ Finish(r)
  /\ UNCHANGED <<shiftVars, rosterVars, now, cron>>

LeaveWaitlistRead(r, s, u) ==
  /\ "leaveWaitlist" \in Ops
  /\ signup[s][u] = "WAITLISTED"
  /\ Start(r, Reading("leaveWaitlist", s, u))
  /\ UNCHANGED <<shiftVars, signupVars, rosterVars, now, cron>>

LeaveWaitlistCommit(r) ==
  LET h == req[r] IN
  /\ At(r, "read", "leaveWaitlist")
  /\ h.user \in Rows(h.shift)
  /\ RowFree(h.shift, h.user)
  /\ signup' = [signup EXCEPT ![h.shift][h.user] = "CANCELLED"]
  /\ Finish(r)
  /\ UNCHANGED <<shiftVars, stampVars, rosterVars, now, cron>>

---------------------------------------------------------------------------
(* Attendance: markAttendance, called by staff, by the QR scan and by the  *)
(* volunteer's own check-in.                                               *)

\* SELECT ... FOR UPDATE: the status read here cannot change until the commit.
\* ATTENDED is for seats held CONFIRMED; a NO_SHOW is taken for any row.
LockForMark(r, s, u, mark) ==
  /\ signup[s][u] # "NONE"
  /\ RowFree(s, u)
  /\ mark = "ATTENDED" => signup[s][u] = "CONFIRMED"
  /\ req' = [req EXCEPT ![r] =
       [Reading("mark", s, u) EXCEPT !.phase = "tx", !.mark = mark]]
  /\ UNCHANGED <<shiftVars, signupVars, rosterVars, now, cron>>

StaffMark(r, s, u, mark) ==
  /\ "staffMark" \in Ops
  /\ req[r] = Idle
  /\ LockForMark(r, s, u, mark)

\* The two check-in procedures refuse a shift that no longer takes people; they
\* look at it before markAttendance runs.
CheckinRead(r, s, u) ==
  /\ "checkin" \in Ops
  /\ status[s] \in Active
  /\ Start(r, [Reading("mark", s, u) EXCEPT !.mark = "ATTENDED"])
  /\ UNCHANGED <<shiftVars, signupVars, rosterVars, now, cron>>

CheckinLock(r) ==
  /\ At(r, "read", "mark")
  /\ LockForMark(r, req[r].shift, req[r].user, "ATTENDED")

MarkCommit(r) ==
  LET h == req[r] IN
  /\ At(r, "tx", "mark")
  /\ signup' = [signup EXCEPT ![h.shift][h.user] = h.mark]
  /\ Finish(r)
  /\ UNCHANGED <<shiftVars, stampVars, rosterVars, now, cron>>

---------------------------------------------------------------------------
(* The roster, as far as bookings see it.                                  *)

\* addVolunteer looks for a live row and for a block, and then inserts.
AddVolunteerRead(r, u) ==
  /\ "addVolunteer" \in Ops
  /\ u \notin rostered \cup blocked
  /\ Start(r, [phase |-> "read", op |-> "addVolunteer", user |-> u])
  /\ UNCHANGED <<shiftVars, signupVars, rosterVars, now, cron>>

\* The insert is refused only by another live row of the user.
AddVolunteerCommit(r) ==
  /\ At(r, "read", "addVolunteer")
  /\ req[r].user \notin rostered
  /\ rostered' = rostered \cup {req[r].user}
  /\ Finish(r)
  /\ UNCHANGED <<shiftVars, signupVars, blocked, now, cron>>

RemoveVolunteer(u) ==
  /\ "removeVolunteer" \in Ops
  /\ u \in rostered
  /\ rostered' = rostered \ {u}
  /\ UNCHANGED <<shiftVars, signupVars, blocked, now, cron, req>>

\* The volunteer's own exit, open to anyone on the roster or with a signup row.
LeaveOrg(u) ==
  /\ "leaveOrg" \in Ops
  /\ u \in rostered \/ \E s \in Shifts : signup[s][u] # "NONE"
  /\ u \notin blocked
  /\ rostered' = rostered \ {u}
  /\ blocked' = blocked \cup {u}
  /\ UNCHANGED <<shiftVars, signupVars, now, cron, req>>

---------------------------------------------------------------------------
(* The coordinator's operations on shifts: shiftService.ts.                *)

\* A new shift has valid times.  Ids are not reused.
CreateShift(s, c, start, end) ==
  /\ "createShift" \in Ops
  /\ status[s] = "ABSENT"
  /\ ValidTimes(start, end)
  /\ status' = [status EXCEPT ![s] = "OPEN"]
  /\ capacity' = [capacity EXCEPT ![s] = c]
  /\ slot' = [slot EXCEPT ![s] = <<start, end>>]
  /\ UNCHANGED <<signupVars, rosterVars, now, cron, req>>

\* An edit may leave out any field, and compares the times only when it has
\* both.  It neither recomputes the status nor promotes anybody.
UpdateShift(s, c, start, end) ==
  /\ "updateShift" \in Ops
  /\ Exists(s)
  /\ (start # slot[s][1] /\ end # slot[s][2]) => ValidTimes(start, end)
  /\ capacity' = [capacity EXCEPT ![s] = c]
  /\ slot' = [slot EXCEPT ![s] = <<start, end>>]
  /\ UNCHANGED <<status, signupVars, rosterVars, now, cron, req>>

CancelShift(s) ==
  /\ "cancelShift" \in Ops
  /\ Exists(s)
  /\ status' = [status EXCEPT ![s] = "CANCELLED"]
  /\ UNCHANGED <<capacity, slot, signupVars, rosterVars, now, cron, req>>

CompletedAsDone(s) ==                                           \* a mutant
  IF status[s] \in Active THEN [status EXCEPT ![s] = "DONE"] ELSE status

\* One conditional UPDATE: OPEN or FULL becomes COMPLETED, the rest stays.
Completed(s) == IF status[s] \in Active THEN [status EXCEPT ![s] = "COMPLETED"] ELSE status

CompleteShift(s) ==
  /\ "completeShift" \in Ops
  /\ status[s] \in Active
  /\ status' = Completed(s)
  /\ UNCHANGED <<capacity, slot, signupVars, rosterVars, now, cron, req>>

\* The delete cascades to the shift's signup rows, so it waits for their locks.
RemoveShift(s) ==
  /\ "removeShift" \in Ops
  /\ Exists(s)
  /\ \A u \in Volunteers : RowFree(s, u)
  /\ status' = [status EXCEPT ![s] = "DELETED"]
  /\ signup' = [signup EXCEPT ![s] = [u \in Volunteers |-> "NONE"]]
  /\ createdAt' = [createdAt EXCEPT ![s] = [u \in Volunteers |-> 0]]
  /\ visibleAt' = [visibleAt EXCEPT ![s] = [u \in Volunteers |-> 0]]
  /\ UNCHANGED <<capacity, slot, rosterVars, now, cron, req>>

---------------------------------------------------------------------------
(* The clock, and the job that completes expired shifts:                   *)
(* autoCloseExpiredShifts.                                                 *)

Tick ==
  /\ "clock" \in Ops
  /\ now < MaxNow
  /\ now' = now + 1
  /\ UNCHANGED <<shiftVars, signupVars, rosterVars, cron, req>>

ExpiredWhenOpen == {s \in Shifts : status[s] = "OPEN" /\ slot[s][2] < now}   \* a mutant

Expired == {s \in Shifts : status[s] \in Active /\ slot[s][2] < now}

\* The batch: at most CronBatch expired shifts, those that ended first.
CronScan ==
  /\ cron = {}
  /\ \E batch \in SUBSET Expired :
       /\ batch # {}
       /\ Cardinality(batch) = CronBatch
            \/ (batch = Expired /\ Cardinality(Expired) < CronBatch)
       /\ \A s \in batch : \A t \in Expired \ batch : slot[s][2] <= slot[t][2]
       /\ cron' = batch
  /\ UNCHANGED <<shiftVars, signupVars, rosterVars, now, req>>

\* The job visits the shifts of the batch as the scan found them; only the
\* status is looked at again.
CronClose(s) ==
  /\ s \in cron
  /\ status' = Completed(s)
  /\ cron' = cron \ {s}
  /\ UNCHANGED <<capacity, slot, signupVars, rosterVars, now, req>>

\* A visit that fails is logged and the job goes on; so is every visit that a job
\* cut short never makes.
CronSkip(s) ==
  /\ s \in cron
  /\ cron' = cron \ {s}
  /\ UNCHANGED <<shiftVars, signupVars, rosterVars, now, req>>

---------------------------------------------------------------------------

\* A handler ends without a commit: its write is refused (a unique index, a row
\* that is gone) or the invocation dies.  Its open transaction rolls back.
Rollback(r) ==
  /\ req[r] # Idle
  /\ Finish(r)
  /\ UNCHANGED <<shiftVars, signupVars, rosterVars, now, cron>>

Init ==
  /\ status = [s \in Shifts |-> "ABSENT"]
  /\ capacity = [s \in Shifts |-> CHOOSE c \in Capacities : TRUE]
  /\ slot = [s \in Shifts |-> CHOOSE t \in Times \X Times : ValidTimes(t[1], t[2])]
  /\ signup = [s \in Shifts |-> [u \in Volunteers |-> "NONE"]]
  /\ createdAt = [s \in Shifts |-> [u \in Volunteers |-> 0]]
  /\ visibleAt = [s \in Shifts |-> [u \in Volunteers |-> 0]]
  /\ rostered = Volunteers
  /\ blocked = {}
  /\ now = 0
  /\ cron = {}
  /\ req = [r \in Requests |-> Idle]

BookingStep(r) ==
  \/ \E s \in Shifts, u \in Volunteers :
       \/ SignUpRead(r, s, u)
       \/ \E over \in BOOLEAN : AssignRead(r, s, u, over)
       \/ CancelRead(r, s, u)
       \/ JoinWaitlistRead(r, s, u)
       \/ LeaveWaitlistRead(r, s, u)
       \/ \E mark \in Recorded : StaffMark(r, s, u, mark)
       \/ CheckinRead(r, s, u)
  \/ SignUpCommit(r)
  \/ AssignCommit(r)
  \/ CancelBegin(r)
  \/ CancelCommit(r)
  \/ JoinWaitlistBegin(r)
  \/ JoinWaitlistCommit(r)
  \/ LeaveWaitlistCommit(r)
  \/ CheckinLock(r)
  \/ MarkCommit(r)
  \/ Rollback(r)

RosterNext ==
  \E u \in Volunteers :
    \/ \E r \in Requests : AddVolunteerRead(r, u)
    \/ RemoveVolunteer(u)
    \/ LeaveOrg(u)

ShiftNext ==
  \E s \in Shifts :
    \/ \E c \in Capacities, start, end \in Times :
         CreateShift(s, c, start, end) \/ UpdateShift(s, c, start, end)
    \/ CancelShift(s)
    \/ CompleteShift(s)
    \/ RemoveShift(s)
    \/ CronClose(s)
    \/ CronSkip(s)

Next ==
  \/ \E r \in Requests : BookingStep(r)
  \/ RosterNext
  \/ \E r \in Requests : AddVolunteerCommit(r)
  \/ ShiftNext
  \/ CronScan
  \/ Tick

Spec == Init /\ [][Next]_vars

\* The scheduler starts the auto-close job again and again (vercel.json), and no
\* shift's visit fails every time.  Nothing else is assumed to happen.
Fairness == WF_vars(CronScan) /\ \A s \in Shifts : SF_vars(CronClose(s))
FairSpec == Spec /\ Fairness

---------------------------------------------------------------------------
(* Types.                                                                  *)

TypeOK ==
  /\ status \in [Shifts -> ShiftStatus]
  /\ capacity \in [Shifts -> Capacities]
  /\ slot \in [Shifts -> Times \X Times]
  /\ signup \in [Shifts -> [Volunteers -> SignupStatus]]
  /\ createdAt \in [Shifts -> [Volunteers -> Nat]]
  /\ visibleAt \in [Shifts -> [Volunteers -> Nat]]
  /\ rostered \in SUBSET Volunteers
  /\ blocked \in SUBSET Volunteers
  /\ now \in Nat
  /\ cron \in SUBSET Shifts
  /\ req \in [Requests -> {Idle} \cup Handlers]

---------------------------------------------------------------------------
(* What holds however requests interleave.                                 *)

\* The waitlist is first come, first served: when a cancellation promotes
\* somebody, nobody else is waiting who was on the list before the promoted
\* volunteer joined it.  The list was read before the promotion is written, so
\* this is about what others did in between (getNextWaitlistEntry, cancelSignup).
\* Two joins that overlap may be served in either order.
PromotionIsFifo ==
  [][\A r \in Requests :
       CancelCommit(r) =>
         LET h == req[r] IN
         h.next # NoOne =>
           \A u \in Waiting(h.shift) \ {h.user} :
             createdAt[h.shift][h.next] <= visibleAt[h.shift][u]]_vars

\* Attendance is earned from a seat: a row that becomes ATTENDED was CONFIRMED
\* until that very step, whatever was cancelled or promoted between the check of
\* markAttendance and its write.
AttendanceNeedsConfirmedSeat ==
  [][\A s \in Shifts, u \in Volunteers :
       signup'[s][u] = "ATTENDED" /\ signup[s][u] # "ATTENDED" =>
         signup[s][u] = "CONFIRMED"]_vars

\* r needs the row that q's open transaction has locked.
WaitsFor(r, q) ==
  /\ At(r, "tx", "cancel")
  /\ req[q].phase = "tx"
  /\ req[r].shift = req[q].shift
  /\ req[r].next = req[q].user

\* Cancellations cannot deadlock: a cancellation holds its own row and waits for
\* the row it promotes, yet no set of open transactions waits in a circle.
NoLockCycle ==
  \A S \in SUBSET Requests :
    S # {} => \E r \in S : \A q \in S : ~WaitsFor(r, q)

\* The inductive invariant behind the first two properties.  Two open transactions
\* never lock one row; the row stays, or stays free to insert, while one holds it;
\* one that marks ATTENDED still sees the seat CONFIRMED; no row is stamped in the
\* future; and the row a cancellation is about to promote is as old as PromotionIsFifo
\* asks, whoever has joined the waitlist since it was read.
LocksExclusive ==
  \A r, q \in Requests :
    req[r].phase = "tx" /\ req[q].phase = "tx" /\ r # q =>
       ~(req[r].shift = req[q].shift /\ req[r].user = req[q].user)

LockedRowsExist ==
  \A r \in Requests :
    req[r].phase = "tx" =>
      (req[r].user \in Rows(req[r].shift) <=> req[r].op # "joinWaitlist")

MarksConfirmedSeat ==
  \A r \in Requests :
    At(r, "tx", "mark") =>
      /\ req[r].mark \in Recorded
      /\ req[r].mark = "ATTENDED" => signup[req[r].shift][req[r].user] = "CONFIRMED"

StampsPast ==
  /\ \A s \in Shifts, u \in Volunteers :
       createdAt[s][u] <= visibleAt[s][u] /\ visibleAt[s][u] <= now
  /\ \A r \in Requests : At(r, "tx", "joinWaitlist") => req[r].at <= now

PromotesOldest ==
  \A r \in Requests :
    At(r, "tx", "cancel") /\ req[r].next # NoOne =>
      /\ req[r].next \in Rows(req[r].shift)
      /\ \A u \in Waiting(req[r].shift) \ {req[r].user} :
           createdAt[req[r].shift][req[r].next] <= visibleAt[req[r].shift][u]

BookingInv ==
  /\ LocksExclusive
  /\ LockedRowsExist
  /\ MarksConfirmedSeat
  /\ StampsPast
  /\ PromotesOldest

\* And the one behind the third.  Signup rows go with their shift; and a seat that
\* a cancellation has seen CONFIRMED never waits again, so a row that is promoted
\* is not the row of a cancellation that promotes somebody in turn.
RowsHaveShift ==
  /\ \A s \in Shifts : Rows(s) # {} => Exists(s)
  /\ \A r \in Requests : At(r, "tx", "joinWaitlist") => Exists(req[r].shift)

SeenSeatsNeverWait ==
  \A r \in Requests :
    (At(r, "read", "cancel") \/ At(r, "tx", "cancel")) /\ req[r].view.own = "CONFIRMED" =>
      \/ status[req[r].shift] = "DELETED"
      \/ signup[req[r].shift][req[r].user] \notin {"NONE", "WAITLISTED"}

PromotersHeldSeats ==
  \A r \in Requests :
    At(r, "tx", "cancel") /\ req[r].next # NoOne =>
      req[r].view.own = "CONFIRMED" /\ req[r].next # req[r].user

LockInv == RowsHaveShift /\ SeenSeatsNeverWait /\ PromotersHeldSeats /\ NoLockCycle

---------------------------------------------------------------------------
(* What holds when requests come one at a time, or clients keep to some of *)
(* the operations.                                                         *)

\* Shift.status is the denormalized answer to "is every seat taken": an active
\* shift has at most `capacity' confirmed volunteers, and is FULL exactly when it
\* has as many.  Sign-ups, cancellations and promotions each adjust it by hand.
SeatsAgree ==
  \A s \in Shifts :
    status[s] \in Active =>
      /\ Cardinality(Confirmed(s)) <= capacity[s]
      /\ status[s] = "FULL" <=> Cardinality(Confirmed(s)) = capacity[s]

\* Nobody waits beside a free seat: a waitlist is only ever joined when the shift
\* is full, and a seat given up goes to the waitlist first.
NobodyWaitsBesideFreeSeat ==
  \A s \in Shifts :
    status[s] \in Active /\ Waiting(s) # {} => IsFull(s)

\* docs/DOMAIN.md:417: "When a confirmed volunteer cancels, the earliest
\* waitlisted volunteer is auto-promoted".  So a cancellation that finds somebody
\* waiting when it commits leaves as many seats taken as before; it selects whom
\* to promote one statement earlier, which is too early when others join meanwhile.
CancelledSeatIsPassedOn ==
  [][\A r \in Requests :
       CancelCommit(r) =>
         LET s == req[r].shift
             u == req[r].user
         IN  signup[s][u] = "CONFIRMED" /\ Waiting(s) # {} =>
               Cardinality({v \in Volunteers : signup'[s][v] = "CONFIRMED"})
                 = Cardinality(Confirmed(s))]_vars

WaitingSince(s) == [u \in Waiting(s) |-> createdAt[s][u]]

\* Seats are handed out as by a ledger that does each operation in one step: what a
\* request has read when it decides still stands when it writes, a seat given up goes to
\* one of those who have waited longest, and the reads themselves change nothing
\* (signUpForShift, cancelSignup, joinWaitlist, leaveWaitlist).
Ledger == INSTANCE SeatLedger WITH
  offered <- {s \in Shifts : Exists(s)},
  holders <- [s \in Shifts |-> Confirmed(s)],
  queue <- [s \in Shifts |-> WaitingSince(s)]
LedgerRefinement == Ledger!Spec

\* A volunteer is never confirmed on two active shifts that overlap.
NoDoubleBooking ==
  \A s \in Shifts, u \in Volunteers :
    status[s] \in Active /\ signup[s][u] = "CONFIRMED" => ~Clash(s, u)

Ended(s) == status[s] \in Active /\ slot[s][2] < now

Reopened(s) == status[s] \in Closed /\ status'[s] \in Active

\* A shift that is over is closed in the end, whatever visits fail and although a
\* cancellation or a sign-up that was in flight may reopen it, unless other shifts are
\* reopened for ever: the job visits a batch, those that ended first, and shifts that
\* are reopened each time can fill it.
EndedShiftsClose ==
  \A s \in Shifts :
    (Ended(s) ~> ~Ended(s)) \/ []<><<\E t \in Shifts \ {s} : Reopened(t)>>_vars

---------------------------------------------------------------------------
(* What the documentation or a comment says, and the code does not keep.   *)

\* domain/shift.ts:475 tells a volunteer the waitlist refuses: "Shift has open
\* spots - sign up directly".  So a shift with a free seat takes sign-ups.
RefusedWaitlistMeansSignUp ==
  \A s \in Shifts, u \in Volunteers :
    status[s] \in Active /\ ~IsFull(s) /\ signup[s][u] = "NONE" /\ ~Clash(s, u) =>
      ValidateSignup(s, u, FALSE)
=============================================================================
