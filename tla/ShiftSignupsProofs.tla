------------------------- MODULE ShiftSignupsProofs -------------------------
(* Theorems about ShiftSignups, for every set of volunteers, shifts,         *)
(* requests and operations.                                                  *)
EXTENDS ShiftSignups, FiniteSetTheorems, TLAPS

---------------------------------------------------------------------------
(* Facts about the rows of a shift and about the handlers in flight.       *)

LEMMA ConfirmedFinite ==
  ASSUME NEW s \in Shifts
  PROVE  Cardinality(Confirmed(s)) \in Nat
<1>1. Confirmed(s) \subseteq Volunteers
  BY DEF Confirmed
<1> QED
  BY <1>1, FiniteAssumption, FS_Subset, FS_CardinalityType

LEMMA ReadingType ==
  ASSUME TypeOK, NEW op \in SignupOps, NEW s \in Shifts, NEW u \in Volunteers
  PROVE  Reading(op, s, u) \in SignupHandlers
<1>1. View(s, u) \in Views
  BY ConfirmedFinite DEF TypeOK, View, Views
<1> QED
  BY <1>1 DEF Reading, SignupHandlers

LEMMA StartType ==
  ASSUME TypeOK, NEW r \in Requests, NEW h \in SignupHandlers, req' = [req EXCEPT ![r] = h]
  PROVE  req' \in [Requests -> {Idle} \cup Handlers]
BY DEF TypeOK, Handlers

LEMMA FinishType ==
  ASSUME TypeOK, NEW r \in Requests, Finish(r)
  PROVE  req' \in [Requests -> {Idle} \cup Handlers]
BY DEF TypeOK, Finish

LEMMA InFlight ==
  ASSUME TypeOK, NEW r \in Requests, NEW phase \in {"read", "tx"}, NEW op \in SignupOps,
         At(r, phase, op)
  PROVE  req[r] \in SignupHandlers
<1>1. req[r] \in {Idle} \cup SignupHandlers \cup RosterHandlers
  BY DEF TypeOK, Handlers
<1>2. req[r] # Idle
  BY DEF At, Idle
<1>3. req[r] \notin RosterHandlers
  BY DEF At, RosterHandlers, SignupOps
<1> QED
  BY <1>1, <1>2, <1>3

LEMMA InTransaction ==
  ASSUME TypeOK, NEW r \in Requests, req[r].phase = "tx"
  PROVE  req[r] \in SignupHandlers
<1>1. req[r] \in {Idle} \cup SignupHandlers \cup RosterHandlers
  BY DEF TypeOK, Handlers
<1> QED
  BY <1>1 DEF Idle, RosterHandlers

---------------------------------------------------------------------------
(* Types.                                                                  *)

LEMMA ConfirmRowType ==
  ASSUME TypeOK, NEW h \in SignupHandlers, ConfirmRow(h)
  PROVE  /\ signup' \in [Shifts -> [Volunteers -> SignupStatus]]
         /\ createdAt' \in [Shifts -> [Volunteers -> Nat]]
         /\ visibleAt' \in [Shifts -> [Volunteers -> Nat]]
<1>1. h.shift \in Shifts /\ h.user \in Volunteers
  BY DEF SignupHandlers
<1>2. signup' \in [Shifts -> [Volunteers -> SignupStatus]]
  BY <1>1 DEF ConfirmRow, TypeOK, SignupStatus
<1> QED
  BY <1>2 DEF ConfirmRow, TypeOK, stampVars

LEMMA LockForMarkType ==
  ASSUME TypeOK, NEW r \in Requests, NEW s \in Shifts, NEW u \in Volunteers,
         NEW mark \in Recorded, LockForMark(r, s, u, mark)
  PROVE  TypeOK'
<1>1. [Reading("mark", s, u) EXCEPT !.phase = "tx", !.mark = mark] \in SignupHandlers
  <2>1. Reading("mark", s, u) \in SignupHandlers
    BY ReadingType DEF SignupOps
  <2> QED
    BY <2>1 DEF SignupHandlers
<1>2. req' \in [Requests -> {Idle} \cup Handlers]
  BY <1>1, StartType DEF LockForMark
<1> QED
  BY <1>2 DEF LockForMark, TypeOK, shiftVars, signupVars, stampVars, rosterVars

LEMMA InitTypeOK == Init => TypeOK
<1> SUFFICES ASSUME Init PROVE TypeOK
  OBVIOUS
<1>1. (CHOOSE c \in Capacities : TRUE) \in Capacities
  BY CapacitiesAssumption
<1>2. (CHOOSE t \in Times \X Times : ValidTimes(t[1], t[2])) \in Times \X Times
  BY SomeSlotAssumption
<1>3. status \in [Shifts -> ShiftStatus] /\ capacity \in [Shifts -> Capacities]
      /\ slot \in [Shifts -> Times \X Times]
  BY <1>1, <1>2 DEF Init, ShiftStatus
<1>4. signup \in [Shifts -> [Volunteers -> SignupStatus]]
      /\ createdAt \in [Shifts -> [Volunteers -> Nat]]
      /\ visibleAt \in [Shifts -> [Volunteers -> Nat]]
  BY DEF Init, SignupStatus
<1>5. rostered \in SUBSET Volunteers /\ blocked \in SUBSET Volunteers /\ now \in Nat
      /\ cron \in SUBSET Shifts
  BY DEF Init
<1>6. req \in [Requests -> {Idle} \cup Handlers]
  BY DEF Init
<1> QED
  BY <1>3, <1>4, <1>5, <1>6 DEF TypeOK

LEMMA BookingTypeOK ==
  ASSUME TypeOK, NEW r \in Requests, BookingStep(r)
  PROVE  TypeOK'
<1> USE DEF shiftVars, signupVars, stampVars, rosterVars
<1>1. ASSUME NEW s \in Shifts, NEW u \in Volunteers,
             \/ SignUpRead(r, s, u)
             \/ \E over \in BOOLEAN : AssignRead(r, s, u, over)
             \/ CancelRead(r, s, u)
             \/ JoinWaitlistRead(r, s, u)
             \/ LeaveWaitlistRead(r, s, u)
      PROVE  TypeOK'
  <2>1. PICK op \in SignupOps : req' = [req EXCEPT ![r] = Reading(op, s, u)]
    BY <1>1 DEF SignUpRead, AssignRead, CancelRead, JoinWaitlistRead, LeaveWaitlistRead,
                Start, SignupOps
  <2>2. req' \in [Requests -> {Idle} \cup Handlers]
    BY <2>1, ReadingType, StartType
  <2>3. UNCHANGED <<shiftVars, signupVars, rosterVars, now, cron>>
    BY <1>1 DEF SignUpRead, AssignRead, CancelRead, JoinWaitlistRead, LeaveWaitlistRead
  <2> QED
    BY <2>2, <2>3 DEF TypeOK
<1>2. ASSUME NEW s \in Shifts, NEW u \in Volunteers, CheckinRead(r, s, u) PROVE TypeOK'
  <2>1. Reading("mark", s, u) \in SignupHandlers
    BY ReadingType DEF SignupOps
  <2>2. [Reading("mark", s, u) EXCEPT !.mark = "ATTENDED"] \in SignupHandlers
    BY <2>1 DEF SignupHandlers, Recorded
  <2>3. req' \in [Requests -> {Idle} \cup Handlers]
    BY <1>2, <2>2, StartType DEF CheckinRead, Start
  <2> QED
    BY <1>2, <2>3 DEF CheckinRead, TypeOK
<1>3. ASSUME NEW s \in Shifts, NEW u \in Volunteers, NEW mark \in Recorded,
             StaffMark(r, s, u, mark)
      PROVE  TypeOK'
  BY <1>3, LockForMarkType DEF StaffMark
<1>4. CASE CheckinLock(r)
  <2>1. req[r] \in SignupHandlers
    BY <1>4, InFlight DEF CheckinLock, SignupOps
  <2>2. req[r].shift \in Shifts /\ req[r].user \in Volunteers
    BY <2>1 DEF SignupHandlers
  <2> QED
    BY <1>4, <2>2, LockForMarkType DEF CheckinLock, Recorded
<1>5. CASE SignUpCommit(r)
  <2>1. req[r] \in SignupHandlers
    BY <1>5, InFlight DEF SignUpCommit, SignupOps
  <2>2. /\ signup' \in [Shifts -> [Volunteers -> SignupStatus]]
        /\ createdAt' \in [Shifts -> [Volunteers -> Nat]]
        /\ visibleAt' \in [Shifts -> [Volunteers -> Nat]]
    BY <1>5, <2>1, ConfirmRowType DEF SignUpCommit
  <2>3. status' \in [Shifts -> ShiftStatus] /\ blocked' \in SUBSET Volunteers
    BY <1>5, <2>1 DEF SignUpCommit, TypeOK, ShiftStatus
  <2>4. req' \in [Requests -> {Idle} \cup Handlers]
    BY <1>5, FinishType DEF SignUpCommit
  <2> QED
    BY <1>5, <2>2, <2>3, <2>4 DEF SignUpCommit, TypeOK
<1>6. CASE AssignCommit(r)
  <2>1. req[r] \in SignupHandlers
    BY <1>6, InFlight DEF AssignCommit, SignupOps
  <2>2. /\ signup' \in [Shifts -> [Volunteers -> SignupStatus]]
        /\ createdAt' \in [Shifts -> [Volunteers -> Nat]]
        /\ visibleAt' \in [Shifts -> [Volunteers -> Nat]]
    BY <1>6, <2>1, ConfirmRowType DEF AssignCommit
  <2>3. status' \in [Shifts -> ShiftStatus]
    BY <1>6, <2>1 DEF AssignCommit, TypeOK, ShiftStatus
  <2>4. req' \in [Requests -> {Idle} \cup Handlers]
    BY <1>6, FinishType DEF AssignCommit
  <2> QED
    BY <1>6, <2>2, <2>3, <2>4 DEF AssignCommit, TypeOK
<1>7. CASE CancelBegin(r)
  <2>1. req[r] \in SignupHandlers
    BY <1>7, InFlight DEF CancelBegin, SignupOps
  <2>2. PICK next \in Volunteers \cup {NoOne} :
          req' = [req EXCEPT ![r] = [req[r] EXCEPT !.phase = "tx", !.next = next]]
    BY <1>7 DEF CancelBegin
  <2>3. [req[r] EXCEPT !.phase = "tx", !.next = next] \in SignupHandlers
    BY <2>1 DEF SignupHandlers
  <2>4. req' \in [Requests -> {Idle} \cup Handlers]
    BY <2>2, <2>3, StartType
  <2> QED
    BY <1>7, <2>4 DEF CancelBegin, TypeOK
<1>8. CASE CancelCommit(r)
  <2>1. req[r] \in SignupHandlers
    BY <1>8, InFlight DEF CancelCommit, SignupOps
  <2>2. signup' \in [Shifts -> [Volunteers -> SignupStatus]]
    BY <1>8, <2>1 DEF CancelCommit, TypeOK, SignupStatus
  <2>3. status' \in [Shifts -> ShiftStatus]
    BY <1>8, <2>1 DEF CancelCommit, TypeOK, ShiftStatus
  <2>4. req' \in [Requests -> {Idle} \cup Handlers]
    BY <1>8, FinishType DEF CancelCommit
  <2> QED
    BY <1>8, <2>2, <2>3, <2>4 DEF CancelCommit, TypeOK
<1>13. CASE JoinWaitlistBegin(r)
  <2>1. req[r] \in SignupHandlers
    BY <1>13, InFlight DEF JoinWaitlistBegin, SignupOps
  <2>2. [req[r] EXCEPT !.phase = "tx", !.at = now] \in SignupHandlers
    BY <2>1 DEF SignupHandlers, TypeOK
  <2>3. req' \in [Requests -> {Idle} \cup Handlers]
    BY <1>13, <2>2, StartType DEF JoinWaitlistBegin
  <2> QED
    BY <1>13, <2>3 DEF JoinWaitlistBegin, TypeOK
<1>9. CASE JoinWaitlistCommit(r)
  <2>1. req[r] \in SignupHandlers
    BY <1>9, InFlight DEF JoinWaitlistCommit, SignupOps
  <2>2. signup' \in [Shifts -> [Volunteers -> SignupStatus]]
    BY <1>9, <2>1 DEF JoinWaitlistCommit, TypeOK, SignupStatus
  <2>3. /\ createdAt' \in [Shifts -> [Volunteers -> Nat]]
        /\ visibleAt' \in [Shifts -> [Volunteers -> Nat]]
    BY <1>9, <2>1 DEF JoinWaitlistCommit, TypeOK, SignupHandlers
  <2>4. req' \in [Requests -> {Idle} \cup Handlers]
    BY <1>9, FinishType DEF JoinWaitlistCommit
  <2> QED
    BY <1>9, <2>2, <2>3, <2>4 DEF JoinWaitlistCommit, TypeOK
<1>10. CASE LeaveWaitlistCommit(r)
  <2>1. signup' \in [Shifts -> [Volunteers -> SignupStatus]]
    BY <1>10 DEF LeaveWaitlistCommit, TypeOK, SignupStatus
  <2>2. req' \in [Requests -> {Idle} \cup Handlers]
    BY <1>10, FinishType DEF LeaveWaitlistCommit
  <2> QED
    BY <1>10, <2>1, <2>2 DEF LeaveWaitlistCommit, TypeOK
<1>11. CASE MarkCommit(r)
  <2>1. req[r] \in SignupHandlers
    BY <1>11, InFlight DEF MarkCommit, SignupOps
  <2>2. signup' \in [Shifts -> [Volunteers -> SignupStatus]]
    BY <1>11, <2>1 DEF MarkCommit, TypeOK, SignupStatus, SignupHandlers, Recorded
  <2>3. req' \in [Requests -> {Idle} \cup Handlers]
    BY <1>11, FinishType DEF MarkCommit
  <2> QED
    BY <1>11, <2>2, <2>3 DEF MarkCommit, TypeOK
<1>12. CASE Rollback(r)
  BY <1>12, FinishType DEF Rollback, TypeOK
<1> QED
  BY <1>1, <1>2, <1>3, <1>4, <1>5, <1>6, <1>7, <1>8, <1>9, <1>10, <1>11, <1>12,
     <1>13 DEF BookingStep

LEMMA RosterTypeOK ==
  ASSUME TypeOK, \/ RosterNext
                 \/ \E r \in Requests : AddVolunteerCommit(r)
  PROVE  TypeOK'
<1> USE DEF shiftVars, signupVars, stampVars, rosterVars
<1>1. ASSUME NEW u \in Volunteers, NEW r \in Requests, AddVolunteerRead(r, u) PROVE TypeOK'
  <2>1. [phase |-> "read", op |-> "addVolunteer", user |-> u] \in Handlers
    BY DEF Handlers, RosterHandlers
  <2> QED
    BY <1>1, <2>1 DEF AddVolunteerRead, Start, TypeOK
<1>2. ASSUME NEW u \in Volunteers, RemoveVolunteer(u) \/ LeaveOrg(u) PROVE TypeOK'
  BY <1>2 DEF RemoveVolunteer, LeaveOrg, TypeOK
<1>3. ASSUME NEW r \in Requests, AddVolunteerCommit(r) PROVE TypeOK'
  <2>1. req[r] \in Handlers
    BY <1>3 DEF AddVolunteerCommit, At, TypeOK, Idle
  <2>2. req[r].user \in Volunteers
    BY <2>1 DEF Handlers, SignupHandlers, RosterHandlers
  <2> QED
    BY <1>3, <2>2, FinishType DEF AddVolunteerCommit, TypeOK
<1> QED
  BY <1>1, <1>2, <1>3 DEF RosterNext

LEMMA ShiftTypeOK == TypeOK /\ ShiftNext => TypeOK'
<1> SUFFICES ASSUME TypeOK, NEW s \in Shifts,
                    \/ \E c \in Capacities, start, end \in Times :
                         CreateShift(s, c, start, end) \/ UpdateShift(s, c, start, end)
                    \/ CancelShift(s)
                    \/ CompleteShift(s)
                    \/ RemoveShift(s)
                    \/ CronClose(s)
                    \/ CronSkip(s)
             PROVE  TypeOK'
  BY DEF ShiftNext
<1> USE DEF TypeOK, shiftVars, signupVars, stampVars, rosterVars
<1>1. ASSUME NEW c \in Capacities, NEW start \in Times, NEW end \in Times,
             CreateShift(s, c, start, end)
      PROVE  TypeOK'
  BY <1>1 DEF CreateShift, ShiftStatus
<1>2. ASSUME NEW c \in Capacities, NEW start \in Times, NEW end \in Times,
             UpdateShift(s, c, start, end)
      PROVE  TypeOK'
  BY <1>2 DEF UpdateShift
<1>3. CASE CancelShift(s)
  BY <1>3 DEF CancelShift, ShiftStatus
<1>4. Completed(s) \in [Shifts -> ShiftStatus]
  BY DEF Completed, ShiftStatus
<1>5. CASE CompleteShift(s)
  BY <1>4, <1>5 DEF CompleteShift
<1>6. CASE RemoveShift(s)
  <2>1. status' \in [Shifts -> ShiftStatus]
    BY <1>6 DEF RemoveShift, ShiftStatus
  <2>2. /\ signup' \in [Shifts -> [Volunteers -> SignupStatus]]
        /\ createdAt' \in [Shifts -> [Volunteers -> Nat]]
        /\ visibleAt' \in [Shifts -> [Volunteers -> Nat]]
    BY <1>6 DEF RemoveShift, SignupStatus
  <2> QED
    BY <1>6, <2>1, <2>2 DEF RemoveShift
<1>7. CASE CronClose(s)
  BY <1>4, <1>7 DEF CronClose
<1>8. CASE CronSkip(s)
  BY <1>8 DEF CronSkip
<1> QED
  BY <1>1, <1>2, <1>3, <1>5, <1>6, <1>7, <1>8

LEMMA NextTypeOK == TypeOK /\ [Next]_vars => TypeOK'
<1> SUFFICES ASSUME TypeOK, [Next]_vars PROVE TypeOK'
  OBVIOUS
<1> USE DEF shiftVars, signupVars, stampVars, rosterVars
<1>1. CASE CronScan
  BY <1>1 DEF CronScan, Expired, TypeOK
<1>2. CASE Tick
  BY <1>2 DEF Tick, TypeOK
<1>3. CASE UNCHANGED vars
  BY <1>3 DEF vars, TypeOK
<1> QED
  BY <1>1, <1>2, <1>3, BookingTypeOK, RosterTypeOK, ShiftTypeOK DEF Next

\* Every variable keeps its type: the stored statuses stay within the enums of
\* schema.prisma, and a handler only ever holds what it read.
THEOREM TypeCorrect == Spec => []TypeOK
<1>1. Init => TypeOK
  BY InitTypeOK
<1>2. TypeOK /\ [Next]_vars => TypeOK'
  BY NextTypeOK
<1> QED
  BY <1>1, <1>2, PTL DEF Spec

---------------------------------------------------------------------------
(* The inductive invariant.                                                *)

\* Transactions that are open after the step were open before it.
NoNewLocks == \A q \in Requests : req'[q].phase = "tx" => req'[q] = req[q]

\* Rows only come into being; whoever waits was waiting before or joins with a new
\* row, visible as of now.
RowsGrow ==
  /\ now <= now' /\ now' \in Nat
  /\ \A s \in Shifts, u \in Volunteers :
       /\ signup[s][u] # "NONE" => signup'[s][u] # "NONE"
       /\ \/ /\ createdAt'[s][u] = createdAt[s][u] /\ visibleAt'[s][u] = visibleAt[s][u]
             /\ signup'[s][u] = "WAITLISTED" => signup[s][u] = "WAITLISTED"
          \/ /\ signup[s][u] = "NONE"
             /\ createdAt'[s][u] <= now /\ visibleAt'[s][u] = now

LEMMA StampsStayPast ==
  ASSUME TypeOK, StampsPast, RowsGrow, NoNewLocks
  PROVE  StampsPast'
<1>1. ASSUME NEW s \in Shifts, NEW u \in Volunteers
      PROVE  createdAt'[s][u] <= visibleAt'[s][u] /\ visibleAt'[s][u] <= now'
  <2>1. /\ createdAt[s][u] <= visibleAt[s][u] /\ visibleAt[s][u] <= now
        /\ createdAt[s][u] \in Nat /\ visibleAt[s][u] \in Nat /\ now \in Nat
    BY DEF StampsPast, TypeOK
  <2> QED
    BY <2>1 DEF RowsGrow
<1>2. ASSUME NEW q \in Requests, At(q, "tx", "joinWaitlist")'
      PROVE  req'[q].at <= now'
  <2>1. req'[q] = req[q] /\ At(q, "tx", "joinWaitlist")
    BY <1>2 DEF NoNewLocks, At
  <2>2. req[q].at \in Nat /\ now \in Nat
    BY <2>1, InTransaction DEF SignupHandlers, At, TypeOK
  <2>3. req[q].at <= now /\ now <= now' /\ now' \in Nat
    BY <2>1 DEF StampsPast, RowsGrow
  <2> QED
    BY <2>1, <2>2, <2>3
<1> QED
  BY <1>1, <1>2 DEF StampsPast

LEMMA OldestStaysOldest ==
  ASSUME TypeOK, StampsPast, PromotesOldest, RowsGrow, NoNewLocks
  PROVE  PromotesOldest'
<1> SUFFICES ASSUME NEW q \in Requests, (At(q, "tx", "cancel") /\ req[q].next # NoOne)'
             PROVE  (/\ req[q].next \in Rows(req[q].shift)
                     /\ \A u \in Waiting(req[q].shift) \ {req[q].user} :
                          createdAt[req[q].shift][req[q].next] <= visibleAt[req[q].shift][u])'
  BY DEF PromotesOldest
<1>1. req'[q] = req[q] /\ req[q].phase = "tx"
  BY DEF NoNewLocks, At
<1>2. req[q] \in SignupHandlers
  BY <1>1, InTransaction
<1>3. PICK s \in Shifts, v \in Volunteers, w \in Volunteers :
        s = req[q].shift /\ v = req[q].next /\ w = req[q].user
  BY <1>1, <1>2 DEF SignupHandlers, At
<1>4. v \in Rows(s) /\ \A u \in Waiting(s) \ {w} : createdAt[s][v] <= visibleAt[s][u]
  BY <1>1, <1>3 DEF PromotesOldest, At
<1>5. v \in Rows(s)' /\ createdAt'[s][v] = createdAt[s][v]
  BY <1>4 DEF RowsGrow, Rows
<1>6. ASSUME NEW u \in Waiting(s)' \ {w}
      PROVE  createdAt[s][v] <= visibleAt'[s][u]
  <2>1. u \in Volunteers /\ signup'[s][u] = "WAITLISTED"
    BY DEF Waiting
  <2>2. CASE visibleAt'[s][u] = visibleAt[s][u] /\ signup[s][u] = "WAITLISTED"
    BY <1>4, <2>1, <2>2 DEF Waiting
  <2>3. CASE visibleAt'[s][u] = now
    <3>1. /\ createdAt[s][v] <= visibleAt[s][v] /\ visibleAt[s][v] <= now
          /\ createdAt[s][v] \in Nat /\ visibleAt[s][v] \in Nat /\ now \in Nat
      BY DEF StampsPast, TypeOK
    <3> QED
      BY <2>3, <3>1
  <2> QED
    BY <2>1, <2>2, <2>3 DEF RowsGrow
<1>7. req'[q].shift = s /\ req'[q].next = v /\ req'[q].user = w
  BY <1>1, <1>3
<1> QED
  BY <1>5, <1>6, <1>7 DEF Rows, Waiting

\* Rows that somebody has locked are as they were.
LockedRowsKept ==
  \A q \in Requests : req'[q].phase = "tx" =>
    signup'[req[q].shift][req[q].user] = signup[req[q].shift][req[q].user]

LEMMA LocksStay ==
  ASSUME TypeOK, LocksExclusive, LockedRowsExist, NoNewLocks, LockedRowsKept
  PROVE  LocksExclusive' /\ LockedRowsExist'
<1>1. LocksExclusive'
  BY DEF LocksExclusive, NoNewLocks
<1>2. ASSUME NEW q \in Requests, req'[q].phase = "tx"
      PROVE  (req[q].user \in Rows(req[q].shift) <=> req[q].op # "joinWaitlist")'
  <2>1. req'[q] = req[q] /\ req[q] \in SignupHandlers
    BY <1>2, InTransaction DEF NoNewLocks
  <2>2. req[q].user \in Rows(req[q].shift) <=> req[q].op # "joinWaitlist"
    BY <1>2, <2>1 DEF LockedRowsExist
  <2>3. signup'[req[q].shift][req[q].user] = signup[req[q].shift][req[q].user]
    BY <1>2 DEF LockedRowsKept
  <2> QED
    BY <2>1, <2>2, <2>3 DEF Rows
<1> QED
  BY <1>1, <1>2 DEF LockedRowsExist

\* A step that lets go of locks or leaves them, and writes no row that somebody
\* else has locked.
LEMMA WriteStep ==
  ASSUME TypeOK, BookingInv, RowsGrow, NoNewLocks, LockedRowsKept
  PROVE  BookingInv'
<1>1. MarksConfirmedSeat'
  BY DEF BookingInv, MarksConfirmedSeat, NoNewLocks, LockedRowsKept, At
<1> QED
  BY <1>1, StampsStayPast, OldestStaysOldest, LocksStay DEF BookingInv

LEMMA QuietStep ==
  ASSUME TypeOK, BookingInv, NoNewLocks, UNCHANGED signupVars, now <= now', now' \in Nat
  PROVE  BookingInv'
<1>1. RowsGrow /\ LockedRowsKept
  BY DEF RowsGrow, LockedRowsKept, signupVars, stampVars
<1> QED
  BY <1>1, WriteStep DEF LockedRowsKept

\* A step that takes the lock of a free row, or of the key of a row to be inserted.
LEMMA LockStep ==
  ASSUME TypeOK, BookingInv, UNCHANGED <<signupVars, now>>,
         NEW r \in Requests, NEW h \in SignupHandlers, h.phase = "tx",
         req' = [req EXCEPT ![r] = h], RowFree(h.shift, h.user),
         h.user \in Rows(h.shift) <=> h.op # "joinWaitlist",
         h.op = "joinWaitlist" => h.at <= now,
         h.op = "mark" =>
           h.mark \in Recorded /\ (h.mark = "ATTENDED" => signup[h.shift][h.user] = "CONFIRMED"),
         h.op = "cancel" /\ h.next # NoOne => IsNextWaitlistEntry(h.next, h.shift, h.user)
  PROVE  BookingInv'
<1>1. /\ req'[r] = h
      /\ \A q \in Requests \ {r} : req'[q] = req[q]
  BY DEF TypeOK
<1>2. LocksExclusive' /\ LockedRowsExist'
  BY <1>1 DEF BookingInv, LocksExclusive, LockedRowsExist, RowFree, Rows, signupVars
<1>3. MarksConfirmedSeat'
  BY <1>1 DEF BookingInv, MarksConfirmedSeat, At, signupVars
<1>4. StampsPast'
  BY <1>1 DEF BookingInv, StampsPast, At, signupVars, stampVars
<1>5. PromotesOldest'
  <2> SUFFICES ASSUME NEW q \in Requests, At(q, "tx", "cancel")', req'[q].next # NoOne
               PROVE  /\ req'[q].next \in Rows(req'[q].shift)
                      /\ \A u \in Waiting(req'[q].shift) \ {req'[q].user} :
                           createdAt[req'[q].shift][req'[q].next] <= visibleAt[req'[q].shift][u]
    BY DEF PromotesOldest, Rows, Waiting, signupVars, stampVars
  <2>1. CASE q = r
    <3>1. PICK s \in Shifts, v \in Volunteers, w \in Volunteers :
            s = h.shift /\ v = h.next /\ w = h.user
      BY <1>1, <2>1 DEF SignupHandlers
    <3>2. v \in Waiting(s) /\ \A u \in Waiting(s) \ {w} : createdAt[s][v] <= createdAt[s][u]
      BY <1>1, <2>1, <3>1, NoOneAssumption DEF At, IsNextWaitlistEntry
    <3>3. ASSUME NEW u \in Waiting(s) \ {w} PROVE createdAt[s][v] <= visibleAt[s][u]
      <4>1. u \in Volunteers
        BY DEF Waiting
      <4>2. /\ createdAt[s][u] <= visibleAt[s][u]
            /\ createdAt[s][u] \in Nat /\ createdAt[s][v] \in Nat /\ visibleAt[s][u] \in Nat
        BY <4>1 DEF BookingInv, StampsPast, TypeOK
      <4> QED
        BY <3>2, <4>2
    <3> QED
      BY <1>1, <2>1, <3>1, <3>2, <3>3 DEF Waiting, Rows
  <2>2. CASE q # r
    BY <1>1, <2>2 DEF At, BookingInv, PromotesOldest
  <2> QED
    BY <2>1, <2>2
<1> QED
  BY <1>2, <1>3, <1>4, <1>5 DEF BookingInv

\* The commit of a sign-up or of an assignment.
LEMMA BookStep ==
  ASSUME TypeOK, BookingInv, NEW r \in Requests, req[r] \in SignupHandlers,
         BookingWritable(req[r]), ConfirmRow(req[r]), Finish(r), UNCHANGED now
  PROVE  BookingInv'
<1>1. PICK s \in Shifts, u \in Volunteers : s = req[r].shift /\ u = req[r].user
  BY DEF SignupHandlers
<1>2. RowsGrow
  BY <1>1 DEF RowsGrow, ConfirmRow, TypeOK, stampVars
<1>3. NoNewLocks
  BY DEF NoNewLocks, Finish, TypeOK, Idle
<1>4. ASSUME NEW q \in Requests, req'[q].phase = "tx"
      PROVE  signup'[req[q].shift][req[q].user] = signup[req[q].shift][req[q].user]
  <2>1. req[q].phase = "tx" /\ req[q] \in SignupHandlers
    BY <1>3, <1>4, InTransaction DEF NoNewLocks
  <2>2. ~(req[q].shift = s /\ req[q].user = u)
    BY <1>1, <2>1 DEF BookingWritable, RowFree
  <2> QED
    BY <1>1, <2>1, <2>2 DEF ConfirmRow, TypeOK, SignupHandlers
<1> QED
  BY <1>2, <1>3, <1>4, WriteStep DEF LockedRowsKept

LEMMA CancelCommitStep ==
  ASSUME TypeOK, BookingInv, NEW r \in Requests, CancelCommit(r)
  PROVE  BookingInv'
<1>1. req[r] \in SignupHandlers /\ req[r].phase = "tx"
  BY InFlight DEF CancelCommit, SignupOps, At
<1>2. PICK s \in Shifts, u \in Volunteers, v \in Volunteers \cup {NoOne} :
        s = req[r].shift /\ u = req[r].user /\ v = req[r].next
  BY <1>1 DEF SignupHandlers
<1>3. u \in Rows(s) /\ (v # NoOne => v \in Rows(s))
  BY <1>1, <1>2 DEF BookingInv, LockedRowsExist, PromotesOldest, CancelCommit, At
<1>4. signup' = [signup EXCEPT ![s] =
        [w \in Volunteers |-> IF w = v THEN "CONFIRMED"
                              ELSE IF w = u THEN "CANCELLED" ELSE signup[s][w]]]
  BY <1>2 DEF CancelCommit, TypeOK
<1>5. RowsGrow
  BY <1>3, <1>4 DEF RowsGrow, Rows, CancelCommit, TypeOK, stampVars
<1>6. NoNewLocks /\ \A q \in Requests : req'[q].phase = "tx" => q # r
  BY DEF NoNewLocks, CancelCommit, Finish, TypeOK, Idle
<1>7. ASSUME NEW q \in Requests, req'[q].phase = "tx"
      PROVE  signup'[req[q].shift][req[q].user] = signup[req[q].shift][req[q].user]
  <2>1. q # r /\ req[q].phase = "tx" /\ req[q] \in SignupHandlers
    BY <1>6, <1>7, InTransaction DEF NoNewLocks
  <2>2. ~(req[q].shift = s /\ req[q].user = u)
    BY <1>1, <1>2, <2>1 DEF BookingInv, LocksExclusive
  <2>3. ~(req[q].shift = s /\ req[q].user = v)
    BY <1>2, <2>1, NoOneAssumption DEF CancelCommit, RowFree, SignupHandlers
  <2> QED
    BY <1>4, <2>1, <2>2, <2>3 DEF TypeOK, SignupHandlers
<1> QED
  BY <1>5, <1>6, <1>7, WriteStep DEF LockedRowsKept

LEMMA JoinWaitlistBeginStep ==
  ASSUME TypeOK, BookingInv, NEW r \in Requests, JoinWaitlistBegin(r)
  PROVE  BookingInv'
<1>1. req[r] \in SignupHandlers /\ req[r].op = "joinWaitlist" /\ now \in Nat
  BY InFlight DEF JoinWaitlistBegin, SignupOps, At, TypeOK
<1> DEFINE h == [req[r] EXCEPT !.phase = "tx", !.at = now]
<1>2. h \in SignupHandlers /\ h.phase = "tx" /\ h.op = "joinWaitlist" /\ h.at <= now
      /\ h.shift = req[r].shift /\ h.user = req[r].user
  <2>1. h \in SignupHandlers /\ h.at = now /\ h.phase = "tx" /\ h.op = req[r].op
        /\ h.shift = req[r].shift /\ h.user = req[r].user
    BY <1>1 DEF SignupHandlers
  <2> HIDE DEF h
  <2> QED
    BY <1>1, <2>1
<1>3. /\ h.user \notin Rows(h.shift) /\ RowFree(h.shift, h.user)
      /\ UNCHANGED <<signupVars, now>> /\ req' = [req EXCEPT ![r] = h]
  BY <1>2 DEF JoinWaitlistBegin, Rows
<1> HIDE DEF h
<1> QED
  BY <1>2, <1>3, LockStep

LEMMA JoinWaitlistStep ==
  ASSUME TypeOK, BookingInv, NEW r \in Requests, JoinWaitlistCommit(r)
  PROVE  BookingInv'
<1>1. req[r] \in SignupHandlers /\ req[r].phase = "tx" /\ req[r].op = "joinWaitlist"
  BY InFlight DEF JoinWaitlistCommit, SignupOps, At
<1>2. PICK s \in Shifts, u \in Volunteers : s = req[r].shift /\ u = req[r].user
  BY <1>1 DEF SignupHandlers
<1>3. signup[s][u] = "NONE" /\ req[r].at <= now /\ now \in Nat
  BY <1>1, <1>2 DEF BookingInv, LockedRowsExist, StampsPast, Rows, At, TypeOK
<1>4. RowsGrow
  BY <1>2, <1>3 DEF RowsGrow, JoinWaitlistCommit, TypeOK
<1>5. NoNewLocks /\ \A q \in Requests : req'[q].phase = "tx" => q # r
  BY DEF NoNewLocks, JoinWaitlistCommit, Finish, TypeOK, Idle
<1>6. ASSUME NEW q \in Requests, req'[q].phase = "tx"
      PROVE  signup'[req[q].shift][req[q].user] = signup[req[q].shift][req[q].user]
  <2>1. q # r /\ req[q].phase = "tx" /\ req[q] \in SignupHandlers
    BY <1>5, <1>6, InTransaction DEF NoNewLocks
  <2>2. ~(req[q].shift = s /\ req[q].user = u)
    BY <1>1, <1>2, <2>1 DEF BookingInv, LocksExclusive
  <2> QED
    BY <1>2, <2>1, <2>2 DEF JoinWaitlistCommit, TypeOK, SignupHandlers
<1> QED
  BY <1>4, <1>5, <1>6, WriteStep DEF LockedRowsKept

LEMMA LeaveWaitlistStep ==
  ASSUME TypeOK, BookingInv, NEW r \in Requests, LeaveWaitlistCommit(r)
  PROVE  BookingInv'
<1>1. req[r] \in SignupHandlers
  BY InFlight DEF LeaveWaitlistCommit, SignupOps
<1>2. PICK s \in Shifts, u \in Volunteers : s = req[r].shift /\ u = req[r].user
  BY <1>1 DEF SignupHandlers
<1>3. RowsGrow
  BY <1>2 DEF RowsGrow, LeaveWaitlistCommit, TypeOK, stampVars
<1>4. NoNewLocks
  BY DEF NoNewLocks, LeaveWaitlistCommit, Finish, TypeOK, Idle
<1>5. ASSUME NEW q \in Requests, req'[q].phase = "tx"
      PROVE  signup'[req[q].shift][req[q].user] = signup[req[q].shift][req[q].user]
  <2>1. req[q].phase = "tx" /\ req[q] \in SignupHandlers
    BY <1>4, <1>5, InTransaction DEF NoNewLocks
  <2>2. ~(req[q].shift = s /\ req[q].user = u)
    BY <1>2, <2>1 DEF LeaveWaitlistCommit, RowFree
  <2> QED
    BY <1>2, <2>1, <2>2 DEF LeaveWaitlistCommit, TypeOK, SignupHandlers
<1> QED
  BY <1>3, <1>4, <1>5, WriteStep DEF LockedRowsKept

LEMMA MarkCommitStep ==
  ASSUME TypeOK, BookingInv, NEW r \in Requests, MarkCommit(r)
  PROVE  BookingInv'
<1>1. req[r] \in SignupHandlers /\ req[r].phase = "tx"
  BY InFlight DEF MarkCommit, SignupOps, At
<1>2. PICK s \in Shifts, u \in Volunteers : s = req[r].shift /\ u = req[r].user
  BY <1>1 DEF SignupHandlers
<1>3. u \in Rows(s) /\ req[r].mark \in Recorded
  BY <1>1, <1>2 DEF BookingInv, LockedRowsExist, MarksConfirmedSeat, MarkCommit, At
<1>4. RowsGrow
  BY <1>2, <1>3 DEF RowsGrow, Rows, MarkCommit, TypeOK, Recorded, stampVars
<1>5. NoNewLocks /\ \A q \in Requests : req'[q].phase = "tx" => q # r
  BY DEF NoNewLocks, MarkCommit, Finish, TypeOK, Idle
<1>6. ASSUME NEW q \in Requests, req'[q].phase = "tx"
      PROVE  signup'[req[q].shift][req[q].user] = signup[req[q].shift][req[q].user]
  <2>1. q # r /\ req[q].phase = "tx" /\ req[q] \in SignupHandlers
    BY <1>5, <1>6, InTransaction DEF NoNewLocks
  <2>2. ~(req[q].shift = s /\ req[q].user = u)
    BY <1>1, <1>2, <2>1 DEF BookingInv, LocksExclusive
  <2> QED
    BY <1>2, <2>1, <2>2 DEF MarkCommit, TypeOK, SignupHandlers
<1> QED
  BY <1>4, <1>5, <1>6, WriteStep DEF LockedRowsKept

LEMMA RemoveShiftStep ==
  ASSUME TypeOK, BookingInv, NEW s \in Shifts, RemoveShift(s)
  PROVE  BookingInv'
<1>1. req' = req
  BY DEF RemoveShift
<1>2. ASSUME NEW q \in Requests, req[q].phase = "tx"
      PROVE  req[q] \in SignupHandlers /\ req[q].shift # s
  BY <1>2, InTransaction DEF RemoveShift, RowFree, SignupHandlers
<1>3. \A t \in Shifts \ {s} :
        signup'[t] = signup[t] /\ createdAt'[t] = createdAt[t] /\ visibleAt'[t] = visibleAt[t]
  BY DEF RemoveShift, TypeOK
<1>4. LocksExclusive'
  BY <1>1 DEF BookingInv, LocksExclusive
<1>5. LockedRowsExist'
  BY <1>1, <1>2, <1>3 DEF BookingInv, LockedRowsExist, Rows, SignupHandlers
<1>6. MarksConfirmedSeat'
  BY <1>1, <1>2, <1>3 DEF BookingInv, MarksConfirmedSeat, At, SignupHandlers
<1>7. StampsPast'
  <2>1. ASSUME NEW t \in Shifts, NEW u \in Volunteers
        PROVE  createdAt'[t][u] <= visibleAt'[t][u] /\ visibleAt'[t][u] <= now
    <3>1. CASE t = s
      BY <3>1 DEF RemoveShift, TypeOK
    <3>2. CASE t # s
      BY <1>3, <3>2 DEF BookingInv, StampsPast
    <3> QED
      BY <3>1, <3>2
  <2> QED
    BY <1>1, <2>1 DEF BookingInv, StampsPast, At, RemoveShift
<1>8. PromotesOldest'
  BY <1>1, <1>2, <1>3 DEF BookingInv, PromotesOldest, At, Rows, Waiting, SignupHandlers
<1> QED
  BY <1>4, <1>5, <1>6, <1>7, <1>8 DEF BookingInv

LEMMA LockForMarkStep ==
  ASSUME TypeOK, BookingInv, NEW r \in Requests, NEW s \in Shifts, NEW u \in Volunteers,
         NEW mark \in Recorded, LockForMark(r, s, u, mark)
  PROVE  BookingInv'
<1> DEFINE h == [Reading("mark", s, u) EXCEPT !.phase = "tx", !.mark = mark]
<1>1. Reading("mark", s, u) \in SignupHandlers
  BY ReadingType DEF SignupOps
<1>2. h \in SignupHandlers /\ h.phase = "tx" /\ h.op = "mark" /\ h.mark = mark
      /\ h.shift = s /\ h.user = u
  BY <1>1 DEF SignupHandlers, Reading
<1>3. /\ h.user \in Rows(h.shift) /\ RowFree(h.shift, h.user) /\ UNCHANGED <<signupVars, now>>
      /\ h.mark = "ATTENDED" => signup[h.shift][h.user] = "CONFIRMED"
      /\ req' = [req EXCEPT ![r] = h]
  BY <1>2 DEF LockForMark, Rows
<1> HIDE DEF h
<1> QED
  BY <1>2, <1>3, LockStep

LEMMA CancelBeginStep ==
  ASSUME TypeOK, BookingInv, NEW r \in Requests, CancelBegin(r)
  PROVE  BookingInv'
<1>1. req[r] \in SignupHandlers /\ req[r].op = "cancel"
  BY InFlight DEF CancelBegin, SignupOps, At
<1>2. PICK next \in Volunteers \cup {NoOne} :
        /\ next # NoOne => IsNextWaitlistEntry(next, req[r].shift, req[r].user)
        /\ req' = [req EXCEPT ![r] = [req[r] EXCEPT !.phase = "tx", !.next = next]]
  BY DEF CancelBegin
<1> DEFINE h == [req[r] EXCEPT !.phase = "tx", !.next = next]
<1>3. h \in SignupHandlers /\ h.phase = "tx" /\ h.op = "cancel" /\ h.next = next
      /\ h.shift = req[r].shift /\ h.user = req[r].user
  BY <1>1 DEF SignupHandlers
<1>4. /\ h.user \in Rows(h.shift) /\ RowFree(h.shift, h.user) /\ UNCHANGED <<signupVars, now>>
      /\ h.next # NoOne => IsNextWaitlistEntry(h.next, h.shift, h.user)
      /\ req' = [req EXCEPT ![r] = h]
  BY <1>2, <1>3 DEF CancelBegin
<1> HIDE DEF h
<1> QED
  BY <1>3, <1>4, LockStep

LEMMA BookingInvStep ==
  ASSUME TypeOK, BookingInv, NEW r \in Requests, BookingStep(r)
  PROVE  BookingInv'
<1>1. ASSUME NEW s \in Shifts, NEW u \in Volunteers,
             \/ SignUpRead(r, s, u)
             \/ \E over \in BOOLEAN : AssignRead(r, s, u, over)
             \/ CancelRead(r, s, u)
             \/ JoinWaitlistRead(r, s, u)
             \/ LeaveWaitlistRead(r, s, u)
             \/ CheckinRead(r, s, u)
      PROVE  BookingInv'
  <2>1. UNCHANGED <<signupVars, now>>
    BY <1>1 DEF SignUpRead, AssignRead, CancelRead, JoinWaitlistRead, LeaveWaitlistRead,
                CheckinRead, signupVars
  <2>2. \A q \in Requests \ {r} : req'[q] = req[q]
    BY <1>1 DEF SignUpRead, AssignRead, CancelRead, JoinWaitlistRead, LeaveWaitlistRead,
                CheckinRead, Start, TypeOK
  <2>3. Reading("mark", s, u).phase = "read"
        /\ [Reading("mark", s, u) EXCEPT !.mark = "ATTENDED"].phase = "read"
    BY DEF Reading
  <2>4. req'[r].phase = "read"
    <3>1. CASE CheckinRead(r, s, u)
      BY <2>3, <3>1 DEF CheckinRead, Start, TypeOK
    <3>2. CASE ~CheckinRead(r, s, u)
      <4>1. PICK op : req' = [req EXCEPT ![r] = Reading(op, s, u)]
        BY <1>1, <3>2 DEF SignUpRead, AssignRead, CancelRead, JoinWaitlistRead,
                          LeaveWaitlistRead, Start
      <4> QED
        BY <4>1 DEF Reading, TypeOK
    <3> QED
      BY <3>1, <3>2
  <2> QED
    BY <2>1, <2>2, <2>4, QuietStep DEF NoNewLocks, TypeOK
<1>2. ASSUME NEW s \in Shifts, NEW u \in Volunteers, NEW mark \in Recorded,
             StaffMark(r, s, u, mark)
      PROVE  BookingInv'
  BY <1>2, LockForMarkStep DEF StaffMark
<1>3. CASE CheckinLock(r)
  <2>1. req[r] \in SignupHandlers
    BY <1>3, InFlight DEF CheckinLock, SignupOps
  <2> QED
    BY <1>3, <2>1, LockForMarkStep DEF CheckinLock, SignupHandlers, Recorded
<1>4. CASE SignUpCommit(r)
  BY <1>4, InFlight, BookStep DEF SignUpCommit, SignupOps
<1>5. CASE AssignCommit(r)
  BY <1>5, InFlight, BookStep DEF AssignCommit, SignupOps
<1>6. CASE Rollback(r)
  <2>1. NoNewLocks /\ UNCHANGED <<signupVars, now>>
    BY <1>6 DEF Rollback, Finish, NoNewLocks, TypeOK, Idle
  <2> QED
    BY <2>1, QuietStep DEF TypeOK
<1> QED
  BY <1>1, <1>2, <1>3, <1>4, <1>5, <1>6, CancelBeginStep, CancelCommitStep,
     JoinWaitlistBeginStep, JoinWaitlistStep, LeaveWaitlistStep, MarkCommitStep
     DEF BookingStep

\* No other step writes a signup row, save the removal of a shift.
LEMMA OtherStep ==
  ASSUME TypeOK, [Next]_vars,
         ~ \E r \in Requests : BookingStep(r),
         ~ \E s \in Shifts : RemoveShift(s)
  PROVE  UNCHANGED signupVars /\ NoNewLocks /\ now <= now' /\ now' \in Nat
<1> USE DEF signupVars, stampVars, NoNewLocks, TypeOK
<1>1. CASE RosterNext
  BY <1>1 DEF RosterNext, AddVolunteerRead, RemoveVolunteer, LeaveOrg, Start, TypeOK
<1>2. CASE \E r \in Requests : AddVolunteerCommit(r)
  BY <1>2 DEF AddVolunteerCommit, Finish, TypeOK, Idle
<1>3. CASE ShiftNext
  BY <1>3 DEF ShiftNext, CreateShift, UpdateShift, CancelShift, CompleteShift, CronClose,
              CronSkip
<1>4. CASE CronScan \/ Tick \/ UNCHANGED vars
  BY <1>4 DEF CronScan, Tick, vars
<1> QED
  BY <1>1, <1>2, <1>3, <1>4 DEF Next

\* The order of the waitlist, and what an open transaction has locked, survive
\* every interleaving of the handlers.
THEOREM BookingInvariant == Spec => []BookingInv
<1>1. Init => BookingInv
  BY DEF Init, BookingInv, LocksExclusive, LockedRowsExist, MarksConfirmedSeat,
         StampsPast, PromotesOldest, Rows, At, Idle
<1>2. TypeOK /\ BookingInv /\ [Next]_vars => BookingInv'
  BY BookingInvStep, RemoveShiftStep, OtherStep, QuietStep
<1> QED
  BY <1>1, <1>2, TypeCorrect, PTL DEF Spec

\* A cancellation promotes nobody past a volunteer who was on the waitlist before
\* the promoted one joined it, also not one who joined while it was in progress.
THEOREM FifoPromotion == Spec => PromotionIsFifo
<1>1. BookingInv =>
        \A r \in Requests :
          CancelCommit(r) =>
            LET h == req[r] IN
            h.next # NoOne =>
              \A u \in Waiting(h.shift) \ {h.user} :
                createdAt[h.shift][h.next] <= visibleAt[h.shift][u]
  BY DEF BookingInv, PromotesOldest, CancelCommit
<1> QED
  BY <1>1, BookingInvariant, PTL DEF PromotionIsFifo

\* Only a seat that is CONFIRMED until that step becomes ATTENDED.
THEOREM AttendanceFromSeat == Spec => AttendanceNeedsConfirmedSeat
<1> DEFINE Step == \A s \in Shifts, u \in Volunteers :
                     signup'[s][u] = "ATTENDED" /\ signup[s][u] # "ATTENDED" =>
                       signup[s][u] = "CONFIRMED"
<1>1. ASSUME TypeOK, BookingInv, [Next]_vars PROVE Step
  <2>1. CASE UNCHANGED signupVars
    BY <2>1 DEF signupVars
  <2>2. ASSUME NEW r \in Requests, SignUpCommit(r) \/ AssignCommit(r) PROVE Step
    <3>1. req[r] \in SignupHandlers
      BY <1>1, <2>2, InFlight DEF SignUpCommit, AssignCommit, SignupOps
    <3>2. signup' = [signup EXCEPT ![req[r].shift][req[r].user] = "CONFIRMED"]
      BY <2>2 DEF SignUpCommit, AssignCommit, ConfirmRow
    <3> QED
      BY <1>1, <3>1, <3>2 DEF SignupHandlers, TypeOK
  <2>3. ASSUME NEW r \in Requests, CancelCommit(r) PROVE Step
    <3>1. req[r] \in SignupHandlers
      BY <1>1, <2>3, InFlight DEF CancelCommit, SignupOps
    <3> QED
      BY <1>1, <2>3, <3>1 DEF CancelCommit, SignupHandlers, TypeOK
  <2>4. ASSUME NEW r \in Requests, JoinWaitlistCommit(r) \/ LeaveWaitlistCommit(r) PROVE Step
    <3>1. req[r] \in SignupHandlers
      BY <1>1, <2>4, InFlight DEF JoinWaitlistCommit, LeaveWaitlistCommit, SignupOps
    <3>2. PICK v \in {"WAITLISTED", "CANCELLED"} :
            signup' = [signup EXCEPT ![req[r].shift][req[r].user] = v]
      BY <2>4 DEF JoinWaitlistCommit, LeaveWaitlistCommit
    <3> QED
      BY <1>1, <3>1, <3>2 DEF SignupHandlers, TypeOK
  <2>5. ASSUME NEW r \in Requests, MarkCommit(r) PROVE Step
    <3>1. req[r] \in SignupHandlers
      BY <1>1, <2>5, InFlight DEF MarkCommit, SignupOps
    <3>2. req[r].mark = "ATTENDED" => signup[req[r].shift][req[r].user] = "CONFIRMED"
      BY <1>1, <2>5 DEF BookingInv, MarksConfirmedSeat, MarkCommit
    <3> QED
      BY <1>1, <2>5, <3>1, <3>2 DEF MarkCommit, SignupHandlers, TypeOK
  <2>6. ASSUME NEW s \in Shifts, RemoveShift(s) PROVE Step
    BY <1>1, <2>6 DEF RemoveShift, TypeOK
  <2>7. ASSUME NEW r \in Requests, BookingStep(r),
               ~(SignUpCommit(r) \/ AssignCommit(r) \/ CancelCommit(r)
                 \/ JoinWaitlistCommit(r) \/ LeaveWaitlistCommit(r) \/ MarkCommit(r))
        PROVE  UNCHANGED signupVars
    BY <2>7 DEF BookingStep, SignUpRead, AssignRead, CancelRead, JoinWaitlistRead,
                LeaveWaitlistRead, CheckinRead, StaffMark, CheckinLock, LockForMark,
                CancelBegin, JoinWaitlistBegin, Rollback, signupVars
  <2> QED
    BY <1>1, <2>1, <2>2, <2>3, <2>4, <2>5, <2>6, <2>7, OtherStep
<1> QED
  BY <1>1, TypeCorrect, BookingInvariant, PTL DEF Spec, AttendanceNeedsConfirmedSeat

---------------------------------------------------------------------------
(* Cancellations do not deadlock.                                          *)

\* Shifts that exist go on existing, rows appear only on shifts that exist, and a
\* seat that has been taken is never traded for a place on the waitlist.
SeatsKept ==
  \A s \in Shifts :
    /\ Exists(s) => Exists(s)'
    /\ status[s] = "DELETED" => status'[s] = "DELETED"
    /\ Rows(s)' # {} => Exists(s)
    /\ \A u \in Volunteers :
         signup[s][u] \notin {"NONE", "WAITLISTED"} =>
           signup'[s][u] \notin {"NONE", "WAITLISTED"}

LEMMA UntouchedSeats ==
  ASSUME RowsHaveShift, UNCHANGED signup, NEW s \in Shifts, NEW st \in Active \cup Closed,
         TypeOK, status' \in {status, [status EXCEPT ![s] = st]},
         status' = status \/ Exists(s) \/ status[s] = "ABSENT"
  PROVE  SeatsKept
BY DEF SeatsKept, RowsHaveShift, Rows, Exists, Active, Closed, TypeOK

LEMMA WrittenSeat ==
  ASSUME TypeOK, RowsHaveShift, NEW s \in Shifts, Exists(s),
         NEW st \in Active \cup Closed, status' \in {status, [status EXCEPT ![s] = st]},
         \A t \in Shifts \ {s} : signup'[t] = signup[t],
         \A u \in Volunteers :
           signup[s][u] \notin {"NONE", "WAITLISTED"} =>
             signup'[s][u] \notin {"NONE", "WAITLISTED"}
  PROVE  SeatsKept
<1> SUFFICES ASSUME NEW t \in Shifts
             PROVE  /\ Exists(t) => Exists(t)'
                    /\ status[t] = "DELETED" => status'[t] = "DELETED"
                    /\ Rows(t)' # {} => Exists(t)
                    /\ \A u \in Volunteers :
                         signup[t][u] \notin {"NONE", "WAITLISTED"} =>
                           signup'[t][u] \notin {"NONE", "WAITLISTED"}
  BY DEF SeatsKept
<1>1. CASE t = s
  BY <1>1 DEF Exists, Active, Closed, TypeOK
<1>2. CASE t # s
  <2>1. status'[t] = status[t] /\ signup'[t] = signup[t]
    BY <1>2 DEF TypeOK
  <2> QED
    BY <2>1 DEF RowsHaveShift, Rows, Exists
<1> QED
  BY <1>1, <1>2

LEMMA CommitKeepsSeats ==
  ASSUME TypeOK, BookingInv, RowsHaveShift, NEW r \in Requests,
         \/ SignUpCommit(r)
         \/ AssignCommit(r)
         \/ CancelCommit(r)
         \/ JoinWaitlistCommit(r)
         \/ LeaveWaitlistCommit(r)
         \/ MarkCommit(r)
  PROVE  SeatsKept
<1>1. req[r] \in SignupHandlers
  BY InFlight DEF SignUpCommit, AssignCommit, CancelCommit, JoinWaitlistCommit,
                  LeaveWaitlistCommit, MarkCommit, SignupOps
<1>2. PICK s \in Shifts, u \in Volunteers : s = req[r].shift /\ u = req[r].user
  BY <1>1 DEF SignupHandlers
<1>3. Exists(s)
  <2>1. SignUpCommit(r) \/ AssignCommit(r) \/ JoinWaitlistCommit(r) => Exists(s)
    BY <1>2 DEF SignUpCommit, AssignCommit, JoinWaitlistCommit, BookingWritable, RowsHaveShift
  <2>2. CancelCommit(r) \/ LeaveWaitlistCommit(r) \/ MarkCommit(r) => u \in Rows(s)
    BY <1>2 DEF CancelCommit, LeaveWaitlistCommit, MarkCommit, At, BookingInv, LockedRowsExist
  <2> QED
    BY <2>1, <2>2 DEF RowsHaveShift
<1>4. status' \in {status, [status EXCEPT ![s] = "FULL"], [status EXCEPT ![s] = "OPEN"]}
  BY <1>2 DEF SignUpCommit, AssignCommit, CancelCommit, JoinWaitlistCommit,
              LeaveWaitlistCommit, MarkCommit, shiftVars
<1>5. CASE ~CancelCommit(r)
  <2>1. PICK st : /\ signup' = [signup EXCEPT ![s][u] = st]
                  /\ st # "NONE"
                  /\ st = "WAITLISTED" => signup[s][u] = "NONE"
    <3>1. MarkCommit(r) => req[r].mark \in Recorded
      BY DEF MarkCommit, BookingInv, MarksConfirmedSeat
    <3>2. SignUpCommit(r) \/ AssignCommit(r) => signup' = [signup EXCEPT ![s][u] = "CONFIRMED"]
      BY <1>2 DEF SignUpCommit, AssignCommit, ConfirmRow
    <3>3. JoinWaitlistCommit(r) =>
            signup' = [signup EXCEPT ![s][u] = "WAITLISTED"] /\ signup[s][u] = "NONE"
      BY <1>2 DEF JoinWaitlistCommit, At, BookingInv, LockedRowsExist, Rows
    <3>4. LeaveWaitlistCommit(r) => signup' = [signup EXCEPT ![s][u] = "CANCELLED"]
      BY <1>2 DEF LeaveWaitlistCommit
    <3>5. MarkCommit(r) => signup' = [signup EXCEPT ![s][u] = req[r].mark]
      BY <1>2 DEF MarkCommit
    <3> QED
      BY <1>5, <3>1, <3>2, <3>3, <3>4, <3>5 DEF Recorded
  <2>2. /\ \A t \in Shifts \ {s} : signup'[t] = signup[t]
        /\ \A w \in Volunteers :
             signup[s][w] \notin {"NONE", "WAITLISTED"} =>
               signup'[s][w] \notin {"NONE", "WAITLISTED"}
    BY <2>1 DEF TypeOK
  <2>3. PICK stat \in Active : status' \in {status, [status EXCEPT ![s] = stat]}
    BY <1>4 DEF Active
  <2> QED
    BY <1>3, <2>2, <2>3, WrittenSeat
<1>6. CASE CancelCommit(r)
  <2>1. signup' = [signup EXCEPT ![s] =
          [w \in Volunteers |-> IF w = req[r].next THEN "CONFIRMED"
                                ELSE IF w = u THEN "CANCELLED" ELSE signup[s][w]]]
    BY <1>2, <1>6 DEF CancelCommit, TypeOK
  <2> QED
    BY <1>3, <1>4, <2>1, WrittenSeat DEF TypeOK, Active
<1> QED
  BY <1>5, <1>6

\* The steps that need a shift and a volunteer to be named only begin a request.
ReadsOrMarks(r, s, u) ==
  \/ SignUpRead(r, s, u)
  \/ \E over \in BOOLEAN : AssignRead(r, s, u, over)
  \/ CancelRead(r, s, u)
  \/ JoinWaitlistRead(r, s, u)
  \/ LeaveWaitlistRead(r, s, u)
  \/ \E mark \in Recorded : StaffMark(r, s, u, mark)
  \/ CheckinRead(r, s, u)

LEMMA ReadsWriteNothing ==
  ASSUME NEW r \in Requests, NEW s \in Shifts, NEW u \in Volunteers, ReadsOrMarks(r, s, u)
  PROVE  UNCHANGED <<shiftVars, signupVars, rosterVars, now, cron>>
BY DEF ReadsOrMarks, SignUpRead, AssignRead, CancelRead, JoinWaitlistRead, LeaveWaitlistRead,
   StaffMark, LockForMark, CheckinRead

LEMMA OtherStepKeepsSeats ==
  ASSUME TypeOK, RowsHaveShift, [Next]_vars, UNCHANGED signup,
         ~ \E r \in Requests : SignUpCommit(r) \/ AssignCommit(r) \/ CancelCommit(r),
         ~ \E s \in Shifts : RemoveShift(s)
  PROVE  SeatsKept
<1>1. CASE UNCHANGED status
  BY <1>1 DEF SeatsKept, RowsHaveShift, Rows, Exists
<1>2. ASSUME NEW s \in Shifts, NEW c \in Capacities, NEW start \in Times, NEW end \in Times,
             CreateShift(s, c, start, end)
      PROVE  SeatsKept
  BY <1>2, UntouchedSeats DEF CreateShift, Active
<1>3. ASSUME NEW s \in Shifts, CancelShift(s) \/ CompleteShift(s) \/ CronClose(s)
      PROVE  SeatsKept
  <2>1. PICK st \in Closed :
          \/ status' = status
          \/ Exists(s) /\ status' = [status EXCEPT ![s] = st]
    BY <1>3 DEF CancelShift, CompleteShift, CronClose, Completed, Exists, Closed
  <2> QED
    BY <2>1, UntouchedSeats
<1>4. UNCHANGED status
        \/ (\E s \in Shifts, c \in Capacities, start, end \in Times : CreateShift(s, c, start, end))
        \/ (\E s \in Shifts : CancelShift(s) \/ CompleteShift(s) \/ CronClose(s))
  <2>1. ASSUME NEW r \in Requests, BookingStep(r) PROVE UNCHANGED status
    <3>1. ASSUME NEW s \in Shifts, NEW u \in Volunteers, ReadsOrMarks(r, s, u)
          PROVE  UNCHANGED status
      BY <3>1, ReadsWriteNothing DEF shiftVars
    <3>2. CASE CheckinLock(r) \/ CancelBegin(r) \/ JoinWaitlistBegin(r) \/ JoinWaitlistCommit(r)
                 \/ LeaveWaitlistCommit(r) \/ MarkCommit(r) \/ Rollback(r)
      BY <3>2 DEF CheckinLock, LockForMark, CancelBegin, JoinWaitlistBegin, JoinWaitlistCommit,
                  LeaveWaitlistCommit, MarkCommit, Rollback, shiftVars
    <3> QED
      BY <2>1, <3>1, <3>2 DEF BookingStep, ReadsOrMarks
  <2>2. CASE RosterNext \/ \E r \in Requests : AddVolunteerCommit(r)
    BY <2>2 DEF RosterNext, AddVolunteerRead, RemoveVolunteer, LeaveOrg, AddVolunteerCommit,
                shiftVars
  <2>3. CASE ShiftNext
    BY <2>3 DEF ShiftNext, UpdateShift, CronSkip, shiftVars
  <2>4. CASE CronScan \/ Tick \/ UNCHANGED vars
    BY <2>4 DEF CronScan, Tick, vars, shiftVars
  <2> QED
    BY <2>1, <2>2, <2>3, <2>4 DEF Next
<1> QED
  BY <1>1, <1>2, <1>3, <1>4

\* Cancellations in flight after the step were in flight before it, with the same
\* view of the same row.
NoNewCancels ==
  \A q \in Requests :
    (At(q, "read", "cancel") \/ At(q, "tx", "cancel"))' =>
      /\ At(q, "read", "cancel") \/ At(q, "tx", "cancel")
      /\ req'[q].view = req[q].view /\ req'[q].shift = req[q].shift
      /\ req'[q].user = req[q].user

LEMMA InFlightCancel ==
  ASSUME TypeOK, NEW q \in Requests, At(q, "read", "cancel") \/ At(q, "tx", "cancel")
  PROVE  req[q] \in SignupHandlers
BY InFlight DEF SignupOps

LEMMA SeenSeatsStay ==
  ASSUME TypeOK, SeenSeatsNeverWait, SeatsKept, NoNewCancels
  PROVE  SeenSeatsNeverWait'
<1> SUFFICES ASSUME NEW q \in Requests, (At(q, "read", "cancel") \/ At(q, "tx", "cancel"))',
                    req'[q].view.own = "CONFIRMED"
             PROVE  \/ status'[req'[q].shift] = "DELETED"
                    \/ signup'[req'[q].shift][req'[q].user] \notin {"NONE", "WAITLISTED"}
  BY DEF SeenSeatsNeverWait
<1>1. /\ At(q, "read", "cancel") \/ At(q, "tx", "cancel")
      /\ req[q].view.own = "CONFIRMED"
      /\ req'[q].shift = req[q].shift /\ req'[q].user = req[q].user
  BY DEF NoNewCancels
<1>2. req[q].shift \in Shifts /\ req[q].user \in Volunteers
  BY <1>1, InFlightCancel DEF SignupHandlers
<1>3. \/ status[req[q].shift] = "DELETED"
      \/ signup[req[q].shift][req[q].user] \notin {"NONE", "WAITLISTED"}
  BY <1>1 DEF SeenSeatsNeverWait
<1> QED
  BY <1>1, <1>2, <1>3 DEF SeatsKept

\* No insert into a waitlist has begun but on a shift that exists.
JoinsHaveShift ==
  \A q \in Requests :
    At(q, "tx", "joinWaitlist")' =>
      \/ At(q, "tx", "joinWaitlist") /\ req'[q].shift = req[q].shift
      \/ req'[q].shift \in Shifts /\ Exists(req'[q].shift)

LEMMA RowsKeepShift ==
  ASSUME TypeOK, RowsHaveShift, SeatsKept, JoinsHaveShift
  PROVE  RowsHaveShift'
<1>1. ASSUME NEW s \in Shifts, Rows(s)' # {} PROVE Exists(s)'
  BY <1>1 DEF SeatsKept
<1>2. ASSUME NEW q \in Requests, At(q, "tx", "joinWaitlist")'
      PROVE  Exists(req[q].shift)'
  <2>1. PICK s : s = req'[q].shift
    OBVIOUS
  <2>2. s \in Shifts /\ Exists(s)
    <3>1. CASE At(q, "tx", "joinWaitlist") /\ req'[q].shift = req[q].shift
      <4>1. req[q] \in SignupHandlers
        BY <3>1, InTransaction DEF At
      <4> QED
        BY <2>1, <3>1, <4>1 DEF RowsHaveShift, SignupHandlers
    <3> QED
      BY <1>2, <2>1, <3>1 DEF JoinsHaveShift
  <2>3. Exists(s)'
    BY <2>2 DEF SeatsKept
  <2> QED
    BY <2>1, <2>3 DEF Exists
<1> QED
  BY <1>1, <1>2 DEF RowsHaveShift

LEMMA LocksLetGo ==
  ASSUME PromotersHeldSeats, NoLockCycle, NoNewLocks
  PROVE  PromotersHeldSeats' /\ NoLockCycle'
<1>1. PromotersHeldSeats'
  BY DEF PromotersHeldSeats, NoNewLocks, At
<1>2. \A p, q \in Requests : WaitsFor(p, q)' => WaitsFor(p, q)
  BY DEF NoNewLocks, WaitsFor, At
<1> QED
  BY <1>1, <1>2 DEF NoLockCycle

\* A row that is locked for a promotion is not the row of a cancellation that is
\* itself promoting, so the new lock closes no circle.
LEMMA LockClosesNoCycle ==
  ASSUME TypeOK, BookingInv, LockInv, NEW r \in Requests, NEW h \in SignupHandlers,
         req' = [req EXCEPT ![r] = h],
         h.op = "cancel" /\ h.next # NoOne =>
           h.next # h.user /\ signup[h.shift][h.next] = "WAITLISTED"
  PROVE  NoLockCycle'
<1> SUFFICES ASSUME NEW S \in SUBSET Requests, S # {},
                    \A p \in S : \E q \in S : WaitsFor(p, q)'
             PROVE  FALSE
  BY DEF NoLockCycle
<1>1. req'[r] = h /\ \A p \in Requests \ {r} : req'[p] = req[p]
  BY DEF TypeOK
<1>2. CASE r \notin S
  <2>1. \A p, q \in S : WaitsFor(p, q)' => WaitsFor(p, q)
    BY <1>1, <1>2 DEF WaitsFor, At
  <2> QED
    BY <2>1 DEF LockInv, NoLockCycle
<1>3. CASE r \in S
  <2>1. PICK x \in S : WaitsFor(r, x)'
    BY <1>3
  <2>2. h.op = "cancel" /\ h.shift = req'[x].shift /\ h.next = req'[x].user
        /\ req'[x].phase = "tx"
    BY <1>1, <2>1 DEF WaitsFor, At
  <2>3. h.next # NoOne /\ x # r
    <3>1. h.user \in Volunteers
      BY DEF SignupHandlers
    <3>2. CASE x = r
      BY <1>1, <2>2, <3>1, <3>2, NoOneAssumption
    <3>3. CASE x # r
      <4>1. req[x] \in SignupHandlers
        BY <1>1, <2>2, <3>3, InTransaction
      <4> QED
        BY <1>1, <2>2, <3>3, <4>1, NoOneAssumption DEF SignupHandlers
    <3> QED
      BY <3>2, <3>3
  <2>4. req'[x] = req[x] /\ req[x] \in SignupHandlers
    BY <1>1, <2>2, <2>3, InTransaction
  <2>5. PICK y \in S : WaitsFor(x, y)'
    OBVIOUS
  <2>6. At(x, "tx", "cancel") /\ req[x].next # NoOne
    <3>1. req'[y].user \in Volunteers
      <4>1. CASE y = r
        BY <1>1, <4>1 DEF SignupHandlers
      <4>2. CASE y # r
        <5>1. req'[y] = req[y] /\ req[y].phase = "tx"
          BY <1>1, <2>5, <4>2 DEF WaitsFor
        <5> QED
          BY <5>1, InTransaction DEF SignupHandlers
      <4> QED
        BY <4>1, <4>2
    <3>2. At(x, "tx", "cancel") /\ req[x].next = req'[y].user
      BY <2>4, <2>5 DEF WaitsFor, At
    <3> QED
      BY <3>1, <3>2, NoOneAssumption
  <2>7. req[x].view.own = "CONFIRMED"
    BY <2>6 DEF LockInv, PromotersHeldSeats
  <2>8. status[req[x].shift] # "DELETED"
    <3>1. req[x].user \in Rows(req[x].shift)
      BY <2>6 DEF BookingInv, LockedRowsExist, At
    <3>2. req[x].shift \in Shifts
      BY <2>4 DEF SignupHandlers
    <3> QED
      BY <3>1, <3>2 DEF LockInv, RowsHaveShift, Exists, Active, Closed
  <2>9. signup[req[x].shift][req[x].user] # "WAITLISTED"
    BY <2>6, <2>7, <2>8 DEF LockInv, SeenSeatsNeverWait
  <2> QED
    BY <2>2, <2>3, <2>4, <2>9
<1> QED
  BY <1>2, <1>3

LEMMA RemoveShiftKeepsLockInv ==
  ASSUME TypeOK, LockInv, NEW s \in Shifts, RemoveShift(s)
  PROVE  LockInv'
<1>1. req' = req /\ status' = [status EXCEPT ![s] = "DELETED"]
      /\ signup' = [signup EXCEPT ![s] = [u \in Volunteers |-> "NONE"]]
  BY DEF RemoveShift
<1>2. RowsHaveShift'
  <2>1. ASSUME NEW t \in Shifts, Rows(t)' # {} PROVE Exists(t)'
    BY <1>1, <2>1 DEF LockInv, RowsHaveShift, Rows, Exists, TypeOK
  <2>2. ASSUME NEW q \in Requests, At(q, "tx", "joinWaitlist") PROVE Exists(req[q].shift)'
    <3>1. PICK t \in Shifts, u \in Volunteers : t = req[q].shift /\ u = req[q].user
      BY <2>2, InTransaction DEF SignupHandlers, At
    <3>2. Exists(t) /\ t # s
      BY <2>2, <3>1 DEF LockInv, RowsHaveShift, RemoveShift, RowFree, At
    <3> QED
      BY <1>1, <3>1, <3>2 DEF Exists, TypeOK
  <2> QED
    BY <1>1, <2>1, <2>2 DEF RowsHaveShift, At
<1>3. SeenSeatsNeverWait'
  <2> SUFFICES ASSUME NEW q \in Requests, At(q, "read", "cancel") \/ At(q, "tx", "cancel"),
                      req[q].view.own = "CONFIRMED"
               PROVE  \/ status'[req[q].shift] = "DELETED"
                      \/ signup'[req[q].shift][req[q].user] \notin {"NONE", "WAITLISTED"}
    BY <1>1 DEF SeenSeatsNeverWait, At
  <2>1. req[q].shift \in Shifts
    BY InFlightCancel DEF SignupHandlers
  <2>2. \/ status[req[q].shift] = "DELETED"
        \/ signup[req[q].shift][req[q].user] \notin {"NONE", "WAITLISTED"}
    BY DEF LockInv, SeenSeatsNeverWait
  <2> QED
    BY <1>1, <2>1, <2>2 DEF TypeOK
<1>4. NoNewLocks
  BY <1>1 DEF NoNewLocks
<1> QED
  BY <1>2, <1>3, <1>4, LocksLetGo DEF LockInv

LEMMA CancelReadKeepsLockInv ==
  ASSUME TypeOK, LockInv, SeatsKept, NEW r \in Requests, NEW s \in Shifts,
         NEW u \in Volunteers, CancelRead(r, s, u)
  PROVE  LockInv'
<1>1. UNCHANGED <<status, signup>> /\ req' = [req EXCEPT ![r] = Reading("cancel", s, u)]
  BY DEF CancelRead, Start, shiftVars, signupVars
<1>2. /\ req'[r].phase = "read" /\ req'[r].shift = s /\ req'[r].user = u
      /\ req'[r].view.own = signup[s][u]
      /\ \A q \in Requests \ {r} : req'[q] = req[q]
  BY <1>1 DEF Reading, View, TypeOK
<1>3. SeenSeatsNeverWait'
  BY <1>1, <1>2 DEF LockInv, SeenSeatsNeverWait, At
<1>4. NoNewLocks
  BY <1>2 DEF NoNewLocks
<1>5. RowsHaveShift'
  BY <1>2, RowsKeepShift DEF LockInv, JoinsHaveShift, At
<1> QED
  BY <1>3, <1>4, <1>5, LocksLetGo DEF LockInv

LEMMA CancelBeginKeepsLockInv ==
  ASSUME TypeOK, BookingInv, LockInv, SeatsKept, NEW r \in Requests, CancelBegin(r)
  PROVE  LockInv'
<1>1. req[r] \in SignupHandlers /\ req[r].op = "cancel"
  BY InFlight DEF CancelBegin, SignupOps, At
<1>2. PICK next \in Volunteers \cup {NoOne} :
        /\ next # NoOne => /\ req[r].view.own = "CONFIRMED"
                           /\ IsNextWaitlistEntry(next, req[r].shift, req[r].user)
        /\ req' = [req EXCEPT ![r] = [req[r] EXCEPT !.phase = "tx", !.next = next]]
  BY DEF CancelBegin
<1> DEFINE h == [req[r] EXCEPT !.phase = "tx", !.next = next]
<1>3. h \in SignupHandlers /\ h.phase = "tx" /\ h.op = "cancel" /\ h.next = next
      /\ h.shift = req[r].shift /\ h.user = req[r].user /\ h.view = req[r].view
  BY <1>1 DEF SignupHandlers
<1>4. h.next # NoOne => h.next # h.user /\ signup[h.shift][h.next] = "WAITLISTED"
                        /\ h.view.own = "CONFIRMED"
  BY <1>2, <1>3 DEF IsNextWaitlistEntry, Waiting
<1>5. req' = [req EXCEPT ![r] = h]
  BY <1>2
<1> HIDE DEF h
<1>6. req'[r] = h /\ \A q \in Requests \ {r} : req'[q] = req[q]
  BY <1>5 DEF TypeOK
<1>7. NoNewCancels
  BY <1>3, <1>6 DEF NoNewCancels, At, CancelBegin
<1>8. PromotersHeldSeats'
  BY <1>4, <1>6 DEF LockInv, PromotersHeldSeats, At
<1>9. RowsHaveShift'
  BY <1>3, <1>6, RowsKeepShift DEF LockInv, JoinsHaveShift, At
<1> QED
  BY <1>3, <1>4, <1>5, <1>7, <1>8, <1>9, SeenSeatsStay, LockClosesNoCycle DEF LockInv

LEMMA MarkKeepsLockInv ==
  ASSUME TypeOK, BookingInv, LockInv, SeatsKept, NEW r \in Requests, NEW s \in Shifts,
         NEW u \in Volunteers, NEW mark \in Recorded, LockForMark(r, s, u, mark)
  PROVE  LockInv'
<1> DEFINE h == [Reading("mark", s, u) EXCEPT !.phase = "tx", !.mark = mark]
<1>1. Reading("mark", s, u) \in SignupHandlers
  BY ReadingType DEF SignupOps
<1>2. h \in SignupHandlers /\ h.op = "mark"
  BY <1>1 DEF SignupHandlers, Reading
<1>3. req' = [req EXCEPT ![r] = h]
  BY DEF LockForMark
<1> HIDE DEF h
<1>4. req'[r] = h /\ \A q \in Requests \ {r} : req'[q] = req[q]
  BY <1>3 DEF TypeOK
<1>5. NoNewCancels /\ PromotersHeldSeats'
  BY <1>2, <1>4 DEF NoNewCancels, LockInv, PromotersHeldSeats, At
<1>6. RowsHaveShift'
  BY <1>2, <1>4, RowsKeepShift DEF LockInv, JoinsHaveShift, At
<1> QED
  BY <1>2, <1>3, <1>5, <1>6, SeenSeatsStay, LockClosesNoCycle DEF LockInv

LEMMA JoinBeginKeepsLockInv ==
  ASSUME TypeOK, BookingInv, LockInv, SeatsKept, NEW r \in Requests, JoinWaitlistBegin(r)
  PROVE  LockInv'
<1>1. req[r] \in SignupHandlers /\ req[r].op = "joinWaitlist"
  BY InFlight DEF JoinWaitlistBegin, SignupOps, At
<1> DEFINE h == [req[r] EXCEPT !.phase = "tx", !.at = now]
<1>2. h \in SignupHandlers /\ h.op = "joinWaitlist" /\ h.shift = req[r].shift
  BY <1>1 DEF SignupHandlers, TypeOK
<1>3. req' = [req EXCEPT ![r] = h] /\ h.shift \in Shifts /\ Exists(h.shift)
  BY <1>1, <1>2 DEF JoinWaitlistBegin, SignupHandlers
<1> HIDE DEF h
<1>4. req'[r] = h /\ \A q \in Requests \ {r} : req'[q] = req[q]
  BY <1>3 DEF TypeOK
<1>5. NoNewCancels /\ PromotersHeldSeats'
  BY <1>2, <1>4 DEF NoNewCancels, LockInv, PromotersHeldSeats, At
<1>6. RowsHaveShift'
  BY <1>3, <1>4, RowsKeepShift DEF LockInv, JoinsHaveShift, At
<1> QED
  BY <1>2, <1>3, <1>5, <1>6, SeenSeatsStay, LockClosesNoCycle DEF LockInv

\* The steps that take no lock and start no cancellation.
LEMMA StepKeepsLockInv ==
  ASSUME TypeOK, LockInv, SeatsKept, NoNewLocks, NoNewCancels
  PROVE  LockInv'
<1>1. RowsHaveShift'
  BY RowsKeepShift DEF LockInv, JoinsHaveShift, NoNewLocks, At
<1> QED
  BY <1>1, SeenSeatsStay, LocksLetGo DEF LockInv

LEMMA LockInvStep ==
  ASSUME TypeOK, BookingInv, LockInv, [Next]_vars
  PROVE  LockInv'
<1>1. CASE \E s \in Shifts : RemoveShift(s)
  BY <1>1, RemoveShiftKeepsLockInv
<1>2. ASSUME ~ \E s \in Shifts : RemoveShift(s),
             NEW r \in Requests, BookingStep(r)
      PROVE  LockInv'
  <2>1. CASE \/ SignUpCommit(r) \/ AssignCommit(r) \/ CancelCommit(r)
             \/ JoinWaitlistCommit(r) \/ LeaveWaitlistCommit(r) \/ MarkCommit(r)
    <3>1. SeatsKept
      BY <2>1, CommitKeepsSeats DEF LockInv
    <3>2. Finish(r)
      BY <2>1 DEF SignUpCommit, AssignCommit, CancelCommit, JoinWaitlistCommit,
                  LeaveWaitlistCommit, MarkCommit
    <3>3. NoNewLocks /\ NoNewCancels
      BY <3>2 DEF NoNewLocks, NoNewCancels, Finish, At, TypeOK, Idle
    <3> QED
      BY <3>1, <3>3, StepKeepsLockInv
  <2>2. CASE ~(\/ SignUpCommit(r) \/ AssignCommit(r) \/ CancelCommit(r)
               \/ JoinWaitlistCommit(r) \/ LeaveWaitlistCommit(r) \/ MarkCommit(r))
    <3>1. UNCHANGED <<status, signup>>
      <4>1. ASSUME NEW s \in Shifts, NEW u \in Volunteers, ReadsOrMarks(r, s, u)
            PROVE  UNCHANGED <<status, signup>>
        BY <4>1, ReadsWriteNothing DEF shiftVars, signupVars
      <4>2. CASE CheckinLock(r) \/ CancelBegin(r) \/ JoinWaitlistBegin(r) \/ Rollback(r)
        BY <4>2 DEF CheckinLock, LockForMark, CancelBegin, JoinWaitlistBegin, Rollback,
                    shiftVars, signupVars
      <4> QED
        BY <1>2, <2>2, <4>1, <4>2 DEF BookingStep, ReadsOrMarks
    <3>2. SeatsKept
      BY <3>1 DEF SeatsKept, LockInv, RowsHaveShift, Rows, Exists
    <3>3. CASE \E s \in Shifts, u \in Volunteers : CancelRead(r, s, u)
      BY <3>2, <3>3, CancelReadKeepsLockInv
    <3>4. CASE CancelBegin(r)
      BY <3>2, <3>4, CancelBeginKeepsLockInv
    <3>5. CASE \E s \in Shifts, u \in Volunteers : \E mark \in Recorded : StaffMark(r, s, u, mark)
      BY <3>2, <3>5, MarkKeepsLockInv DEF StaffMark
    <3>6. CASE CheckinLock(r)
      <4>1. req[r] \in SignupHandlers
        BY <3>6, InFlight DEF CheckinLock, SignupOps
      <4> QED
        BY <3>2, <3>6, <4>1, MarkKeepsLockInv DEF CheckinLock, SignupHandlers, Recorded
    <3>7. ASSUME NEW s \in Shifts, NEW u \in Volunteers,
                 \/ SignUpRead(r, s, u)
                 \/ \E over \in BOOLEAN : AssignRead(r, s, u, over)
                 \/ JoinWaitlistRead(r, s, u)
                 \/ LeaveWaitlistRead(r, s, u)
          PROVE  LockInv'
      <4>1. PICK op \in {"signUp", "assign", "joinWaitlist", "leaveWaitlist"} :
              req' = [req EXCEPT ![r] = Reading(op, s, u)]
        BY <3>7 DEF SignUpRead, AssignRead, JoinWaitlistRead, LeaveWaitlistRead, Start
      <4>2. req'[r].phase = "read" /\ req'[r].op # "cancel"
            /\ \A q \in Requests \ {r} : req'[q] = req[q]
        BY <4>1 DEF Reading, TypeOK
      <4>3. NoNewLocks /\ NoNewCancels
        BY <4>2 DEF NoNewLocks, NoNewCancels, At
      <4> QED
        BY <3>2, <4>3, StepKeepsLockInv
    <3>8. ASSUME NEW s \in Shifts, NEW u \in Volunteers, CheckinRead(r, s, u) PROVE LockInv'
      <4> DEFINE h == [Reading("mark", s, u) EXCEPT !.mark = "ATTENDED"]
      <4>1. h.phase = "read" /\ h.op # "cancel"
        BY DEF Reading
      <4>2. req' = [req EXCEPT ![r] = h]
        BY <3>8 DEF CheckinRead, Start
      <4> HIDE DEF h
      <4>3. NoNewLocks /\ NoNewCancels
        BY <4>1, <4>2 DEF NoNewLocks, NoNewCancels, At, TypeOK
      <4> QED
        BY <3>2, <4>3, StepKeepsLockInv
    <3>10. CASE JoinWaitlistBegin(r)
      BY <3>2, <3>10, JoinBeginKeepsLockInv
    <3>9. CASE Rollback(r)
      <4>1. NoNewLocks /\ NoNewCancels
        BY <3>9 DEF NoNewLocks, NoNewCancels, Rollback, Finish, At, TypeOK, Idle
      <4> QED
        BY <3>2, <4>1, StepKeepsLockInv
    <3> QED
      BY <1>2, <2>2, <3>3, <3>4, <3>5, <3>6, <3>7, <3>8, <3>9, <3>10 DEF BookingStep
  <2> QED
    BY <2>1, <2>2
<1>3. CASE ~(\E s \in Shifts : RemoveShift(s)) /\ ~(\E r \in Requests : BookingStep(r))
  <2>1. UNCHANGED signup /\ NoNewLocks
    BY <1>3, OtherStep DEF signupVars
  <2>2. SeatsKept
    BY <1>3, <2>1, OtherStepKeepsSeats DEF LockInv, BookingStep
  <2>3. NoNewCancels
    <3>1. CASE RosterNext
      <4>1. ASSUME NEW r \in Requests, NEW u \in Volunteers, AddVolunteerRead(r, u)
            PROVE  NoNewCancels
        <5>1. \A q \in Requests : q # r => req'[q] = req[q]
          BY <4>1 DEF AddVolunteerRead, Start, TypeOK
        <5>2. req'[r].op = "addVolunteer"
          BY <4>1 DEF AddVolunteerRead, Start, TypeOK
        <5> QED
          BY <5>1, <5>2 DEF NoNewCancels, At
      <4>2. ASSUME NEW u \in Volunteers, RemoveVolunteer(u) \/ LeaveOrg(u) PROVE NoNewCancels
        BY <4>2 DEF RemoveVolunteer, LeaveOrg, NoNewCancels, At
      <4> QED
        BY <3>1, <4>1, <4>2 DEF RosterNext
    <3>2. CASE \E r \in Requests : AddVolunteerCommit(r)
      BY <3>2 DEF AddVolunteerCommit, Finish, NoNewCancels, At, TypeOK, Idle
    <3>3. CASE ShiftNext \/ CronScan \/ Tick \/ UNCHANGED vars
      <4>1. req' = req
        BY <1>3, <3>3 DEF ShiftNext, CreateShift, UpdateShift, CancelShift, CompleteShift,
                          CronClose, CronSkip, CronScan, Tick, vars
      <4> QED
        BY <4>1 DEF NoNewCancels, At
    <3> QED
      BY <1>3, <3>1, <3>2, <3>3 DEF Next
  <2> QED
    BY <2>1, <2>2, <2>3, StepKeepsLockInv
<1> QED
  BY <1>1, <1>2, <1>3

\* Signup rows go with their shift, and a cancellation that promotes somebody holds a row
\* that nobody is about to promote (cancelSignup).
THEOREM LockInvariant == Spec => []LockInv
<1>1. Init => LockInv
  BY DEF Init, LockInv, RowsHaveShift, SeenSeatsNeverWait, PromotersHeldSeats, NoLockCycle,
         WaitsFor, At, Idle, Rows
<1>2. TypeOK /\ BookingInv /\ LockInv /\ [Next]_vars => LockInv'
  BY LockInvStep
<1> QED
  BY <1>1, <1>2, TypeCorrect, BookingInvariant, PTL DEF Spec

\* However many volunteers cancel at once, no set of open transactions waits for
\* one another's signup rows in a circle.
THEOREM NoDeadlock == Spec => []NoLockCycle
<1>1. LockInv => NoLockCycle
  BY DEF LockInv
<1> QED
  BY <1>1, LockInvariant, PTL
=============================================================================
