-------------------------- MODULE ShiftSerialProofs --------------------------
(* Theorems about ShiftSignups when requests that could disturb one another  *)
(* do not overlap, for every set of volunteers, shifts and requests and      *)
(* every capacity.  For the seats of a shift these are the requests about    *)
(* the shift: beside one of them only coordinators, the auto-close job and   *)
(* requests about other shifts act, and what it has read stays so, except    *)
(* that its shift may end or go.                                             *)
EXTENDS ShiftSignupsProofs

---------------------------------------------------------------------------
(* Seats.                                                                  *)

SeatsRight(s) ==
  status[s] \in Active =>
    /\ Cardinality(Confirmed(s)) <= capacity[s]
    /\ status[s] = "FULL" <=> Cardinality(Confirmed(s)) = capacity[s]
    /\ Waiting(s) # {} => IsFull(s)

InBooking(r) == req[r] # Idle /\ req[r].op \in SignupOps

\* The shift and the caller's row are as the request has read them; only the status may
\* have become final in between.
ViewCurrent(h) ==
  /\ status[h.shift] \in {h.view.status} \cup Closed
  /\ capacity[h.shift] = h.view.capacity
  /\ Cardinality(Confirmed(h.shift)) = h.view.confirmed
  /\ signup[h.shift][h.user] = h.view.own
  /\ h.view.status \in Active /\ Waiting(h.shift) # {} => h.view.confirmed >= h.view.capacity

ViewAgrees(v) ==
  v.status \in Active =>
    v.confirmed <= v.capacity /\ (v.status = "FULL" <=> v.confirmed = v.capacity)

ViewAllows(h) ==
  /\ h.op \notin {"assign", "mark"}
  /\ h.view.status \in Active \cup Closed
  /\ h.op = "signUp" =>
       h.view.status = "OPEN" /\ h.view.confirmed < h.view.capacity /\ h.view.own # "CONFIRMED"
  /\ h.op = "joinWaitlist" => h.view.confirmed >= h.view.capacity
  /\ h.op = "leaveWaitlist" => h.view.own = "WAITLISTED"
  /\ h.op = "cancel" => h.view.own \in {"CONFIRMED", "WAITLISTED"}

\* What a cancellation has selected from the waitlist is what it would select now.
SelectionCurrent(h) ==
  h.phase = "tx" /\ h.op = "cancel" =>
    IF h.view.own = "CONFIRMED" THEN IsNextWaitlistEntry(h.next, h.shift, h.user)
                                ELSE h.next = NoOne

SeesSeats(r) ==
  InBooking(r) =>
    /\ status[req[r].shift] = "DELETED" \/ ViewCurrent(req[r])
    /\ ViewAgrees(req[r].view)
    /\ ViewAllows(req[r])
    /\ SelectionCurrent(req[r])

About(r, s) == InBooking(r) /\ req[r].shift = s

\* At most one request about the shift is in flight.
ApartOn(s) == \A r, q \in Requests : About(r, s) /\ About(q, s) => r = q

\* The shift has its seats right, and the request about it sees what it has read.
SeatsHold(s) == SeatsRight(s) /\ \A r \in Requests : About(r, s) => SeesSeats(r)

LEMMA HandlerOf ==
  ASSUME TypeOK, NEW r \in Requests, InBooking(r)
  PROVE  req[r] \in SignupHandlers
BY DEF TypeOK, InBooking, Handlers, RosterHandlers, SignupOps

LEMMA SeatCount ==
  ASSUME TypeOK, NEW s \in Shifts
  PROVE  /\ IsFiniteSet(Confirmed(s)) /\ Cardinality(Confirmed(s)) \in Nat
         /\ capacity[s] \in Nat \ {0}
<1>1. Confirmed(s) \subseteq Volunteers
  BY DEF Confirmed
<1> QED
  BY <1>1, FiniteAssumption, FS_Subset, FS_CardinalityType, CapacitiesAssumption DEF TypeOK

\* A shift whose rows, status and capacity a step leaves alone.
LEMMA UntouchedShift ==
  ASSUME NEW s \in Shifts, signup'[s] = signup[s]
  PROVE  Confirmed(s)' = Confirmed(s) /\ Waiting(s)' = Waiting(s)
BY DEF Confirmed, Waiting

\* One row becomes CONFIRMED, ceases to be, or passes the seat on.
LEMMA SeatTaken ==
  ASSUME TypeOK, NEW s \in Shifts, NEW u \in Volunteers, signup[s][u] # "CONFIRMED",
         signup' = [signup EXCEPT ![s][u] = "CONFIRMED"]
  PROVE  /\ Cardinality(Confirmed(s))' = Cardinality(Confirmed(s)) + 1
         /\ Waiting(s)' \subseteq Waiting(s)
<1>1. signup'[s] = [signup[s] EXCEPT ![u] = "CONFIRMED"]
  BY DEF TypeOK
<1>2. Confirmed(s)' = Confirmed(s) \cup {u} /\ u \notin Confirmed(s)
  BY <1>1 DEF Confirmed, TypeOK
<1>3. Waiting(s)' \subseteq Waiting(s)
  BY <1>1 DEF Waiting, TypeOK
<1> QED
  BY <1>2, <1>3, SeatCount, FS_AddElement

LEMMA RowGivenUp ==
  ASSUME TypeOK, NEW s \in Shifts, NEW u \in Volunteers,
         signup'[s] = [v \in Volunteers |-> IF v = u THEN "CANCELLED" ELSE signup[s][v]]
  PROVE  /\ signup[s][u] = "CONFIRMED" =>
              Cardinality(Confirmed(s))' = Cardinality(Confirmed(s)) - 1
         /\ signup[s][u] # "CONFIRMED" =>
              Cardinality(Confirmed(s))' = Cardinality(Confirmed(s))
         /\ Waiting(s)' = Waiting(s) \ {u}
<1>1. Confirmed(s)' = Confirmed(s) \ {u}
  BY DEF Confirmed
<1>2. Waiting(s)' = Waiting(s) \ {u}
  BY DEF Waiting
<1>3. signup[s][u] = "CONFIRMED" <=> u \in Confirmed(s)
  BY DEF Confirmed
<1>4. u \notin Confirmed(s) => Confirmed(s) \ {u} = Confirmed(s)
  OBVIOUS
<1> QED
  BY <1>1, <1>2, <1>3, <1>4, SeatCount, FS_RemoveElement

LEMMA SeatPassedOn ==
  ASSUME TypeOK, NEW s \in Shifts, NEW u \in Confirmed(s), NEW next \in Waiting(s),
         signup'[s] = [v \in Volunteers |-> IF v = next THEN "CONFIRMED"
                                            ELSE IF v = u THEN "CANCELLED" ELSE signup[s][v]]
  PROVE  /\ Cardinality(Confirmed(s))' = Cardinality(Confirmed(s))
         /\ Waiting(s)' \subseteq Waiting(s)
<1>1. next \notin Confirmed(s) /\ next # u
  BY DEF Confirmed, Waiting
<1>2. Confirmed(s)' = (Confirmed(s) \ {u}) \cup {next}
  BY <1>1 DEF Confirmed, Waiting
<1>3. IsFiniteSet(Confirmed(s) \ {u})
      /\ Cardinality(Confirmed(s) \ {u}) = Cardinality(Confirmed(s)) - 1
  BY SeatCount, FS_RemoveElement
<1>4. Cardinality((Confirmed(s) \ {u}) \cup {next}) = Cardinality(Confirmed(s))
  <2>1. next \notin Confirmed(s) \ {u}
    BY <1>1
  <2>2. Cardinality((Confirmed(s) \ {u}) \cup {next}) = Cardinality(Confirmed(s) \ {u}) + 1
    BY <1>3, <2>1, FS_AddElement
  <2>3. Cardinality(Confirmed(s)) \in Nat
    BY SeatCount
  <2> QED
    BY <1>3, <2>2, <2>3
<1>5. Waiting(s)' \subseteq Waiting(s)
  BY DEF Waiting
<1> QED
  BY <1>2, <1>4, <1>5

---------------------------------------------------------------------------
(* Commits.                                                                *)

LEMMA FinishedSees ==
  ASSUME TypeOK, NEW r \in Requests, Finish(r)
  PROVE  SeesSeats(r)'
BY DEF TypeOK, Finish, SeesSeats, InBooking

\* The shift of a request whose row is there has not been removed.
LEMMA RowKeepsView ==
  ASSUME TypeOK, RowsHaveShift, NEW r \in Requests, InBooking(r), SeesSeats(r),
         req[r].user \in Rows(req[r].shift) \/ Exists(req[r].shift)
  PROVE  ViewCurrent(req[r])
<1>1. req[r].shift \in Shifts
  BY HandlerOf DEF SignupHandlers
<1>2. Exists(req[r].shift)
  BY <1>1 DEF RowsHaveShift
<1> QED
  BY <1>2 DEF Exists, Active, Closed, SeesSeats

LEMMA SignUpKeepsSeats ==
  ASSUME TypeOK, RowsHaveShift, NEW s \in Shifts, SeatsRight(s),
         NEW r \in Requests, About(r, s), SeesSeats(r), SignUpCommit(r)
  PROVE  SeatsRight(s)'
<1>1. InBooking(r) /\ req[r].op = "signUp"
  BY DEF SignUpCommit, At, InBooking, Idle, SignupOps
<1>2. PICK h \in SignupHandlers : h = req[r]
  BY <1>1, HandlerOf
<1>3. PICK u \in Volunteers : u = h.user /\ s = h.shift
  BY <1>2 DEF About, SignupHandlers
<1>4. ViewCurrent(h) /\ ViewAllows(h) /\ ViewAgrees(h.view)
  <2>1. Exists(h.shift)
    BY <1>2 DEF SignUpCommit, BookingWritable
  <2> QED
    BY <1>1, <1>2, <2>1, RowKeepsView DEF SeesSeats
<1>5. /\ signup' = [signup EXCEPT ![s][u] = "CONFIRMED"]
      /\ status' = IF FillsShift(h) THEN [status EXCEPT ![s] = "FULL"] ELSE status
      /\ capacity' = capacity
  BY <1>2, <1>3 DEF SignUpCommit, ConfirmRow
<1>6. /\ h.view.status = "OPEN" /\ h.view.confirmed < h.view.capacity
      /\ signup[s][u] # "CONFIRMED" /\ status[s] \in {"OPEN"} \cup Closed
      /\ capacity[s] = h.view.capacity /\ Cardinality(Confirmed(s)) = h.view.confirmed
  BY <1>1, <1>2, <1>3, <1>4 DEF ViewCurrent, ViewAllows
<1>7. Cardinality(Confirmed(s)) \in Nat /\ capacity[s] \in Nat
  BY SeatCount
<1>8. Waiting(s) = {}
  BY <1>3, <1>4, <1>6, <1>7 DEF ViewCurrent, Active
<1>9. /\ Cardinality(Confirmed(s))' = Cardinality(Confirmed(s)) + 1
      /\ Waiting(s)' = {}
  BY <1>5, <1>6, <1>8, SeatTaken
<1>10. SeatsRight(s)'
  <2>1. Cardinality(Confirmed(s))' <= capacity'[s]
    BY <1>5, <1>6, <1>7, <1>9
  <2>2. status'[s] = IF Cardinality(Confirmed(s))' >= capacity'[s] THEN "FULL" ELSE status[s]
    BY <1>5, <1>6, <1>9 DEF FillsShift, TypeOK
  <2>3. Cardinality(Confirmed(s))' = capacity'[s] <=> Cardinality(Confirmed(s))' >= capacity'[s]
    BY <1>5, <1>7, <1>9, <2>1
  <2> QED
    BY <1>6, <1>9, <2>1, <2>2, <2>3 DEF SeatsRight, Active, Closed
<1> QED
  BY <1>10

LEMMA LeaveKeepsSeats ==
  ASSUME TypeOK, RowsHaveShift, NEW s \in Shifts, SeatsRight(s),
         NEW r \in Requests, About(r, s), SeesSeats(r),
         LeaveWaitlistCommit(r)
  PROVE  SeatsRight(s)'
<1>1. InBooking(r) /\ req[r].op = "leaveWaitlist"
  BY DEF LeaveWaitlistCommit, At, InBooking, Idle, SignupOps
<1>2. PICK h \in SignupHandlers : h = req[r]
  BY <1>1, HandlerOf
<1>3. PICK u \in Volunteers : u = h.user /\ s = h.shift
  BY <1>2 DEF About, SignupHandlers
<1>4. ViewCurrent(h) /\ ViewAllows(h)
  BY <1>1, <1>2, RowKeepsView DEF SeesSeats, LeaveWaitlistCommit
<1>5. signup[s][u] = "WAITLISTED"
  BY <1>1, <1>2, <1>3, <1>4 DEF ViewCurrent, ViewAllows
<1>6. /\ signup' = [signup EXCEPT ![s][u] = "CANCELLED"]
      /\ UNCHANGED <<status, capacity>>
  BY <1>2, <1>3 DEF LeaveWaitlistCommit, shiftVars
<1>7. signup'[s] = [v \in Volunteers |-> IF v = u THEN "CANCELLED" ELSE signup[s][v]]
  BY <1>6 DEF TypeOK
<1>8. Cardinality(Confirmed(s))' = Cardinality(Confirmed(s)) /\ Waiting(s)' \subseteq Waiting(s)
  BY <1>5, <1>7, RowGivenUp
<1> QED
  BY <1>6, <1>8 DEF SeatsRight, IsFull

LEMMA JoinKeepsSeats ==
  ASSUME TypeOK, RowsHaveShift, LockedRowsExist, NEW s \in Shifts, SeatsRight(s),
         NEW r \in Requests, About(r, s), SeesSeats(r),
         JoinWaitlistCommit(r)
  PROVE  SeatsRight(s)'
<1>1. InBooking(r) /\ req[r].op = "joinWaitlist"
  BY DEF JoinWaitlistCommit, At, InBooking, Idle, SignupOps
<1>2. PICK h \in SignupHandlers : h = req[r]
  BY <1>1, HandlerOf
<1>3. PICK u \in Volunteers : u = h.user /\ s = h.shift
  BY <1>2 DEF About, SignupHandlers
<1>4. ViewCurrent(h) /\ ViewAllows(h)
  <2>1. Exists(h.shift)
    BY <1>2 DEF RowsHaveShift, JoinWaitlistCommit
  <2> QED
    BY <1>1, <1>2, <2>1, RowKeepsView DEF SeesSeats
<1>5. capacity[s] = h.view.capacity /\ Cardinality(Confirmed(s)) >= capacity[s]
  BY <1>1, <1>2, <1>3, <1>4 DEF ViewCurrent, ViewAllows
<1>6. signup[s][u] = "NONE"
  BY <1>2, <1>3 DEF JoinWaitlistCommit, At, LockedRowsExist, Rows
<1>7. /\ signup' = [signup EXCEPT ![s][u] = "WAITLISTED"]
      /\ UNCHANGED <<status, capacity>>
  BY <1>2, <1>3 DEF JoinWaitlistCommit, shiftVars
<1>8. Confirmed(s)' = Confirmed(s)
  BY <1>6, <1>7 DEF Confirmed, TypeOK
<1> QED
  BY <1>5, <1>7, <1>8 DEF SeatsRight, IsFull

LEMMA CancelKeepsSeats ==
  ASSUME TypeOK, RowsHaveShift, LockedRowsExist, NEW s \in Shifts, SeatsRight(s),
         NEW r \in Requests, About(r, s), SeesSeats(r),
         CancelCommit(r)
  PROVE  /\ SeatsRight(s)'
         /\ signup[s][req[r].user] = "CONFIRMED" /\ Waiting(s) # {} =>
              Cardinality(Confirmed(s))' = Cardinality(Confirmed(s))
<1>1. InBooking(r) /\ req[r].op = "cancel" /\ req[r].phase = "tx"
  BY DEF CancelCommit, At, InBooking, Idle, SignupOps
<1>2. PICK h \in SignupHandlers : h = req[r]
  BY <1>1, HandlerOf
<1>3. PICK u \in Volunteers, v \in Views : u = h.user /\ v = h.view /\ s = h.shift
  BY <1>2 DEF About, SignupHandlers
<1>4. ViewCurrent(h) /\ ViewAllows(h) /\ ViewAgrees(v) /\ SelectionCurrent(h)
  <2>1. h.user \in Rows(h.shift)
    BY <1>1, <1>2 DEF LockedRowsExist
  <2> QED
    BY <1>1, <1>2, <1>3, <2>1, RowKeepsView DEF SeesSeats
<1>5. /\ signup' = [signup EXCEPT ![s] =
           [w \in Volunteers |-> IF w = h.next THEN "CONFIRMED"
                                 ELSE IF w = u THEN "CANCELLED" ELSE signup[s][w]]]
      /\ status' = IF v.own = "CONFIRMED" /\ h.next = NoOne /\ v.status = "FULL"
                   THEN [status EXCEPT ![s] = "OPEN"] ELSE status
      /\ capacity' = capacity
  BY <1>2, <1>3 DEF CancelCommit
<1>6. /\ status[s] \in {v.status} \cup Closed /\ capacity[s] = v.capacity
      /\ Cardinality(Confirmed(s)) = v.confirmed /\ signup[s][u] = v.own
      /\ v.own \in {"CONFIRMED", "WAITLISTED"} /\ v.status \in Active \cup Closed
      /\ v.status \in Active /\ Waiting(s) # {} => v.confirmed >= v.capacity
  BY <1>1, <1>2, <1>3, <1>4 DEF ViewCurrent, ViewAllows
<1>7. Cardinality(Confirmed(s)) \in Nat /\ capacity[s] \in Nat \ {0}
  BY SeatCount
<1>8. CASE v.own # "CONFIRMED"
  <2>1. h.next = NoOne
    BY <1>1, <1>2, <1>3, <1>4, <1>8 DEF SelectionCurrent
  <2>2. signup'[s] = [w \in Volunteers |-> IF w = u THEN "CANCELLED" ELSE signup[s][w]]
    BY <1>5, <2>1, NoOneAssumption DEF TypeOK
  <2>3. Cardinality(Confirmed(s))' = Cardinality(Confirmed(s)) /\ Waiting(s)' \subseteq Waiting(s)
    BY <1>6, <1>8, <2>2, RowGivenUp
  <2>4. SeatsRight(s)'
    BY <1>5, <1>8, <2>3 DEF SeatsRight, IsFull
  <2> QED
    BY <1>2, <1>3, <1>6, <1>8, <2>4
<1>9. CASE v.own = "CONFIRMED" /\ h.next # NoOne
  <2>1. h.next \in Waiting(s) \ {u}
    BY <1>1, <1>2, <1>3, <1>4, <1>9 DEF SelectionCurrent, IsNextWaitlistEntry
  <2>2. u \in Confirmed(s)
    BY <1>6, <1>9 DEF Confirmed
  <2>3. signup'[s] = [w \in Volunteers |-> IF w = h.next THEN "CONFIRMED"
                                           ELSE IF w = u THEN "CANCELLED" ELSE signup[s][w]]
    BY <1>5 DEF TypeOK
  <2>4. Cardinality(Confirmed(s))' = Cardinality(Confirmed(s)) /\ Waiting(s)' \subseteq Waiting(s)
    BY <2>1, <2>2, <2>3, SeatPassedOn
  <2>5. SeatsRight(s)'
    BY <1>5, <1>9, <2>4 DEF SeatsRight, IsFull
  <2> QED
    BY <2>4, <2>5
<1>10. CASE v.own = "CONFIRMED" /\ h.next = NoOne
  <2>1. Waiting(s) = {}
    <3>1. Waiting(s) \ {u} = {}
      <4>1. IsNextWaitlistEntry(h.next, s, u)
        BY <1>1, <1>2, <1>3, <1>4, <1>10 DEF SelectionCurrent
      <4>2. h.next \notin Waiting(s)
        BY <1>10, NoOneAssumption DEF Waiting
      <4> QED
        BY <4>1, <4>2 DEF IsNextWaitlistEntry
    <3>2. u \notin Waiting(s)
      BY <1>6, <1>10 DEF Waiting
    <3> QED
      BY <3>1, <3>2
  <2>2. signup'[s] = [w \in Volunteers |-> IF w = u THEN "CANCELLED" ELSE signup[s][w]]
    BY <1>5, <1>10, NoOneAssumption DEF TypeOK
  <2>3. Cardinality(Confirmed(s))' = Cardinality(Confirmed(s)) - 1 /\ Waiting(s)' = {}
    BY <1>6, <1>10, <2>1, <2>2, RowGivenUp
  <2>4. v.status \in Active => Cardinality(Confirmed(s)) <= capacity[s]
    BY <1>4, <1>6 DEF ViewAgrees
  <2>5. status'[s] \in Active => status'[s] = "OPEN" /\ v.status \in Active
    BY <1>5, <1>6, <1>10 DEF Active, Closed, TypeOK
  <2>6. SeatsRight(s)'
    BY <1>5, <1>7, <2>3, <2>4, <2>5 DEF SeatsRight
  <2> QED
    BY <2>1, <2>6
<1> QED
  BY <1>8, <1>9, <1>10

---------------------------------------------------------------------------
(* Reads, and what happens beside a request.                               *)

\* The steps of a request that is in flight.
GoesOn(r) ==
  \/ SignUpCommit(r) \/ AssignCommit(r) \/ CancelBegin(r) \/ CancelCommit(r)
  \/ JoinWaitlistBegin(r) \/ JoinWaitlistCommit(r) \/ LeaveWaitlistCommit(r)
  \/ CheckinLock(r) \/ MarkCommit(r)

LEMMA GoesOnAbout ==
  ASSUME TypeOK, NEW r \in Requests, GoesOn(r)
  PROVE  /\ InBooking(r) /\ req[r] \in SignupHandlers
         /\ InBooking(r)' => /\ req'[r].shift = req[r].shift /\ req'[r].user = req[r].user
                             /\ req'[r].op = req[r].op
<1>1. InBooking(r)
  <2>1. PICK phase \in {"read", "tx"}, op \in SignupOps : At(r, phase, op)
    BY DEF GoesOn, SignUpCommit, AssignCommit, CancelBegin, CancelCommit, JoinWaitlistBegin,
           JoinWaitlistCommit, LeaveWaitlistCommit, CheckinLock, MarkCommit, SignupOps
  <2> QED
    BY <2>1 DEF At, InBooking, Idle
<1>2. PICK h \in SignupHandlers : h = req[r]
  BY <1>1, HandlerOf
<1>3. CASE SignUpCommit(r) \/ AssignCommit(r) \/ CancelCommit(r) \/ JoinWaitlistCommit(r)
             \/ LeaveWaitlistCommit(r) \/ MarkCommit(r)
  <2>1. req'[r] = Idle
    BY <1>3 DEF SignUpCommit, AssignCommit, CancelCommit, JoinWaitlistCommit,
                LeaveWaitlistCommit, MarkCommit, Finish, TypeOK
  <2> QED
    BY <1>1, <1>2, <2>1 DEF InBooking
<1>4. CASE CancelBegin(r)
  <2>1. PICK next : req' = [req EXCEPT ![r] = [h EXCEPT !.phase = "tx", !.next = next]]
    BY <1>2, <1>4 DEF CancelBegin
  <2>2. req'[r] = [h EXCEPT !.phase = "tx", !.next = next]
    BY <2>1 DEF TypeOK
  <2> QED
    BY <1>1, <1>2, <2>2 DEF SignupHandlers
<1>5. CASE JoinWaitlistBegin(r)
  <2>1. req'[r] = [h EXCEPT !.phase = "tx", !.at = now]
    BY <1>2, <1>5 DEF JoinWaitlistBegin, TypeOK
  <2> QED
    BY <1>1, <1>2, <2>1 DEF SignupHandlers
<1>6. CASE CheckinLock(r)
  <2>1. req'[r] = [Reading("mark", h.shift, h.user) EXCEPT !.phase = "tx", !.mark = "ATTENDED"]
    BY <1>2, <1>6 DEF CheckinLock, LockForMark, TypeOK
  <2>2. req'[r].shift = h.shift /\ req'[r].user = h.user /\ req'[r].op = "mark"
    BY <2>1 DEF Reading
  <2>3. h.op = "mark"
    BY <1>2, <1>6 DEF CheckinLock, At
  <2> QED
    BY <1>1, <1>2, <2>2, <2>3
<1> QED
  BY <1>3, <1>4, <1>5, <1>6 DEF GoesOn

LEMMA BookingKinds ==
  ASSUME NEW r, BookingStep(r), ~GoesOn(r)
  PROVE  UNCHANGED <<status, capacity, slot, signup, createdAt, visibleAt>>
<1> USE DEF shiftVars, signupVars, stampVars
<1>1. ASSUME NEW s \in Shifts, NEW u \in Volunteers,
             \/ SignUpRead(r, s, u) \/ CancelRead(r, s, u) \/ JoinWaitlistRead(r, s, u)
             \/ LeaveWaitlistRead(r, s, u) \/ CheckinRead(r, s, u)
             \/ \E over \in BOOLEAN : AssignRead(r, s, u, over)
             \/ \E mark \in Recorded : StaffMark(r, s, u, mark)
      PROVE  UNCHANGED <<status, capacity, slot, signup, createdAt, visibleAt>>
  BY <1>1 DEF SignUpRead, AssignRead, CancelRead, JoinWaitlistRead, LeaveWaitlistRead,
              CheckinRead, StaffMark, LockForMark
<1>2. CASE Rollback(r)
  BY <1>2 DEF Rollback
<1> QED
  BY <1>1, <1>2 DEF BookingStep, GoesOn

LEMMA BookingKeepsShifts ==
  ASSUME NEW r, BookingStep(r)
  PROVE  UNCHANGED <<capacity, slot>>
<1>1. CASE GoesOn(r)
  BY <1>1 DEF GoesOn, SignUpCommit, AssignCommit, CancelBegin, CancelCommit, JoinWaitlistBegin,
              JoinWaitlistCommit, LeaveWaitlistCommit, CheckinLock, LockForMark, MarkCommit,
              shiftVars
<1> QED
  BY <1>1, BookingKinds

\* A request writes nothing of a shift it is not about, and nothing of other requests.
LEMMA BookingElsewhere ==
  ASSUME TypeOK, NEW r \in Requests, BookingStep(r), NEW s \in Shifts, ~About(r, s)
  PROVE  /\ capacity' = capacity /\ slot' = slot
         /\ status'[s] = status[s] /\ signup'[s] = signup[s] /\ createdAt'[s] = createdAt[s]
<1>1. CASE GoesOn(r)
  <2>1. PICK h \in SignupHandlers : h = req[r] /\ h.shift # s
    BY <1>1, GoesOnAbout DEF About
  <2>2. UNCHANGED <<capacity, slot>>
    BY BookingKeepsShifts
  <2>3. status'[s] = status[s]
    BY <1>1, <2>1 DEF GoesOn, SignUpCommit, AssignCommit, CancelBegin, CancelCommit,
                JoinWaitlistBegin, JoinWaitlistCommit, LeaveWaitlistCommit, CheckinLock,
                LockForMark, MarkCommit, shiftVars, TypeOK
  <2>4. signup'[s] = signup[s]
    BY <1>1, <2>1 DEF GoesOn, SignUpCommit, AssignCommit, CancelBegin, CancelCommit,
                JoinWaitlistBegin, JoinWaitlistCommit, LeaveWaitlistCommit, CheckinLock,
                LockForMark, MarkCommit, ConfirmRow, signupVars, TypeOK
  <2>5. createdAt'[s] = createdAt[s]
    BY <1>1, <2>1 DEF GoesOn, SignUpCommit, AssignCommit, CancelBegin, CancelCommit,
                JoinWaitlistBegin, JoinWaitlistCommit, LeaveWaitlistCommit, CheckinLock,
                LockForMark, MarkCommit, ConfirmRow, signupVars, stampVars, TypeOK
  <2> QED
    BY <2>2, <2>3, <2>4, <2>5
<1> QED
  BY <1>1, BookingKinds

LEMMA BookingAlone ==
  ASSUME TypeOK, NEW r \in Requests, BookingStep(r)
  PROVE  \A q \in Requests \ {r} : req'[q] = req[q]
<1>1. \E h : req' = [req EXCEPT ![r] = h]
  <2>1. ASSUME NEW s \in Shifts, NEW u \in Volunteers,
               \/ SignUpRead(r, s, u) \/ CancelRead(r, s, u) \/ JoinWaitlistRead(r, s, u)
               \/ LeaveWaitlistRead(r, s, u) \/ CheckinRead(r, s, u)
               \/ \E over \in BOOLEAN : AssignRead(r, s, u, over)
               \/ \E mark \in Recorded : StaffMark(r, s, u, mark)
        PROVE  \E h : req' = [req EXCEPT ![r] = h]
    BY <2>1 DEF SignUpRead, AssignRead, CancelRead, JoinWaitlistRead, LeaveWaitlistRead,
                CheckinRead, StaffMark, LockForMark, Start
  <2>2. CASE GoesOn(r)
    BY <2>2 DEF GoesOn, SignUpCommit, AssignCommit, CancelBegin, CancelCommit,
       JoinWaitlistBegin, JoinWaitlistCommit, LeaveWaitlistCommit, CheckinLock, LockForMark,
       MarkCommit, Finish
  <2>3. CASE Rollback(r)
    BY <2>3 DEF Rollback, Finish
  <2> QED
    BY <2>1, <2>2, <2>3 DEF BookingStep, GoesOn
<1> QED
  BY <1>1 DEF TypeOK

\* A request that starts reads its shift and its row; an attendance mark locks the row.
LEMMA NewRequests ==
  ASSUME TypeOK, NEW r \in Requests, BookingStep(r), ~GoesOn(r), InBooking(r)'
  PROVE  \/ \E t \in Shifts, u \in Volunteers, op \in SignupOps \ {"mark"} :
              /\ req'[r] = Reading(op, t, u) /\ op \in Ops
              /\ op = "signUp" => SignUpRead(r, t, u)
         \/ req'[r].op = "mark" /\ ("staffMark" \in Ops \/ "checkin" \in Ops)
<1>1. ASSUME NEW t \in Shifts, NEW u \in Volunteers,
             \/ SignUpRead(r, t, u) \/ CancelRead(r, t, u) \/ JoinWaitlistRead(r, t, u)
             \/ LeaveWaitlistRead(r, t, u) \/ \E over \in BOOLEAN : AssignRead(r, t, u, over)
      PROVE  \E op \in SignupOps \ {"mark"} :
               /\ req'[r] = Reading(op, t, u) /\ op \in Ops
               /\ op = "signUp" => SignUpRead(r, t, u)
  <2>1. ASSUME NEW op \in SignupOps \ {"mark"}, op \in Ops, Start(r, Reading(op, t, u)),
               op = "signUp" => SignUpRead(r, t, u)
        PROVE  \E o \in SignupOps \ {"mark"} :
                 /\ req'[r] = Reading(o, t, u) /\ o \in Ops
                 /\ o = "signUp" => SignUpRead(r, t, u)
    <3>1. req'[r] = Reading(op, t, u)
      BY <2>1 DEF Start, TypeOK
    <3> QED
      BY <2>1, <3>1
  <2>2. CASE SignUpRead(r, t, u)
    BY <2>1, <2>2 DEF SignUpRead, SignupOps
  <2>3. CASE CancelRead(r, t, u)
    BY <2>1, <2>3 DEF CancelRead, SignupOps
  <2>4. CASE JoinWaitlistRead(r, t, u)
    BY <2>1, <2>4 DEF JoinWaitlistRead, SignupOps
  <2>5. CASE LeaveWaitlistRead(r, t, u)
    BY <2>1, <2>5 DEF LeaveWaitlistRead, SignupOps
  <2>6. CASE \E over \in BOOLEAN : AssignRead(r, t, u, over)
    BY <2>1, <2>6 DEF AssignRead, SignupOps
  <2> QED
    BY <1>1, <2>2, <2>3, <2>4, <2>5, <2>6
<1>2. ASSUME NEW t \in Shifts, NEW u \in Volunteers,
             CheckinRead(r, t, u) \/ \E mark \in Recorded : StaffMark(r, t, u, mark)
      PROVE  req'[r].op = "mark" /\ ("staffMark" \in Ops \/ "checkin" \in Ops)
  BY <1>2 DEF CheckinRead, StaffMark, LockForMark, Start, Reading, TypeOK
<1>3. ~Rollback(r)
  BY DEF Rollback, Finish, InBooking, TypeOK
<1> QED
  BY <1>1, <1>2, <1>3 DEF BookingStep, GoesOn

\* A step about the roster moves no request about a shift.
LEMMA RosterAlone ==
  ASSUME TypeOK, RosterNext \/ \E r \in Requests : AddVolunteerCommit(r),
         NEW q \in Requests, InBooking(q) \/ InBooking(q)'
  PROVE  req'[q] = req[q]
<1>1. ASSUME NEW r \in Requests, NEW u \in Volunteers, AddVolunteerRead(r, u)
      PROVE  req'[q] = req[q]
  <2>1. req[r] = Idle /\ req'[r].op = "addVolunteer" /\ (q # r => req'[q] = req[q])
    BY <1>1 DEF AddVolunteerRead, Start, TypeOK
  <2> QED
    BY <2>1 DEF InBooking, SignupOps
<1>2. ASSUME NEW r \in Requests, AddVolunteerCommit(r)
      PROVE  req'[q] = req[q]
  <2>1. req[r].op = "addVolunteer" /\ req'[r] = Idle /\ (q # r => req'[q] = req[q])
    BY <1>2 DEF AddVolunteerCommit, At, Finish, TypeOK
  <2> QED
    BY <2>1 DEF InBooking, SignupOps
<1>3. ASSUME NEW u \in Volunteers, RemoveVolunteer(u) \/ LeaveOrg(u)
      PROVE  req'[q] = req[q]
  BY <1>3 DEF RemoveVolunteer, LeaveOrg
<1> QED
  BY <1>1, <1>2, <1>3 DEF RosterNext

LEMMA ReadSees ==
  ASSUME TypeOK, NEW s \in Shifts, SeatsRight(s), NEW r \in Requests, NEW u \in Volunteers,
         NEW op \in {"signUp", "cancel", "joinWaitlist", "leaveWaitlist"},
         req' = [req EXCEPT ![r] = Reading(op, s, u)], UNCHANGED <<status, capacity, signup>>,
         Exists(s),
         op = "signUp" => status[s] = "OPEN" /\ ~IsFull(s) /\ signup[s][u] # "CONFIRMED",
         op = "joinWaitlist" => IsFull(s),
         op = "leaveWaitlist" => signup[s][u] = "WAITLISTED",
         op = "cancel" => signup[s][u] \in {"CONFIRMED", "WAITLISTED"}
  PROVE  SeesSeats(r)'
<1>1. SeatsRight(s)
  OBVIOUS
<1>2. Cardinality(Confirmed(s)) \in Nat /\ capacity[s] \in Nat
  BY SeatCount
<1>3. req'[r] = Reading(op, s, u)
  BY DEF TypeOK
<1>4. PICK h : h = Reading(op, s, u)
  OBVIOUS
<1>5. /\ h.op = op /\ h.phase = "read" /\ h.shift = s /\ h.user = u
      /\ h.view.status = status[s] /\ h.view.capacity = capacity[s]
      /\ h.view.confirmed = Cardinality(Confirmed(s)) /\ h.view.own = signup[s][u]
  BY <1>4 DEF Reading, View
<1>6. Confirmed(s)' = Confirmed(s) /\ Waiting(s)' = Waiting(s)
  BY UntouchedShift
<1>7. ViewCurrent(h)'
  BY <1>1, <1>5, <1>6 DEF ViewCurrent, SeatsRight, IsFull
<1>8. ViewAgrees(h.view)'
  BY <1>1, <1>5 DEF ViewAgrees, SeatsRight
<1>9. ViewAllows(h)'
  BY <1>2, <1>5 DEF ViewAllows, IsFull, Exists
<1>10. SelectionCurrent(h)'
  BY <1>5 DEF SelectionCurrent
<1> QED
  BY <1>3, <1>4, <1>7, <1>8, <1>9, <1>10 DEF SeesSeats

\* A request that goes on in its transaction still sees what it saw.
LEMMA LockSees ==
  ASSUME TypeOK, NEW r \in Requests, InBooking(r), SeesSeats(r), NEW h,
         req' = [req EXCEPT ![r] = h], h # Idle,
         h.op = req[r].op, h.shift = req[r].shift, h.user = req[r].user, h.view = req[r].view,
         UNCHANGED <<status, capacity, signup>>, SelectionCurrent(h)'
  PROVE  SeesSeats(r)'
<1>1. PICK g \in SignupHandlers : g = req[r]
  BY HandlerOf
<1>2. req'[r] = h /\ g.shift \in Shifts
  BY <1>1 DEF TypeOK, SignupHandlers
<1>3. Confirmed(g.shift)' = Confirmed(g.shift) /\ Waiting(g.shift)' = Waiting(g.shift)
  BY <1>2, UntouchedShift
<1>4. ViewCurrent(g) => ViewCurrent(h)'
  BY <1>1, <1>3 DEF ViewCurrent
<1>5. ViewAgrees(h.view)' /\ ViewAllows(h)'
  BY <1>1 DEF SeesSeats, ViewAgrees, ViewAllows
<1>6. status[g.shift] = "DELETED" \/ ViewCurrent(g)
  BY <1>1 DEF SeesSeats
<1> QED
  BY <1>1, <1>2, <1>4, <1>5, <1>6 DEF SeesSeats

\* Beside a request about the shift: its row and its shift stay, but for the shift's end.
LEMMA BesideSees ==
  ASSUME TypeOK, NEW s \in Shifts, NEW r \in Requests, About(r, s), SeesSeats(r),
         req'[r] = req[r],
         status'[s] = status[s] \/ (Exists(s) /\ status'[s] \in Closed),
         capacity'[s] = capacity[s], signup'[s] = signup[s], createdAt'[s] = createdAt[s]
  PROVE  SeesSeats(r)'
<1>1. PICK h \in SignupHandlers : h = req[r]
  BY HandlerOf DEF About
<1>2. h.shift = s /\ req'[r] = h
  BY <1>1 DEF About
<1>3. Confirmed(s)' = Confirmed(s) /\ Waiting(s)' = Waiting(s)
  BY UntouchedShift
<1>4. status[s] = "DELETED" => status'[s] = "DELETED"
  BY DEF Exists, Active, Closed
<1>5. ViewCurrent(h) => ViewCurrent(h)'
  BY <1>2, <1>3 DEF ViewCurrent
<1>6. SelectionCurrent(h) => SelectionCurrent(h)'
  BY <1>2, <1>3 DEF SelectionCurrent, IsNextWaitlistEntry
<1>7. /\ ViewAgrees(h.view) /\ ViewAllows(h) /\ SelectionCurrent(h)
      /\ status[s] = "DELETED" \/ ViewCurrent(h)
  BY <1>1, <1>2 DEF About, SeesSeats
<1> QED
  BY <1>2, <1>4, <1>5, <1>6, <1>7 DEF SeesSeats, ViewAgrees, ViewAllows

\* A step that leaves the shift alone, or ends it, and no request about it moves.
LEMMA QuietKeepsSeats ==
  ASSUME TypeOK, NEW s \in Shifts, SeatsHold(s),
         \A r \in Requests : About(r, s) \/ About(r, s)' => req'[r] = req[r],
         status'[s] = status[s] \/ (Exists(s) /\ status'[s] \in Closed),
         capacity'[s] = capacity[s], signup'[s] = signup[s], createdAt'[s] = createdAt[s]
  PROVE  SeatsHold(s)'
<1>1. Confirmed(s)' = Confirmed(s) /\ Waiting(s)' = Waiting(s)
  BY UntouchedShift
<1>2. SeatsRight(s)'
  BY <1>1 DEF SeatsHold, SeatsRight, IsFull, Active, Closed
<1>3. ASSUME NEW r \in Requests, About(r, s)' PROVE SeesSeats(r)'
  <2>1. req'[r] = req[r] /\ About(r, s)
    BY <1>3 DEF About, InBooking
  <2> QED
    BY <2>1, BesideSees DEF SeatsHold
<1> QED
  BY <1>2, <1>3 DEF SeatsHold

\* The status of a shift becomes final.
Finalizes(s) ==
  /\ s \in Shifts
  /\ \A t \in Shifts : status'[t] = status[t] \/ (t = s /\ Exists(s) /\ status'[s] \in Closed)
  /\ UNCHANGED <<capacity, slot, signup, createdAt, req>>

\* A shift comes or goes: it has no rows afterwards.
Replaces(s) ==
  /\ s \in Shifts
  /\ \A t \in Shifts \ {s} :
       /\ status'[t] = status[t] /\ capacity'[t] = capacity[t]
       /\ slot'[t] = slot[t] /\ signup'[t] = signup[t] /\ createdAt'[t] = createdAt[t]
  /\ Confirmed(s)' = {} /\ Waiting(s)' = {}
  /\ \/ status[s] = "ABSENT" /\ status'[s] = "OPEN"
     \/ Exists(s) /\ status'[s] = "DELETED"
  /\ UNCHANGED req

LEMMA ReplacingKeepsSeats ==
  ASSUME TypeOK, TypeOK', NEW s \in Shifts, SeatsHold(s), Replaces(s),
         \A r \in Requests : About(r, s) /\ req[r].phase = "tx" => status[s] = "ABSENT"
  PROVE  SeatsHold(s)'
<1>1. SeatsRight(s)'
  <2>1. Cardinality(Confirmed(s))' = 0
    BY FS_EmptySet DEF Replaces
  <2>2. capacity'[s] \in Nat \ {0}
    BY CapacitiesAssumption DEF TypeOK
  <2> QED
    BY <2>1, <2>2 DEF SeatsRight, Replaces, Active
<1>2. ASSUME NEW r \in Requests, About(r, s)' PROVE SeesSeats(r)'
  <2>1. req' = req /\ About(r, s)
    BY <1>2 DEF About, InBooking, Replaces
  <2>2. PICK h \in SignupHandlers : h = req[r] /\ h.shift = s
    BY <2>1, HandlerOf DEF About
  <2>3. ViewAgrees(h.view) /\ ViewAllows(h) /\ (status[s] = "DELETED" \/ ViewCurrent(h))
    BY <2>1, <2>2 DEF SeesSeats, SeatsHold, About
  <2>4. status[s] # "ABSENT"
    BY <2>2, <2>3 DEF ViewCurrent, ViewAllows, Active, Closed
  <2>5. status'[s] = "DELETED" /\ h.phase # "tx"
    BY <2>1, <2>2, <2>4 DEF Replaces
  <2> QED
    BY <2>1, <2>2, <2>3, <2>5 DEF SeesSeats, ViewAgrees, ViewAllows, SelectionCurrent
<1> QED
  BY <1>1, <1>2 DEF SeatsHold

---------------------------------------------------------------------------
(* Every step.                                                             *)

SeatOps == AllOps \ {"assign", "updateShift", "staffMark", "checkin"}

LEMMA ReadIsAbout ==
  ASSUME TypeOK, NEW s \in Shifts, NEW r \in Requests, NEW t, NEW u, NEW op,
         Start(r, Reading(op, t, u)), About(r, s) \/ About(r, s)'
  PROVE  t = s /\ req' = [req EXCEPT ![r] = Reading(op, s, u)]
<1>1. ~About(r, s) /\ req'[r] = Reading(op, t, u)
  BY DEF Start, About, InBooking, TypeOK
<1>2. Reading(op, t, u).shift = t
  BY DEF Reading
<1> QED
  BY <1>1, <1>2 DEF Start, About

LEMMA BookingKeepsSeats ==
  ASSUME TypeOK, RowsHaveShift, LockedRowsExist, Ops \subseteq SeatOps,
         NEW s \in Shifts, SeatsRight(s), NEW r \in Requests, About(r, s) => SeesSeats(r),
         BookingStep(r), About(r, s) \/ About(r, s)'
  PROVE  SeatsRight(s)' /\ SeesSeats(r)'
<1> USE DEF shiftVars, signupVars, stampVars
<1>1. UNCHANGED <<status, capacity, signup>> => SeatsRight(s)'
  BY DEF SeatsRight, Confirmed, Waiting, IsFull
<1>2. ASSUME NEW t \in Shifts, NEW u \in Volunteers, SignUpRead(r, t, u)
      PROVE  SeatsRight(s)' /\ SeesSeats(r)'
  <2>1. t = s /\ req' = [req EXCEPT ![r] = Reading("signUp", s, u)]
    BY <1>2, ReadIsAbout DEF SignUpRead
  <2>2. /\ UNCHANGED <<status, capacity, signup>> /\ Exists(s)
        /\ status[s] = "OPEN" /\ ~IsFull(s) /\ signup[s][u] # "CONFIRMED"
    BY <1>2, <2>1 DEF SignUpRead, ValidateSignup, Active
  <2> QED
    BY <1>1, <2>1, <2>2, ReadSees
<1>3. ASSUME NEW t \in Shifts, NEW u \in Volunteers, CancelRead(r, t, u)
      PROVE  SeatsRight(s)' /\ SeesSeats(r)'
  <2>1. t = s /\ req' = [req EXCEPT ![r] = Reading("cancel", s, u)]
    BY <1>3, ReadIsAbout DEF CancelRead
  <2>2. /\ UNCHANGED <<status, capacity, signup>>
        /\ signup[s][u] \in {"CONFIRMED", "WAITLISTED"}
    BY <1>3, <2>1 DEF CancelRead
  <2>3. Exists(s)
    BY <2>2 DEF RowsHaveShift, Rows
  <2> QED
    BY <1>1, <2>1, <2>2, <2>3, ReadSees
<1>4. ASSUME NEW t \in Shifts, NEW u \in Volunteers, JoinWaitlistRead(r, t, u)
      PROVE  SeatsRight(s)' /\ SeesSeats(r)'
  <2>1. t = s /\ req' = [req EXCEPT ![r] = Reading("joinWaitlist", s, u)]
    BY <1>4, ReadIsAbout DEF JoinWaitlistRead
  <2>2. UNCHANGED <<status, capacity, signup>> /\ Exists(s) /\ IsFull(s)
    BY <1>4, <2>1 DEF JoinWaitlistRead, ValidateWaitlistJoin
  <2> QED
    BY <1>1, <2>1, <2>2, ReadSees
<1>5. ASSUME NEW t \in Shifts, NEW u \in Volunteers, LeaveWaitlistRead(r, t, u)
      PROVE  SeatsRight(s)' /\ SeesSeats(r)'
  <2>1. t = s /\ req' = [req EXCEPT ![r] = Reading("leaveWaitlist", s, u)]
    BY <1>5, ReadIsAbout DEF LeaveWaitlistRead
  <2>2. UNCHANGED <<status, capacity, signup>> /\ signup[s][u] = "WAITLISTED"
    BY <1>5, <2>1 DEF LeaveWaitlistRead
  <2>3. Exists(s)
    BY <2>2 DEF RowsHaveShift, Rows
  <2> QED
    BY <1>1, <2>1, <2>2, <2>3, ReadSees
<1>6. ASSUME NEW t \in Shifts, NEW u \in Volunteers,
             \/ \E over \in BOOLEAN : AssignRead(r, t, u, over)
             \/ \E mark \in Recorded : StaffMark(r, t, u, mark)
             \/ CheckinRead(r, t, u)
      PROVE  FALSE
  BY <1>6 DEF AssignRead, StaffMark, CheckinRead, SeatOps
<1>7. GoesOn(r) => About(r, s)
  BY GoesOnAbout DEF About
<1>8. CASE AssignCommit(r) \/ CheckinLock(r) \/ MarkCommit(r)
  <2>1. InBooking(r) /\ req[r].op \in {"assign", "mark"}
    BY <1>8 DEF AssignCommit, CheckinLock, MarkCommit, At, InBooking, Idle, SignupOps
  <2> QED
    BY <1>7, <1>8, <2>1 DEF GoesOn, SeesSeats, ViewAllows
<1>9. CASE SignUpCommit(r)
  BY <1>7, <1>9, SignUpKeepsSeats, FinishedSees DEF GoesOn, SignUpCommit
<1>10. CASE LeaveWaitlistCommit(r)
  BY <1>7, <1>10, LeaveKeepsSeats, FinishedSees DEF GoesOn, LeaveWaitlistCommit
<1>11. CASE JoinWaitlistCommit(r)
  BY <1>7, <1>11, JoinKeepsSeats, FinishedSees DEF GoesOn, JoinWaitlistCommit
<1>12. CASE CancelCommit(r)
  BY <1>7, <1>12, CancelKeepsSeats, FinishedSees DEF GoesOn, CancelCommit
<1>13. CASE CancelBegin(r)
  <2>1. InBooking(r) /\ req[r].op = "cancel"
    BY <1>13 DEF CancelBegin, At, InBooking, Idle, SignupOps
  <2>2. PICK g \in SignupHandlers : g = req[r]
    BY <2>1, HandlerOf
  <2>3. PICK next \in Volunteers \cup {NoOne} :
          /\ IF g.view.own = "CONFIRMED" THEN IsNextWaitlistEntry(next, g.shift, g.user)
                                         ELSE next = NoOne
          /\ req' = [req EXCEPT ![r] = [g EXCEPT !.phase = "tx", !.next = next]]
    BY <1>13, <2>2 DEF CancelBegin
  <2>4. PICK h : h = [g EXCEPT !.phase = "tx", !.next = next]
    OBVIOUS
  <2>5. /\ h.op = g.op /\ h.shift = g.shift /\ h.user = g.user /\ h.view = g.view
        /\ h.next = next /\ h.phase = "tx" /\ h # Idle
    BY <2>4 DEF SignupHandlers, Idle
  <2>6. UNCHANGED <<status, capacity, signup, createdAt>>
    BY <1>13 DEF CancelBegin
  <2>7. SelectionCurrent(h)'
    BY <2>3, <2>5, <2>6 DEF SelectionCurrent, IsNextWaitlistEntry, Waiting
  <2> QED
    BY <1>1, <1>7, <1>13, <2>1, <2>2, <2>3, <2>4, <2>5, <2>6, <2>7, LockSees DEF GoesOn
<1>14. CASE JoinWaitlistBegin(r)
  <2>1. InBooking(r) /\ req[r].op = "joinWaitlist"
    BY <1>14 DEF JoinWaitlistBegin, At, InBooking, Idle, SignupOps
  <2>2. PICK g \in SignupHandlers : g = req[r]
    BY <2>1, HandlerOf
  <2>3. req' = [req EXCEPT ![r] = [g EXCEPT !.phase = "tx", !.at = now]]
    BY <1>14, <2>2 DEF JoinWaitlistBegin
  <2>4. PICK h : h = [g EXCEPT !.phase = "tx", !.at = now]
    OBVIOUS
  <2>5. /\ h.op = g.op /\ h.shift = g.shift /\ h.user = g.user /\ h.view = g.view /\ h # Idle
    BY <2>4 DEF SignupHandlers, Idle
  <2>6. UNCHANGED <<status, capacity, signup>>
    BY <1>14 DEF JoinWaitlistBegin
  <2>7. SelectionCurrent(h)'
    BY <2>1, <2>2, <2>5 DEF SelectionCurrent
  <2> QED
    BY <1>1, <1>7, <1>14, <2>1, <2>2, <2>3, <2>4, <2>5, <2>6, <2>7, LockSees DEF GoesOn
<1>15. CASE Rollback(r)
  BY <1>1, <1>15, FinishedSees DEF Rollback
<1> QED
  BY <1>2, <1>3, <1>4, <1>5, <1>6, <1>8, <1>9, <1>10, <1>11, <1>12, <1>13, <1>14, <1>15
     DEF BookingStep

\* What coordinators and the auto-close job do to a shift.
LEMMA ShiftStepKinds ==
  ASSUME TypeOK, RowsHaveShift, "updateShift" \notin Ops, ShiftNext
  PROVE  \/ \E s \in Shifts : Finalizes(s)
         \/ \E s \in Shifts :
              /\ Replaces(s)
              /\ status[s] = "ABSENT" \/ \A u \in Volunteers : RowFree(s, u)
         \/ UNCHANGED <<status, capacity, slot, signup, createdAt, req>>
<1> USE DEF shiftVars, signupVars, stampVars
<1>1. PICK s \in Shifts :
        \/ \E c \in Capacities, start, end \in Times : CreateShift(s, c, start, end)
        \/ \E c \in Capacities, start, end \in Times : UpdateShift(s, c, start, end)
        \/ CancelShift(s) \/ CompleteShift(s) \/ RemoveShift(s)
        \/ CronClose(s) \/ CronSkip(s)
  BY DEF ShiftNext
<1>2. ~\E c \in Capacities, start, end \in Times : UpdateShift(s, c, start, end)
  BY DEF UpdateShift
<1>3. ASSUME NEW c \in Capacities, NEW start \in Times, NEW end \in Times,
             CreateShift(s, c, start, end)
      PROVE  Replaces(s) /\ status[s] = "ABSENT"
  <2>1. Rows(s) = {}
    BY <1>3 DEF CreateShift, RowsHaveShift, Exists, Active, Closed
  <2>2. signup' = signup /\ Confirmed(s) = {} /\ Waiting(s) = {}
    BY <1>3, <2>1 DEF CreateShift, Confirmed, Waiting, Rows
  <2>3. Confirmed(s)' = {} /\ Waiting(s)' = {}
    BY <2>2, UntouchedShift
  <2> QED
    BY <1>3, <2>3 DEF CreateShift, Replaces, TypeOK
<1>4. ASSUME CancelShift(s) PROVE Finalizes(s)
  BY <1>4 DEF CancelShift, Finalizes, TypeOK, Closed
<1>5. ASSUME CompleteShift(s) \/ CronClose(s) PROVE Finalizes(s)
  BY <1>5 DEF CompleteShift, CronClose, Completed, Finalizes, TypeOK, Closed, Exists
<1>6. ASSUME RemoveShift(s)
      PROVE  Replaces(s) /\ \A u \in Volunteers : RowFree(s, u)
  <2>1. signup'[s] = [u \in Volunteers |-> "NONE"]
    BY <1>6 DEF RemoveShift, TypeOK
  <2>2. Confirmed(s)' = {} /\ Waiting(s)' = {}
    BY <2>1 DEF Confirmed, Waiting
  <2> QED
    BY <1>6, <2>2 DEF RemoveShift, Replaces, TypeOK
<1>7. ASSUME CronSkip(s) PROVE UNCHANGED <<status, capacity, slot, signup, createdAt, req>>
  BY <1>7 DEF CronSkip
<1> QED
  BY <1>1, <1>2, <1>3, <1>4, <1>5, <1>6, <1>7

LEMMA RemovedIsUnlocked ==
  ASSUME TypeOK, NEW r \in Requests, NEW s \in Shifts, \A u \in Volunteers : RowFree(s, u),
         InBooking(r), req[r].phase = "tx"
  PROVE  req[r].shift # s
<1>1. PICK h \in SignupHandlers : h = req[r]
  BY HandlerOf
<1>2. h.user \in Volunteers
  BY DEF SignupHandlers
<1> QED
  BY <1>1, <1>2 DEF RowFree

LEMMA SeatsStep ==
  ASSUME Ops \subseteq SeatOps, TypeOK, TypeOK', RowsHaveShift, LockedRowsExist,
         NEW s \in Shifts, ApartOn(s), ApartOn(s)', SeatsHold(s), [Next]_vars
  PROVE  SeatsHold(s)'
<1> USE DEF shiftVars, signupVars, stampVars
<1>1. ASSUME NEW r \in Requests, BookingStep(r) PROVE SeatsHold(s)'
  <2>1. \A q \in Requests \ {r} : req'[q] = req[q] /\ (About(q, s)' <=> About(q, s))
    BY <1>1, BookingAlone DEF About, InBooking
  <2>2. CASE About(r, s) \/ About(r, s)'
    <3>1. SeatsRight(s)' /\ SeesSeats(r)'
      BY <1>1, <2>2, BookingKeepsSeats DEF SeatsHold
    <3>2. \A q \in Requests : About(q, s)' => q = r
      BY <2>1, <2>2 DEF ApartOn
    <3> QED
      BY <3>1, <3>2 DEF SeatsHold
  <2>3. CASE ~About(r, s) /\ ~About(r, s)'
    <3>1. /\ capacity'[s] = capacity[s] /\ status'[s] = status[s]
          /\ signup'[s] = signup[s] /\ createdAt'[s] = createdAt[s]
      BY <1>1, <2>3, BookingElsewhere
    <3>2. \A q \in Requests : About(q, s) \/ About(q, s)' => req'[q] = req[q]
      BY <2>1, <2>3
    <3> QED
      BY <3>1, <3>2, QuietKeepsSeats
  <2> QED
    BY <2>2, <2>3
<1>2. CASE RosterNext \/ \E r \in Requests : AddVolunteerCommit(r)
  <2>1. UNCHANGED <<status, capacity, signup, createdAt>>
    BY <1>2 DEF RosterNext, AddVolunteerRead, AddVolunteerCommit, RemoveVolunteer, LeaveOrg
  <2>2. \A r \in Requests : About(r, s) \/ About(r, s)' => req'[r] = req[r]
    BY <1>2, RosterAlone DEF About
  <2> QED
    BY <2>1, <2>2, QuietKeepsSeats
<1>3. CASE ShiftNext
  <2>1. ASSUME NEW t \in Shifts, Finalizes(t) PROVE SeatsHold(s)'
    BY <2>1, QuietKeepsSeats DEF Finalizes
  <2>2. ASSUME NEW t \in Shifts, Replaces(t), t # s PROVE SeatsHold(s)'
    BY <2>2, QuietKeepsSeats DEF Replaces
  <2>3. ASSUME Replaces(s), status[s] = "ABSENT" \/ \A u \in Volunteers : RowFree(s, u)
        PROVE  SeatsHold(s)'
    <3>1. \A r \in Requests : About(r, s) /\ req[r].phase = "tx" => status[s] = "ABSENT"
      BY <2>3, RemovedIsUnlocked DEF About
    <3> QED
      BY <2>3, <3>1, ReplacingKeepsSeats
  <2>4. CASE UNCHANGED <<status, capacity, slot, signup, createdAt, req>>
    BY <2>4, QuietKeepsSeats
  <2> QED
    BY <1>3, <2>1, <2>2, <2>3, <2>4, ShiftStepKinds DEF SeatOps
<1>4. CASE CronScan \/ Tick \/ UNCHANGED vars
  <2>1. UNCHANGED <<status, capacity, signup, createdAt, req>>
    BY <1>4 DEF CronScan, Tick, vars
  <2> QED
    BY <2>1, QuietKeepsSeats
<1> QED
  BY <1>1, <1>2, <1>3, <1>4 DEF Next

LEMMA InitSeats ==
  ASSUME Init, NEW s \in Shifts
  PROVE  SeatsHold(s)
BY DEF Init, SeatsHold, SeatsRight, About, InBooking, Active

\* The strengthening behind the theorems below, shift by shift: while requests about a shift
\* do not overlap, whatever other requests do, the shift has its seats right and what the
\* request about it has read still holds.
THEOREM SeatsOfShift ==
  ASSUME NEW s \in Shifts, Ops \subseteq SeatOps
  PROVE  Spec /\ []ApartOn(s) => []SeatsHold(s)
<1>1. /\ Init => SeatsHold(s)
      /\ TypeOK /\ TypeOK' /\ BookingInv /\ LockInv /\ ApartOn(s) /\ ApartOn(s)' /\ SeatsHold(s)
           /\ [Next]_vars => SeatsHold(s)'
  BY InitSeats, SeatsStep DEF BookingInv, LockInv
<1> QED
  BY <1>1, TypeCorrect, BookingInvariant, LockInvariant, PTL DEF Spec

\* Requests that overlap are about different shifts.
Apart == \A s \in Shifts : ApartOn(s)

AllSeatsHold == \A s \in Shifts : SeatsHold(s)

\* One request at a time is a special case.
LEMMA OneRequestIsApart ==
  ASSUME NEW q, Requests = {q}
  PROVE  Apart
BY DEF Apart, ApartOn

THEOREM ApartSeats ==
  ASSUME Ops \subseteq SeatOps
  PROVE  Spec /\ []Apart => []AllSeatsHold
<1>1. /\ Init => AllSeatsHold
      /\ TypeOK /\ TypeOK' /\ BookingInv /\ LockInv /\ Apart /\ Apart' /\ AllSeatsHold
           /\ [Next]_vars => AllSeatsHold'
  BY InitSeats, SeatsStep DEF BookingInv, LockInv, Apart, AllSeatsHold
<1> QED
  BY <1>1, TypeCorrect, BookingInvariant, LockInvariant, PTL DEF Spec

\* Shift.status, the number of confirmed volunteers and the capacity agree on every active
\* shift, as long as requests about one shift do not overlap, nobody is assigned beyond the
\* capacity and neither capacity nor attendance is edited (signUpForShift, cancelSignup).
THEOREM ApartSeatsAgree ==
  ASSUME Ops \subseteq SeatOps
  PROVE  Spec /\ []Apart => []SeatsAgree
<1>1. AllSeatsHold => SeatsAgree
  BY DEF AllSeatsHold, SeatsHold, SeatsRight, SeatsAgree
<1> QED
  BY <1>1, ApartSeats, PTL

\* Nor does anybody wait beside a free seat then (joinWaitlist, cancelSignup).
THEOREM ApartNobodyWaits ==
  ASSUME Ops \subseteq SeatOps
  PROVE  Spec /\ []Apart => []NobodyWaitsBesideFreeSeat
<1>1. AllSeatsHold => NobodyWaitsBesideFreeSeat
  BY DEF AllSeatsHold, SeatsHold, SeatsRight, NobodyWaitsBesideFreeSeat
<1> QED
  BY <1>1, ApartSeats, PTL

\* And a cancellation that finds somebody waiting passes its seat on (cancelSignup,
\* docs/DOMAIN.md:417).
THEOREM ApartSeatPassedOn ==
  ASSUME Ops \subseteq SeatOps
  PROVE  Spec /\ []Apart => CancelledSeatIsPassedOn
<1>1. ASSUME TypeOK, BookingInv, LockInv, AllSeatsHold,
             NEW r \in Requests, CancelCommit(r),
             signup[req[r].shift][req[r].user] = "CONFIRMED", Waiting(req[r].shift) # {}
      PROVE  Cardinality({v \in Volunteers : signup'[req[r].shift][v] = "CONFIRMED"})
               = Cardinality(Confirmed(req[r].shift))
  <2>1. PICK s \in Shifts : s = req[r].shift /\ About(r, s)
    BY <1>1, GoesOnAbout DEF GoesOn, SignupHandlers, About
  <2>2. SeatsRight(s) /\ SeesSeats(r)
    BY <1>1, <2>1 DEF AllSeatsHold, SeatsHold
  <2>3. Cardinality(Confirmed(s))' = Cardinality(Confirmed(s))
    BY <1>1, <2>1, <2>2, CancelKeepsSeats DEF BookingInv, LockInv
  <2>4. Confirmed(s)' = {v \in Volunteers : signup'[s][v] = "CONFIRMED"}
    BY DEF Confirmed
  <2> QED
    BY <2>1, <2>3, <2>4
<1>2. TypeOK /\ BookingInv /\ LockInv /\ AllSeatsHold =>
        \A r \in Requests :
          CancelCommit(r) =>
            LET s == req[r].shift
                u == req[r].user
            IN  signup[s][u] = "CONFIRMED" /\ Waiting(s) # {} =>
                  Cardinality({v \in Volunteers : signup'[s][v] = "CONFIRMED"})
                    = Cardinality(Confirmed(s))
  BY <1>1
<1>3. Spec /\ []Apart => [](TypeOK /\ BookingInv /\ LockInv /\ AllSeatsHold)
  BY ApartSeats, TypeCorrect, BookingInvariant, LockInvariant, PTL
<1> QED
  BY <1>2, <1>3, PTL DEF CancelledSeatIsPassedOn

---------------------------------------------------------------------------
(* Seats as a ledger hands them out: SeatLedger.                           *)

\* Nobody has joined the waitlist since the request that joins it has.
JoinsLast(s) ==
  \A r \in Requests :
    About(r, s) /\ At(r, "tx", "joinWaitlist") =>
      \A u \in Volunteers : createdAt[s][u] <= req[r].at

LEMMA InitJoins ==
  ASSUME Init, NEW s \in Shifts
  PROVE  JoinsLast(s)
BY DEF Init, JoinsLast, About, InBooking

LEMMA JoinsStep ==
  ASSUME Ops \subseteq SeatOps, TypeOK, StampsPast, RowsHaveShift, NEW s \in Shifts,
         ApartOn(s), ApartOn(s)', JoinsLast(s), [Next]_vars
  PROVE  JoinsLast(s)'
<1> USE DEF shiftVars, signupVars, stampVars
<1>1. ASSUME createdAt'[s] = createdAt[s],
             \A q \in Requests : About(q, s) \/ About(q, s)' => req'[q] = req[q]
      PROVE  JoinsLast(s)'
  BY <1>1 DEF JoinsLast, About, InBooking, At
<1>2. ASSUME NEW r \in Requests, BookingStep(r) PROVE JoinsLast(s)'
  <2>1. \A q \in Requests \ {r} : req'[q] = req[q] /\ (About(q, s)' <=> About(q, s))
    BY <1>2, BookingAlone DEF About, InBooking
  <2>2. CASE ~About(r, s) /\ ~About(r, s)'
    BY <1>1, <1>2, <2>1, <2>2, BookingElsewhere
  <2>3. CASE About(r, s) \/ About(r, s)'
    <3>1. \A q \in Requests : About(q, s)' => q = r
      BY <2>1, <2>3 DEF ApartOn
    <3>2. ASSUME About(r, s)', (At(r, "tx", "joinWaitlist"))'
          PROVE  \A u \in Volunteers : createdAt'[s][u] <= req'[r].at
      <4>1. JoinWaitlistBegin(r)
        <5>1. CASE GoesOn(r)
          <6>1. InBooking(r)' /\ req[r].op = "joinWaitlist" /\ req'[r] # Idle
            BY <3>2, <5>1, GoesOnAbout DEF About, InBooking, At
          <6>2. ~JoinWaitlistCommit(r)
            BY <6>1 DEF JoinWaitlistCommit, Finish, TypeOK
          <6> QED
            BY <5>1, <6>1, <6>2 DEF GoesOn, SignUpCommit, AssignCommit, CancelBegin, CancelCommit,
               LeaveWaitlistCommit, CheckinLock, MarkCommit, At
        <5>2. CASE ~GoesOn(r)
          <6>1. InBooking(r)' /\ req'[r].op = "joinWaitlist" /\ req'[r].phase = "tx"
            BY <3>2 DEF About, At
          <6>2. PICK t \in Shifts, u \in Volunteers, op \in SignupOps \ {"mark"} :
                  req'[r] = Reading(op, t, u)
            BY <1>2, <5>2, <6>1, NewRequests
          <6> QED
            BY <6>1, <6>2 DEF Reading
        <5> QED
          BY <5>1, <5>2
      <4>2. PICK h \in SignupHandlers : h = req[r]
        BY <4>1, GoesOnAbout DEF GoesOn
      <4>3. req'[r] = [h EXCEPT !.phase = "tx", !.at = now] /\ createdAt' = createdAt
        BY <4>1, <4>2 DEF JoinWaitlistBegin, TypeOK
      <4>4. req'[r].at = now
        BY <4>3 DEF SignupHandlers
      <4>5. \A u \in Volunteers : createdAt[s][u] <= now
        BY DEF StampsPast, TypeOK
      <4> QED
        BY <4>3, <4>4, <4>5
    <3> QED
      BY <3>1, <3>2 DEF JoinsLast
  <2> QED
    BY <2>2, <2>3
<1>3. CASE RosterNext \/ \E r \in Requests : AddVolunteerCommit(r)
  <2>1. createdAt' = createdAt
    BY <1>3 DEF RosterNext, AddVolunteerRead, AddVolunteerCommit, RemoveVolunteer, LeaveOrg
  <2>2. \A r \in Requests : About(r, s) \/ About(r, s)' => req'[r] = req[r]
    BY <1>3, RosterAlone DEF About
  <2> QED
    BY <1>1, <2>1, <2>2
<1>4. CASE ShiftNext
  <2>1. ASSUME NEW t \in Shifts, Finalizes(t) PROVE JoinsLast(s)'
    BY <1>1, <2>1 DEF Finalizes
  <2>2. ASSUME NEW t \in Shifts, Replaces(t), t # s PROVE JoinsLast(s)'
    BY <1>1, <2>2 DEF Replaces
  <2>3. ASSUME Replaces(s), status[s] = "ABSENT" \/ \A u \in Volunteers : RowFree(s, u)
        PROVE  JoinsLast(s)'
    <3>1. ASSUME NEW r \in Requests, About(r, s), At(r, "tx", "joinWaitlist") PROVE FALSE
      <4>1. status[s] # "ABSENT"
        BY <3>1 DEF RowsHaveShift, About, Exists, Active, Closed
      <4> QED
        BY <2>3, <3>1, <4>1, RemovedIsUnlocked DEF About, At
    <3> QED
      BY <2>3, <3>1 DEF JoinsLast, About, InBooking, At, Replaces
  <2>4. ASSUME UNCHANGED <<status, capacity, slot, signup, createdAt, req>> PROVE JoinsLast(s)'
    BY <1>1, <2>4
  <2> QED
    BY <1>4, <2>1, <2>2, <2>3, <2>4, ShiftStepKinds DEF SeatOps
<1>5. CASE CronScan \/ Tick \/ UNCHANGED vars
  BY <1>1, <1>5 DEF CronScan, Tick, vars
<1> QED
  BY <1>2, <1>3, <1>4, <1>5 DEF Next

\* Of one shift, all a ledger knows.
SameSeats(s) ==
  /\ Exists(s)' <=> Exists(s)
  /\ Confirmed(s)' = Confirmed(s)
  /\ WaitingSince(s)' = WaitingSince(s)

LEMMA RowsAsBefore ==
  ASSUME NEW s \in Shifts, signup'[s] = signup[s], createdAt'[s] = createdAt[s]
  PROVE  Confirmed(s)' = Confirmed(s) /\ WaitingSince(s)' = WaitingSince(s)
BY DEF Confirmed, WaitingSince, Waiting

LEMMA LedgerStays ==
  ASSUME capacity' = capacity, \A s \in Shifts : SameSeats(s)
  PROVE  UNCHANGED Ledger!vars
BY DEF SameSeats, Ledger!vars

LEMMA LedgerTakes ==
  ASSUME NEW s \in Shifts, NEW u \in Volunteers, capacity' = capacity,
         \A t \in Shifts \ {s} : SameSeats(t), Exists(s), Exists(s)',
         u \notin Confirmed(s) \cup Waiting(s), ~IsFull(s),
         Cardinality(Confirmed(s)) \in Nat, capacity[s] \in Nat,
         Confirmed(s)' = Confirmed(s) \cup {u}, WaitingSince(s)' = WaitingSince(s)
  PROVE  Ledger!Take(s, u)
<1>1. {t \in Shifts : Exists(t)}' = {t \in Shifts : Exists(t)}
  BY DEF SameSeats
<1>2. [t \in Shifts |-> WaitingSince(t)]' = [t \in Shifts |-> WaitingSince(t)]
  BY DEF SameSeats
<1>3. [t \in Shifts |-> Confirmed(t)]'
        = [[t \in Shifts |-> Confirmed(t)] EXCEPT ![s] = @ \cup {u}]
  BY DEF SameSeats
<1>4. DOMAIN WaitingSince(s) = Waiting(s)
  BY DEF WaitingSince
<1>5. s \in {t \in Shifts : Exists(t)} /\ Cardinality(Confirmed(s)) < capacity[s]
  BY DEF IsFull
<1>6. /\ [t \in Shifts |-> Confirmed(t)][s] = Confirmed(s)
      /\ [t \in Shifts |-> WaitingSince(t)][s] = WaitingSince(s)
  OBVIOUS
<1> QED
  BY <1>1, <1>2, <1>3, <1>4, <1>5, <1>6 DEF Ledger!Take, Ledger!Waiting, Ledger!HasFreeSeat, Ledger!Cardinality, Cardinality

LEMMA LedgerJoins ==
  ASSUME TypeOK, TypeOK', NEW s \in Shifts, NEW u \in Volunteers, capacity' = capacity,
         \A t \in Shifts \ {s} : SameSeats(t), Exists(s), Exists(s)',
         u \notin Confirmed(s) \cup Waiting(s), IsFull(s),
         Confirmed(s)' = Confirmed(s), Waiting(s)' = Waiting(s) \cup {u},
         \A v \in Waiting(s) : createdAt'[s][v] = createdAt[s][v]
                               /\ createdAt[s][v] <= createdAt'[s][u]
  PROVE  Ledger!Join(s, u)
<1> DEFINE q == [t \in Shifts |-> WaitingSince(t)]
<1>1. {t \in Shifts : Exists(t)}' = {t \in Shifts : Exists(t)}
  BY DEF SameSeats
<1>2. [t \in Shifts |-> Confirmed(t)]' = [t \in Shifts |-> Confirmed(t)]
  BY DEF SameSeats
<1>3. q' = [q EXCEPT ![s] = q'[s]]
  BY DEF SameSeats
<1>4. DOMAIN q[s] = Waiting(s) /\ \A v \in Waiting(s) : q[s][v] = createdAt[s][v]
  BY DEF WaitingSince
<1>5. q'[s] = [v \in Waiting(s) \cup {u} |-> createdAt'[s][v]]
  BY DEF WaitingSince
<1>6. q'[s] \in [Waiting(s) \cup {u} -> Nat]
  BY <1>5 DEF Waiting, TypeOK
<1>7. \A v \in Waiting(s) : q'[s][v] = q[s][v] /\ q[s][v] <= q'[s][u]
  BY <1>4, <1>5
<1>8. Cardinality(Confirmed(s)) \in Nat /\ capacity[s] \in Nat
  BY SeatCount
<1> HIDE DEF q
<1>9. s \in {t \in Shifts : Exists(t)} /\ ~(Cardinality(Confirmed(s)) < capacity[s])
  BY <1>8 DEF IsFull
<1>10. [t \in Shifts |-> Confirmed(t)][s] = Confirmed(s)
  OBVIOUS
<1> QED
  BY <1>1, <1>2, <1>3, <1>4, <1>6, <1>7, <1>9, <1>10
     DEF Ledger!Join, Ledger!Waiting, Ledger!HasFreeSeat, Ledger!Cardinality, Cardinality, q

LEMMA LedgerLeaves ==
  ASSUME NEW s \in Shifts, NEW u \in Waiting(s), capacity' = capacity,
         \A t \in Shifts \ {s} : SameSeats(t), Exists(s), Exists(s)',
         Confirmed(s)' = Confirmed(s), Waiting(s)' = Waiting(s) \ {u},
         createdAt'[s] = createdAt[s]
  PROVE  Ledger!Leave(s, u)
<1>1. {t \in Shifts : Exists(t)}' = {t \in Shifts : Exists(t)}
  BY DEF SameSeats
<1>2. [t \in Shifts |-> Confirmed(t)]' = [t \in Shifts |-> Confirmed(t)]
  BY DEF SameSeats
<1>3. WaitingSince(s)' = [v \in Waiting(s) \ {u} |-> WaitingSince(s)[v]]
  BY DEF WaitingSince
<1>4. DOMAIN WaitingSince(s) = Waiting(s)
  BY DEF WaitingSince
<1>5. [t \in Shifts |-> WaitingSince(t)]' =
        [[t \in Shifts |-> WaitingSince(t)] EXCEPT ![s] =
           [v \in Waiting(s) \ {u} |-> WaitingSince(s)[v]]]
  BY <1>3 DEF SameSeats
<1> QED
  BY <1>1, <1>2, <1>4, <1>5 DEF Ledger!Leave, Ledger!QueueWithout, Ledger!Waiting

LEMMA LedgerGivesUp ==
  ASSUME NEW s \in Shifts, NEW u \in Confirmed(s), capacity' = capacity,
         \A t \in Shifts \ {s} : SameSeats(t), Exists(s), Exists(s)', Waiting(s) = {},
         Confirmed(s)' = Confirmed(s) \ {u}, WaitingSince(s)' = WaitingSince(s)
  PROVE  Ledger!GiveUp(s, u)
<1>1. {t \in Shifts : Exists(t)}' = {t \in Shifts : Exists(t)}
  BY DEF SameSeats
<1>2. [t \in Shifts |-> WaitingSince(t)]' = [t \in Shifts |-> WaitingSince(t)]
  BY DEF SameSeats
<1>3. [t \in Shifts |-> Confirmed(t)]'
        = [[t \in Shifts |-> Confirmed(t)] EXCEPT ![s] = @ \ {u}]
  BY DEF SameSeats
<1>4. DOMAIN WaitingSince(s) = Waiting(s)
  BY DEF WaitingSince
<1> QED
  BY <1>1, <1>2, <1>3, <1>4 DEF Ledger!GiveUp, Ledger!Waiting

LEMMA LedgerPassesOn ==
  ASSUME NEW s \in Shifts, NEW u \in Confirmed(s), NEW next \in Waiting(s), capacity' = capacity,
         \A t \in Shifts \ {s} : SameSeats(t), Exists(s), Exists(s)',
         \A v \in Waiting(s) : createdAt[s][next] <= createdAt[s][v],
         Confirmed(s)' = (Confirmed(s) \ {u}) \cup {next},
         Waiting(s)' = Waiting(s) \ {next}, createdAt'[s] = createdAt[s]
  PROVE  Ledger!PassOn(s, u, next)
<1>1. {t \in Shifts : Exists(t)}' = {t \in Shifts : Exists(t)}
  BY DEF SameSeats
<1>2. [t \in Shifts |-> Confirmed(t)]'
        = [[t \in Shifts |-> Confirmed(t)] EXCEPT ![s] = (@ \ {u}) \cup {next}]
  BY DEF SameSeats
<1>3. WaitingSince(s)' = [v \in Waiting(s) \ {next} |-> WaitingSince(s)[v]]
  BY DEF WaitingSince
<1>4. /\ DOMAIN WaitingSince(s) = Waiting(s)
      /\ \A v \in Waiting(s) : WaitingSince(s)[next] <= WaitingSince(s)[v]
  BY DEF WaitingSince
<1>5. [t \in Shifts |-> WaitingSince(t)]' =
        [[t \in Shifts |-> WaitingSince(t)] EXCEPT ![s] =
           [v \in Waiting(s) \ {next} |-> WaitingSince(s)[v]]]
  BY <1>3 DEF SameSeats
<1> QED
  BY <1>1, <1>2, <1>4, <1>5
     DEF Ledger!PassOn, Ledger!First, Ledger!QueueWithout, Ledger!Waiting

\* The commits of a request that is alone with its shift.
LEMMA SignUpIsLedger ==
  ASSUME TypeOK, RowsHaveShift, NEW s \in Shifts, NEW r \in Requests, About(r, s), SeesSeats(r),
         SignUpCommit(r), capacity' = capacity, \A t \in Shifts \ {s} : SameSeats(t)
  PROVE  \E u \in Volunteers : Ledger!Take(s, u)
<1>1. InBooking(r) /\ req[r].op = "signUp"
  BY DEF SignUpCommit, At, About
<1>2. PICK h \in SignupHandlers : h = req[r]
  BY <1>1, HandlerOf
<1>3. PICK u \in Volunteers : u = h.user /\ s = h.shift
  BY <1>2 DEF About, SignupHandlers
<1>4. Exists(s)
  BY <1>2, <1>3 DEF SignUpCommit, BookingWritable
<1>5. ViewCurrent(h) /\ ViewAllows(h)
  BY <1>1, <1>2, <1>3, <1>4, RowKeepsView DEF SeesSeats
<1>6. /\ h.view.confirmed < h.view.capacity /\ signup[s][u] # "CONFIRMED"
      /\ capacity[s] = h.view.capacity /\ Cardinality(Confirmed(s)) = h.view.confirmed
      /\ Waiting(s) # {} => h.view.confirmed >= h.view.capacity
  BY <1>1, <1>2, <1>3, <1>5 DEF ViewCurrent, ViewAllows, Active
<1>7. Cardinality(Confirmed(s)) \in Nat /\ capacity[s] \in Nat
  BY SeatCount
<1>8. Waiting(s) = {} /\ ~IsFull(s)
  BY <1>6, <1>7 DEF IsFull
<1>9. /\ signup' = [signup EXCEPT ![s][u] = "CONFIRMED"] /\ createdAt' = createdAt
      /\ status' = status \/ status' = [status EXCEPT ![s] = "FULL"]
  BY <1>2, <1>3 DEF SignUpCommit, ConfirmRow, stampVars
<1>10. \A w \in Volunteers : signup'[s][w] = IF w = u THEN "CONFIRMED" ELSE signup[s][w]
  BY <1>9 DEF TypeOK
<1>11. Confirmed(s)' = Confirmed(s) \cup {u} /\ Waiting(s)' = {}
  BY <1>8, <1>10 DEF Confirmed, Waiting
<1>12. WaitingSince(s)' = WaitingSince(s)
  BY <1>8, <1>9, <1>11 DEF WaitingSince
<1>13. Exists(s)'
  BY <1>4, <1>9 DEF Exists, Active, TypeOK
<1>14. u \notin Confirmed(s) \cup Waiting(s)
  BY <1>6, <1>8 DEF Confirmed
<1> QED
  BY <1>4, <1>7, <1>8, <1>11, <1>12, <1>13, <1>14, LedgerTakes

LEMMA JoinIsLedger ==
  ASSUME TypeOK, TypeOK', RowsHaveShift, LockedRowsExist, NEW s \in Shifts, NEW r \in Requests,
         About(r, s), SeesSeats(r), JoinsLast(s), JoinWaitlistCommit(r), capacity' = capacity,
         \A t \in Shifts \ {s} : SameSeats(t)
  PROVE  \E u \in Volunteers : Ledger!Join(s, u)
<1>1. InBooking(r) /\ req[r].op = "joinWaitlist" /\ req[r].phase = "tx"
  BY DEF JoinWaitlistCommit, At, About
<1>2. PICK h \in SignupHandlers : h = req[r]
  BY <1>1, HandlerOf
<1>3. PICK u \in Volunteers : u = h.user /\ s = h.shift
  BY <1>2 DEF About, SignupHandlers
<1>4. Exists(s)
  BY <1>2, <1>3 DEF RowsHaveShift, JoinWaitlistCommit
<1>5. ViewCurrent(h) /\ ViewAllows(h)
  BY <1>1, <1>2, <1>3, <1>4, RowKeepsView DEF SeesSeats
<1>6. IsFull(s)
  BY <1>1, <1>2, <1>3, <1>5 DEF ViewCurrent, ViewAllows, IsFull
<1>7. signup[s][u] = "NONE"
  BY <1>2, <1>3 DEF JoinWaitlistCommit, At, LockedRowsExist, Rows
<1>8. /\ signup' = [signup EXCEPT ![s][u] = "WAITLISTED"] /\ status' = status
      /\ createdAt' = [createdAt EXCEPT ![s][u] = h.at]
  BY <1>2, <1>3 DEF JoinWaitlistCommit, shiftVars
<1>9. /\ \A w \in Volunteers : signup'[s][w] = IF w = u THEN "WAITLISTED" ELSE signup[s][w]
      /\ \A w \in Volunteers : createdAt'[s][w] = IF w = u THEN h.at ELSE createdAt[s][w]
  BY <1>8 DEF TypeOK
<1>10. Confirmed(s)' = Confirmed(s) /\ Waiting(s)' = Waiting(s) \cup {u}
       /\ u \notin Confirmed(s) \cup Waiting(s)
  BY <1>7, <1>9 DEF Confirmed, Waiting
<1>11. \A v \in Waiting(s) : createdAt'[s][v] = createdAt[s][v]
                             /\ createdAt[s][v] <= createdAt'[s][u]
  BY <1>1, <1>2, <1>9, <1>10 DEF JoinsLast, At, Waiting
<1>12. Exists(s)'
  BY <1>4, <1>8 DEF Exists
<1> QED
  BY <1>4, <1>6, <1>10, <1>11, <1>12, LedgerJoins

LEMMA LeaveIsLedger ==
  ASSUME TypeOK, RowsHaveShift, NEW s \in Shifts, NEW r \in Requests, About(r, s), SeesSeats(r),
         LeaveWaitlistCommit(r), capacity' = capacity, \A t \in Shifts \ {s} : SameSeats(t)
  PROVE  \E u \in Volunteers : Ledger!Leave(s, u)
<1>1. InBooking(r) /\ req[r].op = "leaveWaitlist"
  BY DEF LeaveWaitlistCommit, At, About
<1>2. PICK h \in SignupHandlers : h = req[r]
  BY <1>1, HandlerOf
<1>3. PICK u \in Volunteers : u = h.user /\ s = h.shift
  BY <1>2 DEF About, SignupHandlers
<1>4. ViewCurrent(h) /\ ViewAllows(h) /\ Exists(s)
  BY <1>1, <1>2, <1>3, RowKeepsView DEF SeesSeats, LeaveWaitlistCommit, RowsHaveShift
<1>5. u \in Waiting(s)
  BY <1>1, <1>2, <1>3, <1>4 DEF ViewCurrent, ViewAllows, Waiting
<1>6. /\ signup' = [signup EXCEPT ![s][u] = "CANCELLED"]
      /\ UNCHANGED <<status, createdAt>>
  BY <1>2, <1>3 DEF LeaveWaitlistCommit, shiftVars, stampVars
<1>7. \A w \in Volunteers : signup'[s][w] = IF w = u THEN "CANCELLED" ELSE signup[s][w]
  BY <1>6 DEF TypeOK
<1>8. Confirmed(s)' = Confirmed(s) /\ Waiting(s)' = Waiting(s) \ {u} /\ Exists(s)'
  BY <1>4, <1>5, <1>6, <1>7 DEF Confirmed, Waiting, Exists
<1> QED
  BY <1>4, <1>5, <1>6, <1>8, LedgerLeaves

LEMMA CancelIsLedger ==
  ASSUME TypeOK, RowsHaveShift, LockedRowsExist, NEW s \in Shifts, NEW r \in Requests,
         About(r, s), SeesSeats(r), CancelCommit(r), capacity' = capacity,
         \A t \in Shifts \ {s} : SameSeats(t)
  PROVE  \E u \in Volunteers :
           \/ Ledger!Leave(s, u) \/ Ledger!GiveUp(s, u)
           \/ \E next \in Volunteers : Ledger!PassOn(s, u, next)
<1>1. InBooking(r) /\ req[r].op = "cancel" /\ req[r].phase = "tx"
  BY DEF CancelCommit, At, About
<1>2. PICK h \in SignupHandlers : h = req[r]
  BY <1>1, HandlerOf
<1>3. PICK u \in Volunteers : u = h.user /\ s = h.shift
  BY <1>2 DEF About, SignupHandlers
<1>4. Exists(s) /\ h.user \in Rows(h.shift)
  BY <1>1, <1>2, <1>3 DEF LockedRowsExist, RowsHaveShift
<1>5. ViewCurrent(h) /\ ViewAllows(h) /\ SelectionCurrent(h)
  BY <1>1, <1>2, <1>4, RowKeepsView DEF SeesSeats
<1>6. /\ signup[s][u] = h.view.own /\ signup[s][u] \in {"CONFIRMED", "WAITLISTED"}
      /\ IF signup[s][u] = "CONFIRMED" THEN IsNextWaitlistEntry(h.next, s, u) ELSE h.next = NoOne
  BY <1>1, <1>2, <1>3, <1>5 DEF ViewCurrent, ViewAllows, SelectionCurrent
<1>7. /\ signup' = [signup EXCEPT ![s] =
           [w \in Volunteers |-> IF w = h.next THEN "CONFIRMED"
                                 ELSE IF w = u THEN "CANCELLED" ELSE signup[s][w]]]
      /\ createdAt' = createdAt
      /\ status' = status \/ status' = [status EXCEPT ![s] = "OPEN"]
  BY <1>2, <1>3 DEF CancelCommit, stampVars
<1>8. \A w \in Volunteers : signup'[s][w] = IF w = h.next THEN "CONFIRMED"
                                            ELSE IF w = u THEN "CANCELLED" ELSE signup[s][w]
  BY <1>7 DEF TypeOK
<1>9. Exists(s)'
  BY <1>4, <1>7 DEF Exists, Active, TypeOK
<1>10. CASE signup[s][u] = "WAITLISTED"
  <2>1. u \in Waiting(s) /\ h.next \notin Volunteers
    BY <1>6, <1>10, NoOneAssumption DEF Waiting
  <2>2. Confirmed(s)' = Confirmed(s) /\ Waiting(s)' = Waiting(s) \ {u}
    BY <1>8, <1>10, <2>1 DEF Confirmed, Waiting
  <2> QED
    BY <1>4, <1>7, <1>9, <2>1, <2>2, LedgerLeaves
<1>11. CASE signup[s][u] = "CONFIRMED" /\ Waiting(s) = {}
  <2>1. u \in Confirmed(s) /\ h.next \notin Volunteers
    BY <1>6, <1>11, NoOneAssumption DEF Confirmed, IsNextWaitlistEntry
  <2>2. Confirmed(s)' = Confirmed(s) \ {u} /\ Waiting(s)' = {}
    BY <1>8, <1>11, <2>1 DEF Confirmed, Waiting
  <2>3. WaitingSince(s)' = WaitingSince(s)
    BY <1>11, <2>2 DEF WaitingSince
  <2> QED
    BY <1>4, <1>9, <1>11, <2>1, <2>2, <2>3, LedgerGivesUp
<1>12. CASE signup[s][u] = "CONFIRMED" /\ Waiting(s) # {}
  <2>1. u \in Confirmed(s) /\ Waiting(s) \ {u} = Waiting(s)
    BY <1>12 DEF Confirmed, Waiting
  <2>2. /\ h.next \in Waiting(s)
        /\ \A v \in Waiting(s) : createdAt[s][h.next] <= createdAt[s][v]
    BY <1>6, <1>12, <2>1 DEF IsNextWaitlistEntry
  <2>3. h.next \in Volunteers /\ h.next # u
    BY <2>1, <2>2 DEF Waiting
  <2>4. /\ Confirmed(s)' = (Confirmed(s) \ {u}) \cup {h.next}
        /\ Waiting(s)' = Waiting(s) \ {h.next}
    BY <1>8, <1>12, <2>3 DEF Confirmed, Waiting
  <2>5. Ledger!PassOn(s, u, h.next)
    BY <1>4, <1>7, <1>9, <2>1, <2>2, <2>4, LedgerPassesOn
  <2> QED
    BY <2>3, <2>5
<1> QED
  BY <1>6, <1>10, <1>11, <1>12

LEMMA BookingIsLedger ==
  ASSUME Ops \subseteq SeatOps, TypeOK, TypeOK', RowsHaveShift, LockedRowsExist, AllSeatsHold,
         \A s \in Shifts : JoinsLast(s), NEW r \in Requests, BookingStep(r)
  PROVE  [Ledger!Next]_(Ledger!vars)
<1>1. capacity' = capacity
  BY BookingKeepsShifts
<1>2. CASE GoesOn(r)
  <2>1. PICK s \in Shifts : About(r, s) /\ s = req[r].shift
    BY <1>2, GoesOnAbout DEF SignupHandlers, About
  <2>2. SeesSeats(r)
    BY <2>1 DEF AllSeatsHold, SeatsHold
  <2>3. ASSUME NEW t \in Shifts \ {s} PROVE SameSeats(t)
    <3>1. ~About(r, t)
      BY <2>1, <2>3 DEF About
    <3>2. status'[t] = status[t] /\ signup'[t] = signup[t] /\ createdAt'[t] = createdAt[t]
      BY <2>3, <3>1, BookingElsewhere
    <3> QED
      BY <3>2, RowsAsBefore DEF SameSeats, Exists
  <2>4. ~(AssignCommit(r) \/ CheckinLock(r) \/ MarkCommit(r))
    BY <2>1, <2>2 DEF AssignCommit, CheckinLock, MarkCommit, At, SeesSeats, ViewAllows, About
  <2>5. CASE CancelBegin(r) \/ JoinWaitlistBegin(r)
    <3>1. UNCHANGED <<status, signup, createdAt>>
      BY <2>5 DEF CancelBegin, JoinWaitlistBegin, shiftVars, signupVars, stampVars
    <3>2. \A t \in Shifts : SameSeats(t)
      BY <3>1, RowsAsBefore DEF SameSeats, Exists
    <3> QED
      BY <1>1, <3>2, LedgerStays
  <2>6. CASE SignUpCommit(r) \/ JoinWaitlistCommit(r) \/ LeaveWaitlistCommit(r) \/ CancelCommit(r)
    <3>1. \E u \in Volunteers :
            \/ Ledger!Take(s, u) \/ Ledger!Join(s, u) \/ Ledger!Leave(s, u)
            \/ Ledger!GiveUp(s, u) \/ \E next \in Volunteers : Ledger!PassOn(s, u, next)
      BY <1>1, <2>1, <2>2, <2>3, <2>6, SignUpIsLedger, JoinIsLedger, LeaveIsLedger, CancelIsLedger
    <3> QED
      BY <3>1 DEF Ledger!Next
  <2> QED
    BY <1>2, <2>4, <2>5, <2>6 DEF GoesOn
<1>3. CASE ~GoesOn(r)
  <2>1. UNCHANGED <<status, signup, createdAt>>
    BY <1>3, BookingKinds
  <2>2. \A t \in Shifts : SameSeats(t)
    BY <2>1, RowsAsBefore DEF SameSeats, Exists
  <2> QED
    BY <1>1, <2>2, LedgerStays
<1> QED
  BY <1>2, <1>3

\* A coordinator offers a shift or takes it away; how it ends is no matter of the ledger.
LEMMA ShiftStepIsLedger ==
  ASSUME Ops \subseteq SeatOps, TypeOK, TypeOK', RowsHaveShift, ShiftNext
  PROVE  [Ledger!Next]_(Ledger!vars)
<1> USE DEF shiftVars, signupVars, stampVars
<1>1. PICK s \in Shifts :
        \/ \E c \in Capacities, start, end \in Times :
             CreateShift(s, c, start, end) \/ UpdateShift(s, c, start, end)
        \/ CancelShift(s) \/ CompleteShift(s) \/ RemoveShift(s)
        \/ CronClose(s) \/ CronSkip(s)
  BY DEF ShiftNext
<1>2. ASSUME NEW c \in Capacities, NEW start \in Times, NEW end \in Times,
             CreateShift(s, c, start, end)
      PROVE  Ledger!Next
  <2>1. /\ ~Exists(s) /\ status' = [status EXCEPT ![s] = "OPEN"]
        /\ capacity' = [capacity EXCEPT ![s] = c] /\ UNCHANGED <<signup, createdAt>>
    BY <1>2 DEF CreateShift, Exists, Active, Closed
  <2>2. \A t \in Shifts : Confirmed(t)' = Confirmed(t) /\ WaitingSince(t)' = WaitingSince(t)
    BY <2>1, RowsAsBefore
  <2>3. {t \in Shifts : Exists(t)}' = {t \in Shifts : Exists(t)} \cup {s}
    BY <2>1 DEF Exists, Active, TypeOK
  <2>4. Ledger!Offer(s, c)
    BY <2>1, <2>2, <2>3 DEF Ledger!Offer
  <2> QED
    BY <2>4 DEF Ledger!Next
<1>3. ~\E c \in Capacities, start, end \in Times : UpdateShift(s, c, start, end)
  BY DEF UpdateShift, SeatOps
<1>4. CASE RemoveShift(s)
  <2>1. /\ Exists(s) /\ status' = [status EXCEPT ![s] = "DELETED"] /\ capacity' = capacity
        /\ signup' = [signup EXCEPT ![s] = [u \in Volunteers |-> "NONE"]]
        /\ createdAt' = [createdAt EXCEPT ![s] = [u \in Volunteers |-> 0]]
    BY <1>4 DEF RemoveShift
  <2>2. \A t \in Shifts \ {s} : signup'[t] = signup[t] /\ createdAt'[t] = createdAt[t]
    BY <2>1 DEF TypeOK
  <2>3. \A t \in Shifts \ {s} : Confirmed(t)' = Confirmed(t) /\ WaitingSince(t)' = WaitingSince(t)
    BY <2>2, RowsAsBefore
  <2>4. signup'[s] = [u \in Volunteers |-> "NONE"]
    BY <2>1 DEF TypeOK
  <2>5. Confirmed(s)' = {} /\ WaitingSince(s)' = Ledger!NoQueue
    <3>1. Confirmed(s)' = {} /\ Waiting(s)' = {}
      BY <2>4 DEF Confirmed, Waiting
    <3> QED
      BY <3>1 DEF WaitingSince, Ledger!NoQueue
  <2>6. {t \in Shifts : Exists(t)}' = {t \in Shifts : Exists(t)} \ {s}
    BY <2>1 DEF Exists, Active, Closed, TypeOK
  <2>7. Ledger!Withdraw(s)
    BY <2>1, <2>3, <2>5, <2>6 DEF Ledger!Withdraw
  <2> QED
    BY <2>7 DEF Ledger!Next
<1>5. CASE CancelShift(s) \/ CompleteShift(s) \/ CronClose(s) \/ CronSkip(s)
  <2>1. UNCHANGED <<capacity, signup, createdAt>>
    BY <1>5 DEF CancelShift, CompleteShift, CronClose, CronSkip
  <2>2. \A t \in Shifts : Exists(t)' <=> Exists(t)
    BY <1>5 DEF CancelShift, CompleteShift, CronClose, CronSkip, Completed, Exists, Active, Closed,
                TypeOK
  <2>3. \A t \in Shifts : SameSeats(t)
    BY <2>1, <2>2, RowsAsBefore DEF SameSeats
  <2> QED
    BY <2>1, <2>3, LedgerStays
<1> QED
  BY <1>1, <1>2, <1>3, <1>4, <1>5

LEMMA LedgerStep ==
  ASSUME Ops \subseteq SeatOps, TypeOK, TypeOK', RowsHaveShift, LockedRowsExist, AllSeatsHold,
         \A s \in Shifts : JoinsLast(s), [Next]_vars
  PROVE  [Ledger!Next]_(Ledger!vars)
<1>1. ASSUME UNCHANGED <<status, capacity, signup, createdAt>>
      PROVE  UNCHANGED Ledger!vars
  <2>1. \A s \in Shifts : SameSeats(s)
    BY <1>1, RowsAsBefore DEF SameSeats, Exists
  <2> QED
    BY <1>1, <2>1, LedgerStays
<1>2. CASE RosterNext \/ \E r \in Requests : AddVolunteerCommit(r)
  BY <1>1, <1>2 DEF RosterNext, AddVolunteerRead, AddVolunteerCommit, RemoveVolunteer, LeaveOrg,
     shiftVars, signupVars, stampVars
<1>3. CASE CronScan \/ Tick \/ UNCHANGED vars
  BY <1>1, <1>3 DEF CronScan, Tick, vars, shiftVars, signupVars, stampVars
<1> QED
  BY <1>2, <1>3, BookingIsLedger, ShiftStepIsLedger DEF Next

LEMMA LedgerInit == TypeOK /\ Init => Ledger!Init
<1> SUFFICES ASSUME TypeOK, Init PROVE Ledger!Init
  OBVIOUS
<1>1. \A s \in Shifts : ~Exists(s)
  BY DEF Init, Exists, Active, Closed
<1>2. \A s \in Shifts : Confirmed(s) = {} /\ Waiting(s) = {}
  BY DEF Init, Confirmed, Waiting
<1>3. \A s \in Shifts : WaitingSince(s) = Ledger!NoQueue
  BY <1>2 DEF WaitingSince, Ledger!NoQueue
<1> QED
  BY <1>1, <1>2, <1>3 DEF Ledger!Init, TypeOK

\* As long as requests about one shift do not overlap, every interleaving of them with requests
\* about other shifts, with coordinators and with the auto-close job is one of the ledger, in
\* which each operation is one step: the reads change nothing, and the write does what was
\* decided on what had been read (signUpForShift, cancelSignup, joinWaitlist, leaveWaitlist).
THEOREM ApartImplementsLedger ==
  ASSUME Ops \subseteq SeatOps
  PROVE  Spec /\ []Apart => LedgerRefinement
<1>1. (\A s \in Shifts : JoinsLast(s)) /\ TypeOK /\ BookingInv /\ LockInv /\ Apart /\ Apart'
        /\ [Next]_vars => (\A s \in Shifts : JoinsLast(s))'
  BY JoinsStep DEF BookingInv, LockInv, Apart
<1>2. Init => \A s \in Shifts : JoinsLast(s)
  BY InitJoins
<1>3. TypeOK /\ TypeOK' /\ BookingInv /\ LockInv /\ AllSeatsHold /\ (\A s \in Shifts : JoinsLast(s))
        /\ [Next]_vars => [Ledger!Next]_(Ledger!vars)
  BY LedgerStep DEF BookingInv, LockInv
<1>4. TypeOK /\ Init => Ledger!Init
  BY LedgerInit
<1> QED
  BY <1>1, <1>2, <1>3, <1>4, TypeCorrect, BookingInvariant, LockInvariant, ApartSeats, PTL
     DEF Spec, LedgerRefinement, Ledger!Spec

---------------------------------------------------------------------------
(* The promise itself: SeatLedger alone implies that no shift is           *)
(* overbooked and that nobody waits beside a free seat.                    *)

SeatsOffered == {s \in Shifts : Exists(s)}
SeatHolders == [s \in Shifts |-> Confirmed(s)]
SeatQueue == [s \in Shifts |-> WaitingSince(s)]

KeptSeats(s) ==
  /\ capacity[s] \in Nat
  /\ ~Exists(s) => Confirmed(s) = {} /\ Waiting(s) = {}
  /\ Cardinality(Confirmed(s)) <= capacity[s]
  /\ Waiting(s) # {} => IsFull(s)

Kept == capacity \in [Shifts -> Capacities] /\ \A s \in Shifts : KeptSeats(s)

LEMMA FiniteSeats == \A s : IsFiniteSet(Confirmed(s)) /\ Cardinality(Confirmed(s)) \in Nat
<1>1. \A s : Confirmed(s) \subseteq Volunteers
  BY DEF Confirmed
<1> QED
  BY <1>1, FiniteAssumption, FS_Subset, FS_CardinalityType

LEMMA HoldersChange ==
  ASSUME NEW s \in Shifts, NEW X, SeatHolders' = [SeatHolders EXCEPT ![s] = X]
  PROVE  Confirmed(s)' = X /\ \A t \in Shifts \ {s} : Confirmed(t)' = Confirmed(t)
<1>1. \A t \in Shifts : SeatHolders'[t] = Confirmed(t)' /\ SeatHolders[t] = Confirmed(t)
  BY DEF SeatHolders
<1>2. DOMAIN SeatHolders = Shifts
  BY DEF SeatHolders
<1> QED
  BY <1>1, <1>2

LEMMA HoldersStay ==
  ASSUME SeatHolders' = SeatHolders
  PROVE  \A t \in Shifts : Confirmed(t)' = Confirmed(t)
<1>1. \A t \in Shifts : SeatHolders'[t] = Confirmed(t)' /\ SeatHolders[t] = Confirmed(t)
  BY DEF SeatHolders
<1> QED
  BY <1>1

LEMMA QueueDomain ==
  \A t \in Shifts : DOMAIN SeatQueue[t] = Waiting(t) /\ DOMAIN SeatQueue'[t] = Waiting(t)'
BY DEF SeatQueue, WaitingSince

LEMMA QueueChange ==
  ASSUME NEW s \in Shifts, NEW f, SeatQueue' = [SeatQueue EXCEPT ![s] = f]
  PROVE  Waiting(s)' = DOMAIN f /\ \A t \in Shifts \ {s} : Waiting(t)' = Waiting(t)
<1>1. DOMAIN SeatQueue = Shifts
  BY DEF SeatQueue
<1> QED
  BY <1>1, QueueDomain

LEMMA QueueStays ==
  ASSUME SeatQueue' = SeatQueue
  PROVE  \A t \in Shifts : Waiting(t)' = Waiting(t)
BY QueueDomain

\* What a step has to do to a shift to keep its seats as promised.
LEMMA KeptIf ==
  ASSUME NEW s \in Shifts, KeptSeats(s), capacity'[s] = capacity[s],
         ~Exists(s)' => Confirmed(s)' = {} /\ Waiting(s)' = {},
         Cardinality(Confirmed(s)') <= capacity[s],
         Waiting(s)' # {} => Cardinality(Confirmed(s)') >= capacity[s]
  PROVE  KeptSeats(s)'
BY DEF KeptSeats, IsFull

LEMMA KeptElsewhere ==
  ASSUME NEW s \in Shifts, KeptSeats(s), capacity'[s] = capacity[s],
         Exists(s) => Exists(s)', Confirmed(s)' = Confirmed(s), Waiting(s)' = Waiting(s)
  PROVE  KeptSeats(s)'
BY DEF KeptSeats, IsFull

LEMMA KeptSeatsStep ==
  ASSUME Kept, NEW s \in Shifts, NEW u \in Volunteers,
         \/ Ledger!Take(s, u) \/ Ledger!Join(s, u) \/ Ledger!Leave(s, u)
         \/ Ledger!GiveUp(s, u) \/ \E next \in Volunteers : Ledger!PassOn(s, u, next)
  PROVE  Kept'
<1>1. /\ SeatsOffered' = SeatsOffered /\ capacity' = capacity
  BY DEF Ledger!Take, Ledger!Join, Ledger!Leave, Ledger!GiveUp, Ledger!PassOn, SeatsOffered
<1>2. \A t \in Shifts : Exists(t)' = Exists(t)
  <2>1. \A t \in Shifts : (t \in SeatsOffered <=> Exists(t)) /\ (t \in SeatsOffered' <=> Exists(t)')
    BY DEF SeatsOffered
  <2> QED
    BY <1>1, <2>1 DEF Exists
<1>3. SeatHolders[s] = Confirmed(s) /\ DOMAIN SeatQueue[s] = Waiting(s)
  BY QueueDomain DEF SeatHolders
<1>4. ASSUME \A t \in Shifts \ {s} : Confirmed(t)' = Confirmed(t) /\ Waiting(t)' = Waiting(t),
             KeptSeats(s)'
      PROVE  Kept'
  BY <1>1, <1>2, <1>4, KeptElsewhere DEF Kept
<1>5. /\ KeptSeats(s) /\ capacity[s] \in Nat
      /\ Cardinality(Confirmed(s)) \in Nat /\ IsFiniteSet(Confirmed(s))
  BY FiniteSeats DEF Kept, KeptSeats
<1>6. CASE Ledger!Take(s, u)
  <2>1. /\ SeatHolders' = [SeatHolders EXCEPT ![s] = Confirmed(s) \cup {u}]
        /\ SeatQueue' = SeatQueue
        /\ s \in SeatsOffered /\ u \notin Confirmed(s)
    BY <1>3, <1>6 DEF Ledger!Take, SeatHolders, SeatQueue, SeatsOffered
  <2>2. Cardinality(Confirmed(s)) < capacity[s]
    BY <1>3, <1>6 DEF Ledger!Take, Ledger!HasFreeSeat, Ledger!Cardinality, Cardinality, SeatHolders
  <2>3. Confirmed(s)' = Confirmed(s) \cup {u}
        /\ \A t \in Shifts \ {s} : Confirmed(t)' = Confirmed(t)
    BY <2>1, HoldersChange
  <2>4. \A t \in Shifts : Waiting(t)' = Waiting(t)
    BY <2>1, QueueStays
  <2>5. Cardinality(Confirmed(s)') = Cardinality(Confirmed(s)) + 1
    BY <1>5, <2>1, <2>3, FS_AddElement
  <2>6. Waiting(s) = {}
    BY <1>5, <2>2 DEF KeptSeats, IsFull
  <2>7. Exists(s)'
    BY <1>2, <2>1 DEF SeatsOffered
  <2>8. KeptSeats(s)'
    BY <1>1, <1>5, <2>2, <2>4, <2>5, <2>6, <2>7, KeptIf
  <2> QED
    BY <1>4, <2>3, <2>4, <2>8
<1>7. CASE Ledger!Join(s, u)
  <2>1. /\ SeatHolders' = SeatHolders
        /\ SeatQueue' = [SeatQueue EXCEPT ![s] = SeatQueue'[s]]
        /\ s \in SeatsOffered
    BY <1>7 DEF Ledger!Join, SeatHolders, SeatQueue, SeatsOffered
  <2>2. ~(Cardinality(Confirmed(s)) < capacity[s])
    BY <1>3, <1>7 DEF Ledger!Join, Ledger!HasFreeSeat, Ledger!Cardinality, Cardinality, SeatHolders
  <2>3. \A t \in Shifts : Confirmed(t)' = Confirmed(t)
    BY <2>1, HoldersStay
  <2>4. \A t \in Shifts \ {s} : Waiting(t)' = Waiting(t)
    BY <2>1, QueueChange
  <2>5. Exists(s)'
    BY <1>2, <2>1 DEF SeatsOffered
  <2>6. Cardinality(Confirmed(s)') <= capacity[s] /\ Cardinality(Confirmed(s)') >= capacity[s]
    BY <1>5, <2>2, <2>3 DEF KeptSeats
  <2>7. KeptSeats(s)'
    BY <1>1, <1>5, <2>5, <2>6, KeptIf
  <2> QED
    BY <1>4, <2>3, <2>4, <2>7
<1>8. CASE Ledger!Leave(s, u)
  <2>1. /\ SeatHolders' = SeatHolders
        /\ SeatQueue' = [SeatQueue EXCEPT ![s] = [v \in Waiting(s) \ {u} |-> SeatQueue[s][v]]]
    BY <1>3, <1>8 DEF Ledger!Leave, Ledger!QueueWithout, Ledger!Waiting, SeatHolders, SeatQueue
  <2>2. \A t \in Shifts : Confirmed(t)' = Confirmed(t)
    BY <2>1, HoldersStay
  <2>3. Waiting(s)' = Waiting(s) \ {u} /\ \A t \in Shifts \ {s} : Waiting(t)' = Waiting(t)
    BY <2>1, QueueChange
  <2>4. KeptSeats(s)'
    BY <1>1, <1>2, <1>5, <2>2, <2>3 DEF KeptSeats, IsFull
  <2> QED
    BY <1>4, <2>2, <2>3, <2>4
<1>9. CASE Ledger!GiveUp(s, u)
  <2>1. /\ SeatHolders' = [SeatHolders EXCEPT ![s] = Confirmed(s) \ {u}]
        /\ SeatQueue' = SeatQueue /\ Waiting(s) = {} /\ u \in Confirmed(s)
    BY <1>3, <1>9 DEF Ledger!GiveUp, Ledger!Waiting, SeatHolders, SeatQueue
  <2>2. Confirmed(s)' = Confirmed(s) \ {u}
        /\ \A t \in Shifts \ {s} : Confirmed(t)' = Confirmed(t)
    BY <2>1, HoldersChange
  <2>3. \A t \in Shifts : Waiting(t)' = Waiting(t)
    BY <2>1, QueueStays
  <2>4. Cardinality(Confirmed(s)') = Cardinality(Confirmed(s)) - 1
    BY <1>5, <2>1, <2>2, FS_RemoveElement
  <2>5. Cardinality(Confirmed(s)') <= capacity[s]
    BY <1>5, <2>4 DEF KeptSeats
  <2>6. ~Exists(s)' => Confirmed(s)' = {}
    BY <1>2, <1>5, <2>2 DEF KeptSeats
  <2>7. KeptSeats(s)'
    BY <1>1, <1>5, <2>1, <2>3, <2>5, <2>6, KeptIf
  <2> QED
    BY <1>4, <2>2, <2>3, <2>7
<1>10. ASSUME NEW next \in Volunteers, Ledger!PassOn(s, u, next) PROVE Kept'
  <2>1. /\ SeatHolders' = [SeatHolders EXCEPT ![s] = (Confirmed(s) \ {u}) \cup {next}]
        /\ SeatQueue' = [SeatQueue EXCEPT ![s] = [v \in Waiting(s) \ {next} |-> SeatQueue[s][v]]]
        /\ u \in Confirmed(s) /\ next \in Waiting(s)
    BY <1>3, <1>10
       DEF Ledger!PassOn, Ledger!First, Ledger!QueueWithout, Ledger!Waiting, SeatHolders, SeatQueue
  <2>2. Confirmed(s)' = (Confirmed(s) \ {u}) \cup {next}
        /\ \A t \in Shifts \ {s} : Confirmed(t)' = Confirmed(t)
    BY <2>1, HoldersChange
  <2>3. Waiting(s)' = Waiting(s) \ {next} /\ \A t \in Shifts \ {s} : Waiting(t)' = Waiting(t)
    BY <2>1, QueueChange
  <2>4. next \notin Confirmed(s)
    BY <2>1 DEF Confirmed, Waiting
  <2>5. IsFiniteSet(Confirmed(s) \ {u})
        /\ Cardinality(Confirmed(s) \ {u}) = Cardinality(Confirmed(s)) - 1
    BY <1>5, <2>1, FS_RemoveElement
  <2>6. Cardinality(Confirmed(s)') = Cardinality(Confirmed(s) \ {u}) + 1
    BY <2>2, <2>4, <2>5, FS_AddElement
  <2>7. Cardinality(Confirmed(s)') = Cardinality(Confirmed(s))
    BY <1>5, <2>5, <2>6
  <2>8. IsFull(s) /\ Exists(s)
    BY <1>5, <2>1 DEF KeptSeats
  <2>9. KeptSeats(s)'
    BY <1>1, <1>2, <1>5, <2>7, <2>8, KeptIf DEF KeptSeats, IsFull
  <2> QED
    BY <1>4, <2>2, <2>3, <2>9
<1> QED
  BY <1>6, <1>7, <1>8, <1>9, <1>10

LEMMA KeptStep ==
  ASSUME Kept, [Ledger!Next]_(Ledger!vars)
  PROVE  Kept'
<1>0. \A t \in Shifts : (t \in SeatsOffered <=> Exists(t)) /\ (t \in SeatsOffered' <=> Exists(t)')
  BY DEF SeatsOffered
<1>1. CASE UNCHANGED Ledger!vars
  <2>1. /\ SeatHolders' = SeatHolders /\ SeatQueue' = SeatQueue
        /\ SeatsOffered' = SeatsOffered /\ capacity' = capacity
    BY <1>1 DEF Ledger!vars, SeatHolders, SeatQueue, SeatsOffered
  <2>2. \A t \in Shifts : Exists(t) => Exists(t)'
    BY <1>0, <2>1
  <2>3. \A t \in Shifts : Confirmed(t)' = Confirmed(t) /\ Waiting(t)' = Waiting(t)
    BY <2>1, HoldersStay, QueueStays
  <2> QED
    BY <2>1, <2>2, <2>3, KeptElsewhere DEF Kept
<1>2. ASSUME NEW s \in Shifts, NEW c \in Capacities, Ledger!Offer(s, c) PROVE Kept'
  <2>1. /\ SeatHolders' = SeatHolders /\ SeatQueue' = SeatQueue
        /\ s \notin SeatsOffered /\ SeatsOffered' = SeatsOffered \cup {s}
        /\ capacity' = [capacity EXCEPT ![s] = c]
    BY <1>2 DEF Ledger!Offer, SeatHolders, SeatQueue, SeatsOffered
  <2>2. \A t \in Shifts : Exists(t) => Exists(t)'
    BY <1>0, <2>1
  <2>3. \A t \in Shifts : Confirmed(t)' = Confirmed(t) /\ Waiting(t)' = Waiting(t)
    BY <2>1, HoldersStay, QueueStays
  <2>4. /\ capacity' \in [Shifts -> Capacities]
        /\ \A t \in Shifts \ {s} : capacity'[t] = capacity[t]
        /\ capacity'[s] \in Nat
    BY <2>1, CapacitiesAssumption DEF Kept
  <2>5. KeptSeats(s)'
    <3>1. Confirmed(s)' = {} /\ Waiting(s)' = {}
      BY <1>0, <2>1, <2>3 DEF Kept, KeptSeats
    <3>2. Cardinality(Confirmed(s)') = 0
      BY <3>1, FS_EmptySet
    <3> QED
      BY <2>4, <3>1, <3>2 DEF KeptSeats
  <2> QED
    BY <2>2, <2>3, <2>4, <2>5, KeptElsewhere DEF Kept
<1>3. ASSUME NEW s \in Shifts, Ledger!Withdraw(s) PROVE Kept'
  <2>1. /\ SeatHolders' = [SeatHolders EXCEPT ![s] = {}]
        /\ SeatQueue' = [SeatQueue EXCEPT ![s] = Ledger!NoQueue]
        /\ SeatsOffered' = SeatsOffered \ {s} /\ capacity' = capacity
    BY <1>3 DEF Ledger!Withdraw, SeatHolders, SeatQueue, SeatsOffered
  <2>2. \A t \in Shifts \ {s} : Exists(t) => Exists(t)'
    BY <1>0, <2>1
  <2>3. Confirmed(s)' = {} /\ \A t \in Shifts \ {s} : Confirmed(t)' = Confirmed(t)
    BY <2>1, HoldersChange
  <2>4. Waiting(s)' = {} /\ \A t \in Shifts \ {s} : Waiting(t)' = Waiting(t)
    <3>1. DOMAIN Ledger!NoQueue = {}
      BY DEF Ledger!NoQueue
    <3> QED
      BY <2>1, <3>1, QueueChange
  <2>5. Cardinality(Confirmed(s)') = 0
    BY <2>3, FS_EmptySet
  <2>6. KeptSeats(s)'
    BY <2>1, <2>3, <2>4, <2>5, KeptIf DEF Kept, KeptSeats
  <2> QED
    BY <2>1, <2>2, <2>3, <2>4, <2>6, KeptElsewhere DEF Kept
<1> QED
  BY <1>1, <1>2, <1>3, KeptSeatsStep DEF Ledger!Next

LEMMA KeptAlways == LedgerRefinement => []Kept
<1>1. Ledger!Init => Kept
  <2> SUFFICES ASSUME Ledger!Init PROVE Kept
    OBVIOUS
  <2>1. /\ capacity \in [Shifts -> Capacities]
        /\ SeatHolders = [s \in Shifts |-> {}]
        /\ SeatQueue = [s \in Shifts |-> Ledger!NoQueue]
    BY DEF Ledger!Init, SeatHolders, SeatQueue
  <2>2. ASSUME NEW s \in Shifts PROVE KeptSeats(s)
    <3>1. Confirmed(s) = SeatHolders[s] /\ Waiting(s) = DOMAIN SeatQueue[s]
      BY QueueDomain DEF SeatHolders
    <3>2. Confirmed(s) = {} /\ Waiting(s) = {}
      BY <2>1, <3>1 DEF Ledger!NoQueue
    <3>3. Cardinality(Confirmed(s)) = 0 /\ capacity[s] \in Nat
      BY <2>1, <3>2, FS_EmptySet, CapacitiesAssumption
    <3> QED
      BY <3>2, <3>3 DEF KeptSeats
  <2> QED
    BY <2>1, <2>2 DEF Kept
<1> QED
  BY <1>1, KeptStep, PTL DEF LedgerRefinement, Ledger!Spec

\* What keeps the ledger never confirms more volunteers than a shift has seats, whether it takes
\* people still or has ended (computeShiftCapacity).
THEOREM PromiseNotOverbooked ==
  LedgerRefinement => [](\A s \in Shifts : Cardinality(Confirmed(s)) <= capacity[s])
<1>1. Kept => \A s \in Shifts : Cardinality(Confirmed(s)) <= capacity[s]
  BY DEF Kept, KeptSeats
<1> QED
  BY <1>1, KeptAlways, PTL

\* And in what keeps the ledger nobody waits beside a free seat, for people queue only for a full
\* shift, and a seat given up while somebody waits is passed on (joinWaitlist, cancelSignup).
THEOREM PromiseNobodyWaits == LedgerRefinement => []NobodyWaitsBesideFreeSeat
<1>1. Kept => NobodyWaitsBesideFreeSeat
  BY DEF Kept, KeptSeats, NobodyWaitsBesideFreeSeat
<1> QED
  BY <1>1, KeptAlways, PTL

---------------------------------------------------------------------------
(* How far a shift can be overbooked.                                      *)

SigningUp(s) == {r \in Requests : About(r, s) /\ req[r].op = "signUp"}

\* No volunteer has two requests about the shift in flight.
RowsApart(s) ==
  \A r, q \in Requests : About(r, s) /\ About(q, s) /\ req[r].user = req[q].user => r = q

FewSignUps(s, n) == Cardinality(SigningUp(s)) <= n

BoundOps == AllOps \ {"assign", "updateShift"}

\* Every sign-up in flight may take one more seat than it saw; a cancellation that has seen
\* its seat still gives that seat up, so that the seat it passes on is not an additional one.
SeatBound(s, n) ==
  Exists(s) => Cardinality(Confirmed(s)) + Cardinality(SigningUp(s)) <= capacity[s] + n - 1

CancelsHoldSeat(s) ==
  \A r \in Requests :
    About(r, s) =>
      /\ req[r].op # "assign"
      /\ req[r].op = "cancel" /\ req[r].view.own = "CONFIRMED" =>
           status[s] = "DELETED" \/ signup[s][req[r].user] = "CONFIRMED"

LEMMA SigningUpCount == \A s : IsFiniteSet(SigningUp(s)) /\ Cardinality(SigningUp(s)) \in Nat
<1> SUFFICES ASSUME NEW s PROVE IsFiniteSet(SigningUp(s)) /\ Cardinality(SigningUp(s)) \in Nat
  OBVIOUS
<1>1. SigningUp(s) \subseteq Requests
  BY DEF SigningUp
<1> QED
  BY <1>1, FiniteAssumption, FS_Subset, FS_CardinalityType

LEMMA FewerConfirmed ==
  ASSUME TypeOK, NEW s \in Shifts, Confirmed(s)' \subseteq Confirmed(s)
  PROVE  Cardinality(Confirmed(s))' <= Cardinality(Confirmed(s)) /\ Cardinality(Confirmed(s))' \in Nat
BY SeatCount, FS_Subset, FS_CardinalityType

LEMMA FewerSigningUp ==
  ASSUME NEW s, SigningUp(s)' \subseteq SigningUp(s)
  PROVE  Cardinality(SigningUp(s))' <= Cardinality(SigningUp(s))
BY SigningUpCount, FS_Subset

LEMMA BoundKept ==
  ASSUME TypeOK, NEW s \in Shifts, NEW n \in Nat \ {0}, SeatBound(s, n),
         Exists(s)' => Exists(s), capacity'[s] = capacity[s],
         Confirmed(s)' \subseteq Confirmed(s), SigningUp(s)' \subseteq SigningUp(s)
  PROVE  SeatBound(s, n)'
<1>1. /\ Cardinality(Confirmed(s))' <= Cardinality(Confirmed(s))
      /\ Cardinality(Confirmed(s))' \in Nat /\ Cardinality(Confirmed(s)) \in Nat
  BY SeatCount, FewerConfirmed
<1>2. /\ Cardinality(SigningUp(s))' <= Cardinality(SigningUp(s))
      /\ Cardinality(SigningUp(s)) \in Nat /\ Cardinality(SigningUp(s))' \in Nat
  <2>1. Cardinality(SigningUp(s))' <= Cardinality(SigningUp(s))
    BY FewerSigningUp
  <2>2. IsFiniteSet(SigningUp(s)')
    BY SigningUpCount, FS_Subset
  <2> QED
    BY <2>1, <2>2, SigningUpCount, FS_CardinalityType
<1>3. capacity[s] \in Nat
  BY SeatCount
<1> QED
  BY <1>1, <1>2, <1>3 DEF SeatBound

\* Rows other than that of the request's volunteer change only by a promotion.
LEMMA OthersRows ==
  ASSUME TypeOK, NEW r \in Requests, BookingStep(r), NEW s \in Shifts, About(r, s),
         NEW u \in Volunteers, u # req[r].user
  PROVE  signup'[s][u] \in {signup[s][u], "CONFIRMED"}
<1>1. CASE GoesOn(r)
  <2>1. PICK h \in SignupHandlers : h = req[r] /\ h.shift = s
    BY <1>1, GoesOnAbout DEF About
  <2>2. CASE CancelCommit(r)
    BY <2>1, <2>2 DEF CancelCommit, TypeOK
  <2>3. CASE ~CancelCommit(r)
    <3>1. signup' = signup \/ \E x : signup' = [signup EXCEPT ![s][h.user] = x]
      BY <1>1, <2>1, <2>3 DEF GoesOn, SignUpCommit, AssignCommit, CancelBegin, JoinWaitlistBegin,
         JoinWaitlistCommit, LeaveWaitlistCommit, CheckinLock, LockForMark, MarkCommit,
         ConfirmRow, signupVars
    <3> QED
      BY <2>1, <3>1 DEF TypeOK
  <2> QED
    BY <2>2, <2>3
<1> QED
  BY <1>1, BookingKinds

\* A request about the shift that goes on or starts: what it does to the seats.
LEMMA BookingKeepsBound ==
  ASSUME TypeOK, RowsHaveShift, LockedRowsExist, MarksConfirmedSeat, PromotersHeldSeats,
         Ops \subseteq BoundOps, NEW s \in Shifts, NEW n \in Nat \ {0}, SeatBound(s, n),
         CancelsHoldSeat(s), FewSignUps(s, n)', NEW r \in Requests, BookingStep(r), About(r, s) \/ About(r, s)'
  PROVE  SeatBound(s, n)'
<1>1. Cardinality(Confirmed(s)) \in Nat /\ capacity[s] \in Nat \ {0} /\ IsFiniteSet(Confirmed(s))
  BY SeatCount
<1>2. /\ \A q \in Requests \ {r} : req'[q] = req[q]
      /\ UNCHANGED capacity
  <2>1. capacity' = capacity
    BY BookingKeepsShifts
  <2> QED
    BY <2>1, BookingAlone
<1>3. SigningUp(s)' \ {r} = SigningUp(s) \ {r}
  BY <1>2 DEF SigningUp, About, InBooking
<1>4. CASE SignUpCommit(r)
  <2>1. InBooking(r) /\ req[r].op = "signUp" /\ About(r, s)
    BY <1>4, GoesOnAbout DEF GoesOn, About, SignUpCommit, At
  <2>2. req'[r] = Idle
    BY <1>4 DEF SignUpCommit, Finish, TypeOK
  <2>3. r \in SigningUp(s) /\ SigningUp(s)' = SigningUp(s) \ {r}
    BY <1>3, <2>1, <2>2 DEF SigningUp, About, InBooking
  <2>4. Cardinality(SigningUp(s))' = Cardinality(SigningUp(s)) - 1
    BY <2>3, SigningUpCount, FS_RemoveElement
  <2>5. Confirmed(s)' = Confirmed(s) \cup {req[r].user}
    <3>1. PICK h \in SignupHandlers : h = req[r] /\ h.shift = s
      BY <2>1, HandlerOf DEF About
    <3>2. signup' = [signup EXCEPT ![s][h.user] = "CONFIRMED"] /\ h.user \in Volunteers
      BY <1>4, <3>1 DEF SignUpCommit, ConfirmRow, SignupHandlers
    <3>3. \A u \in Volunteers :
            signup'[s][u] = IF u = h.user THEN "CONFIRMED" ELSE signup[s][u]
      BY <3>2 DEF TypeOK
    <3> QED
      BY <3>1, <3>2, <3>3 DEF Confirmed
  <2>6. Cardinality(Confirmed(s))' \in {Cardinality(Confirmed(s)), Cardinality(Confirmed(s)) + 1}
    BY <1>1, <2>5, FS_AddElement
  <2>7. Exists(s)
    BY <1>4, <2>1 DEF SignUpCommit, BookingWritable, About
  <2> QED
    BY <1>1, <1>2, <2>4, <2>6, <2>7, SigningUpCount DEF SeatBound
<1>5. CASE ~GoesOn(r)
  <2>1. /\ UNCHANGED <<status, signup>> /\ Confirmed(s)' = Confirmed(s)
        /\ Exists(s)' => Exists(s)
    BY <1>5, BookingKinds DEF Confirmed, Exists
  <2>2. CASE SigningUp(s)' \subseteq SigningUp(s)
    BY <1>2, <2>1, <2>2, BoundKept
  <2>3. CASE ~(SigningUp(s)' \subseteq SigningUp(s))
    <3>1. r \in SigningUp(s)'
      BY <1>3, <2>3
    <3>2. PICK t \in Shifts, u \in Volunteers : SignUpRead(r, t, u)
      <4>1. InBooking(r)' /\ req'[r].op = "signUp"
        BY <3>1 DEF SigningUp, About
      <4> QED
        <5>1. PICK t \in Shifts, u \in Volunteers, op \in SignupOps \ {"mark"} :
                req'[r] = Reading(op, t, u) /\ (op = "signUp" => SignUpRead(r, t, u))
          BY <1>5, <4>1, NewRequests
        <5>2. op = "signUp"
          BY <4>1, <5>1 DEF Reading
        <5> QED
          BY <5>1, <5>2
    <3>3. t = s
      BY <3>2, ReadIsAbout DEF SignUpRead
    <3>4. ~IsFull(s)
      BY <3>2, <3>3 DEF SignUpRead, ValidateSignup
    <3>5. Cardinality(Confirmed(s))' = Cardinality(Confirmed(s)) /\ Cardinality(SigningUp(s))' <= n
      BY <2>1 DEF FewSignUps
    <3>6. Cardinality(SigningUp(s))' \in Nat
      <4>1. IsFiniteSet(SigningUp(s)')
        <5>1. SigningUp(s)' \subseteq Requests
          BY DEF SigningUp
        <5> QED
          BY <5>1, FiniteAssumption, FS_Subset
      <4> QED
        BY <4>1, FS_CardinalityType
    <3>7. capacity'[s] = capacity[s] /\ Cardinality(Confirmed(s)) < capacity[s]
      BY <1>1, <1>2, <3>4 DEF IsFull
    <3>8. Cardinality(Confirmed(s))' + Cardinality(SigningUp(s))' <= capacity'[s] + n - 1
      BY <1>1, <3>5, <3>6, <3>7
    <3> QED
      BY <3>8 DEF SeatBound
  <2> QED
    BY <2>2, <2>3
<1>6. CASE GoesOn(r) /\ ~SignUpCommit(r)
  <2>1. PICK h \in SignupHandlers : h = req[r] /\ h.shift = s /\ About(r, s)
    BY <1>6, GoesOnAbout DEF About
  <2>2. h.op # "signUp" /\ h.op # "assign"
    BY <1>6, <2>1 DEF GoesOn, CancelsHoldSeat, AssignCommit, CancelBegin, CancelCommit,
       JoinWaitlistBegin, JoinWaitlistCommit, LeaveWaitlistCommit, CheckinLock, MarkCommit, At
  <2>3. SigningUp(s)' \subseteq SigningUp(s)
    <3>1. r \notin SigningUp(s)'
      BY <1>6, <2>1, <2>2, GoesOnAbout DEF SigningUp, About
    <3> QED
      BY <1>3, <3>1
  <2>4. Exists(s)' => Exists(s)
    BY <1>6, <2>1, <2>2 DEF GoesOn, AssignCommit, At, CancelBegin, CancelCommit,
       JoinWaitlistBegin, JoinWaitlistCommit, LeaveWaitlistCommit, CheckinLock, LockForMark,
       MarkCommit, shiftVars, Exists, TypeOK, RowsHaveShift, LockedRowsExist
  <2>5. CASE CancelCommit(r) /\ h.next # NoOne
    <3>1. h.user \in Confirmed(s)
      <4>1. /\ h.phase = "tx" /\ h.op = "cancel" /\ h.view.own = "CONFIRMED" /\ h.next # h.user
            /\ h.user \in Rows(s)
        BY <2>1, <2>5 DEF CancelCommit, At, PromotersHeldSeats, LockedRowsExist
      <4>2. status[s] # "DELETED"
        BY <4>1 DEF RowsHaveShift, Exists, Active, Closed
      <4> QED
        BY <2>1, <4>1, <4>2 DEF CancelsHoldSeat, Confirmed, SignupHandlers
    <3>2. h.next \in Volunteers
      BY <2>1, <2>5 DEF SignupHandlers
    <3>3. Confirmed(s)' = (Confirmed(s) \ {h.user}) \cup {h.next}
      BY <2>1, <2>5, <3>2 DEF CancelCommit, Confirmed, TypeOK
    <3>4. /\ IsFiniteSet(Confirmed(s) \ {h.user})
          /\ Cardinality(Confirmed(s) \ {h.user}) = Cardinality(Confirmed(s)) - 1
      BY <1>1, <3>1, FS_RemoveElement
    <3>5. /\ Cardinality(Confirmed(s))' <= Cardinality(Confirmed(s))
          /\ Cardinality(Confirmed(s))' \in Nat
      <4> DEFINE others == Confirmed(s) \ {h.user}
      <4>1. Cardinality(others) \in Nat
        BY <3>4, FS_CardinalityType
      <4>2. \/ others \cup {h.next} = others
            \/ Cardinality(others \cup {h.next}) = Cardinality(others) + 1
        <5>1. CASE h.next \in others
          <6>1. others \cup {h.next} = others
            BY <5>1
          <6> QED
            BY <6>1
        <5>2. CASE h.next \notin others
          BY <3>4, <5>2, FS_AddElement
        <5> QED
          BY <5>1, <5>2
      <4>3. Cardinality(others \cup {h.next}) \in {Cardinality(others), Cardinality(others) + 1}
        BY <4>2
      <4> HIDE DEF others
      <4>4. Cardinality(Confirmed(s))' = Cardinality(others \cup {h.next})
        BY <3>3 DEF others
      <4>5. Cardinality(others) = Cardinality(Confirmed(s)) - 1
        BY <3>4 DEF others
      <4> QED
        BY <1>1, <4>1, <4>3, <4>4, <4>5
    <3>6. /\ Cardinality(SigningUp(s))' <= Cardinality(SigningUp(s))
          /\ Cardinality(SigningUp(s))' \in Nat
      BY <2>3, FewerSigningUp, SigningUpCount, FS_Subset, FS_CardinalityType
    <3> QED
      BY <1>1, <1>2, <2>4, <3>5, <3>6, SigningUpCount DEF SeatBound
  <2>6. CASE ~(CancelCommit(r) /\ h.next # NoOne)
    <3>1. Confirmed(s)' \subseteq Confirmed(s)
      <4>1. CASE CancelCommit(r)
        BY <2>1, <2>6, <4>1, NoOneAssumption DEF CancelCommit, Confirmed, TypeOK
      <4>2. CASE CancelBegin(r) \/ JoinWaitlistBegin(r) \/ CheckinLock(r)
        BY <4>2 DEF CancelBegin, JoinWaitlistBegin, CheckinLock, LockForMark, signupVars, Confirmed
      <4>3. CASE LeaveWaitlistCommit(r) \/ JoinWaitlistCommit(r)
        BY <2>1, <4>3 DEF LeaveWaitlistCommit, JoinWaitlistCommit, Confirmed, TypeOK
      <4>4. CASE MarkCommit(r)
        <5>1. h.mark \in Recorded
          BY <2>1, <4>4 DEF MarkCommit, MarksConfirmedSeat
        <5> QED
          BY <2>1, <4>4, <5>1 DEF MarkCommit, Recorded, Confirmed, TypeOK
      <4> QED
        BY <1>6, <2>1, <2>2, <4>1, <4>2, <4>3, <4>4 DEF GoesOn, AssignCommit, At
    <3> QED
      BY <1>2, <2>3, <2>4, <3>1, BoundKept
  <2> QED
    BY <2>5, <2>6
<1> QED
  BY <1>4, <1>5, <1>6

LEMMA BookingKeepsCancels ==
  ASSUME TypeOK, RowsHaveShift, LockedRowsExist, Ops \subseteq BoundOps, NEW s \in Shifts,
         RowsApart(s), CancelsHoldSeat(s), NEW r \in Requests, BookingStep(r)
  PROVE  CancelsHoldSeat(s)'
<1>1. \A q \in Requests \ {r} : req'[q] = req[q] /\ (About(q, s)' <=> About(q, s))
  BY BookingAlone DEF About, InBooking
<1>2. status[s] = "DELETED" => status'[s] = "DELETED"
  <2>1. CASE ~GoesOn(r)
    BY <2>1, BookingKinds
  <2>2. CASE ~About(r, s)
    BY <2>2, BookingElsewhere
  <2>3. CASE GoesOn(r) /\ About(r, s)
    <3>1. CASE CancelCommit(r)
      <4>1. Exists(s)
        BY <2>3, <3>1 DEF CancelCommit, At, About, LockedRowsExist, RowsHaveShift
      <4> QED
        BY <4>1 DEF Exists, Active, Closed
    <3>2. CASE SignUpCommit(r) \/ AssignCommit(r)
      BY <2>3, <3>2 DEF SignUpCommit, AssignCommit, BookingWritable, About, Exists, Active, Closed
    <3>3. CASE ~CancelCommit(r) /\ ~SignUpCommit(r) /\ ~AssignCommit(r)
      BY <2>3, <3>3 DEF GoesOn, CancelBegin, JoinWaitlistBegin, JoinWaitlistCommit,
         LeaveWaitlistCommit, CheckinLock, LockForMark, MarkCommit, shiftVars
    <3> QED
      BY <3>1, <3>2, <3>3
  <2> QED
    BY <2>1, <2>2, <2>3
<1>3. ASSUME NEW q \in Requests \ {r}, About(q, s), req[q].op = "cancel",
             req[q].view.own = "CONFIRMED", status[s] # "DELETED"
      PROVE  signup'[s][req[q].user] = "CONFIRMED"
  <2>1. signup[s][req[q].user] = "CONFIRMED" /\ req[q].user \in Volunteers
    BY <1>3, HandlerOf DEF CancelsHoldSeat, About, SignupHandlers
  <2>2. CASE About(r, s)
    <3>1. req[q].user # req[r].user
      BY <1>3, <2>2 DEF RowsApart
    <3> QED
      BY <2>1, <2>2, <3>1, OthersRows
  <2>3. CASE ~About(r, s)
    BY <2>1, <2>3, BookingElsewhere
  <2> QED
    BY <2>2, <2>3
<1>4. ASSUME GoesOn(r), About(r, s)'
      PROVE  /\ req'[r].op # "assign"
             /\ req'[r].op = "cancel" /\ req'[r].view.own = "CONFIRMED" =>
                  status'[s] = "DELETED" \/ signup'[s][req'[r].user] = "CONFIRMED"
  <2>1. About(r, s) /\ req'[r].op = req[r].op /\ req'[r].user = req[r].user
    BY <1>4, GoesOnAbout DEF About
  <2>2. CASE CancelBegin(r)
    <3>1. PICK h \in SignupHandlers : h = req[r]
      BY <2>1, HandlerOf DEF About
    <3>2. PICK next : req' = [req EXCEPT ![r] = [h EXCEPT !.phase = "tx", !.next = next]]
      BY <2>2, <3>1 DEF CancelBegin
    <3>3. req'[r].view = h.view /\ UNCHANGED <<status, signup>>
      BY <2>2, <3>2 DEF CancelBegin, TypeOK, SignupHandlers, shiftVars, signupVars
    <3> QED
      BY <2>1, <3>1, <3>3 DEF CancelsHoldSeat
  <2>3. CASE JoinWaitlistBegin(r) \/ CheckinLock(r)
    BY <2>1, <2>3 DEF JoinWaitlistBegin, CheckinLock, At
  <2>4. CASE ~CancelBegin(r) /\ ~JoinWaitlistBegin(r) /\ ~CheckinLock(r)
    <3>1. req'[r] = Idle
      BY <1>4, <2>4 DEF GoesOn, SignUpCommit, AssignCommit, CancelCommit, JoinWaitlistCommit,
         LeaveWaitlistCommit, MarkCommit, Finish, TypeOK
    <3> QED
      BY <1>4, <3>1 DEF About, InBooking
  <2> QED
    BY <2>2, <2>3, <2>4
<1>5. ASSUME ~GoesOn(r), About(r, s)'
      PROVE  /\ req'[r].op # "assign"
             /\ req'[r].op = "cancel" => signup'[s][req'[r].user] = req'[r].view.own
  <2>1. \/ \E t \in Shifts, u \in Volunteers, op \in SignupOps \ {"assign", "mark"} :
             req'[r] = Reading(op, t, u)
        \/ req'[r].op = "mark"
    BY <1>5, NewRequests DEF BoundOps, About
  <2>2. UNCHANGED signup
    BY <1>5, BookingKinds
  <2> QED
    <3>1. CASE req'[r].op = "mark"
      BY <3>1
    <3>2. ASSUME NEW t \in Shifts, NEW u \in Volunteers, NEW op \in SignupOps \ {"assign", "mark"},
                 req'[r] = Reading(op, t, u)
          PROVE  req'[r].op # "assign" /\ signup'[s][req'[r].user] = req'[r].view.own
      <4>1. /\ req'[r].op = op /\ req'[r].shift = t /\ req'[r].user = u
            /\ req'[r].view = View(t, u)
        BY <3>2 DEF Reading
      <4>2. t = s
        BY <1>5, <4>1 DEF About
      <4> QED
        BY <2>2, <4>1, <4>2 DEF View
    <3> QED
      BY <2>1, <3>1, <3>2
<1> QED
  BY <1>1, <1>2, <1>3, <1>4, <1>5 DEF CancelsHoldSeat

LEMMA BoundStep ==
  ASSUME Ops \subseteq BoundOps, TypeOK, TypeOK', RowsHaveShift, LockedRowsExist,
         MarksConfirmedSeat, PromotersHeldSeats, NEW s \in Shifts, NEW n \in Nat \ {0},
         RowsApart(s), FewSignUps(s, n), FewSignUps(s, n)', SeatBound(s, n), CancelsHoldSeat(s),
         [Next]_vars
  PROVE  SeatBound(s, n)' /\ CancelsHoldSeat(s)'
<1> USE DEF shiftVars, signupVars, stampVars
<1>1. ASSUME NEW r \in Requests, BookingStep(r)
      PROVE  SeatBound(s, n)' /\ CancelsHoldSeat(s)'
  <2>1. CASE About(r, s) \/ About(r, s)'
    BY <1>1, <2>1, BookingKeepsBound, BookingKeepsCancels
  <2>2. CASE ~About(r, s) /\ ~About(r, s)'
    <3>1. /\ capacity'[s] = capacity[s] /\ status'[s] = status[s] /\ signup'[s] = signup[s]
          /\ \A q \in Requests \ {r} : req'[q] = req[q]
      BY <1>1, <2>2, BookingElsewhere, BookingAlone
    <3>2. SigningUp(s)' = SigningUp(s) /\ Confirmed(s)' = Confirmed(s)
      BY <2>2, <3>1 DEF SigningUp, About, InBooking, Confirmed
    <3> QED
      BY <1>1, <3>1, <3>2, BookingKeepsCancels DEF SeatBound, Exists
  <2> QED
    BY <2>1, <2>2
<1>2. ASSUME capacity'[s] = capacity[s], signup'[s] = signup[s],
             status'[s] = status[s] \/ (Exists(s) /\ status'[s] \in Closed),
             \A q \in Requests : InBooking(q) \/ InBooking(q)' => req'[q] = req[q]
      PROVE  SeatBound(s, n)' /\ CancelsHoldSeat(s)'
  <2>1. \A q \in Requests : About(q, s)' <=> About(q, s)
    BY <1>2 DEF About, InBooking
  <2>2. SigningUp(s)' = SigningUp(s) /\ Confirmed(s)' = Confirmed(s)
    BY <1>2, <2>1 DEF SigningUp, About, Confirmed
  <2>3. (Exists(s)' => Exists(s)) /\ (status[s] = "DELETED" => status'[s] = "DELETED")
    BY <1>2 DEF Exists, Active, Closed
  <2>4. CancelsHoldSeat(s)'
    BY <1>2, <2>1, <2>3 DEF CancelsHoldSeat, About
  <2> QED
    BY <1>2, <2>2, <2>3, <2>4 DEF SeatBound
<1>3. CASE RosterNext \/ \E r \in Requests : AddVolunteerCommit(r)
  <2>1. UNCHANGED <<status, capacity, signup>>
    BY <1>3 DEF RosterNext, AddVolunteerRead, AddVolunteerCommit, RemoveVolunteer, LeaveOrg
  <2> QED
    BY <1>2, <1>3, <2>1, RosterAlone
<1>4. CASE ShiftNext
  <2>1. ASSUME NEW t \in Shifts, Finalizes(t) PROVE SeatBound(s, n)' /\ CancelsHoldSeat(s)'
    BY <1>2, <2>1 DEF Finalizes
  <2>2. ASSUME NEW t \in Shifts, Replaces(t), t # s
        PROVE  SeatBound(s, n)' /\ CancelsHoldSeat(s)'
    BY <1>2, <2>2 DEF Replaces
  <2>3. ASSUME Replaces(s) PROVE SeatBound(s, n)' /\ CancelsHoldSeat(s)'
    <3>1. Cardinality(Confirmed(s))' = 0
      BY <2>3, FS_EmptySet DEF Replaces
    <3>2. capacity'[s] \in Nat \ {0}
      BY CapacitiesAssumption DEF TypeOK
    <3>3. SigningUp(s)' = SigningUp(s) /\ \A q \in Requests : About(q, s)' <=> About(q, s)
      BY <2>3 DEF Replaces, SigningUp, About, InBooking
    <3>4. SeatBound(s, n)'
      BY <3>1, <3>2, <3>3, SigningUpCount DEF SeatBound, FewSignUps
    <3>5. CASE status'[s] = "DELETED"
      BY <2>3, <3>3, <3>4, <3>5 DEF CancelsHoldSeat, Replaces
    <3>6. CASE status[s] = "ABSENT"
      <4>1. Rows(s) = {}
        BY <3>6 DEF RowsHaveShift, Exists, Active, Closed
      <4>2. ASSUME NEW q \in Requests, About(q, s)
            PROVE  signup[s][req[q].user] # "CONFIRMED"
        BY <4>1, <4>2, HandlerOf DEF About, Rows, SignupHandlers
      <4> QED
        BY <2>3, <3>3, <3>4, <3>6, <4>2 DEF CancelsHoldSeat, Replaces
    <3> QED
      BY <2>3, <3>5, <3>6 DEF Replaces
  <2>4. CASE UNCHANGED <<status, capacity, slot, signup, createdAt, req>>
    BY <1>2, <2>4
  <2> QED
    BY <1>4, <2>1, <2>2, <2>3, <2>4, ShiftStepKinds DEF BoundOps
<1>5. CASE CronScan \/ Tick \/ UNCHANGED vars
  BY <1>2, <1>5 DEF CronScan, Tick, vars
<1> QED
  BY <1>1, <1>3, <1>4, <1>5 DEF Next

\* A shift is overbooked by less than the number of sign-ups for it that ever overlap, so not
\* at all while they come one by one, however cancellations, promotions, the waitlist and
\* attendance race with them; only assignments beyond the capacity, edits of it and two
\* requests of one volunteer for the shift are excluded (signUpForShift, cancelSignup).
THEOREM OverbookingBounded ==
  ASSUME NEW s \in Shifts, NEW n \in Nat \ {0}, Ops \subseteq BoundOps
  PROVE  Spec /\ [](RowsApart(s) /\ FewSignUps(s, n)) =>
           [](Exists(s) => Cardinality(Confirmed(s)) <= capacity[s] + n - 1)
<1>1. Init => SeatBound(s, n) /\ CancelsHoldSeat(s)
  BY DEF Init, SeatBound, CancelsHoldSeat, Exists, Active, Closed, About, InBooking
<1>2. TypeOK /\ TypeOK' /\ BookingInv /\ LockInv /\ RowsApart(s) /\ FewSignUps(s, n)
        /\ FewSignUps(s, n)' /\ SeatBound(s, n) /\ CancelsHoldSeat(s) /\ [Next]_vars =>
          SeatBound(s, n)' /\ CancelsHoldSeat(s)'
  BY BoundStep DEF BookingInv, LockInv
<1>3. TypeOK /\ SeatBound(s, n) =>
        (Exists(s) => Cardinality(Confirmed(s)) <= capacity[s] + n - 1)
  BY SeatCount, SigningUpCount DEF SeatBound
<1> QED
  BY <1>1, <1>2, <1>3, TypeCorrect, BookingInvariant, LockInvariant, PTL DEF Spec

---------------------------------------------------------------------------
(* Schedules.                                                              *)

NobodyClashes(s) == \A u \in Volunteers : signup[s][u] = "CONFIRMED" => ~Clash(s, u)

ScheduleRight(s) == (status[s] \in Active => NobodyClashes(s)) /\ Waiting(s) = {}

AllSchedulesRight == \A s \in Shifts : ScheduleRight(s)

\* Unless the shift has been removed, it is as the request has read it or has ended, nobody
\* on it clashes when the request may reopen it, nor does who is about to be booked.
ScheduleCurrent(h) ==
  /\ status[h.shift] \in {h.view.status} \cup Closed
  /\ h.view.status \in Active => NobodyClashes(h.shift)
  /\ h.op \in {"signUp", "assign"} => h.view.status \in Active /\ ~Clash(h.shift, h.user)

SeesSchedule(r) ==
  InBooking(r) =>
    /\ req[r].op \notin {"joinWaitlist", "leaveWaitlist"} /\ req[r].next = NoOne
    /\ req[r].view.status \in Active \cup Closed
    /\ status[req[r].shift] = "DELETED" \/ ScheduleCurrent(req[r])

\* A clash is with another shift: what happens to the shift itself changes none of its
\* clashes, and a seat that is not new on a shift that does not reopen is no new clash.
LEMMA NoNewClash ==
  ASSUME NEW s \in Shifts, NEW u, slot'[s] = slot[s],
         \A t \in Shifts \ {s} :
           signup'[t][u] = "CONFIRMED" /\ status'[t] \notin Closed =>
             signup[t][u] = "CONFIRMED" /\ status[t] \notin Closed /\ slot'[t] = slot[t],
         Clash(s, u)'
  PROVE  Clash(s, u)
BY DEF Clash, Overlap

\* One shift changes: whoever has a seat there had it before or clashes with nothing, and
\* the shift keeps its status or nobody on it clashes.
LEMMA OneScheduleChanges ==
  ASSUME TypeOK, AllSchedulesRight, NEW s \in Shifts, UNCHANGED slot,
         \A t \in Shifts \ {s} : signup'[t] = signup[t] /\ status'[t] = status[t],
         \A u \in Volunteers :
           signup'[s][u] = "CONFIRMED" => signup[s][u] = "CONFIRMED" \/ ~Clash(s, u),
         status'[s] = status[s] \/ NobodyClashes(s),
         Waiting(s)' = {}
  PROVE  AllSchedulesRight'
<1>1. ScheduleRight(s)'
  <2> SUFFICES ASSUME status'[s] \in Active, NEW u \in Volunteers, signup'[s][u] = "CONFIRMED",
                      Clash(s, u)'
               PROVE  FALSE
    BY DEF ScheduleRight, NobodyClashes
  <2>1. Clash(s, u)
    BY NoNewClash
  <2>2. NobodyClashes(s)
    BY DEF AllSchedulesRight, ScheduleRight
  <2> QED
    BY <2>1, <2>2 DEF NobodyClashes
<1>2. ASSUME NEW t \in Shifts \ {s}, status'[t] \in Active,
             NEW u \in Volunteers, signup'[t][u] = "CONFIRMED", Clash(t, u)'
      PROVE  FALSE
  <2>1. status[t] \in Active /\ signup[t][u] = "CONFIRMED" /\ ~Clash(t, u)
    BY <1>2 DEF AllSchedulesRight, ScheduleRight, NobodyClashes
  <2>2. /\ signup'[s][u] = "CONFIRMED" /\ status'[s] \notin Closed
        /\ Overlap(slot[t], slot[s])
        /\ ~(signup[s][u] = "CONFIRMED" /\ status[s] \notin Closed)
    BY <1>2, <2>1 DEF Clash
  <2>3. Clash(s, u)
    BY <2>1, <2>2 DEF Clash, Overlap, Active, Closed
  <2>4. signup[s][u] = "CONFIRMED" /\ NobodyClashes(s)
    BY <2>2, <2>3
  <2> QED
    BY <2>3, <2>4 DEF NobodyClashes
<1>3. \A t \in Shifts \ {s} : Waiting(t)' = {}
  BY DEF AllSchedulesRight, ScheduleRight, Waiting
<1> QED
  BY <1>1, <1>2, <1>3 DEF AllSchedulesRight, ScheduleRight, NobodyClashes

---------------------------------------------------------------------------
(* Commits.                                                                *)

LEMMA FinishedSeesSchedule ==
  ASSUME TypeOK, NEW r \in Requests, Finish(r)
  PROVE  SeesSchedule(r)'
BY DEF TypeOK, Finish, SeesSchedule, InBooking

LEMMA RowKeepsSchedule ==
  ASSUME TypeOK, RowsHaveShift, NEW r \in Requests, InBooking(r), SeesSchedule(r),
         req[r].user \in Rows(req[r].shift) \/ Exists(req[r].shift)
  PROVE  ScheduleCurrent(req[r])
<1>1. req[r].shift \in Shifts
  BY HandlerOf DEF SignupHandlers
<1>2. Exists(req[r].shift)
  BY <1>1 DEF RowsHaveShift
<1> QED
  BY <1>2 DEF Exists, Active, Closed, SeesSchedule

LEMMA BookingKeepsSchedules ==
  ASSUME TypeOK, RowsHaveShift, AllSchedulesRight, NEW r \in Requests, SeesSchedule(r),
         SignUpCommit(r) \/ AssignCommit(r)
  PROVE  AllSchedulesRight'
<1>1. InBooking(r) /\ req[r].op \in {"signUp", "assign"}
  BY DEF SignUpCommit, AssignCommit, At, InBooking, Idle, SignupOps
<1>2. PICK h \in SignupHandlers : h = req[r]
  BY <1>1, HandlerOf
<1>3. PICK s \in Shifts, u \in Volunteers : s = h.shift /\ u = h.user
  BY DEF SignupHandlers
<1>4. ScheduleCurrent(h)
  <2>1. Exists(h.shift)
    BY <1>2 DEF SignUpCommit, AssignCommit, BookingWritable
  <2> QED
    BY <1>1, <1>2, <2>1, RowKeepsSchedule
<1>5. /\ signup' = [signup EXCEPT ![s][u] = "CONFIRMED"] /\ slot' = slot
      /\ status' = status \/ status' = [status EXCEPT ![s] = "FULL"]
  BY <1>2, <1>3 DEF SignUpCommit, AssignCommit, ConfirmRow
<1>6. ~Clash(s, u) /\ NobodyClashes(s)
  BY <1>1, <1>2, <1>3, <1>4 DEF ScheduleCurrent
<1>7. Waiting(s)' = {}
  BY <1>5 DEF AllSchedulesRight, ScheduleRight, Waiting, TypeOK
<1>8. \A t \in Shifts \ {s} : signup'[t] = signup[t] /\ status'[t] = status[t]
  BY <1>5 DEF TypeOK
<1>9. \A w \in Volunteers :
        signup'[s][w] = "CONFIRMED" => signup[s][w] = "CONFIRMED" \/ ~Clash(s, w)
  BY <1>5, <1>6 DEF TypeOK
<1> QED
  BY <1>5, <1>6, <1>7, <1>8, <1>9, OneScheduleChanges

LEMMA CancelKeepsSchedules ==
  ASSUME TypeOK, RowsHaveShift, LockedRowsExist, AllSchedulesRight, NEW r \in Requests,
         SeesSchedule(r), CancelCommit(r)
  PROVE  AllSchedulesRight'
<1>1. InBooking(r) /\ req[r].op = "cancel" /\ req[r].phase = "tx"
  BY DEF CancelCommit, At, InBooking, Idle, SignupOps
<1>2. PICK h \in SignupHandlers : h = req[r]
  BY <1>1, HandlerOf
<1>3. PICK s \in Shifts, u \in Volunteers : s = h.shift /\ u = h.user
  BY DEF SignupHandlers
<1>4. ScheduleCurrent(h) /\ h.next = NoOne
  <2>1. h.user \in Rows(h.shift)
    BY <1>1, <1>2 DEF LockedRowsExist
  <2> QED
    BY <1>1, <1>2, <2>1, RowKeepsSchedule DEF SeesSchedule
<1>5. /\ signup' = [signup EXCEPT ![s] =
           [w \in Volunteers |-> IF w = u THEN "CANCELLED" ELSE signup[s][w]]]
      /\ slot' = slot
      /\ status' = status \/ (h.view.status = "FULL" /\ status' = [status EXCEPT ![s] = "OPEN"])
  BY <1>2, <1>3, <1>4, NoOneAssumption DEF CancelCommit
<1>6. signup'[s] = [w \in Volunteers |-> IF w = u THEN "CANCELLED" ELSE signup[s][w]]
  BY <1>5 DEF TypeOK
<1>7. status'[s] = status[s] \/ NobodyClashes(s)
  BY <1>3, <1>4, <1>5 DEF ScheduleCurrent, Active
<1>8. Waiting(s)' = {}
  BY <1>6 DEF AllSchedulesRight, ScheduleRight, Waiting
<1>9. \A t \in Shifts \ {s} : signup'[t] = signup[t] /\ status'[t] = status[t]
  BY <1>5 DEF TypeOK
<1>10. \A w \in Volunteers : signup'[s][w] = "CONFIRMED" => signup[s][w] = "CONFIRMED"
  BY <1>6
<1> QED
  BY <1>5, <1>7, <1>8, <1>9, <1>10, OneScheduleChanges

LEMMA MarkKeepsSchedules ==
  ASSUME TypeOK, MarksConfirmedSeat, AllSchedulesRight, NEW r \in Requests, MarkCommit(r)
  PROVE  AllSchedulesRight'
<1>1. InBooking(r) /\ At(r, "tx", "mark")
  BY DEF MarkCommit, At, InBooking, Idle, SignupOps
<1>2. PICK h \in SignupHandlers : h = req[r]
  BY <1>1, HandlerOf
<1>3. PICK s \in Shifts, u \in Volunteers : s = h.shift /\ u = h.user
  BY DEF SignupHandlers
<1>4. /\ signup' = [signup EXCEPT ![s][u] = h.mark] /\ h.mark \in Recorded
      /\ UNCHANGED <<status, slot>>
  BY <1>1, <1>2, <1>3 DEF MarkCommit, MarksConfirmedSeat, shiftVars
<1>5. \A w \in Volunteers :
        /\ signup'[s][w] = "CONFIRMED" => signup[s][w] = "CONFIRMED"
        /\ signup'[s][w] = "WAITLISTED" => signup[s][w] = "WAITLISTED"
  BY <1>4 DEF TypeOK, Recorded
<1>6. Waiting(s)' = {}
  BY <1>5 DEF AllSchedulesRight, ScheduleRight, Waiting
<1>7. \A t \in Shifts \ {s} : signup'[t] = signup[t] /\ status'[t] = status[t]
  BY <1>4 DEF TypeOK
<1> QED
  BY <1>4, <1>5, <1>6, <1>7, OneScheduleChanges

---------------------------------------------------------------------------
(* Reads, and what happens beside a request.                               *)

LEMMA SchedulesUnchanged ==
  ASSUME AllSchedulesRight, UNCHANGED <<status, slot, signup>>
  PROVE  AllSchedulesRight'
BY DEF AllSchedulesRight, ScheduleRight, NobodyClashes, Clash, Waiting

LEMMA ReadSeesSchedule ==
  ASSUME TypeOK, AllSchedulesRight, NEW r \in Requests, NEW s \in Shifts, NEW u \in Volunteers,
         NEW h, req' = [req EXCEPT ![r] = h], UNCHANGED <<status, slot, signup>>,
         h.op \notin {"joinWaitlist", "leaveWaitlist"}, h.next = NoOne,
         h.shift = s, h.user = u, h.view = View(s, u), Exists(s),
         h.op \in {"signUp", "assign"} => status[s] \in Active /\ ~Clash(s, u)
  PROVE  SeesSchedule(r)'
<1>1. req'[r] = h
  BY DEF TypeOK
<1>2. ScheduleRight(s) /\ h.view.status = status[s]
  BY DEF AllSchedulesRight, View
<1>3. ScheduleCurrent(h)
  BY <1>2 DEF ScheduleCurrent, ScheduleRight
<1>4. ScheduleCurrent(h)'
  BY <1>3 DEF ScheduleCurrent, NobodyClashes, Clash
<1> QED
  BY <1>1, <1>2, <1>4 DEF SeesSchedule, Exists

\* A step that leaves the request's shift as it is, or removes or ends it, and makes no seat
\* of it a clash.
LEMMA BesideSeesSchedule ==
  ASSUME TypeOK, NEW r \in Requests, InBooking(r), SeesSchedule(r), UNCHANGED req,
         \/ status'[req[r].shift] = "DELETED"
         \/ /\ status'[req[r].shift] \in {status[req[r].shift]} \cup Closed
            /\ status[req[r].shift] # "DELETED"
            /\ signup'[req[r].shift] = signup[req[r].shift]
            /\ \A u \in Volunteers : Clash(req[r].shift, u)' => Clash(req[r].shift, u)
  PROVE  SeesSchedule(r)'
<1>1. PICK h \in SignupHandlers : h = req[r]
  BY HandlerOf
<1>2. h.shift \in Shifts /\ h.user \in Volunteers /\ req'[r] = h
  BY <1>1 DEF SignupHandlers
<1>3. CASE status'[h.shift] = "DELETED"
  BY <1>1, <1>2, <1>3 DEF SeesSchedule
<1>4. CASE status'[h.shift] # "DELETED"
  <2>1. ScheduleCurrent(h)
    BY <1>1, <1>4 DEF SeesSchedule
  <2>2. ScheduleCurrent(h)'
    BY <1>1, <1>2, <1>4, <2>1 DEF ScheduleCurrent, NobodyClashes
  <2> QED
    BY <1>1, <1>2, <2>2 DEF SeesSchedule
<1> QED
  BY <1>1, <1>3, <1>4

LEMMA FinalizingKeepsSchedules ==
  ASSUME TypeOK, AllSchedulesRight, NEW r \in Requests, SeesSchedule(r), NEW s, Finalizes(s)
  PROVE  AllSchedulesRight' /\ SeesSchedule(r)'
<1>1. \A t \in Shifts : \A u \in Volunteers : Clash(t, u)' => Clash(t, u)
  <2> SUFFICES ASSUME NEW t \in Shifts, NEW u \in Volunteers, Clash(t, u)' PROVE Clash(t, u)
    OBVIOUS
  <2>1. \A x \in Shifts \ {t} :
          signup'[x][u] = "CONFIRMED" /\ status'[x] \notin Closed =>
            signup[x][u] = "CONFIRMED" /\ status[x] \notin Closed /\ slot'[x] = slot[x]
    BY DEF Finalizes
  <2> QED
    BY <2>1, NoNewClash DEF Finalizes
<1>2. AllSchedulesRight'
  <2> SUFFICES ASSUME NEW t \in Shifts PROVE ScheduleRight(t)'
    BY DEF AllSchedulesRight
  <2>1. ScheduleRight(t)
    BY DEF AllSchedulesRight
  <2>2. status'[t] \in Active => status[t] \in Active
    BY DEF Finalizes, Active, Closed
  <2>3. Waiting(t)' = {}
    BY <2>1 DEF ScheduleRight, Waiting, Finalizes
  <2>4. NobodyClashes(t) => NobodyClashes(t)'
    BY <1>1 DEF NobodyClashes, Finalizes
  <2> QED
    BY <2>1, <2>2, <2>3, <2>4 DEF ScheduleRight
<1>3. ASSUME InBooking(r) PROVE SeesSchedule(r)'
  <2>1. req[r].shift \in Shifts
    BY <1>3, HandlerOf DEF SignupHandlers
  <2>2. \/ status'[req[r].shift] = "DELETED"
        \/ /\ status'[req[r].shift] \in {status[req[r].shift]} \cup Closed
           /\ status[req[r].shift] # "DELETED"
    BY <2>1 DEF Finalizes, Exists, Active, Closed
  <2> QED
    BY <1>1, <1>3, <2>1, <2>2, BesideSeesSchedule DEF Finalizes
<1>4. InBooking(r)' => InBooking(r)
  BY DEF InBooking, Finalizes
<1> QED
  BY <1>2, <1>3, <1>4 DEF SeesSchedule

LEMMA ReplacingKeepsSchedules ==
  ASSUME TypeOK, AllSchedulesRight, NEW r \in Requests, SeesSchedule(r), NEW s, Replaces(s)
  PROVE  AllSchedulesRight' /\ SeesSchedule(r)'
<1>1. \A u \in Volunteers : signup'[s][u] # "CONFIRMED"
  BY DEF Replaces, Confirmed
<1>2. \A t \in Shifts \ {s} : \A u \in Volunteers : Clash(t, u)' => Clash(t, u)
  <2> SUFFICES ASSUME NEW t \in Shifts \ {s}, NEW u \in Volunteers, Clash(t, u)'
               PROVE  Clash(t, u)
    OBVIOUS
  <2>1. \A x \in Shifts \ {t} :
          signup'[x][u] = "CONFIRMED" /\ status'[x] \notin Closed =>
            signup[x][u] = "CONFIRMED" /\ status[x] \notin Closed /\ slot'[x] = slot[x]
    BY <1>1 DEF Replaces
  <2> QED
    BY <2>1, NoNewClash DEF Replaces
<1>3. AllSchedulesRight'
  <2>1. ScheduleRight(s)'
    BY <1>1 DEF ScheduleRight, NobodyClashes, Replaces
  <2>2. ASSUME NEW t \in Shifts \ {s} PROVE ScheduleRight(t)'
    <3>1. ScheduleRight(t)
      BY DEF AllSchedulesRight
    <3>2. Waiting(t)' = {} /\ status'[t] = status[t]
      BY <3>1 DEF ScheduleRight, Waiting, Replaces
    <3>3. NobodyClashes(t) => NobodyClashes(t)'
      BY <1>2 DEF NobodyClashes, Replaces
    <3> QED
      BY <3>1, <3>2, <3>3 DEF ScheduleRight
  <2> QED
    BY <2>1, <2>2 DEF AllSchedulesRight
<1>4. ASSUME InBooking(r) PROVE SeesSchedule(r)'
  <2>1. req[r].shift \in Shifts
    BY <1>4, HandlerOf DEF SignupHandlers
  <2>2. CASE req[r].shift = s
    <3>1. status[s] # "ABSENT"
      BY <1>4, <2>2 DEF SeesSchedule, ScheduleCurrent, Active, Closed
    <3>2. status'[s] = "DELETED"
      BY <3>1 DEF Replaces
    <3> QED
      BY <1>4, <2>2, <3>2, BesideSeesSchedule DEF Replaces
  <2>3. CASE req[r].shift # s
    <3>1. status'[req[r].shift] = status[req[r].shift]
          /\ signup'[req[r].shift] = signup[req[r].shift]
      BY <2>1, <2>3 DEF Replaces
    <3> QED
      BY <1>2, <1>4, <2>1, <2>3, <3>1, BesideSeesSchedule DEF Replaces
  <2> QED
    BY <2>2, <2>3
<1>5. InBooking(r)' => InBooking(r)
  BY DEF InBooking, Replaces
<1> QED
  BY <1>3, <1>4, <1>5 DEF SeesSchedule

LEMMA RestKeepsSchedules ==
  ASSUME AllSchedulesRight, NEW r \in Requests, SeesSchedule(r),
         UNCHANGED <<status, slot, signup, req>>
  PROVE  AllSchedulesRight' /\ SeesSchedule(r)'
<1>1. SeesSchedule(r)'
  BY DEF SeesSchedule, InBooking, ScheduleCurrent, NobodyClashes, Clash
<1> QED
  BY <1>1, SchedulesUnchanged

---------------------------------------------------------------------------
(* Every step.                                                             *)

ScheduleOps == AllOps \ {"joinWaitlist", "updateShift"}

LEMMA BookingStepSchedules ==
  ASSUME TypeOK, RowsHaveShift, LockedRowsExist, MarksConfirmedSeat, Ops \subseteq ScheduleOps,
         AllSchedulesRight, NEW r \in Requests, SeesSchedule(r), BookingStep(r)
  PROVE  AllSchedulesRight' /\ SeesSchedule(r)'
<1> USE DEF shiftVars, signupVars, stampVars
<1>1. ASSUME NEW s \in Shifts, NEW u \in Volunteers,
             \/ SignUpRead(r, s, u)
             \/ \E over \in BOOLEAN : AssignRead(r, s, u, over)
      PROVE  AllSchedulesRight' /\ SeesSchedule(r)'
  <2>1. PICK op \in {"signUp", "assign"} : req' = [req EXCEPT ![r] = Reading(op, s, u)]
    BY <1>1 DEF SignUpRead, AssignRead, Start
  <2>2. /\ UNCHANGED <<status, slot, signup>> /\ Exists(s)
        /\ status[s] \in Active /\ ~Clash(s, u)
    BY <1>1 DEF SignUpRead, AssignRead, ValidateSignup
  <2>3. PICK h : h = Reading(op, s, u)
    OBVIOUS
  <2>4. h.op = op /\ h.next = NoOne /\ h.shift = s /\ h.user = u /\ h.view = View(s, u)
    BY <2>3 DEF Reading
  <2> QED
    BY <2>1, <2>2, <2>3, <2>4, SchedulesUnchanged, ReadSeesSchedule
<1>2. ASSUME NEW s \in Shifts, NEW u \in Volunteers, CancelRead(r, s, u)
      PROVE  AllSchedulesRight' /\ SeesSchedule(r)'
  <2>1. /\ req' = [req EXCEPT ![r] = Reading("cancel", s, u)]
        /\ UNCHANGED <<status, slot, signup>> /\ signup[s][u] # "NONE"
    BY <1>2 DEF CancelRead, Start
  <2>2. Exists(s)
    BY <2>1 DEF RowsHaveShift, Rows
  <2>3. PICK h : h = Reading("cancel", s, u)
    OBVIOUS
  <2>4. h.op = "cancel" /\ h.next = NoOne /\ h.shift = s /\ h.user = u /\ h.view = View(s, u)
    BY <2>3 DEF Reading
  <2> QED
    BY <2>1, <2>2, <2>3, <2>4, SchedulesUnchanged, ReadSeesSchedule
<1>3. ASSUME NEW s \in Shifts, NEW u \in Volunteers,
             JoinWaitlistRead(r, s, u) \/ LeaveWaitlistRead(r, s, u)
      PROVE  FALSE
  BY <1>3 DEF JoinWaitlistRead, LeaveWaitlistRead, ScheduleOps, AllSchedulesRight,
              ScheduleRight, Waiting
<1>4. ASSUME NEW s \in Shifts, NEW u \in Volunteers, NEW mark \in Recorded,
             LockForMark(r, s, u, mark)
      PROVE  AllSchedulesRight' /\ SeesSchedule(r)'
  <2>1. /\ req' = [req EXCEPT ![r] = [Reading("mark", s, u) EXCEPT !.phase = "tx", !.mark = mark]]
        /\ UNCHANGED <<status, slot, signup>> /\ signup[s][u] # "NONE"
    BY <1>4 DEF LockForMark
  <2>2. Exists(s)
    BY <2>1 DEF RowsHaveShift, Rows
  <2>3. PICK h : h = [Reading("mark", s, u) EXCEPT !.phase = "tx", !.mark = mark]
    OBVIOUS
  <2>4. h.op = "mark" /\ h.next = NoOne /\ h.shift = s /\ h.user = u /\ h.view = View(s, u)
    BY <2>3 DEF Reading
  <2> QED
    BY <2>1, <2>2, <2>3, <2>4, SchedulesUnchanged, ReadSeesSchedule
<1>5. ASSUME NEW s \in Shifts, NEW u \in Volunteers, CheckinRead(r, s, u)
      PROVE  AllSchedulesRight' /\ SeesSchedule(r)'
  <2>1. /\ req' = [req EXCEPT ![r] = [Reading("mark", s, u) EXCEPT !.mark = "ATTENDED"]]
        /\ UNCHANGED <<status, slot, signup>> /\ Exists(s)
    BY <1>5 DEF CheckinRead, Start, Exists
  <2>2. PICK h : h = [Reading("mark", s, u) EXCEPT !.mark = "ATTENDED"]
    OBVIOUS
  <2>3. h.op = "mark" /\ h.next = NoOne /\ h.shift = s /\ h.user = u /\ h.view = View(s, u)
    BY <2>2 DEF Reading
  <2> QED
    BY <2>1, <2>2, <2>3, SchedulesUnchanged, ReadSeesSchedule
<1>6. CASE CheckinLock(r)
  <2>1. InBooking(r)
    BY <1>6 DEF CheckinLock, At, InBooking, Idle, SignupOps
  <2>2. req[r].shift \in Shifts /\ req[r].user \in Volunteers
    BY <2>1, HandlerOf DEF SignupHandlers
  <2> QED
    BY <1>4, <1>6, <2>2 DEF CheckinLock, Recorded
<1>7. CASE JoinWaitlistBegin(r) \/ JoinWaitlistCommit(r) \/ LeaveWaitlistCommit(r)
  <2>1. InBooking(r) /\ req[r].op \in {"joinWaitlist", "leaveWaitlist"}
    BY <1>7 DEF JoinWaitlistBegin, JoinWaitlistCommit, LeaveWaitlistCommit, At, InBooking,
                Idle, SignupOps
  <2> QED
    BY <2>1 DEF SeesSchedule
<1>8. CASE SignUpCommit(r) \/ AssignCommit(r)
  BY <1>8, BookingKeepsSchedules, FinishedSeesSchedule DEF SignUpCommit, AssignCommit
<1>9. CASE CancelCommit(r)
  BY <1>9, CancelKeepsSchedules, FinishedSeesSchedule DEF CancelCommit
<1>10. CASE MarkCommit(r)
  BY <1>10, MarkKeepsSchedules, FinishedSeesSchedule DEF MarkCommit
<1>11. CASE CancelBegin(r)
  <2>1. InBooking(r)
    BY <1>11 DEF CancelBegin, At, InBooking, Idle, SignupOps
  <2>2. PICK g \in SignupHandlers : g = req[r]
    BY <2>1, HandlerOf
  <2>3. PICK next \in Volunteers \cup {NoOne} :
          /\ IF g.view.own = "CONFIRMED" THEN IsNextWaitlistEntry(next, g.shift, g.user)
                                         ELSE next = NoOne
          /\ req' = [req EXCEPT ![r] = [g EXCEPT !.phase = "tx", !.next = next]]
    BY <1>11, <2>2 DEF CancelBegin
  <2>4. next = NoOne
    <3>1. Waiting(g.shift) = {}
      BY DEF SignupHandlers, AllSchedulesRight, ScheduleRight
    <3> QED
      BY <2>3, <3>1 DEF IsNextWaitlistEntry
  <2>5. PICK h : h = [g EXCEPT !.phase = "tx", !.next = next]
    OBVIOUS
  <2>6. h.op = g.op /\ h.shift = g.shift /\ h.user = g.user /\ h.view = g.view /\ h.next = NoOne
    BY <2>4, <2>5 DEF SignupHandlers
  <2>7. UNCHANGED <<status, slot, signup>> /\ req'[r] = h
    BY <1>11, <2>3, <2>5 DEF CancelBegin, TypeOK
  <2>8. ScheduleCurrent(g) => ScheduleCurrent(h)'
    BY <2>6, <2>7 DEF ScheduleCurrent, NobodyClashes, Clash
  <2> QED
    BY <2>1, <2>2, <2>6, <2>7, <2>8, SchedulesUnchanged DEF SeesSchedule
<1>12. CASE Rollback(r)
  BY <1>12, SchedulesUnchanged, FinishedSeesSchedule DEF Rollback
<1> QED
  BY <1>1, <1>2, <1>3, <1>4, <1>5, <1>6, <1>7, <1>8, <1>9, <1>10, <1>11, <1>12
     DEF BookingStep, StaffMark

LEMMA ScheduleStep ==
  ASSUME NEW r, Requests = {r}, Ops \subseteq ScheduleOps, TypeOK, RowsHaveShift,
         LockedRowsExist, MarksConfirmedSeat, AllSchedulesRight, SeesSchedule(r), [Next]_vars
  PROVE  AllSchedulesRight' /\ SeesSchedule(r)'
<1> USE DEF shiftVars, signupVars, stampVars
<1>1. CASE BookingStep(r)
  BY <1>1, BookingStepSchedules
<1>2. CASE RosterNext
  <2>1. ASSUME NEW u \in Volunteers, AddVolunteerRead(r, u)
        PROVE  AllSchedulesRight' /\ SeesSchedule(r)'
    <3>1. req'[r].op = "addVolunteer" /\ UNCHANGED <<status, slot, signup>>
      BY <2>1 DEF AddVolunteerRead, Start, TypeOK
    <3>2. SeesSchedule(r)'
      BY <3>1 DEF SeesSchedule, InBooking, SignupOps
    <3> QED
      BY <3>1, <3>2, SchedulesUnchanged
  <2>2. ASSUME NEW u \in Volunteers, RemoveVolunteer(u) \/ LeaveOrg(u)
        PROVE  AllSchedulesRight' /\ SeesSchedule(r)'
    BY <2>2, RestKeepsSchedules DEF RemoveVolunteer, LeaveOrg
  <2> QED
    BY <1>2, <2>1, <2>2 DEF RosterNext
<1>3. CASE AddVolunteerCommit(r)
  BY <1>3, FinishedSeesSchedule, SchedulesUnchanged DEF AddVolunteerCommit
<1>4. CASE ShiftNext
  <2>1. "updateShift" \notin Ops
    BY DEF ScheduleOps
  <2> QED
    BY <1>4, <2>1, ShiftStepKinds, FinalizingKeepsSchedules, ReplacingKeepsSchedules,
       RestKeepsSchedules
<1>5. CASE CronScan \/ Tick
  BY <1>5, RestKeepsSchedules DEF CronScan, Tick
<1>6. CASE UNCHANGED vars
  BY <1>6, RestKeepsSchedules DEF vars
<1> QED
  BY <1>1, <1>2, <1>3, <1>4, <1>5, <1>6 DEF Next

LEMMA InitSchedules ==
  ASSUME NEW r \in Requests
  PROVE  Init => AllSchedulesRight /\ SeesSchedule(r)
BY DEF Init, AllSchedulesRight, ScheduleRight, Waiting, SeesSchedule, InBooking, Active

\* The strengthening behind NoDoubleBooking: no active shift holds a volunteer whose seats
\* overlap, nobody waits, and what the request in flight has checked still holds.
THEOREM SerialSchedules ==
  ASSUME NEW q, Requests = {q}, Ops \subseteq ScheduleOps
  PROVE  Spec => [](AllSchedulesRight /\ SeesSchedule(q))
<1>1. /\ Init => AllSchedulesRight /\ SeesSchedule(q)
      /\ TypeOK /\ BookingInv /\ LockInv /\ AllSchedulesRight /\ SeesSchedule(q)
           /\ [Next]_vars => AllSchedulesRight' /\ SeesSchedule(q)'
  BY InitSchedules, ScheduleStep DEF BookingInv, LockInv
<1> QED
  BY <1>1, TypeCorrect, BookingInvariant, LockInvariant, PTL DEF Spec

\* A volunteer is never confirmed on two active shifts that overlap, as long as requests come
\* one at a time, nobody joins a waitlist and no shift is moved: sign-ups and assignments
\* check it, and no cancellation, mark or ended shift brings a clash back (validateSignup).
THEOREM SerialNoDoubleBooking ==
  ASSUME NEW q, Requests = {q}, Ops \subseteq ScheduleOps
  PROVE  Spec => []NoDoubleBooking
<1>1. AllSchedulesRight /\ SeesSchedule(q) => NoDoubleBooking
  BY DEF AllSchedulesRight, ScheduleRight, NobodyClashes, NoDoubleBooking
<1> QED
  BY <1>1, SerialSchedules, PTL
---------------------------------------------------------------------------
(* Schedules while only the requests of one volunteer come one at a time.  *)

RequestOf(r, u) == InBooking(r) /\ req[r].user = u

OneRequestOf(u) == \A r, q \in Requests : RequestOf(r, u) /\ RequestOf(q, u) => r = q

\* The requests that, late, bring a closed shift back or put somebody on it.
Reopening == {"signUp", "assign", "cancel"}

\* A shift ends only while no such request is about it.
EndsQuietly ==
  \A s \in Shifts :
    status[s] \in Active /\ status'[s] \in Closed =>
      \A r \in Requests : ~(About(r, s) /\ req[r].op \in Reopening)

\* The seats that count for a clash.
Seats(u) == {s \in Shifts : signup[s][u] = "CONFIRMED" /\ status[s] \notin Closed}

SeatsCompatible(u) == \A s, t \in Seats(u) : s # t => ~Overlap(slot[s], slot[t])

\* A shift read as active is active or gone, no promotion is coming for the volunteer, and a
\* shift about to be booked for the volunteer clashes with no seat.
SeesScheduleOf(r, u) ==
  InBooking(r) =>
    /\ status[req[r].shift] # "ABSENT"
    /\ req[r].op # "joinWaitlist" /\ req[r].next # u
    /\ req[r].op \in Reopening /\ req[r].view.status \in Active =>
         status[req[r].shift] \in Active \cup {"DELETED"}
    /\ req[r].op \in {"signUp", "assign"} =>
         /\ req[r].view.status \in Active
         /\ req[r].user = u =>
              status[req[r].shift] = "DELETED" \/ ~Clash(req[r].shift, u)

ScheduleHolds(u) ==
  /\ SeatsCompatible(u)
  /\ \A s \in Shifts : signup[s][u] # "WAITLISTED"
  /\ \A r \in Requests : SeesScheduleOf(r, u)

LEMMA ClashIsWithSeat ==
  ASSUME NEW s, NEW u
  PROVE  Clash(s, u) <=> \E t \in Seats(u) \ {s} : Overlap(slot[s], slot[t])
BY DEF Clash, Seats

LEMMA NoNewSeat ==
  ASSUME NEW u, Seats(u)' \subseteq Seats(u), \A s \in Seats(u) : slot'[s] = slot[s],
         SeatsCompatible(u)
  PROVE  /\ SeatsCompatible(u)'
         /\ \A s \in Shifts : slot'[s] = slot[s] /\ Clash(s, u)' => Clash(s, u)
<1>1. SeatsCompatible(u)'
  BY DEF SeatsCompatible
<1>2. ASSUME NEW s \in Shifts, slot'[s] = slot[s], Clash(s, u)'
      PROVE  Clash(s, u)
  <2>1. PICK t \in Seats(u)' \ {s} : Overlap(slot'[s], slot'[t])
    BY <1>2 DEF Clash, Seats
  <2> QED
    BY <1>2, <2>1, ClashIsWithSeat
<1> QED
  BY <1>1, <1>2

LEMMA NewSeat ==
  ASSUME TypeOK, NEW u, NEW s \in Shifts, Seats(u)' \subseteq Seats(u) \cup {s}, slot' = slot,
         ~Clash(s, u), SeatsCompatible(u)
  PROVE  SeatsCompatible(u)'
<1>1. \A t \in Seats(u) \ {s} : ~Overlap(slot[s], slot[t])
  BY ClashIsWithSeat
<1>2. \A t \in Seats(u) \ {s} : ~Overlap(slot[t], slot[s])
  BY <1>1, TimesAssumption DEF Overlap, Seats, TypeOK
<1> QED
  BY <1>1, <1>2 DEF SeatsCompatible

\* A request that goes on books or gives up a seat of its shift.
LEMMA BookingKeepsSchedule ==
  ASSUME TypeOK, RowsHaveShift, LockedRowsExist, MarksConfirmedSeat,
         NEW u \in Volunteers, ScheduleHolds(u), NEW r \in Requests, GoesOn(r)
  PROVE  /\ SeatsCompatible(u)'
         /\ \A s \in Shifts : signup'[s][u] # "WAITLISTED"
         /\ \A s \in Shifts : status'[s] = status[s] \/ {status[s], status'[s]} \subseteq Active
         /\ slot' = slot
         /\ ~RequestOf(r, u) => Seats(u)' \subseteq Seats(u)
<1>1. PICK h \in SignupHandlers : h = req[r]
  BY GoesOnAbout
<1>2. PICK s \in Shifts, w \in Volunteers : s = h.shift /\ w = h.user
  BY DEF SignupHandlers
<1>3. InBooking(r) /\ SeesScheduleOf(r, u)
  BY GoesOnAbout DEF ScheduleHolds
<1>4. slot' = slot
  <2>1. BookingStep(r)
    BY DEF BookingStep, GoesOn
  <2> QED
    BY <2>1, BookingKeepsShifts
<1>5. CASE SignUpCommit(r) \/ AssignCommit(r)
  <2>1. Exists(s) /\ signup' = [signup EXCEPT ![s][w] = "CONFIRMED"]
        /\ (status' = status \/ status' = [status EXCEPT ![s] = "FULL"])
        /\ h.op \in {"signUp", "assign"}
    BY <1>1, <1>2, <1>5 DEF SignUpCommit, AssignCommit, BookingWritable, ConfirmRow, At
  <2>2. status[s] \in Active
    BY <1>1, <1>2, <1>3, <2>1 DEF SeesScheduleOf, Exists, Active, Closed, Reopening
  <2>3. \A t \in Shifts : status'[t] = status[t] \/ {status[t], status'[t]} \subseteq Active
    BY <2>1, <2>2 DEF TypeOK, Active
  <2>4. \A t \in Shifts : status'[t] \notin Closed => status[t] \notin Closed
    BY <2>3 DEF Active, Closed
  <2>5. \A t \in Shifts : signup'[t][u] = IF t = s /\ u = w THEN "CONFIRMED" ELSE signup[t][u]
    BY <2>1 DEF TypeOK
  <2>6. Seats(u)' \subseteq Seats(u) \cup (IF u = w THEN {s} ELSE {})
    BY <2>4, <2>5 DEF Seats
  <2>7. SeatsCompatible(u)'
    <3>1. CASE u = w
      <4>1. ~Clash(s, u)
        BY <1>1, <1>2, <1>3, <2>1, <2>2, <3>1 DEF SeesScheduleOf, Active
      <4> QED
        BY <1>4, <2>6, <3>1, <4>1, NewSeat DEF ScheduleHolds
    <3>2. CASE u # w
      BY <1>4, <2>6, <3>2, NoNewSeat DEF ScheduleHolds
    <3> QED
      BY <3>1, <3>2
  <2>8. \A t \in Shifts : signup'[t][u] # "WAITLISTED"
    BY <2>5 DEF ScheduleHolds
  <2> QED
    BY <1>1, <1>2, <1>3, <1>4, <2>3, <2>6, <2>7, <2>8 DEF RequestOf
<1>6. CASE ~(SignUpCommit(r) \/ AssignCommit(r))
  <2>1. \A t \in Shifts : status'[t] = status[t] \/ {status[t], status'[t]} \subseteq Active
    <3>1. CASE CancelCommit(r)
      <4>1. Exists(s) /\ h.op = "cancel"
        BY <1>1, <1>2, <3>1 DEF CancelCommit, At, LockedRowsExist, RowsHaveShift
      <4>2. \/ status' = status
            \/ status' = [status EXCEPT ![s] = "OPEN"] /\ h.view.status = "FULL"
        BY <1>1, <1>2, <3>1 DEF CancelCommit
      <4>3. h.view.status = "FULL" => status[s] \in Active
        BY <1>1, <1>2, <1>3, <4>1 DEF SeesScheduleOf, Exists, Active, Closed, Reopening
      <4> QED
        BY <4>2, <4>3 DEF TypeOK, Active
    <3>2. CASE ~CancelCommit(r)
      BY <1>6, <3>2 DEF GoesOn, CancelBegin, JoinWaitlistBegin, JoinWaitlistCommit,
         LeaveWaitlistCommit, CheckinLock, LockForMark, MarkCommit, shiftVars
    <3> QED
      BY <3>1, <3>2
  <2>2. \A t \in Shifts : signup'[t][u] \in {signup[t][u], "CANCELLED", "ATTENDED", "NO_SHOW"}
    <3>1. CASE CancelCommit(r)
      <4>1. h.next # u
        BY <1>1, <1>3 DEF SeesScheduleOf
      <4> QED
        BY <1>1, <1>2, <3>1, <4>1 DEF CancelCommit, TypeOK
    <3>2. CASE MarkCommit(r)
      BY <1>1, <1>2, <3>2 DEF MarkCommit, MarksConfirmedSeat, Recorded, TypeOK
    <3>3. CASE LeaveWaitlistCommit(r)
      BY <1>1, <1>2, <3>3 DEF LeaveWaitlistCommit, TypeOK
    <3>4. ~JoinWaitlistCommit(r)
      BY <1>3 DEF SeesScheduleOf, JoinWaitlistCommit, At
    <3>5. CASE CancelBegin(r) \/ JoinWaitlistBegin(r) \/ CheckinLock(r)
      BY <3>5 DEF CancelBegin, JoinWaitlistBegin, CheckinLock, LockForMark, signupVars
    <3> QED
      BY <1>6, <3>1, <3>2, <3>3, <3>4, <3>5 DEF GoesOn
  <2>3. Seats(u)' \subseteq Seats(u)
    BY <2>1, <2>2 DEF Seats, Active, Closed
  <2>4. SeatsCompatible(u)'
    BY <1>4, <2>3, NoNewSeat DEF ScheduleHolds
  <2>5. \A t \in Shifts : signup'[t][u] # "WAITLISTED"
    BY <2>2 DEF ScheduleHolds
  <2> QED
    BY <1>4, <2>1, <2>3, <2>4, <2>5
<1> QED
  BY <1>5, <1>6

\* What a request has seen stays so while shifts keep their status or stay active, and no
\* seat of the volunteer is new.
LEMMA SeenStays ==
  ASSUME NEW u, NEW q \in Requests, TypeOK, SeesScheduleOf(q, u), SeatsCompatible(u),
         req'[q] = req[q], slot' = slot,
         \A s \in Shifts : status'[s] = status[s] \/ {status[s], status'[s]} \subseteq Active,
         RequestOf(q, u) => Seats(u)' \subseteq Seats(u)
  PROVE  SeesScheduleOf(q, u)'
<1> SUFFICES ASSUME InBooking(q)' PROVE SeesScheduleOf(q, u)'
  BY DEF SeesScheduleOf
<1>1. InBooking(q)
  BY DEF InBooking
<1>2. PICK h \in SignupHandlers : h = req[q]
  BY <1>1, HandlerOf
<1>3. h.shift \in Shifts /\ req'[q] = h
  BY <1>2 DEF SignupHandlers
<1>4. status'[h.shift] = "DELETED" <=> status[h.shift] = "DELETED"
  BY <1>3 DEF Active
<1>5. h.user = u /\ Clash(h.shift, u)' => Clash(h.shift, u)
  BY <1>1, <1>2, <1>3, NoNewSeat DEF RequestOf
<1> QED
  BY <1>1, <1>2, <1>3, <1>4, <1>5 DEF SeesScheduleOf, Active

\* What a request sees when it starts, and when it opens its transaction.
LEMMA StartSeesSchedule ==
  ASSUME TypeOK, RowsHaveShift, Ops \subseteq ScheduleOps, NEW u \in Volunteers,
         ScheduleHolds(u), NEW r \in Requests, BookingStep(r), ~GoesOn(r)
  PROVE  SeesScheduleOf(r, u)'
<1>0. UNCHANGED <<status, slot, signup>>
  BY BookingKinds
<1>1. ASSUME NEW s \in Shifts, NEW w \in Volunteers, NEW h, req'[r] = h,
             h.shift = s, h.user = w, h.view = View(s, w), h.next = NoOne, Exists(s),
             h.op # "joinWaitlist",
             h.op \in {"signUp", "assign"} => status[s] \in Active /\ ~Clash(s, w)
      PROVE  SeesScheduleOf(r, u)'
  <2>1. h.view.status = status[s]
    BY <1>1 DEF View
  <2>2. Clash(s, w)' <=> Clash(s, w)
    BY <1>0 DEF Clash
  <2>3. status'[s] = status[s] /\ status[s] # "ABSENT"
    BY <1>0, <1>1 DEF Exists, Active, Closed
  <2> QED
    BY <1>1, <2>1, <2>2, <2>3, NoOneAssumption DEF SeesScheduleOf
<1>2. ASSUME NEW s \in Shifts, NEW w \in Volunteers, NEW op, Start(r, Reading(op, s, w)),
             Exists(s), op # "joinWaitlist",
             op \in {"signUp", "assign"} => status[s] \in Active /\ ~Clash(s, w)
      PROVE  SeesScheduleOf(r, u)'
  <2>1. PICK h : h = Reading(op, s, w)
    OBVIOUS
  <2>2. /\ h.shift = s /\ h.user = w /\ h.view = View(s, w) /\ h.next = NoOne /\ h.op = op
    BY <2>1 DEF Reading
  <2>3. req'[r] = h
    BY <1>2, <2>1 DEF Start, TypeOK
  <2> QED
    BY <1>1, <1>2, <2>2, <2>3
<1>3. ASSUME NEW s \in Shifts, NEW w \in Volunteers, SignUpRead(r, s, w)
      PROVE  SeesScheduleOf(r, u)'
  BY <1>2, <1>3 DEF SignUpRead, ValidateSignup
<1>4. ASSUME NEW s \in Shifts, NEW w \in Volunteers, NEW over \in BOOLEAN,
             AssignRead(r, s, w, over)
      PROVE  SeesScheduleOf(r, u)'
  BY <1>2, <1>4 DEF AssignRead, ValidateSignup
<1>5. ASSUME NEW s \in Shifts, NEW w \in Volunteers, CancelRead(r, s, w) \/ LeaveWaitlistRead(r, s, w)
      PROVE  SeesScheduleOf(r, u)'
  <2>1. Exists(s)
    BY <1>5 DEF CancelRead, LeaveWaitlistRead, RowsHaveShift, Rows
  <2>2. PICK op \in {"cancel", "leaveWaitlist"} : Start(r, Reading(op, s, w))
    BY <1>5 DEF CancelRead, LeaveWaitlistRead
  <2> QED
    BY <1>2, <2>1, <2>2
<1>6. ASSUME NEW s \in Shifts, NEW w \in Volunteers, CheckinRead(r, s, w)
      PROVE  SeesScheduleOf(r, u)'
  <2>1. PICK h : h = [Reading("mark", s, w) EXCEPT !.mark = "ATTENDED"]
    OBVIOUS
  <2>2. /\ h.shift = s /\ h.user = w /\ h.view = View(s, w) /\ h.next = NoOne /\ h.op = "mark"
    BY <2>1 DEF Reading
  <2>3. req'[r] = h /\ Exists(s)
    BY <1>6, <2>1 DEF CheckinRead, Start, TypeOK, Exists
  <2> QED
    BY <1>1, <2>2, <2>3
<1>7. ASSUME NEW s \in Shifts, NEW w \in Volunteers, NEW mark \in Recorded, StaffMark(r, s, w, mark)
      PROVE  SeesScheduleOf(r, u)'
  <2>1. PICK h : h = [Reading("mark", s, w) EXCEPT !.phase = "tx", !.mark = mark]
    OBVIOUS
  <2>2. /\ h.shift = s /\ h.user = w /\ h.view = View(s, w) /\ h.next = NoOne /\ h.op = "mark"
    BY <2>1 DEF Reading
  <2>3. req'[r] = h /\ Exists(s)
    BY <1>7, <2>1 DEF StaffMark, LockForMark, TypeOK, RowsHaveShift, Rows
  <2> QED
    BY <1>1, <2>2, <2>3
<1>8. CASE Rollback(r)
  BY <1>8 DEF Rollback, Finish, SeesScheduleOf, InBooking, TypeOK
<1>9. \A s \in Shifts, w \in Volunteers : ~JoinWaitlistRead(r, s, w)
  BY DEF JoinWaitlistRead, ScheduleOps
<1> QED
  BY <1>3, <1>4, <1>5, <1>6, <1>7, <1>8, <1>9 DEF BookingStep, GoesOn

LEMMA LockSeesSchedule ==
  ASSUME TypeOK, RowsHaveShift, NEW u \in Volunteers, ScheduleHolds(u), NEW r \in Requests,
         CancelBegin(r) \/ JoinWaitlistBegin(r) \/ CheckinLock(r)
  PROVE  SeesScheduleOf(r, u)'
<1>1. InBooking(r) /\ SeesScheduleOf(r, u)
  BY GoesOnAbout DEF GoesOn, ScheduleHolds
<1>2. PICK h \in SignupHandlers : h = req[r]
  BY <1>1, HandlerOf
<1>3. UNCHANGED <<status, slot, signup>>
  BY DEF CancelBegin, JoinWaitlistBegin, CheckinLock, LockForMark, shiftVars, signupVars
<1>4. h.shift \in Shifts /\ (Clash(h.shift, u)' <=> Clash(h.shift, u))
  BY <1>2, <1>3 DEF Clash, SignupHandlers
<1>5. ~JoinWaitlistBegin(r)
  BY <1>1 DEF JoinWaitlistBegin, At, SeesScheduleOf
<1>6. CASE CancelBegin(r)
  <2>1. PICK next \in Volunteers \cup {NoOne} :
          /\ IF h.view.own = "CONFIRMED" THEN IsNextWaitlistEntry(next, h.shift, h.user)
                                         ELSE next = NoOne
          /\ req' = [req EXCEPT ![r] = [h EXCEPT !.phase = "tx", !.next = next]]
    BY <1>2, <1>6 DEF CancelBegin
  <2>2. next # u
    BY <1>4, <2>1, NoOneAssumption DEF IsNextWaitlistEntry, Waiting, ScheduleHolds
  <2>3. req'[r] = [h EXCEPT !.phase = "tx", !.next = next]
    BY <2>1 DEF TypeOK
  <2>4. /\ req'[r].op = h.op /\ req'[r].shift = h.shift /\ req'[r].view = h.view
        /\ req'[r].next = next /\ h.op = "cancel"
    BY <1>2, <1>6, <2>3 DEF SignupHandlers, CancelBegin, At
  <2> QED
    BY <1>1, <1>2, <1>3, <1>4, <2>2, <2>4 DEF SeesScheduleOf
<1>7. CASE CheckinLock(r)
  <2>1. req'[r] = [Reading("mark", h.shift, h.user) EXCEPT !.phase = "tx", !.mark = "ATTENDED"]
    BY <1>2, <1>7 DEF CheckinLock, LockForMark, TypeOK
  <2>2. req'[r].shift = h.shift /\ req'[r].op = "mark" /\ req'[r].next = NoOne
    BY <2>1 DEF Reading
  <2> QED
    BY <1>1, <1>2, <1>3, <2>2, NoOneAssumption DEF SeesScheduleOf, Reopening
<1> QED
  BY <1>5, <1>6, <1>7

LEMMA BookingStepKeepsSchedule ==
  ASSUME TypeOK, RowsHaveShift, LockedRowsExist, MarksConfirmedSeat, Ops \subseteq ScheduleOps,
         NEW u \in Volunteers, OneRequestOf(u), ScheduleHolds(u),
         NEW r \in Requests, BookingStep(r)
  PROVE  ScheduleHolds(u)'
<1>1. \A q \in Requests \ {r} : req'[q] = req[q]
  BY BookingAlone
<1>2. CASE GoesOn(r)
  <2>1. /\ SeatsCompatible(u)' /\ slot' = slot
        /\ \A s \in Shifts : signup'[s][u] # "WAITLISTED"
        /\ \A s \in Shifts : status'[s] = status[s] \/ {status[s], status'[s]} \subseteq Active
        /\ ~RequestOf(r, u) => Seats(u)' \subseteq Seats(u)
    BY <1>2, BookingKeepsSchedule
  <2>2. ASSUME NEW q \in Requests \ {r} PROVE SeesScheduleOf(q, u)'
    <3>1. RequestOf(q, u) => Seats(u)' \subseteq Seats(u)
      BY <2>1 DEF OneRequestOf
    <3> QED
      BY <1>1, <2>1, <3>1, SeenStays DEF ScheduleHolds
  <2>3. SeesScheduleOf(r, u)'
    <3>1. CASE CancelBegin(r) \/ JoinWaitlistBegin(r) \/ CheckinLock(r)
      BY <3>1, LockSeesSchedule
    <3>2. CASE ~(CancelBegin(r) \/ JoinWaitlistBegin(r) \/ CheckinLock(r))
      <4>1. req'[r] = Idle
        BY <1>2, <3>2 DEF GoesOn, SignUpCommit, AssignCommit, CancelCommit, JoinWaitlistCommit,
           LeaveWaitlistCommit, MarkCommit, Finish, TypeOK
      <4> QED
        BY <4>1 DEF SeesScheduleOf, InBooking
    <3> QED
      BY <3>1, <3>2
  <2> QED
    BY <2>1, <2>2, <2>3 DEF ScheduleHolds
<1>3. CASE ~GoesOn(r)
  <2>1. UNCHANGED <<status, slot, signup>>
    BY <1>3, BookingKinds
  <2>2. SeatsCompatible(u)' /\ Seats(u)' = Seats(u)
    BY <2>1 DEF SeatsCompatible, Seats, ScheduleHolds
  <2>3. ASSUME NEW q \in Requests \ {r} PROVE SeesScheduleOf(q, u)'
    BY <1>1, <2>1, <2>2, SeenStays DEF ScheduleHolds
  <2>4. SeesScheduleOf(r, u)'
    BY <1>3, StartSeesSchedule
  <2> QED
    BY <2>1, <2>2, <2>3, <2>4 DEF ScheduleHolds
<1> QED
  BY <1>2, <1>3

LEMMA EndingKeepsSchedule ==
  ASSUME TypeOK, NEW u \in Volunteers, ScheduleHolds(u), EndsQuietly, NEW s \in Shifts,
         Finalizes(s)
  PROVE  ScheduleHolds(u)'
<1>1. Seats(u)' \subseteq Seats(u) /\ slot' = slot
  BY DEF Finalizes, Seats, Exists, Active, Closed
<1>2. /\ SeatsCompatible(u)'
      /\ \A t \in Shifts : Clash(t, u)' => Clash(t, u)
  BY <1>1, NoNewSeat DEF ScheduleHolds
<1>3. ASSUME NEW q \in Requests PROVE SeesScheduleOf(q, u)'
  <2>1. CASE InBooking(q)
    <3>1. PICK h \in SignupHandlers : h = req[q] /\ h.shift \in Shifts
      BY <2>1, HandlerOf DEF SignupHandlers
    <3>2. SeesScheduleOf(q, u) /\ req'[q] = h
      BY <3>1 DEF ScheduleHolds, Finalizes
    <3>3. /\ status'[h.shift] # "ABSENT"
          /\ status[h.shift] = "DELETED" => status'[h.shift] = "DELETED"
      BY <2>1, <3>1, <3>2 DEF SeesScheduleOf, Finalizes, Exists, Active, Closed
    <3>4. h.op \in Reopening /\ status[h.shift] \in Active => status'[h.shift] = status[h.shift]
      BY <2>1, <3>1 DEF Finalizes, EndsQuietly, About
    <3> QED
      BY <1>2, <2>1, <3>1, <3>2, <3>3, <3>4 DEF SeesScheduleOf, Active
  <2>2. CASE ~InBooking(q)
    BY <2>2 DEF SeesScheduleOf, InBooking, Finalizes
  <2> QED
    BY <2>1, <2>2
<1>4. \A t \in Shifts : signup'[t][u] # "WAITLISTED"
  BY DEF ScheduleHolds, Finalizes
<1> QED
  BY <1>2, <1>3, <1>4 DEF ScheduleHolds

LEMMA ReplacingKeepsSchedule ==
  ASSUME TypeOK, RowsHaveShift, NEW u \in Volunteers, ScheduleHolds(u), NEW s \in Shifts,
         Replaces(s)
  PROVE  ScheduleHolds(u)'
<1>1. signup'[s][u] \notin {"CONFIRMED", "WAITLISTED"}
  BY DEF Replaces, Confirmed, Waiting
<1>2. Seats(u)' \subseteq Seats(u) \ {s}
  BY <1>1 DEF Seats, Replaces
<1>3. \A t \in Seats(u)' : slot'[t] = slot[t]
  BY <1>2 DEF Replaces, Seats
<1>4. SeatsCompatible(u)'
  BY <1>2, <1>3 DEF SeatsCompatible, ScheduleHolds
<1>5. \A t \in Shifts \ {s} : Clash(t, u)' => Clash(t, u)
  <2> SUFFICES ASSUME NEW t \in Shifts \ {s}, Clash(t, u)' PROVE Clash(t, u)
    OBVIOUS
  <2>1. PICK x \in Seats(u)' \ {t} : Overlap(slot'[t], slot'[x])
    BY DEF Clash, Seats
  <2>2. slot'[t] = slot[t] /\ slot'[x] = slot[x] /\ x \in Seats(u) \ {t}
    BY <1>2, <1>3, <2>1 DEF Replaces
  <2> QED
    BY <2>1, <2>2, ClashIsWithSeat
<1>6. ASSUME NEW q \in Requests PROVE SeesScheduleOf(q, u)'
  <2>1. CASE InBooking(q)
    <3>1. PICK h \in SignupHandlers : h = req[q] /\ h.shift \in Shifts
      BY <2>1, HandlerOf DEF SignupHandlers
    <3>2. SeesScheduleOf(q, u) /\ req'[q] = h
      BY <3>1 DEF ScheduleHolds, Replaces
    <3>3. CASE h.shift = s
      <4>1. status'[s] = "DELETED"
        BY <2>1, <3>1, <3>2, <3>3 DEF SeesScheduleOf, Replaces
      <4> QED
        BY <2>1, <3>1, <3>2, <3>3, <4>1 DEF SeesScheduleOf
    <3>4. CASE h.shift # s
      <4>1. status'[h.shift] = status[h.shift]
        BY <3>1, <3>4 DEF Replaces
      <4> QED
        BY <1>5, <2>1, <3>1, <3>2, <3>4, <4>1 DEF SeesScheduleOf
    <3> QED
      BY <3>3, <3>4
  <2>2. CASE ~InBooking(q)
    BY <2>2 DEF SeesScheduleOf, InBooking, Replaces
  <2> QED
    BY <2>1, <2>2
<1>7. \A t \in Shifts : signup'[t][u] # "WAITLISTED"
  BY <1>1 DEF ScheduleHolds, Replaces
<1> QED
  BY <1>4, <1>6, <1>7 DEF ScheduleHolds

LEMMA OneScheduleStep ==
  ASSUME Ops \subseteq ScheduleOps, TypeOK, RowsHaveShift, LockedRowsExist, MarksConfirmedSeat,
         NEW u \in Volunteers, OneRequestOf(u), ScheduleHolds(u), [Next /\ EndsQuietly]_vars
  PROVE  ScheduleHolds(u)'
<1> USE DEF shiftVars, signupVars, stampVars
<1>1. ASSUME UNCHANGED <<status, slot, signup>>,
             \A q \in Requests : InBooking(q) \/ InBooking(q)' => req'[q] = req[q]
      PROVE  ScheduleHolds(u)'
  <2>1. SeatsCompatible(u)' /\ Seats(u)' = Seats(u)
    BY <1>1 DEF SeatsCompatible, Seats, ScheduleHolds
  <2>2. ASSUME NEW q \in Requests PROVE SeesScheduleOf(q, u)'
    <3>1. CASE InBooking(q)
      BY <1>1, <2>1, <3>1, SeenStays DEF ScheduleHolds
    <3>2. CASE ~InBooking(q)'
      BY <3>2 DEF SeesScheduleOf
    <3> QED
      BY <1>1, <3>1, <3>2 DEF InBooking
  <2> QED
    BY <1>1, <2>1, <2>2 DEF ScheduleHolds
<1>2. ASSUME NEW r \in Requests, BookingStep(r) PROVE ScheduleHolds(u)'
  BY <1>2, BookingStepKeepsSchedule
<1>3. CASE RosterNext \/ \E r \in Requests : AddVolunteerCommit(r)
  <2>1. UNCHANGED <<status, slot, signup>>
    BY <1>3 DEF RosterNext, AddVolunteerRead, AddVolunteerCommit, RemoveVolunteer, LeaveOrg
  <2> QED
    BY <1>1, <1>3, <2>1, RosterAlone
<1>4. CASE ShiftNext /\ EndsQuietly
  <2>1. ASSUME UNCHANGED <<status, capacity, slot, signup, createdAt, req>>
        PROVE  ScheduleHolds(u)'
    BY <1>1, <2>1
  <2> QED
    BY <1>4, <2>1, EndingKeepsSchedule, ReplacingKeepsSchedule, ShiftStepKinds DEF ScheduleOps
<1>5. CASE CronScan \/ Tick \/ UNCHANGED vars
  BY <1>1, <1>5 DEF CronScan, Tick, vars
<1> QED
  BY <1>2, <1>3, <1>4, <1>5 DEF Next

\* The seats of one volunteer never overlap, as long as the requests of that volunteer come
\* one at a time, whatever those of the others do, nobody joins a waitlist, no shift is moved
\* and none ends while a booking or a cancellation of it is in flight: such a cancellation
\* reopens the ended shift, and its seats count again (validateSignup, cancelSignup).
THEOREM ScheduleOfVolunteer ==
  ASSUME NEW u \in Volunteers, Ops \subseteq ScheduleOps
  PROVE  Spec /\ []OneRequestOf(u) /\ [][EndsQuietly]_vars => []ScheduleHolds(u)
<1>1. Init => ScheduleHolds(u)
  BY DEF Init, ScheduleHolds, SeatsCompatible, Seats, SeesScheduleOf, InBooking
<1>2. TypeOK /\ BookingInv /\ LockInv /\ OneRequestOf(u) /\ ScheduleHolds(u)
        /\ [Next]_vars /\ [EndsQuietly]_vars => ScheduleHolds(u)'
  <2>1. [Next]_vars /\ [EndsQuietly]_vars => [Next /\ EndsQuietly]_vars
    OBVIOUS
  <2> QED
    BY <2>1, OneScheduleStep DEF BookingInv, LockInv
<1> QED
  BY <1>1, <1>2, TypeCorrect, BookingInvariant, LockInvariant, PTL DEF Spec

OneRequestEach == \A u \in Volunteers : OneRequestOf(u)

\* No volunteer is confirmed on two active shifts that overlap, under these hypotheses.
THEOREM ApartNoDoubleBooking ==
  ASSUME Ops \subseteq ScheduleOps
  PROVE  Spec /\ []OneRequestEach /\ [][EndsQuietly]_vars => []NoDoubleBooking
<1>1. OneRequestEach => \A u \in Volunteers : OneRequestOf(u)
  BY DEF OneRequestEach
<1>2. ASSUME NEW u \in Volunteers
      PROVE  Spec /\ []OneRequestEach /\ [][EndsQuietly]_vars => []ScheduleHolds(u)
  <2>1. OneRequestEach => OneRequestOf(u)
    BY <1>1
  <2>2. Spec /\ []OneRequestOf(u) /\ [][EndsQuietly]_vars => []ScheduleHolds(u)
    BY ScheduleOfVolunteer
  <2> QED
    BY <2>1, <2>2, PTL
<1>3. Spec /\ []OneRequestEach /\ [][EndsQuietly]_vars =>
        \A u \in Volunteers : []ScheduleHolds(u)
  BY <1>2
<1>4. (\A u \in Volunteers : []ScheduleHolds(u)) <=> [](\A u \in Volunteers : ScheduleHolds(u))
  OBVIOUS
<1>5. (\A u \in Volunteers : ScheduleHolds(u)) => NoDoubleBooking
  BY DEF ScheduleHolds, SeatsCompatible, Seats, NoDoubleBooking, Clash, Active, Closed
<1> QED
  BY <1>3, <1>4, <1>5, PTL
=============================================================================
