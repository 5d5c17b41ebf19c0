------------------------------- MODULE OrgRoster -------------------------------
(***************************************************************************)
(* One volunteer and one organization: the roster, the refusal of a        *)
(* volunteer who left, and the applications that lead to the roster.       *)
(* staffVolunteerService.ts, appliedRosterService.ts, screener-queries.ts, *)
(* my-applications.ts, volunteer-screening.ts, shiftSignupService.ts.      *)
(*                                                                         *)
(* Transactions are READ COMMITTED: what one has read another may change   *)
(* before it commits, except an application it has updated, whose row is   *)
(* locked until then.                                                      *)
(***************************************************************************)
CONSTANTS
  Rows,           \* OrgVolunteer rows of this volunteer at this organization
  Applications,   \* its VolunteerApplication rows under the volunteer's address
  Opportunities,  \* what applications are for
  For,            \* the opportunity of an application, or None
  Shifts,         \* shifts of the organization
  Requests,       \* requests served at once
  Ops,            \* the operations of this instance
  None            \* nobody, no row, no opportunity

AllOps == {"add", "remove", "restore", "leave", "submit", "claim", "status", "withdraw",
           "signUp", "assign"}

\* SUBMITTED stands for REVIEW too, and REJECTED for WITHDRAWN: no code below tells them
\* apart.
ApplicationStatus == {"SUBMITTED", "APPROVED", "REJECTED"}

AppRecord == [status : ApplicationStatus, bound : BOOLEAN, declined : BOOLEAN]

ASSUME OpsAssumption == Ops \subseteq AllOps
ASSUME NoneAssumption ==
  None \notin Rows \cup Applications \cup Opportunities \cup Shifts \cup Requests \cup AppRecord
ASSUME ForAssumption == For \in [Applications -> Opportunities \cup {None}]

VARIABLES
  row,      \* OrgVolunteer: "free" (not there yet), "live" or "removed" (soft-deleted)
  block,    \* whether the OrgVolunteerBlock row is there
  app,      \* VolunteerApplication: status, whether bound to the volunteer
            \*   (submittedByUserId) and whether declined; None is no application
  lock,     \* who has updated an application and not committed
  signup,   \* ShiftSignup rows of the volunteer, and who made them
  req,      \* the requests in flight
  late,     \* history: requests whose checks a departure has overtaken
  inert     \* history: rows that went live by such a request, or during a departure

vars == <<row, block, app, lock, signup, req, late, inert>>
roster == <<row, block, inert>>

---------------------------------------------------------------------------
Live == {x \in Rows : row[x] = "live"}
Exists(a) == app[a] # None
Active(a) == Exists(a) /\ app[a].status # "REJECTED"
Bound(a) == Exists(a) /\ app[a].bound
Withdrawable(a) == app[a].status = "SUBMITTED"

\* The partial unique index on user and opportunity, for application a with these values.
Duplicate(a, new) ==
  /\ new.bound /\ new.status # "REJECTED" /\ For[a] # None
  /\ \E b \in Applications \ {a} : Active(b) /\ Bound(b) /\ For[b] = For[a]

\* hasLeavableOrgRelationship
Leavable == Live # {} \/ (\E a \in Applications : Bound(a)) \/ (\E s \in Shifts : signup[s] # "none")

\* The phases of a request that has looked for a block.
Checked == {"checked", "ensured"}

NoRowLocks(a) == TRUE                                            \* a mutant
RowFree(a) == lock[a] = None

Idle == [phase |-> "idle"]
Handler == [op : AllOps, phase : {"read", "updated", "checked", "ensured"},
            row : Rows \cup {None}, application : Applications \cup {None},
            shift : Shifts \cup {None}, prev : ApplicationStatus \cup {None},
            to : ApplicationStatus \cup {None}, lifted : BOOLEAN, refused : BOOLEAN,
            bound : BOOLEAN, inserts : BOOLEAN]

View(op, phase) ==
  [op |-> op, phase |-> phase, row |-> None, application |-> None, shift |-> None,
   prev |-> None, to |-> None, lifted |-> FALSE, refused |-> FALSE,
   bound |-> FALSE, inserts |-> FALSE]

At(r, op, phase) == req[r].phase = phase /\ req[r].op = op
Begin(r, view) == req[r] = Idle /\ req' = [req EXCEPT ![r] = view]
Finish(r) ==
  /\ req' = [req EXCEPT ![r] = Idle]
  /\ lock' = [a \in Applications |-> IF lock[a] = r THEN None ELSE lock[a]]

Departing(q) == req[q] # Idle /\ req[q].op = "leave"

\* The transaction of q has inserted a live roster row and not committed.  Whoever is to
\* make a row live waits for it: the partial unique index takes one live row.
Inserting(q) == req[q] # Idle /\ req[q].inserts
NobodyInserts == \A q \in Requests : ~Inserting(q)

\* The roster row x goes live in a step of request r.
GoesLive(r, x) ==
  /\ row' = [row EXCEPT ![x] = "live"]
  /\ inert' = IF r \in late \/ \E q \in Requests : Departing(q) THEN inert \cup {x} ELSE inert

---------------------------------------------------------------------------
(* What staff do to the roster.                                            *)

\* addVolunteer, also once per row of importRoster.  The index refuses a second live row.
AddRead(r) ==
  /\ "add" \in Ops
  /\ Live = {} /\ ~block
  /\ Begin(r, View("add", "checked"))
  /\ UNCHANGED <<roster, app, lock, signup, late>>

AddCommit(r, x) ==
  /\ At(r, "add", "checked")
  /\ row[x] = "free" /\ Live = {} /\ NobodyInserts
  /\ GoesLive(r, x)
  /\ Finish(r)
  /\ late' = late \ {r}
  /\ UNCHANGED <<block, app, signup>>

RemoveVolunteer(x) ==
  /\ "remove" \in Ops
  /\ row[x] = "live"
  /\ row' = [row EXCEPT ![x] = "removed"]
  /\ inert' = inert \ {x}
  /\ UNCHANGED <<block, app, lock, signup, req, late>>

RestoreReadUnchecked(r, x) ==                                    \* a mutant
  /\ "restore" \in Ops
  /\ row[x] = "removed"
  /\ Begin(r, [View("restore", "checked") EXCEPT !.row = x])
  /\ UNCHANGED <<roster, app, lock, signup, late>>

RestoreRead(r, x) ==
  /\ "restore" \in Ops
  /\ row[x] = "removed" /\ ~block
  /\ Begin(r, [View("restore", "checked") EXCEPT !.row = x])
  /\ UNCHANGED <<roster, app, lock, signup, late>>

RestoreCommitBeside(r) ==                                        \* a mutant
  /\ At(r, "restore", "checked")
  /\ row[req[r].row] = "removed"
  /\ GoesLive(r, req[r].row)
  /\ Finish(r)
  /\ late' = late \ {r}
  /\ UNCHANGED <<block, app, signup>>

\* The partial unique index refuses it beside a live row.
RestoreCommit(r) ==
  /\ At(r, "restore", "checked")
  /\ row[req[r].row] = "removed" /\ Live = {} /\ NobodyInserts
  /\ GoesLive(r, req[r].row)
  /\ Finish(r)
  /\ late' = late \ {r}
  /\ UNCHANGED <<block, app, signup>>

---------------------------------------------------------------------------
(* The volunteer leaves: leaveOrgRoster.                                   *)

LeaveRead(r) ==
  /\ "leave" \in Ops
  /\ Leavable /\ ~block
  /\ \E x \in IF Live = {} THEN {None} ELSE Live :
       Begin(r, [View("leave", "checked") EXCEPT !.row = x])
  /\ UNCHANGED <<roster, app, lock, signup, late>>

\* The row it has read is removed, if it still is live, and the block is there.
LeaveCommit(r) ==
  /\ At(r, "leave", "checked")
  /\ row' = [x \in Rows |-> IF x = req[r].row /\ row[x] = "live" THEN "removed" ELSE row[x]]
  /\ block' = TRUE
  /\ inert' = inert \ {req[r].row}
  /\ late' = (late \cup {q \in Requests : req[q].phase \in Checked}) \ {r}
  /\ Finish(r)
  /\ UNCHANGED <<app, signup>>

---------------------------------------------------------------------------
(* Applications.                                                           *)

Submit(a, bound) ==
  LET new == [status |-> "SUBMITTED", bound |-> bound, declined |-> FALSE]
  IN /\ "submit" \in Ops
     /\ ~Exists(a)
     /\ ~Duplicate(a, new)
     /\ app' = [app EXCEPT ![a] = new]
     /\ UNCHANGED <<row, inert, lock, signup, req, late>>

\* submitVolunteerApplication by the volunteer lifts the block; a duplicate is refused by
\* its own read or, racing, by the index.
SubmitOwn(a) == Submit(a, TRUE) /\ block' = FALSE

\* The public form or processImportJob under the volunteer's address: nobody is bound.
SubmitAnonymous(a) == Submit(a, FALSE) /\ UNCHANGED block

\* claimApplication: the update that binds an unbound application nobody declined, and
\* the block lifted after it.
ClaimUpdate(r, a) ==
  /\ "claim" \in Ops
  /\ Exists(a) /\ ~app[a].bound /\ ~app[a].declined
  /\ RowFree(a)
  /\ Begin(r, [View("claim", "updated") EXCEPT !.application = a, !.lifted = block])
  /\ lock' = [lock EXCEPT ![a] = r]
  /\ UNCHANGED <<roster, app, signup, late>>

\* ensureAppliedRosterRow looks for a block; its own deletion of one is visible to it.
ClaimCheck(r) ==
  /\ At(r, "claim", "updated")
  /\ req' = [req EXCEPT ![r].phase = "checked", ![r].refused = block /\ ~req[r].lifted]
  /\ UNCHANGED <<roster, app, lock, signup, late>>

\* Whether the transaction goes on to the roster: a claim of an approved application, or
\* an approval, as far as the request has read, of a bound one.
Ensures(r) ==
  LET h == req[r] IN
  /\ ~h.refused
  /\ \/ h.op = "claim" /\ app[h.application].status = "APPROVED"
     \/ h.op = "status" /\ h.to = "APPROVED" /\ h.prev # "APPROVED" /\ h.bound

Ensured(r, x, inserts) ==
  req' = [req EXCEPT ![r] = [@ EXCEPT !.phase = "ensured", !.row = x, !.inserts = inserts]]

\* createOrgVolunteerIfAbsent, before the commit: ON CONFLICT DO NOTHING finds a live row,
\* which it does not lock, or inserts one, which nobody else sees yet.
EnsureRosterRow(r) ==
  /\ At(r, "claim", "checked") \/ At(r, "status", "checked")
  /\ Ensures(r)
  /\ \/ \E x \in Live : Ensured(r, x, FALSE)
     \/ /\ Live = {} /\ NobodyInserts
        /\ \E x \in Rows : row[x] = "free" /\ Ensured(r, x, TRUE)
  /\ UNCHANGED <<roster, app, lock, signup, late>>

Committing(r, op) == At(r, op, "ensured") \/ (At(r, op, "checked") /\ ~Ensures(r))

\* The row it inserted goes live with the commit.
CommitRosterRow(r) ==
  IF req[r].inserts THEN GoesLive(r, req[r].row) ELSE UNCHANGED <<row, inert>>

ClaimCommit(r) ==
  LET a == req[r].application
      new == [app[a] EXCEPT !.bound = TRUE]
  IN /\ Committing(r, "claim")
     /\ ~Duplicate(a, new)
     /\ app' = [app EXCEPT ![a] = new]
     /\ CommitRosterRow(r)
     /\ block' = (block /\ ~req[r].lifted)
     /\ Finish(r)
     /\ late' = late \ {r}
     /\ UNCHANGED signup

\* declineApplication
Decline(a) ==
  /\ "claim" \in Ops
  /\ Exists(a) /\ ~app[a].bound /\ ~app[a].declined
  /\ RowFree(a)
  /\ app' = [app EXCEPT ![a].declined = TRUE]
  /\ UNCHANGED <<roster, lock, signup, req, late>>

\* withdrawVolunteerApplication updates by id the application whose status it has read.
WithdrawRead(r, a) ==
  /\ "withdraw" \in Ops
  /\ Bound(a) /\ Withdrawable(a)
  /\ Begin(r, [View("withdraw", "checked") EXCEPT !.application = a])
  /\ UNCHANGED <<roster, app, lock, signup, late>>

WithdrawCommit(r) ==
  /\ At(r, "withdraw", "checked")
  /\ RowFree(req[r].application)
  /\ app' = [app EXCEPT ![req[r].application].status = "REJECTED"]
  /\ Finish(r)
  /\ late' = late \ {r}
  /\ UNCHANGED <<roster, signup>>

---------------------------------------------------------------------------
(* Staff move an application: updateOrgApplicationStatus reads the status, *)
(* updates it, and adds an approved volunteer to the roster.               *)

StatusRead(r, a, to) ==
  /\ "status" \in Ops
  /\ Exists(a)
  /\ Begin(r, [View("status", "read") EXCEPT !.application = a, !.to = to,
                                             !.prev = app[a].status])
  /\ UNCHANGED <<roster, app, lock, signup, late>>

\* The update, and the block ensureAppliedRosterRow looks for after it.
StatusUpdate(r) ==
  LET a == req[r].application
  IN /\ At(r, "status", "read")
     /\ RowFree(a)
     /\ lock' = [lock EXCEPT ![a] = r]
     /\ req' = [req EXCEPT ![r].phase = "checked", ![r].refused = block,
                           ![r].bound = app[a].bound]
     /\ UNCHANGED <<roster, app, signup, late>>

StatusCommit(r) ==
  LET a == req[r].application
      new == [app[a] EXCEPT !.status = req[r].to]
  IN /\ Committing(r, "status")
     /\ ~Duplicate(a, new)
     /\ app' = [app EXCEPT ![a] = new]
     /\ CommitRosterRow(r)
     /\ Finish(r)
     /\ late' = late \ {r}
     /\ UNCHANGED <<block, signup>>

---------------------------------------------------------------------------
(* Shifts.                                                                 *)

\* signUpForShift lifts the block.
SignUp(s) ==
  /\ "signUp" \in Ops
  /\ signup[s] = "none"
  /\ signup' = [signup EXCEPT ![s] = "self"]
  /\ block' = FALSE
  /\ UNCHANGED <<row, inert, app, lock, req, late>>

AssignReadUnchecked(r, s) ==                                     \* a mutant
  /\ "assign" \in Ops
  /\ Live # {} /\ signup[s] = "none"
  /\ Begin(r, [View("assign", "checked") EXCEPT !.shift = s])
  /\ UNCHANGED <<roster, app, lock, signup, late>>

\* assignVolunteerToShift looks at the roster row and at the block before it commits.
AssignRead(r, s) ==
  /\ "assign" \in Ops
  /\ Live # {} /\ ~block /\ signup[s] = "none"
  /\ Begin(r, [View("assign", "checked") EXCEPT !.shift = s])
  /\ UNCHANGED <<roster, app, lock, signup, late>>

AssignCommit(r) ==
  /\ At(r, "assign", "checked")
  /\ signup[req[r].shift] = "none"
  /\ signup' = [signup EXCEPT ![req[r].shift] = "staff"]
  /\ Finish(r)
  /\ late' = late \ {r}
  /\ UNCHANGED <<roster, app>>

---------------------------------------------------------------------------
\* A conflict, a failure or the end of the invocation undoes an open transaction.
Rollback(r) ==
  /\ req[r] # Idle
  /\ Finish(r)
  /\ late' = late \ {r}
  /\ UNCHANGED <<roster, app, signup>>

Init ==
  /\ row = [x \in Rows |-> "free"]
  /\ block = FALSE
  /\ app = [a \in Applications |-> None]
  /\ lock = [a \in Applications |-> None]
  /\ signup = [s \in Shifts |-> "none"]
  /\ req = [r \in Requests |-> Idle]
  /\ late = {}
  /\ inert = {}

RosterNext(r) ==
  \/ AddRead(r)
  \/ \E x \in Rows : AddCommit(r, x) \/ RestoreRead(r, x)
  \/ RestoreCommit(r)
  \/ LeaveRead(r)
  \/ LeaveCommit(r)

ApplicationNext(r) ==
  \/ \E a \in Applications :
       \/ ClaimUpdate(r, a)
       \/ WithdrawRead(r, a)
       \/ \E to \in ApplicationStatus : StatusRead(r, a, to)
  \/ ClaimCheck(r)
  \/ EnsureRosterRow(r)
  \/ ClaimCommit(r)
  \/ WithdrawCommit(r)
  \/ StatusUpdate(r)
  \/ StatusCommit(r)

OtherNext ==
  \/ \E r \in Requests : Rollback(r) \/ AssignCommit(r) \/ \E s \in Shifts : AssignRead(r, s)
  \/ \E s \in Shifts : SignUp(s)
  \/ \E x \in Rows : RemoveVolunteer(x)
  \/ \E a \in Applications : Decline(a) \/ SubmitOwn(a) \/ SubmitAnonymous(a)

Next == (\E r \in Requests : RosterNext(r) \/ ApplicationNext(r)) \/ OtherNext

Spec == Init /\ [][Next]_vars

---------------------------------------------------------------------------
\* Rows stay within their types, one roster row at most is live, and requests hold what
\* their handler read.
TypeOK ==
  /\ row \in [Rows -> {"free", "live", "removed"}]
  /\ \A x, y \in Live : x = y
  /\ block \in BOOLEAN
  /\ app \in [Applications -> {None} \cup AppRecord]
  /\ lock \in [Applications -> Requests \cup {None}]
  /\ signup \in [Shifts -> {"none", "self", "staff"}]
  /\ req \in [Requests -> Handler \cup {Idle}]
  /\ late \subseteq Requests
  /\ inert \subseteq Live

\* A volunteer who left is not on the roster, unless the row came from a request that the
\* departure overtook or beside a departure: every other way back on, an addition, an
\* import, an undo, an approval or a claim, respects the block (orgVolunteerRepo.ts:457).
RefusedIsOffRoster == block => Live \subseteq inert

\* Staff schedule nobody who refuses them, not even through such a row, except by an
\* assignment that had made its checks before the departure (shiftSignupService.ts:401).
RefusedIsNotScheduled ==
  [][\A s \in Shifts : signup[s] # "staff" /\ signup'[s] = "staff" /\ block =>
       \E r \in late : req[r].op = "assign" /\ req[r].shift = s]_vars

ApprovedAndBound(a) == Bound(a) /\ app[a].status = "APPROVED"

\* The volunteer of an application that becomes approved and bound, whichever of the two
\* comes first and however they race, is on the roster then (appliedRosterService.ts:20),
\* unless they refuse, the approving request had read APPROVED already, or the roster row
\* it found has been removed since: nothing locks that row until the commit.
ApprovedIsRostered ==
  [][\A a \in Applications : ~ApprovedAndBound(a) /\ ApprovedAndBound(a)' =>
       \/ Live' # {}
       \/ \E r \in Requests :
            /\ req[r] # Idle /\ req[r].application = a
            /\ \/ req[r].refused
               \/ req[r].prev = "APPROVED"
               \/ /\ req[r].phase = "ensured" /\ ~req[r].inserts
                  /\ row[req[r].row] = "removed"]_vars

\* What the owner of the address has declined is never bound to them, also when they
\* claim and decline in two tabs at once (volunteer-applications.ts:227).
DeclinedIsNotBound == \A a \in Applications : Bound(a) => ~app[a].declined

\* What a request in flight can rely on: what it names is there, the application it has
\* updated stays as it left it until it commits, because the row is locked, and so does
\* what it has decided about the roster.
Holds(r) ==
  LET h == req[r]
      a == h.application
  IN h # Idle =>
       /\ h.op = "restore" => h.row \in Rows
       /\ h.op = "assign" => h.shift \in Shifts
       /\ h.op \in {"claim", "status", "withdraw"} => a \in Applications /\ Exists(a)
       /\ h.op = "status" => h.to \in ApplicationStatus
       /\ h.op = "claim" => lock[a] = r /\ ~app[a].declined
       /\ h.op = "status" /\ h.phase \in Checked => lock[a] = r /\ h.bound = app[a].bound
       /\ h.phase = "ensured" => /\ h.op \in {"claim", "status"} /\ ~h.refused
                                 /\ h.row \in Rows /\ h.inserts = (row[h.row] = "free")
       /\ h.inserts => h.phase = "ensured"

RequestsHold == \A r \in Requests : Holds(r)

\* Nothing is live, and nobody else inserts, beside a row that is being inserted.
InsertsAlone ==
  \A r \in Requests : Inserting(r) => Live = {} /\ \A q \in Requests \ {r} : ~Inserting(q)

\* A departure removes the one row it has read: any other went live during it.
DeparturesKnow ==
  \A r \in Requests : Departing(r) => Live \ {req[r].row} \subseteq inert

\* While there is a block, whoever has checked without seeing it was overtaken by it.
Unaware(r) ==
  /\ req[r].phase \in Checked
  /\ \/ req[r].op \in {"add", "restore", "assign"}
     \/ req[r].op = "status" /\ ~req[r].refused
     \/ req[r].op = "claim" /\ ~req[r].refused /\ ~req[r].lifted

ChecksOvertaken == block => \A r \in Requests : Unaware(r) => r \in late

\* The inductive invariant behind the properties above: a claim or an approval works on
\* an application nobody else can write (volunteer-applications.ts:219, :102), and a
\* departure leaves no check behind that it does not know of (staffVolunteerService.ts:583).
RosterInv ==
  /\ RequestsHold
  /\ InsertsAlone
  /\ DeparturesKnow
  /\ ChecksOvertaken
  /\ RefusedIsOffRoster
  /\ DeclinedIsNotBound

\* An application that is saved as APPROVED again puts nobody on the roster, least of all
\* "a volunteer a coordinator had deliberately removed" (screener-queries.ts:118).
ReapprovalAddsNobody ==
  [][\A r \in Requests :
       StatusCommit(r) /\ app[req[r].application].status = "APPROVED" => Live' \subseteq Live]_vars
=============================================================================
