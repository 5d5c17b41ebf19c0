--------------------------- MODULE FcraLifecycle ---------------------------
(***************************************************************************)
(* What the adverse-action process promises the subject of a background    *)
(* check, whatever staff do at once: it is decided once, and neither       *)
(* decided nor announced against the volunteer before WaitingPeriod days   *)
(* have passed since the first attempt to write to them.  The attempt is   *)
(* all it promises: a letter the mail service refuses is not noticed, and  *)
(* letterAt, the first letter that went out, is not what anything waits    *)
(* for.  This is the state machine drawn in the header of                  *)
(* domain/background-check.ts; BackgroundChecks implements it.             *)
(***************************************************************************)
EXTENDS Integers

CONSTANTS
  Checks,         \* background checks
  WaitingPeriod   \* FCRA_WAITING_PERIOD_DAYS

Never == -1       \* the time of what has not happened

VARIABLES
  phase,      \* where the process of a check stands
  askedAt,    \* when a pre-adverse letter of a check was first handed to the mail service
  letterAt,   \* when the first one it took went out
  adverse,    \* checks of which an adverse letter went out
  now         \* the day

vars == <<phase, askedAt, letterAt, adverse, now>>

Phases == {"NONE", "PRE_ADVERSE_SENT", "ADVERSE_ACTION_SENT", "RESOLVED"}
Open == {"NONE", "PRE_ADVERSE_SENT"}

Init ==
  /\ phase = [c \in Checks |-> "NONE"]
  /\ askedAt = [c \in Checks |-> Never]
  /\ letterAt = [c \in Checks |-> Never]
  /\ adverse = {}
  /\ now = 0

Waited(c) == askedAt[c] # Never /\ now - askedAt[c] >= WaitingPeriod

\* Only the first attempt, and the first letter, count.
SendLetter(c) ==
  /\ askedAt' = [askedAt EXCEPT ![c] = IF @ = Never THEN now ELSE @]
  /\ letterAt' \in {letterAt, [letterAt EXCEPT ![c] = IF @ = Never THEN now ELSE @]}
  /\ UNCHANGED <<phase, adverse, now>>

Notify(c) ==
  /\ phase[c] = "NONE"
  /\ askedAt[c] # Never
  /\ phase' = [phase EXCEPT ![c] = "PRE_ADVERSE_SENT"]
  /\ UNCHANGED <<askedAt, letterAt, adverse, now>>

SendAdverse(c) ==
  /\ Waited(c)
  /\ adverse' = adverse \cup {c}
  /\ UNCHANGED <<phase, askedAt, letterAt, now>>

Finalize(c) ==
  /\ phase[c] = "PRE_ADVERSE_SENT"
  /\ Waited(c)
  /\ phase' = [phase EXCEPT ![c] = "ADVERSE_ACTION_SENT"]
  /\ UNCHANGED <<askedAt, letterAt, adverse, now>>

Resolve(c) ==
  /\ phase[c] \in Open
  /\ phase' = [phase EXCEPT ![c] = "RESOLVED"]
  /\ UNCHANGED <<askedAt, letterAt, adverse, now>>

Tick ==
  /\ now' = now + 1
  /\ UNCHANGED <<phase, askedAt, letterAt, adverse>>

Next ==
  \/ \E c \in Checks :
       SendLetter(c) \/ Notify(c) \/ SendAdverse(c) \/ Finalize(c) \/ Resolve(c)
  \/ Tick

Spec == Init /\ [][Next]_vars
=============================================================================
