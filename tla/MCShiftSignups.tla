--------------------------- MODULE MCShiftSignups ---------------------------
(* Instances of ShiftSignups for TLC.  Volunteers, shifts and requests are   *)
(* model values; no definition tells two of them apart, so safety runs take  *)
(* them up to permutation.                                                   *)
EXTENDS ShiftSignups, TLC

Symmetry == Permutations(Volunteers) \cup Permutations(Shifts) \cup Permutations(Requests)

\* The operations that touch the bookings of a shift the coordinator leaves alone.
VolunteerOps == {"createShift", "signUp", "cancel", "joinWaitlist", "leaveWaitlist"}
RacingOps == VolunteerOps \cup {"staffMark", "checkin", "removeShift", "clock"}
SerialOps == VolunteerOps \cup {"cancelShift", "completeShift", "removeShift", "clock"}
ScheduleOps == {"createShift", "cancelShift", "completeShift", "signUp", "assign", "cancel",
                "addVolunteer", "removeVolunteer", "leaveOrg"}
ClosingOps == {"createShift", "updateShift", "cancelShift", "completeShift", "removeShift",
               "signUp", "cancel", "clock"}
=============================================================================
