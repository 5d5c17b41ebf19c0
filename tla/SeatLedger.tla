----------------------------- MODULE SeatLedger -----------------------------
(***************************************************************************)
(* What volunteers are promised about the seats of a shift: a seat is      *)
(* taken while one is free, who waits does so because none is, and a seat  *)
(* given up goes at once to somebody who has waited longest (docs/         *)
(* DOMAIN.md:417).  Every operation is one step, so nothing it relies on   *)
(* can change under it.  ShiftSignups reads, decides and then writes; it   *)
(* implements this ledger while requests about one shift do not overlap.   *)
(***************************************************************************)
EXTENDS Naturals, FiniteSets

CONSTANTS
  Volunteers,
  Shifts,
  Capacities      \* the capacities a shift may have

VARIABLES
  offered,        \* the shifts there are, whether they take people or have ended
  capacity,       \* the seats of a shift
  holders,        \* who has a seat on a shift
  queue           \* who waits for one, and since when

vars == <<offered, capacity, holders, queue>>

NoQueue == [u \in {} |-> 0]

Waiting(s) == DOMAIN queue[s]
HasFreeSeat(s) == Cardinality(holders[s]) < capacity[s]
First(s) == {u \in Waiting(s) : \A v \in Waiting(s) : queue[s][u] <= queue[s][v]}

QueueWithout(s, u) == [queue EXCEPT ![s] = [v \in Waiting(s) \ {u} |-> queue[s][v]]]

Init ==
  /\ offered = {}
  /\ capacity \in [Shifts -> Capacities]
  /\ holders = [s \in Shifts |-> {}]
  /\ queue = [s \in Shifts |-> NoQueue]

Offer(s, c) ==
  /\ s \notin offered
  /\ offered' = offered \cup {s}
  /\ capacity' = [capacity EXCEPT ![s] = c]
  /\ UNCHANGED <<holders, queue>>

Withdraw(s) ==
  /\ s \in offered
  /\ offered' = offered \ {s}
  /\ holders' = [holders EXCEPT ![s] = {}]
  /\ queue' = [queue EXCEPT ![s] = NoQueue]
  /\ UNCHANGED capacity

Take(s, u) ==
  /\ s \in offered
  /\ u \notin holders[s] \cup Waiting(s)
  /\ HasFreeSeat(s)
  /\ holders' = [holders EXCEPT ![s] = @ \cup {u}]
  /\ UNCHANGED <<offered, capacity, queue>>

\* Whoever joins the queue joins at its end.
Join(s, u) ==
  /\ s \in offered
  /\ u \notin holders[s] \cup Waiting(s)
  /\ ~HasFreeSeat(s)
  /\ queue' = [queue EXCEPT ![s] = queue'[s]]
  /\ queue'[s] \in [Waiting(s) \cup {u} -> Nat]
  /\ \A v \in Waiting(s) : queue'[s][v] = queue[s][v] /\ queue[s][v] <= queue'[s][u]
  /\ UNCHANGED <<offered, capacity, holders>>

Leave(s, u) ==
  /\ u \in Waiting(s)
  /\ queue' = QueueWithout(s, u)
  /\ UNCHANGED <<offered, capacity, holders>>

GiveUp(s, u) ==
  /\ u \in holders[s]
  /\ Waiting(s) = {}
  /\ holders' = [holders EXCEPT ![s] = @ \ {u}]
  /\ UNCHANGED <<offered, capacity, queue>>

PassOn(s, u, next) ==
  /\ u \in holders[s]
  /\ next \in First(s)
  /\ holders' = [holders EXCEPT ![s] = (@ \ {u}) \cup {next}]
  /\ queue' = QueueWithout(s, next)
  /\ UNCHANGED <<offered, capacity>>

Next ==
  \E s \in Shifts :
    \/ \E c \in Capacities : Offer(s, c)
    \/ Withdraw(s)
    \/ \E u \in Volunteers :
         \/ Take(s, u) \/ Join(s, u) \/ Leave(s, u) \/ GiveUp(s, u)
         \/ \E next \in Volunteers : PassOn(s, u, next)

Spec == Init /\ [][Next]_vars
=============================================================================
