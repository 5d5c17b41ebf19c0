--------------------------- MODULE SingleUseLinks ---------------------------
(***************************************************************************)
(* What a volunteer is promised about links: a link hands out one copy, to *)
(* the organization its list will name, and only while it is open.  Once   *)
(* closed, by use, by the volunteer, by its end or with its credential, it *)
(* never opens again.  ShareTokens implements this with a status that      *)
(* several writers overwrite by id.                                        *)
(***************************************************************************)
CONSTANTS
  Links,
  Orgs,
  Nobody      \* no organization

VARIABLES
  made,       \* the links there have been
  open,       \* those that still hand out a copy
  listed,     \* the organization the volunteer's list names
  given,      \* the organizations that have a copy through the link
  withdrawn   \* the links the volunteer was told are revoked

vars == <<made, open, listed, given, withdrawn>>

Init ==
  /\ made = {}
  /\ open = {}
  /\ listed = [t \in Links |-> Nobody]
  /\ given = [t \in Links |-> {}]
  /\ withdrawn = {}

HandOut(t, o) ==
  /\ listed' = [listed EXCEPT ![t] = o]
  /\ given' = [given EXCEPT ![t] = {o}]

Make(t) ==
  /\ t \notin made
  /\ made' = made \cup {t}
  /\ open' = open \cup {t}
  /\ UNCHANGED <<listed, given, withdrawn>>

Use(t, o) ==
  /\ t \in open
  /\ open' = open \ {t}
  /\ HandOut(t, o)
  /\ UNCHANGED <<made, withdrawn>>

\* An application brings a credential along: a link made and used in one.
MakeUsed(t, o) ==
  /\ t \notin made
  /\ made' = made \cup {t}
  /\ HandOut(t, o)
  /\ UNCHANGED <<open, withdrawn>>

\* The links of a removed credential close together, those past their end one by one.
Close(closed) ==
  /\ closed \subseteq open
  /\ open' = open \ closed
  /\ UNCHANGED <<made, listed, given, withdrawn>>

\* Whatever has become of the link: what it has handed out it has handed out.
Withdraw(t) ==
  /\ t \in made
  /\ open' = open \ {t}
  /\ withdrawn' = withdrawn \cup {t}
  /\ UNCHANGED <<made, listed, given>>

Next ==
  \/ \E t \in Links :
       \/ Make(t) \/ Withdraw(t)
       \/ \E o \in Orgs : Use(t, o) \/ MakeUsed(t, o)
  \/ \E closed \in SUBSET open : Close(closed)

Spec == Init /\ [][Next]_vars
=============================================================================
