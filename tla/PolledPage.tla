----------------------------- MODULE PolledPage ------------------------------
(***************************************************************************)
(* What the dashboard promises about the data on its page, without timers, *)
(* requests, charts and tables: polls are numbered; each may deliver at    *)
(* most one answer of each kind, in any order relative to other polls, and *)
(* an answer replaces what the page shows and is counted once.  Nothing    *)
(* else changes the page but Clear; no poll starts while polling is off.   *)
(* Dashboard implements it.                                                *)
(***************************************************************************)
EXTENDS Naturals

CONSTANTS Kinds, Answers, MaxPolls, None

VARIABLES
  polling,  (* automatic refresh is on                                     *)
  asked,    (* number of polls started                                     *)
  owed,     (* for each poll, the kinds of answer it may still deliver     *)
  shown,    (* for each kind, the answer on the page                       *)
  counted   (* for each kind, the items received since the last Clear      *)

vars == <<polling, asked, owed, shown, counted>>

\* The page polls as soon as it is loaded.
Init ==
  /\ polling = TRUE
  /\ asked = 1
  /\ owed = [i \in 1..MaxPolls |-> IF i = 1 THEN Kinds ELSE {}]
  /\ shown = [k \in Kinds |-> None]
  /\ counted = [k \in Kinds |-> 0]

\* Switching polling on polls at once.
Poll ==
  /\ asked < MaxPolls
  /\ polling' = TRUE
  /\ asked' = asked + 1
  /\ owed' = [owed EXCEPT ![asked + 1] = Kinds]
  /\ UNCHANGED <<shown, counted>>

Pause ==
  /\ polling' = FALSE
  /\ UNCHANGED <<asked, owed, shown, counted>>

Deliver(i, k, a) ==
  /\ k \in owed[i]
  /\ a.size > 0
  /\ shown' = [shown EXCEPT ![k] = a]
  /\ counted' = [counted EXCEPT ![k] = @ + a.size]
  /\ \E rest \in SUBSET (owed[i] \ {k}) : owed' = [owed EXCEPT ![i] = rest]
  /\ UNCHANGED <<polling, asked>>

\* An answer is empty, malformed or missing.
GiveUp(i) ==
  /\ \E rest \in SUBSET owed[i] : owed' = [owed EXCEPT ![i] = rest]
  /\ UNCHANGED <<polling, asked, shown, counted>>

Clear ==
  /\ shown' = [k \in Kinds |-> None]
  /\ counted' = [k \in Kinds |-> 0]
  /\ UNCHANGED <<polling, asked, owed>>

Next ==
  \/ Poll
  \/ Pause
  \/ \E i \in 1..MaxPolls, k \in Kinds, a \in Answers : Deliver(i, k, a)
  \/ \E i \in 1..MaxPolls : GiveUp(i)
  \/ Clear

Spec == Init /\ [][Next]_vars
==============================================================================
