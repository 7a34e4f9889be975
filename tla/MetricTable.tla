----------------------------- MODULE MetricTable -----------------------------
(***************************************************************************)
(* What the Data Archiver promises about the metrics it keeps, without     *)
(* goroutines, iterations and Prometheus: a table of the last value of     *)
(* each name.  Messages are applied one by one, in the order they came,    *)
(* each whole and at one instant.  A name leaves the table only after it   *)
(* was found expired there; it may have been refreshed in the meantime,    *)
(* and leaves all the same.  Nothing else but the end of the process takes *)
(* a metric away, and nothing but a message brings one or changes a value. *)
(* DArchiver implements it.                                                *)
(***************************************************************************)
EXTENDS Naturals

CONSTANTS Names, Values, TTL

VARIABLES
  alive,     (* the process runs                                           *)
  table,     (* value and age of each name kept, a function of those names *)
  pending,   (* the message received and not yet applied, if any           *)
  condemned  (* the name found expired and not yet removed, if any         *)

vars == <<alive, table, pending, condemned>>

Init ==
  /\ alive = TRUE
  /\ table = [n \in {} |-> {}]
  /\ pending = {}
  /\ condemned = {}

Receive(n, v) ==
  /\ alive
  /\ pending = {}
  /\ pending' = {[name |-> n, value |-> v, age |-> 0]}
  /\ UNCHANGED <<alive, table, condemned>>

\* The message replaces what the table has under its name.
Apply ==
  /\ \E m \in pending :
       table' = [n \in DOMAIN table \cup {m.name} |->
                   IF n = m.name THEN [value |-> m.value, age |-> m.age] ELSE table[n]]
  /\ pending' = {}
  /\ UNCHANGED <<alive, condemned>>

Condemn(n) ==
  /\ condemned = {}
  /\ n \in DOMAIN table
  /\ table[n].age > TTL
  /\ condemned' = {n}
  /\ UNCHANGED <<alive, table, pending>>

\* The name is still there: nobody else removes it.
Remove ==
  /\ \E n \in condemned :
       /\ n \in DOMAIN table
       /\ table' = [m \in DOMAIN table \ {n} |-> table[m]]
  /\ condemned' = {}
  /\ UNCHANGED <<alive, pending>>

\* A period passes; a message is applied before the second one since it came.
Pass ==
  /\ alive
  /\ \A m \in pending : m.age = 0
  /\ table' = [n \in DOMAIN table |-> [table[n] EXCEPT !.age = @ + 1]]
  /\ pending' = {[m EXCEPT !.age = @ + 1] : m \in pending}
  /\ UNCHANGED <<alive, condemned>>

\* The process ends, and the table with it; nobody starts it again.
Crash ==
  /\ alive
  /\ alive' = FALSE
  /\ table' = [n \in {} |-> {}]
  /\ pending' = {}
  /\ condemned' = {}

Next ==
  \/ \E n \in Names, v \in Values : Receive(n, v)
  \/ Apply
  \/ \E n \in Names : Condemn(n)
  \/ Remove
  \/ Pass
  \/ Crash

Spec == Init /\ [][Next]_vars
==============================================================================
