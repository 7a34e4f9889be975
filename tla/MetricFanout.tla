----------------------------- MODULE MetricFanout ----------------------------
(***************************************************************************)
(* What the Analytics Engine promises, without RPC, recover(), channels    *)
(* and HTTP handlers: metrics are taken one at a time; each is offered     *)
(* once, in the order of the plugins, to every plugin that subscribes to   *)
(* it, and only a dead one is passed over.  A plugin executes only right   *)
(* after it has taken the metric, its result replaces the one before as a  *)
(* whole, and each of the names in it is sent once before anything else    *)
(* happens.  A result leaves the board only by another one or by expiry.   *)
(* AnalyticsEngine implements it.                                          *)
(***************************************************************************)
EXTENDS Naturals

CONSTANTS NPlugins, Names, Subscribed, Produced, Expiration

Plugins == 1..NPlugins

VARIABLES
  dead,     (* the plugins that have died                                  *)
  current,  (* the metric being offered, if any                            *)
  left,     (* the plugins it has still to be offered to                   *)
  taker,    (* the plugin that took it last, while the engine is with it   *)
  unsent,   (* the names of the taker's result that are still to be sent   *)
  board     (* names and age of each plugin's result; a function of the    *)
            (* plugins that have one                                       *)

vars == <<dead, current, left, taker, unsent, board>>

Init ==
  /\ dead = {}
  /\ current = {} /\ left = {} /\ taker = {} /\ unsent = {}
  /\ board = [p \in {} |-> {}]

\* The engine is done with a plugin, and with the metric when nobody is left.
Leave(rest) ==
  /\ left' = rest
  /\ taker' = {}
  /\ unsent' = {}
  /\ \/ UNCHANGED current
     \/ rest = {} /\ current' = {}

Take(n) ==
  /\ current = {}
  /\ current' = {n}
  /\ left' = {p \in Plugins : n \in Subscribed[p]}
  /\ UNCHANGED <<dead, taker, unsent, board>>

\* The next plugin the metric is offered to.
First(p) == taker = {} /\ p \in left /\ \A q \in left : p <= q

\* Once per metric: p leaves the set.
Offer(p) ==
  /\ First(p)
  /\ p \notin dead
  /\ \/ left' = left \ {p} /\ taker' = {p} /\ UNCHANGED <<current, unsent>>
     \/ Leave(left \ {p})
  /\ UNCHANGED <<dead, board>>

\* A dead plugin costs itself the metric, or its own result, and no other one.
PassOver(p) ==
  /\ p \in dead
  /\ unsent = {}
  /\ \/ First(p) /\ Leave(left \ {p})
     \/ taker = {p} /\ Leave(left)
  /\ UNCHANGED <<dead, board>>

Compute(p, result) ==
  /\ taker = {p}
  /\ p \notin dead
  /\ unsent = {}
  /\ \/ /\ result # {}
        /\ board' = [q \in DOMAIN board \cup {p} |->
                       IF q = p THEN [names |-> result, age |-> 0] ELSE board[q]]
        /\ unsent' = result
        /\ UNCHANGED <<current, left, taker>>
     \/ result = {} /\ Leave(left) /\ UNCHANGED board
  /\ UNCHANGED dead

Send(n) ==
  /\ n \in unsent
  /\ \/ unsent' = unsent \ {n} /\ UNCHANGED <<current, left, taker>>
     \/ unsent = {n} /\ Leave(left)
  /\ UNCHANGED <<dead, board>>

\* Between two plugins a result that has expired may leave the board.
Look(p) ==
  /\ current # {} /\ taker = {}
  /\ \/ UNCHANGED board
     \/ /\ p \in DOMAIN board /\ board[p].age > Expiration
        /\ board' = [q \in DOMAIN board \ {p} |-> board[q]]
  /\ Leave(left)
  /\ UNCHANGED dead

Die(p) ==
  /\ dead' = dead \cup {p}
  /\ UNCHANGED <<current, left, taker, unsent, board>>

\* Ages are counted up to the first that is past the expiration.
Pass ==
  /\ board' = [p \in DOMAIN board |->
                 [board[p] EXCEPT !.age = IF @ > Expiration THEN @ ELSE @ + 1]]
  /\ UNCHANGED <<dead, current, left, taker, unsent>>

Next ==
  \/ \E n \in Names : Take(n) \/ Send(n)
  \/ \E p \in Plugins : Offer(p) \/ PassOver(p) \/ Look(p) \/ Die(p)
  \/ \E p \in Plugins : \E result \in SUBSET Produced[p] : Compute(p, result)
  \/ Pass

Spec == Init /\ [][Next]_vars
==============================================================================
