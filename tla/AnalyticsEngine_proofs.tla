----------------------- MODULE AnalyticsEngine_proofs ------------------------
(***************************************************************************)
(* Proofs about the Analytics Engine, for every number of plugins,         *)
(* whatever they subscribe to and produce.                                 *)
(***************************************************************************)
EXTENDS AnalyticsEngine, TLAPS

LEMMA PluginFacts ==
  /\ NPlugins \in Nat \ {0} /\ 1 \in Plugins /\ NPlugins \in Plugins
  /\ \A p \in Plugins : p \in Nat \ {0} /\ p <= NPlugins
  /\ \A p \in Plugins : p < NPlugins => p + 1 \in Plugins
  /\ \A p \in Plugins : ~(p < NPlugins) => p = NPlugins
BY EngineAssumption DEF Plugins

\* No buffer and no name is None, and a buffer may be as old as its bound.
LEMMA NoneIsNoValue ==
  /\ None \notin Buffer /\ None \notin Names
  /\ 0 \in 0..Expiration + 1
BY EngineAssumption DEF Buffer

LEMMA InitIInv == Init => IInv
<1> SUFFICES ASSUME Init PROVE IInv
  OBVIOUS
<1>1. TypeOK
  BY PluginFacts, EngineAssumption DEF Init, TypeOK
<1>2. HandlerUsesNoNil /\ Offering
  BY DEF Init, HandlerUsesNoNil, Offering
<1>3. QED
  BY <1>1, <1>2 DEF IInv

-----------------------------------------------------------------------------
(***************************************************************************)
(* The message loop.                                                       *)
(***************************************************************************)

LEMMA ReceiveMessageIInv == ASSUME IInv, ReceiveMessage PROVE IInv'
<1> USE DEF IInv, ReceiveMessage, apiVars
<1>1. /\ channel' \in Seq(Names) /\ Len(channel') <= MaxQueue
      /\ metric' \in Names
  BY EngineAssumption DEF TypeOK
<1>2. TypeOK'
  BY <1>1, PluginFacts DEF TypeOK
<1>3. HandlerUsesNoNil'
  BY DEF HandlerUsesNoNil
<1>4. Offering'
  BY PluginFacts DEF Offering
<1>5. QED
  BY <1>2, <1>3, <1>4

\* The loop leaves a plugin that has taken the metric, need not take it or
\* does not run.
LEMMA NextPluginIInv ==
  ASSUME IInv, pc # "receive", NextPlugin,
         outbox' = {}, UNCHANGED <<plugin, apiVars>>,
         offered' \in SUBSET Plugins, offered \subseteq offered',
         channel' \in Seq(Names), Len(channel') <= MaxQueue,
         buffer' \in [Plugins -> Buffer \cup {None}],
         metric \in Subscribed[at] => at \in offered' \/ plugin[at] # "up"
  PROVE  IInv' /\ OffersToAll
<1> USE DEF IInv, apiVars
<1>1. at \in Plugins /\ metric \in Names
  BY DEF TypeOK
<1>2. \A p \in Plugins : p < at \/ p = at =>
        (metric \in Subscribed[p] => p \in offered' \/ plugin[p] # "up")
  BY DEF Offering, Taken
<1>3. HandlerUsesNoNil'
  BY DEF HandlerUsesNoNil
<1>4. CASE at < NPlugins
  <2>1. pc' = "visit" /\ at' = at + 1 /\ metric' = metric
    BY <1>4 DEF NextPlugin
  <2>2. TypeOK'
    BY <1>1, <1>4, <2>1, PluginFacts DEF TypeOK
  <2>3. \A p \in Plugins : p < at + 1 => p < at \/ p = at
    BY <1>1, PluginFacts
  <2>4. Offering'
    BY <1>2, <2>1, <2>3 DEF Offering, Taken
  <2>5. QED
    BY <1>3, <2>1, <2>2, <2>4 DEF OffersToAll
<1>5. CASE ~(at < NPlugins)
  <2>1. pc' = "receive" /\ at' = 1 /\ metric' = None
    BY <1>5 DEF NextPlugin
  <2>2. TypeOK'
    BY <2>1, PluginFacts DEF TypeOK
  <2>3. \A p \in Plugins : p < at \/ p = at
    BY <1>1, <1>5, PluginFacts
  <2>4. Offering' /\ OffersToAll
    BY <1>2, <2>1, <2>3 DEF Offering, OffersToAll
  <2>5. QED
    BY <1>3, <2>2, <2>4
<1>6. QED
  BY <1>4, <1>5

\* A plugin that does not subscribe is skipped.
LEMMA VisitIInv == ASSUME IInv, Visit PROVE IInv' /\ OffersToAll
<1> USE DEF IInv, Visit
<1>1. buffer' \in [Plugins -> Buffer \cup {None}]
  BY DEF TypeOK
<1>2. CASE metric \in Subscribed[at]
  <2>1. pc' = "process" /\ UNCHANGED <<metric, at>>
    BY <1>2
  <2>2. TypeOK'
    BY <1>1, <2>1 DEF TypeOK, apiVars
  <2>3. HandlerUsesNoNil' /\ Offering' /\ OffersToAll
    BY <2>1 DEF HandlerUsesNoNil, Offering, Taken, OffersToAll, apiVars
  <2>4. QED
    BY <2>2, <2>3
<1>3. CASE metric \notin Subscribed[at]
  <2>1. NextPlugin /\ outbox' = {}
    BY <1>3 DEF TypeOK
  <2>2. /\ offered' \in SUBSET Plugins /\ offered \subseteq offered'
        /\ channel' \in Seq(Names) /\ Len(channel') <= MaxQueue
    BY DEF TypeOK
  <2>3. QED
    BY <1>1, <1>3, <2>1, <2>2, NextPluginIInv
<1>4. QED
  BY <1>2, <1>3

LEMMA ProcessMetricIInv == ASSUME IInv, ProcessMetric PROVE IInv' /\ OffersToAll
<1> USE DEF IInv, ProcessMetric
<1>1. /\ offered' \in SUBSET Plugins /\ offered \subseteq offered' /\ at \in offered'
      /\ outbox' = {}
      /\ channel' \in Seq(Names) /\ Len(channel') <= MaxQueue
      /\ buffer' \in [Plugins -> Buffer \cup {None}]
  BY DEF TypeOK
<1>2. CASE pc' = "execute" /\ UNCHANGED <<metric, at>>
  <2>1. TypeOK'
    BY <1>1, <1>2 DEF TypeOK, apiVars
  <2>2. HandlerUsesNoNil' /\ Offering' /\ OffersToAll
    BY <1>1, <1>2 DEF HandlerUsesNoNil, Offering, Taken, OffersToAll, apiVars
  <2>3. QED
    BY <2>1, <2>2
<1>3. CASE NextPlugin
  BY <1>1, <1>3, NextPluginIInv
<1>4. QED
  BY <1>2, <1>3

LEMMA ExecuteIInv == ASSUME IInv, Execute PROVE IInv' /\ OffersToAll
<1> USE DEF IInv, Execute
<1>1. /\ offered' \in SUBSET Plugins /\ offered \subseteq offered' /\ at \in offered'
      /\ channel' \in Seq(Names) /\ Len(channel') <= MaxQueue
      /\ at \in Plugins /\ outbox = {}
  BY DEF TypeOK, Offering
<1>2. PICK result \in SUBSET Produced[at] :
        \/ /\ result # {}
           /\ buffer' = [buffer EXCEPT ![at] = [names |-> result, age |-> 0]]
           /\ outbox' = result
           /\ pc' = "publish"
           /\ UNCHANGED <<metric, at>>
        \/ /\ result = {}
           /\ NextPlugin
           /\ UNCHANGED <<buffer, outbox>>
  OBVIOUS
<1>3. CASE result # {}
  <2>1. result \in SUBSET Names
    BY <1>1, <1>2, EngineAssumption
  <2>2. [names |-> result, age |-> 0] \in Buffer
    BY <2>1, NoneIsNoValue DEF Buffer
  <2>3. buffer' \in [Plugins -> Buffer \cup {None}]
    BY <1>2, <1>3, <2>2 DEF TypeOK
  <2>4. TypeOK'
    BY <1>1, <1>2, <1>3, <2>1, <2>3 DEF TypeOK, apiVars
  <2>5. HandlerUsesNoNil' /\ Offering' /\ OffersToAll
    BY <1>1, <1>2, <1>3 DEF HandlerUsesNoNil, Offering, Taken, OffersToAll, apiVars
  <2>6. QED
    BY <2>4, <2>5
<1>4. CASE result = {}
  <2>1. NextPlugin /\ outbox' = {} /\ buffer' \in [Plugins -> Buffer \cup {None}]
    BY <1>1, <1>2, <1>4 DEF TypeOK
  <2>2. QED
    BY <1>1, <2>1, NextPluginIInv
<1>5. QED
  BY <1>3, <1>4

LEMMA RecoverFromPanicIInv ==
  ASSUME IInv, RecoverFromPanic PROVE IInv' /\ OffersToAll
<1>1. /\ NextPlugin /\ plugin[at] # "up" /\ pc # "receive"
      /\ outbox' = {}
      /\ offered' \in SUBSET Plugins /\ offered \subseteq offered'
      /\ channel' \in Seq(Names) /\ Len(channel') <= MaxQueue
      /\ buffer' \in [Plugins -> Buffer \cup {None}]
      /\ UNCHANGED <<plugin, apiVars>>
  BY DEF IInv, TypeOK, RecoverFromPanic
<1>2. QED
  BY <1>1, NextPluginIInv

LEMMA PublishComputedMetricsIInv ==
  ASSUME IInv, NEW n \in Names, PublishComputedMetrics(n)
  PROVE  IInv' /\ OffersToAll
<1> USE DEF IInv, PublishComputedMetrics
<1>1. channel' \in Seq(Names) /\ Len(channel') <= MaxQueue
  <2>1. channel \in Seq(Names) /\ Len(channel) <= MaxQueue /\ MaxQueue \in Nat
    BY EngineAssumption DEF TypeOK
  <2>2. Deliver(n)
    OBVIOUS
  <2>3. QED
    BY <2>1, <2>2 DEF Deliver
<1>2. /\ offered' \in SUBSET Plugins /\ offered \subseteq offered' /\ at \in offered'
      /\ buffer' \in [Plugins -> Buffer \cup {None}]
      /\ outbox' \in SUBSET Names
  BY DEF TypeOK, Offering
<1>3. CASE outbox' = {}
  BY <1>1, <1>2, <1>3, NextPluginIInv
<1>4. CASE outbox' # {}
  <2>1. UNCHANGED <<pc, metric, at>>
    BY <1>4
  <2>2. TypeOK'
    BY <1>1, <1>2, <1>4, <2>1 DEF TypeOK, apiVars
  <2>3. HandlerUsesNoNil' /\ Offering' /\ OffersToAll
    BY <1>2, <2>1 DEF HandlerUsesNoNil, Offering, Taken, OffersToAll, apiVars
  <2>4. QED
    BY <2>2, <2>3
<1>5. QED
  BY <1>3, <1>4

LEMMA ProcessMetricWithPluginsIInv ==
  ASSUME IInv, ProcessMetricWithPlugins PROVE IInv' /\ OffersToAll
BY VisitIInv, ProcessMetricIInv, ExecuteIInv, RecoverFromPanicIInv, PublishComputedMetricsIInv
   DEF ProcessMetricWithPlugins

-----------------------------------------------------------------------------
(***************************************************************************)
(* Handlers and environment.                                               *)
(***************************************************************************)

\* A handler changes its own variables only; its copy of a wrapper stays as
\* it was when it was tested.
LEMMA HandlerIInv == ASSUME IInv, Handler PROVE IInv' /\ OffersToAll
<1> USE DEF IInv, loopVars
<1>1. UNCHANGED <<channel, plugin, buffer, loopVars>>
  BY DEF Handler, HandlerStarts, CopyWrapper, CheckWrapper, UseWrapper, AskPlugin
<1>2. Offering' /\ OffersToAll
  BY <1>1 DEF Offering, Taken, OffersToAll
<1>3. \A again \in {"copy", "models"} :
        NextWrapper(again) => apiPc' \in {again, "idle"} /\ apiAt' \in Plugins
  BY PluginFacts DEF NextWrapper, TypeOK
<1>4. /\ apiPc' \in {"idle", "copy", "check", "use", "models"}
      /\ apiAt' \in Plugins
      /\ copy' \in Buffer \cup {None}
      /\ apiPc' = "use" => copy' # None
  <2>1. CASE HandlerStarts
    BY <2>1 DEF HandlerStarts, TypeOK
  <2>2. CASE CopyWrapper
    BY <2>2 DEF CopyWrapper, TypeOK
  <2>3. CASE CheckWrapper
    BY <1>3, <2>3 DEF CheckWrapper, TypeOK
  <2>4. CASE UseWrapper
    BY <1>3, <2>4 DEF UseWrapper, TypeOK
  <2>5. CASE AskPlugin
    BY <1>3, <2>5, PluginFacts DEF AskPlugin, TypeOK
  <2>6. QED
    BY <2>1, <2>2, <2>3, <2>4, <2>5 DEF Handler
<1>5. TypeOK'
  BY <1>1, <1>4 DEF TypeOK
<1>6. QED
  BY <1>2, <1>4, <1>5 DEF HandlerUsesNoNil

LEMMA PublishRawIInv ==
  ASSUME IInv, NEW n \in Names, PublishRaw(n) PROVE IInv' /\ OffersToAll
<1> USE DEF IInv, PublishRaw, loopVars, apiVars
<1>1. channel' \in Seq(Names) /\ Len(channel') <= MaxQueue
  BY EngineAssumption DEF TypeOK
<1>2. TypeOK'
  BY <1>1 DEF TypeOK
<1>3. HandlerUsesNoNil' /\ Offering' /\ OffersToAll
  BY DEF HandlerUsesNoNil, Offering, Taken, OffersToAll
<1>4. QED
  BY <1>2, <1>3

\* A plugin that stops does not start again.
LEMMA PluginStopsIInv ==
  ASSUME IInv, NEW p \in Plugins, PluginDies(p) \/ PluginHangs(p)
  PROVE  IInv' /\ OffersToAll
<1> USE DEF IInv, PluginDies, PluginHangs, loopVars, apiVars
<1>1. TypeOK'
  BY DEF TypeOK
<1>2. \A q \in Plugins : plugin[q] # "up" => plugin'[q] # "up"
  BY DEF TypeOK
<1>3. HandlerUsesNoNil' /\ Offering' /\ OffersToAll
  BY <1>2 DEF HandlerUsesNoNil, Offering, Taken, OffersToAll
<1>4. QED
  BY <1>1, <1>3

LEMMA OlderIsBuffer ==
  ASSUME NEW b \in Buffer \cup {None} PROVE Older(b) \in Buffer \cup {None}
BY EngineAssumption DEF Older, Buffer

LEMMA TickIInv == ASSUME IInv, Tick PROVE IInv' /\ OffersToAll
<1> USE DEF IInv, Tick, loopVars, apiVars
<1>1. buffer' \in [Plugins -> Buffer \cup {None}]
  BY OlderIsBuffer DEF TypeOK
<1>2. TypeOK'
  BY <1>1 DEF TypeOK
<1>3. HandlerUsesNoNil' /\ Offering' /\ OffersToAll
  BY DEF HandlerUsesNoNil, Offering, Taken, OffersToAll
<1>4. QED
  BY <1>2, <1>3

LEMMA StutterIInv == ASSUME IInv, UNCHANGED vars PROVE IInv'
BY DEF IInv, TypeOK, HandlerUsesNoNil, Offering, Taken, vars, loopVars, apiVars

LEMMA NextIInv == IInv /\ [Next]_vars => IInv' /\ [OffersToAll]_vars
<1> SUFFICES ASSUME IInv, [Next]_vars PROVE IInv' /\ [OffersToAll]_vars
  OBVIOUS
<1>1. CASE ReceiveMessage
  BY <1>1, ReceiveMessageIInv DEF ReceiveMessage, OffersToAll
<1>2. CASE ProcessMetricWithPlugins
  BY <1>2, ProcessMetricWithPluginsIInv
<1>3. CASE Handler
  BY <1>3, HandlerIInv
<1>4. CASE \E n \in Names : PublishRaw(n)
  BY <1>4, PublishRawIInv
<1>5. CASE \E p \in Plugins : PluginDies(p) \/ PluginHangs(p)
  BY <1>5, PluginStopsIInv
<1>6. CASE Tick
  BY <1>6, TickIInv
<1>7. CASE UNCHANGED vars
  BY <1>7, StutterIInv
<1>8. QED
  BY <1>1, <1>2, <1>3, <1>4, <1>5, <1>6, <1>7 DEF Next

THEOREM Invariance == Safety => []IInv
BY InitIInv, NextIInv, PTL DEF Safety

-----------------------------------------------------------------------------

\* Every reachable state of the engine is type correct.
THEOREM TypeCorrectness == Safety => []TypeOK
<1>1. IInv => TypeOK
  BY DEF IInv
<1>2. QED
  BY <1>1, Invariance, PTL

\* No handler uses a buffer that the message loop has dropped.
THEOREM HandlersAreSafe == Safety => []HandlerUsesNoNil
<1>1. IInv => HandlerUsesNoNil
  BY DEF IInv
<1>2. QED
  BY <1>1, Invariance, PTL

\* The panic of one plugin costs no other plugin the metric.
THEOREM CrashIsolation == Safety => EveryPluginIsOffered
BY Invariance, NextIInv, PTL DEF Safety, EveryPluginIsOffered

-----------------------------------------------------------------------------
(***************************************************************************)
(* The engine implements MetricFanout.                                     *)
(***************************************************************************)

LEMMA NextAddressed == Addressed /\ [Next]_vars => Addressed'
<1> SUFFICES ASSUME Addressed, [Next]_vars PROVE Addressed'
  OBVIOUS
<1> USE DEF Addressed
<1>1. CASE ReceiveMessage
  BY <1>1 DEF ReceiveMessage
<1>2. CASE ProcessMetricWithPlugins
  BY <1>2 DEF ProcessMetricWithPlugins, Visit, ProcessMetric, Execute, RecoverFromPanic,
              PublishComputedMetrics, NextPlugin
<1>3. CASE Handler
  BY <1>3 DEF Handler, HandlerStarts, CopyWrapper, CheckWrapper, UseWrapper, AskPlugin, loopVars
<1>4. CASE \E n \in Names : PublishRaw(n)
  BY <1>4 DEF PublishRaw, loopVars
<1>5. CASE \E p \in Plugins : PluginDies(p) \/ PluginHangs(p)
  BY <1>5 DEF PluginDies, PluginHangs, loopVars
<1>6. CASE Tick
  BY <1>6 DEF Tick, loopVars
<1>7. CASE UNCHANGED vars
  BY <1>7 DEF vars, loopVars
<1>8. QED
  BY <1>1, <1>2, <1>3, <1>4, <1>5, <1>6, <1>7 DEF Next

LEMMA SamePlugins == Fanout!Plugins = Plugins
BY DEF Fanout!Plugins, Plugins

\* What a step leaves alone of the fan-out's view of the state.
LEMMA SameTurn ==
  ASSUME UNCHANGED <<pc, metric, at, outbox>>
  PROVE  UNCHANGED <<Current, Left, Taker, outbox>>
BY DEF Current, Left, Taker

LEMMA SameDead == ASSUME UNCHANGED plugin PROVE UNCHANGED DeadPlugins
BY DEF DeadPlugins

LEMMA SameBoard == ASSUME UNCHANGED buffer PROVE UNCHANGED Board
BY DEF Board

LEMMA QuietRefines ==
  ASSUME UNCHANGED <<pc, metric, at, outbox, plugin, buffer>>
  PROVE  UNCHANGED Fanout!vars
BY SameTurn, SameDead, SameBoard DEF Fanout!vars

\* The plugins after the one the loop is at.
Later == {p \in Plugins : metric \in Subscribed[p] /\ p > at}

LEMMA LeftIs ==
  ASSUME TypeOK, Addressed, pc # "receive"
  PROVE  /\ Current = {metric}
         /\ pc \in {"execute", "publish"} => Left = Later /\ Taker = {at}
         /\ pc \in {"visit", "process"} => Taker = {}
         /\ pc = "process" => at \in Left /\ Left \ {at} = Later /\ \A q \in Left : at <= q
         /\ pc = "visit" /\ metric \notin Subscribed[at] => Left = Later
<1>1. at \in Plugins /\ \A p \in Plugins : p \in Nat
  BY PluginFacts DEF TypeOK
<1>2. QED
  BY <1>1 DEF Current, Left, Taker, Later, Addressed

LEMMA InitRefines == Init => Fanout!Init
<1> SUFFICES ASSUME Init PROVE Fanout!Init
  OBVIOUS
<1>1. {q \in Plugins : buffer[q] # None} = {} /\ DeadPlugins = {}
  BY DEF Init, DeadPlugins
<1>2. Board = [p \in {} |-> {}]
  BY <1>1 DEF Board
<1>3. Current = {} /\ Left = {} /\ Taker = {} /\ outbox = {}
  BY DEF Init, Current, Left, Taker
<1>4. QED
  BY <1>1, <1>2, <1>3 DEF Fanout!Init

\* The loop goes on to the next plugin, or is done with the metric.
LEMMA NextPluginLeaves ==
  ASSUME TypeOK, Addressed, pc # "receive", NextPlugin, outbox' = {}
  PROVE  Fanout!Leave(Later)
<1>1. at \in Plugins /\ \A p \in Plugins : p \in Nat /\ p <= NPlugins
  BY PluginFacts DEF TypeOK
<1>2. CASE at < NPlugins
  <2>1. pc' = "visit" /\ at' = at + 1 /\ metric' = metric
    BY <1>2 DEF NextPlugin
  <2>2. Left' = Later
    BY <1>1, <2>1 DEF Left, Later
  <2>3. Current' = Current /\ Taker' = {}
    BY <2>1 DEF Current, Taker
  <2>4. QED
    BY <2>2, <2>3 DEF Fanout!Leave
<1>3. CASE ~(at < NPlugins)
  <2>1. pc' = "receive"
    BY <1>3 DEF NextPlugin
  <2>2. Left' = {} /\ Current' = {} /\ Taker' = {}
    BY <2>1 DEF Left, Current, Taker
  <2>3. Later = {}
    <3>1. NPlugins \in Nat /\ at \in Nat
      BY <1>1, PluginFacts
    <3>2. \A p \in Plugins : ~(p > at)
      BY <1>1, <1>3, <3>1
    <3>3. QED
      BY <3>2 DEF Later
  <2>4. QED
    BY <2>2, <2>3 DEF Fanout!Leave
<1>4. QED
  BY <1>2, <1>3

LEMMA ReceiveMessageRefines ==
  ASSUME TypeOK, ReceiveMessage
  PROVE  \E n \in Names : Fanout!Take(n)
<1>1. metric' \in Names /\ pc = "receive" /\ pc' = "visit" /\ at' = 1
  BY DEF TypeOK, ReceiveMessage
<1>2. Current = {} /\ Current' = {metric'} /\ Taker' = Taker
  BY <1>1 DEF Current, Taker
<1>3. Left' = {p \in Fanout!Plugins : metric' \in Subscribed[p]}
  <2>1. \A p \in Plugins : p > 1 \/ p = 1
    BY PluginFacts
  <2>2. Left' = {p \in Plugins : metric' \in Subscribed[p]}
    BY <1>1, <2>1 DEF Left
  <2>3. QED
    BY <2>2, SamePlugins
<1>4. DeadPlugins' = DeadPlugins /\ Board' = Board /\ outbox' = outbox
  BY SameDead, SameBoard DEF ReceiveMessage
<1>5. QED
  BY <1>1, <1>2, <1>3, <1>4 DEF Fanout!Take

\* The board after a wrapper's buffer was dropped or replaced.
LEMMA BoardOf ==
  ASSUME buffer \in [Plugins -> Buffer \cup {None}]
  PROVE  /\ DOMAIN Board = {q \in Plugins : buffer[q] # None}
         /\ \A p \in DOMAIN Board : Board[p] = buffer[p] /\ buffer[p] \in Buffer
BY DEF Board

LEMMA DroppedFromBoard ==
  ASSUME TypeOK, at \in Plugins, buffer' = [buffer EXCEPT ![at] = None]
  PROVE  Board' = [q \in DOMAIN Board \ {at} |-> Board[q]]
<1>1. \A q \in Plugins : buffer'[q] = IF q = at THEN None ELSE buffer[q]
  BY DEF TypeOK
<1>2. {q \in Plugins : buffer'[q] # None} = DOMAIN Board \ {at}
  BY <1>1, BoardOf DEF TypeOK
<1>3. \A q \in DOMAIN Board \ {at} : buffer'[q] = Board[q]
  BY <1>1, BoardOf DEF TypeOK
<1>4. QED
  BY <1>2, <1>3 DEF Board

LEMMA ReplacedOnBoard ==
  ASSUME TypeOK, at \in Plugins, NEW b \in Buffer, buffer' = [buffer EXCEPT ![at] = b]
  PROVE  Board' = [q \in DOMAIN Board \cup {at} |-> IF q = at THEN b ELSE Board[q]]
<1>1. \A q \in Plugins : buffer'[q] = IF q = at THEN b ELSE buffer[q]
  BY DEF TypeOK
<1>2. {q \in Plugins : buffer'[q] # None} = DOMAIN Board \cup {at}
  BY <1>1, BoardOf, NoneIsNoValue DEF TypeOK
<1>3. \A q \in DOMAIN Board \cup {at} : buffer'[q] = IF q = at THEN b ELSE Board[q]
  BY <1>1, BoardOf DEF TypeOK
<1>4. QED
  BY <1>2, <1>3 DEF Board

LEMMA VisitRefines == ASSUME TypeOK, Addressed, Visit PROVE Fanout!Look(at)
<1>1. pc = "visit" /\ at \in Plugins /\ outbox' = {} /\ pc # "receive"
  BY DEF Visit, TypeOK
<1>2. Current # {} /\ Taker = {} /\ DeadPlugins' = DeadPlugins
  BY <1>1, LeftIs, SameDead DEF Visit
<1>3. \/ Board' = Board
      \/ /\ at \in DOMAIN Board /\ Board[at].age > Expiration
         /\ Board' = [q \in DOMAIN Board \ {at} |-> Board[q]]
  <2>1. CASE Expired(buffer[at])
    <3>1. buffer' = [buffer EXCEPT ![at] = None]
      BY <2>1 DEF Visit
    <3>2. at \in DOMAIN Board /\ Board[at].age > Expiration
      BY <1>1, <2>1, BoardOf DEF TypeOK, Expired
    <3>3. QED
      BY <1>1, <3>1, <3>2, DroppedFromBoard
  <2>2. CASE ~Expired(buffer[at])
    BY <2>2, SameBoard DEF Visit, TypeOK
  <2>3. QED
    BY <2>1, <2>2
<1>4. Fanout!Leave(Left)
  <2>1. CASE metric \in Subscribed[at]
    <3>1. pc' = "process" /\ metric' = metric /\ at' = at
      BY <2>1 DEF Visit
    <3>2. Left' = Left /\ Taker' = {} /\ Current' = Current
      BY <1>1, <3>1 DEF Left, Taker, Current
    <3>3. QED
      BY <1>1, <3>2 DEF Fanout!Leave
  <2>2. CASE metric \notin Subscribed[at]
    <3>1. NextPlugin /\ Left = Later
      BY <1>1, <2>2, LeftIs DEF Visit
    <3>2. QED
      BY <1>1, <3>1, NextPluginLeaves
  <2>3. QED
    BY <2>1, <2>2
<1>5. QED
  BY <1>2, <1>3, <1>4 DEF Fanout!Look

LEMMA ProcessMetricRefines == ASSUME TypeOK, Addressed, ProcessMetric PROVE Fanout!Offer(at)
<1>1. pc = "process" /\ pc # "receive" /\ at \in Plugins /\ outbox = {} /\ outbox' = {}
  BY DEF ProcessMetric, TypeOK
<1>2. /\ Taker = {} /\ at \in Left /\ \A q \in Left : at <= q
      /\ Left \ {at} = Later
  BY <1>1, LeftIs
<1>3. at \notin DeadPlugins /\ DeadPlugins' = DeadPlugins /\ Board' = Board
  BY SameDead, SameBoard DEF ProcessMetric, DeadPlugins
<1>4. CASE pc' = "execute" /\ UNCHANGED <<metric, at>>
  <2>1. Left' = Later /\ Taker' = {at} /\ Current' = Current
    BY <1>1, <1>4 DEF Left, Later, Taker, Current
  <2>2. QED
    BY <1>1, <1>2, <1>3, <2>1 DEF Fanout!Offer, Fanout!First
<1>5. CASE NextPlugin
  <2>1. Fanout!Leave(Left \ {at})
    BY <1>1, <1>2, <1>5, NextPluginLeaves
  <2>2. QED
    BY <1>2, <1>3, <2>1 DEF Fanout!Offer, Fanout!First
<1>6. QED
  BY <1>4, <1>5 DEF ProcessMetric

LEMMA ExecuteRefines ==
  ASSUME TypeOK, Addressed, Execute
  PROVE  \E result \in SUBSET Produced[at] : Fanout!Compute(at, result)
<1>1. pc = "execute" /\ pc # "receive" /\ at \in Plugins /\ outbox = {}
  BY DEF Execute, TypeOK
<1>2. Taker = {at} /\ Left = Later
  BY <1>1, LeftIs
<1>3. at \notin DeadPlugins /\ DeadPlugins' = DeadPlugins
  BY SameDead DEF Execute, DeadPlugins
<1>4. PICK result \in SUBSET Produced[at] :
        \/ /\ result # {}
           /\ buffer' = [buffer EXCEPT ![at] = [names |-> result, age |-> 0]]
           /\ outbox' = result
           /\ pc' = "publish"
           /\ UNCHANGED <<metric, at>>
        \/ /\ result = {}
           /\ NextPlugin
           /\ UNCHANGED <<buffer, outbox>>
  BY DEF Execute
<1>5. CASE result # {}
  <2>1. [names |-> result, age |-> 0] \in Buffer
    BY <1>1, EngineAssumption, NoneIsNoValue DEF Buffer
  <2>2. Board' = [q \in DOMAIN Board \cup {at} |->
                    IF q = at THEN [names |-> result, age |-> 0] ELSE Board[q]]
    BY <1>1, <1>4, <1>5, <2>1, ReplacedOnBoard
  <2>3. Left' = Left /\ Taker' = Taker /\ Current' = Current /\ outbox' = result
    BY <1>1, <1>4, <1>5 DEF Left, Taker, Current
  <2>4. QED
    BY <1>1, <1>2, <1>3, <1>5, <2>2, <2>3 DEF Fanout!Compute
<1>6. CASE result = {}
  <2>1. NextPlugin /\ outbox' = {} /\ Board' = Board
    BY <1>1, <1>4, <1>6, SameBoard
  <2>2. Fanout!Leave(Left)
    BY <1>1, <1>2, <2>1, NextPluginLeaves
  <2>3. QED
    BY <1>1, <1>2, <1>3, <1>6, <2>1, <2>2 DEF Fanout!Compute
<1>7. QED
  BY <1>5, <1>6

\* The plugin dies before it takes the metric, or before its result is there.
LEMMA RecoverFromPanicRefines ==
  ASSUME TypeOK, Addressed, RecoverFromPanic
  PROVE  Fanout!PassOver(at)
<1>1. /\ pc \in {"process", "execute"} /\ pc # "receive" /\ at \in Plugins
      /\ outbox = {} /\ outbox' = {} /\ NextPlugin
  BY DEF RecoverFromPanic, TypeOK
<1>2. at \in DeadPlugins /\ DeadPlugins' = DeadPlugins /\ Board' = Board
  BY <1>1, SameDead, SameBoard DEF RecoverFromPanic, DeadPlugins
<1>3. Fanout!Leave(Later)
  BY <1>1, NextPluginLeaves
<1>4. CASE pc = "process"
  BY <1>1, <1>2, <1>3, <1>4, LeftIs DEF Fanout!PassOver, Fanout!First
<1>5. CASE pc = "execute"
  BY <1>1, <1>2, <1>3, <1>5, LeftIs DEF Fanout!PassOver
<1>6. QED
  BY <1>1, <1>4, <1>5

LEMMA PublishComputedMetricsRefines ==
  ASSUME TypeOK, Addressed, NEW n \in Names, PublishComputedMetrics(n)
  PROVE  Fanout!Send(n)
<1>1. pc = "publish" /\ pc # "receive" /\ n \in outbox /\ outbox' = outbox \ {n}
  BY DEF PublishComputedMetrics
<1>2. DeadPlugins' = DeadPlugins /\ Board' = Board
  BY SameDead, SameBoard DEF PublishComputedMetrics
<1>3. CASE outbox' = {}
  <2>1. outbox = {n} /\ NextPlugin
    BY <1>1, <1>3 DEF PublishComputedMetrics
  <2>2. Fanout!Leave(Left)
    BY <1>1, <1>3, <2>1, LeftIs, NextPluginLeaves
  <2>3. QED
    BY <1>1, <1>2, <2>1, <2>2 DEF Fanout!Send
<1>4. CASE outbox' # {}
  <2>1. UNCHANGED <<pc, metric, at>>
    BY <1>4 DEF PublishComputedMetrics
  <2>2. Left' = Left /\ Taker' = Taker /\ Current' = Current
    BY <2>1 DEF Left, Taker, Current
  <2>3. QED
    BY <1>1, <1>2, <2>2 DEF Fanout!Send
<1>5. QED
  BY <1>3, <1>4

LEMMA ProcessMetricWithPluginsRefines ==
  ASSUME TypeOK, Addressed, ProcessMetricWithPlugins
  PROVE  Fanout!Next
<1>1. at \in Fanout!Plugins
  BY SamePlugins DEF TypeOK
<1>2. CASE Visit
  BY <1>1, <1>2, VisitRefines DEF Fanout!Next
<1>3. CASE ProcessMetric
  BY <1>1, <1>3, ProcessMetricRefines DEF Fanout!Next
<1>4. CASE Execute
  BY <1>1, <1>4, ExecuteRefines DEF Fanout!Next
<1>5. CASE RecoverFromPanic
  BY <1>1, <1>5, RecoverFromPanicRefines DEF Fanout!Next
<1>6. CASE \E n \in Names : PublishComputedMetrics(n)
  BY <1>6, PublishComputedMetricsRefines DEF Fanout!Next
<1>7. QED
  BY <1>2, <1>3, <1>4, <1>5, <1>6 DEF ProcessMetricWithPlugins

LEMMA PluginDiesRefines ==
  ASSUME TypeOK, NEW p \in Plugins, PluginDies(p)
  PROVE  Fanout!Die(p)
<1>1. \A q \in Plugins : plugin'[q] = IF q = p THEN "dead" ELSE plugin[q]
  BY DEF PluginDies, TypeOK
<1>2. DeadPlugins' = DeadPlugins \cup {p}
  BY <1>1 DEF DeadPlugins
<1>3. UNCHANGED <<Current, Left, Taker, outbox>> /\ Board' = Board
  BY SameTurn, SameBoard DEF PluginDies, loopVars
<1>4. QED
  BY <1>2, <1>3 DEF Fanout!Die

LEMMA PluginHangsRefines ==
  ASSUME TypeOK, NEW p \in Plugins, PluginHangs(p)
  PROVE  UNCHANGED Fanout!vars
<1>1. /\ plugin[p] = "up"
      /\ \A q \in Plugins : plugin'[q] = IF q = p THEN "hung" ELSE plugin[q]
  BY DEF PluginHangs, TypeOK
<1>2. DeadPlugins' = DeadPlugins
  BY <1>1 DEF DeadPlugins
<1>3. UNCHANGED <<Current, Left, Taker, outbox>> /\ Board' = Board
  BY SameTurn, SameBoard DEF PluginHangs, loopVars
<1>4. QED
  BY <1>2, <1>3 DEF Fanout!vars

LEMMA TickRefines == ASSUME TypeOK, Tick PROVE Fanout!Pass
<1> DEFINE Grown(b) == [b EXCEPT !.age = IF @ > Expiration THEN @ ELSE @ + 1]
<1>1. \A p \in Plugins : buffer'[p] = Older(buffer[p])
  BY DEF Tick
<1>2. \A b : b # None => Older(b) = Grown(b)
  BY DEF Older
<1>3. \A b \in Buffer : Grown(b) \in Buffer /\ Grown(b) # None
  BY EngineAssumption, NoneIsNoValue DEF Buffer
<1>4. \A p \in Plugins : buffer'[p] # None <=> buffer[p] # None
  BY <1>1, <1>2, <1>3 DEF TypeOK, Older
<1>5. {p \in Plugins : buffer'[p] # None} = DOMAIN Board
  BY <1>4, BoardOf DEF TypeOK
<1> HIDE DEF Grown
<1>6. \A p \in DOMAIN Board : buffer'[p] = Grown(Board[p])
  BY <1>1, <1>2, BoardOf DEF TypeOK
<1>7. Board' = [p \in DOMAIN Board |-> Grown(Board[p])]
  BY <1>5, <1>6 DEF Board
<1>8. UNCHANGED <<Current, Left, Taker, outbox>> /\ DeadPlugins' = DeadPlugins
  BY SameTurn, SameDead DEF Tick, loopVars
<1>9. QED
  BY <1>7, <1>8 DEF Fanout!Pass, Grown

LEMMA NextRefines ==
  ASSUME TypeOK, Addressed, [Next]_vars
  PROVE  [Fanout!Next]_(Fanout!vars)
<1>1. CASE ReceiveMessage
  BY <1>1, ReceiveMessageRefines DEF Fanout!Next
<1>2. CASE ProcessMetricWithPlugins
  BY <1>2, ProcessMetricWithPluginsRefines
<1>3. CASE Handler
  BY <1>3, QuietRefines DEF Handler, HandlerStarts, CopyWrapper, CheckWrapper, UseWrapper,
                            AskPlugin, loopVars
<1>4. CASE \E n \in Names : PublishRaw(n)
  BY <1>4, QuietRefines DEF PublishRaw, loopVars
<1>5. ASSUME NEW p \in Plugins, PluginDies(p) \/ PluginHangs(p)
      PROVE  [Fanout!Next]_(Fanout!vars)
  BY <1>5, SamePlugins, PluginDiesRefines, PluginHangsRefines DEF Fanout!Next
<1>6. CASE Tick
  BY <1>6, TickRefines DEF Fanout!Next
<1>7. CASE UNCHANGED vars
  BY <1>7, QuietRefines DEF vars, loopVars
<1>8. QED
  BY <1>1, <1>2, <1>3, <1>4, <1>5, <1>6, <1>7 DEF Next

\* The engine is a fan-out of metrics to plugins: each subscriber is asked once
\* and in order, each result is kept and sent as a whole.
THEOREM Implementation == Safety => Refinement
<1>1. Init => Fanout!Init
  BY InitRefines
<1>2. TypeOK /\ Addressed /\ [Next]_vars => [Fanout!Next]_(Fanout!vars)
  BY NextRefines
<1>3. Init => Addressed
  BY DEF Init, Addressed
<1>4. Safety => []Addressed
  BY <1>3, NextAddressed, PTL DEF Safety
<1>5. QED
  BY <1>1, <1>2, <1>4, TypeCorrectness, PTL DEF Safety, Refinement, Fanout!Spec
==============================================================================
