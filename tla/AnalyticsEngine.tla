--------------------------- MODULE AnalyticsEngine ---------------------------
(***************************************************************************)
(* The Analytics Engine microservice, cmd/analytics_engine/main.go, after  *)
(* its plugins are loaded.                                                 *)
(*                                                                         *)
(* The message loop takes one metric at a time off the Redis channel and   *)
(* visits the plugins in the order of pluginList: it drops the plugin's    *)
(* computed metrics if they have expired, asks the plugin over RPC to      *)
(* process the metric and, if it is ready, to execute, stores the result   *)
(* and publishes it to a topic the engine itself listens to.  HTTP         *)
(* handlers read pluginList meanwhile, without a lock.                     *)
(*                                                                         *)
(* A plugin is a process of its own.  It may die (a panic in an RPC method *)
(* ends it: net/rpc recovers nothing) or stop answering; calls have no     *)
(* timeout, and a failed call panics in the caller                         *)
(* (plugin/plugin_shared/analytics_plugin_interface.go).  Nothing starts a *)
(* plugin again.  What a plugin computes is left open.                     *)
(***************************************************************************)
EXTENDS Integers, Sequences, FiniteSets

CONSTANTS
  NPlugins,    (* length of pluginList                                     *)
  Names,       (* metric names                                             *)
  Raw,         (* the names collectors publish                             *)
  Subscribed,  (* SubscribedMetrics of each plugin                         *)
  Produced,    (* names of the computed metrics of each plugin             *)
  Expiration,  (* METRIC_EXPIRATION_SECONDS, in ticks of the clock         *)
  MaxQueue,    (* bound of the Redis channel's buffer                      *)
  None         (* no metric, no computed metrics                           *)

Plugins == 1..NPlugins

ASSUME EngineAssumption ==
  /\ NPlugins \in Nat \ {0} /\ Expiration \in Nat /\ MaxQueue \in Nat \ {0}
  /\ Raw \subseteq Names
  /\ Subscribed \in [Plugins -> SUBSET Names]
  /\ Produced \in [Plugins -> SUBSET Names]
  /\ None \notin Names
  /\ None \notin [names : SUBSET Names, age : 0..Expiration + 1]

VARIABLES
  channel,  (* the metrics waiting in the Redis channel                    *)
  plugin,   (* the state of each plugin process                            *)
  buffer,   (* ComputedMetrics of each wrapper                             *)
  pc,       (* message loop: the step of ProcessMetricWithPlugins          *)
  metric,   (* message loop: the metric being processed                    *)
  at,       (* message loop: the plugin being visited                      *)
  outbox,   (* message loop: the metrics still to publish                  *)
  offered,  (* history: the plugins that took the metric being processed   *)
  apiPc,    (* HTTP handler                                                *)
  apiAt,    (* HTTP handler: the plugin it looks at                        *)
  copy      (* HTTP handler: ComputedMetrics of its copy of the wrapper    *)

loopVars == <<pc, metric, at, outbox, offered>>
apiVars  == <<apiPc, apiAt, copy>>
vars == <<channel, plugin, buffer, loopVars, apiVars>>

\* A ComputedMetricBuffer; LastUpdateTime is kept as an age, which stops
\* growing once it is past the expiration.
Buffer == [names : SUBSET Names, age : 0..Expiration + 1]

TypeOK ==
  /\ channel \in Seq(Names) /\ Len(channel) <= MaxQueue
  /\ plugin \in [Plugins -> {"up", "hung", "dead"}]
  /\ buffer \in [Plugins -> Buffer \cup {None}]
  /\ pc \in {"receive", "visit", "process", "execute", "publish"}
  /\ metric \in IF pc = "receive" THEN {None} ELSE Names
  /\ at \in Plugins
  /\ outbox \in SUBSET Names
  /\ pc = "publish" <=> outbox # {}
  /\ offered \in SUBSET Plugins
  /\ apiPc \in {"idle", "copy", "check", "use", "models"}
  /\ apiAt \in Plugins
  /\ copy \in Buffer \cup {None}

Init ==
  /\ channel = <<>>
  /\ plugin = [p \in Plugins |-> "up"]
  /\ buffer = [p \in Plugins |-> None]
  /\ pc = "receive" /\ metric = None /\ at = 1 /\ outbox = {} /\ offered = {}
  /\ apiPc = "idle" /\ apiAt = 1 /\ copy = None

(***************************************************************************)
(* The message loop.                                                       *)
(***************************************************************************)

ReceiveMessage ==
  /\ pc = "receive"
  /\ channel # <<>>
  /\ metric' = Head(channel)
  /\ channel' = Tail(channel)
  /\ pc' = "visit"
  /\ at' = 1
  /\ offered' = {}
  /\ UNCHANGED <<plugin, buffer, outbox, apiVars>>

\* The next turn of "for i := range pluginList", or of the message loop.
NextPlugin ==
  IF at < NPlugins
  THEN pc' = "visit" /\ at' = at + 1 /\ UNCHANGED metric
  ELSE pc' = "receive" /\ at' = 1 /\ metric' = None

Expired(b) == b # None /\ b.age > Expiration

\* Mutant of Visit: the subscription is checked before the cleanup.
VisitFiltersFirst ==
  /\ pc = "visit"
  /\ IF metric \in Subscribed[at]
     THEN /\ buffer' = [buffer EXCEPT ![at] = IF Expired(@) THEN None ELSE @]
          /\ pc' = "process"
          /\ UNCHANGED <<metric, at>>
     ELSE NextPlugin /\ UNCHANGED buffer
  /\ UNCHANGED <<channel, plugin, outbox, offered, apiVars>>

\* cleanupExpiredMetrics, then the subscription check.
Visit ==
  /\ pc = "visit"
  /\ buffer' = [buffer EXCEPT ![at] = IF Expired(@) THEN None ELSE @]
  /\ IF metric \in Subscribed[at]
     THEN pc' = "process" /\ UNCHANGED <<metric, at>>
     ELSE NextPlugin
  /\ UNCHANGED <<channel, plugin, outbox, offered, apiVars>>

\* wrapper.Plugin.ProcessMetric(metric).  No answer, no step: a plugin that
\* hangs holds the loop.
ProcessMetric ==
  /\ pc = "process"
  /\ plugin[at] = "up"
  /\ offered' = offered \cup {at}
  /\ \/ pc' = "execute" /\ UNCHANGED <<metric, at>>
     \/ NextPlugin
  /\ UNCHANGED <<channel, plugin, buffer, outbox, apiVars>>

\* Mutant of Execute: the metric the plugin executes on is published again.
ExecuteRepublishesInput ==
  /\ pc = "execute"
  /\ plugin[at] = "up"
  /\ \E result \in SUBSET (Produced[at] \cup {metric}) :
       \/ /\ result # {}
          /\ buffer' = [buffer EXCEPT ![at] = [names |-> result, age |-> 0]]
          /\ outbox' = result
          /\ pc' = "publish"
          /\ UNCHANGED <<metric, at>>
       \/ /\ result = {}
          /\ NextPlugin
          /\ UNCHANGED <<buffer, outbox>>
  /\ UNCHANGED <<channel, plugin, offered, apiVars>>

\* Mutant of Execute: a result without a single name is stored, too.
ExecuteStoresEmpty ==
  /\ pc = "execute"
  /\ plugin[at] = "up"
  /\ \E result \in SUBSET Produced[at] :
       /\ buffer' = [buffer EXCEPT ![at] = [names |-> result, age |-> 0]]
       /\ outbox' = result
       /\ IF result = {} THEN NextPlugin ELSE pc' = "publish" /\ UNCHANGED <<metric, at>>
  /\ UNCHANGED <<channel, plugin, offered, apiVars>>

\* wrapper.Plugin.Execute() and storeComputedMetrics: the names with a
\* non-empty list replace the buffer, if there is any.
Execute ==
  /\ pc = "execute"
  /\ plugin[at] = "up"
  /\ \E result \in SUBSET Produced[at] :
       \/ /\ result # {}
          /\ buffer' = [buffer EXCEPT ![at] = [names |-> result, age |-> 0]]
          /\ outbox' = result
          /\ pc' = "publish"
          /\ UNCHANGED <<metric, at>>
       \/ /\ result = {}
          /\ NextPlugin
          /\ UNCHANGED <<buffer, outbox>>
  /\ UNCHANGED <<channel, plugin, offered, apiVars>>

\* Mutant of RecoverFromPanic: recover() is deferred outside the loop over
\* the plugins.
RecoverAroundLoop ==
  /\ pc \in {"process", "execute"}
  /\ plugin[at] = "dead"
  /\ pc' = "receive" /\ at' = 1 /\ metric' = None
  /\ UNCHANGED <<channel, plugin, buffer, outbox, offered, apiVars>>

\* The call of a dead plugin panics; the deferred recover() ends the visit.
RecoverFromPanic ==
  /\ pc \in {"process", "execute"}
  /\ plugin[at] = "dead"
  /\ NextPlugin
  /\ UNCHANGED <<channel, plugin, buffer, outbox, offered, apiVars>>

\* Mutant of Deliver: no bound on what waits.
DeliverUnbounded(n) == channel' = Append(channel, n)

\* The channel of a subscriber takes the metric, or it is lost: Redis is not
\* reachable, or the buffer is full for too long.
Deliver(n) ==
  \/ Len(channel) < MaxQueue /\ channel' = Append(channel, n)
  \/ UNCHANGED channel

\* PublishComputedMetrics: one Redis PUBLISH for each metric.
PublishComputedMetrics(n) ==
  /\ pc = "publish"
  /\ n \in outbox
  /\ outbox' = outbox \ {n}
  /\ Deliver(n)
  /\ IF outbox' = {} THEN NextPlugin ELSE UNCHANGED <<pc, metric, at>>
  /\ UNCHANGED <<plugin, buffer, offered, apiVars>>

ProcessMetricWithPlugins ==
  \/ Visit \/ ProcessMetric \/ Execute \/ RecoverFromPanic
  \/ \E n \in Names : PublishComputedMetrics(n)

(***************************************************************************)
(* HTTP handlers: GET /api/computed-metrics and GET /api/models.           *)
(***************************************************************************)

NextWrapper(again) ==
  IF apiAt < NPlugins
  THEN apiPc' = again /\ apiAt' = apiAt + 1
  ELSE apiPc' = "idle" /\ apiAt' = 1

HandlerStarts ==
  /\ apiPc = "idle"
  /\ apiPc' \in {"copy", "models"}
  /\ UNCHANGED <<channel, plugin, buffer, loopVars, apiAt, copy>>

\* "for _, wrapper := range pluginList" copies the wrapper, and with it the
\* pointer to a buffer that nobody writes again.
CopyWrapper ==
  /\ apiPc = "copy"
  /\ copy' = buffer[apiAt]
  /\ apiPc' = "check"
  /\ UNCHANGED <<channel, plugin, buffer, loopVars, apiAt>>

\* Mutant of CheckWrapper: the handler tests the wrapper in the list, not
\* its copy of it.
CheckOriginal ==
  /\ apiPc = "check"
  /\ IF buffer[apiAt] # None
     THEN apiPc' = "use" /\ UNCHANGED <<apiAt, copy>>
     ELSE NextWrapper("copy") /\ UNCHANGED copy
  /\ UNCHANGED <<channel, plugin, buffer, loopVars>>

\* if wrapper.ComputedMetrics != nil
CheckWrapper ==
  /\ apiPc = "check"
  /\ IF copy # None
     THEN apiPc' = "use" /\ UNCHANGED <<apiAt, copy>>
     ELSE NextWrapper("copy") /\ UNCHANGED copy
  /\ UNCHANGED <<channel, plugin, buffer, loopVars>>

\* The buffer's metrics and time go into the response.
UseWrapper ==
  /\ apiPc = "use"
  /\ NextWrapper("copy")
  /\ copy' = None
  /\ UNCHANGED <<channel, plugin, buffer, loopVars>>

\* handleGetPlugins asks each plugin for its metadata.  GetSubscribedMetrics
\* of a dead plugin panics; net/http recovers and drops the whole request.
AskPlugin ==
  /\ apiPc = "models"
  /\ \/ plugin[apiAt] = "up" /\ NextWrapper("models")
     \/ plugin[apiAt] = "dead" /\ apiPc' = "idle" /\ apiAt' = 1
  /\ UNCHANGED <<channel, plugin, buffer, loopVars, copy>>

Handler == HandlerStarts \/ CopyWrapper \/ CheckWrapper \/ UseWrapper \/ AskPlugin

(***************************************************************************)
(* The environment: collectors, plugin processes, time.                    *)
(***************************************************************************)

PublishRaw(n) ==
  /\ n \in Raw
  /\ Len(channel) < MaxQueue
  /\ channel' = Append(channel, n)
  /\ UNCHANGED <<plugin, buffer, loopVars, apiVars>>

PluginDies(p) ==
  /\ plugin[p] # "dead"
  /\ plugin' = [plugin EXCEPT ![p] = "dead"]
  /\ UNCHANGED <<channel, buffer, loopVars, apiVars>>

PluginHangs(p) ==
  /\ plugin[p] = "up"
  /\ plugin' = [plugin EXCEPT ![p] = "hung"]
  /\ UNCHANGED <<channel, buffer, loopVars, apiVars>>

Older(b) == IF b = None THEN None
            ELSE [b EXCEPT !.age = IF @ > Expiration THEN @ ELSE @ + 1]

Tick ==
  /\ buffer' = [p \in Plugins |-> Older(buffer[p])]
  /\ UNCHANGED <<channel, plugin, loopVars, apiVars>>

Next ==
  \/ ReceiveMessage
  \/ ProcessMetricWithPlugins
  \/ Handler
  \/ \E n \in Names : PublishRaw(n)
  \/ \E p \in Plugins : PluginDies(p) \/ PluginHangs(p)
  \/ Tick

Safety == Init /\ [][Next]_vars

\* The loop runs whenever it can.
EngineFairness ==
  /\ WF_vars(ReceiveMessage)
  /\ WF_vars(ProcessMetricWithPlugins)

\* A collector publishes every scraping interval.
CollectorFairness == WF_vars(\E n \in Names : PublishRaw(n))

Spec == Safety /\ EngineFairness

-----------------------------------------------------------------------------
(***************************************************************************)
(* Properties.                                                             *)
(***************************************************************************)

\* When the loop is done with a metric, whoever subscribes to it has taken it
\* or does not run.
OffersToAll ==
  (pc # "receive" /\ pc' = "receive") =>
    \A p \in Plugins : metric \in Subscribed[p] => p \in offered' \/ plugin[p] # "up"

\* Crash isolation: the loop is done with a metric only when every plugin
\* that subscribes to it has taken it, save the plugins that do not run any
\* more; the panic of one plugin never costs another one its sample.
EveryPluginIsOffered == [][OffersToAll]_vars

\* The message loop may set a wrapper's ComputedMetrics to nil between a
\* handler's nil check and its use; the handler does not notice.
HandlerUsesNoNil == apiPc = "use" => copy # None

\* What MetricFanout knows of the state: the metric the loop is at, the plugins
\* it has yet to call for it, the wrappers that hold computed metrics.
DeadPlugins == {p \in Plugins : plugin[p] = "dead"}

Current == IF pc = "receive" THEN {} ELSE {metric}

Left ==
  IF pc = "receive" THEN {}
  ELSE {p \in Plugins : /\ metric \in Subscribed[p]
                        /\ p > at \/ (p = at /\ pc \in {"visit", "process"})}

Taker == IF pc \in {"execute", "publish"} THEN {at} ELSE {}

Board == [p \in {q \in Plugins : buffer[q] # None} |-> buffer[p]]

Fanout == INSTANCE MetricFanout WITH
  dead    <- DeadPlugins,
  current <- Current,
  left    <- Left,
  taker   <- Taker,
  unsent  <- outbox,
  board   <- Board

\* Whatever plugins die, hang, feed each other or are read meanwhile, the loop
\* is such a fan-out: no plugin is asked twice for one metric, none executes on
\* another one's turn, and no result is replaced in part, published twice or
\* dropped before its time (main.go:274-366, 380-393).
Refinement == Fanout!Spec

\* The strengthening of the two: the plugins before the one being visited
\* have taken the metric, or do not run.
Taken(p) == metric \in Subscribed[p] => p \in offered \/ plugin[p] # "up"

Offering ==
  pc # "receive" =>
    /\ \A p \in Plugins : p < at => Taken(p)
    /\ pc \in {"execute", "publish"} => at \in offered

IInv ==
  /\ TypeOK
  /\ HandlerUsesNoNil
  /\ Offering

\* The strengthening for Refinement: a plugin is called only for a metric it
\* subscribes to.
Addressed == pc = "process" => metric \in Subscribed[at]

SomePluginHangs == \E p \in Plugins : plugin[p] = "hung"

\* p publishes what q subscribes to.
Feeds(p, q) == Produced[p] \cap Subscribed[q] # {}

\* Nothing keeps plugins from feeding themselves or each other in a circle.
OnCycle == {p \in Plugins :
  \E k \in Plugins : \E circle \in [1..k -> Plugins] :
    circle[1] = p /\ \A i \in 1..k : Feeds(circle[i], circle[(i % k) + 1])}

AtRest == channel = <<>> /\ pc = "receive"

CyclicPluginPublishes == at \in OnCycle /\ pc = "execute" /\ pc' = "publish"

\* Once the collectors stop publishing, the engine comes to rest, although its
\* results are fed back to it (main.go:380-393), unless a plugin that lies on a
\* circle of subscriptions goes on computing from its own results for ever: the
\* engine itself never turns one metric into endless work.  A plugin that hangs
\* stops the loop for good.
ComesToRest ==
  <>[][\A n \in Names : ~PublishRaw(n)]_vars =>
    \/ []<>(AtRest \/ SomePluginHangs)
    \/ []<><<CyclicPluginPublishes>>_vars

\* While collectors publish, expired computed metrics are dropped or
\* replaced, those of a dead plugin too, unless a plugin hangs.
ExpiredIsDropped ==
  CollectorFairness =>
    \A p \in Plugins : Expired(buffer[p]) ~> (~Expired(buffer[p]) \/ SomePluginHangs)

\* main.go:65-67, the buffer holds "computed metrics that are automatically
\* cleaned up after they expire".  The code breaks this: only the arrival of
\* a message cleans up, so an engine that waits for input serves what has
\* expired.
ServedIsNotExpired == (pc = "receive" /\ apiPc = "use") => ~Expired(copy)
==============================================================================
