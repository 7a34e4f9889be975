------------------------------ MODULE DArchiver ------------------------------
(***************************************************************************)
(* The Data Archiver microservice, cmd/darchiver/main.go.                  *)
(*                                                                         *)
(* Three goroutines share the unlocked map MetricAndCollectorMap (store):  *)
(*   - the main loop takes messages off the Redis channel and runs         *)
(*     AddMetric;                                                          *)
(*   - the cleaner runs CleanupExpiredMetrics whenever its ticker fires;   *)
(*   - an API handler runs GetAllMetrics.                                  *)
(* Every access of the map, of the Prometheus registry and of a gauge is   *)
(* one action, so the goroutines interleave between any two of them.  Two  *)
(* goroutines that are both about to access the map, one of them to write, *)
(* may overlap: the Go runtime may then stop the process                   *)
(* (ConcurrentMapFault) or let both accesses happen in either order.       *)
(*                                                                         *)
(* Time is counted in periods of the cleaner's ticker (10 minutes).  An    *)
(* entry keeps its age instead of its ReceivedAt timestamp.  Payloads that *)
(* do not unmarshal change nothing (main.go:246-249) and have no action.   *)
(***************************************************************************)
EXTENDS Integers, FiniteSets

CONSTANTS
  Names,    (* names a message can carry                                   *)
  Refused,  (* names Prometheus does not accept ("", or its own counter)   *)
  Descs,    (* descriptions, the help string of a gauge                    *)
  Values,   (* metric values                                               *)
  Gauges,   (* identities of GaugeVec objects                              *)
  TTL,      (* expirationDuration in ticker periods: 6 in the code         *)
  None      (* no entry, no gauge, no sample, no message                   *)

ASSUME ConstantsAssumption ==
  /\ TTL \in Nat \ {0}
  /\ Refused \subseteq Names
  /\ None \notin Names \cup Descs \cup Values \cup Gauges
  /\ None \notin [value : Values, age : Nat, gauge : Gauges]

VARIABLES
  store,     (* MetricAndCollectorMap                                      *)
  registry,  (* the collectors registered in Prometheus, by name           *)
  help,      (* the help string Prometheus remembers for ever, by name     *)
  sample,    (* the value each GaugeVec exposes, None before the first Set *)
  mainPc,    (* main loop                                                  *)
  msg,       (* main loop: the metric being added                          *)
  held,      (* main loop: the collector it read or registered             *)
  cleanPc,   (* cleaner                                                    *)
  due,       (* cleaner: a tick waits in the ticker's channel              *)
  todo,      (* cleaner: the keys its iteration has still to yield         *)
  victim,    (* cleaner: the name deleteMetric was called with             *)
  lag,       (* cleaner: periods since it read time.Now()                  *)
  apiPc,     (* API handler                                                *)
  key,       (* API handler: the key its iteration just yielded            *)
  crash      (* why the process died, "no" while it runs                   *)

prometheusVars == <<registry, help, sample>>
mainVars  == <<mainPc, msg, held>>
cleanVars == <<cleanPc, todo, victim>>
clockVars == <<due, lag>>
apiVars   == <<apiPc, key>>
vars == <<store, prometheusVars, mainVars, cleanVars, clockVars, apiVars, crash>>

Entry   == [value : Values, age : Nat, gauge : Gauges]
Message == [name : Names, desc : Descs, value : Values, age : Nat]

Stored == {n \in Names : store[n] # None}

TypeOK ==
  /\ store \in [Names -> Entry \cup {None}]
  /\ registry \in [Names -> Gauges \cup {None}]
  /\ help \in [Names -> Descs \cup {None}]
  /\ sample \in [Gauges -> Values \cup {None}]
  /\ mainPc \in {"idle", "lookup", "set", "writeBack", "register", "insert"}
  /\ IF mainPc = "idle" THEN msg = None ELSE msg \in Message
  /\ IF mainPc \in {"set", "writeBack", "insert"} THEN held \in Gauges ELSE held = None
  /\ cleanPc \in {"idle", "scan", "reread", "unregister", "delete"}
  /\ due \in BOOLEAN
  /\ todo \in SUBSET Names
  /\ IF cleanPc \in {"idle", "scan"} THEN victim = None ELSE victim \in Names
  /\ lag \in {0, 1}
  /\ apiPc \in {"idle", "scan", "read"}
  /\ IF apiPc = "read" THEN key \in Names ELSE key = None
  /\ crash \in {"no", "race", "refused", "duplicate", "inconsistent", "nil"}

\* The memory of a process that has just started.
Init ==
  /\ store = [n \in Names |-> None]
  /\ registry = [n \in Names |-> None]
  /\ help = [n \in Names |-> None]
  /\ sample = [g \in Gauges |-> None]
  /\ mainPc = "idle" /\ msg = None /\ held = None
  /\ cleanPc = "idle" /\ todo = {} /\ victim = None
  /\ due = FALSE /\ lag = 0
  /\ apiPc = "idle" /\ key = None
  /\ crash = "no"

\* The process ends: its memory, Prometheus registry included, is gone.
Die(reason) ==
  /\ store' = [n \in Names |-> None]
  /\ registry' = [n \in Names |-> None]
  /\ help' = [n \in Names |-> None]
  /\ sample' = [g \in Gauges |-> None]
  /\ mainPc' = "idle" /\ msg' = None /\ held' = None
  /\ cleanPc' = "idle" /\ todo' = {} /\ victim' = None
  /\ due' = FALSE /\ lag' = 0
  /\ apiPc' = "idle" /\ key' = None
  /\ crash' = reason

(***************************************************************************)
(* The main loop.                                                          *)
(***************************************************************************)

\* A message is unmarshalled and AddMetric stamps it with time.Now().
Receive(n, d, v) ==
  /\ crash = "no"
  /\ mainPc = "idle"
  /\ msg' = [name |-> n, desc |-> d, value |-> v, age |-> 0]
  /\ mainPc' = "lookup"
  /\ UNCHANGED <<store, prometheusVars, held, cleanVars, clockVars, apiVars, crash>>

\* Mutant of Lookup: the copy's collector is not kept.
LookupDropsCollector ==
  /\ mainPc = "lookup"
  /\ mainPc' = IF store[msg.name] # None THEN "set" ELSE "register"
  /\ held' = None
  /\ UNCHANGED <<store, prometheusVars, msg, cleanVars, clockVars, apiVars, crash>>

\* value, exists := MetricAndCollectorMap[metric.Name]; of the copy only the
\* collector is used later, its Metric is overwritten.
Lookup ==
  /\ mainPc = "lookup"
  /\ \/ /\ store[msg.name] # None
        /\ held' = store[msg.name].gauge
        /\ mainPc' = "set"
     \/ /\ store[msg.name] = None
        /\ held' = None
        /\ mainPc' = "register"
  /\ UNCHANGED <<store, prometheusVars, msg, cleanVars, clockVars, apiVars, crash>>

\* vec.WithLabelValues("nwdaf").Set(value) on the collector that was read.
UpdateGaugeValue ==
  /\ mainPc = "set"
  /\ sample' = [sample EXCEPT ![held] = msg.value]
  /\ mainPc' = "writeBack"
  /\ UNCHANGED <<store, registry, help, msg, held, cleanVars, clockVars, apiVars, crash>>

\* MetricAndCollectorMap[metric.Name] = value ends AddMetric and the turn of
\* the loop.  The key exists or is created again.
PutEntry ==
  /\ store' = [store EXCEPT ![msg.name] =
                 [value |-> msg.value, age |-> msg.age, gauge |-> held]]
  /\ mainPc' = "idle" /\ msg' = None /\ held' = None
  /\ UNCHANGED <<prometheusVars, cleanVars, clockVars, apiVars, crash>>

\* Mutant of WriteBack: only the local copy of the entry is updated.
WriteBackOmitted ==
  /\ mainPc = "writeBack"
  /\ mainPc' = "idle" /\ msg' = None /\ held' = None
  /\ UNCHANGED <<store, prometheusVars, cleanVars, clockVars, apiVars, crash>>

WriteBack == mainPc = "writeBack" /\ PutEntry

\* What prometheus.Register answers.  A name is unusable, or registered, or
\* was registered before with another help string: Unregister forgets the
\* collector but not the help string.
RegisterError(n, d) ==
  IF n \in Refused THEN "refused"
  ELSE IF registry[n] # None THEN "duplicate"
  ELSE IF help[n] \notin {None, d} THEN "inconsistent"
  ELSE "no"

\* The GaugeVec objects nothing refers to; a new one is taken from these.
FreeGauges ==
  {g \in Gauges : \A n \in Names : registry[n] # g /\ (store[n] # None => store[n].gauge # g)}

\* newGaugeCollector: MustRegister panics on an error.  The new gauge has no
\* sample: the value of the message that creates it is never set.
NewGaugeCollector ==
  /\ mainPc = "register"
  /\ RegisterError(msg.name, msg.desc) = "no"
  /\ \E g \in FreeGauges :
       /\ registry' = [registry EXCEPT ![msg.name] = g]
       /\ sample' = [sample EXCEPT ![g] = None]
       /\ held' = g
  /\ help' = [help EXCEPT ![msg.name] = msg.desc]
  /\ mainPc' = "insert"
  /\ UNCHANGED <<store, msg, cleanVars, clockVars, apiVars, crash>>

RegisterPanics ==
  /\ mainPc = "register"
  /\ RegisterError(msg.name, msg.desc) # "no"
  /\ Die(RegisterError(msg.name, msg.desc))

\* Mutant of Insert: the new entry is not put into the map.
InsertForgotten ==
  /\ mainPc = "insert"
  /\ mainPc' = "idle" /\ msg' = None /\ held' = None
  /\ UNCHANGED <<store, prometheusVars, cleanVars, clockVars, apiVars, crash>>

Insert == mainPc = "insert" /\ PutEntry

AddMetric ==
  \/ Lookup \/ UpdateGaugeValue \/ WriteBack
  \/ NewGaugeCollector \/ RegisterPanics \/ Insert

(***************************************************************************)
(* The cleaner goroutine.                                                  *)
(***************************************************************************)

\* The goroutine takes the tick, reads now and starts to range over the map.
\* Keys created during the scan are younger than now: yielding them has no
\* effect, so todo need not grow.
StartCleanup ==
  /\ cleanPc = "idle"
  /\ due
  /\ due' = FALSE
  /\ lag' = 0
  /\ todo' = Stored
  /\ cleanPc' = "scan"
  /\ UNCHANGED <<store, prometheusVars, mainVars, victim, apiVars, crash>>

\* Mutant of Expired: one period late.
ExpiredLate(n) == store[n].age - lag > TTL + 1

\* Mutant of Expired: >= instead of >.
ExpiredEarly(n) == store[n].age - lag >= TTL

\* now.Sub(ReceivedAt) > expirationDuration, with now read lag periods ago.
Expired(n) == store[n].age - lag > TTL

\* One turn of the loop: the range yields a key with a copy of its entry.
CleanupNext(n) ==
  /\ cleanPc = "scan"
  /\ n \in todo
  /\ todo' = todo \ {n}
  /\ IF store[n] # None /\ Expired(n)
     THEN cleanPc' = "reread" /\ victim' = n
     ELSE UNCHANGED <<cleanPc, victim>>
  /\ UNCHANGED <<store, prometheusVars, mainVars, clockVars, apiVars, crash>>

\* deleteMetric reads the entry again.  A zero entry has a nil Collector, on
\* which Unregister panics.
DeleteMetricReads ==
  /\ cleanPc = "reread"
  /\ \/ store[victim] = None /\ Die("nil")
     \/ /\ store[victim] # None
        /\ cleanPc' = "unregister"
        /\ UNCHANGED <<store, prometheusVars, mainVars, todo, victim, clockVars, apiVars, crash>>

\* Mutant of DeleteMetricUnregisters: the collector stays registered.
UnregisterForgotten ==
  /\ cleanPc = "unregister"
  /\ cleanPc' = "delete"
  /\ UNCHANGED <<store, prometheusVars, mainVars, todo, victim, clockVars, apiVars, crash>>

\* Unregister looks the collector up by its descriptor, that is by name.
DeleteMetricUnregisters ==
  /\ cleanPc = "unregister"
  /\ registry' = [registry EXCEPT ![victim] = None]
  /\ cleanPc' = "delete"
  /\ UNCHANGED <<store, help, sample, mainVars, todo, victim, clockVars, apiVars, crash>>

DeleteMetricDeletes ==
  /\ cleanPc = "delete"
  /\ store' = [store EXCEPT ![victim] = None]
  /\ cleanPc' = "scan"
  /\ victim' = None
  /\ UNCHANGED <<prometheusVars, mainVars, todo, clockVars, apiVars, crash>>

\* Mutant of EndCleanup: the goroutine returns after its first scan.
CleanupRunsOnce ==
  /\ cleanPc = "scan"
  /\ todo = {}
  /\ cleanPc' = "returned"
  /\ lag' = 0
  /\ UNCHANGED <<store, prometheusVars, mainVars, todo, victim, due, apiVars, crash>>

EndCleanup ==
  /\ cleanPc = "scan"
  /\ todo = {}
  /\ cleanPc' = "idle"
  /\ lag' = 0
  /\ UNCHANGED <<store, prometheusVars, mainVars, todo, victim, due, apiVars, crash>>

CleanupExpiredMetrics ==
  \/ StartCleanup \/ \E n \in Names : CleanupNext(n)
  \/ DeleteMetricReads \/ DeleteMetricUnregisters \/ DeleteMetricDeletes
  \/ EndCleanup

(***************************************************************************)
(* A GET /api/metrics handler.                                             *)
(***************************************************************************)

StartGetAllMetrics ==
  /\ crash = "no"
  /\ apiPc = "idle"
  /\ apiPc' = "scan"
  /\ UNCHANGED <<store, prometheusVars, mainVars, cleanVars, clockVars, key, crash>>

\* The range yields a key that is in the map, in no order Go promises.  Which
\* keys it has yielded already is not tracked: the response is not modelled.
GetAllMetricsNext(n) ==
  /\ apiPc = "scan"
  /\ n \in Stored
  /\ key' = n
  /\ apiPc' = "read"
  /\ UNCHANGED <<store, prometheusVars, mainVars, cleanVars, clockVars, crash>>

\* MetricAndCollectorMap[key].Metric reads the map a second time.
GetAllMetricsReads ==
  /\ apiPc = "read"
  /\ key' = None
  /\ apiPc' = "scan"
  /\ UNCHANGED <<store, prometheusVars, mainVars, cleanVars, clockVars, crash>>

EndGetAllMetrics ==
  /\ apiPc = "scan"
  /\ apiPc' = "idle"
  /\ UNCHANGED <<store, prometheusVars, mainVars, cleanVars, clockVars, key, crash>>

GetAllMetrics ==
  \/ StartGetAllMetrics \/ \E n \in Names : GetAllMetricsNext(n)
  \/ GetAllMetricsReads \/ EndGetAllMetrics

(***************************************************************************)
(* Time and faults.                                                        *)
(***************************************************************************)

\* One period of the ticker passes.  Two assumptions on scheduling: the
\* cleaner takes each tick and ends each scan within a period or so (~due
\* bounds lag by one), and AddMetric runs for less than a period.
Tick ==
  /\ crash = "no"
  /\ ~due
  /\ mainPc # "idle" => msg.age = 0
  /\ due' = TRUE
  /\ lag' = IF cleanPc = "idle" THEN 0 ELSE 1
  /\ store' = [n \in Names |-> IF store[n] = None THEN None
                               ELSE [store[n] EXCEPT !.age = @ + 1]]
  /\ msg' = IF mainPc = "idle" THEN None ELSE [msg EXCEPT !.age = @ + 1]
  /\ UNCHANGED <<prometheusVars, mainPc, held, cleanVars, apiVars, crash>>

\* The accesses of the map the goroutines are about to make.
MainWrites  == mainPc \in {"writeBack", "insert"}
MainReads   == mainPc = "lookup"
CleanWrites == cleanPc = "delete"
CleanReads  == cleanPc \in {"scan", "reread"}
ApiReads    == apiPc \in {"scan", "read"}

\* "fatal error: concurrent map read and map write" (or "iteration", or
\* "writes"): the runtime may detect the overlap, and no recover() helps.
ConcurrentMapFault ==
  /\ \/ MainWrites /\ (CleanReads \/ CleanWrites \/ ApiReads)
     \/ CleanWrites /\ (MainReads \/ ApiReads)
  /\ Die("race")

\* Nobody restarts the process (cmd/nwdaf/main.go starts it once).
Dead == crash # "no" /\ UNCHANGED vars

Next ==
  \/ \E n \in Names, d \in Descs, v \in Values : Receive(n, d, v)
  \/ AddMetric
  \/ CleanupExpiredMetrics
  \/ GetAllMetrics
  \/ Tick
  \/ ConcurrentMapFault
  \/ Dead

Safety == Init /\ [][Next]_vars

\* The Go scheduler runs a goroutine that can run, and time passes.  Nothing
\* is assumed of the messages, of the API's clients or of the fault.
Fairness ==
  /\ WF_vars(AddMetric)
  /\ WF_vars(CleanupExpiredMetrics)
  /\ WF_vars(Tick)

Spec == Safety /\ Fairness

-----------------------------------------------------------------------------
(***************************************************************************)
(* Properties.                                                             *)
(***************************************************************************)

\* Prometheus exposes no gauge that the map has lost: a registered gauge is
\* the one its entry holds, except between MustRegister and the map insert
\* of newGaugeCollector's caller.  A gauge outside the map would keep its
\* last value for ever and make the next registration of its name panic.
NoGaugeLeak ==
  \A n \in Names : registry[n] # None =>
    \/ store[n] # None /\ store[n].gauge = registry[n]
    \/ mainPc = "insert" /\ msg.name = n /\ held = registry[n]

\* The goroutines never make each other panic: MustRegister never meets a
\* name that is still registered, although cleaner and main loop register
\* and unregister without a lock, and deleteMetric's second read of the map
\* always finds the entry, so Unregister is never called on nil.
OnlyForeignPanics == crash \notin {"duplicate", "nil"}

\* What Prometheus exposes agrees with what the API returns: outside an
\* update of that name a registered gauge has the value of the map's entry,
\* or no sample yet (its first message).
ExposedIsStored ==
  \A n \in Names :
    (registry[n] # None /\ (mainPc = "idle" \/ msg.name # n)) =>
      store[n] # None /\ sample[registry[n]] \in {None, store[n].value}

\* An entry outlives the expiration time by at most two ticker periods, the
\* one before the tick that finds it expired and one for the scan itself,
\* whatever the main loop writes back meanwhile.
StalenessBounded ==
  \A n \in Stored : store[n].age <= TTL + 2

\* A metric that nobody refreshes any more leaves the map, also when it is
\* an entry written back after its gauge was unregistered.
ExpiredIsRemoved ==
  \A n \in Names :
    (store[n] # None /\ store[n].age > TTL) ~>
      (store[n] = None \/ store[n].age <= TTL \/ crash # "no")

\* What MetricTable knows of the state: the map without its gauges, the message
\* AddMetric is at, the name deleteMetric was called with.
Rows == [n \in Stored |-> [value |-> store[n].value, age |-> store[n].age]]

Unapplied == IF mainPc = "idle" THEN {}
             ELSE {[name |-> msg.name, value |-> msg.value, age |-> msg.age]}

Condemned == {n \in Names : n = victim}

Table == INSTANCE MetricTable WITH
  alive     <- crash = "no",
  table     <- Rows,
  pending   <- Unapplied,
  condemned <- Condemned

\* The three goroutines together, whatever the order of their accesses, keep a
\* table like that of MetricTable: each message takes effect at one instant,
\* where AddMetric writes the map; what deleteMetric takes away was found
\* expired, and is there to be taken away (main.go:60-105, 119-131).
Refinement == Table!Spec

\* The strengthening that makes the invariants above inductive.
\* What the goroutines know of the map and the registry between two steps.
Registration ==
  /\ mainPc \in {"register", "insert"} => store[msg.name] = None
  /\ mainPc \in {"set", "writeBack"} => registry[msg.name] \in {None, held}
  /\ cleanPc \in {"reread", "unregister", "delete"} => store[victim] # None
  /\ cleanPc = "delete" => registry[victim] = None

\* How old an entry can be in each phase of the cleaner: until the scan has
\* yielded it or deleted it, an entry may be one period past the expiration.
AgeBound(n) ==
  IF cleanPc = "idle" THEN TTL + (IF due THEN 1 ELSE 0)
  ELSE TTL + lag + (IF n \in todo \cup {victim} THEN 1 ELSE 0)

Ageing ==
  /\ mainPc # "idle" => msg.age \in {0, 1}
  /\ cleanPc # "idle" => (due <=> lag = 1)
  /\ \A n \in Stored : store[n].age <= AgeBound(n)

IInv ==
  /\ TypeOK
  /\ NoGaugeLeak
  /\ OnlyForeignPanics
  /\ Registration
  /\ Ageing

\* The strengthening for ExposedIsStored: two names never share a gauge, and
\* what main is about to put into the map is what its gauge shows.
Uses(n, g) ==
  \/ registry[n] = g
  \/ store[n] # None /\ store[n].gauge = g
  \/ mainPc \in {"set", "writeBack", "insert"} /\ msg.name = n /\ held = g

DistinctGauges ==
  \A m, n \in Names, g \in Gauges : Uses(m, g) /\ Uses(n, g) => m = n

HeldSample ==
  /\ mainPc = "writeBack" => sample[held] = msg.value
  /\ mainPc = "insert" => sample[held] = None

ExposureInv == IInv /\ DistinctGauges /\ HeldSample /\ ExposedIsStored

\* The strengthening for Refinement: nothing goes on in a process that ended.
Stopped == crash # "no" => mainPc = "idle" /\ cleanPc = "idle" /\ ~due

\* README.md:237-238, a received metric is "Registered in Prometheus (or
\* updated if exists)" and "Available via REST API": while neither goroutine
\* is inside an operation, everything the API lists is registered.  The code
\* breaks this: AddMetric reads an entry, the cleaner unregisters and deletes
\* it, AddMetric writes its copy back.
ListedIsRegistered ==
  (mainPc = "idle" /\ cleanPc = "idle" /\ crash = "no") =>
    \A n \in Stored : registry[n] # None

\* README.md:234-240, the lifecycle of a metric starts again with the first
\* message after an expiry.  The code breaks this: Prometheus keeps the help
\* string, and MustRegister panics when the description has changed.
SecondLifeRegisters == crash # "inconsistent"
==============================================================================
