-------------------------- MODULE DArchiver_proofs ---------------------------
(***************************************************************************)
(* Proofs about the Data Archiver, for every set of names, values and      *)
(* gauges and every expiration time.                                       *)
(***************************************************************************)
EXTENDS DArchiver, TLAPS

\* No entry, gauge or name is None.
LEMMA NoneIsNoValue ==
  /\ None \notin Names /\ None \notin Gauges /\ None \notin Entry
BY ConstantsAssumption DEF Entry

\* The memory a new process starts with, and the one a dead process leaves,
\* satisfies the inductive invariant.
LEMMA InitIInv == Init => IInv
<1> SUFFICES ASSUME Init PROVE IInv
  OBVIOUS
<1>1. TypeOK
  BY DEF Init, TypeOK
<1>2. NoGaugeLeak
  BY DEF Init, NoGaugeLeak
<1>3. OnlyForeignPanics
  BY DEF Init, OnlyForeignPanics
<1>4. Registration
  BY DEF Init, Registration
<1>5. Ageing
  BY DEF Init, Ageing, Stored
<1>6. QED
  BY <1>1, <1>2, <1>3, <1>4, <1>5 DEF IInv

LEMMA DieIInv ==
  ASSUME NEW reason \in {"race", "refused", "inconsistent"}, Die(reason)
  PROVE  IInv'
<1>1. TypeOK'
  BY DEF Die, TypeOK
<1>2. NoGaugeLeak'
  BY DEF Die, NoGaugeLeak
<1>3. OnlyForeignPanics'
  BY DEF Die, OnlyForeignPanics
<1>4. Registration'
  BY DEF Die, Registration
<1>5. Ageing'
  BY DEF Die, Ageing, Stored
<1>6. QED
  BY <1>1, <1>2, <1>3, <1>4, <1>5 DEF IInv

-----------------------------------------------------------------------------
(***************************************************************************)
(* The main loop preserves the inductive invariant.                        *)
(***************************************************************************)

LEMMA ReceiveIInv ==
  ASSUME IInv, NEW n \in Names, NEW d \in Descs, NEW v \in Values, Receive(n, d, v)
  PROVE  IInv'
<1> USE DEF IInv, Receive, prometheusVars, cleanVars, clockVars, apiVars
<1>1. TypeOK'
  BY NoneIsNoValue DEF TypeOK, Message
<1>2. NoGaugeLeak'
  BY DEF NoGaugeLeak
<1>3. OnlyForeignPanics'
  BY DEF OnlyForeignPanics
<1>4. Registration'
  BY DEF Registration
<1>5. Ageing'
  BY DEF Ageing, AgeBound, Stored
<1>6. QED
  BY <1>1, <1>2, <1>3, <1>4, <1>5

LEMMA LookupIInv == ASSUME IInv, Lookup PROVE IInv'
<1> USE DEF IInv, Lookup, prometheusVars, cleanVars, clockVars, apiVars
<1>1. msg \in Message /\ store[msg.name] \in Entry \cup {None}
  BY DEF TypeOK, Message
<1>2. TypeOK'
  BY <1>1, NoneIsNoValue DEF TypeOK, Message, Entry
<1>3. NoGaugeLeak'
  BY DEF NoGaugeLeak
<1>4. OnlyForeignPanics'
  BY DEF OnlyForeignPanics
<1>5. Registration'
  BY <1>1 DEF Registration, NoGaugeLeak, Message
<1>6. Ageing'
  BY DEF Ageing, AgeBound, Stored
<1>7. QED
  BY <1>2, <1>3, <1>4, <1>5, <1>6

LEMMA UpdateGaugeValueIInv == ASSUME IInv, UpdateGaugeValue PROVE IInv'
<1> USE DEF IInv, UpdateGaugeValue, cleanVars, clockVars, apiVars
<1>1. TypeOK'
  BY DEF TypeOK, Message
<1>2. NoGaugeLeak'
  BY DEF NoGaugeLeak
<1>3. OnlyForeignPanics'
  BY DEF OnlyForeignPanics
<1>4. Registration'
  BY DEF Registration
<1>5. Ageing'
  BY DEF Ageing, AgeBound, Stored
<1>6. QED
  BY <1>1, <1>2, <1>3, <1>4, <1>5

\* WriteBack and Insert share PutEntry.  A registered gauge is the one the
\* main loop holds, so the entry it writes agrees with the registry even if
\* the cleaner deleted the entry that was read.
LEMMA PutEntryIInv ==
  ASSUME IInv, mainPc \in {"writeBack", "insert"}, PutEntry
  PROVE  IInv'
<1> USE DEF IInv, PutEntry, prometheusVars, cleanVars, clockVars, apiVars
<1> DEFINE e == [value |-> msg.value, age |-> msg.age, gauge |-> held]
<1>1. /\ msg \in Message
      /\ held \in Gauges
      /\ e \in Entry /\ e # None
  BY NoneIsNoValue DEF TypeOK, Message, Entry
<1>2. /\ store'[msg.name] = e
      /\ \A n \in Names \ {msg.name} : store'[n] = store[n]
  BY <1>1 DEF TypeOK, Message
<1> HIDE DEF e
<1>3. TypeOK'
  BY <1>1, <1>2 DEF TypeOK, Message, e
<1>4. NoGaugeLeak'
  <2> SUFFICES ASSUME NEW n \in Names, registry'[n] # None
               PROVE  store'[n] # None /\ store'[n].gauge = registry'[n]
    BY DEF NoGaugeLeak
  <2>1. CASE n = msg.name
    <3>1. registry[n] = held
      BY <2>1, <1>1, NoneIsNoValue DEF NoGaugeLeak, Registration
    <3>2. QED
      BY <2>1, <3>1, <1>1, <1>2 DEF e
  <2>2. CASE n # msg.name
    BY <2>2, <1>2 DEF NoGaugeLeak
  <2>3. QED
    BY <2>1, <2>2
<1>5. OnlyForeignPanics'
  BY DEF OnlyForeignPanics
<1>6. Registration'
  BY <1>1, <1>2 DEF Registration, TypeOK
<1>7. Ageing'
  <2>1. /\ UNCHANGED <<cleanPc, due, lag, todo, victim>>
        /\ TTL \in Nat \ {0} /\ lag \in {0, 1}
    BY ConstantsAssumption DEF TypeOK
  <2>2. \A n \in Names : AgeBound(n)' = AgeBound(n) /\ AgeBound(n) \in Nat /\ AgeBound(n) >= 1
    BY <2>1 DEF AgeBound
  <2>3. e.age \in {0, 1}
    BY DEF Ageing, e
  <2>4. \A n \in Stored' : store'[n].age <= AgeBound(n)'
    <3> SUFFICES ASSUME NEW n \in Names, store'[n] # None
                 PROVE  store'[n].age <= AgeBound(n)
      BY <2>2 DEF Stored
    <3>1. CASE n = msg.name
      BY <3>1, <1>2, <2>2, <2>3
    <3>2. CASE n # msg.name
      BY <3>2, <1>2 DEF Ageing, Stored
    <3>3. QED
      BY <3>1, <3>2
  <2>5. QED
    BY <2>1, <2>4 DEF Ageing
<1>8. QED
  BY <1>3, <1>4, <1>5, <1>6, <1>7

\* The new gauge's name has no entry, hence no registered gauge and no
\* deleteMetric running for it.
LEMMA NewGaugeCollectorIInv == ASSUME IInv, NewGaugeCollector PROVE IInv'
<1> USE DEF IInv, NewGaugeCollector, cleanVars, clockVars, apiVars
<1>1. PICK g \in FreeGauges :
        /\ registry' = [registry EXCEPT ![msg.name] = g]
        /\ sample' = [sample EXCEPT ![g] = None]
        /\ held' = g
  OBVIOUS
<1>2. msg \in Message /\ g \in Gauges
  BY <1>1 DEF TypeOK, FreeGauges
<1>3. TypeOK'
  BY <1>1, <1>2, NoneIsNoValue DEF TypeOK, Message
<1>4. NoGaugeLeak'
  BY <1>1, <1>2 DEF NoGaugeLeak, TypeOK, Message
<1>5. OnlyForeignPanics'
  BY DEF OnlyForeignPanics
<1>6. Registration'
  BY <1>1, <1>2 DEF Registration, TypeOK, Message
<1>7. Ageing'
  BY DEF Ageing, AgeBound, Stored
<1>8. QED
  BY <1>3, <1>4, <1>5, <1>6, <1>7

\* MustRegister can only panic on a name or a description.
LEMMA RegisterPanicsIInv == ASSUME IInv, RegisterPanics PROVE IInv'
<1>1. msg \in Message /\ mainPc = "register"
  BY DEF IInv, TypeOK, RegisterPanics
<1>2. registry[msg.name] = None
  BY <1>1 DEF IInv, Registration, NoGaugeLeak, Message
<1>3. RegisterError(msg.name, msg.desc) \in {"refused", "inconsistent"}
  BY <1>2 DEF RegisterPanics, RegisterError
<1>4. QED
  BY <1>3, DieIInv DEF RegisterPanics

LEMMA AddMetricIInv == ASSUME IInv, AddMetric PROVE IInv'
BY LookupIInv, UpdateGaugeValueIInv, PutEntryIInv, NewGaugeCollectorIInv, RegisterPanicsIInv
   DEF AddMetric, WriteBack, Insert

-----------------------------------------------------------------------------
(***************************************************************************)
(* The cleaner preserves the inductive invariant.                          *)
(***************************************************************************)

LEMMA StartCleanupIInv == ASSUME IInv, StartCleanup PROVE IInv'
<1> USE DEF IInv, StartCleanup, prometheusVars, mainVars, apiVars
<1>1. TypeOK'
  BY DEF TypeOK, Stored
<1>2. NoGaugeLeak'
  BY DEF NoGaugeLeak
<1>3. OnlyForeignPanics'
  BY DEF OnlyForeignPanics
<1>4. Registration'
  BY DEF Registration
<1>5. Ageing'
  BY ConstantsAssumption DEF Ageing, AgeBound, Stored
<1>6. QED
  BY <1>1, <1>2, <1>3, <1>4, <1>5

\* A yielded entry that has not expired is at most TTL + lag periods old.
LEMMA CleanupNextIInv ==
  ASSUME IInv, NEW n \in Names, CleanupNext(n)
  PROVE  IInv'
<1> USE DEF IInv, CleanupNext, prometheusVars, mainVars, clockVars, apiVars
<1>1. TypeOK'
  BY NoneIsNoValue DEF TypeOK
<1>2. NoGaugeLeak'
  BY DEF NoGaugeLeak
<1>3. OnlyForeignPanics'
  BY DEF OnlyForeignPanics
<1>4. Registration'
  BY DEF Registration
<1>5. Ageing'
  <2>1. TTL \in Nat /\ lag \in {0, 1} /\ victim = None
    BY ConstantsAssumption DEF TypeOK
  <2>2. ASSUME NEW m \in Names, store[m] # None
        PROVE  store[m].age <= AgeBound(m)'
    <3>1. store[m].age \in Nat
      BY <2>2 DEF TypeOK, Entry
    <3>2. store[m].age <= TTL + lag + (IF m \in todo THEN 1 ELSE 0)
      BY <2>1, <2>2, NoneIsNoValue DEF Ageing, AgeBound, Stored
    <3>3. CASE m = n /\ Expired(n)
      BY <2>1, <2>2, <3>1, <3>2, <3>3 DEF AgeBound
    <3>4. CASE m = n /\ ~Expired(n)
      BY <2>1, <2>2, <3>1, <3>4, NoneIsNoValue DEF AgeBound, Expired
    <3>5. CASE m # n
      BY <2>1, <3>1, <3>2, <3>5 DEF AgeBound
    <3>6. QED
      BY <3>3, <3>4, <3>5
  <2>3. QED
    BY <2>2 DEF Ageing, Stored
<1>6. QED
  BY <1>1, <1>2, <1>3, <1>4, <1>5

\* The second read always finds the entry: Unregister is not called on nil.
LEMMA DeleteMetricReadsIInv == ASSUME IInv, DeleteMetricReads PROVE IInv'
<1> USE DEF IInv, prometheusVars, mainVars, clockVars, apiVars
<1>1. store[victim] # None
  BY DEF DeleteMetricReads, Registration
<1>2. /\ cleanPc = "reread" /\ cleanPc' = "unregister"
      /\ UNCHANGED <<store, prometheusVars, mainVars, todo, victim, clockVars, apiVars, crash>>
  BY <1>1 DEF DeleteMetricReads
<1>3. TypeOK'
  BY <1>2 DEF TypeOK
<1>4. NoGaugeLeak'
  BY <1>2 DEF NoGaugeLeak
<1>5. OnlyForeignPanics'
  BY <1>2 DEF OnlyForeignPanics
<1>6. Registration'
  BY <1>2 DEF Registration
<1>7. Ageing'
  BY <1>2 DEF Ageing, AgeBound, Stored
<1>8. QED
  BY <1>3, <1>4, <1>5, <1>6, <1>7

LEMMA DeleteMetricUnregistersIInv == ASSUME IInv, DeleteMetricUnregisters PROVE IInv'
<1> USE DEF IInv, DeleteMetricUnregisters, mainVars, clockVars, apiVars
<1>1. TypeOK'
  BY DEF TypeOK
<1>2. NoGaugeLeak'
  BY DEF NoGaugeLeak, TypeOK
<1>3. OnlyForeignPanics'
  BY DEF OnlyForeignPanics
<1>4. Registration'
  BY DEF Registration, TypeOK
<1>5. Ageing'
  BY DEF Ageing, AgeBound, Stored
<1>6. QED
  BY <1>1, <1>2, <1>3, <1>4, <1>5

\* The deleted entry's gauge is unregistered already.
LEMMA DeleteMetricDeletesIInv == ASSUME IInv, DeleteMetricDeletes PROVE IInv'
<1> USE DEF IInv, DeleteMetricDeletes, prometheusVars, mainVars, clockVars, apiVars
<1>1. TypeOK'
  BY DEF TypeOK
<1>2. NoGaugeLeak'
  BY DEF NoGaugeLeak, Registration, TypeOK
<1>3. OnlyForeignPanics'
  BY DEF OnlyForeignPanics
<1>4. Registration'
  BY DEF Registration, TypeOK, Message
<1>5. Ageing'
  <2>1. TTL \in Nat /\ lag \in {0, 1} /\ victim \in Names
    BY ConstantsAssumption DEF TypeOK
  <2>2. ASSUME NEW m \in Names, store'[m] # None
        PROVE  store'[m].age <= AgeBound(m)'
    <3>1. m # victim /\ store'[m] = store[m]
      BY <2>1, <2>2 DEF TypeOK
    <3>2. store[m].age <= AgeBound(m)
      BY <2>2, <3>1 DEF Ageing, Stored
    <3>3. QED
      BY <2>1, <3>1, <3>2, NoneIsNoValue DEF AgeBound
  <2>3. QED
    BY <2>2 DEF Ageing, Stored
<1>6. QED
  BY <1>1, <1>2, <1>3, <1>4, <1>5

LEMMA EndCleanupIInv == ASSUME IInv, EndCleanup PROVE IInv'
<1> USE DEF IInv, EndCleanup, prometheusVars, mainVars, apiVars
<1>1. TypeOK'
  BY DEF TypeOK
<1>2. NoGaugeLeak'
  BY DEF NoGaugeLeak
<1>3. OnlyForeignPanics'
  BY DEF OnlyForeignPanics
<1>4. Registration'
  BY DEF Registration
<1>5. Ageing'
  BY ConstantsAssumption, NoneIsNoValue DEF Ageing, AgeBound, Stored, TypeOK, Entry
<1>6. QED
  BY <1>1, <1>2, <1>3, <1>4, <1>5

LEMMA CleanupIInv == ASSUME IInv, CleanupExpiredMetrics PROVE IInv'
BY StartCleanupIInv, CleanupNextIInv, DeleteMetricReadsIInv, DeleteMetricUnregistersIInv,
   DeleteMetricDeletesIInv, EndCleanupIInv
   DEF CleanupExpiredMetrics

-----------------------------------------------------------------------------
(***************************************************************************)
(* The API handler, time and faults preserve the inductive invariant.      *)
(***************************************************************************)

LEMMA GetAllMetricsIInv == ASSUME IInv, GetAllMetrics PROVE IInv'
<1>1. /\ UNCHANGED <<store, prometheusVars, mainVars, cleanVars, clockVars, crash>>
      /\ apiPc' \in {"idle", "scan", "read"}
      /\ IF apiPc' = "read" THEN key' \in Names ELSE key' = None
  BY DEF IInv, TypeOK, GetAllMetrics, StartGetAllMetrics, GetAllMetricsNext,
         GetAllMetricsReads, EndGetAllMetrics, Stored
<1> USE <1>1 DEF IInv, prometheusVars, mainVars, cleanVars, clockVars
<1>2. TypeOK'
  BY DEF TypeOK
<1>3. NoGaugeLeak'
  BY DEF NoGaugeLeak
<1>4. OnlyForeignPanics'
  BY DEF OnlyForeignPanics
<1>5. Registration'
  BY DEF Registration
<1>6. Ageing'
  BY DEF Ageing, AgeBound, Stored
<1>7. QED
  BY <1>2, <1>3, <1>4, <1>5, <1>6

LEMMA TickIInv == ASSUME IInv, Tick PROVE IInv'
<1> USE DEF IInv, Tick, prometheusVars, cleanVars, apiVars
<1>1. ASSUME NEW n \in Names
      PROVE  /\ store[n] = None => store'[n] = None
             /\ store[n] # None =>
                  /\ store'[n] \in Entry /\ store'[n] # None
                  /\ store'[n].gauge = store[n].gauge
                  /\ store'[n].age = store[n].age + 1
  BY NoneIsNoValue DEF TypeOK, Entry
<1>2. IF mainPc = "idle" THEN msg' = None
      ELSE msg' \in Message /\ msg'.name = msg.name /\ msg'.age = 1
  BY DEF TypeOK, Message
<1>3. TypeOK'
  BY <1>1, <1>2 DEF TypeOK
<1>4. NoGaugeLeak'
  BY <1>1, <1>2 DEF NoGaugeLeak
<1>5. OnlyForeignPanics'
  BY DEF OnlyForeignPanics
<1>6. Registration'
  BY <1>1, <1>2 DEF Registration, TypeOK, Message
<1>7. Ageing'
  <2>1. TTL \in Nat /\ lag \in {0, 1}
    BY ConstantsAssumption DEF TypeOK
  <2>2. ASSUME NEW n \in Names, store'[n] # None
        PROVE  store'[n].age <= AgeBound(n)'
    <3>1. store[n] # None /\ store'[n].age = store[n].age + 1 /\ store[n].age \in Nat
      BY <1>1, <2>2 DEF TypeOK, Entry
    <3>2. store[n].age <= AgeBound(n)
      BY <3>1 DEF Ageing, Stored
    <3>3. AgeBound(n)' = AgeBound(n) + 1 /\ AgeBound(n) \in Nat
      BY <2>1 DEF AgeBound, Ageing
    <3>4. QED
      BY <3>1, <3>2, <3>3
  <2>3. QED
    BY <1>2, <2>2 DEF Ageing, Stored
<1>8. QED
  BY <1>3, <1>4, <1>5, <1>6, <1>7

LEMMA StutterIInv == ASSUME IInv, UNCHANGED vars PROVE IInv'
BY DEF IInv, TypeOK, NoGaugeLeak, OnlyForeignPanics, Registration, Ageing, AgeBound, Stored,
       vars, prometheusVars, mainVars, cleanVars, clockVars, apiVars

LEMMA NextIInv == IInv /\ [Next]_vars => IInv'
<1> SUFFICES ASSUME IInv, [Next]_vars PROVE IInv'
  OBVIOUS
<1>1. CASE \E n \in Names, d \in Descs, v \in Values : Receive(n, d, v)
  BY <1>1, ReceiveIInv
<1>2. CASE AddMetric
  BY <1>2, AddMetricIInv
<1>3. CASE CleanupExpiredMetrics
  BY <1>3, CleanupIInv
<1>4. CASE GetAllMetrics
  BY <1>4, GetAllMetricsIInv
<1>5. CASE Tick
  BY <1>5, TickIInv
<1>6. CASE ConcurrentMapFault
  BY <1>6, DieIInv DEF ConcurrentMapFault
<1>7. CASE Dead \/ UNCHANGED vars
  BY <1>7, StutterIInv DEF Dead
<1>8. QED
  BY <1>1, <1>2, <1>3, <1>4, <1>5, <1>6, <1>7 DEF Next

THEOREM Invariance == Safety => []IInv
BY InitIInv, NextIInv, PTL DEF Safety

-----------------------------------------------------------------------------

\* Every reachable state of the archiver is type correct.
THEOREM TypeCorrectness == Safety => []TypeOK
<1>1. IInv => TypeOK
  BY DEF IInv
<1>2. QED
  BY <1>1, Invariance, PTL

\* However the goroutines interleave, Prometheus exposes no gauge that the
\* map has lost.
THEOREM NoLeak == Safety => []NoGaugeLeak
<1>1. IInv => NoGaugeLeak
  BY DEF IInv
<1>2. QED
  BY <1>1, Invariance, PTL

\* However they interleave, MustRegister meets no registered name and
\* Unregister no nil collector.
THEOREM PanicFreedom == Safety => []OnlyForeignPanics
<1>1. IInv => OnlyForeignPanics
  BY DEF IInv
<1>2. QED
  BY <1>1, Invariance, PTL

\* No entry gets older than the expiration time and two ticker periods.
THEOREM BoundedStaleness == Safety => []StalenessBounded
<1>1. IInv => StalenessBounded
  <2> SUFFICES ASSUME IInv, NEW n \in Stored
               PROVE  store[n].age <= TTL + 2
    BY DEF StalenessBounded
  <2>1. /\ TTL \in Nat /\ lag \in {0, 1} /\ store[n].age \in Nat
        /\ store[n].age <= AgeBound(n)
    BY ConstantsAssumption DEF IInv, TypeOK, Ageing, Stored, Entry
  <2>2. AgeBound(n) <= TTL + 2
    BY <2>1 DEF AgeBound
  <2>3. QED
    BY <2>1, <2>2 DEF AgeBound
<1>2. QED
  BY <1>1, Invariance, PTL

-----------------------------------------------------------------------------
(***************************************************************************)
(* What Prometheus exposes agrees with the map.                            *)
(***************************************************************************)

LEMMA InitExposure == Init => ExposureInv
<1> SUFFICES ASSUME Init PROVE ExposureInv
  OBVIOUS
<1>1. IInv
  BY InitIInv
<1>2. DistinctGauges
  BY NoneIsNoValue DEF Init, DistinctGauges, Uses
<1>3. HeldSample /\ ExposedIsStored
  BY DEF Init, HeldSample, ExposedIsStored
<1>4. QED
  BY <1>1, <1>2, <1>3 DEF ExposureInv

LEMMA DieExposure ==
  ASSUME NEW reason, Die(reason)
  PROVE  DistinctGauges' /\ HeldSample' /\ ExposedIsStored'
BY NoneIsNoValue DEF Die, DistinctGauges, Uses, HeldSample, ExposedIsStored

\* Nothing new uses a gauge: gauges stay distinct.
LEMMA FewerUses ==
  ASSUME DistinctGauges, \A n \in Names, g \in Gauges : Uses(n, g)' => Uses(n, g)
  PROVE  DistinctGauges'
BY DEF DistinctGauges

LEMMA ReceiveExposure ==
  ASSUME ExposureInv, NEW n \in Names, NEW d \in Descs, NEW v \in Values, Receive(n, d, v)
  PROVE  DistinctGauges' /\ HeldSample' /\ ExposedIsStored'
<1> USE DEF ExposureInv, Receive, prometheusVars
<1>1. DistinctGauges'
  BY FewerUses DEF Uses
<1>2. HeldSample' /\ ExposedIsStored'
  BY DEF HeldSample, ExposedIsStored
<1>3. QED
  BY <1>1, <1>2

LEMMA LookupExposure ==
  ASSUME ExposureInv, Lookup
  PROVE  DistinctGauges' /\ HeldSample' /\ ExposedIsStored'
<1> USE DEF ExposureInv, Lookup, prometheusVars
<1>1. DistinctGauges'
  <2>1. \A n \in Names, g \in Gauges : Uses(n, g)' => Uses(n, g)
    BY DEF Uses
  <2>2. QED
    BY <2>1, FewerUses
<1>2. HeldSample' /\ ExposedIsStored'
  BY DEF HeldSample, ExposedIsStored
<1>3. QED
  BY <1>1, <1>2

\* The gauge that is set is main's own: no other name exposes it.
LEMMA UpdateGaugeValueExposure ==
  ASSUME ExposureInv, UpdateGaugeValue
  PROVE  DistinctGauges' /\ HeldSample' /\ ExposedIsStored'
<1> USE DEF ExposureInv, UpdateGaugeValue
<1>1. held \in Gauges /\ msg.name \in Names /\ Uses(msg.name, held)
  BY DEF IInv, TypeOK, Message, Uses
<1>2. DistinctGauges'
  <2>1. \A n \in Names, g \in Gauges : Uses(n, g)' => Uses(n, g)
    BY DEF Uses
  <2>2. QED
    BY <2>1, FewerUses
<1>3. HeldSample'
  BY <1>1 DEF HeldSample, IInv, TypeOK
<1>4. ExposedIsStored'
  <2> SUFFICES ASSUME NEW n \in Names, registry[n] # None, msg.name # n
               PROVE  store[n] # None /\ sample'[registry[n]] \in {None, store[n].value}
    BY DEF ExposedIsStored
  <2>1. registry[n] \in Gauges /\ Uses(n, registry[n])
    BY DEF IInv, TypeOK, Uses
  <2>2. registry[n] # held
    BY <1>1, <2>1 DEF DistinctGauges
  <2>3. sample'[registry[n]] = sample[registry[n]]
    BY <2>1, <2>2 DEF IInv, TypeOK
  <2>4. QED
    BY <2>3 DEF ExposedIsStored
<1>5. QED
  BY <1>2, <1>3, <1>4

\* The entry that is put has the value its gauge shows, or the gauge is new.
LEMMA PutEntryExposure ==
  ASSUME ExposureInv, PutEntry, mainPc \in {"writeBack", "insert"}
  PROVE  DistinctGauges' /\ HeldSample' /\ ExposedIsStored'
<1> USE DEF ExposureInv, PutEntry, prometheusVars
<1>1. msg.name \in Names /\ held \in Gauges /\ msg \in Message /\ None \notin Entry
  BY NoneIsNoValue DEF IInv, TypeOK, Message
<1>2. /\ store'[msg.name] = [value |-> msg.value, age |-> msg.age, gauge |-> held]
      /\ store'[msg.name] # None
  BY <1>1 DEF IInv, TypeOK, Message, Entry
<1>3. \A n \in Names : n # msg.name => store'[n] = store[n]
  BY DEF IInv, TypeOK
<1>4. DistinctGauges'
  <2>1. \A n \in Names, g \in Gauges : Uses(n, g)' => Uses(n, g)
    BY <1>2, <1>3 DEF Uses
  <2>2. QED
    BY <2>1, FewerUses
<1>5. HeldSample'
  BY DEF HeldSample
<1>6. ExposedIsStored'
  <2> SUFFICES ASSUME NEW n \in Names, registry[n] # None
               PROVE  store'[n] # None /\ sample[registry[n]] \in {None, store'[n].value}
    BY DEF ExposedIsStored
  <2>1. CASE n = msg.name
    <3>1. registry[n] = held
      BY <2>1 DEF IInv, Registration, NoGaugeLeak
    <3>2. sample[held] \in {None, msg.value}
      BY DEF HeldSample
    <3>3. QED
      BY <1>2, <2>1, <3>1, <3>2
  <2>2. CASE n # msg.name
    BY <1>3, <2>2 DEF ExposedIsStored
  <2>3. QED
    BY <2>1, <2>2
<1>7. QED
  BY <1>4, <1>5, <1>6

\* A new gauge is nobody else's.
LEMMA NewGaugeCollectorExposure ==
  ASSUME ExposureInv, NewGaugeCollector
  PROVE  DistinctGauges' /\ HeldSample' /\ ExposedIsStored'
<1> USE DEF ExposureInv, NewGaugeCollector
<1>1. PICK new \in FreeGauges : /\ registry' = [registry EXCEPT ![msg.name] = new]
                                /\ sample' = [sample EXCEPT ![new] = None]
                                /\ held' = new
  OBVIOUS
<1>2. /\ new \in Gauges /\ msg.name \in Names
      /\ registry \in [Names -> Gauges \cup {None}]
      /\ sample \in [Gauges -> Values \cup {None}]
  BY <1>1 DEF IInv, TypeOK, Message, FreeGauges
<1>3. \A n \in Names : ~Uses(n, new)
  BY <1>1 DEF Uses, FreeGauges
<1>4. \A n \in Names, g \in Gauges : Uses(n, g)' => Uses(n, g) \/ (n = msg.name /\ g = new)
  BY <1>1, <1>2 DEF Uses
<1>5. DistinctGauges'
  BY <1>3, <1>4 DEF DistinctGauges
<1>6. HeldSample'
  BY <1>1, <1>2 DEF HeldSample
<1>7. ExposedIsStored'
  <2> SUFFICES ASSUME NEW n \in Names, registry'[n] # None, msg.name # n
               PROVE  store[n] # None /\ sample'[registry'[n]] \in {None, store[n].value}
    BY DEF ExposedIsStored
  <2>1. registry'[n] = registry[n] /\ registry[n] \in Gauges
    BY <1>1, <1>2
  <2>2. registry[n] # new
    BY <1>3, <2>1 DEF Uses
  <2>3. sample'[registry[n]] = sample[registry[n]]
    BY <1>1, <1>2, <2>1, <2>2
  <2>4. QED
    BY <2>1, <2>3 DEF ExposedIsStored
<1>8. QED
  BY <1>5, <1>6, <1>7

LEMMA AddMetricExposure ==
  ASSUME ExposureInv, AddMetric
  PROVE  DistinctGauges' /\ HeldSample' /\ ExposedIsStored'
<1>1. CASE Lookup
  BY <1>1, LookupExposure
<1>2. CASE UpdateGaugeValue
  BY <1>2, UpdateGaugeValueExposure
<1>3. CASE WriteBack \/ Insert
  BY <1>3, PutEntryExposure DEF WriteBack, Insert
<1>4. CASE NewGaugeCollector
  BY <1>4, NewGaugeCollectorExposure
<1>5. CASE RegisterPanics
  BY <1>5, DieExposure DEF RegisterPanics
<1>6. QED
  BY <1>1, <1>2, <1>3, <1>4, <1>5 DEF AddMetric

\* Steps that touch neither main nor a gauge, nor the value of an entry.
LEMMA QuietExposure ==
  ASSUME ExposureInv, UNCHANGED <<store, prometheusVars, mainVars>>
  PROVE  DistinctGauges' /\ HeldSample' /\ ExposedIsStored'
<1> USE DEF ExposureInv, prometheusVars, mainVars
<1>1. DistinctGauges'
  BY DEF DistinctGauges, Uses
<1>2. HeldSample' /\ ExposedIsStored'
  BY DEF HeldSample, ExposedIsStored
<1>3. QED
  BY <1>1, <1>2

LEMMA DeleteMetricUnregistersExposure ==
  ASSUME ExposureInv, DeleteMetricUnregisters
  PROVE  DistinctGauges' /\ HeldSample' /\ ExposedIsStored'
<1> USE DEF ExposureInv, DeleteMetricUnregisters, mainVars
<1>1. \A n \in Names : registry'[n] \in {None, registry[n]}
  BY DEF IInv, TypeOK
<1>2. DistinctGauges'
  <2>1. \A n \in Names, g \in Gauges : Uses(n, g)' => Uses(n, g)
    BY <1>1, NoneIsNoValue DEF Uses
  <2>2. QED
    BY <2>1, FewerUses
<1>3. HeldSample' /\ ExposedIsStored'
  BY <1>1 DEF HeldSample, ExposedIsStored
<1>4. QED
  BY <1>2, <1>3

\* The entry that is deleted has no registered gauge.
LEMMA DeleteMetricDeletesExposure ==
  ASSUME ExposureInv, DeleteMetricDeletes
  PROVE  DistinctGauges' /\ HeldSample' /\ ExposedIsStored'
<1> USE DEF ExposureInv, DeleteMetricDeletes, mainVars, prometheusVars
<1>1. /\ registry[victim] = None
      /\ \A n \in Names : store'[n] = IF n = victim THEN None ELSE store[n]
  BY DEF IInv, TypeOK, Registration
<1>2. DistinctGauges'
  <2>1. \A n \in Names, g \in Gauges : Uses(n, g)' => Uses(n, g)
    BY <1>1 DEF Uses
  <2>2. QED
    BY <2>1, FewerUses
<1>3. HeldSample' /\ ExposedIsStored'
  BY <1>1 DEF HeldSample, ExposedIsStored
<1>4. QED
  BY <1>2, <1>3

LEMMA CleanupExposure ==
  ASSUME ExposureInv, CleanupExpiredMetrics
  PROVE  DistinctGauges' /\ HeldSample' /\ ExposedIsStored'
<1>1. CASE StartCleanup \/ EndCleanup \/ \E n \in Names : CleanupNext(n)
  BY <1>1, QuietExposure DEF StartCleanup, EndCleanup, CleanupNext
<1>2. CASE DeleteMetricReads
  BY <1>2, DieExposure, QuietExposure DEF DeleteMetricReads
<1>3. CASE DeleteMetricUnregisters
  BY <1>3, DeleteMetricUnregistersExposure
<1>4. CASE DeleteMetricDeletes
  BY <1>4, DeleteMetricDeletesExposure
<1>5. QED
  BY <1>1, <1>2, <1>3, <1>4 DEF CleanupExpiredMetrics

\* Time changes the ages of the entries only.
LEMMA TickExposure ==
  ASSUME ExposureInv, Tick
  PROVE  DistinctGauges' /\ HeldSample' /\ ExposedIsStored'
<1> USE DEF ExposureInv
<1>0. UNCHANGED <<registry, sample, mainPc, held>>
  BY DEF Tick, prometheusVars
<1>1. \A n \in Names :
        /\ store'[n] = None <=> store[n] = None
        /\ store[n] # None => /\ store'[n].gauge = store[n].gauge
                              /\ store'[n].value = store[n].value
  <2> SUFFICES ASSUME NEW n \in Names, store[n] # None
               PROVE  /\ store'[n] # None
                      /\ store'[n].gauge = store[n].gauge
                      /\ store'[n].value = store[n].value
    BY DEF Tick
  <2>1. store[n] \in Entry /\ store'[n] = [store[n] EXCEPT !.age = @ + 1]
    BY DEF IInv, TypeOK, Tick
  <2>2. store'[n] \in Entry
    BY <2>1 DEF Entry
  <2>3. QED
    BY <2>1, <2>2, NoneIsNoValue DEF Entry
<1>2. mainPc # "idle" => msg'.name = msg.name /\ msg'.value = msg.value
  BY DEF IInv, TypeOK, Message, Tick
<1>3. DistinctGauges'
  <2>1. \A n \in Names, g \in Gauges : Uses(n, g)' => Uses(n, g)
    BY <1>0, <1>1, <1>2 DEF Uses
  <2>2. QED
    BY <2>1, FewerUses
<1>4. HeldSample'
  BY <1>0, <1>2 DEF HeldSample
<1>5. ExposedIsStored'
  <2> SUFFICES ASSUME NEW n \in Names, registry[n] # None, mainPc = "idle" \/ msg.name # n
               PROVE  store'[n] # None /\ sample[registry[n]] \in {None, store'[n].value}
    BY <1>0, <1>2 DEF ExposedIsStored
  <2>1. store[n] # None /\ sample[registry[n]] \in {None, store[n].value}
    BY DEF ExposedIsStored
  <2>2. store'[n] # None /\ store'[n].value = store[n].value
    BY <1>1, <2>1
  <2>3. QED
    BY <2>1, <2>2
<1>6. QED
  BY <1>3, <1>4, <1>5

LEMMA NextExposure == ExposureInv /\ [Next]_vars => ExposureInv'
<1> SUFFICES ASSUME ExposureInv, [Next]_vars
             PROVE  DistinctGauges' /\ HeldSample' /\ ExposedIsStored'
  BY NextIInv DEF ExposureInv
<1>1. CASE \E n \in Names, d \in Descs, v \in Values : Receive(n, d, v)
  BY <1>1, ReceiveExposure
<1>2. CASE AddMetric
  BY <1>2, AddMetricExposure
<1>3. CASE CleanupExpiredMetrics
  BY <1>3, CleanupExposure
<1>4. CASE GetAllMetrics
  BY <1>4, QuietExposure DEF GetAllMetrics, StartGetAllMetrics, GetAllMetricsNext,
                             GetAllMetricsReads, EndGetAllMetrics
<1>5. CASE Tick
  BY <1>5, TickExposure
<1>6. CASE ConcurrentMapFault
  BY <1>6, DieExposure DEF ConcurrentMapFault
<1>7. CASE Dead \/ UNCHANGED vars
  BY <1>7, QuietExposure DEF Dead, vars
<1>8. QED
  BY <1>1, <1>2, <1>3, <1>4, <1>5, <1>6, <1>7 DEF Next

\* Outside an update of its name a gauge that Prometheus exposes has no
\* sample yet or the value the API returns for that name.
THEOREM ExposureAgrees == Safety => []ExposedIsStored
<1>1. ExposureInv => ExposedIsStored
  BY DEF ExposureInv
<1>2. Safety => []ExposureInv
  BY InitExposure, NextExposure, PTL DEF Safety
<1>3. QED
  BY <1>1, <1>2, PTL

-----------------------------------------------------------------------------
(***************************************************************************)
(* The archiver implements MetricTable.                                    *)
(***************************************************************************)

\* Nothing goes on in a process that ended.
LEMMA InitStopped == Init => Stopped
BY DEF Init, Stopped

LEMMA NextStopped == Stopped /\ [Next]_vars => Stopped'
<1> SUFFICES ASSUME Stopped, [Next]_vars PROVE Stopped'
  OBVIOUS
<1>1. ASSUME NEW reason, Die(reason) PROVE Stopped'
  BY <1>1 DEF Die, Stopped
<1>2. ASSUME NEW n \in Names, NEW d \in Descs, NEW v \in Values, Receive(n, d, v)
      PROVE  Stopped'
  BY <1>2 DEF Receive, Stopped
<1>3. CASE AddMetric
  BY <1>1, <1>3
     DEF AddMetric, Lookup, UpdateGaugeValue, WriteBack, NewGaugeCollector, RegisterPanics,
         Insert, PutEntry, Stopped, cleanVars, clockVars
<1>4. CASE CleanupExpiredMetrics
  BY <1>1, <1>4
     DEF CleanupExpiredMetrics, StartCleanup, CleanupNext, DeleteMetricReads,
         DeleteMetricUnregisters, DeleteMetricDeletes, EndCleanup, Stopped, mainVars
<1>5. CASE GetAllMetrics
  BY <1>5 DEF GetAllMetrics, StartGetAllMetrics, GetAllMetricsNext, GetAllMetricsReads,
              EndGetAllMetrics, Stopped, mainVars, cleanVars, clockVars
<1>6. CASE Tick
  BY <1>6 DEF Tick, Stopped
<1>7. CASE ConcurrentMapFault
  BY <1>1, <1>7 DEF ConcurrentMapFault
<1>8. CASE UNCHANGED vars
  BY <1>8 DEF Stopped, vars, mainVars, cleanVars, clockVars
<1>9. QED
  BY <1>2, <1>3, <1>4, <1>5, <1>6, <1>7, <1>8 DEF Next, Dead

\* What a step leaves alone of the table's view of the state.
LEMMA SameRows == ASSUME store' = store PROVE Rows' = Rows
BY DEF Rows, Stored

LEMMA SameUnapplied ==
  ASSUME msg' = msg, mainPc' = "idle" <=> mainPc = "idle"
  PROVE  Unapplied' = Unapplied
BY DEF Unapplied

LEMMA SameCondemned == ASSUME victim' = victim PROVE Condemned' = Condemned
BY DEF Condemned

\* What the table holds of an entry.
LEMMA RowOf ==
  ASSUME TypeOK
  PROVE  /\ DOMAIN Rows = Stored
         /\ \A n \in Stored : /\ n \in Names /\ store[n] \in Entry
                             /\ Rows[n] = [value |-> store[n].value, age |-> store[n].age]
                             /\ Rows[n].age = store[n].age /\ store[n].age \in Nat
BY DEF TypeOK, Rows, Stored, Entry

\* A step that touches neither the map, nor the message AddMetric is at, nor
\* the cleaner's decision is a stutter of the table.
LEMMA QuietRefines ==
  ASSUME UNCHANGED <<store, msg, victim, crash>>, mainPc' = "idle" <=> mainPc = "idle"
  PROVE  UNCHANGED Table!vars
BY SameRows, SameUnapplied, SameCondemned DEF Table!vars

LEMMA InitRefines == Init => Table!Init
<1> SUFFICES ASSUME Init PROVE Table!Init
  OBVIOUS
<1>1. crash = "no" /\ Stored = {} /\ Unapplied = {}
  BY DEF Init, Stored, Unapplied
<1>2. Rows = [n \in {} |-> {}]
  BY <1>1 DEF Rows
<1>3. Condemned = {}
  BY NoneIsNoValue DEF Init, Condemned
<1>4. QED
  BY <1>1, <1>2, <1>3 DEF Table!Init

\* The end of the process, whatever it was doing.
LEMMA DieRefines ==
  ASSUME crash = "no", NEW reason, reason # "no", Die(reason)
  PROVE  Table!Crash
<1>1. Stored' = {} /\ Unapplied' = {}
  BY DEF Die, Stored, Unapplied
<1>2. Rows' = [n \in {} |-> {}]
  BY <1>1 DEF Rows
<1>3. Condemned' = {}
  BY NoneIsNoValue DEF Die, Condemned
<1>4. QED
  BY <1>1, <1>2, <1>3 DEF Table!Crash, Die

LEMMA ReceiveRefines ==
  ASSUME NEW n \in Names, NEW d \in Descs, NEW v \in Values, Receive(n, d, v)
  PROVE  Table!Receive(n, v)
<1>1. Rows' = Rows /\ Condemned' = Condemned /\ crash' = crash
  BY SameRows, SameCondemned DEF Receive, cleanVars
<1>2. Unapplied = {} /\ Unapplied' = {[name |-> n, value |-> v, age |-> 0]}
  BY DEF Receive, Unapplied
<1>3. QED
  BY <1>1, <1>2 DEF Receive, Table!Receive

\* The write of the map is where a message takes effect, also when it brings
\* back an entry the cleaner has deleted since AddMetric read it.
LEMMA PutEntryRefines ==
  ASSUME TypeOK, mainPc \in {"writeBack", "insert"}, PutEntry
  PROVE  Table!Apply
<1> DEFINE m == [name |-> msg.name, value |-> msg.value, age |-> msg.age]
           e == [value |-> msg.value, age |-> msg.age, gauge |-> held]
<1>1. msg \in Message /\ held \in Gauges /\ e \in Entry /\ e # None
  BY NoneIsNoValue DEF TypeOK, Message, Entry
<1>2. /\ store' = [store EXCEPT ![msg.name] = e]
      /\ store \in [Names -> Entry \cup {None}] /\ msg.name \in Names
  BY <1>1 DEF PutEntry, TypeOK, Message
<1>3. /\ store'[msg.name] = e
      /\ \A n \in Names \ {msg.name} : store'[n] = store[n]
  BY <1>2
<1> HIDE DEF e
<1>4. Stored' = Stored \cup {m.name}
  BY <1>1, <1>2, <1>3 DEF Stored
<1>5. Rows' = [n \in Stored' |-> [value |-> store'[n].value, age |-> store'[n].age]]
  BY DEF Rows
<1>6. \A n \in Stored' :
        [value |-> store'[n].value, age |-> store'[n].age] =
          IF n = m.name THEN [value |-> m.value, age |-> m.age] ELSE Rows[n]
  BY <1>3, <1>4, RowOf DEF Stored, e
<1>7. Unapplied = {m} /\ Unapplied' = {}
  BY DEF Unapplied, PutEntry
<1>8. Condemned' = Condemned /\ crash' = crash
  BY SameCondemned DEF PutEntry, cleanVars
<1>9. DOMAIN Rows = Stored
  BY RowOf
<1>. HIDE DEF m
<1>10. Rows' = [n \in DOMAIN Rows \cup {m.name} |->
                  IF n = m.name THEN [value |-> m.value, age |-> m.age] ELSE Rows[n]]
  BY <1>4, <1>5, <1>6, <1>9
<1>11. QED
  BY <1>7, <1>8, <1>10 DEF Table!Apply

LEMMA AddMetricRefines ==
  ASSUME TypeOK, Stopped, AddMetric
  PROVE  Table!Next \/ UNCHANGED Table!vars
<1>1. CASE Lookup
  BY <1>1, QuietRefines DEF Lookup, cleanVars
<1>2. CASE UpdateGaugeValue
  BY <1>2, QuietRefines DEF UpdateGaugeValue, cleanVars
<1>3. CASE WriteBack
  BY <1>3, PutEntryRefines DEF WriteBack, Table!Next
<1>4. CASE NewGaugeCollector
  BY <1>4, QuietRefines DEF NewGaugeCollector, cleanVars
<1>5. CASE RegisterPanics
  BY <1>5, DieRefines DEF RegisterPanics, Stopped, Table!Next
<1>6. CASE Insert
  BY <1>6, PutEntryRefines DEF Insert, Table!Next
<1>7. QED
  BY <1>1, <1>2, <1>3, <1>4, <1>5, <1>6 DEF AddMetric

\* What the cleaner finds expired by a clock it read up to a period ago is
\* expired.
LEMMA CleanupNextRefines ==
  ASSUME TypeOK, NEW n \in Names, CleanupNext(n)
  PROVE  Table!Condemn(n) \/ UNCHANGED Table!vars
<1>1. CASE store[n] # None /\ Expired(n)
  <2>1. Condemned = {} /\ Condemned' = {n}
    BY <1>1, NoneIsNoValue DEF Condemned, CleanupNext, TypeOK
  <2>2. n \in DOMAIN Rows /\ Rows[n].age > TTL
    <3>1. n \in Stored
      BY <1>1 DEF Stored
    <3>2. store[n].age \in Nat /\ lag \in {0, 1} /\ TTL \in Nat /\ store[n].age - lag > TTL
      BY <1>1, <3>1, RowOf, ConstantsAssumption DEF TypeOK, Expired
    <3>3. store[n].age > TTL
      BY <3>2
    <3>4. QED
      BY <3>1, <3>3, RowOf
  <2>3. Rows' = Rows /\ Unapplied' = Unapplied /\ crash' = crash
    BY SameRows, SameUnapplied DEF CleanupNext, mainVars
  <2>4. QED
    BY <2>1, <2>2, <2>3 DEF Table!Condemn
<1>2. CASE ~(store[n] # None /\ Expired(n))
  BY <1>2, QuietRefines DEF CleanupNext, mainVars
<1>3. QED
  BY <1>1, <1>2

\* The cleaner's victim is in the map until the cleaner deletes it.
LEMMA DeleteMetricDeletesRefines ==
  ASSUME TypeOK, Registration, DeleteMetricDeletes
  PROVE  Table!Remove
<1>1. /\ victim \in Names /\ store[victim] # None
      /\ store \in [Names -> Entry \cup {None}]
      /\ store' = [store EXCEPT ![victim] = None]
  BY DEF TypeOK, Registration, DeleteMetricDeletes
<1>2. Condemned = {victim} /\ Condemned' = {}
  BY <1>1, NoneIsNoValue DEF Condemned, DeleteMetricDeletes
<1>3. /\ store'[victim] = None
      /\ \A n \in Names \ {victim} : store'[n] = store[n]
  BY <1>1
<1>4. Stored' = Stored \ {victim} /\ victim \in Stored
  BY <1>1, <1>3 DEF Stored
<1>5. Rows' = [n \in Stored' |-> [value |-> store'[n].value, age |-> store'[n].age]]
  BY DEF Rows
<1>6. \A n \in Stored' : [value |-> store'[n].value, age |-> store'[n].age] = Rows[n]
  BY <1>3, <1>4, RowOf
<1>7. DOMAIN Rows = Stored
  BY RowOf
<1>8. Rows' = [n \in DOMAIN Rows \ {victim} |-> Rows[n]]
  BY <1>4, <1>5, <1>6, <1>7
<1>9. Unapplied' = Unapplied /\ crash' = crash
  BY SameUnapplied DEF DeleteMetricDeletes, mainVars
<1>10. QED
  BY <1>2, <1>4, <1>7, <1>8, <1>9 DEF Table!Remove

LEMMA CleanupRefines ==
  ASSUME IInv, Stopped, CleanupExpiredMetrics
  PROVE  Table!Next \/ UNCHANGED Table!vars
<1>0. TypeOK /\ Registration
  BY DEF IInv
<1>1. CASE StartCleanup
  BY <1>1, QuietRefines DEF StartCleanup, mainVars
<1>2. ASSUME NEW n \in Names, CleanupNext(n)
      PROVE  Table!Next \/ UNCHANGED Table!vars
  BY <1>0, <1>2, CleanupNextRefines DEF Table!Next
<1>3. CASE DeleteMetricReads
  BY <1>0, <1>3, QuietRefines DEF DeleteMetricReads, Registration, mainVars
<1>4. CASE DeleteMetricUnregisters
  BY <1>4, QuietRefines DEF DeleteMetricUnregisters, mainVars
<1>5. CASE DeleteMetricDeletes
  BY <1>0, <1>5, DeleteMetricDeletesRefines DEF Table!Next
<1>6. CASE EndCleanup
  BY <1>6, QuietRefines DEF EndCleanup, mainVars
<1>7. QED
  BY <1>1, <1>2, <1>3, <1>4, <1>5, <1>6 DEF CleanupExpiredMetrics

LEMMA TickRefines ==
  ASSUME TypeOK, Tick
  PROVE  Table!Pass
<1>1. /\ store \in [Names -> Entry \cup {None}]
      /\ store' = [n \in Names |-> IF store[n] = None THEN None
                                  ELSE [store[n] EXCEPT !.age = @ + 1]]
  BY DEF TypeOK, Tick
<1>2. \A n \in Names : store[n] # None =>
        /\ store'[n] # None
        /\ store'[n].value = store[n].value /\ store'[n].age = store[n].age + 1
  <2>1. \A e \in Entry : /\ [e EXCEPT !.age = @ + 1] \in Entry
                         /\ [e EXCEPT !.age = @ + 1].value = e.value
                         /\ [e EXCEPT !.age = @ + 1].age = e.age + 1
    BY DEF Entry
  <2>2. QED
    BY <1>1, <2>1, NoneIsNoValue
<1>3. Stored' = Stored
  BY <1>1, <1>2 DEF Stored
<1>4. Rows' = [n \in Stored |-> [value |-> store'[n].value, age |-> store'[n].age]]
  BY <1>3 DEF Rows
<1>5. \A n \in Stored : [value |-> store'[n].value, age |-> store'[n].age] =
                        [Rows[n] EXCEPT !.age = @ + 1]
  <2>1. \A n \in Stored : /\ Rows[n] = [value |-> store[n].value, age |-> store[n].age]
                          /\ store'[n].value = store[n].value
                          /\ store'[n].age = store[n].age + 1
    BY <1>2, RowOf DEF Stored
  <2> DEFINE Grown(row) == [row EXCEPT !.age = @ + 1]
  <2>2. \A v, a : Grown([value |-> v, age |-> a]) = [value |-> v, age |-> a + 1]
    OBVIOUS
  <2>. HIDE DEF Grown
  <2>3. \A n \in Stored : [value |-> store'[n].value, age |-> store'[n].age] = Grown(Rows[n])
    <3>. TAKE n \in Stored
    <3>1. Grown(Rows[n]) = Grown([value |-> store[n].value, age |-> store[n].age])
      BY <2>1, Zenon
    <3>2. Grown(Rows[n]) = [value |-> store[n].value, age |-> store[n].age + 1]
      BY <2>2, <3>1, Zenon
    <3>3. QED
      BY <2>1, <3>2, Zenon
  <2>4. QED
    BY <2>3 DEF Grown
<1>6. DOMAIN Rows = Stored
  BY RowOf
<1>7. Rows' = [n \in DOMAIN Rows |-> [Rows[n] EXCEPT !.age = @ + 1]]
  BY <1>4, <1>5, <1>6
<1>8. /\ \A m \in Unapplied : m.age = 0
      /\ Unapplied' = {[m EXCEPT !.age = @ + 1] : m \in Unapplied}
  <2>1. CASE mainPc = "idle"
    BY <2>1 DEF Unapplied, Tick
  <2>2. CASE mainPc # "idle"
    <3> DEFINE m == [name |-> msg.name, value |-> msg.value, age |-> msg.age]
    <3>1. msg \in Message /\ msg.age = 0 /\ msg' = [msg EXCEPT !.age = @ + 1] /\ mainPc' = mainPc
      BY <2>2 DEF TypeOK, Tick
    <3>2. /\ msg'.name = msg.name /\ msg'.value = msg.value /\ msg'.age = msg.age + 1
      BY <3>1 DEF Message
    <3>3. /\ Unapplied = {m}
          /\ Unapplied' = {[name |-> msg.name, value |-> msg.value, age |-> msg.age + 1]}
      BY <2>2, <3>1, <3>2 DEF Unapplied
    <3>4. [m EXCEPT !.age = @ + 1] = [name |-> msg.name, value |-> msg.value, age |-> msg.age + 1]
      OBVIOUS
    <3>5. m.age = 0
      BY <3>1
    <3>. HIDE DEF m
    <3>6. QED
      BY <3>3, <3>4, <3>5
  <2>3. QED
    BY <2>1, <2>2
<1>9. Condemned' = Condemned /\ crash = "no" /\ crash' = crash
  BY SameCondemned DEF Tick, cleanVars
<1>10. QED
  BY <1>7, <1>8, <1>9 DEF Table!Pass

LEMMA NextRefines ==
  ASSUME IInv, Stopped, [Next]_vars
  PROVE  [Table!Next]_(Table!vars)
<1>0. TypeOK
  BY DEF IInv
<1>1. ASSUME NEW n \in Names, NEW d \in Descs, NEW v \in Values, Receive(n, d, v)
      PROVE  Table!Next
  BY <1>1, ReceiveRefines DEF Table!Next
<1>2. CASE AddMetric
  BY <1>0, <1>2, AddMetricRefines
<1>3. CASE CleanupExpiredMetrics
  BY <1>3, CleanupRefines
<1>4. CASE GetAllMetrics
  BY <1>4, QuietRefines DEF GetAllMetrics, StartGetAllMetrics, GetAllMetricsNext,
                            GetAllMetricsReads, EndGetAllMetrics, mainVars, cleanVars
<1>5. CASE Tick
  BY <1>0, <1>5, TickRefines DEF Table!Next
<1>6. CASE ConcurrentMapFault
  <2>1. crash = "no"
    BY <1>6 DEF ConcurrentMapFault, MainWrites, CleanWrites, Stopped
  <2>2. QED
    BY <1>6, <2>1, DieRefines DEF ConcurrentMapFault, Table!Next
<1>7. CASE UNCHANGED vars
  BY <1>7, QuietRefines DEF vars, mainVars, cleanVars
<1>8. QED
  BY <1>1, <1>2, <1>3, <1>4, <1>5, <1>6, <1>7 DEF Next, Dead

\* The archiver's goroutines, however they interleave, implement a table of
\* last values: each message takes effect at one instant and in order, and
\* only a name found expired is removed.
THEOREM Implementation == Safety => Refinement
<1>1. Init => Table!Init
  BY InitRefines
<1>2. IInv /\ Stopped /\ [Next]_vars => [Table!Next]_(Table!vars)
  BY NextRefines
<1>3. Safety => []Stopped
  BY InitStopped, NextStopped, PTL DEF Safety
<1>4. QED
  BY <1>1, <1>2, <1>3, Invariance, PTL DEF Safety, Refinement, Table!Spec
==============================================================================
