------------------------- MODULE Orchestrator_proofs -------------------------
(***************************************************************************)
(* Proofs about the NWDAF main process, for every number of slices.        *)
(***************************************************************************)
EXTENDS Orchestrator, TLAPS

\* Services are positive numbers, none of them None, with names of their own
\* except for the collectors.
LEMMA ServiceFacts ==
  /\ \A s \in Services : s \in Nat \ {0} /\ s # None /\ Name(s) \in ServiceNames
  /\ \A s, t \in Services : Name(s) = Name(t) /\ s # t => s > 2 /\ t > 2
BY SlicesAssumption DEF Services, Name, ServiceNames

LEMMA InitIInv == Init => IInv
<1> SUFFICES ASSUME Init PROVE IInv
  OBVIOUS
<1>1. TypeOK
  <2>1. 0 \in 0..NSlices /\ 1 \in 1..NSlices + 3
    BY SlicesAssumption
  <2>2. QED
    BY <2>1 DEF Init, TypeOK
<1>2. Started
  BY DEF Init, Started
<1>3. Termination /\ WaitFindsKilled
  BY DEF Init, Termination, WaitFindsKilled
<1>4. QED
  BY <1>1, <1>2, <1>3 DEF IInv

-----------------------------------------------------------------------------
(***************************************************************************)
(* The steps of main before terminate.                                     *)
(***************************************************************************)

\* The new service takes the entry of its name; the service that loses it is
\* a collector of an earlier slice.
LEMMA StartMicroserviceIInv == ASSUME IInv, StartMicroservice PROVE IInv'
<1> USE DEF IInv, StartMicroservice
<1>1. TypeOK'
  BY ServiceFacts, SlicesAssumption DEF TypeOK, Services
<1>2. Started'
  <2> SUFFICES ASSUME NEW s \in Services, proc'[s] = "running"
               PROVE  /\ s < next'
                      /\ (s > 2 /\ s + 1 < next') \/ microservices'[Name(s)] = s
    BY DEF Started, Overwritten
  <2>1. /\ next \in Services /\ next' = next + 1
        /\ next \in Nat /\ s \in Nat
        /\ Name(next) \in ServiceNames /\ Name(s) \in ServiceNames
    BY ServiceFacts
  <2>2. CASE s = next
    BY <2>1, <2>2 DEF TypeOK
  <2>3. CASE s # next
    <3>1. proc[s] = "running" /\ s < next
      BY <2>3 DEF TypeOK, Started
    <3>2. CASE Name(s) = Name(next)
      BY <2>1, <2>3, <3>1, <3>2, ServiceFacts
    <3>3. CASE Name(s) # Name(next)
      <4>1. microservices'[Name(s)] = microservices[Name(s)]
        BY <2>1, <3>3 DEF TypeOK
      <4>2. s \in Overwritten \/ microservices[Name(s)] = s
        BY <3>1 DEF Started
      <4>3. QED
        BY <2>1, <3>1, <4>1, <4>2 DEF Overwritten
    <3>4. QED
      BY <3>2, <3>3
  <2>4. QED
    BY <2>2, <2>3
<1>3. Termination' /\ WaitFindsKilled'
  BY DEF TypeOK, Termination, WaitFindsKilled
<1>4. QED
  BY <1>1, <1>2, <1>3

\* terminate is entered with every key of the map still to visit.
LEMMA EnterTerminateIInv ==
  ASSUME IInv, EnterTerminate, exit = "no",
         UNCHANGED <<badSlice, next, proc, microservices, http, exit>>,
         sigChan' \in BOOLEAN
  PROVE  IInv'
<1> USE DEF IInv, EnterTerminate
<1>1. TypeOK'
  BY DEF TypeOK, Tracked
<1>2. Started'
  BY DEF Started, Overwritten
<1>3. Termination' /\ WaitFindsKilled'
  BY DEF Termination, WaitFindsKilled, Tracked
<1>4. QED
  BY <1>1, <1>2, <1>3

\* The main process ends: nothing else changes.
LEMMA ExitIInv ==
  ASSUME IInv, NEW reason \in {"terminate", "http", "config"}, Exit(reason),
         reason = "terminate" => Tracked = {}
  PROVE  IInv'
<1> USE DEF IInv, Exit
<1>1. TypeOK'
  BY DEF TypeOK
<1>2. Started'
  BY DEF Started, Overwritten
<1>3. Termination' /\ WaitFindsKilled'
  BY DEF Termination, WaitFindsKilled, Tracked
<1>4. QED
  BY <1>1, <1>2, <1>3

LEMMA StartHTTPServerIInv == ASSUME IInv, StartHTTPServer PROVE IInv'
<1> USE DEF IInv, StartHTTPServer
<1>1. TypeOK'
  BY DEF TypeOK
<1>2. Started'
  BY DEF Started, Overwritten
<1>3. Termination' /\ WaitFindsKilled'
  BY DEF TypeOK, Termination, WaitFindsKilled
<1>4. QED
  BY <1>1, <1>2, <1>3

-----------------------------------------------------------------------------
(***************************************************************************)
(* terminate.                                                              *)
(***************************************************************************)

\* A killed process never runs again, whichever keys name it.
LEMMA KillProcessIInv ==
  ASSUME IInv, NEW k \in ServiceNames, KillProcess(k)
  PROVE  IInv'
<1> USE DEF IInv, KillProcess
<1>1. TypeOK'
  BY DEF TypeOK
<1>2. \A s \in Services : proc'[s] = "running" => proc[s] = "running"
  BY DEF TypeOK
<1>4. Started'
  BY <1>2 DEF Started, Overwritten
<1>5. \A j \in Tracked : microservices[j] \in Services
  BY DEF TypeOK, Tracked
<1>6. k \in Tracked => proc'[microservices[k]] # "running"
  BY <1>5 DEF TypeOK
<1>7. Termination' /\ WaitFindsKilled'
  BY <1>2, <1>5, <1>6 DEF TypeOK, Termination, WaitFindsKilled, Tracked
<1>8. QED
  BY <1>1, <1>4, <1>7

LEMMA AllKilledIInv == ASSUME IInv, AllKilled PROVE IInv'
<1> USE DEF IInv, AllKilled
<1>1. TypeOK'
  BY DEF TypeOK
<1>2. Started'
  BY DEF Started, Overwritten
<1>3. Termination' /\ WaitFindsKilled'
  BY DEF TypeOK, Termination, WaitFindsKilled, Tracked
<1>4. QED
  BY <1>1, <1>2, <1>3

\* The entry that is dropped is not that of a running service.
LEMMA WaitForMicroserviceIInv ==
  ASSUME IInv, NEW k \in ServiceNames, WaitForMicroservice(k)
  PROVE  IInv'
<1> USE DEF IInv, WaitForMicroservice
<1>1. TypeOK'
  BY DEF TypeOK, Tracked
<1>2. \A s \in Services : proc'[s] = "running" => proc[s] = "running" /\ s # microservices[k]
  BY DEF TypeOK
<1>3. Started'
  <2> SUFFICES ASSUME NEW s \in Services, proc'[s] = "running"
               PROVE  s < next /\ (s \in Overwritten \/ microservices'[Name(s)] = s)
    BY DEF Started, Overwritten
  <2>1. s < next /\ (s \in Overwritten \/ microservices[Name(s)] = s)
    BY <1>2 DEF Started
  <2>2. microservices[Name(s)] = s => microservices'[Name(s)] = s
    BY <1>2, ServiceFacts DEF TypeOK
  <2>3. QED
    BY <2>1, <2>2
<1>4. Termination' /\ WaitFindsKilled'
  BY <1>2, ServiceFacts DEF TypeOK, Termination, WaitFindsKilled, Tracked
<1>5. QED
  BY <1>1, <1>3, <1>4

\* The second loop of terminate ends with an empty map.
LEMMA AllWaitedForIInv == ASSUME IInv, AllWaitedFor PROVE IInv'
<1> USE DEF IInv, AllWaitedFor
<1>1. TypeOK'
  BY DEF TypeOK
<1>2. Started'
  BY DEF Started, Overwritten
<1>3. Termination' /\ WaitFindsKilled'
  BY DEF TypeOK, Termination, WaitFindsKilled, Tracked
<1>4. QED
  BY <1>1, <1>2, <1>3

-----------------------------------------------------------------------------
(***************************************************************************)
(* The environment, and all steps together.                                *)
(***************************************************************************)

LEMMA SignalIInv == ASSUME IInv, Signal PROVE IInv'
<1> USE DEF IInv, Signal
<1>1. TypeOK'
  BY DEF TypeOK
<1>2. Started' /\ Termination' /\ WaitFindsKilled'
  BY DEF Started, Overwritten, Termination, WaitFindsKilled, Tracked
<1>3. QED
  BY <1>1, <1>2

LEMMA ServiceEndsIInv ==
  ASSUME IInv, NEW s \in Services, ServiceEnds(s)
  PROVE  IInv'
<1> USE DEF IInv, ServiceEnds
<1>1. TypeOK'
  BY DEF TypeOK
<1>2. \A t \in Services : proc'[t] = "running" => proc[t] = "running"
  BY DEF TypeOK
<1>3. Started'
  BY <1>2 DEF Started, Overwritten
<1>4. \A k \in Tracked : microservices[k] \in Services
  BY DEF TypeOK, Tracked
<1>5. Termination' /\ WaitFindsKilled'
  BY <1>2, <1>4 DEF Termination, WaitFindsKilled, Tracked
<1>6. QED
  BY <1>1, <1>3, <1>5

LEMMA TerminateIInv == ASSUME IInv, Terminate PROVE IInv'
<1>1. CASE \E k \in ServiceNames : KillProcess(k)
  BY <1>1, KillProcessIInv
<1>2. CASE \E k \in ServiceNames : WaitForMicroservice(k)
  BY <1>2, WaitForMicroserviceIInv
<1>3. CASE AllKilled
  BY <1>3, AllKilledIInv
<1>4. CASE AllWaitedFor
  BY <1>4, AllWaitedForIInv
<1>5. CASE DeregisterFromNRF
  <2>1. Tracked = {} /\ Exit("terminate")
    BY <1>5 DEF IInv, Termination, DeregisterFromNRF
  <2>2. QED
    BY <2>1, ExitIInv
<1>6. QED
  BY <1>1, <1>2, <1>3, <1>4, <1>5 DEF Terminate

LEMMA MainIInv == ASSUME IInv, Main PROVE IInv'
<1>1. CASE StartMicroservice
  BY <1>1, StartMicroserviceIInv
<1>2. CASE StartFails \/ ReceiveSignal
  <2>1. exit = "no" /\ sigChan' \in BOOLEAN
    BY <1>2 DEF IInv, TypeOK, StartFails, ReceiveSignal
  <2>2. EnterTerminate /\ UNCHANGED <<badSlice, next, proc, microservices, http, exit>>
    BY <1>2 DEF StartFails, ReceiveSignal
  <2>3. QED
    BY <2>1, <2>2, EnterTerminateIInv
<1>3. CASE BadSliceExits
  BY <1>3, ExitIInv DEF BadSliceExits
<1>4. CASE StartHTTPServer
  BY <1>4, StartHTTPServerIInv
<1>5. CASE Terminate
  BY <1>5, TerminateIInv
<1>6. QED
  BY <1>1, <1>2, <1>3, <1>4, <1>5 DEF Main

LEMMA StutterIInv == ASSUME IInv, UNCHANGED vars PROVE IInv'
BY DEF IInv, TypeOK, Started, Overwritten, Termination, WaitFindsKilled, Tracked, vars

LEMMA NextIInv == IInv /\ [Next]_vars => IInv'
<1> SUFFICES ASSUME IInv, [Next]_vars PROVE IInv'
  OBVIOUS
<1>1. CASE Main
  BY <1>1, MainIInv
<1>2. CASE HTTPServerFails
  BY <1>2, ExitIInv DEF HTTPServerFails
<1>3. CASE Signal
  BY <1>3, SignalIInv
<1>4. CASE \E s \in Services : ServiceEnds(s)
  BY <1>4, ServiceEndsIInv
<1>5. CASE Ended \/ UNCHANGED vars
  BY <1>5, StutterIInv DEF Ended
<1>6. QED
  BY <1>1, <1>2, <1>3, <1>4, <1>5 DEF Next

THEOREM Invariance == Safety => []IInv
BY InitIInv, NextIInv, PTL DEF Safety

-----------------------------------------------------------------------------

\* Every reachable state of the main process is type correct.
THEOREM TypeCorrectness == Safety => []TypeOK
<1>1. IInv => TypeOK
  BY DEF IInv
<1>2. QED
  BY <1>1, Invariance, PTL

\* terminate waits for no process that still runs, however many slices share
\* a key of the map.
THEOREM NoBlockingWait == Safety => []WaitFindsKilled
<1>1. IInv => WaitFindsKilled
  BY DEF IInv
<1>2. QED
  BY <1>1, Invariance, PTL

\* What survives termination is a collector that lost its entry to a later
\* slice; whatever the map still knew has ended.
THEOREM TrackedAreStopped == Safety => []TerminateStopsTracked
<1>1. IInv => TerminateStopsTracked
  <2> SUFFICES ASSUME IInv, exit = "terminate", NEW s \in Services, proc[s] = "running"
               PROVE  s \in Overwritten
    BY DEF TerminateStopsTracked
  <2>1. Tracked = {}
    BY DEF IInv, Termination
  <2>2. microservices[Name(s)] # s
    BY <2>1, ServiceFacts DEF Tracked
  <2>3. QED
    BY <2>2 DEF IInv, Started
<1>2. QED
  BY <1>1, Invariance, PTL
==============================================================================
