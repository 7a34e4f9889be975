---------------------------- MODULE Orchestrator -----------------------------
(***************************************************************************)
(* The NWDAF main process, cmd/nwdaf/main.go: it starts the Data Archiver, *)
(* the Analytics Engine and one Data Collector for each slice, serves HTTP *)
(* in a goroutine, and on a signal kills and reaps what its microservices  *)
(* map holds.  Registration with the NRF is commented out in main, the     *)
(* deregistration is not.                                                  *)
(*                                                                         *)
(* A service is an operating-system process: it may end at any time (no    *)
(* Redis, a panic) and nothing starts it again.  It outlives the main      *)
(* process unless that kills it.                                           *)
(***************************************************************************)
EXTENDS Integers, FiniteSets

CONSTANTS
  NSlices,  (* number of slices in config.yaml                             *)
  None      (* no process                                                  *)

ASSUME SlicesAssumption ==
  /\ NSlices \in Nat
  /\ None \notin Nat

\* Processes in the order main starts them: 1 is the archiver, 2 the engine,
\* 2 + s the collector of slice s.
Services == 1..NSlices + 2

\* Mutant of Name: the archiver's name is copied to the engine.
NameCopied(s) == IF s \in {1, 2} THEN "darchiver" ELSE "dcollectorslice1"

\* The name startMicroservice is given: the same one for every slice.
Name(s) == IF s = 1 THEN "darchiver"
           ELSE IF s = 2 THEN "analytics_engine" ELSE "dcollectorslice1"
ServiceNames == {"darchiver", "analytics_engine", "dcollectorslice1"}

VARIABLES
  badSlice,       (* the first slice whose entry in config.yaml ends       *)
                  (* StartMonitorSlices, by an invalid core type (os.Exit) *)
                  (* or no AMF address (index panic); 0 if there is none   *)
  pc,             (* main goroutine                                        *)
  next,           (* the service main starts next                          *)
  proc,           (* state of each service's process                       *)
  microservices,  (* the map of running services, by name                  *)
  doomed,         (* terminate: the keys its loop has still to visit       *)
  http,           (* the HTTP goroutine                                    *)
  sigChan,        (* a signal waits in the channel                         *)
  exit            (* why the main process ended, "no" while it runs        *)

vars == <<badSlice, pc, next, proc, microservices, doomed, http, sigChan, exit>>

Tracked == {k \in ServiceNames : microservices[k] # None}

TypeOK ==
  /\ badSlice \in 0..NSlices
  /\ pc \in {"start", "serve", "kill", "wait", "deregister", "end"}
  /\ next \in 1..NSlices + 3
  /\ proc \in [Services -> {"none", "running", "ended", "reaped"}]
  /\ microservices \in [ServiceNames -> Services \cup {None}]
  /\ doomed \in SUBSET ServiceNames
  /\ http \in {"off", "on"}
  /\ sigChan \in BOOLEAN
  /\ exit \in {"no", "terminate", "http", "config"}
  /\ pc = "end" <=> exit # "no"

Init ==
  /\ badSlice \in 0..NSlices
  /\ pc = "start" /\ next = 1
  /\ proc = [s \in Services |-> "none"]
  /\ microservices = [k \in ServiceNames |-> None]
  /\ doomed = {}
  /\ http = "off"
  /\ sigChan = FALSE
  /\ exit = "no"

\* Mutant of Exit: main goes on.
ExitReturns(reason) ==
  /\ exit' = reason
  /\ UNCHANGED <<badSlice, pc, next, proc, microservices, doomed, http, sigChan>>

\* os.Exit, or a panic nobody recovers.
Exit(reason) ==
  /\ pc' = "end"
  /\ exit' = reason
  /\ UNCHANGED <<badSlice, next, proc, microservices, doomed, http, sigChan>>

\* terminate() is entered: its first loop ranges over the whole map.
EnterTerminate ==
  /\ pc' = "kill"
  /\ doomed' = Tracked

(***************************************************************************)
(* main and StartMonitorSlices.                                            *)
(***************************************************************************)

BadSliceNext == badSlice > 0 /\ next = badSlice + 2

\* startMicroservice: cmd.Start() and an entry in the map, which replaces
\* the entry of an earlier service of that name.
StartMicroservice ==
  /\ pc = "start"
  /\ next \in Services
  /\ ~BadSliceNext
  /\ proc' = [proc EXCEPT ![next] = "running"]
  /\ microservices' = [microservices EXCEPT ![Name(next)] = next]
  /\ next' = next + 1
  /\ UNCHANGED <<badSlice, pc, doomed, http, sigChan, exit>>

\* cmd.Start() fails: terminate(SIGTERM), which does not return.
StartFails ==
  /\ pc = "start"
  /\ next \in Services
  /\ ~BadSliceNext
  /\ EnterTerminate
  /\ UNCHANGED <<badSlice, next, proc, microservices, http, sigChan, exit>>

BadSliceExits ==
  /\ pc = "start"
  /\ BadSliceNext
  /\ Exit("config")

StartHTTPServer ==
  /\ pc = "start"
  /\ next \notin Services
  /\ http' = "on"
  /\ pc' = "serve"
  /\ UNCHANGED <<badSlice, next, proc, microservices, doomed, sigChan, exit>>

\* ListenAndServe returns an error: its goroutine calls os.Exit(1), whatever
\* main is doing, and without terminate.
HTTPServerFails ==
  /\ exit = "no"
  /\ http = "on"
  /\ Exit("http")

\* sig := <-sigChan; terminate(sig).  A signal that came during the start
\* has been waiting in the channel.
ReceiveSignal ==
  /\ pc = "serve"
  /\ sigChan
  /\ sigChan' = FALSE
  /\ EnterTerminate
  /\ UNCHANGED <<badSlice, next, proc, microservices, http, exit>>

(***************************************************************************)
(* terminate.                                                              *)
(***************************************************************************)

\* Mutant of KillProcess: the process ignores the signal.
KillIgnored(k) ==
  /\ pc = "kill"
  /\ k \in doomed
  /\ doomed' = doomed \ {k}
  /\ UNCHANGED <<badSlice, pc, next, proc, microservices, http, sigChan, exit>>

\* killProcess(ms, key): SIGKILL.  A process that has ended is a zombie until
\* it is waited for, which the signal does not mind.
KillProcess(k) ==
  /\ pc = "kill"
  /\ k \in doomed
  /\ doomed' = doomed \ {k}
  /\ proc' = [proc EXCEPT ![microservices[k]] = IF @ = "running" THEN "ended" ELSE @]
  /\ UNCHANGED <<badSlice, pc, next, microservices, http, sigChan, exit>>

\* Mutant of AllKilled: waiting starts before the last kill.
AllKilledEarly ==
  /\ pc = "kill"
  /\ pc' = "wait"
  /\ UNCHANGED <<badSlice, next, proc, microservices, doomed, http, sigChan, exit>>

AllKilled ==
  /\ pc = "kill"
  /\ doomed = {}
  /\ pc' = "wait"
  /\ UNCHANGED <<badSlice, next, proc, microservices, doomed, http, sigChan, exit>>

\* cmd.Wait() blocks as long as the process runs.
WaitForMicroservice(k) ==
  /\ pc = "wait"
  /\ k \in Tracked
  /\ proc[microservices[k]] # "running"
  /\ proc' = [proc EXCEPT ![microservices[k]] = "reaped"]
  /\ microservices' = [microservices EXCEPT ![k] = None]
  /\ UNCHANGED <<badSlice, pc, next, doomed, http, sigChan, exit>>

AllWaitedFor ==
  /\ pc = "wait"
  /\ Tracked = {}
  /\ pc' = "deregister"
  /\ UNCHANGED <<badSlice, next, proc, microservices, doomed, http, sigChan, exit>>

\* DeregisterFromNRF on the zero client: the URL has no host, the request
\* fails, and logging the failure panics on a nil Logger.  Had it returned,
\* os.Exit(1) would follow.
DeregisterFromNRF ==
  /\ pc = "deregister"
  /\ Exit("terminate")

Terminate ==
  \/ \E k \in ServiceNames : KillProcess(k) \/ WaitForMicroservice(k)
  \/ AllKilled \/ AllWaitedFor \/ DeregisterFromNRF

(***************************************************************************)
(* The environment.                                                        *)
(***************************************************************************)

\* SIGINT or SIGTERM; the channel holds one, a second one is dropped.
Signal ==
  /\ exit = "no"
  /\ ~sigChan
  /\ sigChan' = TRUE
  /\ UNCHANGED <<badSlice, pc, next, proc, microservices, doomed, http, exit>>

ServiceEnds(s) ==
  /\ proc[s] = "running"
  /\ proc' = [proc EXCEPT ![s] = "ended"]
  /\ UNCHANGED <<badSlice, pc, next, microservices, doomed, http, sigChan, exit>>

Ended == exit # "no" /\ UNCHANGED vars

Main ==
  \/ StartMicroservice \/ StartFails \/ BadSliceExits \/ StartHTTPServer
  \/ ReceiveSignal \/ Terminate

Next ==
  \/ Main
  \/ HTTPServerFails
  \/ Signal
  \/ \E s \in Services : ServiceEnds(s)
  \/ Ended

Safety == Init /\ [][Next]_vars

\* The main goroutine runs whenever it can.
Spec == Safety /\ WF_vars(Main)

-----------------------------------------------------------------------------
(***************************************************************************)
(* Properties.                                                             *)
(***************************************************************************)

\* The services whose entry of the map a later slice has taken.
Overwritten == {s \in Services : s > 2 /\ s + 1 < next}

\* Whatever was started when terminate is entered, by a signal or by a start
\* that fails half way, and whatever dies meanwhile: once main has left
\* terminate the only services that can still run are the collectors that
\* lost their entry to a later slice.
TerminateStopsTracked ==
  exit = "terminate" => \A s \in Services : proc[s] = "running" => s \in Overwritten

\* terminate never waits for a process it has not killed: cmd.Wait() would
\* block the shutdown for as long as that process runs.
WaitFindsKilled ==
  pc = "wait" => \A k \in Tracked : proc[microservices[k]] # "running"

\* A signal ends the main process, also one that arrives while services are
\* still being started.
SignalEnds == sigChan ~> exit # "no"

\* The strengthening that makes the two invariants above inductive.
\* Services are started in order, and a running one has its own entry of the
\* map unless a later slice took it.
Started ==
  \A s \in Services :
    /\ proc[s] = "running" => s < next
    /\ proc[s] = "running" => s \in Overwritten \/ microservices[Name(s)] = s

\* What terminate has done: the keys its first loop visited are of killed
\* processes, and its second loop ends with an empty map.
Termination ==
  /\ pc = "kill" => \A k \in Tracked \ doomed : proc[microservices[k]] # "running"
  /\ (pc = "deregister" \/ exit = "terminate") => Tracked = {}

IInv ==
  /\ TypeOK
  /\ Started
  /\ Termination
  /\ WaitFindsKilled

\* main.go:231-232, terminate "terminates the application and all running
\* microservices".  The code breaks this: every slice's collector is stored
\* under the same name, so with two slices the first is neither killed nor
\* waited for.
TerminateStopsAll ==
  exit = "terminate" => \A s \in Services : proc[s] # "running"
==============================================================================
