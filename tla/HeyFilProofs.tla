---------------------------- MODULE HeyFilProofs ----------------------------
(***************************************************************************)
(* What the composition of the process keeps: the invariant of the         *)
(* pipeline from the loading of the store on and what rests on it, what    *)
(* the API answers, and what Shutdown leaves behind.                       *)
(***************************************************************************)
EXTENDS HeyFil, CheckPipelineProofs

\* Until the store is loaded no goroutine of the pipeline runs.
Unstarted ==
  /\ ~Reached("exporter") =>
       /\ round = 0 /\ todo = {} /\ toCheck = <<>> /\ checked = <<>>
       /\ hand = [c \in Checkers |-> NoTarget]
       /\ reported = [m \in Miners |-> NoTarget]
  /\ ~Reached("checkers") => started = {}
  /\ Reached("exporter") /\ stage # "dead" => \A m \in files : targets[m] # NoTarget

PInv == ProcessTypeOK /\ IInv /\ Unstarted

\* A step of the process is one of main, one of a client, the loading of a
\* result, or a step of the pipeline.
LEMMA StepsOfProcess ==
  ProcessTypeOK /\ ProcessNext => \/ UNCHANGED vars
                                  \/ \E m \in Miners : LoadTarget(m)
                                  \/ Next
<1>1. ProcessTypeOK /\ Goroutines => Next
  BY DEF ProcessTypeOK, Goroutines, Next, Environment
<1>2. OnSignal => Next
  BY DEF OnSignal, Next, Environment
<1>3. Clients => UNCHANGED vars
  BY DEF Clients, BeginScrape, EndScrape, ListSPs, GetSP, OtherRequest, Answer
<1>4. Shutdown => UNCHANGED vars
  BY DEF Shutdown, ShutdownExporter, CloseServer, AwaitServer
<1>5. Start => UNCHANGED vars \/ \E m \in Miners : LoadTarget(m)
  BY DEF Start, EndLoad, StartExporter, StartServer, StartChecker, StartGoroutine
<1> QED
  BY <1>1, <1>2, <1>3, <1>4, <1>5 DEF ProcessNext, NewHeyFil, Signal, BeginShutdown, Listen

\* What a result loaded from the store is.
LEMMA LoadedTarget ==
  ASSUME NEW m \in Miners
  PROVE  At(m, 0) \in Targets /\ At(m, 0) # NoTarget /\ At(m, 0).id = m /\ At(m, 0).round = 0
<1>1. At(m, 0) = [id |-> m, round |-> 0] /\ At(m, 0) \in Targets
  BY DEF At, Targets
<1> QED  BY <1>1, PipelineAssumption DEF Targets

\* Loading a result keeps the invariant of the pipeline.
LEMMA LoadTargetStep ==
  ASSUME PInv, NEW m \in Miners, LoadTarget(m)
  PROVE  IInv'
<1> USE DEF PInv, IInv
<1>1. /\ round = 0 /\ todo = {} /\ toCheck = <<>> /\ checked = <<>>
      /\ hand = [c \in Checkers |-> NoTarget]
      /\ reported = [n \in Miners |-> NoTarget]
  BY DEF LoadTarget, Unstarted, Reached, Turn
<1>2. /\ targets' = [targets EXCEPT ![m] = At(m, 0)]
      /\ UNCHANGED <<ctxDone, tick, dispatcher, round, todo, toCheck, checker, hand, checked,
                     handler, snapTick, reported, status>>
  BY DEF LoadTarget
<1>3. targets \in [Miners -> Targets \cup {NoTarget}]
  BY DEF TypeOK
<1>4. TypeOK'
  <2>1. targets' \in [Miners -> Targets \cup {NoTarget}]
    BY <1>2, <1>3, LoadedTarget
  <2> QED  BY <1>2, <2>1 DEF TypeOK
<1>5. Stations'
  BY <1>2, <1>3, LoadedTarget DEF Stations
<1>6. Waiting' = {} /\ Range(toCheck)' = {} /\ Held' = {} /\ Range(checked)' = {}
  BY <1>1, <1>2 DEF Waiting, Range, Held
<1>7. \A t \in Published' : t.round <= 0
  <2>1. \A t \in Range(targets) \ {NoTarget} : t.round <= 0
    BY <1>1 DEF Ordered, Everything, Started, Published
  <2>2. Published' = Range(targets') \ {NoTarget}
    BY <1>1, <1>2 DEF Published, Range
  <2>3. Range(targets') \subseteq Range(targets) \cup {At(m, 0)}
    BY <1>2, <1>3 DEF Range
  <2> QED  BY <2>1, <2>2, <2>3, LoadedTarget
<1>8. Ordered'
  BY <1>1, <1>2, <1>6, <1>7 DEF Ordered, Everything, Started, InFlight
<1>9. Exclusive'
  BY <1>1, <1>2, <1>6 DEF Exclusive, InFlight, IsInjective
<1> QED  BY <1>4, <1>5, <1>8, <1>9

\* The invariant of the pipeline is kept by every step of the process.
LEMMA PipelineInvStep == PInv /\ [ProcessNext]_processVars => IInv'
<1> SUFFICES ASSUME PInv, [ProcessNext]_processVars PROVE IInv'  OBVIOUS
<1>1. CASE UNCHANGED vars \/ Next
  BY <1>1, InvStep DEF PInv
<1>2. CASE \E m \in Miners : LoadTarget(m)
  BY <1>2, LoadTargetStep
<1> QED  BY <1>1, <1>2, StepsOfProcess DEF processVars, PInv

\* Every Target in the map or sent to a checker has a status.
LEMMA StatusOfTarget ==
  ASSUME IInv, NEW t \in Everything
  PROVE  t \in [id : Miners, round : 0 .. MaxRounds] /\ status[t] \in Statuses
<1>1. t \in Targets /\ t.round <= round
  BY Members DEF IInv, Ordered, Everything, Started, InFlight
<1>2. t \in [id : Miners, round : 0 .. MaxRounds]
  <2>1. t = [id |-> t.id, round |-> t.round] /\ t.id \in Miners /\ t.round \in Nat
    BY <1>1 DEF Targets
  <2>2. round \in 0 .. MaxRounds /\ MaxRounds \in Nat
    BY PipelineAssumption DEF IInv, TypeOK
  <2> QED  BY <1>1, <2>1, <2>2
<1> QED  BY <1>2 DEF IInv, TypeOK

\* The types of main, the servers and the clients are kept.
LEMMA ProcessTypeStep == PInv /\ [ProcessNext]_processVars => ProcessTypeOK'
<1> SUFFICES ASSUME PInv, [ProcessNext]_processVars PROVE ProcessTypeOK'  OBVIOUS
<1> USE DEF PInv, ProcessTypeOK, main, signals, clients
<1>1. CASE NewHeyFil \/ StartExporter \/ EndLoad \/ StartGoroutine \/ BeginShutdown
  BY <1>1 DEF NewHeyFil, StartExporter, EndLoad, StartGoroutine, BeginShutdown, GoTo, Turn
<1>2. CASE Goroutines \/ \E m \in Miners : LoadTarget(m)
  BY <1>2 DEF Goroutines, LoadTarget, process
<1>3. ASSUME NEW s \in Servers, StartServer(s) \/ Listen(s) \/ CloseServer(s) PROVE ProcessTypeOK'
  BY <1>3 DEF StartServer, Listen, CloseServer, GoTo, Turn
<1>4. ASSUME NEW s \in Servers, AwaitServer(s) PROVE ProcessTypeOK'
  BY <1>4 DEF AwaitServer, GoTo, Turn
<1>5. ASSUME NEW c \in Checkers, StartChecker(c) PROVE ProcessTypeOK'
  BY <1>5 DEF StartChecker
<1>6. CASE Signal \/ OnSignal \/ ShutdownExporter
  BY <1>6 DEF Signal, OnSignal, ShutdownExporter, GoTo, Turn
<1>7. CASE BeginScrape \/ EndScrape \/ OtherRequest
  BY <1>7 DEF BeginScrape, EndScrape, OtherRequest, Serving
<1>8. ASSUME NEW P \in SUBSET Miners, NEW s \in Statuses, NEW n \in BOOLEAN, ListSPs(P, s, n)
      PROVE  ProcessTypeOK'
  BY <1>8 DEF ListSPs, Serving
<1>9. ASSUME NEW m \in Miners, GetSP(m) PROVE ProcessTypeOK'
  <2>1. CASE targets[m] = NoTarget
    BY <1>9, <2>1 DEF GetSP, Serving
  <2>2. CASE targets[m] # NoTarget
    <3>1. targets[m] \in Everything /\ targets[m] \in Targets
      BY <2>2 DEF IInv, TypeOK, Everything, Started, Published, Range
    <3> QED  BY <1>9, <2>2, <3>1, StatusOfTarget DEF GetSP
  <2> QED  BY <2>1, <2>2
<1>10. CASE Answer
  BY <1>10 DEF Answer, Statuses
<1>11. CASE UNCHANGED processVars
  BY <1>11 DEF processVars, process
<1> QED
  BY <1>1, <1>2, <1>3, <1>4, <1>5, <1>6, <1>7, <1>8, <1>9, <1>10, <1>11
  DEF ProcessNext, Start, Shutdown, Clients

\* A step of main goes on, or ends the process.
LEMMA StageAdvances ==
  ASSUME ProcessTypeOK, ProcessNext
  PROVE  \/ UNCHANGED stage
         \/ Turn[stage'] = Turn[stage] + 1
         \/ stage' = "dead"
<1> USE DEF main, GoTo, Turn
<1>1. CASE Start
  BY <1>1 DEF Start, LoadTarget, process, EndLoad, StartExporter, StartServer, StartChecker,
              StartGoroutine
<1>2. CASE Shutdown
  BY <1>2 DEF Shutdown, ShutdownExporter, CloseServer, AwaitServer
<1>3. CASE Clients
  BY <1>3 DEF Clients, BeginScrape, EndScrape, ListSPs, GetSP, OtherRequest, Answer
<1> QED
  BY <1>1, <1>2, <1>3
  DEF ProcessNext, NewHeyFil, Signal, OnSignal, BeginShutdown, Listen, Goroutines, process

\* No entry of the map is removed.
LEMMA TargetsStay ==
  ASSUME PInv, [ProcessNext]_processVars, NEW m \in Miners, targets[m] # NoTarget
  PROVE  targets'[m] # NoTarget
<1> USE DEF PInv, IInv
<1>1. targets \in [Miners -> Targets \cup {NoTarget}]
  BY DEF TypeOK
<1>2. CASE UNCHANGED targets
  BY <1>2
<1>3. CASE Record
  <2>1. Head(checked) \in Targets /\ targets' = [targets EXCEPT ![Head(checked).id] = Head(checked)]
    BY <1>3, ReceiveElements DEF Record, TypeOK
  <2>2. Head(checked) # NoTarget
    BY <2>1, PipelineAssumption DEF Targets
  <2> QED  BY <1>1, <2>1, <2>2
<1>4. ASSUME NEW n \in Miners, LoadTarget(n) PROVE targets'[m] # NoTarget
  BY <1>1, <1>4, LoadedTarget DEF LoadTarget
<1>5. Next => Record \/ UNCHANGED targets
  BY DEF Next, Dispatcher, ListMiners, ListFails, Enqueue, AbortDispatch, OnCheckTick,
         StopDispatcher, Checker, Take, FinishCheck, Send, StopChecker, Handler, Snapshot,
         StopHandler, Environment, CheckTick, SnapshotTick, Cancel
<1> QED
  BY <1>2, <1>3, <1>4, <1>5, StepsOfProcess DEF processVars, vars

\* No step of the process changes what the store held when it started.
LEMMA FilesStay == [ProcessNext]_processVars => UNCHANGED files
BY DEF ProcessNext, NewHeyFil, GoTo, Start, LoadTarget, EndLoad, StartExporter, StartServer,
   StartChecker, StartGoroutine, Signal, OnSignal, BeginShutdown, Shutdown, ShutdownExporter,
   CloseServer, AwaitServer, Listen, Clients, BeginScrape, EndScrape, ListSPs, GetSP,
   OtherRequest, Answer, Goroutines, process, main, processVars

\* Before the store is loaded nothing else happens to the pipeline but ticks.
LEMMA StillLoading ==
  ASSUME PInv, [ProcessNext]_processVars, ~Reached("exporter")'
  PROVE  /\ ~Reached("exporter")
         /\ UNCHANGED <<ctxDone, round, todo, toCheck, checker, hand, checked, reported, status>>
<1> USE DEF Reached
<1>1. CASE UNCHANGED processVars
  BY <1>1 DEF processVars, process, main, vars
<1>2. CASE ProcessNext
  <2>1. stage \in DOMAIN Turn /\ stage' \in DOMAIN Turn
    BY ProcessTypeStep DEF PInv, ProcessTypeOK
  <2>2. \/ UNCHANGED stage
        \/ Turn[stage'] = Turn[stage] + 1
        \/ stage' = "dead"
    BY <1>2, StageAdvances DEF PInv
  <2>3. ~Reached("exporter")
    BY <2>1, <2>2 DEF Turn
  <2>4. CASE Goroutines
    <3>1. CheckTick \/ SnapshotTick
      BY <2>3, <2>4 DEF Goroutines, PInv, Unstarted, Turn, ProcessTypeOK
    <3> QED  BY <2>3, <3>1 DEF CheckTick, SnapshotTick
  <2>5. CASE OnSignal
    BY <2>3, <2>5 DEF OnSignal, Turn, PInv, ProcessTypeOK
  <2>6. CASE Clients
    BY <2>3, <2>6 DEF Clients, BeginScrape, EndScrape, ListSPs, GetSP, OtherRequest, Answer, vars
  <2>7. CASE Start \/ Shutdown
    BY <2>3, <2>7 DEF Start, LoadTarget, EndLoad, StartExporter, StartServer, StartChecker,
         StartGoroutine, Shutdown, ShutdownExporter, CloseServer, AwaitServer, vars
  <2> QED
    BY <1>2, <2>3, <2>4, <2>5, <2>6, <2>7
    DEF ProcessNext, NewHeyFil, Signal, BeginShutdown, Listen, vars
<1> QED  BY <1>1, <1>2

\* Nothing but the store is loaded before the first server starts.
LEMMA UnstartedStep == PInv /\ [ProcessNext]_processVars => Unstarted'
<1> SUFFICES ASSUME PInv, [ProcessNext]_processVars PROVE Unstarted'  OBVIOUS
<1> USE DEF Reached
<1>1. CASE UNCHANGED processVars
  BY <1>1 DEF PInv, Unstarted, processVars, process, main, vars
<1>2. CASE ProcessNext
  <2>1. stage \in DOMAIN Turn /\ stage' \in DOMAIN Turn
    BY ProcessTypeStep DEF PInv, ProcessTypeOK
  <2>2. \/ UNCHANGED stage
        \/ Turn[stage'] = Turn[stage] + 1
        \/ stage' = "dead"
    BY <1>2, StageAdvances DEF PInv
  <2>3. ASSUME ~Reached("exporter")'
        PROVE  /\ ~Reached("exporter")
               /\ UNCHANGED <<round, todo, toCheck, checked, hand, reported>>
    <3> HIDE DEF Reached
    <3> QED  BY <2>3, StillLoading
  <2>4. ASSUME ~Reached("checkers")' PROVE started' = {}
    <3>1. ~Reached("checkers")
      BY <2>1, <2>2, <2>4 DEF Turn
    <3>2. UNCHANGED started
      BY <1>2, <3>1 DEF ProcessNext, NewHeyFil, GoTo, Start, LoadTarget, EndLoad, StartExporter,
        StartServer, StartChecker, StartGoroutine, Signal, OnSignal, BeginShutdown, Shutdown,
        ShutdownExporter, CloseServer, AwaitServer, Listen, Clients, BeginScrape, EndScrape,
        ListSPs, GetSP, OtherRequest, Answer, Goroutines, process, main, Turn
    <3> QED  BY <3>1, <3>2 DEF PInv, Unstarted
  <2>5. ASSUME Reached("exporter")', stage' # "dead", NEW m \in files'
        PROVE  targets'[m] # NoTarget
    <3>1. UNCHANGED files
      BY <1>2 DEF ProcessNext, NewHeyFil, GoTo, Start, LoadTarget, EndLoad, StartExporter,
        StartServer, StartChecker, StartGoroutine, Signal, OnSignal, BeginShutdown, Shutdown,
        ShutdownExporter, CloseServer, AwaitServer, Listen, Clients, BeginScrape, EndScrape,
        ListSPs, GetSP, OtherRequest, Answer, Goroutines, process, main
    <3>2. m \in Miners
      BY <3>1, <2>5 DEF PInv, ProcessTypeOK
    <3>3. CASE Reached("exporter") /\ stage # "dead"
      <4>1. targets[m] # NoTarget
        BY <3>1, <3>3 DEF PInv, Unstarted
      <4> QED  BY <3>2, <4>1, TargetsStay
    <3>4. CASE ~Reached("exporter")
      <4>1. EndLoad
        BY <1>2, <2>1, <2>5, <3>4 DEF ProcessNext, NewHeyFil, GoTo, Start, LoadTarget,
          StartExporter, StartServer, StartChecker, StartGoroutine, Signal, OnSignal,
          BeginShutdown, Shutdown, ShutdownExporter, CloseServer, AwaitServer, Listen, Clients,
          BeginScrape, EndScrape, ListSPs, GetSP, OtherRequest, Answer, Goroutines, process,
          main, Turn
      <4> QED  BY <3>1, <3>2, <4>1, TargetsStay DEF EndLoad
    <3>5. CASE stage = "dead"
      BY <2>1, <2>2, <2>5, <3>5 DEF Turn
    <3> QED  BY <3>3, <3>4, <3>5
  <2> QED  BY <2>3, <2>4, <2>5 DEF PInv, Unstarted
<1> QED  BY <1>1, <1>2

\* The process starts like the pipeline, with nothing loaded yet.
LEMMA ProcessAtStart == ProcessInit => AtStart
<1> SUFFICES ASSUME ProcessInit PROVE AtStart  OBVIOUS
<1>1. Idle /\ targets = [m \in Miners |-> NoTarget]
  BY DEF ProcessInit
<1>2. \E stored \in [Miners -> Statuses] : status = Heap(stored)
  BY DEF ProcessInit
<1> QED  BY <1>1, <1>2 DEF AtStart

\* The process keeps the invariant of the pipeline at every moment.
THEOREM ProcessInvariance == ProcessSpec => []PInv
<1>1. ProcessInit => PInv
  <2> SUFFICES ASSUME ProcessInit PROVE PInv  OBVIOUS
  <2>1. IInv
    BY ProcessAtStart, TypesInit, OrderInit DEF IInv
  <2>2. ProcessTypeOK
    BY DEF ProcessInit, ProcessTypeOK, Turn, Servers, Statuses
  <2>3. Unstarted
    BY DEF ProcessInit, Idle, Unstarted, Reached, Turn
  <2> QED  BY <2>1, <2>2, <2>3 DEF PInv
<1>2. PInv /\ [ProcessNext]_processVars => PInv'
  BY ProcessTypeStep, PipelineInvStep, UnstartedStep DEF PInv
<1> QED  BY <1>1, <1>2, PTL DEF ProcessSpec

\* Every variable of the process has its type, for any miners and checkers.
THEOREM ProcessTypeCorrect == ProcessSpec => []ProcessTypeOK
<1>1. PInv => ProcessTypeOK
  BY DEF PInv
<1> QED  BY <1>1, ProcessInvariance, PTL

------------------------------------------------------------------------------
(* The composition runs the pipeline of CheckPipeline.                     *)

\* Once the store is loaded the map is as the pipeline has it.
LEMMA LoadedIsTargets ==
  ASSUME PInv, Reached("exporter"), stage # "dead"
  PROVE  Loaded = targets
<1>1. \A m \in Miners : Loaded[m] = targets[m]
  BY DEF Loaded, PInv, Unstarted
<1>2. targets = [m \in Miners |-> targets[m]]
  BY DEF PInv, IInv, TypeOK
<1> QED  BY <1>1, <1>2 DEF Loaded

\* A step of the pipeline with the map loaded is one with the map as it is.
LEMMA PipelineStep ==
  ASSUME Loaded = targets, Loaded' = targets', Next
  PROVE  Pipeline!Next
<1>1. ASSUME Dispatcher PROVE Pipeline!Dispatcher
  <2>1. ASSUME NEW S \in SUBSET Miners, ListMiners(S) PROVE Pipeline!ListMiners(S)
    BY <2>1 DEF ListMiners, Pipeline!ListMiners
  <2>2. ASSUME NEW m \in Miners, Enqueue(m) PROVE Pipeline!Enqueue(m)
    BY <2>2 DEF Enqueue, Pipeline!Enqueue, newTarget, Pipeline!newTarget, At, Pipeline!At
  <2>3. ListFails => Pipeline!ListFails
    BY DEF ListFails, Pipeline!ListFails
  <2>4. AbortDispatch => Pipeline!AbortDispatch
    BY DEF AbortDispatch, Pipeline!AbortDispatch
  <2>5. OnCheckTick => Pipeline!OnCheckTick
    BY DEF OnCheckTick, Pipeline!OnCheckTick
  <2>6. StopDispatcher => Pipeline!StopDispatcher
    BY DEF StopDispatcher, Pipeline!StopDispatcher
  <2> QED
    BY <1>1, <2>1, <2>2, <2>3, <2>4, <2>5, <2>6 DEF Dispatcher, Pipeline!Dispatcher
<1>2. ASSUME NEW c \in Checkers, Checker(c) PROVE Pipeline!Checker(c)
  <2>1. Take(c) => Pipeline!Take(c)
    BY DEF Take, Pipeline!Take
  <2>2. FinishCheck(c) => Pipeline!FinishCheck(c)
    BY DEF FinishCheck, Pipeline!FinishCheck, MayEnd, Pipeline!MayEnd, Statuses, Pipeline!Statuses
  <2>3. Send(c) => Pipeline!Send(c)
    BY DEF Send, Pipeline!Send
  <2>4. StopChecker(c) => Pipeline!StopChecker(c)
    BY DEF StopChecker, Pipeline!StopChecker
  <2> QED  BY <1>2, <2>1, <2>2, <2>3, <2>4 DEF Checker, Pipeline!Checker
<1>3. ASSUME Handler PROVE Pipeline!Handler
  <2>1. Record => Pipeline!Record
    BY DEF Record, Pipeline!Record
  <2>2. Snapshot => Pipeline!Snapshot
    BY DEF Snapshot, Pipeline!Snapshot
  <2>3. StopHandler => Pipeline!StopHandler
    BY DEF StopHandler, Pipeline!StopHandler
  <2> QED  BY <1>3, <2>1, <2>2, <2>3 DEF Handler, Pipeline!Handler
<1>4. ASSUME Environment PROVE Pipeline!Environment
  BY <1>4 DEF Environment, Pipeline!Environment, CheckTick, Pipeline!CheckTick, SnapshotTick,
              Pipeline!SnapshotTick, Cancel, Pipeline!Cancel
<1> QED  BY <1>1, <1>2, <1>3, <1>4 DEF Next, Pipeline!Next

\* Every step of the process is one of the pipeline with the store loaded, or
\* is not seen there.
LEMMA ProcessStep == PInv /\ [ProcessNext]_processVars => [Pipeline!Next]_(Pipeline!vars)
<1> SUFFICES ASSUME PInv, [ProcessNext]_processVars PROVE [Pipeline!Next]_(Pipeline!vars)
  OBVIOUS
<1>1. UNCHANGED files
  BY DEF ProcessNext, NewHeyFil, GoTo, Start, LoadTarget, EndLoad, StartExporter, StartServer,
    StartChecker, StartGoroutine, Signal, OnSignal, BeginShutdown, Shutdown, ShutdownExporter,
    CloseServer, AwaitServer, Listen, Clients, BeginScrape, EndScrape, ListSPs, GetSP,
    OtherRequest, Answer, Goroutines, process, main, processVars
<1>2. CASE UNCHANGED vars
  <2>1. UNCHANGED Loaded
    BY <1>1, <1>2 DEF Loaded, At, vars
  <2> QED  BY <1>2, <2>1 DEF vars, Pipeline!vars
<1>3. ASSUME NEW m \in Miners, LoadTarget(m) PROVE UNCHANGED Pipeline!vars
  <2>1. targets' = [targets EXCEPT ![m] = At(m, 0)] /\ targets[m] = NoTarget /\ m \in files
    BY <1>3 DEF LoadTarget
  <2>2. \A n \in Miners : Loaded'[n] = Loaded[n]
    BY <1>1, <2>1, LoadedTarget DEF Loaded, At, PInv, IInv, TypeOK
  <2>3. UNCHANGED Loaded
    BY <2>2 DEF Loaded
  <2> QED  BY <1>3, <2>3 DEF LoadTarget, Pipeline!vars
<1>4. CASE OnSignal
  <2>1. UNCHANGED Loaded
    BY <1>1, <1>4 DEF Loaded, At, OnSignal, Cancel
  <2> QED  BY <1>4, <2>1 DEF OnSignal, Cancel, Pipeline!Next, Pipeline!Environment, Pipeline!Cancel
<1>5. CASE Goroutines
  <2>1. CASE CheckTick \/ SnapshotTick
    <3>1. UNCHANGED Loaded
      BY <1>1, <2>1 DEF Loaded, At, CheckTick, SnapshotTick
    <3> QED
      BY <2>1, <3>1 DEF CheckTick, SnapshotTick, Pipeline!Next, Pipeline!Environment,
                        Pipeline!CheckTick, Pipeline!SnapshotTick
  <2>2. CASE ~(CheckTick \/ SnapshotTick)
    <3>1. Reached("exporter") /\ stage # "dead" /\ UNCHANGED stage
      BY <1>5, <2>2 DEF Goroutines, Alive, Reached, Turn, PInv, ProcessTypeOK, Unstarted, process,
                        main
    <3>2. PInv'
      BY ProcessTypeStep, PipelineInvStep, UnstartedStep DEF PInv
    <3>3. Loaded = targets /\ Loaded' = targets'
      <4>1. Loaded = targets
        BY <3>1, LoadedIsTargets
      <4>2. \A m \in Miners : Loaded'[m] = targets'[m]
        BY <3>1, <3>2 DEF Loaded, PInv, Unstarted, Reached, Turn
      <4>3. targets' = [m \in Miners |-> targets'[m]]
        BY <3>2 DEF PInv, IInv, TypeOK
      <4> QED  BY <4>1, <4>2, <4>3 DEF Loaded
    <3>4. Next
      BY <1>5, StepsOfProcess DEF PInv, ProcessTypeOK, Goroutines, Next, Environment
    <3> QED  BY <3>3, <3>4, PipelineStep
  <2> QED  BY <2>1, <2>2
<1> QED
  <2>1. Clients => UNCHANGED vars
    BY DEF Clients, BeginScrape, EndScrape, ListSPs, GetSP, OtherRequest, Answer
  <2>2. Shutdown => UNCHANGED vars
    BY DEF Shutdown, ShutdownExporter, CloseServer, AwaitServer
  <2>3. Start => UNCHANGED vars \/ \E m \in Miners : LoadTarget(m)
    BY DEF Start, EndLoad, StartExporter, StartServer, StartChecker, StartGoroutine
  <2>4. UNCHANGED processVars => UNCHANGED vars
    BY DEF processVars
  <2> QED
    BY <1>2, <1>3, <1>4, <1>5, <2>1, <2>2, <2>3, <2>4
    DEF ProcessNext, NewHeyFil, Signal, BeginShutdown, Listen

\* The process implements the pipeline: main, the servers and their clients
\* add no step to it, and none of its goroutines runs before the store is
\* loaded.
THEOREM ProcessRunsPipeline == ProcessSpec => PipelineSpec
<1>1. ProcessInit => Pipeline!Init
  <2> SUFFICES ASSUME ProcessInit PROVE Pipeline!Init  OBVIOUS
  <2>1. PICK stored \in [Miners -> Statuses] : /\ files = {m \in Miners : stored[m] # "unknown"}
                                               /\ status = Heap(stored)
    BY DEF ProcessInit
  <2>2. Loaded = [m \in Miners |-> IF stored[m] = "unknown" THEN NoTarget ELSE At(m, 0)]
    BY <2>1 DEF ProcessInit, Loaded
  <2>3. Pipeline!Idle
    BY DEF ProcessInit, Idle, Pipeline!Idle
  <2> QED
    BY <2>1, <2>2, <2>3 DEF Pipeline!Init, At, Pipeline!At, Heap, Pipeline!Heap, Statuses,
       Pipeline!Statuses
<1> QED  BY <1>1, ProcessStep, ProcessInvariance, PTL DEF ProcessSpec, PipelineSpec, Pipeline!Spec

------------------------------------------------------------------------------
(* What the pipeline promises, in the process: its results are loaded one  *)
(* by one, and the other steps of the process are not steps of it.         *)

\* A loaded result finds the stations of the pipeline empty.
LEMMA LoadFindsNothing ==
  ASSUME PInv, NEW m \in Miners, LoadTarget(m)
  PROVE  /\ ~Reached("exporter") /\ targets[m] = NoTarget
         /\ targets' = [targets EXCEPT ![m] = At(m, 0)]
         /\ UNCHANGED <<ctxDone, checker, hand, checked, status>>
         /\ checked = <<>> /\ Held = {} /\ InFlight = {}
<1>1. ~Reached("exporter") /\ targets[m] = NoTarget
  BY DEF LoadTarget, Reached, Turn
<1>2. checked = <<>> /\ hand = [c \in Checkers |-> NoTarget]
  BY <1>1 DEF PInv, Unstarted
<1>3. Held = {} /\ InFlight = {}
  BY <1>2 DEF Held, InFlight, Range
<1> QED  BY <1>1, <1>2, <1>3 DEF LoadTarget

\* No two goroutines of the process own the same Target, none that a client
\* reads goes through a check again, and none older is yet to be checked.
THEOREM ProcessOwnsTargets == ProcessSpec => [](SingleOwner /\ PublishedIsFinal /\ NoOlderWaiting)
<1>1. PInv => IInv
  BY DEF PInv
<1> QED  BY <1>1, InvOwner, InvFinal, InvNewer, ProcessInvariance, PTL

\* Until the store is loaded no check has begun, and what is loaded of it has a
\* verdict.
Stored ==
  ~Reached("exporter") => Unchecked = {} /\ \A m \in files : status[At(m, 0)] # "unknown"

\* Every step of the process keeps what the store holds and the verdicts.
LEMMA ProcessVerdictsStep ==
  PInv /\ Stored /\ Verdicts /\ [ProcessNext]_processVars => Stored' /\ Verdicts'
<1> SUFFICES ASSUME PInv, Stored, Verdicts, [ProcessNext]_processVars
             PROVE  Stored' /\ Verdicts'
  OBVIOUS
<1>1. Stored'
  <2> SUFFICES ASSUME ~Reached("exporter")'
               PROVE  Unchecked' = {} /\ \A m \in files' : status'[At(m, 0)] # "unknown"
    BY DEF Stored, At
  <2>1. /\ ~Reached("exporter")
        /\ UNCHANGED <<ctxDone, round, todo, toCheck, checker, hand, checked, reported, status>>
    BY StillLoading
  <2>2. Unchecked' = Unchecked
    BY <2>1 DEF Unchecked, Waiting, newTarget, At, Range
  <2> QED  BY <2>1, <2>2, FilesStay DEF Stored, At
<1>2. CASE UNCHANGED vars \/ Next
  BY <1>1, <1>2, VerdictsStep DEF PInv
<1>3. ASSUME NEW m \in Miners, LoadTarget(m) PROVE Verdicts'
  <2>1. /\ targets' = [targets EXCEPT ![m] = At(m, 0)]
        /\ UNCHANGED <<round, todo, toCheck, checker, hand, checked, reported, status>>
        /\ status[At(m, 0)] # "unknown"
    BY <1>3, LoadFindsNothing DEF Stored, LoadTarget
  <2>2. Done' \subseteq Done \cup {At(m, 0)}
    BY <2>1 DEF Done, Published, Range, PInv, IInv, TypeOK
  <2>3. Unchecked' = Unchecked
    BY <2>1 DEF Unchecked, Waiting, newTarget, At, Range
  <2> QED  BY <2>1, <2>2, <2>3 DEF Verdicts
<1> QED  BY <1>1, <1>2, <1>3, StepsOfProcess DEF processVars, PInv

\* What the store holds when the process starts, and no check is over.
LEMMA ProcessVerdictsInit == ProcessInit => Stored /\ Verdicts
<1> SUFFICES ASSUME ProcessInit PROVE Stored
  BY ProcessAtStart, VerdictsInit
<1> USE PipelineAssumption
<1>1. PICK stored \in [Miners -> Statuses] : /\ files = {m \in Miners : stored[m] # "unknown"}
                                             /\ status = Heap(stored)
  BY DEF ProcessInit
<1>2. \A m \in Miners : At(m, 0) \in [id : Miners, round : 0 .. MaxRounds] /\ At(m, 0).id = m
                        /\ At(m, 0).round = 0
  BY DEF At
<1>3. Unchecked = {}
  BY DEF ProcessInit, Idle, Unchecked, Waiting, Range
<1> QED  BY <1>1, <1>2, <1>3 DEF Stored, Heap

\* In the process, too, no Target is checked twice or served without a
\* verdict, from the first file loaded on.
THEOREM ProcessChecksOnce == ProcessSpec => []CheckedOnce
BY ProcessVerdictsInit, ProcessVerdictsStep, InvVerdicts, ProcessInvariance, PTL DEF ProcessSpec

\* Every step of the process keeps the overtaken few.
LEMMA ProcessOvertakingStep == PInv /\ Overtaking /\ [ProcessNext]_processVars => Overtaking'
<1> SUFFICES ASSUME PInv, Overtaking, [ProcessNext]_processVars PROVE Overtaking'  OBVIOUS
<1>1. CASE UNCHANGED vars \/ Next
  BY <1>1, OvertakingStep DEF PInv
<1>2. ASSUME NEW m \in Miners, LoadTarget(m) PROVE Overtaking'
  <2>1. checked' = <<>> /\ InFlight' = {}
    BY <1>2, LoadFindsNothing DEF InFlight, Held, Range
  <2> QED  BY <2>1 DEF Overtaking, Few, Overtaken
<1> QED  BY <1>1, <1>2, StepsOfProcess DEF processVars, PInv

\* In the process, too, only fewer results than there are checkers can be
\* recorded over a newer one.
THEOREM ProcessOvertakesFew == ProcessSpec => []OvertakenBounded
<1>1. PInv => IInv
  BY DEF PInv
<1>2. ProcessInit => Overtaking
  BY ProcessAtStart, OvertakingInit
<1> QED
  BY <1>1, <1>2, ProcessOvertakingStep, InvOvertaken, ProcessInvariance, PTL DEF ProcessSpec

\* With one checker every step of the process keeps the order, and goes
\* forward.
LEMMA ProcessSequentialStep ==
  ASSUME PInv, Sequential, Cardinality(Checkers) = 1, [ProcessNext]_processVars
  PROVE  /\ Sequential'
         /\ \A m \in Miners : targets[m] # NoTarget => targets'[m].round >= targets[m].round
<1>1. CASE [Next]_vars
  BY <1>1, OneChecker, SequentialStep, ForwardStep DEF PInv
<1>2. ASSUME NEW n \in Miners, LoadTarget(n)
      PROVE  /\ Sequential'
             /\ \A m \in Miners : targets[m] # NoTarget => targets'[m].round >= targets[m].round
  <2>1. targets[n] = NoTarget /\ targets' = [targets EXCEPT ![n] = At(n, 0)]
    BY <1>2, LoadFindsNothing
  <2>2. checked' = <<>> /\ Held' = {} /\ InFlight' = {} /\ Range(checked') = {}
    BY <1>2, LoadFindsNothing DEF InFlight, Held, Range
  <2>3. ASSUME NEW m \in Miners, targets[m] # NoTarget
        PROVE  targets'[m].round >= targets[m].round
    BY <2>1, <2>3 DEF PInv, IInv, TypeOK, Targets
  <2> QED  BY <2>2, <2>3 DEF Sequential
<1> QED  BY <1>1, <1>2, StepsOfProcess DEF processVars, PInv

\* With one checker the process never serves an older result of a miner after
\* a newer one, the stored one included.
THEOREM ProcessServesInOrder == ProcessSpec => InOrder
<1> DEFINE One == Cardinality(Checkers) = 1
           Inv == One => Sequential
           Forward == One => \A m \in Miners : targets[m] # NoTarget =>
                        targets'[m].round >= targets[m].round
<1>1. ProcessInit => Inv
  BY ProcessAtStart, SequentialInit
<1>2. PInv /\ Inv /\ [ProcessNext]_processVars => Inv'
  BY ProcessSequentialStep
<1>3. PInv /\ Inv /\ [ProcessNext]_processVars => [Forward]_targets
  BY ProcessSequentialStep
<1>4. ProcessSpec => [][Forward]_targets
  <2> HIDE DEF Inv, Forward
  <2> QED
    BY <1>1, <1>2, <1>3, ProcessInvariance, PTL DEF ProcessSpec
<1> QED  BY <1>4 DEF InOrder

------------------------------------------------------------------------------
(* What clients are told.                                                  *)

\* A miner that was listed is found from then on.
THEOREM ListedMinersAreFound == ProcessSpec => []ListedIsFound
<1>1. ProcessInit => ListedIsFound
  BY DEF ProcessInit, ListedIsFound
<1>2. PInv /\ ListedIsFound /\ [ProcessNext]_processVars => ListedIsFound'
  <2> SUFFICES ASSUME PInv, ListedIsFound, [ProcessNext]_processVars, NEW m \in listed'
               PROVE  targets'[m] # NoTarget
    BY DEF ListedIsFound
  <2>1. CASE m \in listed
    BY <2>1, TargetsStay DEF PInv, ProcessTypeOK, ListedIsFound
  <2>2. CASE m \notin listed
    <3>1. PICK P \in SUBSET Miners, s \in Statuses, n \in BOOLEAN : ListSPs(P, s, n)
      BY <2>2 DEF ProcessNext, NewHeyFil, GoTo, Start, LoadTarget, EndLoad, StartExporter,
        StartServer, StartChecker, StartGoroutine, Signal, OnSignal, BeginShutdown, Shutdown,
        ShutdownExporter, CloseServer, AwaitServer, Listen, Clients, BeginScrape, EndScrape,
        GetSP, OtherRequest, Answer, Goroutines, process, clients, processVars
    <3> QED  BY <2>2, <3>1 DEF ListSPs, vars
  <2> QED  BY <2>1, <2>2
<1> QED  BY <1>1, <1>2, ProcessInvariance, PTL DEF ProcessSpec

\* The Target that is being encoded is done, and its status was read.
Encoding ==
  request = "get" => /\ got \in Targets /\ got.round <= round
                     /\ got \notin Outstanding
                     /\ status[got] = read

\* No step of the pipeline writes to a Target that is not outstanding, or
\* makes one outstanding that is not new.
LEMMA DoneStaysDone ==
  ASSUME IInv, [Next]_vars, NEW t \in Targets, t.round <= round, t \notin Outstanding
  PROVE  t \notin Outstanding' /\ status'[t] = status[t] /\ t.round <= round'
<1>1. round \in Nat /\ t.round \in Nat
  BY Members DEF IInv
<1>2. [Ledger!Next]_(Ledger!vars)
  BY LedgerStep
<1>3. t \notin Outstanding' /\ t.round <= round'
  <2>1. CASE \E S \in SUBSET Miners : Ledger!Dispatch(S)
    BY <1>1, <2>1 DEF Ledger!Dispatch, Ledger!Check
  <2>2. CASE \E j \in Outstanding : Ledger!Record(j)
    BY <2>2 DEF Ledger!Record
  <2>3. CASE \E J \in SUBSET Outstanding : Ledger!Abandon(J)
    BY <2>3 DEF Ledger!Abandon
  <2>4. CASE Ledger!Cancel \/ UNCHANGED Ledger!vars
    BY <2>4 DEF Ledger!Cancel, Ledger!vars
  <2> QED  BY <1>2, <2>1, <2>2, <2>3, <2>4 DEF Ledger!Next
<1>4. status'[t] = status[t]
  <2>1. ASSUME NEW c \in Checkers, FinishCheck(c) PROVE status'[t] = status[t]
    <3>1. hand[c] \in Held
      BY <2>1 DEF FinishCheck, MayEnd, IInv, Stations, Held
    <3>2. hand[c] # t
      BY <3>1 DEF Outstanding, InFlight
    <3> QED  BY <2>1, <3>2 DEF FinishCheck
  <2>2. CASE UNCHANGED status
    BY <2>2
  <2>3. (\E c \in Checkers : FinishCheck(c)) \/ UNCHANGED status
    BY DEF Next, Dispatcher, ListMiners, ListFails, Enqueue, AbortDispatch, OnCheckTick,
      StopDispatcher, Checker, Take, Send, StopChecker, Handler, Record, Snapshot, StopHandler,
      Environment, CheckTick, SnapshotTick, Cancel, vars
  <2> QED  BY <2>1, <2>2, <2>3
<1> QED  BY <1>3, <1>4

\* Every step keeps the Target that is being encoded as it was read.
LEMMA EncodingStep == PInv /\ Encoding /\ [ProcessNext]_processVars => Encoding'
<1> SUFFICES ASSUME PInv, Encoding, [ProcessNext]_processVars, request' = "get"
             PROVE  Encoding'
  BY DEF Encoding
<1>1. CASE UNCHANGED <<request, got, read>>
  <2>1. UNCHANGED vars \/ Next \/ \E m \in Miners : LoadTarget(m)
    BY StepsOfProcess DEF PInv, processVars
  <2>2. CASE [Next]_vars
    BY <1>1, <2>2, DoneStaysDone DEF Encoding, PInv
  <2>3. ASSUME NEW m \in Miners, LoadTarget(m) PROVE Encoding'
    <3>1. UNCHANGED Outstanding
      BY <2>3 DEF LoadTarget, Outstanding, Waiting, newTarget, At, Range, InFlight, Held
    <3> QED  BY <1>1, <2>3, <3>1 DEF LoadTarget, Encoding
  <2> QED  BY <2>1, <2>2, <2>3
<1>2. ASSUME NEW m \in Miners, GetSP(m) PROVE Encoding'
  <2>1. targets[m] # NoTarget /\ got' = targets[m] /\ read' = status[targets[m]] /\ UNCHANGED vars
    BY <1>2 DEF GetSP
  <2>2. targets[m] \in Targets /\ targets[m] \in Published
    BY <2>1 DEF PInv, IInv, TypeOK, Published, Range
  <2>3. targets[m].round <= round
    BY <2>2 DEF PInv, IInv, Ordered, Everything, Started
  <2>4. targets[m] \notin Outstanding
    BY <2>2, QueuedIsNew, WaitingIsNew DEF PInv, IInv, Exclusive, Outstanding, Started
  <2>5. UNCHANGED Outstanding
    BY <2>1 DEF vars, Outstanding, Waiting, newTarget, At, Range, InFlight, Held
  <2> QED  BY <2>1, <2>2, <2>3, <2>4, <2>5 DEF Encoding, vars
<1> QED
  BY <1>1, <1>2 DEF ProcessNext, NewHeyFil, GoTo, Start, LoadTarget, EndLoad, StartExporter,
    StartServer, StartChecker, StartGoroutine, Signal, OnSignal, BeginShutdown, Shutdown,
    ShutdownExporter, CloseServer, AwaitServer, Listen, Clients, BeginScrape, EndScrape,
    ListSPs, OtherRequest, Answer, Goroutines, process, clients, processVars

\* What the API reads of a Target after it has released the lock is of one
\* whole check.
THEOREM AnswersAreOfOneCheck == ProcessSpec => []AnswerIsOfOneCheck
<1>1. ProcessInit => Encoding
  BY DEF ProcessInit, Encoding
<1>2. Encoding => AnswerIsOfOneCheck
  BY DEF Encoding, AnswerIsOfOneCheck
<1> QED  BY <1>1, <1>2, EncodingStep, ProcessInvariance, PTL DEF ProcessSpec

\* What the API answers of a Target is a verdict, never the blank of one that
\* is yet to be checked.
AnswerIsVerdict == request = "get" => read # "unknown"

\* What the API writes of a Target is the verdict its only check gave it,
\* whatever the pipeline does while it is written.
THEOREM AnswersAreVerdicts == ProcessSpec => []AnswerIsVerdict
<1>1. ProcessInit => AnswerIsVerdict
  BY DEF ProcessInit, AnswerIsVerdict
<1>2. PInv /\ Verdicts /\ AnswerIsVerdict /\ [ProcessNext]_processVars => AnswerIsVerdict'
  <2> SUFFICES ASSUME PInv, Verdicts, AnswerIsVerdict, [ProcessNext]_processVars, request' = "get"
               PROVE  read' # "unknown"
    BY DEF AnswerIsVerdict
  <2>1. CASE UNCHANGED <<request, read>>
    BY <2>1 DEF AnswerIsVerdict
  <2>2. ASSUME NEW m \in Miners, GetSP(m) PROVE read' # "unknown"
    <3>1. targets[m] # NoTarget /\ read' = status[targets[m]]
      BY <2>2 DEF GetSP
    <3>2. targets[m] \in Done
      BY <3>1 DEF Done, Published, Range, PInv, IInv, TypeOK
    <3> QED  BY <3>1, <3>2 DEF Verdicts
  <2> QED
    BY <2>1, <2>2 DEF ProcessNext, NewHeyFil, GoTo, Start, LoadTarget, EndLoad, StartExporter,
      StartServer, StartChecker, StartGoroutine, Signal, OnSignal, BeginShutdown, Shutdown,
      ShutdownExporter, CloseServer, AwaitServer, Listen, Clients, BeginScrape, EndScrape,
      ListSPs, OtherRequest, Answer, Goroutines, process, clients, processVars
<1> QED
  BY <1>1, <1>2, ProcessVerdictsInit, ProcessVerdictsStep, ProcessInvariance, PTL DEF ProcessSpec

------------------------------------------------------------------------------
(* What Shutdown leaves behind.                                            *)

\* A server that Shutdown has passed is closed and has no request.
Passed ==
  /\ stage \in {"stopApi", "ended"} => server["metrics"] = "closed" /\ ~Busy("metrics")
  /\ stage = "ended" => server["api"] = "closed" /\ ~Busy("api")

\* When main ends no server listens and no request is cut off.
THEOREM ShutdownIsComplete == ProcessSpec => []ShutdownClosesAll
<1>1. ProcessInit => Passed
  BY DEF ProcessInit, Passed
<1>2. ProcessTypeOK /\ Passed /\ [ProcessNext]_processVars => Passed'
  <2> SUFFICES ASSUME ProcessTypeOK, Passed, [ProcessNext]_processVars PROVE Passed'  OBVIOUS
  <2> USE DEF Passed, Busy, ProcessTypeOK, main, clients
  <2>1. CASE NewHeyFil \/ Start \/ Signal \/ OnSignal \/ BeginShutdown \/ ShutdownExporter
    BY <2>1 DEF NewHeyFil, GoTo, Start, LoadTarget, process, EndLoad, StartExporter,
      StartServer, StartChecker, StartGoroutine, Signal, OnSignal, BeginShutdown,
      ShutdownExporter, Alive, Reached, Turn
  <2>2. ASSUME NEW s \in Servers, CloseServer(s) \/ AwaitServer(s) PROVE Passed'
    BY <2>2 DEF CloseServer, AwaitServer, GoTo, Servers
  <2>3. CASE Clients \/ (\E s \in Servers : Listen(s)) \/ Goroutines
    BY <2>3 DEF Clients, BeginScrape, EndScrape, ListSPs, GetSP, OtherRequest, Answer, Listen,
      Goroutines, process, Serving, Alive, Reached, Turn, Servers
  <2>4. CASE UNCHANGED processVars
    BY <2>4 DEF processVars, process
  <2> QED  BY <2>1, <2>2, <2>3, <2>4 DEF ProcessNext, Shutdown
<1>3. Passed => ShutdownClosesAll
  BY DEF Passed, ShutdownClosesAll, Servers
<1>4. PInv => ProcessTypeOK
  BY DEF PInv
<1> QED  BY <1>1, <1>2, <1>3, <1>4, ProcessInvariance, PTL DEF ProcessSpec
==============================================================================
