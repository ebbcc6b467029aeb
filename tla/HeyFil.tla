------------------------------- MODULE HeyFil -------------------------------
(***************************************************************************)
(* The process: main and heyFil.Start bring the check pipeline and the two *)
(* HTTP servers up, a signal and heyFil.Shutdown take them down, and in    *)
(* between clients of the API read the targets map that the pipeline       *)
(* writes.  The goroutines are those of CheckPipeline; none of them is     *)
(* joined, so that they go on during the shutdown.                         *)
(***************************************************************************)
EXTENDS CheckPipeline

VARIABLES
  stage,     \* where main is
  files,     \* miners whose file in the store decodes
  started,   \* checkers started
  signal,    \* the channel of the signals holds one
  notified,  \* the goroutine that waits for a signal has got one
  server,    \* the state of each server
  scraping,  \* a scrape is under way
  request,   \* what the API handles: "get" is a lookup that found its Target
  got,       \* the Target it looked up
  read,      \* the status it has read from it
  listed     \* history: miners in any answer of /sp

main == <<stage, files, started>>
signals == <<signal, notified>>
clients == <<scraping, request, got, read, listed>>
process == <<main, signals, server, clients>>

Servers == {"metrics", "api"}
Turn == [new |-> 1, loading |-> 2, exporter |-> 3, metricsServer |-> 4, apiServer |-> 5,
         checkers |-> 6, dispatcher |-> 7, handler |-> 8, running |-> 9,
         stopExporter |-> 10, stopMetrics |-> 11, stopApi |-> 12, ended |-> 13, dead |-> 14]
Reached(s) == Turn[stage] >= Turn[s]
Alive == ~Reached("ended")

ProcessInit ==
  /\ Idle
  /\ targets = [m \in Miners |-> NoTarget]
  /\ \E stored \in [Miners -> Statuses] :
       /\ files = {m \in Miners : stored[m] # "unknown"}
       /\ status = Heap(stored)
  /\ stage = "new"
  /\ started = {}
  /\ signal = FALSE /\ notified = FALSE
  /\ server = [s \in Servers |-> "none"]
  /\ scraping = FALSE
  /\ request = "none" /\ got = NoTarget /\ read = "unknown"
  /\ listed = {}

------------------------------------------------------------------------------
(* main and Start.                                                         *)

\* main comes to its next step.
GoTo(s) == stage' = s /\ UNCHANGED <<files, started, signals, clients>>

\* newHeyFil, whose libp2p host may fail: main panics.
NewHeyFil ==
  /\ stage = "new"
  /\ GoTo("loading") \/ GoTo("dead")
  /\ UNCHANGED <<vars, server>>

LoadTarget(m) ==
  /\ stage = "loading"
  /\ m \in files /\ targets[m] = NoTarget
  /\ targets' = [targets EXCEPT ![m] = At(m, 0)]
  /\ UNCHANGED <<ctxDone, tick, dispatcher, round, todo, toCheck, checker, hand, checked,
                 handler, snapTick, reported, status, process>>

\* Faulty: the files are read in the background.
EndLoadEarly ==
  /\ stage = "loading"
  /\ GoTo("exporter")
  /\ UNCHANGED <<vars, server>>

\* Start goes on once the walk over the store has ended.
EndLoad ==
  /\ stage = "loading"
  /\ \A m \in files : targets[m] # NoTarget
  /\ GoTo("exporter")
  /\ UNCHANGED <<vars, server>>

\* metrics.start; no server listens yet when it fails and main panics.
StartExporter ==
  /\ stage = "exporter"
  /\ GoTo("metricsServer") \/ GoTo("dead")
  /\ UNCHANGED <<vars, server>>

\* The goroutine of the server is started; Start does not wait for it.
StartServer(s) ==
  /\ \/ s = "metrics" /\ stage = "metricsServer" /\ GoTo("apiServer")
     \/ s = "api" /\ stage = "apiServer" /\ GoTo("checkers")
  /\ server' = [server EXCEPT ![s] = "starting"]
  /\ UNCHANGED vars

StartChecker(c) ==
  /\ stage = "checkers"
  /\ c \notin started
  /\ started' = started \cup {c}
  /\ UNCHANGED <<vars, stage, files, signals, server, clients>>

\* The go statements of the dispatcher and of the handler; then Start returns
\* and main asks for signals.
StartGoroutine ==
  /\ \/ stage = "checkers" /\ started = Checkers /\ GoTo("dispatcher")
     \/ stage = "dispatcher" /\ GoTo("handler")
     \/ stage = "handler" /\ GoTo("running")
  /\ UNCHANGED <<vars, server>>

Start == \/ \E m \in Miners : LoadTarget(m)
         \/ EndLoad \/ StartExporter
         \/ \E s \in Servers : StartServer(s)
         \/ \E c \in Checkers : StartChecker(c)
         \/ StartGoroutine

------------------------------------------------------------------------------
(* Signals and Shutdown.                                                   *)

\* Before main asks for signals, one ends the process.  The channel holds one;
\* what does not fit is dropped.
Signal ==
  /\ Alive
  /\ IF Reached("running") THEN /\ signal' = TRUE
                                /\ UNCHANGED <<main, notified>>
                           ELSE /\ stage' = "dead"
                                /\ UNCHANGED <<files, started, signals>>
  /\ UNCHANGED <<vars, server, clients>>

\* Faulty: the goroutine ends without cancelling the context.
OnSignalOnly ==
  /\ stage = "running" /\ signal /\ ~notified
  /\ signal' = FALSE /\ notified' = TRUE
  /\ UNCHANGED <<vars, main, server, clients>>

\* The goroutine takes one signal; later ones stay in the channel.
OnSignal ==
  /\ Reached("running") /\ Alive
  /\ signal /\ ~notified
  /\ signal' = FALSE /\ notified' = TRUE
  /\ Cancel
  /\ UNCHANGED <<main, server, clients>>

\* The context is done; Shutdown is deferred.
BeginShutdown ==
  /\ stage = "running" /\ ctxDone
  /\ GoTo("stopExporter")
  /\ UNCHANGED <<vars, server>>

\* Faulty: Shutdown returns at the first error.
ShutdownExporterOrReturn ==
  /\ stage = "stopExporter"
  /\ GoTo("stopMetrics") \/ GoTo("ended")
  /\ UNCHANGED <<vars, server>>

\* The exporter may fail to shut down: Shutdown goes on and main does not look.
ShutdownExporter ==
  /\ stage = "stopExporter"
  /\ GoTo("stopMetrics")
  /\ UNCHANGED <<vars, server>>

Busy(s) == IF s = "api" THEN request # "none" ELSE scraping

\* http.Server.Shutdown: the listener is closed, then requests under way are
\* waited for, without a limit.
CloseServer(s) ==
  /\ stage = IF s = "metrics" THEN "stopMetrics" ELSE "stopApi"
  /\ server[s] # "closed"
  /\ server' = [server EXCEPT ![s] = "closed"]
  /\ UNCHANGED <<vars, main, signals, clients>>

AwaitServer(s) ==
  /\ server[s] = "closed" /\ ~Busy(s)
  /\ \/ s = "metrics" /\ stage = "stopMetrics" /\ GoTo("stopApi")
     \/ s = "api" /\ stage = "stopApi" /\ GoTo("ended")
  /\ UNCHANGED <<vars, server>>

Shutdown == \/ ShutdownExporter
            \/ \E s \in Servers : CloseServer(s) \/ AwaitServer(s)

------------------------------------------------------------------------------
(* The servers and their clients.                                          *)

\* ListenAndServe.  A failure, for example an address in use, is only logged;
\* a server that was shut down before does not listen.
Listen(s) ==
  /\ Alive
  /\ server[s] = "starting"
  /\ \E r \in {"listening", "failed"} : server' = [server EXCEPT ![s] = r]
  /\ UNCHANGED <<vars, main, signals, clients>>

BeginScrape ==
  /\ Alive /\ server["metrics"] = "listening" /\ ~scraping
  /\ scraping' = TRUE
  /\ UNCHANGED <<vars, main, signals, server, request, got, read, listed>>

EndScrape ==
  /\ Alive /\ scraping
  /\ scraping' = FALSE
  /\ UNCHANGED <<vars, main, signals, server, request, got, read, listed>>

Serving == Alive /\ server["api"] = "listening" /\ request = "none"

\* GET /sp, under the read lock.  P are the participants that have the peer
\* ID asked for, all when none is.
ListSPs(P, s, negate) ==
  /\ Serving
  /\ request' = "other"
  /\ listed' = listed \cup {m \in P : /\ targets[m] # NoTarget
                                      /\ (status[targets[m]] = s) # negate}
  /\ UNCHANGED <<vars, main, signals, server, scraping, got, read>>

\* Faulty: a missing entry is answered like any other.
GetSPUnchecked(m) ==
  /\ Serving
  /\ request' = "get" /\ got' = targets[m]
  /\ UNCHANGED <<vars, main, signals, server, scraping, read, listed>>

\* GET /sp/{id}: the lookup under the read lock, and what the encoder reads of
\* the Target after it was released.
GetSP(m) ==
  /\ Serving
  /\ IF targets[m] = NoTarget
     THEN request' = "other" /\ UNCHANGED <<got, read>>
     ELSE request' = "get" /\ got' = targets[m] /\ read' = status[targets[m]]
  /\ UNCHANGED <<vars, main, signals, server, scraping, listed>>

\* Any other request: it is refused, or answered from recentPieces.
OtherRequest ==
  /\ Serving
  /\ request' = "other"
  /\ UNCHANGED <<vars, main, signals, server, scraping, got, read, listed>>

\* The answer is written.
Answer ==
  /\ Alive /\ request # "none"
  /\ request' = "none" /\ got' = NoTarget /\ read' = "unknown"
  /\ UNCHANGED <<vars, main, signals, server, scraping, listed>>

Clients == \/ BeginScrape \/ EndScrape
           \/ \E P \in SUBSET Miners, s \in Statuses, negate \in BOOLEAN : ListSPs(P, s, negate)
           \/ \E m \in Miners : GetSP(m)
           \/ OtherRequest \/ Answer

------------------------------------------------------------------------------
\* The goroutines of the pipeline, from their go statement to the end of main.
Goroutines ==
  /\ Alive
  /\ \/ Reached("handler") /\ Dispatcher
     \/ \E c \in started : Checker(c)
     \/ Reached("running") /\ Handler
     \/ CheckTick \/ SnapshotTick
  /\ UNCHANGED process

ProcessNext == \/ NewHeyFil \/ Start \/ Signal \/ OnSignal \/ BeginShutdown \/ Shutdown
               \/ \E s \in Servers : Listen(s)
               \/ Clients \/ Goroutines

processVars == <<vars, process>>

ProcessSpec == ProcessInit /\ [][ProcessNext]_processVars

\* main and the goroutine of the signals are scheduled, a scrape ends, and a
\* client reads its answer: the servers have no timeout for one that does not.
FairProcessSpec ==
  /\ ProcessSpec
  /\ WF_processVars(OnSignal)
  /\ WF_processVars(BeginShutdown \/ Shutdown)
  /\ WF_processVars(EndScrape)
  /\ WF_processVars(Answer)

------------------------------------------------------------------------------
(* Properties.                                                             *)

\* Every variable has its type; a Target is held exactly while it is encoded.
ProcessTypeOK ==
  /\ stage \in DOMAIN Turn
  /\ files \subseteq Miners /\ started \subseteq Checkers /\ listed \subseteq Miners
  /\ signal \in BOOLEAN /\ notified \in BOOLEAN /\ scraping \in BOOLEAN
  /\ server \in [Servers -> {"none", "starting", "listening", "failed", "closed"}]
  /\ request \in {"none", "get", "other"}
  /\ got \in Targets \cup {NoTarget} /\ (got # NoTarget <=> request = "get")
  /\ read \in Statuses

\* The targets map as it will be once the store is loaded.
Loaded == [m \in Miners |-> IF targets[m] = NoTarget /\ m \in files THEN At(m, 0)
                                                                   ELSE targets[m]]

\* The process runs the pipeline as CheckPipeline has it, from the first
\* result loaded to the last step before main ends: as if all files had been
\* loaded at once, since nothing else runs before they are.
Pipeline == INSTANCE CheckPipeline WITH targets <- Loaded
PipelineSpec == Pipeline!Spec

\* What GET /sp/{id} has read of a Target still holds while it reads on: the
\* answer is of one check, although no lock is held.
AnswerIsOfOneCheck == request = "get" => status[got] = read

\* A miner that was ever listed is found from then on, whatever its later
\* checks say and whether or not the Filecoin API still lists it.
ListedIsFound == \A m \in listed : targets[m] # NoTarget

\* When main ends no server listens and no request is cut off, whether the
\* servers ever listened and whatever failed before.
ShutdownClosesAll == stage = "ended" => \A s \in Servers : server[s] = "closed" /\ ~Busy(s)

\* A signal ends the process.
StopEnds == signal ~> ~Alive
==============================================================================
