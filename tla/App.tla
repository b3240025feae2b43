--------------------------------- MODULE App --------------------------------
(***************************************************************************)
(* The process lifecycle every subcommand shares (pkg/app, cmd/root.go):   *)
(* the main goroutine runs the cobra hooks, AddJob registers background    *)
(* jobs in a name registry and a sync.WaitGroup, a watcher goroutine turns *)
(* a signal or Cancel into a shutdown with a grace period, and a second    *)
(* goroutine waits for the WaitGroup on its behalf.                        *)
(*                                                                         *)
(* One action per step of a goroutine that others can observe; goroutines  *)
(* are scheduled in any order.  No clock: a timer may fire at any moment.  *)
(***************************************************************************)
EXTENDS Naturals, FiniteSets

CONSTANTS
  Components,   \* jobs the command's Start launches with go
  Listeners,    \* those of them that call Cancel when their server fails
  Deaf,         \* those whose server ignores a shutdown before it listens
  Command,      \* the job of the command itself
  Metrics,      \* the job of the metrics server
  Names,        \* job names
  Namings       \* the name of every job, by configuration

Jobs == Components \cup {Command, Metrics}

ASSUME ConstantsAssumption ==
  /\ IsFiniteSet(Components)
  /\ Listeners \subseteq Components
  /\ Deaf \subseteq Listeners
  /\ Command \notin Components /\ Metrics \notin Components /\ Command # Metrics
  /\ Namings \subseteq [Jobs -> Names]

VARIABLES
  main,         \* where the main goroutine is
  watcher,      \* where the goroutine of Init is
  wait,         \* wait[w]: the WaitGroup.Wait call of goroutine w
  job,          \* job[j]: where job j is
  jobName,      \* jobName[j]: the name job j gives to AddJob
  registered,   \* the sync.Map Jobs
  wg,           \* counter of the WaitGroup
  signal,       \* "sent" once SIGINT or SIGTERM arrived
  context,      \* "live", or "cancelled" after cancelCtx
  awaited,      \* jobs that were counted when the command's Run returned
  ending        \* how the process ended, or "none"

jobVars == <<job, jobName, registered, wg>>
vars    == <<main, watcher, wait, jobVars, signal, context, awaited, ending>>

Waiters    == {"watcher", "main"}
WaitStates == {"off", "ready", "blocked", "woken", "over"}
MainStates == {"init", "metrics", "run", "start", "serving", "failed", "postrun", "waiting"}
JobStates  == {"none", "spawned", "named", "running", "listening", "deaf", "failing",
               "ending", "unnamed", "gone"}
Endings    == {"none", "returned", "stopped", "timeout", "fatal", "panic"}

\* Jobs between wg.Add and wg.Done.
Counted == {j \in Jobs : job[j] \in {"running", "listening", "deaf", "failing", "ending", "unnamed"}}

\* Jobs that hold their name.
Named == {j \in Jobs : job[j] \in {"named", "running", "listening", "deaf", "failing", "ending"}}

Goto(j, state) == job' = [job EXCEPT ![j] = state]

\* Job j moves on and nothing else changes.
Moves(j, state) == /\ Goto(j, state)
                   /\ UNCHANGED <<main, watcher, wait, jobName, registered, wg, signal, context, awaited, ending>>

Init == /\ main = "init"
        /\ watcher = "off"
        /\ wait = [w \in Waiters |-> "off"]
        /\ job = [j \in Jobs |-> "none"]
        /\ jobName \in Namings
        /\ registered = {}
        /\ wg = 0
        /\ signal = "none"
        /\ context = "live"
        /\ awaited = {}
        /\ ending = "none"

---------------------------------------------------------------------------
(* AddJob and onStop *)

\* Variant: the name is stored whether or not it is taken.
Register_Store(j) == /\ job[j] = "spawned"
                     /\ registered' = registered \cup {jobName[j]}
                     /\ Goto(j, "named")
                     /\ UNCHANGED <<main, watcher, wait, jobName, wg, signal, context, awaited, ending>>

\* AddJob, first half: the name must be free, or log.Fatal ends the process.
Register(j) == /\ job[j] = "spawned"
               /\ IF jobName[j] \in registered
                  THEN ending' = "fatal" /\ UNCHANGED <<job, registered>>
                  ELSE /\ registered' = registered \cup {jobName[j]}
                       /\ Goto(j, "named")
                       /\ UNCHANGED ending
               /\ UNCHANGED <<main, watcher, wait, jobName, wg, signal, context, awaited>>

\* Variant: the counter is not raised.
Count_NoAdd(j) == /\ job[j] = "named"
                  /\ Moves(j, "running")

\* AddJob, second half: the job is counted.
Count(j) == /\ job[j] = "named"
            /\ wg' = wg + 1
            /\ Goto(j, "running")
            /\ UNCHANGED <<main, watcher, wait, jobName, registered, signal, context, awaited, ending>>

\* onStop gives the name back ...
Unregister(j) == /\ job[j] = "ending"
                 /\ registered' = registered \ {jobName[j]}
                 /\ Goto(j, "unnamed")
                 /\ UNCHANGED <<main, watcher, wait, jobName, wg, signal, context, awaited, ending>>

\* ... and then counts the job out; at zero every blocked Wait is released.
Done(j) == /\ job[j] = "unnamed"
           /\ wg' = wg - 1
           /\ wait' = [w \in Waiters |-> IF wg = 1 /\ wait[w] = "blocked" THEN "woken" ELSE wait[w]]
           /\ Goto(j, "gone")
           /\ UNCHANGED <<main, watcher, jobName, registered, signal, context, awaited, ending>>

\* WaitGroup.Wait returns at once when nothing is counted.
WaitBegins(w) == /\ wait[w] = "ready"
                 /\ wait' = [wait EXCEPT ![w] = IF wg = 0 THEN "over" ELSE "blocked"]
                 /\ UNCHANGED <<main, watcher, jobVars, signal, context, awaited, ending>>

\* A released Wait panics when the WaitGroup is already in use again.
WaitReturns(w) == /\ wait[w] = "woken"
                  /\ IF wg = 0 THEN wait' = [wait EXCEPT ![w] = "over"] /\ UNCHANGED ending
                     ELSE ending' = "panic" /\ UNCHANGED wait
                  /\ UNCHANGED <<main, watcher, jobVars, signal, context, awaited>>

---------------------------------------------------------------------------
(* The main goroutine *)

\* PersistentPreRun: Init starts the watcher, and the watcher the waiter;
\* the metrics job is registered by the main goroutine unless switched off.
PreRun == /\ main = "init"
          /\ watcher' = "watching"
          /\ wait' = [wait EXCEPT !["watcher"] = "ready"]
          /\ \/ main' = "metrics" /\ Goto(Metrics, "spawned")
             \/ main' = "run" /\ UNCHANGED job
          /\ UNCHANGED <<jobName, registered, wg, signal, context, awaited, ending>>

\* go StartMetrics(AddJob("metrics")): AddJob has returned.
MetricsAdded == /\ main = "metrics"
                /\ job[Metrics] \notin {"spawned", "named"}
                /\ main' = "run"
                /\ UNCHANGED <<watcher, wait, jobVars, signal, context, awaited, ending>>

\* Run begins with AddJob of the command.
RunBegins == /\ main = "run"
             /\ main' = "start"
             /\ Goto(Command, "spawned")
             /\ UNCHANGED <<watcher, wait, jobName, registered, wg, signal, context, awaited, ending>>

\* stup: wrong arguments, or --install, which cancels; no job is added.
RunWithoutJob == /\ main = "run"
                 /\ main' = "postrun"
                 /\ awaited' = Counted
                 /\ context' \in {context, "cancelled"}
                 /\ UNCHANGED <<watcher, wait, jobVars, signal, ending>>

\* Start launches every component, which will call AddJob when scheduled.
StartOk == /\ main = "start"
           /\ job[Command] = "running"
           /\ main' = "serving"
           /\ job' = [j \in Jobs |-> IF j \in Components THEN "spawned" ELSE job[j]]
           /\ UNCHANGED <<watcher, wait, jobName, registered, wg, signal, context, awaited, ending>>

\* list-updater: a directory cannot be made; Start only logs that.
StartNothing == /\ main = "start"
                /\ job[Command] = "running"
                /\ main' = "serving"
                /\ UNCHANGED <<watcher, wait, jobVars, signal, context, awaited, ending>>

\* The config is broken or Start returns an error: Run returns.  Only dns
\* calls Cancel first.
StartFails == /\ main = "start"
              /\ job[Command] = "running"
              /\ main' = "failed"
              /\ Goto(Command, "ending")
              /\ context' \in {context, "cancelled"}
              /\ UNCHANGED <<watcher, wait, jobName, registered, wg, signal, awaited, ending>>

\* Variant: Run returns as soon as everything is launched.
CommandStops_AtOnce == /\ main = "serving"
                       /\ job[Command] = "running"
                       /\ Moves(Command, "ending")

\* <-ctx.Done(), and the deferred onStop follows.
CommandStops == /\ main = "serving"
                /\ context = "cancelled"
                /\ job[Command] = "running"
                /\ Moves(Command, "ending")

RunReturns == /\ main \in {"serving", "failed"}
              /\ job[Command] = "gone"
              /\ main' = "postrun"
              /\ awaited' = Counted
              /\ UNCHANGED <<watcher, wait, jobVars, signal, context, ending>>

\* Variant: PersistentPostRun does not wait for the WaitGroup.
PostRun_NoWait == /\ main = "postrun"
                  /\ main' = "waiting"
                  /\ wait' = [wait EXCEPT !["main"] = "over"]
                  /\ UNCHANGED <<watcher, jobVars, signal, context, awaited, ending>>

\* PersistentPostRun sleeps and calls WG().Wait().
PostRun == /\ main = "postrun"
           /\ main' = "waiting"
           /\ wait' = [wait EXCEPT !["main"] = "ready"]
           /\ UNCHANGED <<watcher, jobVars, signal, context, awaited, ending>>

\* main returns, which ends the process.
MainReturns == /\ main = "waiting"
               /\ wait["main"] = "over"
               /\ ending' = "returned"
               /\ UNCHANGED <<main, watcher, wait, jobVars, signal, context, awaited>>

---------------------------------------------------------------------------
(* The watcher goroutine of Init *)

Signal == /\ watcher # "off"
          /\ signal = "none"
          /\ signal' = "sent"
          /\ UNCHANGED <<main, watcher, wait, jobVars, context, awaited, ending>>

\* The first select: a signal, which cancels, or a Cancel call.
WatcherWakes == /\ watcher = "watching"
                /\ signal = "sent" \/ context = "cancelled"
                /\ watcher' = "draining"
                /\ context' = "cancelled"
                /\ UNCHANGED <<main, wait, jobVars, signal, awaited, ending>>

\* Variant: one select for all channels.
WatcherExits_AnyTime == /\ watcher # "off"
                        /\ wait["watcher"] = "over"
                        /\ ending' = "stopped"
                        /\ UNCHANGED <<main, watcher, wait, jobVars, signal, context, awaited>>

\* The second select: "all jobs stopped", os.Exit(0).
WatcherExits == /\ watcher = "draining"
                /\ wait["watcher"] = "over"
                /\ ending' = "stopped"
                /\ UNCHANGED <<main, watcher, wait, jobVars, signal, context, awaited>>

\* Variant: the grace period has no end while jobs remain.
WatcherTimesOut_Never == /\ watcher = "draining"
                         /\ wg = 0
                         /\ ending' = "timeout"
                         /\ UNCHANGED <<main, watcher, wait, jobVars, signal, context, awaited>>

\* The second select: the grace period is over, os.Exit(1).
WatcherTimesOut == /\ watcher = "draining"
                   /\ ending' = "timeout"
                   /\ UNCHANGED <<main, watcher, wait, jobVars, signal, context, awaited>>

---------------------------------------------------------------------------
(* Jobs *)

Servers == Components \cup {Metrics}

\* The job enters its loop.  The goroutine that calls Shutdown may have done
\* so before: http servers remember that, dns servers do not.
Listen(j) == /\ job[j] = "running"
             /\ \/ Moves(j, "listening")
                \/ j \in Deaf /\ context = "cancelled" /\ Moves(j, "deaf")

\* The loop ends because the context is cancelled.
Stops(j) == /\ job[j] = "listening"
            /\ context = "cancelled"
            /\ Moves(j, "ending")

\* A server cannot listen or breaks; the metrics server just gives up.
Breaks(j) == /\ job[j] \in {"listening", "deaf"}
             /\ \/ j \in Listeners /\ Moves(j, "failing")
                \/ j = Metrics /\ Moves(j, "ending")

\* Variant: the error is only logged.
FailureCancels_Logged(j) == /\ job[j] = "failing"
                            /\ Moves(j, "ending")

\* app.Cancel() of a failed server, before its deferred onStop.
FailureCancels(j) == /\ job[j] = "failing"
                     /\ context' = "cancelled"
                     /\ Goto(j, "ending")
                     /\ UNCHANGED <<main, watcher, wait, jobName, registered, wg, signal, awaited, ending>>

MainStep    == \/ PreRun \/ MetricsAdded \/ RunBegins \/ RunWithoutJob
               \/ StartOk \/ StartNothing \/ StartFails
               \/ CommandStops \/ RunReturns \/ PostRun \/ MainReturns
WatcherStep == WatcherWakes \/ WatcherExits \/ WatcherTimesOut
WaitStep(w) == WaitBegins(w) \/ WaitReturns(w)
AddStep(j)  == Register(j) \/ Count(j)
StopStep(j) == FailureCancels(j) \/ Unregister(j) \/ Done(j)

Terminated == ending # "none" /\ UNCHANGED vars

Next == \/ /\ ending = "none"
           /\ \/ MainStep \/ WatcherStep \/ Signal
              \/ \E w \in Waiters : WaitStep(w)
              \/ \E j \in Jobs : AddStep(j) \/ StopStep(j)
              \/ \E j \in Servers : Listen(j) \/ Stops(j) \/ Breaks(j)
        \/ Terminated

Spec == Init /\ [][Next]_vars

(***************************************************************************)
(* The Go scheduler runs every goroutine that can run.  A job that should  *)
(* stop may take forever (Stops is not fair), a server need not break, and *)
(* a signal need not come.                                                 *)
(***************************************************************************)
Fairness == /\ WF_vars(ending = "none" /\ MainStep)
            /\ WF_vars(ending = "none" /\ WatcherStep)
            /\ \A w \in Waiters : WF_vars(ending = "none" /\ WaitStep(w))
            /\ \A j \in Jobs : /\ WF_vars(ending = "none" /\ AddStep(j))
                               /\ WF_vars(ending = "none" /\ StopStep(j))

FairSpec == Spec /\ Fairness

---------------------------------------------------------------------------
(* Properties *)

TypeOK == /\ main \in MainStates
          /\ watcher \in {"off", "watching", "draining"}
          /\ wait \in [Waiters -> WaitStates]
          /\ job \in [Jobs -> JobStates]
          /\ jobName \in [Jobs -> Names]
          /\ registered \subseteq Names
          /\ wg \in Nat
          /\ signal \in {"none", "sent"}
          /\ context \in {"live", "cancelled"}
          /\ awaited \subseteq Jobs
          /\ ending \in Endings

NothingStarted == \A j \in Components : job[j] = "none"

\* A process whose components run goes on until somebody asks it to stop: the
\* early release of the watcher's Wait alone ends nothing.
NoSpontaneousExit ==
  ending \in {"returned", "stopped", "timeout"} =>
    context = "cancelled" \/ NothingStarted

\* Two jobs never hold one name at a time, and the process dies of a duplicate
\* only when its configuration asks for the same job twice (AddJob).
OneJobPerName ==
  /\ \A i, j \in Named : jobName[i] = jobName[j] => i = j
  /\ ending = "fatal" => \E i, j \in Jobs : i # j /\ jobName[i] = jobName[j]

\* main returns only after every job that was counted when Run returned has
\* stopped (WG().Wait() in PersistentPostRun).
PostRunWaits == ending = "returned" => \A j \in awaited : job[j] = "gone"

\* "Graceful shutdown: wait for the requests in progress": the process does
\* not report "all jobs stopped" and exit while a server still serves.
StoppedMeansStopped == ending = "stopped" => \A j \in Components : job[j] # "listening"

\* "WaitGroup is reused before previous Wait has returned": the panic needs a
\* stop that was requested, or a metrics server that gave up before the
\* command was counted.  A command that serves is never hit by it.
PanicNeedsStop == ending = "panic" => context = "cancelled" \/ job[Metrics] = "gone"

\* Once a stop is requested the process ends, also when a job never does.
StopEnds == (signal = "sent" \/ context = "cancelled") ~> (ending # "none")

\* A server that breaks takes the whole process down, whichever jobs run; so
\* does a command that fails to start, unless metrics are still served.
FailureEnds ==
  /\ \A j \in Listeners : (job[j] = "failing") ~> (ending # "none")
  /\ (main = "failed" /\ job[Metrics] \in {"none", "gone"}) ~> (ending # "none")

---------------------------------------------------------------------------
(* Inductive invariants *)

\* The registry holds the names of the jobs that hold one.
RegistryOK == /\ registered = {jobName[j] : j \in Named}
              /\ OneJobPerName

\* The counter of the WaitGroup counts the running jobs.
CountOK == wg = Cardinality(Counted)

\* main launches a job only once.
LaunchOK == /\ main = "init" => job[Metrics] = "none"
            /\ main \in {"init", "metrics", "run"} => job[Command] = "none"
            /\ main \notin {"serving", "postrun", "waiting"} => NothingStarted

\* How far main and the watcher get without a cancelled context.
CancelOK == /\ watcher = "draining" => context = "cancelled"
            /\ ending \in {"stopped", "timeout"} => context = "cancelled"
            /\ main = "serving" => context = "cancelled" \/ job[Command] = "running"
            /\ main \in {"postrun", "waiting"} => context = "cancelled" \/ NothingStarted
            /\ ending = "returned" => main = "waiting"

\* An awaited job is counted until it is gone; main waits for all of them.
AwaitOK == /\ wait["main"] # "off" => main = "waiting"
           /\ awaited \subseteq Counted \cup {j \in Jobs : job[j] = "gone"}
           /\ wait["main"] \in {"woken", "over"} => \A j \in awaited : job[j] = "gone"
           /\ ending = "returned" => wait["main"] = "over"

\* Before a stop nobody is left to add a job once a Wait was released, unless
\* metrics gave up.
ReuseOK ==
  /\ main \notin {"init", "metrics"} => job[Metrics] \notin {"spawned", "named"}
  /\ main \in {"start", "serving"} /\ context = "live" => job[Command] \in {"spawned", "named", "running"}
  /\ ending = "panic" => context = "cancelled" \/ job[Metrics] = "gone"
  /\ context = "live" /\ (\E w \in Waiters : wait[w] = "woken") =>
       \/ job[Metrics] = "gone"
       \/ /\ main \in {"failed", "postrun", "waiting"}
          /\ job[Command] = "gone"
          /\ job[Metrics] = "none"

AppInv == TypeOK /\ LaunchOK /\ RegistryOK /\ CountOK /\ CancelOK /\ AwaitOK /\ ReuseOK
=============================================================================
