------------------------------ MODULE AppProofs -----------------------------
(***************************************************************************)
(* Machine-checked theorems about App: for any set of components, names    *)
(* and configurations, and any schedule of the goroutines.                 *)
(***************************************************************************)
EXTENDS App, FiniteSetTheorems, TLAPS

USE ConstantsAssumption

---------------------------------------------------------------------------
(* The WaitGroup counts jobs *)

\* There are finitely many jobs, so that they can be counted.
LEMMA JobsFinite ==
  IsFiniteSet(Jobs)
<1>1. IsFiniteSet(Components \cup {Command})
  BY FS_AddElement
<1>2. IsFiniteSet((Components \cup {Command}) \cup {Metrics})
  BY <1>1, FS_AddElement
<1>3. Jobs = (Components \cup {Command}) \cup {Metrics}
  BY DEF Jobs
<1> QED
  BY <1>2, <1>3

\* So are the jobs in the WaitGroup, before and after a step.
LEMMA CountedFinite ==
  /\ IsFiniteSet(Counted)
  /\ IsFiniteSet(Counted')
<1>1. Counted \subseteq Jobs /\ Counted' \subseteq Jobs
  BY DEF Counted
<1> QED
  BY <1>1, JobsFinite, FS_Subset

\* A counter at zero means that no job runs.
LEMMA ZeroMeansNone ==
  ASSUME CountOK, wg = 0
  PROVE  Counted = {}
BY CountedFinite, FS_EmptySet DEF CountOK

\* Steps that leave every job on its side of the count.
LEMMA CountKept ==
  ASSUME CountOK, wg' = wg, Counted' = Counted
  PROVE  CountOK'
BY DEF CountOK

\* The counter of the WaitGroup keeps up with the jobs it counts.
LEMMA CountStep ==
  ASSUME TypeOK, LaunchOK, CountOK, [Next]_vars
  PROVE  CountOK'
<1> USE DEF TypeOK, jobVars, vars, Goto, Moves
<1>1. ASSUME NEW j \in Jobs, Register(j)
      PROVE  CountOK'
  <2>1. Counted' = Counted /\ wg' = wg
    BY <1>1 DEF Register, Counted
  <2> QED
    BY <2>1, CountKept
<1>2. ASSUME NEW j \in Jobs, Count(j)
      PROVE  CountOK'
  <2>1. j \notin Counted /\ Counted' = Counted \cup {j}
    BY <1>2 DEF Count, Counted
  <2>2. Cardinality(Counted') = Cardinality(Counted) + 1
    BY <2>1, CountedFinite, FS_AddElement
  <2> QED
    BY <1>2, <2>2 DEF Count, CountOK
<1>3. ASSUME NEW j \in Jobs, Unregister(j)
      PROVE  CountOK'
  <2>1. Counted' = Counted /\ wg' = wg
    BY <1>3 DEF Unregister, Counted
  <2> QED
    BY <2>1, CountKept
<1>4. ASSUME NEW j \in Jobs, Done(j)
      PROVE  CountOK'
  <2>1. j \in Counted /\ Counted' = Counted \ {j}
    BY <1>4 DEF Done, Counted
  <2>2. Cardinality(Counted') = Cardinality(Counted) - 1
    BY <2>1, CountedFinite, FS_RemoveElement
  <2> QED
    BY <1>4, <2>2 DEF Done, CountOK
<1>5. ASSUME NEW j \in Jobs, Listen(j) \/ Stops(j) \/ Breaks(j) \/ FailureCancels(j)
      PROVE  CountOK'
  <2>1. Counted' = Counted /\ wg' = wg
    BY <1>5 DEF Listen, Stops, Breaks, FailureCancels, Counted
  <2> QED
    BY <2>1, CountKept
<1>6. ASSUME NEW w \in Waiters, WaitStep(w)
      PROVE  CountOK'
  <2>1. Counted' = Counted /\ wg' = wg
    BY <1>6 DEF WaitStep, WaitBegins, WaitReturns, Counted
  <2> QED
    BY <2>1, CountKept
<1>7. CASE WatcherStep \/ Signal
  <2>1. Counted' = Counted /\ wg' = wg
    BY <1>7 DEF WatcherStep, WatcherWakes, WatcherExits, WatcherTimesOut, Signal, Counted
  <2> QED
    BY <2>1, CountKept
<1>8. CASE MainStep
  <2> SUFFICES Counted' = Counted /\ wg' = wg
    BY CountKept
  <2> USE DEF Counted
  <2>1. CASE PreRun \/ MetricsAdded \/ RunBegins
    BY <2>1 DEF PreRun, MetricsAdded, RunBegins, LaunchOK
  <2>2. CASE StartOk
    BY <2>2 DEF StartOk, LaunchOK, NothingStarted
  <2> QED
    BY <1>8, <2>1, <2>2 DEF MainStep, RunWithoutJob, StartNothing, StartFails,
       CommandStops, RunReturns, PostRun, MainReturns
<1>9. CASE UNCHANGED vars
  <2>1. Counted' = Counted /\ wg' = wg
    BY <1>9 DEF Counted
  <2> QED
    BY <2>1, CountKept
<1> QED
  BY <1>1, <1>2, <1>3, <1>4, <1>5, <1>6, <1>7, <1>8, <1>9
     DEF Next, AddStep, StopStep, Servers, Jobs, Terminated

\* A step of a job changes that job only, and never takes it back to "none".
LEMMA JobSteps ==
  ASSUME TypeOK, NEW j \in Jobs,
         AddStep(j) \/ StopStep(j) \/ (j \in Servers /\ (Listen(j) \/ Stops(j) \/ Breaks(j)))
  PROVE  /\ job[j] # "none" /\ job'[j] # "none"
         /\ \A i \in Jobs : i # j => job'[i] = job[i]
         /\ UNCHANGED <<main, watcher, jobName, signal, awaited>>
         /\ context' \in {context, "cancelled"}
         /\ ending' \in {ending, "fatal"}
BY DEF TypeOK, AddStep, StopStep, Register, Count, FailureCancels, Unregister, Done,
       Listen, Stops, Breaks, Moves, Goto

\* Every step keeps the types, and the counter from going below zero.
LEMMA TypeStep ==
  ASSUME TypeOK, LaunchOK, CountOK, [Next]_vars
  PROVE  TypeOK'
<1> USE DEF TypeOK, jobVars, vars, Goto, Moves, JobStates, MainStates, WaitStates, Waiters, Endings
<1>1. ASSUME NEW j \in Jobs, AddStep(j)
      PROVE  TypeOK'
  BY <1>1 DEF AddStep, Register, Count
<1>2. ASSUME NEW j \in Jobs, StopStep(j)
      PROVE  TypeOK'
  <2>1. CASE Done(j)
    <3>1. j \in Counted
      BY <2>1 DEF Done, Counted
    <3>2. wg # 0
      BY <3>1, ZeroMeansNone
    <3> QED
      BY <2>1, <3>2 DEF Done
  <2> QED
    BY <1>2, <2>1 DEF StopStep, FailureCancels, Unregister
<1>3. ASSUME NEW j \in Servers, Listen(j) \/ Stops(j) \/ Breaks(j)
      PROVE  TypeOK'
  BY <1>3 DEF Listen, Stops, Breaks, Servers, Jobs
<1>4. ASSUME NEW w \in Waiters, WaitStep(w)
      PROVE  TypeOK'
  BY <1>4 DEF WaitStep, WaitBegins, WaitReturns
<1>5. CASE WatcherStep \/ Signal
  BY <1>5 DEF WatcherStep, WatcherWakes, WatcherExits, WatcherTimesOut, Signal
<1>6. CASE MainStep
  <2>1. Metrics \in Jobs /\ Command \in Jobs /\ Counted \subseteq Jobs
    BY DEF Jobs, Counted
  <2>2. CASE PreRun \/ MetricsAdded \/ RunBegins
    BY <2>1, <2>2 DEF PreRun, MetricsAdded, RunBegins
  <2>3. CASE StartOk \/ StartNothing \/ StartFails
    BY <2>1, <2>3 DEF StartOk, StartNothing, StartFails
  <2> QED
    BY <1>6, <2>1, <2>2, <2>3 DEF MainStep, RunWithoutJob, CommandStops, RunReturns, PostRun, MainReturns
<1>7. CASE UNCHANGED vars
  BY <1>7
<1> QED
  BY <1>1, <1>2, <1>3, <1>4, <1>5, <1>6, <1>7 DEF Next, Terminated

\* No job runs before main has reached the place that launches it.
LEMMA LaunchStep ==
  ASSUME TypeOK, LaunchOK, [Next]_vars
  PROVE  LaunchOK'
<1> USE DEF LaunchOK, NothingStarted
<1>1. ASSUME NEW j \in Jobs,
             AddStep(j) \/ StopStep(j) \/ (j \in Servers /\ (Listen(j) \/ Stops(j) \/ Breaks(j)))
      PROVE  LaunchOK'
  BY <1>1, JobSteps DEF Jobs
<1>2. CASE UNCHANGED <<main, job>>
  BY <1>2
<1>3. ASSUME NEW w \in Waiters, WaitStep(w)
      PROVE  UNCHANGED <<main, job>>
  BY <1>3 DEF WaitStep, WaitBegins, WaitReturns, jobVars
<1>4. CASE WatcherStep \/ Signal
  BY <1>2, <1>4 DEF WatcherStep, WatcherWakes, WatcherExits, WatcherTimesOut, Signal, jobVars
<1>5. CASE MainStep
  <2> USE DEF TypeOK, MainStates, Goto, Moves, jobVars, Jobs
  <2>1. CASE PreRun \/ MetricsAdded \/ RunBegins
    BY <2>1 DEF PreRun, MetricsAdded, RunBegins
  <2>2. CASE StartOk \/ StartNothing \/ StartFails
    BY <2>2 DEF StartOk, StartNothing, StartFails
  <2> QED
    BY <1>5, <2>1, <2>2 DEF MainStep, RunWithoutJob, CommandStops, RunReturns, PostRun, MainReturns
<1> QED
  BY <1>1, <1>2, <1>3, <1>4, <1>5 DEF Next, Servers, Jobs, Terminated, vars, jobVars

---------------------------------------------------------------------------
(* Names *)

\* Steps after which the same jobs hold the same names.
LEMMA RegistryKept ==
  ASSUME RegistryOK, Named' = Named, UNCHANGED <<registered, jobName>>,
         ending' = "fatal" => ending = "fatal" \/ \E i, j \in Jobs : i # j /\ jobName[i] = jobName[j]
  PROVE  RegistryOK'
BY DEF RegistryOK, OneJobPerName

\* AddJob and the end of a job keep names and jobs one to one.
LEMMA RegistryStep ==
  ASSUME TypeOK, LaunchOK, RegistryOK, [Next]_vars
  PROVE  RegistryOK'
<1> USE DEF TypeOK, jobVars, vars, Goto, Moves
<1>1. ASSUME NEW j \in Jobs, Register(j)
      PROVE  RegistryOK'
  <2>1. j \notin Named
    BY <1>1 DEF Register, Named
  <2>2. CASE jobName[j] \in registered
    <3>1. PICK i \in Named : jobName[i] = jobName[j]
      BY <2>2 DEF RegistryOK
    <3>2. i \in Jobs /\ i # j
      BY <2>1 DEF Named
    <3>3. Named' = Named /\ UNCHANGED <<registered, jobName>>
      BY <1>1, <2>2 DEF Register, Named
    <3> QED
      BY <3>1, <3>2, <3>3, RegistryKept
  <2>3. CASE jobName[j] \notin registered
    <3>1. /\ Named' = Named \cup {j}
          /\ registered' = registered \cup {jobName[j]}
          /\ UNCHANGED <<jobName, ending>>
      BY <1>1, <2>3 DEF Register, Named
    <3>2. registered' = {jobName'[i] : i \in Named'}
      BY <3>1 DEF RegistryOK
    <3>3. \A i \in Named : jobName[i] # jobName[j]
      BY <2>3 DEF RegistryOK
    <3> QED
      BY <3>1, <3>2, <3>3 DEF RegistryOK, OneJobPerName
  <2> QED
    BY <2>2, <2>3
<1>2. ASSUME NEW j \in Jobs, Unregister(j)
      PROVE  RegistryOK'
  <2>1. /\ j \in Named
        /\ Named' = Named \ {j}
        /\ registered' = registered \ {jobName[j]}
        /\ UNCHANGED <<jobName, ending>>
    BY <1>2 DEF Unregister, Named
  <2>2. \A i \in Named' : jobName[i] # jobName[j]
    BY <2>1 DEF RegistryOK, OneJobPerName
  <2>3. registered' = {jobName'[i] : i \in Named'}
    BY <2>1, <2>2 DEF RegistryOK
  <2> QED
    BY <2>1, <2>3 DEF RegistryOK, OneJobPerName
<1>3. ASSUME NEW j \in Jobs,
             \/ Count(j) \/ Done(j) \/ FailureCancels(j)
             \/ Listen(j) \/ Stops(j) \/ Breaks(j)
      PROVE  RegistryOK'
  <2>1. Named' = Named /\ UNCHANGED <<registered, jobName, ending>>
    BY <1>3 DEF Count, Done, FailureCancels, Listen, Stops, Breaks, Named
  <2> QED
    BY <2>1, RegistryKept
<1>4. ASSUME NEW w \in Waiters, WaitStep(w)
      PROVE  RegistryOK'
  <2>1. Named' = Named /\ UNCHANGED <<registered, jobName>> /\ ending' \in {ending, "panic"}
    BY <1>4 DEF WaitStep, WaitBegins, WaitReturns, Named
  <2> QED
    BY <2>1, RegistryKept
<1>5. CASE WatcherStep \/ Signal
  <2>1. Named' = Named /\ UNCHANGED <<registered, jobName>> /\ ending' \in {ending, "stopped", "timeout"}
    BY <1>5 DEF WatcherStep, WatcherWakes, WatcherExits, WatcherTimesOut, Signal, Named
  <2> QED
    BY <2>1, RegistryKept
<1>6. CASE MainStep
  <2> SUFFICES Named' = Named /\ UNCHANGED <<registered, jobName>> /\ ending' \in {ending, "returned"}
    BY RegistryKept
  <2> USE DEF Named
  <2>1. CASE PreRun \/ MetricsAdded \/ RunBegins
    BY <2>1 DEF PreRun, MetricsAdded, RunBegins, LaunchOK
  <2>2. CASE StartOk
    BY <2>2 DEF StartOk, LaunchOK, NothingStarted
  <2>3. CASE StartFails \/ CommandStops
    BY <2>3 DEF StartFails, CommandStops
  <2> QED
    BY <1>6, <2>1, <2>2, <2>3
       DEF MainStep, RunWithoutJob, StartNothing, RunReturns, PostRun, MainReturns
<1>7. CASE UNCHANGED vars
  <2>1. Named' = Named
    BY <1>7 DEF Named
  <2> QED
    BY <1>7, <2>1, RegistryKept
<1> QED
  BY <1>1, <1>2, <1>3, <1>4, <1>5, <1>6, <1>7
     DEF Next, AddStep, StopStep, Servers, Jobs, Terminated

---------------------------------------------------------------------------
(* Stopping *)

\* main, the watcher and the end of the process go on only once cancelled.
LEMMA CancelStep ==
  ASSUME TypeOK, LaunchOK, CancelOK, [Next]_vars
  PROVE  CancelOK'
<1> USE DEF CancelOK, NothingStarted
<1>1. ASSUME NEW j \in Jobs,
             AddStep(j) \/ StopStep(j) \/ (j \in Servers /\ (Listen(j) \/ Stops(j) \/ Breaks(j)))
      PROVE  CancelOK'
  <2>1. CASE j = Command
    <3>1. UNCHANGED main /\ NothingStarted' = NothingStarted
      BY <1>1, <2>1, JobSteps DEF Jobs
    <3>2. job[Command] # "running"
      BY <1>1, <2>1 DEF AddStep, StopStep, Register, Count, FailureCancels, Unregister, Done, Servers
    <3> QED
      BY <1>1, <3>1, <3>2, JobSteps
  <2>2. CASE j # Command
    <3>1. UNCHANGED main /\ job'[Command] = job[Command]
      BY <1>1, <2>2, JobSteps DEF Jobs
    <3>2. NothingStarted => NothingStarted'
      BY <1>1, JobSteps DEF Jobs
    <3> QED
      BY <1>1, <3>1, <3>2, JobSteps
  <2> QED
    BY <2>1, <2>2
<1>2. CASE UNCHANGED vars
  BY <1>2 DEF vars, jobVars
<1>3. ASSUME NEW w \in Waiters, WaitStep(w)
      PROVE  CancelOK'
  BY <1>3 DEF WaitStep, WaitBegins, WaitReturns, jobVars
<1>4. CASE WatcherStep \/ Signal
  BY <1>4 DEF WatcherStep, WatcherWakes, WatcherExits, WatcherTimesOut, Signal, jobVars
<1>5. CASE MainStep
  <2> USE DEF TypeOK, MainStates, Goto, Moves, jobVars, Jobs
  <2>1. CASE PreRun \/ MetricsAdded \/ RunBegins \/ RunWithoutJob
    BY <2>1 DEF PreRun, MetricsAdded, RunBegins, RunWithoutJob, LaunchOK
  <2>2. CASE StartOk \/ StartNothing \/ StartFails
    BY <2>2 DEF StartOk, StartNothing, StartFails, LaunchOK
  <2>3. CASE CommandStops \/ RunReturns
    BY <2>3 DEF CommandStops, RunReturns, LaunchOK
  <2>4. CASE PostRun \/ MainReturns
    BY <2>4 DEF PostRun, MainReturns
  <2> QED
    BY <1>5, <2>1, <2>2, <2>3, <2>4 DEF MainStep
<1> QED
  BY <1>1, <1>2, <1>3, <1>4, <1>5 DEF Next, Servers, Jobs, Terminated

\* Steps of jobs keep an awaited job counted until it is gone, for good.
LEMMA AwaitStep ==
  ASSUME TypeOK, LaunchOK, CountOK, AwaitOK, [Next]_vars
  PROVE  AwaitOK'
<1> USE DEF AwaitOK, TypeOK, Waiters, jobVars, vars, Goto, Moves
<1>1. ASSUME NEW j \in Jobs, Done(j)
      PROVE  AwaitOK'
  <2>1. j \in Counted /\ Counted' = Counted \ {j}
    BY <1>1 DEF Done, Counted
  <2>2. awaited' \subseteq Counted' \cup {i \in Jobs : job'[i] = "gone"}
    BY <1>1, <2>1 DEF Done
  <2>3. ASSUME wait'["main"] \in {"woken", "over"}
        PROVE  \A i \in awaited' : job'[i] = "gone"
    <3>1. CASE wg = 1
      <4>1. wg' = 0 /\ CountOK'
        BY <1>1, <3>1, CountStep DEF Done
      <4>2. Counted' = {}
        BY <4>1, CountedFinite, FS_EmptySet DEF CountOK
      <4> QED
        BY <2>2, <4>2
    <3>2. CASE wg # 1
      BY <1>1, <2>3, <3>2 DEF Done
    <3> QED
      BY <3>1, <3>2
  <2> QED
    BY <1>1, <2>2, <2>3 DEF Done
<1>2. ASSUME NEW j \in Jobs, \/ Register(j) \/ Count(j) \/ Unregister(j) \/ FailureCancels(j)
                            \/ Listen(j) \/ Stops(j) \/ Breaks(j)
      PROVE  AwaitOK'
  BY <1>2 DEF Register, Count, Unregister, FailureCancels, Listen, Stops, Breaks, Counted
<1>3. ASSUME NEW w \in Waiters, WaitBegins(w)
      PROVE  AwaitOK'
  <2>1. wg = 0 => awaited \subseteq {j \in Jobs : job[j] = "gone"}
    BY ZeroMeansNone
  <2> QED
    BY <1>3, <2>1 DEF WaitBegins, Counted
<1>4. ASSUME NEW w \in Waiters, WaitReturns(w)
      PROVE  AwaitOK'
  BY <1>4 DEF WaitReturns, Counted
<1>5. CASE WatcherStep \/ Signal
  BY <1>5 DEF WatcherStep, WatcherWakes, WatcherExits, WatcherTimesOut, Signal, Counted
<1>6. CASE MainStep
  <2> USE DEF Counted, Jobs
  <2>1. CASE PreRun \/ MetricsAdded
    BY <2>1 DEF PreRun, MetricsAdded, LaunchOK
  <2>2. CASE RunBegins \/ RunWithoutJob
    BY <2>2 DEF RunBegins, RunWithoutJob, LaunchOK
  <2>3. CASE StartOk
    BY <2>3 DEF StartOk, LaunchOK, NothingStarted
  <2>4. CASE StartNothing \/ StartFails \/ CommandStops
    BY <2>4 DEF StartNothing, StartFails, CommandStops
  <2>5. CASE RunReturns
    BY <2>5 DEF RunReturns
  <2>6. CASE PostRun \/ MainReturns
    BY <2>6 DEF PostRun, MainReturns
  <2> QED
    BY <1>6, <2>1, <2>2, <2>3, <2>4, <2>5, <2>6 DEF MainStep
<1>7. CASE UNCHANGED vars
  BY <1>7 DEF Counted
<1> QED
  BY <1>1, <1>2, <1>3, <1>4, <1>5, <1>6, <1>7
     DEF Next, AddStep, StopStep, WaitStep, Servers, Jobs, Terminated

\* The last counted job is alone.
LEMMA LastJobAlone ==
  ASSUME CountOK, wg = 1, NEW j \in Counted
  PROVE  Counted = {j}
<1>1. Cardinality(Counted) = 1
  BY DEF CountOK
<1> QED
  BY <1>1, CountedFinite, FS_Singleton

\* Steps that leave the jobs alone, and where main is, and release no Wait.
LEMMA ReuseKept ==
  ASSUME ReuseOK, UNCHANGED <<main, job>>, context' \in {context, "cancelled"},
         ending' = "panic" => ending = "panic",
         \A w \in Waiters : wait'[w] = "woken" => wait[w] = "woken"
  PROVE  ReuseOK'
BY DEF ReuseOK

\* A Wait that is released leaves nobody who would add a job, unless a stop
\* was requested or metrics gave up.
LEMMA ReuseStep ==
  ASSUME TypeOK, LaunchOK, CountOK, CancelOK, ReuseOK, [Next]_vars
  PROVE  ReuseOK'
<1> USE DEF TypeOK, jobVars, vars, Goto, Moves
<1>0. Command \in Jobs /\ Metrics \in Jobs /\ Command # Metrics
  BY DEF Jobs
<1>1. ASSUME NEW j \in Jobs, Done(j)
      PROVE  ReuseOK'
  <2>1. /\ job[j] = "unnamed" /\ job' = [job EXCEPT ![j] = "gone"]
        /\ UNCHANGED <<main, context, ending>>
        /\ wait' = [w \in Waiters |-> IF wg = 1 /\ wait[w] = "blocked" THEN "woken" ELSE wait[w]]
    BY <1>1 DEF Done
  <2>2. j \in Counted
    BY <2>1 DEF Counted
  <2>3. job'[j] = "gone" /\ \A i \in Jobs : i # j => job'[i] = job[i]
    BY <2>1
  <2>4. main \in {"start", "serving"} /\ context = "live" => j # Command
    BY <2>1 DEF ReuseOK
  <2>5. ASSUME context = "live", wg = 1, j # Metrics
        PROVE  j = Command /\ main \in {"failed", "postrun", "waiting"} /\ job[Metrics] \in {"none", "gone"}
    <3>1. Counted = {j}
      BY <2>2, <2>5, LastJobAlone
    <3>2. j = Command
      <4>1. SUFFICES ASSUME j # Command PROVE FALSE
        OBVIOUS
      <4>2. j \in Components /\ ~NothingStarted
        BY <2>1, <2>5, <4>1 DEF Jobs, NothingStarted
      <4>3. main = "serving"
        BY <2>5, <4>2 DEF LaunchOK, CancelOK
      <4>4. Command \in Counted
        BY <1>0, <2>5, <4>3 DEF CancelOK, Counted
      <4> QED
        BY <3>1, <4>1, <4>4
    <3>3. main \in {"failed", "postrun", "waiting"}
      BY <2>1, <2>4, <2>5, <3>2 DEF LaunchOK, MainStates
    <3>4. Metrics \notin Counted
      BY <1>0, <3>1, <3>2
    <3>5. job[Metrics] \in {"none", "gone"}
      BY <1>0, <3>3, <3>4 DEF Counted, ReuseOK, JobStates
    <3> QED
      BY <3>2, <3>3, <3>5
  <2>6. ASSUME context' = "live", NEW w \in Waiters, wait'[w] = "woken"
        PROVE  \/ job'[Metrics] = "gone"
               \/ main' \in {"failed", "postrun", "waiting"} /\ job'[Command] = "gone" /\ job'[Metrics] = "none"
    <3>1. CASE j = Metrics
      BY <2>3, <3>1
    <3>2. CASE j # Metrics /\ wg = 1
      BY <1>0, <2>1, <2>3, <2>5, <2>6, <3>2
    <3>3. CASE j # Metrics /\ wg # 1
      <4>1. wait[w] = "woken" /\ context = "live"
        BY <2>1, <2>6, <3>3
      <4>2. job[Metrics] = "gone" \/ (main \in {"failed", "postrun", "waiting"} /\ job[Command] = "gone" /\ job[Metrics] = "none")
        BY <4>1 DEF ReuseOK
      <4> QED
        BY <1>0, <2>1, <2>3, <3>3, <4>2
    <3> QED
      BY <3>1, <3>2, <3>3
  <2>7. main' \notin {"init", "metrics"} => job'[Metrics] \notin {"spawned", "named"}
    BY <1>0, <2>1, <2>3 DEF ReuseOK
  <2>8. main' \in {"start", "serving"} /\ context' = "live" => job'[Command] \in {"spawned", "named", "running"}
    BY <1>0, <2>1, <2>3, <2>4 DEF ReuseOK
  <2>9. ending' = "panic" => context' = "cancelled" \/ job'[Metrics] = "gone"
    BY <1>0, <2>1, <2>3 DEF ReuseOK
  <2> QED
    BY <2>6, <2>7, <2>8, <2>9 DEF ReuseOK
<1>2. ASSUME NEW j \in Jobs, \/ Register(j) \/ Count(j) \/ Unregister(j) \/ FailureCancels(j)
                            \/ (j \in Servers /\ (Listen(j) \/ Stops(j) \/ Breaks(j)))
      PROVE  ReuseOK'
  <2>1. /\ UNCHANGED <<main, wait>> /\ job[j] \notin {"none", "gone"}
        /\ context' \in {context, "cancelled"}
        /\ ending' = "panic" => ending = "panic"
        /\ \A i \in Jobs : i # j => job'[i] = job[i]
    BY <1>2 DEF Register, Count, Unregister, FailureCancels, Listen, Stops, Breaks
  <2>2. j = Command /\ job[j] \in {"spawned", "named", "running"} => job'[j] \in {"spawned", "named", "running"}
    BY <1>2 DEF Register, Count, Unregister, FailureCancels, Listen, Stops, Breaks, Servers
  <2>3. job[j] \notin {"spawned", "named"} => job'[j] \notin {"spawned", "named"}
    BY <1>2 DEF Register, Count, Unregister, FailureCancels, Listen, Stops, Breaks
  <2> QED
    BY <1>0, <2>1, <2>2, <2>3 DEF ReuseOK
<1>3. ASSUME NEW w \in Waiters, WaitBegins(w)
      PROVE  ReuseOK'
  BY <1>3, ReuseKept DEF WaitBegins
<1>4. ASSUME NEW w \in Waiters, WaitReturns(w)
      PROVE  ReuseOK'
  <2>1. /\ wait[w] = "woken" /\ UNCHANGED <<main, job, context>>
        /\ \A x \in Waiters : wait'[x] = "woken" => wait[x] = "woken"
    BY <1>4 DEF WaitReturns
  <2>2. CASE wg = 0
    BY <1>4, <2>1, <2>2, ReuseKept DEF WaitReturns
  <2>3. CASE wg # 0
    <3>1. context = "live" /\ job[Metrics] # "gone" => Counted = {}
      <4>1. SUFFICES ASSUME context = "live", job[Metrics] # "gone" PROVE Counted = {}
        OBVIOUS
      <4>2. main \in {"failed", "postrun", "waiting"} /\ job[Command] = "gone" /\ job[Metrics] = "none"
        BY <2>1, <4>1 DEF ReuseOK
      <4>3. NothingStarted
        BY <4>1, <4>2 DEF LaunchOK, CancelOK
      <4> QED
        BY <4>2, <4>3 DEF NothingStarted, Counted, Jobs
    <3>2. context = "live" /\ job[Metrics] # "gone" => wg = 0
      BY <3>1, FS_EmptySet DEF CountOK
    <3> QED
      BY <2>1, <2>3, <3>2 DEF ReuseOK
  <2> QED
    BY <2>2, <2>3
<1>5. CASE WatcherStep \/ Signal
  BY <1>5, ReuseKept DEF WatcherStep, WatcherWakes, WatcherExits, WatcherTimesOut, Signal
<1>6. CASE MainStep
  <2> USE DEF ReuseOK, LaunchOK, MainStates, Waiters
  <2>1. CASE PreRun
    BY <1>0, <2>1 DEF PreRun
  <2>2. CASE MetricsAdded
    BY <1>0, <2>2 DEF MetricsAdded
  <2>3. CASE RunBegins
    BY <1>0, <2>3 DEF RunBegins
  <2>4. CASE StartOk
    <3>1. job'[Metrics] = job[Metrics] /\ job'[Command] = job[Command]
      BY <1>0, <2>4 DEF StartOk
    <3> QED
      BY <1>0, <2>4, <3>1 DEF StartOk
  <2>5. CASE StartFails
    BY <1>0, <2>5 DEF StartFails
  <2>6. CASE CommandStops
    BY <1>0, <2>6 DEF CommandStops
  <2>7. CASE RunWithoutJob \/ StartNothing \/ RunReturns
    BY <1>0, <2>7 DEF RunWithoutJob, StartNothing, RunReturns
  <2>8. CASE PostRun \/ MainReturns
    BY <1>0, <2>8 DEF PostRun, MainReturns
  <2> QED
    BY <1>6, <2>1, <2>2, <2>3, <2>4, <2>5, <2>6, <2>7, <2>8 DEF MainStep
<1>7. CASE UNCHANGED vars
  BY <1>7, ReuseKept
<1> QED
  BY <1>1, <1>2, <1>3, <1>4, <1>5, <1>6, <1>7
     DEF Next, AddStep, StopStep, WaitStep, Servers, Jobs, Terminated

---------------------------------------------------------------------------
(* Theorems *)

\* The invariant holds when the process starts.
LEMMA AppInit ==
  ASSUME Init
  PROVE  AppInv
<1>1. Counted = {} /\ Named = {}
  BY DEF Init, Counted, Named
<1>2. CountOK
  BY <1>1, FS_EmptySet DEF Init, CountOK
<1>3. RegistryOK
  BY <1>1 DEF Init, RegistryOK, OneJobPerName
<1>4. TypeOK
  BY DEF Init, TypeOK, MainStates, WaitStates, JobStates, Endings
<1> QED
  BY <1>2, <1>3, <1>4 DEF Init, AppInv, LaunchOK, CancelOK, AwaitOK, ReuseOK, NothingStarted, Jobs, Waiters

\* The inductive invariant: the registry and the counter agree with the jobs,
\* and main and the watcher go no further than the context lets them.
THEOREM AppInvariant == Spec => []AppInv
<1>1. Init => AppInv
  BY AppInit
<1>2. AppInv /\ [Next]_vars => AppInv'
  BY TypeStep, LaunchStep, RegistryStep, CountStep, CancelStep, AwaitStep, ReuseStep DEF AppInv
<1> QED
  BY <1>1, <1>2, PTL DEF Spec

\* Every variable keeps its type; the counter never goes below zero, where
\* sync.WaitGroup would panic.
THEOREM AppTypeCorrect == Spec => []TypeOK
<1>1. AppInv => TypeOK
  BY DEF AppInv
<1> QED
  BY <1>1, AppInvariant, PTL

\* Two jobs never hold one name, whatever the configuration: AddJob.
THEOREM JobNamesUnique == Spec => []OneJobPerName
<1>1. AppInv => OneJobPerName
  BY DEF AppInv, RegistryOK
<1> QED
  BY <1>1, AppInvariant, PTL

\* Nothing but a cancelled context ends a process whose components started,
\* for any number of components: the watcher's and main's exits.
THEOREM NothingEndsByItself == Spec => []NoSpontaneousExit
<1>1. AppInv => NoSpontaneousExit
  BY DEF AppInv, CancelOK, NoSpontaneousExit
<1> QED
  BY <1>1, AppInvariant, PTL

\* main returns after the last job that ran beside the command's Run.
THEOREM PostRunWaitsForJobs == Spec => []PostRunWaits
<1>1. AppInv => PostRunWaits
  BY DEF AppInv, AwaitOK, PostRunWaits
<1> QED
  BY <1>1, AppInvariant, PTL

\* sync.WaitGroup is never reused under a Wait of a command that serves, for
\* any number of components: AddJob against the waiter of Init and PostRun.
THEOREM ReuseNeedsStop == Spec => []PanicNeedsStop
<1>1. AppInv => PanicNeedsStop
  BY DEF AppInv, ReuseOK, PanicNeedsStop
<1> QED
  BY <1>1, AppInvariant, PTL
=============================================================================
