------------------------------- MODULE Ruleset ------------------------------
(***************************************************************************)
(* The ruleset manager of the dns subcommand (cmd/dns, ruleset.go): one    *)
(* goroutine downloads the sets into cached files, builds a new matcher    *)
(* from the files and swaps it in.  It is woken by the channel of reload   *)
(* requests (capacity 1) and by the channel of ticks (one place per set),  *)
(* which one goroutine per set with an update interval fills.              *)
(*                                                                         *)
(* Downloads of different sets run in parallel, each into a file of its    *)
(* own: validateRulesets refuses two sets with one URL.  The order in      *)
(* which rules are added is left open.                                     *)
(***************************************************************************)
EXTENDS Matcher, FiniteSets

CONSTANTS
  Sets,         \* configured rulesets
  Timed,        \* those with an update_interval
  Tags,         \* Tags[s]: the tags of set s, a sequence of [name, action]
  Contents,     \* what a source may serve
  Site,         \* Site[c]: the rules [kind, value, tag] in content c
  First,        \* First[s]: content the source of s serves at the beginning
  Garbage,      \* contents decodeGeoSiteList rejects
  None,         \* no file
  MaxPublished, \* bound on the changes of the sources
  MaxFaults     \* bound on failed downloads and crashes

ASSUME RulesetAssumption ==
  /\ IsFiniteSet(Sets)
  /\ Timed \subseteq Sets
  /\ First \in [Sets -> Contents]
  /\ Garbage \subseteq Contents
  /\ None \notin Contents
  /\ MaxPublished \in Nat
  /\ MaxFaults \in Nat

VARIABLES
  remote,       \* remote[s]: content the source of set s serves
  published,    \* changes of the sources so far
  mode,         \* "down", "up" or "stopping" (context cancelled)
  file,         \* file[s]: content of the cached file of set s
  pc,           \* where the goroutine of Run is
  busy,         \* sets whose download has not ended
  building,     \* the matcher rebuildMatcher works on
  todo,         \* rules it has not added yet
  active,       \* the matcher queries use
  reload,       \* the reload channel holds a request
  asked,        \* a reload was requested and no refresh began since
  ticker,       \* ticker[s]: where the goroutine of the timer of set s is
  ticks,        \* the channel of ticks
  faults        \* failures so far

sourceVars == <<remote, published>>
buildVars  == <<building, todo>>
runVars    == <<pc, busy, buildVars, active>>
tickVars   == <<ticker, ticks>>
reloadVars == <<reload, asked>>
vars       == <<sourceVars, mode, file, runVars, reloadVars, tickVars, faults>>

RunStates    == {"down", "refresh", "build", "idle", "waiting", "stopped"}
TickerStates == {"off", "waiting", "sending", "gone"}

Fault == faults < MaxFaults /\ faults' = faults + 1

\* The action of tag t: the last entry of that name.
TagAction(s, t) ==
  LET named == {i \in 1..Len(Tags[s]) : Tags[s][i].name = t}
  IN  Tags[s][CHOOSE i \in named : \A j \in named : j <= i].action

Tagged(s, t) == \E i \in 1..Len(Tags[s]) : Tags[s][i].name = t

\* applyRuleset: the rules of a content that carry a configured tag.
RulesOf(s, c) == {[kind |-> e.kind, value |-> e.value, action |-> TagAction(s, e.tag)] :
                    e \in {e \in Site[c] : Tagged(s, e.tag)}}

\* Every tag has a known action: validateTags refuses others.
ASSUME RulesWellFormed == \A s \in Sets, c \in Contents : RulesOf(s, c) \subseteq Rules

Decodable == Contents \ Garbage

\* The rules of all files that can be read and decoded.
FileRules == UNION {RulesOf(s, file[s]) : s \in {s \in Sets : file[s] \in Decodable}}

\* What is left when the process starts.
Fresh(state) == /\ pc' = state
                /\ todo' = {}
                /\ building' = NewMatcher
                /\ active' = NewMatcher
                /\ reload' = FALSE
                /\ asked' = FALSE
                /\ ticker' = [s \in Sets |-> "off"]
                /\ ticks' = <<>>

Init == /\ remote = First
        /\ published = 0
        /\ mode = "down"
        /\ file = [s \in Sets |-> None]
        /\ pc = "down"
        /\ busy = {}
        /\ building = NewMatcher
        /\ todo = {}
        /\ active = NewMatcher
        /\ reload = FALSE
        /\ asked = FALSE
        /\ ticker = [s \in Sets |-> "off"]
        /\ ticks = <<>>
        /\ faults = 0

---------------------------------------------------------------------------
(* Environment *)

Publish(s, c) == /\ published < MaxPublished
                 /\ remote[s] # c
                 /\ published' = published + 1
                 /\ remote' = [remote EXCEPT ![s] = c]
                 /\ UNCHANGED <<mode, file, runVars, reloadVars, tickVars, faults>>

\* Start of the service: an empty matcher, and Run refreshes all sets.
Start == /\ mode = "down"
         /\ mode' = "up"
         /\ busy' = Sets
         /\ Fresh("refresh")
         /\ UNCHANGED <<sourceVars, file, faults>>

Cancel == /\ mode = "up"
          /\ mode' = "stopping"
          /\ UNCHANGED <<sourceVars, file, runVars, reloadVars, tickVars, faults>>

\* The process ends, by a crash or at any moment of the shutdown.
Crash == /\ \/ mode = "up" /\ Fault
            \/ mode = "stopping" /\ UNCHANGED faults
         /\ mode' = "down"
         /\ busy' = {}
         /\ Fresh("down")
         /\ UNCHANGED <<sourceVars, file>>

---------------------------------------------------------------------------
(* refreshAll, refreshOne *)

DownloadOk(s) == /\ pc = "refresh"
                 /\ s \in busy
                 /\ file' = [file EXCEPT ![s] = remote[s]]
                 /\ busy' = busy \ {s}
                 /\ UNCHANGED <<sourceVars, mode, pc, buildVars, active, reloadVars, tickVars, faults>>

\* Variant: the body goes straight to the cached file.
DownloadFails_Truncates(s) ==
  /\ pc = "refresh"
  /\ s \in busy
  /\ mode = "up" /\ Fault
  /\ file' = [file EXCEPT ![s] = None]
  /\ busy' = busy \ {s}
  /\ UNCHANGED <<sourceVars, mode, pc, buildVars, active, reloadVars, tickVars>>

\* No answer, an error status, a body that breaks off, or a cancelled
\* context: the temporary file goes, the cached file stays.
DownloadFails(s) == /\ pc = "refresh"
                    /\ s \in busy
                    /\ \/ mode = "up" /\ Fault
                       \/ mode = "stopping" /\ UNCHANGED faults
                    /\ busy' = busy \ {s}
                    /\ UNCHANGED <<sourceVars, mode, file, pc, buildVars, active, reloadVars, tickVars>>

---------------------------------------------------------------------------
(* rebuildMatcher *)

\* All downloads have ended; the files do not change until the swap.
BuildBegins == /\ pc = "refresh"
               /\ busy = {}
               /\ pc' = "build"
               /\ building' = NewMatcher
               /\ todo' = FileRules
               /\ UNCHANGED <<sourceVars, mode, file, busy, active, reloadVars, tickVars, faults>>

\* Variant: rules are added to the matcher in use, too.
AddRule_InPlace(r) == /\ pc = "build"
                      /\ r \in todo
                      /\ building' = Add(building, r)
                      /\ active' = Add(active, r)
                      /\ todo' = todo \ {r}
                      /\ UNCHANGED <<sourceVars, mode, file, pc, busy, reloadVars, tickVars, faults>>

AddRule(r) == /\ pc = "build"
              /\ r \in todo
              /\ building' = Add(building, r)
              /\ todo' = todo \ {r}
              /\ UNCHANGED <<sourceVars, mode, file, pc, busy, active, reloadVars, tickVars, faults>>

\* The new matcher takes over; the first time, Run starts the timers.
Swap == /\ pc = "build"
        /\ todo = {}
        /\ pc' = "idle"
        /\ active' = building
        /\ ticker' = [s \in Sets |-> IF s \in Timed /\ ticker[s] = "off" THEN "waiting" ELSE ticker[s]]
        /\ UNCHANGED <<sourceVars, mode, file, busy, buildVars, reloadVars, ticks, faults>>

---------------------------------------------------------------------------
(* The select of Run *)

\* Variant: a request made during a refresh is not kept.
TriggerReload_BusyDropped == /\ mode # "down"
                             /\ asked' = TRUE
                             /\ reload' = (reload \/ pc = "idle")
                             /\ UNCHANGED <<sourceVars, mode, file, runVars, tickVars, faults>>

\* POST /reload: the channel keeps one request.
TriggerReload == /\ mode # "down"
                 /\ asked' = TRUE
                 /\ reload' = TRUE
                 /\ UNCHANGED <<sourceVars, mode, file, runVars, tickVars, faults>>

ServeReload == /\ pc = "idle"
               /\ reload
               /\ reload' = FALSE
               /\ asked' = FALSE
               /\ pc' = "refresh"
               /\ busy' = Sets
               /\ UNCHANGED <<sourceVars, mode, file, buildVars, active, tickVars, faults>>

\* Variant: the tick rebuilds the matcher without a download.
ServeTick_NoDownload == /\ pc = "idle"
                        /\ ticks # <<>>
                        /\ ticks' = Tail(ticks)
                        /\ pc' = "refresh"
                        /\ busy' = {}
                        /\ UNCHANGED <<sourceVars, mode, file, buildVars, active, reloadVars, ticker, faults>>

ServeTick == /\ pc = "idle"
             /\ ticks # <<>>
             /\ ticks' = Tail(ticks)
             /\ pc' = "refresh"
             /\ busy' = {Head(ticks)}
             /\ UNCHANGED <<sourceVars, mode, file, buildVars, active, reloadVars, ticker, faults>>

\* <-ctx.Done(): no tick or request is served any more.
StopBegins == /\ pc = "idle"
              /\ mode = "stopping"
              /\ pc' = "waiting"
              /\ UNCHANGED <<sourceVars, mode, file, busy, buildVars, active, reloadVars, tickVars, faults>>

\* wgroup.Wait()
RunStops == /\ pc = "waiting"
            /\ \A s \in Sets : ticker[s] \in {"off", "gone"}
            /\ pc' = "stopped"
            /\ UNCHANGED <<sourceVars, mode, file, busy, buildVars, active, reloadVars, tickVars, faults>>

---------------------------------------------------------------------------
(* The timers *)

Fires(s) == /\ ticker[s] = "waiting"
            /\ ticker' = [ticker EXCEPT ![s] = "sending"]
            /\ UNCHANGED <<sourceVars, mode, file, runVars, reloadVars, ticks, faults>>

\* Variant: a send that never waits.
Sends_Unbounded(s) == /\ ticker[s] = "sending"
                      /\ ticks' = Append(ticks, s)
                      /\ ticker' = [ticker EXCEPT ![s] = "waiting"]
                      /\ UNCHANGED <<sourceVars, mode, file, runVars, reloadVars, faults>>

Sends(s) == /\ ticker[s] = "sending"
            /\ Len(ticks) < Cardinality(Sets)
            /\ ticks' = Append(ticks, s)
            /\ ticker' = [ticker EXCEPT ![s] = "waiting"]
            /\ UNCHANGED <<sourceVars, mode, file, runVars, reloadVars, faults>>

\* Variant: the send does not watch the context.
Leaves_NotWhileSending(s) == /\ mode = "stopping"
                             /\ ticker[s] = "waiting"
                             /\ ticker' = [ticker EXCEPT ![s] = "gone"]
                             /\ UNCHANGED <<sourceVars, mode, file, runVars, reloadVars, ticks, faults>>

Leaves(s) == /\ mode = "stopping"
             /\ ticker[s] \in {"waiting", "sending"}
             /\ ticker' = [ticker EXCEPT ![s] = "gone"]
             /\ UNCHANGED <<sourceVars, mode, file, runVars, reloadVars, ticks, faults>>

RefreshStep(s) == DownloadOk(s) \/ DownloadFails(s)

BuildStep == BuildBegins \/ (\E r \in todo : AddRule(r)) \/ Swap

RunStep == \/ BuildStep
           \/ ServeReload \/ ServeTick \/ StopBegins \/ RunStops

Next == \/ Start \/ Cancel \/ Crash \/ TriggerReload \/ RunStep
        \/ \E s \in Sets : \/ \E c \in Contents : Publish(s, c)
                           \/ RefreshStep(s)
                           \/ Fires(s) \/ Sends(s) \/ Leaves(s)

Spec == Init /\ [][Next]_vars

(***************************************************************************)
(* Goroutines run and every download ends by its timeout.  select picks at *)
(* random among the ready channels, and the senders that wait for a place  *)
(* in a channel are served in turn, so neither is passed over for ever.    *)
(***************************************************************************)
Fairness == /\ WF_vars(RunStep) /\ SF_vars(ServeReload) /\ SF_vars(ServeTick) /\ SF_vars(StopBegins)
            /\ \A s \in Sets : /\ WF_vars(RefreshStep(s))
                               /\ WF_vars(Fires(s))
                               /\ SF_vars(Sends(s))
                               /\ WF_vars(Leaves(s))

FairSpec == Spec /\ Fairness

---------------------------------------------------------------------------
(* Properties *)

TypeOK == /\ remote \in [Sets -> Contents]
          /\ published \in 0..MaxPublished
          /\ mode \in {"down", "up", "stopping"}
          /\ file \in [Sets -> Contents \cup {None}]
          /\ pc \in RunStates
          /\ busy \subseteq Sets
          /\ todo \subseteq FileRules
          /\ reload \in BOOLEAN
          /\ asked \in BOOLEAN
          /\ ticker \in [Sets -> TickerStates]
          /\ ticks \in Seq(Timed)
          /\ Len(ticks) <= Cardinality(Sets)
          /\ faults \in 0..MaxFaults

\* Whenever Run waits, every name is answered as the rules of all readable
\* files say: block > fakeip > direct > upstream, whatever order the rules
\* came in, however often the sets were refreshed.
RulesCurrent == pc \in {"idle", "waiting", "stopped"} => AnswersFor(active, FileRules)

\* "After a failed update go on with the old data": a set that has a usable
\* file keeps having one.
OldDataKept == [][\A s \in Sets : file[s] \in Decodable => file'[s] \in Decodable]_vars

\* POST /reload is answered by a refresh of all sets that begins after it,
\* also when it comes during a refresh.
ReloadServed == asked ~> (~asked \/ mode # "up")

\* A timed set whose source stops changing is brought up to date.
RulesSettle ==
  \A s \in Timed, c \in Decodable :
    <>[](remote[s] = c /\ mode = "up") => <>[](file[s] = c)

\* Run returns after a cancellation, whatever the timers are doing.
RunReturns == (mode = "stopping") ~> (pc = "stopped" \/ mode = "down")

---------------------------------------------------------------------------
(* Refinement *)

\* What each set has brought in, and may bring in.
Book  == [s \in Sets |-> IF file[s] \in Decodable THEN RulesOf(s, file[s]) ELSE {}]
Books == [s \in Sets |-> {RulesOf(s, c) : c \in Decodable} \cup {{}}]

Answers == [d \in Names |-> Lookup(active, d)]
Settled == pc \in {"idle", "waiting", "stopped"}

B == INSTANCE RuleBook WITH book <- Book, answers <- Answers, settled <- Settled

\* Queries see whole sets of rules only: while files are replaced one by one
\* and the next matcher grows, every name is answered by the one before.
ImplementsRuleBook == B!Spec
=============================================================================
