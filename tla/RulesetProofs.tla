---------------------------- MODULE RulesetProofs ---------------------------
(***************************************************************************)
(* Safety of the ruleset manager for any sets, contents, rules and faults. *)
(*                                                                         *)
(* While a matcher is built, it represents the rules of the files without  *)
(* those still to be added; the files do not change meanwhile, because     *)
(* downloads run only in a refresh.  So the matcher that is swapped in     *)
(* represents all of them (CurrentInv), what a query is answered from is   *)
(* always the rules of whole files, and Run's end leaves no timer behind.  *)
(***************************************************************************)
EXTENDS Ruleset, MatcherProofs, FiniteSetTheorems

\* What is left to add belongs to a build.
BuildInv == /\ pc # "build" => todo = {}
            /\ pc = "build" => Represents(building, FileRules \ todo)

\* The active matcher whenever no refresh is going on.
CurrentInv == pc \in {"idle", "waiting", "stopped"} => Represents(active, FileRules)

\* Only sets with an interval have a timer.
TimersInv == \A s \in Sets : ticker[s] # "off" => s \in Timed

RulesetInv == TypeOK /\ BuildInv /\ CurrentInv /\ TimersInv

---------------------------------------------------------------------------

\* The files hold well-formed rules only.
LEMMA FileRulesWellFormed ==
  ASSUME TypeOK
  PROVE  FileRules \subseteq Rules
<1>1. \A s \in Sets : file[s] \in Decodable => RulesOf(s, file[s]) \subseteq Rules
  BY RulesWellFormed DEF Decodable
<1> QED BY <1>1 DEF FileRules

\* The matcher that queries use answers as the files say.
LEMMA CurrentAnswers ==
  ASSUME RulesetInv
  PROVE  RulesCurrent
<1>1. FileRules \in SUBSET Rules
  BY FileRulesWellFormed DEF RulesetInv
<1> QED BY <1>1, MatcherAnswers DEF RulesetInv, CurrentInv, RulesCurrent

\* The invariant holds without files and with the empty first matcher.
LEMMA RulesetInit == Init => RulesetInv
<1> SUFFICES ASSUME Init PROVE RulesetInv
  OBVIOUS
<1>1. Cardinality(Sets) \in Nat
  BY RulesetAssumption, FS_CardinalityType
<1>2. TypeOK
  <2>1. /\ remote \in [Sets -> Contents]
        /\ published \in 0..MaxPublished
        /\ faults \in 0..MaxFaults
    BY RulesetAssumption DEF Init
  <2>2. /\ ticks \in Seq(Timed)
        /\ Len(ticks) <= Cardinality(Sets)
    BY <1>1 DEF Init
  <2> QED BY <2>1, <2>2 DEF Init, TypeOK, RunStates, TickerStates
<1>3. BuildInv /\ CurrentInv /\ TimersInv
  BY DEF Init, BuildInv, CurrentInv, TimersInv
<1> QED BY <1>2, <1>3 DEF RulesetInv

\* Every step keeps the invariant, one step per action.
LEMMA RulesetNext == RulesetInv /\ [Next]_vars => RulesetInv'
<1> SUFFICES ASSUME RulesetInv, [Next]_vars PROVE RulesetInv'
  OBVIOUS
<1> USE DEF RulesetInv, sourceVars, buildVars, runVars, tickVars, reloadVars
<1>a. Cardinality(Sets) \in Nat
  BY RulesetAssumption, FS_CardinalityType
<1>b. file' = file => FileRules' = FileRules
  BY DEF FileRules
<1>0. CASE UNCHANGED vars
  BY <1>b, <1>0 DEF vars, TypeOK, BuildInv, CurrentInv, TimersInv
<1>1. ASSUME NEW s \in Sets, NEW c \in Contents, Publish(s, c) PROVE RulesetInv'
  <2>1. remote' \in [Sets -> Contents] /\ published' \in 0..MaxPublished
    BY <1>1, RulesetAssumption DEF Publish, TypeOK
  <2> QED BY <1>b, <1>1, <2>1 DEF Publish, TypeOK, BuildInv, CurrentInv, TimersInv
<1>2. CASE Start
  <2>1. Len(<<>>) <= Cardinality(Sets) /\ <<>> \in Seq(Timed)
    BY <1>a
  <2> QED BY <1>2, <1>b, <2>1 DEF Start, Fresh, TypeOK, BuildInv, CurrentInv, TimersInv, RunStates, TickerStates
<1>3. CASE Cancel
  BY <1>3, <1>b DEF Cancel, TypeOK, BuildInv, CurrentInv, TimersInv
<1>4. CASE Crash
  <2>1. Len(<<>>) <= Cardinality(Sets) /\ <<>> \in Seq(Timed)
    BY <1>a
  <2>2. faults' \in 0..MaxFaults
    BY <1>4, RulesetAssumption DEF Crash, Fault, TypeOK
  <2> QED BY <1>4, <1>b, <2>1, <2>2 DEF Crash, Fresh, TypeOK, BuildInv, CurrentInv, TimersInv, RunStates, TickerStates
<1>5. ASSUME NEW s \in Sets, DownloadOk(s) PROVE RulesetInv'
  BY <1>5 DEF DownloadOk, TypeOK, BuildInv, CurrentInv, TimersInv
<1>6. ASSUME NEW s \in Sets, DownloadFails(s) PROVE RulesetInv'
  BY <1>6, <1>b, RulesetAssumption DEF DownloadFails, Fault, TypeOK, BuildInv, CurrentInv, TimersInv
<1>7. CASE BuildBegins
  <2>1. TypeOK'
    BY <1>7, <1>b DEF BuildBegins, TypeOK, RunStates
  <2>2. BuildInv'
    <3>1. FileRules \ FileRules = {}
      OBVIOUS
    <3> QED BY <1>7, <1>b, <3>1, NewRepresents DEF BuildBegins, BuildInv
  <2> QED BY <1>7, <2>1, <2>2 DEF BuildBegins, CurrentInv, TimersInv
<1>8. ASSUME NEW r \in todo, AddRule(r) PROVE RulesetInv'
  <2>1. TypeOK'
    BY <1>8, <1>b DEF AddRule, TypeOK
  <2>2. BuildInv'
    <3>1. r \in FileRules /\ FileRules \subseteq Rules
      BY FileRulesWellFormed DEF TypeOK
    <3>2. FileRules \ todo \in SUBSET Rules /\ r \in Rules
      BY <3>1
    <3>3. Represents(building, FileRules \ todo)
      BY <1>8 DEF AddRule, BuildInv
    <3>4. Represents(Add(building, r), (FileRules \ todo) \cup {r})
      BY <3>2, <3>3, AddRepresents
    <3>5. (FileRules \ todo) \cup {r} = FileRules \ (todo \ {r})
      BY <3>1
    <3> QED BY <1>8, <1>b, <3>4, <3>5 DEF AddRule, BuildInv
  <2> QED BY <1>8, <2>1, <2>2 DEF AddRule, CurrentInv, TimersInv
<1>9. CASE Swap
  <2>1. TypeOK'
    BY <1>9, <1>b DEF Swap, TypeOK, RunStates, TickerStates
  <2>2. CurrentInv'
    <3>1. FileRules \ todo = FileRules
      BY <1>9 DEF Swap
    <3> QED BY <1>9, <1>b, <3>1 DEF Swap, BuildInv, CurrentInv
  <2> QED BY <1>9, <2>1, <2>2 DEF Swap, BuildInv, TimersInv, TypeOK
<1>10. CASE TriggerReload
  BY <1>10, <1>b DEF TriggerReload, TypeOK, BuildInv, CurrentInv, TimersInv
<1>11. CASE ServeReload
  BY <1>11, <1>b DEF ServeReload, TypeOK, BuildInv, CurrentInv, TimersInv, RunStates
<1>12. CASE ServeTick
  <2>1. /\ Head(ticks) \in Sets
        /\ Tail(ticks) \in Seq(Timed)
        /\ Len(Tail(ticks)) <= Cardinality(Sets)
    BY <1>12, <1>a, RulesetAssumption DEF ServeTick, TypeOK
  <2> QED BY <1>12, <1>b, <2>1 DEF ServeTick, TypeOK, BuildInv, CurrentInv, TimersInv, RunStates
<1>13. CASE StopBegins
  BY <1>13, <1>b DEF StopBegins, TypeOK, BuildInv, CurrentInv, TimersInv, RunStates
<1>14. CASE RunStops
  BY <1>14, <1>b DEF RunStops, TypeOK, BuildInv, CurrentInv, TimersInv, RunStates
<1>15. ASSUME NEW s \in Sets, Fires(s) PROVE RulesetInv'
  BY <1>15, <1>b DEF Fires, TypeOK, BuildInv, CurrentInv, TimersInv, TickerStates
<1>16. ASSUME NEW s \in Sets, Sends(s) PROVE RulesetInv'
  <2>1. s \in Timed
    BY <1>16 DEF Sends, TimersInv
  <2>2. /\ Append(ticks, s) \in Seq(Timed)
        /\ Len(Append(ticks, s)) <= Cardinality(Sets)
    BY <1>16, <1>a, <2>1 DEF Sends, TypeOK
  <2> QED BY <1>16, <1>b, <2>2 DEF Sends, TypeOK, BuildInv, CurrentInv, TimersInv, TickerStates
<1>17. ASSUME NEW s \in Sets, Leaves(s) PROVE RulesetInv'
  BY <1>17, <1>b DEF Leaves, TypeOK, BuildInv, CurrentInv, TimersInv, TickerStates
<1> QED BY <1>0, <1>1, <1>2, <1>3, <1>4, <1>5, <1>6, <1>7, <1>8, <1>9, <1>10, <1>11, <1>12, <1>13,
           <1>14, <1>15, <1>16, <1>17 DEF Next, RunStep, BuildStep, RefreshStep

---------------------------------------------------------------------------

\* The inductive invariant of the manager.
THEOREM RulesetInvariant == Spec => []RulesetInv
BY RulesetInit, RulesetNext, PTL DEF Spec

\* The variables keep their types; the channel of ticks never overflows.
THEOREM RulesetTypeCorrect == Spec => []TypeOK
<1>1. RulesetInv => TypeOK
  BY DEF RulesetInv
<1> QED BY RulesetInvariant, <1>1, PTL

\* Whenever Run waits, every name is answered as the files say.
THEOREM RulesAlwaysCurrent == Spec => []RulesCurrent
<1>1. RulesetInv => RulesCurrent
  BY CurrentAnswers
<1> QED BY RulesetInvariant, <1>1, PTL

\* As long as no source serves a content that cannot be decoded, a set that
\* has a usable file keeps one.
THEOREM OldDataStays ==
  ASSUME Garbage = {}
  PROVE  Spec => OldDataKept
<1> DEFINE Kept == \A s \in Sets : file[s] \in Decodable => file'[s] \in Decodable
<1>1. TypeOK /\ [Next]_vars => [Kept]_vars
  <2> SUFFICES ASSUME TypeOK, Next PROVE Kept
    BY DEF vars
  <2>1. ASSUME NEW s \in Sets, DownloadOk(s) PROVE Kept
    BY <2>1 DEF DownloadOk, TypeOK, Decodable
  <2>2. file' = file \/ \E s \in Sets : DownloadOk(s)
    BY DEF Next, RunStep, BuildStep, RefreshStep, Start, Cancel, Crash, TriggerReload, BuildBegins, AddRule, Swap,
           ServeReload, ServeTick, StopBegins, RunStops, Publish, DownloadFails, Fires, Sends, Leaves,
           runVars, buildVars
  <2> QED BY <2>1, <2>2
<1> QED BY <1>1, RulesetTypeCorrect, PTL DEF Spec, OldDataKept

---------------------------------------------------------------------------
(* Refinement of RuleBook *)

\* The rules of all files are those of the whole book.
LEMMA BookIsFileRules == FileRules = B!Whole
<1>1. ASSUME NEW r \in FileRules PROVE r \in B!Whole
  <2>1. PICK s \in Sets : file[s] \in Decodable /\ r \in RulesOf(s, file[s])
    BY <1>1 DEF FileRules
  <2>2. r \in Book[s]
    BY <2>1 DEF Book
  <2> QED BY <2>2 DEF B!Whole
<1>2. ASSUME NEW r \in B!Whole PROVE r \in FileRules
  <2>1. PICK s \in Sets : r \in Book[s]
    BY <1>2 DEF B!Whole
  <2>2. file[s] \in Decodable /\ r \in RulesOf(s, file[s])
    BY <2>1 DEF Book
  <2> QED BY <2>2 DEF FileRules
<1> QED BY <1>1, <1>2

\* A matcher that represents R gives the answers the book gives for R.
LEMMA AnswersOfRules ==
  ASSUME NEW m, NEW R \in SUBSET Rules, Represents(m, R)
  PROVE  [d \in Names |-> Lookup(m, d)] = B!Says(R)
BY LookupDecides DEF B!Says

\* The first matcher answers for an empty book.
LEMMA FirstAnswers == [d \in Names |-> Lookup(NewMatcher, d)] = B!Says({})
<1>1. {} \in SUBSET Rules
  OBVIOUS
<1> QED BY <1>1, NewRepresents, AnswersOfRules

\* A process without files is an empty book that nobody has read.
LEMMA RuleBookInit == Init => B!Init
<1> SUFFICES ASSUME Init PROVE B!Init
  OBVIOUS
<1>1. Book = [s \in Sets |-> {}]
  BY RulesetAssumption DEF Init, Book, Decodable
<1>2. Answers = B!Says({})
  BY FirstAnswers DEF Init, Answers
<1>3. ~Settled
  BY DEF Init, Settled
<1> QED BY <1>1, <1>2, <1>3 DEF B!Init

\* Steps that leave the files, the active matcher and the wait of Run alone.
LEMMA RuleBookStutter ==
  ASSUME UNCHANGED <<file, active>>, Settled' = Settled
  PROVE  UNCHANGED B!vars
BY DEF B!vars, Book, Answers

\* A download ends: one set replaces its rules, and nobody is told.
LEMMA DownloadRevises ==
  ASSUME TypeOK, NEW s \in Sets, DownloadOk(s)
  PROVE  \E R \in Books[s] : B!Revise(s, R)
<1> DEFINE R == IF remote[s] \in Decodable THEN RulesOf(s, remote[s]) ELSE {}
<1>1. /\ remote[s] \in Contents /\ file \in [Sets -> Contents \cup {None}]
      /\ file' = [file EXCEPT ![s] = remote[s]]
      /\ pc = "refresh" /\ pc' = pc /\ active' = active
  BY DEF DownloadOk, TypeOK
<1>2. R \in Books[s]
  BY DEF Books
<1>3. Book' = [Book EXCEPT ![s] = R]
  <2> HIDE DEF R
  <2>1. ASSUME NEW t \in Sets PROVE Book'[t] = [Book EXCEPT ![s] = R][t]
    <3>1. CASE t = s
      BY <1>1, <3>1 DEF Book, R
    <3>2. CASE t # s
      BY <1>1, <3>2 DEF Book
    <3> QED BY <3>1, <3>2
  <2>2. /\ Book' = [t \in Sets |-> Book'[t]]
        /\ [Book EXCEPT ![s] = R] = [t \in Sets |-> [Book EXCEPT ![s] = R][t]]
    BY DEF Book
  <2> QED BY <2>1, <2>2
<1>4. Answers' = Answers
  BY <1>1 DEF Answers
<1>5. ~Settled /\ Settled' = Settled
  BY <1>1 DEF Settled
<1>6. B!Revise(s, R)
  BY <1>3, <1>4, <1>5 DEF B!Revise
<1> QED BY <1>2, <1>6

\* The swap publishes the whole book.
LEMMA SwapPublishes ==
  ASSUME RulesetInv, Swap
  PROVE  B!Publish
<1>1. FileRules \in SUBSET Rules
  BY FileRulesWellFormed DEF RulesetInv
<1>2. Represents(building, FileRules)
  <2>1. FileRules \ todo = FileRules /\ Represents(building, FileRules \ todo)
    BY DEF Swap, RulesetInv, BuildInv
  <2> QED BY <2>1
<1>3. Answers' = B!Says(B!Whole)
  BY <1>1, <1>2, AnswersOfRules, BookIsFileRules DEF Swap, Answers
<1>4. ~Settled /\ Settled' /\ Book' = Book
  BY DEF Swap, Settled, Book
<1> QED BY <1>3, <1>4 DEF B!Publish

\* A process that starts or ends forgets the answers and keeps the files.
LEMMA FreshRestarts ==
  ASSUME NEW st \in {"refresh", "down"}, Fresh(st), UNCHANGED file
  PROVE  B!Restart
<1>1. Answers' = B!Says({})
  BY FirstAnswers DEF Fresh, Answers
<1>2. Book' = Book /\ Settled' = FALSE
  BY DEF Fresh, Book, Settled
<1> QED BY <1>1, <1>2 DEF B!Restart

\* Every step of the manager is a step of the rule book, or none.
LEMMA RuleBookStep ==
  ASSUME RulesetInv, [Next]_vars
  PROVE  [B!Next]_B!vars
<1> USE DEF sourceVars, buildVars, runVars, tickVars, reloadVars
<1>0. TypeOK
  BY DEF RulesetInv
<1>1. CASE Start
  BY <1>1, FreshRestarts DEF Start, B!Next
<1>2. CASE Crash
  BY <1>2, FreshRestarts DEF Crash, B!Next
<1>3. ASSUME NEW s \in Sets, DownloadOk(s) PROVE B!Next
  BY <1>0, <1>3, DownloadRevises DEF B!Next
<1>4. CASE Swap
  BY <1>4, SwapPublishes DEF B!Next
<1>5. CASE ServeReload \/ ServeTick
  <2>1. Book' = Book /\ Answers' = Answers /\ Settled /\ Settled' = FALSE
    BY <1>5 DEF ServeReload, ServeTick, Book, Answers, Settled
  <2> QED BY <2>1 DEF B!Next, B!Refresh
<1>6. ASSUME NEW s \in Sets,
             (\E c \in Contents : Publish(s, c)) \/ DownloadFails(s) \/ Fires(s) \/ Sends(s) \/ Leaves(s)
      PROVE  UNCHANGED B!vars
  <2>1. UNCHANGED <<file, active, pc>>
    BY <1>6 DEF Publish, DownloadFails, Fires, Sends, Leaves
  <2> QED BY <2>1, RuleBookStutter DEF Settled
<1>7. CASE Cancel \/ TriggerReload \/ BuildBegins \/ (\E r \in todo : AddRule(r)) \/ StopBegins \/ RunStops
  <2>1. UNCHANGED <<file, active>> /\ Settled' = Settled
    BY <1>7 DEF Cancel, TriggerReload, BuildBegins, AddRule, StopBegins, RunStops, Settled
  <2> QED BY <2>1, RuleBookStutter
<1>8. CASE UNCHANGED vars
  BY <1>8, RuleBookStutter DEF vars, Settled
<1> QED BY <1>1, <1>2, <1>3, <1>4, <1>5, <1>6, <1>7, <1>8 DEF Next, RunStep, BuildStep, RefreshStep

\* The manager implements the rule book: queries only ever see the answers of
\* whole sets of rules, and between two refreshes those of the files.
THEOREM RulesetImplementsRuleBook == Spec => ImplementsRuleBook
<1>1. RulesetInv /\ [Next]_vars => [B!Next]_B!vars
  BY RuleBookStep
<1> QED BY RuleBookInit, <1>1, RulesetInvariant, PTL DEF Spec, ImplementsRuleBook, B!Spec

---------------------------------------------------------------------------
(* Queries at any moment *)

\* The rules of the sets whose cached files would be g.
RulesOfFiles(g) == UNION {RulesOf(s, g[s]) : s \in {s \in Sets : g[s] \in Decodable}}

\* At any moment, in a refresh, before the first one and after a crash too, a
\* query is answered from a whole file, or none, of every set.
WholeAnswers ==
  \E g \in [Sets -> Contents \cup {None}] :
    RulesOfFiles(g) \subseteq Rules /\ Represents(active, RulesOfFiles(g))

\* Without files there are no rules.
LEMMA NoFilesAnswer == active' = NewMatcher => WholeAnswers'
<1> DEFINE g == [s \in Sets |-> None]
<1>1. g \in [Sets -> Contents \cup {None}] /\ RulesOfFiles(g) = {}
  BY RulesetAssumption DEF RulesOfFiles, Decodable
<1> QED BY <1>1, NewRepresents DEF WholeAnswers

\* The active matcher changes by a swap, or with the process.
LEMMA WholeAnswersKept ==
  ASSUME RulesetInv, WholeAnswers, [Next]_vars
  PROVE  WholeAnswers'
<1> USE DEF sourceVars, buildVars, runVars, tickVars, reloadVars
<1>1. CASE active' = active
  BY <1>1 DEF WholeAnswers
<1>2. CASE Swap
  <2>1. FileRules = RulesOfFiles(file) /\ FileRules \subseteq Rules /\ FileRules \ todo = FileRules
    BY <1>2, FileRulesWellFormed DEF FileRules, RulesOfFiles, Swap, RulesetInv
  <2>2. Represents(active', RulesOfFiles(file)) /\ file \in [Sets -> Contents \cup {None}]
    BY <1>2, <2>1 DEF Swap, RulesetInv, BuildInv, TypeOK
  <2> QED BY <2>1, <2>2 DEF WholeAnswers
<1>3. CASE Start \/ Crash
  BY <1>3, NoFilesAnswer DEF Start, Crash, Fresh
<1>4. Swap \/ Start \/ Crash \/ active' = active
  BY DEF Next, RunStep, BuildStep, RefreshStep, Publish, Cancel, DownloadOk, DownloadFails, BuildBegins,
         AddRule, TriggerReload, ServeReload, ServeTick, StopBegins, RunStops, Fires, Sends, Leaves, vars
<1> QED BY <1>1, <1>2, <1>3, <1>4

\* Whatever refreshes, failures and restarts are going on, no query sees a
\* half-built matcher, or part of a set.
THEOREM AnswersFromWholeFiles == Spec => []WholeAnswers
<1>1. Init => WholeAnswers
  <2> SUFFICES ASSUME Init PROVE WholeAnswers
    OBVIOUS
  <2> DEFINE g == [s \in Sets |-> None]
  <2>1. g \in [Sets -> Contents \cup {None}] /\ RulesOfFiles(g) = {}
    BY RulesetAssumption DEF RulesOfFiles, Decodable
  <2> QED BY <2>1, NewRepresents DEF Init, WholeAnswers
<1>2. RulesetInv /\ WholeAnswers /\ [Next]_vars => WholeAnswers'
  BY WholeAnswersKept
<1> QED BY <1>1, <1>2, RulesetInvariant, PTL DEF Spec

\* What queries are told is, at any moment, a function from names to one of
\* the three actions or none: the form in which Resolver takes its matchers.
THEOREM AnswersAreVerdicts == Spec => [](Answers \in [Names -> Actions \cup {"none"}])
<1>1. WholeAnswers => Answers \in [Names -> Actions \cup {"none"}]
  <2> SUFFICES ASSUME WholeAnswers, NEW d \in Names PROVE Lookup(active, d) \in Actions \cup {"none"}
    BY DEF Answers
  <2>1. PICK R \in SUBSET Rules : Represents(active, R)
    BY DEF WholeAnswers
  <2>2. Lookup(active, d) = Highest(Matching(R, d))
    BY <2>1, LookupDecides DEF Decision, Matching
  <2>3. Matching(R, d) \in SUBSET Actions
    BY DEF Matching, Rules
  <2> QED BY <2>2, <2>3, HighestIsHighest
<1> QED BY <1>1, AnswersFromWholeFiles, PTL

---------------------------------------------------------------------------
(* After the shutdown *)

\* Run waits only in a process that is being stopped, and ends after the
\* timers.
StopInv == /\ pc \in {"waiting", "stopped"} => mode = "stopping"
           /\ pc = "stopped" => \A s \in Sets : ticker[s] \in {"off", "gone"}

\* No later step undoes this but the end of the process.
LEMMA StopInvKept ==
  ASSUME TypeOK, StopInv, [Next]_vars
  PROVE  StopInv'
<1> USE DEF sourceVars, buildVars, runVars, tickVars, reloadVars
<1>1. CASE Start \/ Crash
  BY <1>1 DEF Start, Crash, Fresh, StopInv
<1>2. CASE Cancel \/ TriggerReload \/ UNCHANGED vars
  BY <1>2 DEF Cancel, TriggerReload, vars, StopInv
<1>3. CASE BuildStep \/ ServeReload \/ ServeTick \/ StopBegins \/ RunStops
  BY <1>3 DEF BuildStep, BuildBegins, AddRule, Swap, ServeReload, ServeTick, StopBegins, RunStops, StopInv
<1>4. ASSUME NEW s \in Sets, (\E c \in Contents : Publish(s, c)) \/ RefreshStep(s) PROVE StopInv'
  BY <1>4 DEF Publish, RefreshStep, DownloadOk, DownloadFails, StopInv
<1>5. ASSUME NEW s \in Sets, Fires(s) \/ Sends(s) \/ Leaves(s) PROVE StopInv'
  BY <1>5 DEF Fires, Sends, Leaves, StopInv, TypeOK
<1> QED BY <1>1, <1>2, <1>3, <1>4, <1>5 DEF Next, RunStep

\* Once Run has returned, no download, rebuild, swap or tick comes from the
\* manager any more, until the process ends.
QuietAfterStop == [][pc = "stopped" => UNCHANGED <<file, runVars, tickVars>> \/ mode' = "down"]_vars

\* Run waits for all its goroutines: for any sets, timers and schedule nothing
\* they do comes after its return.
THEOREM NothingAfterRun == Spec => QuietAfterStop
<1> DEFINE Quiet == pc = "stopped" => UNCHANGED <<file, runVars, tickVars>> \/ mode' = "down"
<1>1. Init => StopInv
  BY DEF Init, StopInv
<1>2. RulesetInv /\ StopInv /\ [Next]_vars => StopInv'
  BY StopInvKept DEF RulesetInv
<1>3. StopInv /\ [Next]_vars => [Quiet]_vars
  <2> SUFFICES ASSUME StopInv, Next, pc = "stopped" PROVE UNCHANGED <<file, runVars, tickVars>> \/ mode' = "down"
    OBVIOUS
  <2>1. mode = "stopping" /\ \A s \in Sets : ticker[s] \notin {"waiting", "sending"}
    BY DEF StopInv
  <2>2. CASE Start \/ Cancel \/ Crash \/ TriggerReload
    BY <2>1, <2>2 DEF Start, Cancel, Crash, TriggerReload
  <2>3. ~RunStep
    BY DEF RunStep, BuildStep, BuildBegins, AddRule, Swap, ServeReload, ServeTick, StopBegins, RunStops
  <2>4. ASSUME NEW s \in Sets PROVE ~(RefreshStep(s) \/ Fires(s) \/ Sends(s) \/ Leaves(s))
    BY <2>1 DEF RefreshStep, DownloadOk, DownloadFails, Fires, Sends, Leaves
  <2>5. ASSUME NEW s \in Sets, NEW c \in Contents, Publish(s, c) PROVE UNCHANGED <<file, runVars, tickVars>>
    BY <2>5 DEF Publish
  <2> QED BY <2>2, <2>3, <2>4, <2>5 DEF Next
<1>4. Spec => [][Quiet]_vars
  BY <1>1, <1>2, <1>3, RulesetInvariant, PTL DEF Spec
<1> QED BY <1>4 DEF QuietAfterStop
=============================================================================
