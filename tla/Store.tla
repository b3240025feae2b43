-------------------------------- MODULE Store --------------------------------
(***************************************************************************)
(* What the status page of the relocator is fed from (cmd/relocator:       *)
(* store.go): the counters of every bucket and the ring of events, two     *)
(* buckets of one bolt database.  The pollers write them one transaction   *)
(* after the other while an object goes through the pipeline               *)
(* (pipeline.go) and ignore every error.  A transaction happens as a       *)
(* whole or not at all, and mu and bolt admit one at a time.               *)
(*                                                                         *)
(* An event is its sequence number.  posted and postFailed, which the code *)
(* raises by numbers of files, are raised by one here.                     *)
(***************************************************************************)
EXTENDS Integers, FiniteSets

CONSTANTS
  Buckets,    \* configured source buckets
  EventLogs,  \* what event_log may be set to, 0 or less for no limit
  Held,       \* how many events a database of earlier runs may hold
  PageSize,   \* events on the status page
  MaxPasses,  \* bound on the passes over objects
  MaxFaults   \* bound on failed transactions

ASSUME StoreAssumption ==
  /\ EventLogs \subseteq Int
  /\ Held \subseteq Nat
  /\ PageSize \in Nat \ {0}
  /\ MaxPasses \in Nat
  /\ MaxFaults \in Nat

VARIABLES
  open,     \* bolt is open
  logCap,   \* the event_log it was opened with
  events,   \* keys of the bucket "events"
  lastSeq,  \* the sequence of that bucket
  stats,    \* stats[b]: the counters of bucket b
  stage,    \* stage[b]: how far the poller of b has come with an object
  lost,     \* lost[b]: updates of the counters of b that were not stored
  passes,   \* passes begun so far
  faults    \* failed transactions so far

ringVars == <<events, lastSeq>>
vars     == <<open, logCap, ringVars, stats, stage, lost, passes, faults>>

Counters == {"downloaded", "extracted", "posted", "deleted", "skipped", "downloadFailed",
             "extractFailed", "passwordFailed", "postFailed"}

Stages == {"idle", "large", "report", "fetched", "unpacked", "warn", "partial", "sent", "recorded"}

\* AppendEvent and MarkProcessed as writes; any other write raises counters.
Event  == {"event"}
Record == {"record"}

Write(from, what, to) == [from |-> from, what |-> what, to |-> to]

\* Variant: a wrong password is reported and not counted.
Writes_Uncounted ==
  {Write("idle", {"downloaded"}, "fetched"),
   Write("fetched", Event, "idle"),
   Write("fetched", {"extracted"}, "unpacked")}

\* The transactions of a pass over an object, in the order of the code.
Writes ==
  {\* list error; processed before; too large; download error
   Write("idle", Event, "idle"),
   Write("idle", {"skipped"}, "idle"),
   Write("idle", Event, "large"),
   Write("large", {"skipped"}, "idle"),
   Write("idle", {"downloadFailed"}, "report"),
   Write("report", Event, "idle"),
   \* downloaded, and extracted or not
   Write("idle", {"downloaded"}, "fetched"),
   Write("fetched", {"extractFailed"}, "report"),
   Write("fetched", {"passwordFailed"}, "report"),
   Write("fetched", {"extracted"}, "unpacked"),
   \* some files given up
   Write("unpacked", {"posted", "postFailed"}, "warn"),
   Write("unpacked", {"postFailed"}, "warn"),
   Write("warn", Event, "partial"),
   Write("partial", Record, "idle"),
   \* all files accepted, perhaps none, and deleted or not
   Write("unpacked", {"posted"}, "sent"),
   Write("unpacked", {}, "sent"),
   Write("sent", Record, "idle"),
   Write("sent", Record, "recorded"),
   Write("recorded", {"deleted"}, "report"),
   Write("recorded", Event, "idle")}

---------------------------------------------------------------------------
(* The ring of events *)

\* Members of S above e.
Above(S, e) == {f \in S : f > e}

\* The n largest members of S.
Newest(S, n) == {e \in S : Cardinality(Above(S, e)) < n}

\* RecentEvents, for the status page.
RecentEvents == Newest(events, PageSize)

\* Bucket.Stats counts committed keys, not the one that was just put.
KeyN == Cardinality(events)

\* Members of S strictly between d and e.
Between(S, d, e) == {f \in S : d < f /\ f < e}

\* Variant: the loop ends after one event.
Deletes_One(S, D, excess) == /\ D \in SUBSET S
                             /\ Cardinality(D) = 1
                             /\ \A d \in D : Above(S, d) = S \ {d}

\* Variant: the cursor starts at the newest key and goes back.
Deletes_Newest(S, D, excess) == D = Newest(S, excess)

\* Delete along the cursor: it starts at the oldest key and, since a deletion
\* moves the keys of a page, Next may pass over one key each time.
Deletes(S, D, excess) ==
  /\ D \in SUBSET S
  /\ D # {}
  /\ Cardinality(D) <= excess
  /\ \A e \in D : \/ \A f \in S : e <= f
                  \/ \E d \in D : d < e /\ Cardinality(Between(S, d, e)) <= 1
  /\ Cardinality(D) < excess => \E d \in D : Cardinality(Above(S, d)) <= 1

\* trimEventsLocked: what is deleted of S.
Trimmed(S) == LET excess == KeyN - logCap IN
  IF logCap <= 0 \/ excess <= 0 THEN {{}} ELSE {D \in SUBSET S : Deletes(S, D, excess)}

\* AppendEvent
Append == LET S == events \cup {lastSeq + 1} IN
  /\ lastSeq' = lastSeq + 1
  /\ \E D \in Trimmed(S) : events' = S \ D

---------------------------------------------------------------------------
(* Pollers *)

\* Poller b is about to make write w.
Writing(b, w) == /\ stage[b] = w.from
                 /\ w.from = "idle" => passes < MaxPasses
                 /\ stage' = [stage EXCEPT ![b] = w.to]
                 /\ passes' = IF w.from = "idle" THEN passes + 1 ELSE passes

\* AppendEvent, MarkProcessed or UpdateStats.
Commit(b, w) ==
  /\ open
  /\ Writing(b, w)
  /\ IF w.what = Event THEN Append /\ UNCHANGED stats
     ELSE /\ stats' = [stats EXCEPT ![b] = [c \in Counters |-> IF c \in w.what THEN @[c] + 1 ELSE @[c]]]
          /\ UNCHANGED ringVars
  /\ UNCHANGED <<open, logCap, lost, faults>>

\* The transaction fails, or bolt is closed already; the poller goes on.
Drop(b, w) ==
  /\ Writing(b, w)
  /\ IF open THEN faults < MaxFaults /\ faults' = faults + 1 ELSE UNCHANGED faults
  /\ lost' = [lost EXCEPT ![b] = IF w.what \in {Event, Record} THEN @ ELSE @ + 1]
  /\ UNCHANGED <<open, logCap, ringVars, stats>>

---------------------------------------------------------------------------
(* Lifecycle *)

\* shutdownOnContext
Close == /\ open
         /\ open' = FALSE
         /\ UNCHANGED <<logCap, ringVars, stats, stage, lost, passes, faults>>

\* Variant: sequence numbers start anew.
Open_Renumbers(n) == /\ open' = TRUE
                     /\ logCap' = n
                     /\ lastSeq' = 0
                     /\ stage' = [b \in Buckets |-> "idle"]
                     /\ UNCHANGED <<events, stats, lost, passes, faults>>

\* The process ends, shut down or not, and a new one opens the database with
\* its own event_log; a download in hand is never accounted for.
Open(n) == /\ open' = TRUE
           /\ logCap' = n
           /\ stage' = [b \in Buckets |-> "idle"]
           /\ lost' = [b \in Buckets |-> IF stage[b] = "fetched" THEN lost[b] + 1 ELSE lost[b]]
           /\ UNCHANGED <<ringVars, stats, passes, faults>>

Init == /\ open = TRUE
        /\ logCap \in EventLogs
        /\ \E n \in Held : events = 1..n /\ lastSeq = n
        /\ stats = [b \in Buckets |-> [c \in Counters |-> 0]]
        /\ stage = [b \in Buckets |-> "idle"]
        /\ lost = [b \in Buckets |-> 0]
        /\ passes = 0
        /\ faults = 0

Next == \/ \E b \in Buckets, w \in Writes : Commit(b, w) \/ Drop(b, w)
        \/ Close
        \/ \E n \in EventLogs : Open(n)

Spec == Init /\ [][Next]_vars

---------------------------------------------------------------------------
(* Properties *)

TypeOK == /\ open \in BOOLEAN
          /\ logCap \in EventLogs
          /\ lastSeq \in Nat
          /\ events \subseteq 1..lastSeq
          /\ stats \in [Buckets -> [Counters -> Nat]]
          /\ stage \in [Buckets -> Stages]
          /\ lost \in [Buckets -> Nat]
          /\ passes \in 0..MaxPasses
          /\ faults \in 0..MaxFaults

\* How often extraction ended, one way or another.
Outcomes(b) == stats[b]["extracted"] + stats[b]["extractFailed"] + stats[b]["passwordFailed"]

InHand(b) == IF stage[b] = "fetched" THEN 1 ELSE 0

\* The totals of the page fit together: every download is counted once more,
\* as extracted or as failed, or is in hand, up to the updates that were lost;
\* and no more objects are deleted than were extracted.
CountersAgree == \A b \in Buckets :
  /\ stats[b]["downloaded"] <= Outcomes(b) + InHand(b) + lost[b]
  /\ Outcomes(b) + InHand(b) <= stats[b]["downloaded"] + lost[b]
  /\ stats[b]["deleted"] <= stats[b]["extracted"] + lost[b]

\* An event never pushes a newer one out: while no more than one event is over
\* the limit, the event_log newest stay, what goes is older than all that stays,
\* and the new event is on the page; a ring without a limit keeps all.
KeepsNewest ==
  [][lastSeq' # lastSeq => LET S == events \cup {lastSeq'} IN
       /\ logCap <= 0 => events' = S
       /\ logCap > 0 /\ Cardinality(events) <= logCap + 1 =>
            /\ Newest(S, logCap) \subseteq events'
            /\ \A e \in S \ events', f \in events' : e < f
            /\ lastSeq' \in RecentEvents']_vars

\* "Size of the ring buffer of events" (event_log): an event that is appended
\* to a ring within its size leaves it within its size. trimEventsLocked counts
\* without the event just put, so the ring settles at one more.
RingFits ==
  [][lastSeq' # lastSeq /\ logCap > 0 /\ Cardinality(events) <= logCap =>
       Cardinality(events') <= logCap]_vars

\* A ring left too long by a larger event_log gets shorter with every event,
\* however the cursor moves, and never so short that event_log events are gone.
OverfullShrinks ==
  [][lastSeq' # lastSeq /\ logCap > 0 /\ Cardinality(events) > logCap + 1 =>
       /\ Cardinality(events') < Cardinality(events)
       /\ Cardinality(events') >= logCap]_vars
=============================================================================
