------------------------------ MODULE Relocator -----------------------------
(***************************************************************************)
(* The relocator subcommand (cmd/relocator): one poller per source bucket  *)
(* lists the bucket, and takes every new archive through                   *)
(*    dedup -> download -> extract -> POST -> record -> delete.            *)
(*                                                                         *)
(* One action per step whose effects other processes can see: a request to *)
(* the bucket or to the ingest service, a change of a work file, a         *)
(* transaction of the store.  Producers, operators, network failures,      *)
(* shutdown and crashes interleave with every step.                        *)
(***************************************************************************)
EXTENDS Naturals

CONSTANTS
  Buckets,      \* configured buckets (svc.buckets)
  Keys,         \* object keys
  Versions,     \* contents an object may have; a content is its own etag
  None,         \* no object, no work file, nothing in hand
  Partial,      \* content of a work file whose download has not ended
  Mixed,        \* content of a work file two downloads wrote at once
  FileCount,    \* FileCount[v]: JSON files ExtractJSON finds in content v
  Readable,     \* contents ExtractJSON accepts (format, password, entry size)
  TooLarge,     \* contents larger than max_size
  Matching,     \* Matching[b]: keys that pass prefix and pattern of bucket b
  DeleteAfter,  \* DeleteAfter[b]: delete_after of bucket b
  WorkPath,     \* WorkPath[b][k]: work file of object k of bucket b
  Quarantine,   \* a quarantine directory is configured
  Overwrites,   \* producers may overwrite an object that is still in a bucket
  Retries,      \* post.retries
  MaxFaults     \* bound on failures, cancellations and crashes

ASSUME ConstantsAssumption ==
  /\ None \notin Versions /\ Partial \notin Versions /\ Mixed \notin Versions
  /\ None # Partial /\ None # Mixed
  /\ FileCount \in [Versions -> Nat]
  /\ Readable \subseteq Versions
  /\ TooLarge \subseteq Versions
  /\ Matching \in [Buckets -> SUBSET Keys]
  /\ DeleteAfter \in [Buckets -> BOOLEAN]
  /\ Quarantine \in BOOLEAN
  /\ Overwrites \in BOOLEAN
  /\ Retries \in Nat
  /\ MaxFaults \in Nat

VARIABLES
  s3,           \* s3[b][k]: content of object k in bucket b, or None
  mode,         \* "up", "stopping" (lifecycle context cancelled) or "down"
  store,        \* the bolt database: "open" or "closed"
  processed,    \* processed[b][k]: the ProcessedEntry of the object (on disk)
  pc,           \* pc[b]: where the poller of bucket b is
  todo,         \* todo[b]: listed objects the current poll has not visited
  cur,          \* cur[b]: the object in hand
  got,          \* got[b]: the content ExtractJSON read for it
  sent,         \* sent[b]: files of it sendFiles is done with
  attempt,      \* attempt[b]: retries made for the next file
  failed,       \* failed[b]: a file of it was given up (postFailed > 0)
  trigger,      \* buckets whose trigger channel (capacity 1) holds a token
  work,         \* work[p]: content of the file at path p of the work directory
  writing,      \* buckets whose open download file is the one at its path
  leftover,     \* work files that survived the end of the process
  quarantined,  \* contents moved to the quarantine directory, by object key
  received,     \* files <<b, k, v, i>> the ingest service accepted
  removed,      \* objects <<b, k, v>> deleted from their bucket
  faults        \* failures so far, up to MaxFaults

objectVars == <<cur, got, sent, attempt, failed>>
pollerVars == <<pc, todo, objectVars>>
diskVars   == <<work, writing, leftover, quarantined>>
outerVars  == <<s3, received, removed>>
modeVars   == <<mode, store, trigger>>
vars       == <<modeVars, pollerVars, diskVars, outerVars, processed, faults>>

Object == [key : Keys, etag : Versions]
Paths  == {WorkPath[b][k] : b \in Buckets, k \in Keys}
Entry  == [etag : Versions \cup {None}, status : {"none", "partial", "ok"}]
Stages == {"create", "copy", "extract", "post", "remove", "clean"}
States == Stages \cup {"first", "idle", "listing", "stopped", "down"}

\* Path of the work file of the object in hand.
Path(b) == WorkPath[b][cur[b].key]

\* Variant: any record of the etag counts, a partial one too.
IsProcessed_AnyStatus(b, o) == processed[b][o.key].etag = o.etag

\* Store.IsProcessed: the same etag was recorded with status "ok".
IsProcessed(b, o) == processed[b][o.key] = [etag |-> o.etag, status |-> "ok"]

\* Variant: an error of the dedup lookup does not stop the object.
Skipped_LookupErrorIgnored(b, o) == (store = "open" /\ IsProcessed(b, o)) \/ o.etag \in TooLarge

\* handleObject returns early: no store to ask, already done, or too large.
Skipped(b, o) == store = "closed" \/ IsProcessed(b, o) \/ o.etag \in TooLarge

\* What ListObjects and objectMatches let the poll visit.
Listing(b) == {o \in Object : o.key \in Matching[b] /\ s3[b][o.key] = o.etag}

\* A failure spends the budget, except those a cancelled context forces.
Fault == \/ mode = "stopping" /\ UNCHANGED faults
         \/ mode = "up" /\ faults < MaxFaults /\ faults' = faults + 1

\* The file at path p goes away: whoever still writes it writes to a file
\* without a name.
Unlink(p) == /\ work' = [work EXCEPT ![p] = None]
             /\ writing' = {a \in writing : Path(a) # p}

\* handleObject returns to the loop over the listing.
ObjectDone(b) == /\ pc' = [pc EXCEPT ![b] = "listing"]
                 /\ cur' = [cur EXCEPT ![b] = None]
                 /\ got' = [got EXCEPT ![b] = None]
                 /\ sent' = [sent EXCEPT ![b] = 0]
                 /\ attempt' = [attempt EXCEPT ![b] = 0]
                 /\ failed' = [failed EXCEPT ![b] = FALSE]

\* The process is gone, with everything it held in memory.
ProcessEnds == /\ mode' = "down"
               /\ store' = "closed"
               /\ trigger' = {}
               /\ pc' = [b \in Buckets |-> "down"]
               /\ todo' = [b \in Buckets |-> {}]
               /\ cur' = [b \in Buckets |-> None]
               /\ got' = [b \in Buckets |-> None]
               /\ sent' = [b \in Buckets |-> 0]
               /\ attempt' = [b \in Buckets |-> 0]
               /\ failed' = [b \in Buckets |-> FALSE]
               /\ writing' = {}
               /\ leftover' = {p \in Paths : work[p] # None}
               /\ UNCHANGED <<work, quarantined, outerVars, processed>>

Init == /\ s3 = [b \in Buckets |-> [k \in Keys |-> None]]
        /\ mode = "down"
        /\ store = "closed"
        /\ processed = [b \in Buckets |-> [k \in Keys |-> [etag |-> None, status |-> "none"]]]
        /\ pc = [b \in Buckets |-> "down"]
        /\ todo = [b \in Buckets |-> {}]
        /\ cur = [b \in Buckets |-> None]
        /\ got = [b \in Buckets |-> None]
        /\ sent = [b \in Buckets |-> 0]
        /\ attempt = [b \in Buckets |-> 0]
        /\ failed = [b \in Buckets |-> FALSE]
        /\ trigger = {}
        /\ work = [p \in Paths |-> None]
        /\ writing = {}
        /\ leftover = {}
        /\ quarantined = {}
        /\ received = {}
        /\ removed = {}
        /\ faults = 0

---------------------------------------------------------------------------
(* Process lifecycle and environment *)

\* Start: the store is opened and every poller begins with a poll.
Start == /\ mode = "down"
         /\ mode' = "up"
         /\ store' = "open"
         /\ pc' = [b \in Buckets |-> "first"]
         /\ UNCHANGED <<trigger, todo, objectVars, diskVars, outerVars, processed, faults>>

\* A signal or app.Cancel cancels the lifecycle context.
Cancel == /\ mode = "up"
          /\ faults < MaxFaults
          /\ mode' = "stopping"
          /\ faults' = faults + 1
          /\ UNCHANGED <<store, trigger, pollerVars, diskVars, outerVars, processed>>

\* shutdownOnContext closes the store; it waits for no poller.
StoreClose == /\ mode = "stopping"
              /\ store = "open"
              /\ store' = "closed"
              /\ UNCHANGED <<mode, trigger, pollerVars, diskVars, outerVars, processed, faults>>

\* os.Exit at the end of a shutdown; it may find pollers at work (pkg/app).
Exit == mode = "stopping" /\ ProcessEnds /\ UNCHANGED faults

Crash == /\ mode = "up"
         /\ faults < MaxFaults
         /\ faults' = faults + 1
         /\ ProcessEnds

\* A producer stores an object.
Upload(b, k, v) == /\ s3[b][k] # v
                   /\ Overwrites \/ s3[b][k] = None
                   /\ s3' = [s3 EXCEPT ![b][k] = v]
                   /\ UNCHANGED <<modeVars, pollerVars, diskVars, received, removed, processed, faults>>

\* POST /api/buckets/:name/poll: a token, unless one is waiting.
TriggerPoll(b) == /\ mode = "up"
                  /\ trigger' = trigger \cup {b}
                  /\ UNCHANGED <<mode, store, pollerVars, diskVars, outerVars, processed, faults>>

---------------------------------------------------------------------------
(* The poller of bucket b *)

\* pollOnce asks for the listing; a cancelled context gets none.
BeginPoll(b) == /\ pc' = [pc EXCEPT ![b] = "listing"]
                /\ todo' = [todo EXCEPT ![b] = IF mode = "up" THEN Listing(b) ELSE {}]
                /\ UNCHANGED <<mode, store, objectVars, diskVars, outerVars, processed, faults>>

FirstPoll(b) == pc[b] = "first" /\ BeginPoll(b) /\ UNCHANGED trigger

TickPoll(b) == pc[b] = "idle" /\ BeginPoll(b) /\ UNCHANGED trigger

\* Variant: the loop of the poller lost its trigger case.
TriggeredPoll_FirstOnly(b) == /\ pc[b] = "first"
                              /\ b \in trigger
                              /\ trigger' = trigger \ {b}
                              /\ BeginPoll(b)

TriggeredPoll(b) == /\ pc[b] = "idle"
                    /\ b \in trigger
                    /\ trigger' = trigger \ {b}
                    /\ BeginPoll(b)

\* The listing is used up, or an error entry breaks the loop.
EndPoll(b) == /\ pc[b] = "listing"
              /\ IF todo[b] = {} THEN UNCHANGED faults ELSE Fault
              /\ pc' = [pc EXCEPT ![b] = "idle"]
              /\ todo' = [todo EXCEPT ![b] = {}]
              /\ UNCHANGED <<modeVars, objectVars, diskVars, outerVars, processed>>

SkipObject(b) == /\ pc[b] = "listing"
                 /\ \E o \in todo[b] : Skipped(b, o) /\ todo' = [todo EXCEPT ![b] = @ \ {o}]
                 /\ UNCHANGED <<modeVars, pc, objectVars, diskVars, outerVars, processed, faults>>

BeginObject(b) == /\ pc[b] = "listing"
                  /\ \E o \in todo[b] :
                        /\ ~Skipped(b, o)
                        /\ todo' = [todo EXCEPT ![b] = @ \ {o}]
                        /\ cur' = [cur EXCEPT ![b] = o]
                  /\ pc' = [pc EXCEPT ![b] = "create"]
                  /\ UNCHANGED <<modeVars, got, sent, attempt, failed, diskVars, outerVars, processed, faults>>

\* downloadObject opens the work file, truncating the one already there.
CreateTemp(b) == /\ pc[b] = "create"
                 /\ work' = [work EXCEPT ![Path(b)] = Partial]
                 /\ writing' = writing \cup {b}
                 /\ leftover' = leftover \ {Path(b)}
                 /\ pc' = [pc EXCEPT ![b] = "copy"]
                 /\ UNCHANGED <<modeVars, todo, objectVars, quarantined, outerVars, processed, faults>>

CreateFails(b) == /\ pc[b] = "create"
                  /\ Fault
                  /\ ObjectDone(b)
                  /\ UNCHANGED <<modeVars, todo, diskVars, outerVars, processed>>

\* GetObject and io.Copy: the content the key has now, whatever was listed.
CopyObject(b) == LET v == s3[b][cur[b].key] IN
                 /\ pc[b] = "copy"
                 /\ mode = "up"
                 /\ v # None
                 /\ IF b \notin writing THEN UNCHANGED work
                    ELSE \E c \in {v, Mixed} :
                           /\ c = Mixed => \/ work[Path(b)] # Partial
                                           \/ \E a \in writing \ {b} : Path(a) = Path(b)
                           /\ work' = [work EXCEPT ![Path(b)] = c]
                 /\ writing' = writing \ {b}
                 /\ pc' = [pc EXCEPT ![b] = "extract"]
                 /\ UNCHANGED <<modeVars, todo, objectVars, leftover, quarantined, outerVars, processed, faults>>

\* Variant: the error of io.Copy is ignored.
CopyFails_Ignored(b) == /\ pc[b] = "copy"
                        /\ Fault
                        /\ writing' = writing \ {b}
                        /\ pc' = [pc EXCEPT ![b] = "extract"]
                        /\ UNCHANGED <<modeVars, todo, objectVars, work, leftover, quarantined, outerVars, processed>>

CopyFails(b) == /\ pc[b] = "copy"
                /\ IF s3[b][cur[b].key] = None THEN UNCHANGED faults ELSE Fault
                /\ Unlink(Path(b))
                /\ ObjectDone(b)
                /\ UNCHANGED <<modeVars, todo, leftover, quarantined, outerVars, processed>>

\* What opening path p reads; a download in progress there may spoil it.
Contents(p) == {work[p]} \cup {Mixed : a \in {a \in writing : Path(a) = p}}

ExtractOk(b) == /\ pc[b] = "extract"
                /\ \E c \in Contents(Path(b)) \cap Readable : got' = [got EXCEPT ![b] = c]
                /\ pc' = [pc EXCEPT ![b] = "post"]
                /\ UNCHANGED <<modeVars, todo, cur, sent, attempt, failed, diskVars, outerVars, processed, faults>>

\* handleExtractError: the work file goes to quarantine if that works.
ExtractFails(b) == /\ pc[b] = "extract"
                   /\ \E c \in Contents(Path(b)) \ Readable :
                         \/ UNCHANGED diskVars
                         \/ /\ Quarantine /\ work[Path(b)] # None
                            /\ quarantined' = quarantined \cup {<<cur[b].key, c>>}
                            /\ Unlink(Path(b))
                            /\ UNCHANGED leftover
                   /\ pc' = [pc EXCEPT ![b] = "clean"]
                   /\ UNCHANGED <<modeVars, todo, objectVars, outerVars, processed, faults>>

\* The next file of the archive, as the ingest service sees it.
NextFile(b) == <<b, cur[b].key, got[b], sent[b] + 1>>

Posting(b) == pc[b] = "post" /\ sent[b] < FileCount[got[b]]

\* Variant: only the outcome of the last file counts.
FileDone_LastOnly(b, lost) == /\ sent' = [sent EXCEPT ![b] = @ + 1]
                              /\ attempt' = [attempt EXCEPT ![b] = 0]
                              /\ failed' = [failed EXCEPT ![b] = lost]

\* Send is done with the file; lost says it gave up.
FileDone(b, lost) == /\ sent' = [sent EXCEPT ![b] = @ + 1]
                     /\ attempt' = [attempt EXCEPT ![b] = 0]
                     /\ failed' = [failed EXCEPT ![b] = @ \/ lost]

\* Variant: one attempt too many.
MoreAttempts_OffByOne(b) == attempt[b] <= Retries

MoreAttempts(b) == attempt[b] < Retries

\* Variant: a 2xx answer does not end the attempts.
PostOk_TriesAgain(b) == /\ Posting(b)
                        /\ mode = "up"
                        /\ received' = received \cup {NextFile(b)}
                        /\ IF MoreAttempts(b) THEN attempt' = [attempt EXCEPT ![b] = @ + 1] /\ UNCHANGED <<sent, failed>>
                           ELSE FileDone(b, FALSE)
                        /\ UNCHANGED <<modeVars, pc, todo, cur, got, diskVars, s3, removed, processed, faults>>

\* A 2xx answer.
PostOk(b) == /\ Posting(b)
             /\ mode = "up"
             /\ received' = received \cup {NextFile(b)}
             /\ FileDone(b, FALSE)
             /\ UNCHANGED <<modeVars, pc, todo, cur, got, diskVars, s3, removed, processed, faults>>

\* Variant: a rejected file counts as handled.
PostRejected_Dropped(b) == /\ Posting(b)
                           /\ Fault
                           /\ FileDone(b, FALSE)
                           /\ UNCHANGED <<modeVars, pc, todo, cur, got, diskVars, outerVars, processed>>

\* A 4xx answer ends the attempts.
PostRejected(b) == /\ Posting(b)
                   /\ Fault
                   /\ FileDone(b, TRUE)
                   /\ UNCHANGED <<modeVars, pc, todo, cur, got, diskVars, outerVars, processed>>

\* A 5xx, 408 or 429 answer, a timeout or a broken connection is retried;
\* the service may have accepted the file all the same.
PostUnanswered(b) == /\ Posting(b)
                     /\ Fault
                     /\ \E accepted \in SUBSET {NextFile(b)} : received' = received \cup accepted
                     /\ \/ /\ MoreAttempts(b)
                           /\ attempt' = [attempt EXCEPT ![b] = @ + 1]
                           /\ UNCHANGED <<sent, failed>>
                        \/ /\ ~MoreAttempts(b) \/ mode = "stopping"
                           /\ FileDone(b, TRUE)
                     /\ UNCHANGED <<modeVars, pc, todo, cur, got, diskVars, s3, removed, processed>>

\* Variant: delete_after also deletes after a failed post.
DeleteWanted_Always(b) == DeleteAfter[b]

DeleteWanted(b) == ~failed[b] /\ DeleteAfter[b]

\* MarkProcessed, whose error is only logged, then the delete_after test.
Mark(b) == /\ pc[b] = "post"
           /\ sent[b] = FileCount[got[b]]
           /\ \/ /\ store = "open"
                 /\ processed' = [processed EXCEPT ![b][cur[b].key] =
                      [etag |-> cur[b].etag, status |-> IF failed[b] THEN "partial" ELSE "ok"]]
                 /\ UNCHANGED faults
              \/ Fault /\ UNCHANGED processed
           /\ pc' = [pc EXCEPT ![b] = IF DeleteWanted(b) THEN "remove" ELSE "clean"]
           /\ UNCHANGED <<modeVars, todo, objectVars, diskVars, outerVars>>

\* RemoveObject deletes whatever the key holds now.
Delete(b) == LET k == cur[b].key IN
             /\ s3' = [s3 EXCEPT ![b][k] = None]
             /\ removed' = removed \cup {<<b, k, v>> : v \in {s3[b][k]} \ {None}}

Remove(b) == /\ pc[b] = "remove"
             /\ mode = "up"
             /\ Delete(b)
             /\ pc' = [pc EXCEPT ![b] = "clean"]
             /\ UNCHANGED <<modeVars, todo, objectVars, diskVars, received, processed, faults>>

\* An error is only logged; the object may be gone all the same.
RemoveFails(b) == /\ pc[b] = "remove"
                  /\ Fault
                  /\ Delete(b) \/ UNCHANGED <<s3, removed>>
                  /\ pc' = [pc EXCEPT ![b] = "clean"]
                  /\ UNCHANGED <<modeVars, todo, objectVars, diskVars, received, processed>>

\* Variant: no deferred os.Remove; quarantine is expected to move the file.
Clean_NoRemove(b) == /\ pc[b] = "clean"
                     /\ ObjectDone(b)
                     /\ UNCHANGED <<modeVars, todo, diskVars, outerVars, processed, faults>>

\* The deferred os.Remove of the work file.
Clean(b) == /\ pc[b] = "clean"
            /\ Unlink(Path(b))
            /\ ObjectDone(b)
            /\ UNCHANGED <<modeVars, todo, leftover, quarantined, outerVars, processed, faults>>

\* runPoller sees the cancelled context.
PollerStops(b) == /\ pc[b] = "idle"
                  /\ mode = "stopping"
                  /\ pc' = [pc EXCEPT ![b] = "stopped"]
                  /\ UNCHANGED <<modeVars, todo, objectVars, diskVars, outerVars, processed, faults>>

PollerStep(b) == \/ FirstPoll(b) \/ TickPoll(b) \/ TriggeredPoll(b) \/ EndPoll(b)
                 \/ SkipObject(b) \/ BeginObject(b)
                 \/ CreateTemp(b) \/ CreateFails(b) \/ CopyObject(b) \/ CopyFails(b)
                 \/ ExtractOk(b) \/ ExtractFails(b)
                 \/ PostOk(b) \/ PostRejected(b) \/ PostUnanswered(b)
                 \/ Mark(b) \/ Remove(b) \/ RemoveFails(b)
                 \/ Clean(b) \/ PollerStops(b)

Next == \/ Start \/ Cancel \/ StoreClose \/ Exit \/ Crash
        \/ \E b \in Buckets : \/ TriggerPoll(b)
                              \/ PollerStep(b)
                              \/ \E k \in Keys, v \in Versions : Upload(b, k, v)

Spec == Init /\ [][Next]_vars

(***************************************************************************)
(* Pollers are goroutines, the ticker keeps firing; select picks at random *)
(* among the ready channels, so a waiting trigger is not passed over       *)
(* forever.  Every request is taken to end: POSTs have a timeout, of       *)
(* GetObject, which has none, it is assumed.                               *)
(***************************************************************************)
Fairness == /\ \A b \in Buckets : WF_vars(PollerStep(b)) /\ SF_vars(TriggeredPoll(b))
            /\ WF_vars(Exit)

FairSpec == Spec /\ Fairness

---------------------------------------------------------------------------
(* Properties *)

TypeOK == /\ s3 \in [Buckets -> [Keys -> Versions \cup {None}]]
          /\ mode \in {"up", "stopping", "down"}
          /\ store \in {"open", "closed"}
          /\ processed \in [Buckets -> [Keys -> Entry]]
          /\ pc \in [Buckets -> States]
          /\ todo \in [Buckets -> SUBSET Object]
          /\ cur \in [Buckets -> Object \cup {None}]
          /\ got \in [Buckets -> Versions \cup {None}]
          /\ sent \in [Buckets -> Nat]
          /\ attempt \in [Buckets -> 0..Retries]
          /\ failed \in [Buckets -> BOOLEAN]
          /\ trigger \subseteq Buckets
          /\ work \in [Paths -> Versions \cup {None, Partial, Mixed}]
          /\ writing \subseteq Buckets
          /\ leftover \subseteq Paths
          /\ quarantined \subseteq Keys \X (Versions \cup {None, Partial, Mixed})
          /\ received \subseteq Buckets \X Keys \X Versions \X (Nat \ {0})
          /\ removed \subseteq Buckets \X Keys \X Versions
          /\ faults \in 0..MaxFaults

Delivered(b, k, v) == \A i \in 1..FileCount[v] : <<b, k, v, i>> \in received

\* An object the store will skip for good was handled: every file of exactly
\* that content reached the ingest service (IsProcessed, MarkProcessed).
OkMeansDelivered ==
  \A b \in Buckets, k \in Keys :
    processed[b][k].status = "ok" => Delivered(b, k, processed[b][k].etag)

\* delete_after only ever deletes a content that was readable and whose files
\* all reached the ingest service, whatever failed or restarted in between.
DeletedWasDelivered ==
  \A b \in Buckets, k \in Keys, v \in Versions :
    <<b, k, v>> \in removed => v \in Readable /\ Delivered(b, k, v)

\* A content recorded as done is never downloaded or posted again while its
\* record stands: the dedup lookup and the sequential poller together suffice.
NoReprocessing ==
  \A b \in Buckets :
    pc[b] \in {"create", "copy", "extract", "post"} => ~IsProcessed(b, cur[b])

\* At least once is exactly once unless something fails: without a failure,
\* shutdown or crash so far, an accepted file is posted again only if another
\* content of its key was recorded since, or was swapped in after the listing.
NoRepeatedPost ==
  \A b \in Buckets :
    (/\ Posting(b) /\ faults = 0
     /\ got[b] = cur[b].etag /\ processed[b][cur[b].key].etag \in {None, got[b]})
      => NextFile(b) \notin received

\* Every failure path of the pipeline removes its work file: a file in the
\* work directory belongs to an object in hand, or outlived a process.
NoLeakedWorkFile ==
  \A p \in Paths :
    work[p] # None => p \in leftover \/ \E b \in Buckets : pc[b] \in Stages /\ Path(b) = p

\* Only archives that cannot be read end up in quarantine, never a half
\* download or a good archive.
OnlyBadQuarantined ==
  \A k \in Keys, c \in Versions \cup {None, Partial, Mixed} :
    <<k, c>> \in quarantined => c \in Versions \ Readable

\* The contents a producer may expect to see relocated.
Wanted(b, k, v) == k \in Matching[b] /\ v \in Readable \ TooLarge

\* An archive waiting in a bucket reaches the ingest service entirely, in
\* spite of failed listings, downloads, posts and store writes, unless the
\* process is stopped first; after a restart the same holds again.
EventuallyDelivered ==
  \A b \in Buckets, k \in Keys, v \in Versions :
    (mode = "up" /\ s3[b][k] = v /\ Wanted(b, k, v))
      ~> (mode # "up" \/ Delivered(b, k, v))

\* A manual poll request is answered by a poll that starts after it.
TriggerServed == \A b \in Buckets : (b \in trigger) ~> (b \notin trigger)

\* "delete_after: delete the object after successful processing": an object
\* recorded as done does not stay in a bucket with delete_after.
EventuallyDeleted ==
  \A b \in Buckets, k \in Keys :
    (mode = "up" /\ DeleteAfter[b] /\ k \in Matching[b] /\ IsProcessed(b, [key |-> k, etag |-> s3[b][k]]))
      ~> (mode # "up" \/ s3[b][k] = None)

---------------------------------------------------------------------------
(* Inductive invariants *)

\* What is in hand is an object, and what is posted a content; counters are
\* back to zero between objects.
InHand == \A b \in Buckets :
            /\ mode = "down" => pc[b] = "down"
            /\ pc[b] \in Stages => cur[b] \in Object
            /\ pc[b] = "post" => got[b] \in Readable
            /\ pc[b] \notin {"post", "remove", "clean"} => sent[b] = 0

\* A work file belongs to an object whose download was begun.
FileOwned == \A p \in Paths :
               work[p] # None => \/ p \in leftover
                                 \/ \E b \in Buckets : pc[b] \in Stages \ {"create"} /\ Path(b) = p

\* Holds for every configuration and every producer.
AnywhereInv == TypeOK /\ InHand /\ NoReprocessing /\ FileOwned

\* Without failures an accepted file belongs to a content that was recorded
\* as done, to a key that has a record of another one, or to the archive that
\* is being posted, of which it is not one of the files to come.
Handled(b, k, v, i) ==
  \/ /\ processed[b][k].etag # None
     /\ processed[b][k].etag = v => processed[b][k].status = "ok"
  \/ pc[b] = "post" /\ cur[b].key = k /\ got[b] = v /\ i <= sent[b]

OnceInv ==
  /\ mode = "stopping" => faults > 0
  /\ faults = 0 =>
       /\ \A b \in Buckets : ~failed[b]
       /\ \A m \in received : Handled(m[1], m[2], m[3], m[4])

\* Different buckets never share a work file.
PathsDistinct == \A a, b \in Buckets : \A j, k \in Keys : WorkPath[a][j] = WorkPath[b][k] => a = b

\* What was listed and not yet visited is still in the bucket, and so is the
\* object in hand until it is deleted.
ListingFresh ==
  \A b \in Buckets :
    /\ pc[b] \in Stages \cup {"listing"} => \A o \in todo[b] : s3[b][o.key] = o.etag
    /\ pc[b] \in Stages => \A o \in todo[b] : o.key # cur[b].key
    /\ pc[b] \in Stages \ {"clean"} => s3[b][cur[b].key] = cur[b].etag

\* The work file holds what its owner believes it holds.
WorkFileOK ==
  \A b \in Buckets :
    /\ b \in writing <=> pc[b] = "copy"
    /\ pc[b] = "copy" => work[Path(b)] = Partial
    /\ pc[b] = "extract" => work[Path(b)] = cur[b].etag

\* Files counted as sent without a failure were accepted.
SentOK ==
  \A b \in Buckets :
    /\ pc[b] \in {"post", "remove"} => got[b] = cur[b].etag /\ got[b] \in Readable
    /\ pc[b] = "post" => sent[b] <= FileCount[got[b]]
    /\ pc[b] = "post" /\ ~failed[b] =>
         \A i \in 1..sent[b] : <<b, cur[b].key, got[b], i>> \in received
    /\ pc[b] = "remove" => Delivered(b, cur[b].key, got[b])

\* Holds when producers never overwrite and work files are not shared.
PipelineInv == /\ AnywhereInv
               /\ ListingFresh
               /\ WorkFileOK
               /\ SentOK
               /\ OkMeansDelivered
               /\ DeletedWasDelivered
               /\ OnlyBadQuarantined

---------------------------------------------------------------------------
(* Refinement *)

\* Records with status "ok", as the abstract specification sees them.
Recorded == [b \in Buckets |-> [k \in Keys |->
               IF processed[b][k].status = "ok" THEN processed[b][k].etag ELSE None]]

D == INSTANCE Delivery WITH source <- s3, delivered <- received, recorded <- Recorded

\* The pipeline implements at-least-once delivery.
ImplementsDelivery == D!Spec
=============================================================================
