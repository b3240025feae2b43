---------------------- MODULE RelocatorDeliveryProofs -----------------------
(***************************************************************************)
(* The delivery guarantee of the relocator, proved for every number of     *)
(* buckets, keys, contents, retries and faults, when producers do not      *)
(* overwrite a waiting object and no two buckets share a work file; and    *)
(* what is left of it when producers do overwrite.                         *)
(***************************************************************************)
EXTENDS RelocatorProofs

USE ConstantsAssumption

\* What was listed stays in the bucket until the poller that listed it acts.
LEMMA ListingFreshStep ==
  ASSUME AnywhereInv, ListingFresh, Overwrites = FALSE, [Next]_vars
  PROVE  ListingFresh'
<1> SUFFICES ASSUME NEW a \in Buckets
             PROVE  /\ pc'[a] \in Stages \cup {"listing"} => \A o \in todo'[a] : s3'[a][o.key] = o.etag
                    /\ pc'[a] \in Stages => \A o \in todo'[a] : o.key # cur'[a].key
                    /\ pc'[a] \in Stages \ {"clean"} => s3'[a][cur'[a].key] = cur'[a].etag
  BY DEF ListingFresh
<1> DEFINE Goal == /\ pc'[a] \in Stages \cup {"listing"} => \A o \in todo'[a] : s3'[a][o.key] = o.etag
                   /\ pc'[a] \in Stages => \A o \in todo'[a] : o.key # cur'[a].key
                   /\ pc'[a] \in Stages \ {"clean"} => s3'[a][cur'[a].key] = cur'[a].etag
<1>0. /\ pc \in [Buckets -> States] /\ cur \in [Buckets -> Object \cup {None}]
      /\ todo \in [Buckets -> SUBSET Object]
      /\ s3 \in [Buckets -> [Keys -> Versions \cup {None}]]
      /\ \A b \in Buckets : pc[b] \in Stages => cur[b] \in Object
      /\ \A b \in Buckets : mode = "down" => pc[b] = "down"
  BY DEF AnywhereInv, TypeOK, InHand
<1> USE <1>0 DEF ListingFresh, Stages, Object
<1> USE DEF vars, modeVars, pollerVars, objectVars, diskVars, outerVars
<1>1. CASE Start
  BY <1>1 DEF Start
<1>2. CASE Cancel
  BY <1>2 DEF Cancel
<1>3. CASE StoreClose
  BY <1>3 DEF StoreClose
<1>4. CASE Exit
  BY <1>4 DEF Exit, ProcessEnds
<1>5. CASE Crash
  BY <1>5 DEF Crash, ProcessEnds
<1>6. ASSUME NEW b \in Buckets, TriggerPoll(b)
      PROVE  Goal
  BY <1>6 DEF TriggerPoll
<1>7. ASSUME NEW b \in Buckets, NEW k \in Keys, NEW v \in Versions, Upload(b, k, v)
      PROVE  Goal
  BY <1>7 DEF Upload
<1>8. ASSUME NEW b \in Buckets, PollerStep(b)
      PROVE  Goal
  <2>1. CASE FirstPoll(b) \/ TickPoll(b) \/ TriggeredPoll(b)
    BY <2>1 DEF FirstPoll, TickPoll, TriggeredPoll, BeginPoll, Listing
  <2>2. CASE EndPoll(b)
    BY <2>2 DEF EndPoll
  <2>3. CASE SkipObject(b)
    BY <2>3 DEF SkipObject
  <2>4. CASE BeginObject(b)
    BY <2>4 DEF BeginObject
  <2>5. CASE CreateTemp(b)
    BY <2>5 DEF CreateTemp
  <2>6. CASE CreateFails(b)
    BY <2>6 DEF CreateFails, ObjectDone
  <2>7. CASE CopyObject(b)
    BY <2>7 DEF CopyObject
  <2>8. CASE CopyFails(b)
    BY <2>8 DEF CopyFails, ObjectDone, Unlink
  <2>9. CASE ExtractOk(b)
    BY <2>9 DEF ExtractOk
  <2>10. CASE ExtractFails(b)
    BY <2>10 DEF ExtractFails, Unlink, Contents
  <2>11. CASE PostOk(b)
    BY <2>11 DEF PostOk, Posting, NextFile, FileDone
  <2>12. CASE PostRejected(b)
    BY <2>12 DEF PostRejected, Posting, FileDone
  <2>13. CASE PostUnanswered(b)
    BY <2>13 DEF PostUnanswered, Posting, NextFile, FileDone, MoreAttempts
  <2>14. CASE Mark(b)
    BY <2>14 DEF Mark
  <2>15. CASE Remove(b)
    BY <2>15 DEF Remove, Delete
  <2>16. CASE RemoveFails(b)
    BY <2>16 DEF RemoveFails, Delete
  <2>17. CASE Clean(b)
    BY <2>17 DEF Clean, ObjectDone, Unlink
  <2>18. CASE PollerStops(b)
    BY <2>18 DEF PollerStops
  <2> QED
    BY <1>8, <2>1, <2>2, <2>3, <2>4, <2>5, <2>6, <2>7, <2>8, <2>9, <2>10,
       <2>11, <2>12, <2>13, <2>14, <2>15, <2>16, <2>17, <2>18 DEF PollerStep
<1>9. CASE UNCHANGED vars
  BY <1>9
<1> QED
  BY <1>1, <1>2, <1>3, <1>4, <1>5, <1>6, <1>7, <1>8, <1>9 DEF Next

\* A work file holds what its owner believes, for nobody else touches it.
LEMMA WorkFileStep ==
  ASSUME AnywhereInv, ListingFresh, WorkFileOK, PathsDistinct, [Next]_vars
  PROVE  WorkFileOK'
<1> SUFFICES ASSUME NEW a \in Buckets
             PROVE  /\ a \in writing' <=> pc'[a] = "copy"
                    /\ pc'[a] = "copy" => work'[Path(a)'] = Partial
                    /\ pc'[a] = "extract" => work'[Path(a)'] = cur'[a].etag
  BY DEF WorkFileOK
<1> DEFINE Goal == /\ a \in writing' <=> pc'[a] = "copy"
                   /\ pc'[a] = "copy" => work'[Path(a)'] = Partial
                   /\ pc'[a] = "extract" => work'[Path(a)'] = cur'[a].etag
<1>0. /\ pc \in [Buckets -> States] /\ cur \in [Buckets -> Object \cup {None}]
      /\ work \in [Paths -> Versions \cup {None, Partial, Mixed}]
      /\ writing \subseteq Buckets
      /\ \A b \in Buckets : pc[b] \in Stages => cur[b] \in Object
      /\ \A b \in Buckets : mode = "down" => pc[b] = "down"
  BY DEF AnywhereInv, TypeOK, InHand
<1>00. /\ \A b \in Buckets : pc[b] \in Stages => Path(b) \in Paths
       /\ \A b, c \in Buckets : pc[b] \in Stages /\ pc[c] \in Stages /\ Path(b) = Path(c) => b = c
  BY <1>0 DEF Paths, Path, PathsDistinct, Object
<1> USE <1>0, <1>00 DEF WorkFileOK, Stages, Path
<1> USE DEF vars, modeVars, pollerVars, objectVars, diskVars, outerVars
<1>1. CASE Start
  BY <1>1 DEF Start
<1>2. CASE Cancel
  BY <1>2 DEF Cancel
<1>3. CASE StoreClose
  BY <1>3 DEF StoreClose
<1>4. CASE Exit
  BY <1>4 DEF Exit, ProcessEnds
<1>5. CASE Crash
  BY <1>5 DEF Crash, ProcessEnds
<1>6. ASSUME NEW b \in Buckets, TriggerPoll(b)
      PROVE  Goal
  BY <1>6 DEF TriggerPoll
<1>7. ASSUME NEW b \in Buckets, NEW k \in Keys, NEW v \in Versions, Upload(b, k, v)
      PROVE  Goal
  BY <1>7 DEF Upload
<1>8. ASSUME NEW b \in Buckets, PollerStep(b)
      PROVE  Goal
  <2>1. CASE FirstPoll(b) \/ TickPoll(b) \/ TriggeredPoll(b)
    BY <2>1 DEF FirstPoll, TickPoll, TriggeredPoll, BeginPoll, Listing
  <2>2. CASE EndPoll(b)
    BY <2>2 DEF EndPoll
  <2>3. CASE SkipObject(b)
    BY <2>3 DEF SkipObject
  <2>4. CASE BeginObject(b)
    BY <2>4 DEF BeginObject
  <2>5. CASE CreateTemp(b)
    BY <2>5 DEF CreateTemp
  <2>6. CASE CreateFails(b)
    BY <2>6 DEF CreateFails, ObjectDone
  <2>7. CASE CopyObject(b)
    <3>1. b \in writing /\ work[Path(b)] = Partial /\ s3[b][cur[b].key] = cur[b].etag
      BY <2>7 DEF CopyObject, ListingFresh
    <3>2. \A c \in writing \ {b} : Path(c) # Path(b)
      BY <2>7 DEF CopyObject
    <3>3. work' = [work EXCEPT ![Path(b)] = cur[b].etag]
      <4>1. PICK c \in {s3[b][cur[b].key], Mixed} :
               /\ c = Mixed => \/ work[Path(b)] # Partial
                               \/ \E d \in writing \ {b} : Path(d) = Path(b)
               /\ work' = [work EXCEPT ![Path(b)] = c]
        BY <2>7, <3>1 DEF CopyObject
      <4> QED
        BY <3>1, <3>2, <4>1
    <3>4. /\ writing' = writing \ {b} /\ pc' = [pc EXCEPT ![b] = "extract"] /\ cur' = cur
          /\ pc[b] = "copy"
      BY <2>7 DEF CopyObject
    <3> QED
      BY <3>1, <3>3, <3>4
  <2>8. CASE CopyFails(b)
    BY <2>8 DEF CopyFails, ObjectDone, Unlink
  <2>9. CASE ExtractOk(b)
    BY <2>9 DEF ExtractOk
  <2>10. CASE ExtractFails(b)
    BY <2>10 DEF ExtractFails, Unlink, Contents
  <2>11. CASE PostOk(b)
    BY <2>11 DEF PostOk, Posting, NextFile, FileDone
  <2>12. CASE PostRejected(b)
    BY <2>12 DEF PostRejected, Posting, FileDone
  <2>13. CASE PostUnanswered(b)
    BY <2>13 DEF PostUnanswered, Posting, NextFile, FileDone, MoreAttempts
  <2>14. CASE Mark(b)
    BY <2>14 DEF Mark
  <2>15. CASE Remove(b)
    BY <2>15 DEF Remove, Delete
  <2>16. CASE RemoveFails(b)
    BY <2>16 DEF RemoveFails, Delete
  <2>17. CASE Clean(b)
    BY <2>17 DEF Clean, ObjectDone, Unlink
  <2>18. CASE PollerStops(b)
    BY <2>18 DEF PollerStops
  <2> QED
    BY <1>8, <2>1, <2>2, <2>3, <2>4, <2>5, <2>6, <2>7, <2>8, <2>9, <2>10,
       <2>11, <2>12, <2>13, <2>14, <2>15, <2>16, <2>17, <2>18 DEF PollerStep
<1>9. CASE UNCHANGED vars
  BY <1>9
<1> QED
  BY <1>1, <1>2, <1>3, <1>4, <1>5, <1>6, <1>7, <1>8, <1>9 DEF Next

\* ExtractJSON reads what this poller downloaded.
LEMMA ReadsOwn ==
  ASSUME AnywhereInv, WorkFileOK, PathsDistinct, NEW b \in Buckets, pc[b] = "extract"
  PROVE  Contents(Path(b)) = {cur[b].etag}
<1>1. ASSUME NEW c \in writing
      PROVE  Path(c) # Path(b)
  <2>1. c \in Buckets /\ pc[c] = "copy"
    BY DEF WorkFileOK, AnywhereInv, TypeOK
  <2>2. cur[c].key \in Keys /\ cur[b].key \in Keys /\ c # b
    BY <2>1 DEF Object, AnywhereInv, InHand, Stages
  <2> QED
    BY <2>1, <2>2 DEF PathsDistinct, Path
<1>2. work[Path(b)] = cur[b].etag
  BY DEF WorkFileOK
<1> QED
  BY <1>1, <1>2 DEF Contents

\* RemoveObject deletes the content that was posted.
LEMMA DeletesOwn ==
  ASSUME AnywhereInv, ListingFresh, SentOK, DeletedWasDelivered,
         NEW b \in Buckets, pc[b] = "remove", Delete(b), UNCHANGED received
  PROVE  DeletedWasDelivered'
<1>1. /\ s3[b][cur[b].key] = cur[b].etag /\ got[b] = cur[b].etag
      /\ got[b] \in Readable /\ Delivered(b, cur[b].key, got[b])
  BY DEF ListingFresh, SentOK, Stages
<1>2. removed' \subseteq removed \cup {<<b, cur[b].key, got[b]>>}
  BY <1>1 DEF Delete
<1> QED
  BY <1>1, <1>2 DEF DeletedWasDelivered, Delivered

\* Files counted as sent without a failure were accepted.
LEMMA SentStep ==
  ASSUME AnywhereInv, WorkFileOK, SentOK, PathsDistinct, [Next]_vars
  PROVE  SentOK'
<1> SUFFICES ASSUME NEW a \in Buckets
             PROVE  /\ pc'[a] \in {"post", "remove"} => got'[a] = cur'[a].etag /\ got'[a] \in Readable
                    /\ pc'[a] = "post" => sent'[a] <= FileCount[got'[a]]
                    /\ pc'[a] = "post" /\ ~failed'[a] =>
                         \A i \in 1..sent'[a] : <<a, cur'[a].key, got'[a], i>> \in received'
                    /\ pc'[a] = "remove" => Delivered(a, cur[a].key, got[a])'
  BY DEF SentOK
<1> DEFINE Goal == /\ pc'[a] \in {"post", "remove"} => got'[a] = cur'[a].etag /\ got'[a] \in Readable
                   /\ pc'[a] = "post" => sent'[a] <= FileCount[got'[a]]
                   /\ pc'[a] = "post" /\ ~failed'[a] =>
                        \A i \in 1..sent'[a] : <<a, cur'[a].key, got'[a], i>> \in received'
                   /\ pc'[a] = "remove" => Delivered(a, cur[a].key, got[a])'
<1>0. /\ pc \in [Buckets -> States] /\ cur \in [Buckets -> Object \cup {None}]
      /\ got \in [Buckets -> Versions \cup {None}] /\ sent \in [Buckets -> Nat]
      /\ failed \in [Buckets -> BOOLEAN]
      /\ \A b \in Buckets : pc[b] \in Stages => cur[b] \in Object
      /\ \A b \in Buckets : mode = "down" => pc[b] = "down"
      /\ \A b \in Buckets : pc[b] \notin {"post", "remove", "clean"} => sent[b] = 0
  BY DEF AnywhereInv, TypeOK, InHand
<1> USE <1>0 DEF SentOK, Stages, Delivered
<1> USE DEF vars, modeVars, pollerVars, objectVars, diskVars, outerVars
<1>1. CASE Start
  BY <1>1 DEF Start
<1>2. CASE Cancel
  BY <1>2 DEF Cancel
<1>3. CASE StoreClose
  BY <1>3 DEF StoreClose
<1>4. CASE Exit
  BY <1>4 DEF Exit, ProcessEnds
<1>5. CASE Crash
  BY <1>5 DEF Crash, ProcessEnds
<1>6. ASSUME NEW b \in Buckets, TriggerPoll(b)
      PROVE  Goal
  BY <1>6 DEF TriggerPoll
<1>7. ASSUME NEW b \in Buckets, NEW k \in Keys, NEW v \in Versions, Upload(b, k, v)
      PROVE  Goal
  BY <1>7 DEF Upload
<1>8. ASSUME NEW b \in Buckets, PollerStep(b)
      PROVE  Goal
  <2>1. CASE FirstPoll(b) \/ TickPoll(b) \/ TriggeredPoll(b)
    BY <2>1 DEF FirstPoll, TickPoll, TriggeredPoll, BeginPoll, Listing
  <2>2. CASE EndPoll(b)
    BY <2>2 DEF EndPoll
  <2>3. CASE SkipObject(b)
    BY <2>3 DEF SkipObject
  <2>4. CASE BeginObject(b)
    BY <2>4 DEF BeginObject
  <2>5. CASE CreateTemp(b)
    BY <2>5 DEF CreateTemp
  <2>6. CASE CreateFails(b)
    BY <2>6 DEF CreateFails, ObjectDone
  <2>7. CASE CopyObject(b)
    BY <2>7 DEF CopyObject
  <2>8. CASE CopyFails(b)
    BY <2>8 DEF CopyFails, ObjectDone, Unlink
  <2>9. CASE ExtractOk(b)
    <3>2. Contents(Path(b)) = {cur[b].etag}
      BY <2>9, ReadsOwn DEF ExtractOk
    <3> QED
      BY <2>9, <3>2 DEF ExtractOk
  <2>10. CASE ExtractFails(b)
    BY <2>10 DEF ExtractFails, Unlink, Contents
  <2>11. CASE PostOk(b)
    BY <2>11 DEF PostOk, Posting, NextFile, FileDone
  <2>12. CASE PostRejected(b)
    <3>1. failed' = [failed EXCEPT ![b] = TRUE]
      BY <2>12 DEF PostRejected, FileDone
    <3>2. /\ pc[b] = "post" /\ sent[b] < FileCount[got[b]] /\ sent' = [sent EXCEPT ![b] = sent[b] + 1]
          /\ UNCHANGED <<pc, cur, got, received>>
      BY <2>12 DEF PostRejected, Posting, FileDone
    <3> QED
      BY <3>1, <3>2
  <2>13. CASE PostUnanswered(b)
    <3>1. /\ pc[b] = "post" /\ sent[b] < FileCount[got[b]] /\ received \subseteq received'
          /\ UNCHANGED <<pc, cur, got>>
      BY <2>13 DEF PostUnanswered, Posting
    <3>2. CASE UNCHANGED <<sent, failed>>
      BY <3>1, <3>2
    <3>3. CASE FileDone(b, TRUE)
      <4>1. failed' = [failed EXCEPT ![b] = TRUE] /\ sent' = [sent EXCEPT ![b] = sent[b] + 1]
        BY <3>3 DEF FileDone
      <4> QED
        BY <3>1, <4>1
    <3> QED
      BY <2>13, <3>2, <3>3 DEF PostUnanswered
  <2>14. CASE Mark(b)
    BY <2>14 DEF Mark, DeleteWanted
  <2>15. CASE Remove(b)
    BY <2>15 DEF Remove, Delete
  <2>16. CASE RemoveFails(b)
    BY <2>16 DEF RemoveFails, Delete
  <2>17. CASE Clean(b)
    BY <2>17 DEF Clean, ObjectDone, Unlink
  <2>18. CASE PollerStops(b)
    BY <2>18 DEF PollerStops
  <2> QED
    BY <1>8, <2>1, <2>2, <2>3, <2>4, <2>5, <2>6, <2>7, <2>8, <2>9, <2>10,
       <2>11, <2>12, <2>13, <2>14, <2>15, <2>16, <2>17, <2>18 DEF PollerStep
<1>9. CASE UNCHANGED vars
  BY <1>9
<1> QED
  BY <1>1, <1>2, <1>3, <1>4, <1>5, <1>6, <1>7, <1>8, <1>9 DEF Next

\* Records, deletions and quarantine only follow what was posted.
LEMMA OutcomeStep ==
  ASSUME AnywhereInv, ListingFresh, WorkFileOK, SentOK, PathsDistinct,
         OkMeansDelivered, DeletedWasDelivered, OnlyBadQuarantined, [Next]_vars
  PROVE  OkMeansDelivered' /\ DeletedWasDelivered' /\ OnlyBadQuarantined'
<1> DEFINE Goal == OkMeansDelivered' /\ DeletedWasDelivered' /\ OnlyBadQuarantined'
<1>0. /\ pc \in [Buckets -> States] /\ cur \in [Buckets -> Object \cup {None}]
      /\ got \in [Buckets -> Versions \cup {None}] /\ sent \in [Buckets -> Nat]
      /\ processed \in [Buckets -> [Keys -> Entry]]
      /\ s3 \in [Buckets -> [Keys -> Versions \cup {None}]]
      /\ \A b \in Buckets : pc[b] \in Stages => cur[b] \in Object
  BY DEF AnywhereInv, TypeOK, InHand
<1> USE <1>0 DEF OkMeansDelivered, DeletedWasDelivered, OnlyBadQuarantined, Stages, Delivered
<1> USE DEF vars, modeVars, pollerVars, objectVars, diskVars, outerVars
<1>1. CASE Start
  BY <1>1 DEF Start
<1>2. CASE Cancel
  BY <1>2 DEF Cancel
<1>3. CASE StoreClose
  BY <1>3 DEF StoreClose
<1>4. CASE Exit
  BY <1>4 DEF Exit, ProcessEnds
<1>5. CASE Crash
  BY <1>5 DEF Crash, ProcessEnds
<1>6. ASSUME NEW b \in Buckets, TriggerPoll(b)
      PROVE  Goal
  BY <1>6 DEF TriggerPoll
<1>7. ASSUME NEW b \in Buckets, NEW k \in Keys, NEW v \in Versions, Upload(b, k, v)
      PROVE  Goal
  BY <1>7 DEF Upload
<1>8. ASSUME NEW b \in Buckets, PollerStep(b)
      PROVE  Goal
  <2>1. CASE FirstPoll(b) \/ TickPoll(b) \/ TriggeredPoll(b)
    BY <2>1 DEF FirstPoll, TickPoll, TriggeredPoll, BeginPoll, Listing
  <2>2. CASE EndPoll(b)
    BY <2>2 DEF EndPoll
  <2>3. CASE SkipObject(b)
    BY <2>3 DEF SkipObject
  <2>4. CASE BeginObject(b)
    BY <2>4 DEF BeginObject
  <2>5. CASE CreateTemp(b)
    BY <2>5 DEF CreateTemp
  <2>6. CASE CreateFails(b)
    BY <2>6 DEF CreateFails, ObjectDone
  <2>7. CASE CopyObject(b)
    BY <2>7 DEF CopyObject
  <2>8. CASE CopyFails(b)
    BY <2>8 DEF CopyFails, ObjectDone, Unlink
  <2>9. CASE ExtractOk(b)
    BY <2>9 DEF ExtractOk
  <2>10. CASE ExtractFails(b)
    <3>1. /\ Contents(Path(b)) = {cur[b].etag} /\ cur[b].etag \in Versions
          /\ UNCHANGED <<received, processed, removed>>
      BY <2>10, ReadsOwn DEF ExtractFails, Object
    <3>2. \/ UNCHANGED quarantined
          \/ quarantined' = quarantined \cup {<<cur[b].key, cur[b].etag>>} /\ cur[b].etag \notin Readable
      BY <2>10, <3>1 DEF ExtractFails
    <3> QED
      BY <3>1, <3>2
  <2>11. CASE PostOk(b)
    BY <2>11 DEF PostOk, Posting, NextFile, FileDone
  <2>12. CASE PostRejected(b)
    BY <2>12 DEF PostRejected, Posting, FileDone
  <2>13. CASE PostUnanswered(b)
    BY <2>13 DEF PostUnanswered, Posting, NextFile, FileDone, MoreAttempts
  <2>14. CASE Mark(b)
    <3>1. /\ pc[b] = "post" /\ sent[b] = FileCount[got[b]] /\ got[b] = cur[b].etag
          /\ UNCHANGED <<received, removed, quarantined>>
      BY <2>14 DEF Mark, SentOK
    <3>2. ~failed[b] => Delivered(b, cur[b].key, cur[b].etag)
      BY <3>1 DEF SentOK
    <3>3. CASE UNCHANGED processed
      BY <3>1, <3>3
    <3>4. CASE processed' = [processed EXCEPT ![b][cur[b].key] =
                 [etag |-> cur[b].etag, status |-> IF failed[b] THEN "partial" ELSE "ok"]]
      <4>1. ASSUME NEW a \in Buckets, NEW k \in Keys, processed'[a][k].status = "ok"
            PROVE  Delivered(a, k, processed'[a][k].etag)
        <5>1. CASE a = b /\ k = cur[b].key
          BY <3>2, <3>4, <4>1, <5>1
        <5>2. CASE ~(a = b /\ k = cur[b].key)
          BY <3>4, <4>1, <5>2
        <5> QED
          BY <5>1, <5>2
      <4> QED
        BY <3>1, <4>1
    <3> QED
      BY <2>14, <3>3, <3>4 DEF Mark
  <2>15. CASE Remove(b)
    <3>1. pc[b] = "remove" /\ Delete(b) /\ UNCHANGED <<received, processed, quarantined>>
      BY <2>15 DEF Remove
    <3> QED
      BY <3>1, DeletesOwn
  <2>16. CASE RemoveFails(b)
    <3>1. /\ pc[b] = "remove" /\ UNCHANGED <<received, processed, quarantined>>
          /\ Delete(b) \/ UNCHANGED removed
      BY <2>16 DEF RemoveFails
    <3> QED
      BY <3>1, DeletesOwn
  <2>17. CASE Clean(b)
    BY <2>17 DEF Clean, ObjectDone, Unlink
  <2>18. CASE PollerStops(b)
    BY <2>18 DEF PollerStops
  <2> QED
    BY <1>8, <2>1, <2>2, <2>3, <2>4, <2>5, <2>6, <2>7, <2>8, <2>9, <2>10,
       <2>11, <2>12, <2>13, <2>14, <2>15, <2>16, <2>17, <2>18 DEF PollerStep
<1>9. CASE UNCHANGED vars
  BY <1>9
<1> QED
  BY <1>1, <1>2, <1>3, <1>4, <1>5, <1>6, <1>7, <1>8, <1>9 DEF Next

\* PipelineInv is inductive: every part survives every step.
LEMMA PipelineStep ==
  ASSUME Overwrites = FALSE, PathsDistinct, PipelineInv, [Next]_vars
  PROVE  PipelineInv'
<1> USE DEF PipelineInv
<1>1. AnywhereInv'
  BY TypeStep, InHandStep, NoReprocessingStep, FileOwnedStep DEF AnywhereInv
<1>2. ListingFresh'
  BY ListingFreshStep
<1>3. WorkFileOK'
  BY WorkFileStep
<1>4. SentOK'
  BY SentStep
<1>5. OkMeansDelivered' /\ DeletedWasDelivered' /\ OnlyBadQuarantined'
  BY OutcomeStep
<1> QED
  BY <1>1, <1>2, <1>3, <1>4, <1>5

\* The invariant holds at the start.
LEMMA PipelineInit == Init => PipelineInv
<1> SUFFICES ASSUME Init PROVE PipelineInv
  OBVIOUS
<1>1. AnywhereInv
  BY AnywhereInit
<1>2. ListingFresh /\ WorkFileOK /\ SentOK
  BY DEF Init, ListingFresh, WorkFileOK, SentOK, Stages
<1>3. OkMeansDelivered /\ DeletedWasDelivered /\ OnlyBadQuarantined
  BY DEF Init, OkMeansDelivered, DeletedWasDelivered, OnlyBadQuarantined
<1> QED
  BY <1>1, <1>2, <1>3 DEF PipelineInv

\* The invariant behind the delivery guarantee.
THEOREM PipelineInvariant ==
  ASSUME Overwrites = FALSE, PathsDistinct
  PROVE  Spec => []PipelineInv
<1>1. PipelineInv /\ [Next]_vars => PipelineInv'
  BY PipelineStep
<1> QED
  BY PipelineInit, <1>1, PTL DEF Spec

\* An object the store will skip for good was handed over entirely: what
\* Store.IsProcessed claims of a record with status "ok".
THEOREM RecordedWasDelivered ==
  ASSUME Overwrites = FALSE, PathsDistinct
  PROVE  Spec => []OkMeansDelivered
<1>1. PipelineInv => OkMeansDelivered
  BY DEF PipelineInv
<1> QED
  BY <1>1, PipelineInvariant, PTL

\* delete_after never deletes an archive whose files did not all arrive.
THEOREM NothingLost ==
  ASSUME Overwrites = FALSE, PathsDistinct
  PROVE  Spec => []DeletedWasDelivered
<1>1. PipelineInv => DeletedWasDelivered
  BY DEF PipelineInv
<1> QED
  BY <1>1, PipelineInvariant, PTL

---------------------------------------------------------------------------
(* Producers that overwrite *)

\* A work file is its poller's own, whichever content the key had by then.
OwnFile ==
  \A b \in Buckets :
    /\ b \in writing <=> pc[b] = "copy"
    /\ pc[b] = "copy" => work[Path(b)] = Partial
    /\ pc[b] = "extract" => work[Path(b)] \in Versions

\* Files counted as sent without a failure were accepted, as files of the
\* content that was read.
AcceptedSoFar ==
  \A b \in Buckets :
    /\ pc[b] \in {"post", "remove"} => got[b] \in Readable
    /\ pc[b] = "post" => sent[b] <= FileCount[got[b]]
    /\ pc[b] = "post" /\ ~failed[b] =>
         \A i \in 1..sent[b] : <<b, cur[b].key, got[b], i>> \in received
    /\ pc[b] = "remove" => Delivered(b, cur[b].key, got[b])

\* Some archive of object k of bucket b was handed over entirely.
SomeDelivered(b, k) == \E v \in Readable : Delivered(b, k, v)

\* A record with status "ok" and a deletion stand for an archive that was
\* handed over entirely, if not for the one recorded or deleted.
OutcomesEarned ==
  /\ \A b \in Buckets, k \in Keys : processed[b][k].status = "ok" => SomeDelivered(b, k)
  /\ \A b \in Buckets, k \in Keys, v \in Versions : <<b, k, v>> \in removed => SomeDelivered(b, k)

EarnedInv == AnywhereInv /\ OwnFile /\ AcceptedSoFar /\ OutcomesEarned /\ OnlyBadQuarantined

\* Nobody else touches the work file of a poller.
LEMMA OwnFileStep ==
  ASSUME AnywhereInv, OwnFile, PathsDistinct, [Next]_vars
  PROVE  OwnFile'
<1> SUFFICES ASSUME NEW a \in Buckets
             PROVE  /\ a \in writing' <=> pc'[a] = "copy"
                    /\ pc'[a] = "copy" => work'[Path(a)'] = Partial
                    /\ pc'[a] = "extract" => work'[Path(a)'] \in Versions
  BY DEF OwnFile
<1> DEFINE Goal == /\ a \in writing' <=> pc'[a] = "copy"
                   /\ pc'[a] = "copy" => work'[Path(a)'] = Partial
                   /\ pc'[a] = "extract" => work'[Path(a)'] \in Versions
<1>0. /\ pc \in [Buckets -> States] /\ cur \in [Buckets -> Object \cup {None}]
      /\ work \in [Paths -> Versions \cup {None, Partial, Mixed}]
      /\ writing \subseteq Buckets
      /\ \A b \in Buckets : pc[b] \in Stages => cur[b] \in Object
      /\ \A b \in Buckets : mode = "down" => pc[b] = "down"
  BY DEF AnywhereInv, TypeOK, InHand
<1>00. /\ \A b \in Buckets : pc[b] \in Stages => Path(b) \in Paths
       /\ \A b, c \in Buckets : pc[b] \in Stages /\ pc[c] \in Stages /\ Path(b) = Path(c) => b = c
  BY <1>0 DEF Paths, Path, PathsDistinct, Object
<1> USE <1>0, <1>00 DEF OwnFile, Stages, Path
<1> USE DEF vars, modeVars, pollerVars, objectVars, diskVars, outerVars
<1>1. CASE Start
  BY <1>1 DEF Start
<1>2. CASE Cancel
  BY <1>2 DEF Cancel
<1>3. CASE StoreClose
  BY <1>3 DEF StoreClose
<1>4. CASE Exit
  BY <1>4 DEF Exit, ProcessEnds
<1>5. CASE Crash
  BY <1>5 DEF Crash, ProcessEnds
<1>6. ASSUME NEW b \in Buckets, TriggerPoll(b)
      PROVE  Goal
  BY <1>6 DEF TriggerPoll
<1>7. ASSUME NEW b \in Buckets, NEW k \in Keys, NEW v \in Versions, Upload(b, k, v)
      PROVE  Goal
  BY <1>7 DEF Upload
<1>8. ASSUME NEW b \in Buckets, PollerStep(b)
      PROVE  Goal
  <2>1. CASE FirstPoll(b) \/ TickPoll(b) \/ TriggeredPoll(b)
    BY <2>1 DEF FirstPoll, TickPoll, TriggeredPoll, BeginPoll, Listing
  <2>2. CASE EndPoll(b)
    BY <2>2 DEF EndPoll
  <2>3. CASE SkipObject(b)
    BY <2>3 DEF SkipObject
  <2>4. CASE BeginObject(b)
    BY <2>4 DEF BeginObject
  <2>5. CASE CreateTemp(b)
    BY <2>5 DEF CreateTemp
  <2>6. CASE CreateFails(b)
    BY <2>6 DEF CreateFails, ObjectDone
  <2>7. CASE CopyObject(b)
    <3>1. /\ b \in writing /\ work[Path(b)] = Partial /\ pc[b] = "copy"
          /\ s3[b][cur[b].key] \in Versions
      <4>1. cur[b].key \in Keys /\ s3[b][cur[b].key] # None
        BY <2>7 DEF CopyObject, Object
      <4> QED
        BY <2>7, <4>1 DEF CopyObject, AnywhereInv, TypeOK
    <3>2. \A c \in writing \ {b} : Path(c) # Path(b)
      BY <2>7 DEF CopyObject
    <3>3. work' = [work EXCEPT ![Path(b)] = s3[b][cur[b].key]]
      <4>1. PICK c \in {s3[b][cur[b].key], Mixed} :
               /\ c = Mixed => \/ work[Path(b)] # Partial
                               \/ \E d \in writing \ {b} : Path(d) = Path(b)
               /\ work' = [work EXCEPT ![Path(b)] = c]
        BY <2>7, <3>1 DEF CopyObject
      <4> QED
        BY <3>1, <3>2, <4>1
    <3>4. /\ writing' = writing \ {b} /\ pc' = [pc EXCEPT ![b] = "extract"] /\ cur' = cur
      BY <2>7 DEF CopyObject
    <3> QED
      BY <3>1, <3>3, <3>4
  <2>8. CASE CopyFails(b)
    BY <2>8 DEF CopyFails, ObjectDone, Unlink
  <2>9. CASE ExtractOk(b)
    BY <2>9 DEF ExtractOk
  <2>10. CASE ExtractFails(b)
    BY <2>10 DEF ExtractFails, Unlink, Contents
  <2>11. CASE PostOk(b)
    BY <2>11 DEF PostOk, Posting, NextFile, FileDone
  <2>12. CASE PostRejected(b)
    BY <2>12 DEF PostRejected, Posting, FileDone
  <2>13. CASE PostUnanswered(b)
    BY <2>13 DEF PostUnanswered, Posting, NextFile, FileDone, MoreAttempts
  <2>14. CASE Mark(b)
    BY <2>14 DEF Mark
  <2>15. CASE Remove(b)
    BY <2>15 DEF Remove, Delete
  <2>16. CASE RemoveFails(b)
    BY <2>16 DEF RemoveFails, Delete
  <2>17. CASE Clean(b)
    BY <2>17 DEF Clean, ObjectDone, Unlink
  <2>18. CASE PollerStops(b)
    BY <2>18 DEF PollerStops
  <2> QED
    BY <1>8, <2>1, <2>2, <2>3, <2>4, <2>5, <2>6, <2>7, <2>8, <2>9, <2>10,
       <2>11, <2>12, <2>13, <2>14, <2>15, <2>16, <2>17, <2>18 DEF PollerStep
<1>9. CASE UNCHANGED vars
  BY <1>9
<1> QED
  BY <1>1, <1>2, <1>3, <1>4, <1>5, <1>6, <1>7, <1>8, <1>9 DEF Next

\* ExtractJSON reads a whole content, not a half or a mixed download.
LEMMA ReadsWhole ==
  ASSUME AnywhereInv, OwnFile, PathsDistinct, NEW b \in Buckets, pc[b] = "extract"
  PROVE  Contents(Path(b)) = {work[Path(b)]} /\ work[Path(b)] \in Versions
<1>1. ASSUME NEW c \in writing
      PROVE  Path(c) # Path(b)
  <2>1. c \in Buckets /\ pc[c] = "copy"
    BY DEF OwnFile, AnywhereInv, TypeOK
  <2>2. cur[c].key \in Keys /\ cur[b].key \in Keys /\ c # b
    BY <2>1 DEF Object, AnywhereInv, InHand, Stages
  <2> QED
    BY <2>1, <2>2 DEF PathsDistinct, Path
<1>2. work[Path(b)] \in Versions
  BY DEF OwnFile
<1> QED
  BY <1>1, <1>2 DEF Contents

\* Files counted as sent were accepted, whatever was read.
LEMMA AcceptedStep ==
  ASSUME AnywhereInv, AcceptedSoFar, [Next]_vars
  PROVE  AcceptedSoFar'
<1> SUFFICES ASSUME NEW a \in Buckets
             PROVE  /\ pc'[a] \in {"post", "remove"} => got'[a] \in Readable
                    /\ pc'[a] = "post" => sent'[a] <= FileCount[got'[a]]
                    /\ pc'[a] = "post" /\ ~failed'[a] =>
                         \A i \in 1..sent'[a] : <<a, cur'[a].key, got'[a], i>> \in received'
                    /\ pc'[a] = "remove" => Delivered(a, cur[a].key, got[a])'
  BY DEF AcceptedSoFar
<1> DEFINE Goal == /\ pc'[a] \in {"post", "remove"} => got'[a] \in Readable
                   /\ pc'[a] = "post" => sent'[a] <= FileCount[got'[a]]
                   /\ pc'[a] = "post" /\ ~failed'[a] =>
                        \A i \in 1..sent'[a] : <<a, cur'[a].key, got'[a], i>> \in received'
                   /\ pc'[a] = "remove" => Delivered(a, cur[a].key, got[a])'
<1>0. /\ pc \in [Buckets -> States] /\ cur \in [Buckets -> Object \cup {None}]
      /\ got \in [Buckets -> Versions \cup {None}] /\ sent \in [Buckets -> Nat]
      /\ failed \in [Buckets -> BOOLEAN]
      /\ \A b \in Buckets : pc[b] \in Stages => cur[b] \in Object
      /\ \A b \in Buckets : mode = "down" => pc[b] = "down"
      /\ \A b \in Buckets : pc[b] \notin {"post", "remove", "clean"} => sent[b] = 0
  BY DEF AnywhereInv, TypeOK, InHand
<1> USE <1>0 DEF AcceptedSoFar, Stages, Delivered
<1> USE DEF vars, modeVars, pollerVars, objectVars, diskVars, outerVars
<1>1. CASE Start
  BY <1>1 DEF Start
<1>2. CASE Cancel
  BY <1>2 DEF Cancel
<1>3. CASE StoreClose
  BY <1>3 DEF StoreClose
<1>4. CASE Exit
  BY <1>4 DEF Exit, ProcessEnds
<1>5. CASE Crash
  BY <1>5 DEF Crash, ProcessEnds
<1>6. ASSUME NEW b \in Buckets, TriggerPoll(b)
      PROVE  Goal
  BY <1>6 DEF TriggerPoll
<1>7. ASSUME NEW b \in Buckets, NEW k \in Keys, NEW v \in Versions, Upload(b, k, v)
      PROVE  Goal
  BY <1>7 DEF Upload
<1>8. ASSUME NEW b \in Buckets, PollerStep(b)
      PROVE  Goal
  <2>1. CASE FirstPoll(b) \/ TickPoll(b) \/ TriggeredPoll(b)
    BY <2>1 DEF FirstPoll, TickPoll, TriggeredPoll, BeginPoll, Listing
  <2>2. CASE EndPoll(b)
    BY <2>2 DEF EndPoll
  <2>3. CASE SkipObject(b)
    BY <2>3 DEF SkipObject
  <2>4. CASE BeginObject(b)
    BY <2>4 DEF BeginObject
  <2>5. CASE CreateTemp(b)
    BY <2>5 DEF CreateTemp
  <2>6. CASE CreateFails(b)
    BY <2>6 DEF CreateFails, ObjectDone
  <2>7. CASE CopyObject(b)
    BY <2>7 DEF CopyObject
  <2>8. CASE CopyFails(b)
    BY <2>8 DEF CopyFails, ObjectDone, Unlink
  <2>9. CASE ExtractOk(b)
    BY <2>9 DEF ExtractOk
  <2>10. CASE ExtractFails(b)
    BY <2>10 DEF ExtractFails, Unlink, Contents
  <2>11. CASE PostOk(b)
    BY <2>11 DEF PostOk, Posting, NextFile, FileDone
  <2>12. CASE PostRejected(b)
    <3>1. failed' = [failed EXCEPT ![b] = TRUE]
      BY <2>12 DEF PostRejected, FileDone
    <3>2. /\ pc[b] = "post" /\ sent[b] < FileCount[got[b]] /\ sent' = [sent EXCEPT ![b] = sent[b] + 1]
          /\ UNCHANGED <<pc, cur, got, received>>
      BY <2>12 DEF PostRejected, Posting, FileDone
    <3> QED
      BY <3>1, <3>2
  <2>13. CASE PostUnanswered(b)
    <3>1. /\ pc[b] = "post" /\ sent[b] < FileCount[got[b]] /\ received \subseteq received'
          /\ UNCHANGED <<pc, cur, got>>
      BY <2>13 DEF PostUnanswered, Posting
    <3>2. CASE UNCHANGED <<sent, failed>>
      BY <3>1, <3>2
    <3>3. CASE FileDone(b, TRUE)
      <4>1. failed' = [failed EXCEPT ![b] = TRUE] /\ sent' = [sent EXCEPT ![b] = sent[b] + 1]
        BY <3>3 DEF FileDone
      <4> QED
        BY <3>1, <4>1
    <3> QED
      BY <2>13, <3>2, <3>3 DEF PostUnanswered
  <2>14. CASE Mark(b)
    BY <2>14 DEF Mark, DeleteWanted
  <2>15. CASE Remove(b)
    BY <2>15 DEF Remove, Delete
  <2>16. CASE RemoveFails(b)
    BY <2>16 DEF RemoveFails, Delete
  <2>17. CASE Clean(b)
    BY <2>17 DEF Clean, ObjectDone, Unlink
  <2>18. CASE PollerStops(b)
    BY <2>18 DEF PollerStops
  <2> QED
    BY <1>8, <2>1, <2>2, <2>3, <2>4, <2>5, <2>6, <2>7, <2>8, <2>9, <2>10,
       <2>11, <2>12, <2>13, <2>14, <2>15, <2>16, <2>17, <2>18 DEF PollerStep
<1>9. CASE UNCHANGED vars
  BY <1>9
<1> QED
  BY <1>1, <1>2, <1>3, <1>4, <1>5, <1>6, <1>7, <1>8, <1>9 DEF Next

\* RemoveObject comes after a full delivery, of this content or another.
LEMMA DeletesEarned ==
  ASSUME AnywhereInv, AcceptedSoFar, OutcomesEarned, NEW b \in Buckets,
         pc[b] = "remove", Delete(b), UNCHANGED <<received, processed>>
  PROVE  OutcomesEarned'
<1>1. SomeDelivered(b, cur[b].key)
  BY DEF AcceptedSoFar, SomeDelivered
<1>2. removed' \subseteq removed \cup {<<b, cur[b].key, v>> : v \in {s3[b][cur[b].key]}}
  BY DEF Delete
<1> QED
  BY <1>1, <1>2 DEF OutcomesEarned, SomeDelivered, Delivered

\* Records, deletions and quarantine only follow what was posted and read.
LEMMA EarnedStep ==
  ASSUME AnywhereInv, OwnFile, AcceptedSoFar, PathsDistinct,
         OutcomesEarned, OnlyBadQuarantined, [Next]_vars
  PROVE  OutcomesEarned' /\ OnlyBadQuarantined'
<1> DEFINE Goal == OutcomesEarned' /\ OnlyBadQuarantined'
<1>0. /\ pc \in [Buckets -> States] /\ cur \in [Buckets -> Object \cup {None}]
      /\ got \in [Buckets -> Versions \cup {None}] /\ sent \in [Buckets -> Nat]
      /\ processed \in [Buckets -> [Keys -> Entry]]
      /\ s3 \in [Buckets -> [Keys -> Versions \cup {None}]]
      /\ \A b \in Buckets : pc[b] \in Stages => cur[b] \in Object
  BY DEF AnywhereInv, TypeOK, InHand
<1> USE <1>0 DEF OutcomesEarned, OnlyBadQuarantined, Stages, SomeDelivered, Delivered
<1> USE DEF vars, modeVars, pollerVars, objectVars, diskVars, outerVars
<1>1. CASE Start
  BY <1>1 DEF Start
<1>2. CASE Cancel
  BY <1>2 DEF Cancel
<1>3. CASE StoreClose
  BY <1>3 DEF StoreClose
<1>4. CASE Exit
  BY <1>4 DEF Exit, ProcessEnds
<1>5. CASE Crash
  BY <1>5 DEF Crash, ProcessEnds
<1>6. ASSUME NEW b \in Buckets, TriggerPoll(b)
      PROVE  Goal
  BY <1>6 DEF TriggerPoll
<1>7. ASSUME NEW b \in Buckets, NEW k \in Keys, NEW v \in Versions, Upload(b, k, v)
      PROVE  Goal
  BY <1>7 DEF Upload
<1>8. ASSUME NEW b \in Buckets, PollerStep(b)
      PROVE  Goal
  <2>1. CASE FirstPoll(b) \/ TickPoll(b) \/ TriggeredPoll(b)
    BY <2>1 DEF FirstPoll, TickPoll, TriggeredPoll, BeginPoll, Listing
  <2>2. CASE EndPoll(b)
    BY <2>2 DEF EndPoll
  <2>3. CASE SkipObject(b)
    BY <2>3 DEF SkipObject
  <2>4. CASE BeginObject(b)
    BY <2>4 DEF BeginObject
  <2>5. CASE CreateTemp(b)
    BY <2>5 DEF CreateTemp
  <2>6. CASE CreateFails(b)
    BY <2>6 DEF CreateFails, ObjectDone
  <2>7. CASE CopyObject(b)
    BY <2>7 DEF CopyObject
  <2>8. CASE CopyFails(b)
    BY <2>8 DEF CopyFails, ObjectDone, Unlink
  <2>9. CASE ExtractOk(b)
    BY <2>9 DEF ExtractOk
  <2>10. CASE ExtractFails(b)
    <3>1. /\ Contents(Path(b)) = {work[Path(b)]} /\ work[Path(b)] \in Versions
          /\ UNCHANGED <<received, processed, removed>>
      BY <2>10, ReadsWhole DEF ExtractFails
    <3>2. \/ UNCHANGED quarantined
          \/ quarantined' = quarantined \cup {<<cur[b].key, work[Path(b)]>>} /\ work[Path(b)] \notin Readable
      BY <2>10, <3>1 DEF ExtractFails
    <3> QED
      BY <3>1, <3>2
  <2>11. CASE PostOk(b)
    BY <2>11 DEF PostOk, Posting, NextFile, FileDone
  <2>12. CASE PostRejected(b)
    BY <2>12 DEF PostRejected, Posting, FileDone
  <2>13. CASE PostUnanswered(b)
    BY <2>13 DEF PostUnanswered, Posting, NextFile, FileDone, MoreAttempts
  <2>14. CASE Mark(b)
    <3>1. /\ pc[b] = "post" /\ sent[b] = FileCount[got[b]] /\ got[b] \in Readable
          /\ UNCHANGED <<received, removed, quarantined>>
      BY <2>14 DEF Mark, AcceptedSoFar
    <3>2. ~failed[b] => SomeDelivered(b, cur[b].key)
      <4>1. ~failed[b] => Delivered(b, cur[b].key, got[b])
        BY <3>1 DEF AcceptedSoFar
      <4> QED
        BY <3>1, <4>1
    <3>3. CASE UNCHANGED processed
      BY <3>1, <3>3
    <3>4. CASE processed' = [processed EXCEPT ![b][cur[b].key] =
                 [etag |-> cur[b].etag, status |-> IF failed[b] THEN "partial" ELSE "ok"]]
      <4>1. ASSUME NEW a \in Buckets, NEW k \in Keys, processed'[a][k].status = "ok"
            PROVE  SomeDelivered(a, k)
        <5>1. CASE a = b /\ k = cur[b].key
          BY <3>2, <3>4, <4>1, <5>1
        <5>2. CASE ~(a = b /\ k = cur[b].key)
          BY <3>4, <4>1, <5>2
        <5> QED
          BY <5>1, <5>2
      <4> QED
        BY <3>1, <4>1
    <3> QED
      BY <2>14, <3>3, <3>4 DEF Mark
  <2>15. CASE Remove(b)
    <3>1. pc[b] = "remove" /\ Delete(b) /\ UNCHANGED <<received, processed, quarantined>>
      BY <2>15 DEF Remove
    <3> QED
      BY <3>1, DeletesEarned
  <2>16. CASE RemoveFails(b)
    <3>1. /\ pc[b] = "remove" /\ UNCHANGED <<received, processed, quarantined>>
          /\ Delete(b) \/ UNCHANGED removed
      BY <2>16 DEF RemoveFails
    <3> QED
      BY <3>1, DeletesEarned
  <2>17. CASE Clean(b)
    BY <2>17 DEF Clean, ObjectDone, Unlink
  <2>18. CASE PollerStops(b)
    BY <2>18 DEF PollerStops
  <2> QED
    BY <1>8, <2>1, <2>2, <2>3, <2>4, <2>5, <2>6, <2>7, <2>8, <2>9, <2>10,
       <2>11, <2>12, <2>13, <2>14, <2>15, <2>16, <2>17, <2>18 DEF PollerStep
<1>9. CASE UNCHANGED vars
  BY <1>9
<1> QED
  BY <1>1, <1>2, <1>3, <1>4, <1>5, <1>6, <1>7, <1>8, <1>9 DEF Next

\* EarnedInv is inductive.
LEMMA EarnedInvStep ==
  ASSUME PathsDistinct, EarnedInv, [Next]_vars
  PROVE  EarnedInv'
<1> USE DEF EarnedInv
<1>1. AnywhereInv'
  BY TypeStep, InHandStep, NoReprocessingStep, FileOwnedStep DEF AnywhereInv
<1>2. OwnFile'
  BY OwnFileStep
<1>3. AcceptedSoFar'
  BY AcceptedStep
<1>4. OutcomesEarned' /\ OnlyBadQuarantined'
  BY EarnedStep
<1> QED
  BY <1>1, <1>2, <1>3, <1>4

\* The invariant holds at the start.
LEMMA EarnedInit == Init => EarnedInv
<1> SUFFICES ASSUME Init PROVE EarnedInv
  OBVIOUS
<1>1. AnywhereInv
  BY AnywhereInit
<1>2. OwnFile /\ AcceptedSoFar
  BY DEF Init, OwnFile, AcceptedSoFar, Stages
<1>3. OutcomesEarned /\ OnlyBadQuarantined
  BY DEF Init, OutcomesEarned, OnlyBadQuarantined
<1> QED
  BY <1>1, <1>2, <1>3 DEF EarnedInv

\* The invariant of a relocator whose producers may overwrite.
THEOREM EarnedInvariant ==
  ASSUME PathsDistinct
  PROVE  Spec => []EarnedInv
<1>1. EarnedInv /\ [Next]_vars => EarnedInv'
  BY EarnedInvStep
<1> QED
  BY EarnedInit, <1>1, PTL DEF Spec

\* Whatever producers do, an object is recorded as done or deleted only after
\* some archive under its key was handed over entirely: pipeline.go orders
\* download, posts, MarkProcessed and RemoveObject, and what may be lost is
\* the archive that took the place of the one that was read.
THEOREM OutcomesAlwaysEarned ==
  ASSUME PathsDistinct
  PROVE  Spec => []OutcomesEarned
<1>1. EarnedInv => OutcomesEarned
  BY DEF EarnedInv
<1> QED
  BY <1>1, EarnedInvariant, PTL

\* Only archives that cannot be read end up in quarantine, even when
\* producers replace what is being downloaded.
THEOREM QuarantineOnlyBad ==
  ASSUME PathsDistinct
  PROVE  Spec => []OnlyBadQuarantined
<1>1. EarnedInv => OnlyBadQuarantined
  BY DEF EarnedInv
<1> QED
  BY <1>1, EarnedInvariant, PTL

---------------------------------------------------------------------------
(* Refinement of Delivery *)

\* A step that leaves buckets, deliveries and records alone is a stutter.
LEMMA Stutter == UNCHANGED <<s3, received, processed>> => UNCHANGED D!vars
  BY DEF D!vars, Recorded

\* RemoveObject is Take, or a stutter when the object is gone already.
LEMMA DeleteIsTake ==
  ASSUME PipelineInv, NEW b \in Buckets, pc[b] = "remove", Delete(b), UNCHANGED <<received, processed>>
  PROVE  D!Next
<1> DEFINE k == cur[b].key
<1>1. /\ k \in Keys /\ s3[b][k] = got[b]
      /\ got[b] \in Readable /\ Delivered(b, k, got[b])
  BY DEF PipelineInv, AnywhereInv, InHand, ListingFresh, SentOK, Stages, Object
<1>2. s3' = [s3 EXCEPT ![b][k] = None] /\ UNCHANGED Recorded
  BY DEF Delete, Recorded
<1> HIDE DEF k
<1>3. D!Take(b, k)
  BY <1>1, <1>2 DEF D!Take, D!AllDelivered, Delivered
<1> QED
  BY <1>1, <1>3 DEF D!Next

\* What is posted is the object in hand, and still in its bucket.
LEMMA PostHand ==
  ASSUME PipelineInv, NEW b \in Buckets, pc[b] = "post"
  PROVE  /\ cur[b].key \in Keys /\ s3[b][cur[b].key] = cur[b].etag /\ got[b] = cur[b].etag
         /\ got[b] \in Readable /\ sent[b] \in Nat /\ FileCount[got[b]] \in Nat
<1>1. cur[b] \in Object /\ sent[b] \in Nat
  BY DEF PipelineInv, AnywhereInv, TypeOK, InHand, Stages
<1>2. s3[b][cur[b].key] = cur[b].etag
  BY DEF PipelineInv, ListingFresh, Stages
<1>3. got[b] = cur[b].etag /\ got[b] \in Readable
  BY DEF PipelineInv, SentOK
<1> QED
  BY <1>1, <1>2, <1>3 DEF Object

\* An accepted file is Deliver.
LEMMA AcceptIsDeliver ==
  ASSUME PipelineInv, NEW b \in Buckets, Posting(b),
         received' = received \cup {NextFile(b)}, UNCHANGED <<s3, processed>>
  PROVE  D!Next
<1> DEFINE k == cur[b].key
           n == sent[b] + 1
<1>1. /\ k \in Keys /\ s3[b][k] = got[b] /\ got[b] \in Readable /\ got[b] \in Versions
      /\ n \in 1..FileCount[got[b]]
  BY PostHand DEF Posting
<1>2. received' = received \cup {<<b, k, s3[b][k], n>>} /\ UNCHANGED <<s3, Recorded>>
  BY <1>1 DEF NextFile, Recorded
<1> HIDE DEF k, n
<1>3. D!Deliver(b, k, n)
  BY <1>1, <1>2 DEF D!Deliver
<1> QED
  BY <1>1, <1>3 DEF D!Next

\* A record with status "ok" is Record, one with status "partial" is Forget.
LEMMA MarkIsRecord ==
  ASSUME PipelineInv, NEW b \in Buckets, Mark(b)
  PROVE  D!Next \/ UNCHANGED D!vars
<1> DEFINE k == cur[b].key
           st == IF failed[b] THEN "partial" ELSE "ok"
<1>1. /\ k \in Keys /\ s3[b][k] = cur[b].etag /\ got[b] = cur[b].etag
      /\ got[b] \in Readable /\ sent[b] = FileCount[got[b]]
      /\ processed \in [Buckets -> [Keys -> Entry]]
      /\ ~failed[b] => Delivered(b, k, cur[b].etag)
      /\ UNCHANGED <<s3, received>>
  <2>1. /\ pc[b] = "post" /\ sent[b] = FileCount[got[b]] /\ UNCHANGED <<s3, received>>
    BY DEF Mark, outerVars
  <2>2. /\ processed \in [Buckets -> [Keys -> Entry]]
        /\ ~failed[b] => Delivered(b, k, cur[b].etag)
    BY <2>1, PostHand DEF PipelineInv, AnywhereInv, TypeOK, SentOK, Delivered
  <2> QED
    BY <2>1, <2>2, PostHand
<1>2. CASE UNCHANGED processed
  BY <1>1, <1>2, Stutter
<1>3. CASE processed' = [processed EXCEPT ![b][k] = [etag |-> cur[b].etag, status |-> st]]
  <2>1. Recorded' = [Recorded EXCEPT ![b][k] = IF st = "ok" THEN cur[b].etag ELSE None]
    BY <1>1, <1>3 DEF Recorded
  <2> HIDE DEF k
  <2>2. CASE failed[b]
    <3>1. D!Forget(b, k)
      BY <1>1, <2>1, <2>2 DEF D!Forget
    <3> QED
      BY <1>1, <3>1 DEF D!Next
  <2>3. CASE ~failed[b]
    <3>1. D!Record(b, k)
      BY <1>1, <2>1, <2>3 DEF D!Record, D!AllDelivered, Delivered
    <3> QED
      BY <1>1, <3>1 DEF D!Next
  <2> QED
    BY <2>2, <2>3
<1> QED
  BY <1>2, <1>3 DEF Mark

\* Every other step of a poller is a stutter.
LEMMA PollerStepMaps ==
  ASSUME PipelineInv, NEW b \in Buckets, PollerStep(b)
  PROVE  [D!Next]_D!vars
<1> USE DEF outerVars
<1>1. CASE FirstPoll(b) \/ TickPoll(b) \/ TriggeredPoll(b)
  BY <1>1, Stutter DEF FirstPoll, TickPoll, TriggeredPoll, BeginPoll
<1>2. CASE EndPoll(b) \/ SkipObject(b) \/ BeginObject(b) \/ PollerStops(b)
  BY <1>2, Stutter DEF EndPoll, SkipObject, BeginObject, PollerStops
<1>3. CASE CreateTemp(b) \/ CreateFails(b) \/ CopyObject(b) \/ CopyFails(b)
  BY <1>3, Stutter DEF CreateTemp, CreateFails, CopyObject, CopyFails
<1>4. CASE ExtractOk(b) \/ ExtractFails(b) \/ Clean(b) \/ PostRejected(b)
  BY <1>4, Stutter DEF ExtractOk, ExtractFails, Clean, PostRejected
<1>5. CASE PostOk(b)
  BY <1>5, AcceptIsDeliver DEF PostOk
<1>6. CASE PostUnanswered(b)
  <2>1. /\ Posting(b) /\ UNCHANGED <<s3, processed>>
        /\ received' = received \/ received' = received \cup {NextFile(b)}
    BY <1>6 DEF PostUnanswered
  <2> QED
    BY <2>1, Stutter, AcceptIsDeliver
<1>7. CASE Mark(b)
  BY <1>7, MarkIsRecord
<1>8. CASE Remove(b)
  BY <1>8, DeleteIsTake DEF Remove
<1>9. CASE RemoveFails(b)
  BY <1>9, Stutter, DeleteIsTake DEF RemoveFails
<1> QED
  BY <1>1, <1>2, <1>3, <1>4, <1>5, <1>6, <1>7, <1>8, <1>9 DEF PollerStep

\* So is every step of the process and of its environment but an upload.
LEMMA StepMaps ==
  ASSUME Overwrites = FALSE, PipelineInv, [Next]_vars
  PROVE  [D!Next]_D!vars
<1> USE DEF outerVars
<1>1. CASE Start \/ Cancel \/ StoreClose
  BY <1>1, Stutter DEF Start, Cancel, StoreClose
<1>2. CASE Exit \/ Crash
  BY <1>2, Stutter DEF Exit, Crash, ProcessEnds
<1>3. ASSUME NEW b \in Buckets, TriggerPoll(b)
      PROVE  [D!Next]_D!vars
  BY <1>3, Stutter DEF TriggerPoll
<1>4. ASSUME NEW b \in Buckets, PollerStep(b)
      PROVE  [D!Next]_D!vars
  BY <1>4, PollerStepMaps
<1>5. ASSUME NEW b \in Buckets, NEW k \in Keys, NEW v \in Versions, Upload(b, k, v)
      PROVE  [D!Next]_D!vars
  <2>1. D!Arrive(b, k, v)
    BY <1>5 DEF Upload, D!Arrive, Recorded
  <2> QED
    BY <2>1 DEF D!Next
<1>6. CASE UNCHANGED vars
  BY <1>6, Stutter DEF vars
<1> QED
  BY <1>1, <1>2, <1>3, <1>4, <1>5, <1>6 DEF Next

\* The pipeline, with its crashes, retries and partial failures, implements
\* at-least-once delivery as Delivery states it.
THEOREM RelocatorImplementsDelivery ==
  ASSUME Overwrites = FALSE, PathsDistinct
  PROVE  Spec => ImplementsDelivery
<1>1. Init => D!Init
  BY DEF Init, D!Init, Recorded
<1>2. PipelineInv /\ [Next]_vars => [D!Next]_D!vars
  BY StepMaps
<1> QED
  BY <1>1, <1>2, PipelineInvariant, PTL DEF Spec, ImplementsDelivery, D!Spec
=============================================================================
