--------------------------- MODULE RelocatorProofs --------------------------
(***************************************************************************)
(* Machine-checked theorems about Relocator.                               *)
(*                                                                         *)
(* AnywhereInv and OnceInv need no hypothesis.  PipelineInv (proved in     *)
(* RelocatorDeliveryProofs) needs the two facts its counterexamples        *)
(* (MCRelocator_overwrite, MCRelocator_workpath) show to be necessary:     *)
(* producers do not overwrite a waiting object, and no two buckets share a *)
(* work file.                                                              *)
(***************************************************************************)
EXTENDS Relocator, TLAPS

USE ConstantsAssumption

---------------------------------------------------------------------------
(* Invariants that hold for every configuration *)

\* RemoveObject keeps the types of the buckets and of the deletions.
LEMMA DeleteType ==
  ASSUME TypeOK, NEW b \in Buckets, cur[b] \in Object, Delete(b)
  PROVE  /\ s3' \in [Buckets -> [Keys -> Versions \cup {None}]]
         /\ removed' \subseteq Buckets \X Keys \X Versions
<1>1. cur[b].key \in Keys
  BY DEF Object
<1>2. s3' \in [Buckets -> [Keys -> Versions \cup {None}]]
  <2> DEFINE X == Versions \cup {None}
  <2>1. None \in X /\ s3 \in [Buckets -> [Keys -> X]]
    BY DEF TypeOK
  <2>2. s3' = [s3 EXCEPT ![b][cur[b].key] = None]
    BY DEF Delete
  <2> HIDE DEF X
  <2>3. s3' \in [Buckets -> [Keys -> X]]
    BY <1>1, <2>1, <2>2
  <2> QED
    BY <2>3 DEF X
<1>3. removed' \subseteq Buckets \X Keys \X Versions
  BY <1>1 DEF Delete, TypeOK
<1> QED
  BY <1>2, <1>3

\* Types survive every step.
LEMMA TypeStep ==
  ASSUME TypeOK, InHand, [Next]_vars
  PROVE  TypeOK'
<1> USE DEF TypeOK, InHand, Object, Entry, Stages, States, Paths, Path, Fault
<1> USE DEF vars, modeVars, pollerVars, objectVars, diskVars, outerVars
<1>1. CASE Start
  BY <1>1 DEF Start
<1>2. CASE Cancel
  BY <1>2 DEF Cancel
<1>3. CASE StoreClose
  BY <1>3 DEF StoreClose
<1>4. CASE Exit
  BY <1>4 DEF Exit, ProcessEnds
<1>5. CASE Crash
  BY <1>5 DEF Crash, ProcessEnds
<1>6. ASSUME NEW b \in Buckets, TriggerPoll(b)
      PROVE  TypeOK'
  BY <1>6 DEF TriggerPoll
<1>7. ASSUME NEW b \in Buckets, NEW k \in Keys, NEW v \in Versions, Upload(b, k, v)
      PROVE  TypeOK'
  BY <1>7 DEF Upload
<1>8. ASSUME NEW b \in Buckets, PollerStep(b)
      PROVE  TypeOK'
  <2>1. CASE FirstPoll(b) \/ TickPoll(b) \/ TriggeredPoll(b)
    <3>1. BeginPoll(b) /\ trigger' \subseteq Buckets
      BY <2>1 DEF FirstPoll, TickPoll, TriggeredPoll
    <3>2. Listing(b) \subseteq Object
      BY DEF Listing
    <3> QED
      BY <3>1, <3>2 DEF BeginPoll
  <2>2. CASE EndPoll(b)
    BY <2>2 DEF EndPoll
  <2>3. CASE SkipObject(b)
    BY <2>3 DEF SkipObject
  <2>4. CASE BeginObject(b)
    BY <2>4 DEF BeginObject
  <2>5. CASE CreateTemp(b)
    BY <2>5 DEF CreateTemp
  <2>6. CASE CreateFails(b)
    BY <2>6 DEF CreateFails, ObjectDone
  <2>7. CASE CopyObject(b)
    <3>1. cur[b] \in Object /\ Path(b) \in Paths /\ s3[b][cur[b].key] \in Versions
      BY <2>7 DEF CopyObject
    <3>2. work' \in [Paths -> Versions \cup {None, Partial, Mixed}]
      <4>1. CASE b \notin writing
        BY <2>7, <4>1 DEF CopyObject
      <4>2. CASE b \in writing
        <5>1. PICK c \in {s3[b][cur[b].key], Mixed} : work' = [work EXCEPT ![Path(b)] = c]
          BY <2>7, <4>2 DEF CopyObject
        <5> QED
          BY <5>1, <3>1
      <4> QED
        BY <4>1, <4>2
    <3>3. /\ pc' \in [Buckets -> States] /\ writing' \subseteq Buckets
          /\ UNCHANGED <<modeVars, todo, objectVars, leftover, quarantined, outerVars, processed, faults>>
      BY <2>7 DEF CopyObject
    <3> QED
      BY <3>2, <3>3
  <2>8. CASE CopyFails(b)
    BY <2>8 DEF CopyFails, ObjectDone, Unlink
  <2>9. CASE ExtractOk(b)
    BY <2>9 DEF ExtractOk
  <2>10. CASE ExtractFails(b)
    <3>1. cur[b] \in Object /\ Path(b) \in Paths
      BY <2>10 DEF ExtractFails
    <3>2. Contents(Path(b)) \subseteq Versions \cup {None, Partial, Mixed}
      BY <3>1 DEF Contents
    <3>3. PICK c \in Contents(Path(b)) \ Readable :
             \/ UNCHANGED diskVars
             \/ /\ quarantined' = quarantined \cup {<<cur[b].key, c>>}
                /\ Unlink(Path(b))
                /\ UNCHANGED leftover
      BY <2>10 DEF ExtractFails
    <3>4. /\ quarantined' \subseteq Keys \X (Versions \cup {None, Partial, Mixed})
          /\ leftover' \subseteq Paths
      BY <3>1, <3>2, <3>3
    <3>5. work' \in [Paths -> Versions \cup {None, Partial, Mixed}] /\ writing' \subseteq Buckets
      <4>1. CASE UNCHANGED diskVars
        BY <4>1
      <4>2. CASE Unlink(Path(b))
        BY <3>1, <4>2 DEF Unlink
      <4> QED
        BY <3>3, <4>1, <4>2
    <3>6. /\ pc' \in [Buckets -> States]
          /\ UNCHANGED <<modeVars, todo, objectVars, outerVars, processed, faults>>
      BY <2>10 DEF ExtractFails
    <3> QED
      BY <3>4, <3>5, <3>6
  <2>11. CASE PostOk(b)
    BY <2>11 DEF PostOk, Posting, NextFile, FileDone
  <2>12. CASE PostRejected(b)
    BY <2>12 DEF PostRejected, Posting, FileDone
  <2>13. CASE PostUnanswered(b)
    <3>1. NextFile(b) \in Buckets \X Keys \X Versions \X (Nat \ {0})
      BY <2>13 DEF PostUnanswered, Posting, NextFile
    <3>2. received' \subseteq Buckets \X Keys \X Versions \X (Nat \ {0})
      BY <2>13, <3>1 DEF PostUnanswered
    <3>3. /\ sent' \in [Buckets -> Nat]
          /\ attempt' \in [Buckets -> 0..Retries]
          /\ failed' \in [Buckets -> BOOLEAN]
      <4>1. CASE MoreAttempts(b) /\ attempt' = [attempt EXCEPT ![b] = @ + 1] /\ UNCHANGED <<sent, failed>>
        BY <4>1 DEF MoreAttempts
      <4>2. CASE FileDone(b, TRUE)
        BY <4>2 DEF FileDone
      <4> QED
        BY <2>13, <4>1, <4>2 DEF PostUnanswered
    <3>4. faults' \in 0..MaxFaults
      BY <2>13 DEF PostUnanswered
    <3> QED
      BY <2>13, <3>2, <3>3, <3>4 DEF PostUnanswered
  <2>14. CASE Mark(b)
    <3> DEFINE e == [etag |-> cur[b].etag, status |-> IF failed[b] THEN "partial" ELSE "ok"]
    <3>1. cur[b].key \in Keys /\ e \in Entry
      BY <2>14 DEF Mark
    <3>2. processed' = processed \/ processed' = [processed EXCEPT ![b][cur[b].key] = e]
      BY <2>14 DEF Mark
    <3>3. processed' \in [Buckets -> [Keys -> Entry]]
      <4>1. processed \in [Buckets -> [Keys -> Entry]]
        OBVIOUS
      <4> HIDE DEF e, Entry
      <4> QED
        BY ONLY <3>1, <3>2, <4>1, b \in Buckets
    <3>4. pc' \in [Buckets -> States] /\ faults' \in 0..MaxFaults
      BY <2>14 DEF Mark
    <3> QED
      BY <2>14, <3>3, <3>4 DEF Mark
  <2>15. CASE Remove(b)
    BY <2>15, DeleteType DEF Remove
  <2>16. CASE RemoveFails(b)
    <3>1. cur[b] \in Object
      BY <2>16 DEF RemoveFails
    <3>2. /\ s3' \in [Buckets -> [Keys -> Versions \cup {None}]]
          /\ removed' \subseteq Buckets \X Keys \X Versions
      BY <2>16, <3>1, DeleteType DEF RemoveFails
    <3>3. /\ pc' \in [Buckets -> States] /\ faults' \in 0..MaxFaults
          /\ UNCHANGED <<modeVars, todo, objectVars, diskVars, received, processed>>
      BY <2>16 DEF RemoveFails
    <3> QED
      BY <3>2, <3>3
  <2>17. CASE Clean(b)
    BY <2>17 DEF Clean, ObjectDone, Unlink
  <2>18. CASE PollerStops(b)
    BY <2>18 DEF PollerStops
  <2> HIDE DEF TypeOK, InHand, Object, Entry, Stages, States, Paths, Path, Fault
  <2> QED
    BY <1>8, <2>1, <2>2, <2>3, <2>4, <2>5, <2>6, <2>7, <2>8, <2>9, <2>10,
       <2>11, <2>12, <2>13, <2>14, <2>15, <2>16, <2>17, <2>18 DEF PollerStep
<1>9. CASE UNCHANGED vars
  BY <1>9
<1> HIDE DEF TypeOK, InHand, Object, Entry, Stages, States, Paths, Path, Fault
<1> QED
  BY <1>1, <1>2, <1>3, <1>4, <1>5, <1>6, <1>7, <1>8, <1>9 DEF Next

\* So does what is in hand.
LEMMA InHandStep ==
  ASSUME TypeOK, InHand, [Next]_vars
  PROVE  InHand'
<1> USE DEF TypeOK, InHand, Object, Stages, States, Fault
<1> USE DEF vars, modeVars, pollerVars, objectVars, diskVars, outerVars
<1>1. CASE Start
  BY <1>1 DEF Start
<1>2. CASE Cancel
  BY <1>2 DEF Cancel
<1>3. CASE StoreClose
  BY <1>3 DEF StoreClose
<1>4. CASE Exit
  BY <1>4 DEF Exit, ProcessEnds
<1>5. CASE Crash
  BY <1>5 DEF Crash, ProcessEnds
<1>6. ASSUME NEW b \in Buckets, TriggerPoll(b)
      PROVE  InHand'
  BY <1>6 DEF TriggerPoll
<1>7. ASSUME NEW b \in Buckets, NEW k \in Keys, NEW v \in Versions, Upload(b, k, v)
      PROVE  InHand'
  BY <1>7 DEF Upload
<1>8. ASSUME NEW b \in Buckets, PollerStep(b)
      PROVE  InHand'
  <2>1. CASE FirstPoll(b) \/ TickPoll(b) \/ TriggeredPoll(b)
    BY <2>1 DEF FirstPoll, TickPoll, TriggeredPoll, BeginPoll, Listing
  <2>2. CASE EndPoll(b)
    BY <2>2 DEF EndPoll
  <2>3. CASE SkipObject(b)
    BY <2>3 DEF SkipObject
  <2>4. CASE BeginObject(b)
    BY <2>4 DEF BeginObject
  <2>5. CASE CreateTemp(b)
    BY <2>5 DEF CreateTemp
  <2>6. CASE CreateFails(b)
    BY <2>6 DEF CreateFails, ObjectDone
  <2>7. CASE CopyObject(b)
    BY <2>7 DEF CopyObject
  <2>8. CASE CopyFails(b)
    BY <2>8 DEF CopyFails, ObjectDone, Unlink
  <2>9. CASE ExtractOk(b)
    BY <2>9 DEF ExtractOk
  <2>10. CASE ExtractFails(b)
    BY <2>10 DEF ExtractFails, Unlink, Contents
  <2>11. CASE PostOk(b)
    BY <2>11 DEF PostOk, Posting, NextFile, FileDone
  <2>12. CASE PostRejected(b)
    BY <2>12 DEF PostRejected, Posting, FileDone
  <2>13. CASE PostUnanswered(b)
    BY <2>13 DEF PostUnanswered, Posting, NextFile, FileDone, MoreAttempts
  <2>14. CASE Mark(b)
    BY <2>14 DEF Mark
  <2>15. CASE Remove(b)
    BY <2>15 DEF Remove, Delete
  <2>16. CASE RemoveFails(b)
    BY <2>16 DEF RemoveFails, Delete
  <2>17. CASE Clean(b)
    BY <2>17 DEF Clean, ObjectDone, Unlink
  <2>18. CASE PollerStops(b)
    BY <2>18 DEF PollerStops
  <2> HIDE DEF TypeOK, InHand, Object, Stages, States, Fault
  <2> QED
    BY <1>8, <2>1, <2>2, <2>3, <2>4, <2>5, <2>6, <2>7, <2>8, <2>9, <2>10,
       <2>11, <2>12, <2>13, <2>14, <2>15, <2>16, <2>17, <2>18 DEF PollerStep
<1>9. CASE UNCHANGED vars
  BY <1>9
<1> HIDE DEF TypeOK, InHand, Object, Stages, States, Fault
<1> QED
  BY <1>1, <1>2, <1>3, <1>4, <1>5, <1>6, <1>7, <1>8, <1>9 DEF Next

\* An object recorded as done stays out of the pipeline.
LEMMA NoReprocessingStep ==
  ASSUME TypeOK, InHand, NoReprocessing, [Next]_vars
  PROVE  NoReprocessing'
<1> USE DEF TypeOK, InHand, NoReprocessing, IsProcessed, Object, Stages, States, Fault
<1> USE DEF vars, modeVars, pollerVars, objectVars, diskVars, outerVars
<1>1. CASE Start
  BY <1>1 DEF Start
<1>2. CASE Cancel
  BY <1>2 DEF Cancel
<1>3. CASE StoreClose
  BY <1>3 DEF StoreClose
<1>4. CASE Exit
  BY <1>4 DEF Exit, ProcessEnds
<1>5. CASE Crash
  BY <1>5 DEF Crash, ProcessEnds
<1>6. ASSUME NEW b \in Buckets, TriggerPoll(b)
      PROVE  NoReprocessing'
  BY <1>6 DEF TriggerPoll
<1>7. ASSUME NEW b \in Buckets, NEW k \in Keys, NEW v \in Versions, Upload(b, k, v)
      PROVE  NoReprocessing'
  BY <1>7 DEF Upload
<1>8. ASSUME NEW b \in Buckets, PollerStep(b)
      PROVE  NoReprocessing'
  <2>1. CASE FirstPoll(b) \/ TickPoll(b) \/ TriggeredPoll(b)
    BY <2>1 DEF FirstPoll, TickPoll, TriggeredPoll, BeginPoll, Listing
  <2>2. CASE EndPoll(b)
    BY <2>2 DEF EndPoll
  <2>3. CASE SkipObject(b)
    BY <2>3 DEF SkipObject
  <2>4. CASE BeginObject(b)
    BY <2>4 DEF BeginObject, Skipped
  <2>5. CASE CreateTemp(b)
    BY <2>5 DEF CreateTemp
  <2>6. CASE CreateFails(b)
    BY <2>6 DEF CreateFails, ObjectDone
  <2>7. CASE CopyObject(b)
    BY <2>7 DEF CopyObject
  <2>8. CASE CopyFails(b)
    BY <2>8 DEF CopyFails, ObjectDone, Unlink
  <2>9. CASE ExtractOk(b)
    BY <2>9 DEF ExtractOk
  <2>10. CASE ExtractFails(b)
    BY <2>10 DEF ExtractFails, Unlink, Contents
  <2>11. CASE PostOk(b)
    BY <2>11 DEF PostOk, Posting, NextFile, FileDone
  <2>12. CASE PostRejected(b)
    BY <2>12 DEF PostRejected, Posting, FileDone
  <2>13. CASE PostUnanswered(b)
    BY <2>13 DEF PostUnanswered, Posting, NextFile, FileDone, MoreAttempts
  <2>14. CASE Mark(b)
    BY <2>14 DEF Mark
  <2>15. CASE Remove(b)
    BY <2>15 DEF Remove, Delete
  <2>16. CASE RemoveFails(b)
    BY <2>16 DEF RemoveFails, Delete
  <2>17. CASE Clean(b)
    BY <2>17 DEF Clean, ObjectDone, Unlink
  <2>18. CASE PollerStops(b)
    BY <2>18 DEF PollerStops
  <2> HIDE DEF TypeOK, InHand, NoReprocessing, IsProcessed, Object, Stages, States, Fault
  <2> QED
    BY <1>8, <2>1, <2>2, <2>3, <2>4, <2>5, <2>6, <2>7, <2>8, <2>9, <2>10,
       <2>11, <2>12, <2>13, <2>14, <2>15, <2>16, <2>17, <2>18 DEF PollerStep
<1>9. CASE UNCHANGED vars
  BY <1>9
<1> HIDE DEF TypeOK, InHand, NoReprocessing, IsProcessed, Object, Stages, States, Fault
<1> QED
  BY <1>1, <1>2, <1>3, <1>4, <1>5, <1>6, <1>7, <1>8, <1>9 DEF Next

\* A file without an owner is a leftover.
LEMMA FileOwnedStep ==
  ASSUME TypeOK, InHand, FileOwned, [Next]_vars
  PROVE  FileOwned'
<1> SUFFICES ASSUME NEW p \in Paths, work'[p] # None
             PROVE  \/ p \in leftover'
                    \/ \E a \in Buckets : pc'[a] \in Stages \ {"create"} /\ Path(a)' = p
  BY DEF FileOwned
<1>0. /\ pc \in [Buckets -> States] /\ cur \in [Buckets -> Object \cup {None}]
      /\ work \in [Paths -> Versions \cup {None, Partial, Mixed}]
      /\ \A b \in Buckets : mode = "down" => pc[b] = "down"
  BY DEF TypeOK, InHand
<1> DEFINE Owner(a) == pc[a] \in Stages \ {"create"} /\ Path(a) = p
<1> DEFINE Goal == p \in leftover' \/ \E a \in Buckets : Owner(a)'
<1>00. work[p] # None => p \in leftover \/ \E a \in Buckets : Owner(a)
  BY DEF FileOwned
<1> USE <1>0, <1>00 DEF Stages, Path
<1> USE DEF vars, modeVars, pollerVars, objectVars, diskVars, outerVars
<1>1. CASE Start
  BY <1>1 DEF Start
<1>2. CASE Cancel
  BY <1>2 DEF Cancel
<1>3. CASE StoreClose
  BY <1>3 DEF StoreClose
<1>4. CASE Exit
  BY <1>4 DEF Exit, ProcessEnds
<1>5. CASE Crash
  BY <1>5 DEF Crash, ProcessEnds
<1>6. ASSUME NEW b \in Buckets, TriggerPoll(b)
      PROVE  Goal
  BY <1>6 DEF TriggerPoll
<1>7. ASSUME NEW b \in Buckets, NEW k \in Keys, NEW v \in Versions, Upload(b, k, v)
      PROVE  Goal
  BY <1>7 DEF Upload
<1>8. ASSUME NEW b \in Buckets, PollerStep(b)
      PROVE  Goal
  <2>1. CASE FirstPoll(b) \/ TickPoll(b) \/ TriggeredPoll(b)
    BY <2>1 DEF FirstPoll, TickPoll, TriggeredPoll, BeginPoll, Listing
  <2>2. CASE EndPoll(b)
    BY <2>2 DEF EndPoll
  <2>3. CASE SkipObject(b)
    BY <2>3 DEF SkipObject
  <2>4. CASE BeginObject(b)
    BY <2>4 DEF BeginObject
  <2>5. CASE CreateTemp(b)
    BY <2>5 DEF CreateTemp
  <2>6. CASE CreateFails(b)
    BY <2>6 DEF CreateFails, ObjectDone
  <2>7. CASE CopyObject(b)
    BY <2>7 DEF CopyObject
  <2>8. CASE CopyFails(b)
    BY <2>8 DEF CopyFails, ObjectDone, Unlink
  <2>9. CASE ExtractOk(b)
    BY <2>9 DEF ExtractOk
  <2>10. CASE ExtractFails(b)
    BY <2>10 DEF ExtractFails, Unlink, Contents
  <2>11. CASE PostOk(b)
    BY <2>11 DEF PostOk, Posting, NextFile, FileDone
  <2>12. CASE PostRejected(b)
    BY <2>12 DEF PostRejected, Posting, FileDone
  <2>13. CASE PostUnanswered(b)
    BY <2>13 DEF PostUnanswered, Posting, NextFile, FileDone, MoreAttempts
  <2>14. CASE Mark(b)
    BY <2>14 DEF Mark
  <2>15. CASE Remove(b)
    BY <2>15 DEF Remove, Delete
  <2>16. CASE RemoveFails(b)
    BY <2>16 DEF RemoveFails, Delete
  <2>17. CASE Clean(b)
    BY <2>17 DEF Clean, ObjectDone, Unlink
  <2>18. CASE PollerStops(b)
    BY <2>18 DEF PollerStops
  <2> QED
    BY <1>8, <2>1, <2>2, <2>3, <2>4, <2>5, <2>6, <2>7, <2>8, <2>9, <2>10,
       <2>11, <2>12, <2>13, <2>14, <2>15, <2>16, <2>17, <2>18 DEF PollerStep
<1>9. CASE UNCHANGED vars
  BY <1>9
<1> QED
  BY <1>1, <1>2, <1>3, <1>4, <1>5, <1>6, <1>7, <1>8, <1>9 DEF Next

\* Nothing is owned, in hand or on disk when the process was never started.
LEMMA AnywhereInit == Init => AnywhereInv
<1> SUFFICES ASSUME Init PROVE AnywhereInv
  OBVIOUS
<1>1. processed \in [Buckets -> [Keys -> Entry]]
  BY DEF Init, Entry
<1>2. TypeOK
  BY <1>1 DEF Init, TypeOK, States
<1>3. InHand /\ NoReprocessing
  BY DEF Init, InHand, NoReprocessing, Stages
<1>4. FileOwned
  BY DEF Init, FileOwned
<1> QED
  BY <1>2, <1>3, <1>4 DEF AnywhereInv

\* AnywhereInv is an inductive invariant of the pipeline, whatever producers,
\* faults and configuration: the state every other theorem starts from.
THEOREM AnywhereInvariant == Spec => []AnywhereInv
<1>1. AnywhereInv /\ [Next]_vars => AnywhereInv'
  BY TypeStep, InHandStep, NoReprocessingStep, FileOwnedStep DEF AnywhereInv
<1> QED
  BY AnywhereInit, <1>1, PTL DEF Spec

\* Type correctness of the relocator's variables.
THEOREM TypeCorrect == Spec => []TypeOK
  BY AnywhereInvariant, PTL DEF AnywhereInv

\* A content recorded as done is never downloaded or posted again while its
\* record stands (dedup in handleObject), even if producers overwrite objects
\* and buckets share work files.
THEOREM NeverReprocessed == Spec => []NoReprocessing
  BY AnywhereInvariant, PTL DEF AnywhereInv

\* No failure path of the pipeline leaves a work file behind: what is in the
\* work directory belongs to an object in hand or outlived a process.
THEOREM NoWorkFileLeaks == Spec => []NoLeakedWorkFile
<1>1. AnywhereInv => NoLeakedWorkFile
  BY DEF AnywhereInv, FileOwned, NoLeakedWorkFile
<1> QED
  BY <1>1, AnywhereInvariant, PTL

\* What was accepted stays handled while its poller neither posts nor records.
LEMMA HandledKept ==
  ASSUME NEW m, Handled(m[1], m[2], m[3], m[4]), processed' = processed,
         pc[m[1]] = "post" =>
           /\ pc'[m[1]] = "post" /\ cur'[m[1]] = cur[m[1]] /\ got'[m[1]] = got[m[1]]
           /\ sent[m[1]] <= sent'[m[1]],
         m[4] \in Nat, sent[m[1]] \in Nat, sent'[m[1]] \in Nat
  PROVE  Handled(m[1], m[2], m[3], m[4])'
  BY DEF Handled

\* Without a failure, what was accepted is recorded, or below the file that
\* is posted next.
LEMMA OnceStep ==
  ASSUME TypeOK, TypeOK', InHand, OnceInv, [Next]_vars
  PROVE  OnceInv'
<1> USE DEF Fault
<1> USE DEF vars, modeVars, pollerVars, objectVars, diskVars, outerVars
<1>0. /\ faults \in Nat /\ faults' \in Nat
      /\ mode = "stopping" => faults > 0
      /\ \A b \in Buckets : sent[b] \in Nat /\ sent'[b] \in Nat
      /\ \A m \in received : m[1] \in Buckets /\ m[4] \in Nat
  BY DEF TypeOK, OnceInv
<1> DEFINE Quiet == /\ faults' = faults /\ (mode' = "stopping" => mode = "stopping")
                    /\ received' = received /\ processed' = processed
                    /\ \A b \in Buckets : failed'[b] => failed[b]
                    /\ \A b \in Buckets : pc[b] = "post" =>
                         pc'[b] = "post" /\ cur'[b] = cur[b] /\ got'[b] = got[b] /\ sent'[b] = sent[b]
<1>a. ASSUME Quiet PROVE OnceInv'
  <2>1. faults' = 0 => \A m \in received' : Handled(m[1], m[2], m[3], m[4])'
    <3> SUFFICES ASSUME faults' = 0, NEW m \in received'
                 PROVE  Handled(m[1], m[2], m[3], m[4])'
      OBVIOUS
    <3>1. m \in received /\ Handled(m[1], m[2], m[3], m[4])
      BY <1>a DEF OnceInv
    <3> QED
      BY <1>a, <1>0, <3>1, HandledKept
  <2> QED
    BY <1>a, <1>0, <2>1 DEF OnceInv
<1>b. ASSUME faults' > 0 PROVE OnceInv'
  BY <1>b, <1>0 DEF OnceInv
<1> HIDE DEF Quiet
<1>1. CASE Start
  <2>1. \A b \in Buckets : pc[b] # "post"
    BY <1>1 DEF Start, InHand
  <2> QED
    BY <1>1, <1>a, <2>1 DEF Start, Quiet
<1>2. CASE Cancel
  BY <1>0, <1>2, <1>b DEF Cancel
<1>3. CASE StoreClose
  BY <1>3, <1>a DEF StoreClose, Quiet
<1>4. CASE Exit
  BY <1>0, <1>4, <1>b DEF Exit, ProcessEnds
<1>5. CASE Crash
  BY <1>0, <1>5, <1>b DEF Crash, ProcessEnds
<1>6. ASSUME NEW b \in Buckets, TriggerPoll(b)
      PROVE  OnceInv'
  BY <1>6, <1>a DEF TriggerPoll, Quiet
<1>7. ASSUME NEW b \in Buckets, NEW k \in Keys, NEW v \in Versions, Upload(b, k, v)
      PROVE  OnceInv'
  BY <1>7, <1>a DEF Upload, Quiet
<1>8. ASSUME NEW b \in Buckets, PollerStep(b)
      PROVE  OnceInv'
  <2>0. /\ pc \in [Buckets -> States] /\ cur \in [Buckets -> Object \cup {None}]
        /\ got \in [Buckets -> Versions \cup {None}] /\ failed \in [Buckets -> BOOLEAN]
        /\ sent \in [Buckets -> Nat]
    BY DEF TypeOK
  <2>1. CASE FirstPoll(b) \/ TickPoll(b) \/ TriggeredPoll(b)
    BY <2>0, <2>1, <1>a DEF FirstPoll, TickPoll, TriggeredPoll, BeginPoll, Quiet
  <2>2. CASE EndPoll(b)
    <3>1. CASE faults' = faults
      BY <2>0, <2>2, <3>1, <1>a DEF EndPoll, Quiet
    <3>2. CASE faults' # faults
      BY <1>0, <2>2, <3>2, <1>b DEF EndPoll
    <3> QED
      BY <3>1, <3>2
  <2>3. CASE SkipObject(b)
    BY <2>3, <1>a DEF SkipObject, Quiet
  <2>4. CASE BeginObject(b)
    BY <2>0, <2>4, <1>a DEF BeginObject, Quiet
  <2>5. CASE CreateTemp(b)
    BY <2>0, <2>5, <1>a DEF CreateTemp, Quiet
  <2>6. CASE CreateFails(b)
    BY <1>0, <2>6, <1>b DEF CreateFails
  <2>7. CASE CopyObject(b)
    BY <2>0, <2>7, <1>a DEF CopyObject, Quiet
  <2>8. CASE CopyFails(b)
    <3>1. CASE faults' = faults
      BY <2>0, <2>8, <3>1, <1>a DEF CopyFails, ObjectDone, Quiet
    <3>2. CASE faults' # faults
      BY <1>0, <2>8, <3>2, <1>b DEF CopyFails
    <3> QED
      BY <3>1, <3>2
  <2>9. CASE ExtractOk(b)
    BY <2>0, <2>9, <1>a DEF ExtractOk, Quiet
  <2>10. CASE ExtractFails(b)
    BY <2>0, <2>10, <1>a DEF ExtractFails, Quiet
  <2>11. CASE PostOk(b)
    <3>1. /\ pc[b] = "post" /\ received' = received \cup {NextFile(b)} /\ faults' = faults
          /\ sent' = [sent EXCEPT ![b] = @ + 1] /\ mode' = "up"
          /\ pc' = pc /\ cur' = cur /\ got' = got /\ processed' = processed
          /\ failed' = [failed EXCEPT ![b] = @ \/ FALSE]
      BY <2>11 DEF PostOk, Posting, FileDone
    <3>2. \A a \in Buckets : failed'[a] => failed[a]
      BY <2>0, <3>1
    <3>3. ASSUME faults' = 0, NEW m \in received'
          PROVE  Handled(m[1], m[2], m[3], m[4])'
      <4>1. CASE m \in received
        <5>1. Handled(m[1], m[2], m[3], m[4])
          BY <3>1, <3>3, <4>1 DEF OnceInv
        <5>2. sent[m[1]] <= sent'[m[1]]
          BY <1>0, <2>0, <3>1, <4>1
        <5> QED
          BY <1>0, <3>1, <4>1, <5>1, <5>2, HandledKept
      <4>2. CASE m = NextFile(b)
        <5>1. m[1] = b /\ m[2] = cur[b].key /\ m[3] = got[b] /\ m[4] = sent[b] + 1
          BY <4>2 DEF NextFile
        <5>2. sent'[b] = sent[b] + 1
          BY <2>0, <3>1
        <5> QED
          BY <1>0, <3>1, <5>1, <5>2 DEF Handled
      <4> QED
        BY <3>1, <3>3, <4>1, <4>2
    <3> QED
      BY <3>1, <3>2, <3>3 DEF OnceInv
  <2>12. CASE PostRejected(b)
    BY <1>0, <2>12, <1>b DEF PostRejected
  <2>13. CASE PostUnanswered(b)
    BY <1>0, <2>13, <1>b DEF PostUnanswered
  <2>14. CASE Mark(b)
    <3>1. CASE faults' = faults
      <4>1. /\ pc[b] = "post" /\ cur' = cur /\ got' = got /\ sent' = sent /\ mode' = mode
            /\ failed' = failed /\ received' = received /\ \A a \in Buckets \ {b} : pc'[a] = pc[a]
        BY <2>0, <2>14 DEF Mark
      <4>2. cur[b] \in Object
        BY <4>1 DEF InHand, Stages
      <4>3. CASE faults = 0
        <5>1. ~failed[b]
          BY <4>3 DEF OnceInv
        <5>2. processed' = [processed EXCEPT ![b][cur[b].key] = [etag |-> cur[b].etag, status |-> "ok"]]
          BY <1>0, <2>14, <3>1, <4>3, <5>1 DEF Mark
        <5>3. ASSUME NEW m \in received'
              PROVE  Handled(m[1], m[2], m[3], m[4])'
          <6>1. m \in received /\ m[1] \in Buckets /\ m[2] \in Keys /\ Handled(m[1], m[2], m[3], m[4])
            BY <4>1, <4>3, <5>3 DEF OnceInv, TypeOK
          <6>2. /\ processed \in [Buckets -> [Keys -> Entry]]
                /\ cur[b].etag # None /\ cur[b].key \in Keys
            BY <4>2 DEF TypeOK, Object
          <6>3. CASE m[1] = b /\ m[2] = cur[b].key
            BY <5>2, <6>1, <6>2, <6>3 DEF Handled
          <6>4. CASE ~(m[1] = b /\ m[2] = cur[b].key)
            <7>1. processed'[m[1]][m[2]] = processed[m[1]][m[2]]
              BY <5>2, <6>1, <6>2, <6>4
            <7> QED
              BY <4>1, <6>1, <6>4, <7>1 DEF Handled
          <6> QED
            BY <6>3, <6>4
        <5> QED
          BY <3>1, <4>1, <4>3, <5>3 DEF OnceInv
      <4>4. CASE faults # 0
        BY <1>0, <3>1, <4>4, <1>b
      <4> QED
        BY <4>3, <4>4
    <3>2. CASE faults' # faults
      BY <1>0, <2>14, <3>2, <1>b DEF Mark
    <3> QED
      BY <3>1, <3>2
  <2>15. CASE Remove(b)
    BY <2>0, <2>15, <1>a DEF Remove, Quiet
  <2>16. CASE RemoveFails(b)
    BY <1>0, <2>16, <1>b DEF RemoveFails
  <2>17. CASE Clean(b)
    BY <2>0, <2>17, <1>a DEF Clean, ObjectDone, Quiet
  <2>18. CASE PollerStops(b)
    BY <2>0, <2>18, <1>a DEF PollerStops, Quiet
  <2> QED
    BY <1>8, <2>1, <2>2, <2>3, <2>4, <2>5, <2>6, <2>7, <2>8, <2>9, <2>10,
       <2>11, <2>12, <2>13, <2>14, <2>15, <2>16, <2>17, <2>18 DEF PollerStep
<1>9. CASE UNCHANGED vars
  BY <1>9, <1>a DEF Quiet
<1> QED
  BY <1>1, <1>2, <1>3, <1>4, <1>5, <1>6, <1>7, <1>8, <1>9 DEF Next

\* OnceInv is an invariant of the pipeline, with no hypothesis either.
THEOREM OnceInvariant == Spec => []OnceInv
<1>1. Init => OnceInv
  BY DEF Init, OnceInv
<1>2. /\ AnywhereInv /\ AnywhereInv' /\ OnceInv /\ [Next]_vars => OnceInv'
  BY OnceStep DEF AnywhereInv
<1> QED
  BY <1>1, <1>2, AnywhereInvariant, PTL DEF Spec

\* At least once is exactly once unless something fails: a file is posted a
\* second time only after a failure, a shutdown or a crash, or for a key that
\* another content took in between.  No hypothesis on producers or paths.
THEOREM PostsOnceWithoutFailure == Spec => []NoRepeatedPost
<1>1. ASSUME AnywhereInv, OnceInv PROVE NoRepeatedPost
  <2> SUFFICES ASSUME NEW b \in Buckets, Posting(b), faults = 0, got[b] = cur[b].etag,
                      processed[b][cur[b].key].etag \in {None, got[b]}, NextFile(b) \in received
               PROVE  FALSE
    BY DEF NoRepeatedPost
  <2>1. cur[b] \in Object /\ sent[b] \in Nat /\ ~IsProcessed(b, cur[b])
    BY <1>1 DEF AnywhereInv, TypeOK, InHand, Stages, Posting, NoReprocessing
  <2>2. Handled(b, cur[b].key, got[b], sent[b] + 1)
    BY <1>1 DEF OnceInv, NextFile
  <2>3. /\ processed[b][cur[b].key].etag = cur[b].etag
        /\ processed[b][cur[b].key].status = "ok"
    BY <2>1, <2>2 DEF Handled
  <2>4. processed[b][cur[b].key] \in Entry
    BY <1>1, <2>1 DEF AnywhereInv, TypeOK, Object
  <2>5. IsProcessed(b, cur[b])
    BY <2>3, <2>4 DEF Entry, IsProcessed
  <2> QED
    BY <2>1, <2>5
<1> QED
  BY <1>1, AnywhereInvariant, OnceInvariant, PTL
=============================================================================
