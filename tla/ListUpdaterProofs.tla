-------------------------- MODULE ListUpdaterProofs -------------------------
(***************************************************************************)
(* Machine-checked theorems about ListUpdater: any number of handlers,     *)
(* versions, failures and crashes; and what holds from the moment on when  *)
(* nobody is making a plain file that is whole.                            *)
(***************************************************************************)
EXTENDS ListUpdater, TLAPS

USE ConstantsAssumption

\* The invariant holds with empty directories.
LEMMA ListInit ==
  ASSUME Init
  PROVE  ListInv
<1>1. TypeOK
  BY DEF Init, TypeOK, Content, Versions, States, Files, Actors
<1> QED
  BY <1>1 DEF Init, ListInv, DownloadOK, EnsureOK, DerivedOK, NotAhead, Versions, Files, Derived, Actors,
     Ensuring

\* Types survive every step.
LEMMA TypeStep ==
  ASSUME ListInv, [Next]_vars
  PROVE  TypeOK'
<1> USE DEF ListInv, TypeOK, vars, Leave, Fault, Content, States, Files, Derived, Ensuring
<1>1. CASE Publish \/ Start \/ Crash
  BY <1>1 DEF Publish, Start, Crash, Actors
<1>2. CASE BeginDownload \/ EndDownload \/ DownloadFails \/ Replace \/ Invalidate
  <2> USE DEF Actors
  <2>1. CASE BeginDownload
    BY <2>1 DEF BeginDownload, Versions
  <2>2. CASE EndDownload
    BY <2>2 DEF EndDownload, DownloadOK, Versions
  <2>3. CASE DownloadFails
    BY <2>3 DEF DownloadFails
  <2>4. CASE Replace
    BY <2>4 DEF Replace
  <2>5. CASE Invalidate
    BY <2>5 DEF Invalidate
  <2> QED
    BY <1>2, <2>1, <2>2, <2>3, <2>4, <2>5
<1>3. ASSUME NEW h \in Handlers, NEW f \in Derived, Request(h, f)
      PROVE  TypeOK'
  BY <1>3 DEF Request, Actors
<1>4. ASSUME NEW a \in Actors, EnsureStep(a)
      PROVE  TypeOK'
  <2>1. CASE Read(a)
    BY <2>1 DEF Read, ReadFrom, DownloadOK, EnsureOK
  <2>2. CASE OpenSource(a)
    BY <2>2 DEF OpenSource, DownloadOK, EnsureOK
  <2>3. CASE Open(a)
    BY <2>3 DEF Open, EnsureOK
  <2>4. CASE Write(a)
    BY <2>4 DEF Write, Written, EnsureOK
  <2>5. CASE Rename(a)
    BY <2>5 DEF Rename, Moved, EnsureOK
  <2>6. CASE RenameFails(a) \/ CopyFails(a)
    BY <2>6 DEF RenameFails, CopyFails
  <2>7. CASE RemoveTmp(a)
    BY <2>7 DEF RemoveTmp, EnsureOK
  <2>8. CASE EnsureFails(a)
    BY <2>8 DEF EnsureFails, EnsureOK
  <2> QED
    BY <1>4, <2>1, <2>2, <2>3, <2>4, <2>5, <2>6, <2>7, <2>8 DEF EnsureStep
<1>5. CASE UNCHANGED vars
  BY <1>5
<1> QED
  BY <1>1, <1>2, <1>3, <1>4, <1>5 DEF Next, RefreshStep, Actors

\* A derived file is written by no step of the download, and the original by
\* no step that makes a derived file.
LEMMA EnsureLeavesOriginal ==
  ASSUME ListInv, NEW a \in Actors, EnsureStep(a)
  PROVE  /\ file'["original"] = file["original"]
         /\ tmp'["original"] = tmp["original"]
         /\ remote' = remote
         /\ target[a] \in Derived
         /\ pc[a] \in Ensuring
<1>1. target[a] \in Derived /\ pc[a] \in Ensuring
  BY DEF EnsureStep, Read, OpenSource, Open, Write, Rename, RenameFails, CopyFails, RemoveTmp, EnsureFails, Ensuring,
         ListInv, EnsureOK
<1> QED
  BY <1>1 DEF EnsureStep, Read, OpenSource, Open, Write, Rename, RenameFails, CopyFails, RemoveTmp, EnsureFails, Derived,
              Files, ListInv, TypeOK

\* The refresher never holds a body older than the original.
LEMMA DownloadStep ==
  ASSUME ListInv, [Next]_vars
  PROVE  DownloadOK'
<1> USE DEF ListInv, TypeOK, DownloadOK, Versions, vars, Leave, Fault, Files, Actors
<1>1. CASE Publish \/ Start \/ Crash
  BY <1>1 DEF Publish, Start, Crash
<1>2. CASE BeginDownload
  BY <1>2 DEF BeginDownload
<1>3. CASE EndDownload
  BY <1>3 DEF EndDownload
<1>4. CASE DownloadFails
  BY <1>4 DEF DownloadFails
<1>5. CASE Replace
  BY <1>5 DEF Replace
<1>6. CASE Invalidate
  BY <1>6 DEF Invalidate
<1>7. ASSUME NEW h \in Handlers, NEW f \in Derived, Request(h, f)
      PROVE  DownloadOK'
  BY <1>7 DEF Request
<1>8. ASSUME NEW a \in Actors, EnsureStep(a)
      PROVE  DownloadOK'
  <2>1. UNCHANGED <<file["original"], tmp["original"], remote>>
    BY <1>8, EnsureLeavesOriginal
  <2>2. a # "refresher" => pc'["refresher"] = pc["refresher"] /\ out'["refresher"] = out["refresher"]
    BY <1>8 DEF EnsureStep, Read, OpenSource, Open, Write, Rename, RenameFails, CopyFails, RemoveTmp, EnsureFails
  <2>3. pc'[a] \notin {"download", "replace"}
    BY <1>8, EnsureLeavesOriginal
       DEF EnsureStep, Read, OpenSource, Open, Write, Rename, RenameFails, CopyFails, RemoveTmp, EnsureFails, States, Ensuring
  <2> QED
    BY <2>1, <2>2, <2>3
<1>9. CASE UNCHANGED vars
  BY <1>9
<1> QED
  BY <1>1, <1>2, <1>3, <1>4, <1>5, <1>6, <1>7, <1>8, <1>9 DEF Next, RefreshStep

\* The original changes only to a version that is not older.
LEMMA OriginalGrows ==
  ASSUME ListInv, [Next]_vars
  PROVE  \/ file'["original"] = file["original"]
         \/ /\ file'["original"] \in Versions
            /\ file["original"] = None \/ file'["original"] >= file["original"]
<1> USE DEF ListInv, TypeOK, Files, Derived
<1>1. CASE Replace
  BY <1>1 DEF Replace, DownloadOK, Versions
<1>2. CASE Invalidate
  BY <1>2 DEF Invalidate
<1>3. ASSUME NEW a \in Actors, EnsureStep(a)
      PROVE  file'["original"] = file["original"]
  BY <1>3, EnsureLeavesOriginal
<1> QED
  BY <1>1, <1>2, <1>3
     DEF Next, RefreshStep, Publish, Start, Crash, BeginDownload, EndDownload, DownloadFails, Request, vars, Actors

\* So a content that is not ahead of the original stays so.
LEMMA NotAheadKept ==
  ASSUME ListInv, [Next]_vars, NEW c, NotAhead(c)
  PROVE  c \in Versions => file'["original"] \in Versions /\ c <= file'["original"]
BY OriginalGrows DEF NotAhead, ListInv, DownloadOK, Versions

\* Whoever makes a derived file has read a content the original has had.
LEMMA EnsureOKStep ==
  ASSUME ListInv, [Next]_vars
  PROVE  EnsureOK'
<1> USE DEF ListInv, TypeOK, EnsureOK, vars, Leave, Fault, States, Ensuring
<1>0. ASSUME NEW b \in Actors, UNCHANGED <<pc[b], target[b], out[b]>>
      PROVE  /\ pc'[b] \in Ensuring => target'[b] \in Derived /\ file'["original"] # None
             /\ pc'[b] \in {"open", "write"} => NotAhead(out[b])'
             /\ b # "refresher" => pc'[b] \in Ensuring \cup {"idle"}
  <2>1. file["original"] # None => file'["original"] # None
    BY OriginalGrows DEF Versions
  <2>2. pc[b] \in {"open", "write"} => NotAhead(out[b])'
    BY <1>0, NotAheadKept DEF NotAhead
  <2> QED
    BY <1>0, <2>1, <2>2
<1>1. CASE Publish \/ Start
  BY <1>0, <1>1 DEF Publish, Start
<1>2. CASE Crash
  BY <1>2 DEF Crash
<1>3. CASE BeginDownload \/ EndDownload \/ DownloadFails \/ Invalidate
  <2>1. \A b \in Actors \ {"refresher"} : UNCHANGED <<pc[b], target[b], out[b]>>
    BY <1>3 DEF BeginDownload, EndDownload, DownloadFails, Invalidate
  <2>2. pc'["refresher"] \in {"download", "replace", "idle"}
    BY <1>3 DEF BeginDownload, EndDownload, DownloadFails, Invalidate, Actors
  <2> QED
    BY <1>0, <2>1, <2>2
<1>4. CASE Replace
  <2>1. \A b \in Actors \ {"refresher"} : UNCHANGED <<pc[b], target[b], out[b]>>
    BY <1>4 DEF Replace
  <2>2. /\ pc'["refresher"] = "read" /\ target'["refresher"] = "plain"
        /\ file'["original"] # None
    BY <1>4 DEF Replace, DownloadOK, Actors, Files, Versions
  <2> QED
    BY <1>0, <2>1, <2>2 DEF Derived
<1>5. ASSUME NEW h \in Handlers, NEW f \in Derived, Request(h, f)
      PROVE  EnsureOK'
  <2>1. \A b \in Actors \ {h} : UNCHANGED <<pc[b], target[b], out[b]>>
    BY <1>5 DEF Request
  <2>2. pc'[h] = "read" /\ target'[h] = f /\ file'["original"] # None
    BY <1>5 DEF Request, Actors
  <2> QED
    BY <1>0, <2>1, <2>2
<1>6. ASSUME NEW a \in Actors, EnsureStep(a)
      PROVE  EnsureOK'
  <2>1. \A b \in Actors \ {a} : UNCHANGED <<pc[b], target[b], out[b]>>
    BY <1>6 DEF EnsureStep, Read, OpenSource, Open, Write, Rename, RenameFails, CopyFails, RemoveTmp, EnsureFails
  <2>2. file'["original"] = file["original"] /\ target[a] \in Derived /\ pc[a] \in Ensuring
    BY <1>6, EnsureLeavesOriginal
  <2>3. /\ pc'[a] \in Ensuring => target'[a] = target[a]
        /\ pc'[a] \in Ensuring \cup {"idle"} \/ a = "refresher"
    BY <1>6 DEF EnsureStep, Read, OpenSource, Open, Write, Rename, RenameFails, CopyFails, RemoveTmp, EnsureFails
  <2>4. pc'[a] = "open" => NotAhead(out[a])'
    <3>1. CASE Read(a)
      BY <2>2, <3>1 DEF Read, ReadFrom, NotAhead, DownloadOK, Versions
    <3>2. CASE OpenSource(a)
      BY <2>2, <3>2 DEF OpenSource, NotAhead, DownloadOK, Versions
    <3> QED
      BY <1>6, <3>1, <3>2 DEF EnsureStep, Open, Write, Rename, RenameFails, CopyFails, RemoveTmp, EnsureFails
  <2>5. pc'[a] = "write" => NotAhead(out[a])'
    <3>1. pc'[a] = "write" => Open(a)
      BY <1>6 DEF EnsureStep, Read, OpenSource, Write, Rename, RenameFails, CopyFails, RemoveTmp, EnsureFails
    <3> QED
      BY <2>2, <3>1 DEF Open, NotAhead
  <2> QED
    BY <1>0, <2>1, <2>2, <2>3, <2>4, <2>5
<1>7. CASE UNCHANGED vars
  BY <1>0, <1>7
<1> QED
  BY <1>1, <1>2, <1>3, <1>4, <1>5, <1>6, <1>7 DEF Next, RefreshStep, Actors

\* Derived files and their .tmp files never run ahead of the original.
LEMMA DerivedStep ==
  ASSUME ListInv, [Next]_vars
  PROVE  DerivedOK'
<1> USE DEF ListInv, TypeOK, DerivedOK, vars, Fault, Files, Derived
<1>0. ASSUME NEW f \in Derived
      PROVE  /\ file'[f] = file[f] => NotAhead(file[f])'
             /\ tmp'[f] = tmp[f] => NotAhead(tmp[f])'
             /\ file'[f] = tmp[f] => NotAhead(file[f])'
  <2>1. NotAhead(file[f]) /\ NotAhead(tmp[f])
    OBVIOUS
  <2> QED
    BY <2>1, NotAheadKept DEF NotAhead
<1>1. \A c \in {None, Partial, Mixed, Raw} : c \notin Versions
  BY DEF Versions
<1>2. CASE Publish \/ Start \/ Crash \/ BeginDownload \/ EndDownload \/ DownloadFails \/ Replace
  <2>1. \A f \in Derived : file'[f] = file[f] /\ tmp'[f] = tmp[f]
    BY <1>2 DEF Publish, Start, Crash, BeginDownload, EndDownload, DownloadFails, Replace
  <2> QED
    BY <1>0, <2>1
<1>3. CASE Invalidate
  <2>1. \A f \in Derived : file'[f] \in {file[f], None} /\ tmp'[f] \in {tmp[f], None}
    BY <1>3 DEF Invalidate
  <2> QED
    BY <1>0, <1>1, <2>1 DEF NotAhead
<1>4. ASSUME NEW h \in Handlers, NEW f \in Derived, Request(h, f)
      PROVE  DerivedOK'
  BY <1>0, <1>4 DEF Request
<1>5. ASSUME NEW a \in Actors, EnsureStep(a)
      PROVE  DerivedOK'
  <2>0. target[a] \in Derived
    BY <1>5, EnsureLeavesOriginal
  <2>1. CASE Read(a) \/ OpenSource(a) \/ RenameFails(a) \/ CopyFails(a) \/ EnsureFails(a)
    BY <1>0, <2>1 DEF Read, OpenSource, RenameFails, CopyFails, EnsureFails
  <2>2. CASE Open(a) \/ RemoveTmp(a)
    <3>1. \A f \in Derived : file'[f] = file[f] /\ tmp'[f] \in {tmp[f], Partial, None}
      BY <2>2 DEF Open, RemoveTmp
    <3> QED
      BY <1>0, <1>1, <3>1 DEF NotAhead
  <2>3. CASE Write(a)
    <3>1. NotAhead(out[a]) /\ file'["original"] = file["original"]
      BY <1>5, <2>3, EnsureLeavesOriginal DEF Write, EnsureOK
    <3>2. \A f \in Derived : file'[f] \in {file[f], out[a], Mixed} /\ tmp'[f] \in {tmp[f], out[a], Mixed}
      BY <2>0, <2>3 DEF Write, Written
    <3> QED
      BY <1>0, <1>1, <3>1, <3>2 DEF NotAhead
  <2>4. CASE Rename(a)
    <3>1. \A f \in Derived : file'[f] \in {file[f], tmp[f]} /\ tmp'[f] \in {tmp[f], None}
      BY <2>0, <2>4 DEF Rename
    <3> QED
      BY <1>0, <1>1, <3>1 DEF NotAhead
  <2> QED
    BY <1>5, <2>1, <2>2, <2>3, <2>4 DEF EnsureStep
<1>6. CASE UNCHANGED vars
  BY <1>0, <1>6
<1> QED
  BY <1>2, <1>3, <1>4, <1>5, <1>6 DEF Next, RefreshStep, Actors

---------------------------------------------------------------------------
(* Theorems *)

\* The inductive invariant: what is downloaded is not older than what is
\* served, and what is derived was taken from what is served.
THEOREM ListInvariant == Spec => []ListInv
<1>1. Init => ListInv
  BY ListInit
<1>2. ListInv /\ [Next]_vars => ListInv'
  BY TypeStep, DownloadStep, EnsureOKStep, DerivedStep DEF ListInv
<1> QED
  BY <1>1, <1>2, PTL DEF Spec

\* Every variable keeps its type.
THEOREM ListTypeCorrect == Spec => []TypeOK
<1>1. ListInv => TypeOK
  BY DEF ListInv
<1> QED
  BY <1>1, ListInvariant, PTL

\* No derived file shows a version before the original does, whatever races
\* the writers of its temporary file are in.
THEOREM DerivedNotAhead == Spec => []NotAheadOfOriginal
<1>1. ListInv => NotAheadOfOriginal
  BY DEF ListInv, DerivedOK, NotAhead, NotAheadOfOriginal
<1> QED
  BY <1>1, ListInvariant, PTL

\* The file at /<name> is replaced by whole and newer versions only.
THEOREM OriginalImproves == Spec => OriginalOnlyImproves
<1> DEFINE Improves == file'["original"] # file["original"] =>
                         /\ file'["original"] \in Versions
                         /\ file["original"] = None \/ file'["original"] >= file["original"]
<1>1. ListInv /\ [Next]_vars => [Improves]_vars
  BY OriginalGrows
<1>2. OriginalOnlyImproves <=> [][Improves]_vars
  BY DEF OriginalOnlyImproves
<1> QED
  BY <1>1, <1>2, ListInvariant, PTL DEF Spec

---------------------------------------------------------------------------
(* Binary content *)

\* Raw bytes of a binary list are in hand only while a plain file is made.
RawInv ==
  /\ \A f \in {"category", "original"} : file[f] # Raw /\ tmp[f] # Raw
  /\ \A a \in Actors : /\ pc[a] = "copy" => target[a] = "plain"
                       /\ out[a] = Raw => target[a] = "plain" /\ pc[a] \in {"open", "write", "rename", "unlink"}

\* No step carries them elsewhere.
LEMMA RawStep ==
  ASSUME ListInv, RawInv, [Next]_vars
  PROVE  RawInv'
<1>1. Raw \notin Versions
  BY DEF Versions
<1> USE DEF ListInv, TypeOK, RawInv, vars, Fault, Files, Derived
<1>2. CASE Publish \/ Start \/ Crash
  BY <1>2 DEF Publish, Start, Crash
<1>3. CASE BeginDownload \/ EndDownload \/ DownloadFails \/ Replace \/ Invalidate
  <2>1. remote \in Versions /\ "refresher" \in Actors
    BY DEF Versions, Actors
  <2> QED BY <1>1, <1>3, <2>1 DEF BeginDownload, EndDownload, DownloadFails, Replace, Invalidate, Leave
<1>4. ASSUME NEW h \in Handlers, NEW f \in Derived, Request(h, f) PROVE RawInv'
  BY <1>4 DEF Request, Actors
<1>5. ASSUME NEW a \in Actors, EnsureStep(a) PROVE RawInv'
  <2>0. target[a] \in Derived /\ pc[a] \in Ensuring /\ file["original"] \in Versions
    BY <1>5, EnsureLeavesOriginal DEF EnsureOK, DownloadOK
  <2>1. CASE Read(a)
    BY <1>1, <2>0, <2>1 DEF Read, ReadFrom, Leave
  <2>2. CASE OpenSource(a)
    BY <2>2 DEF OpenSource
  <2>3. CASE Open(a)
    BY <2>0, <2>3 DEF Open
  <2>4. CASE Write(a)
    BY <2>0, <2>4 DEF Write, Written
  <2>5. CASE Rename(a)
    BY <2>0, <2>5 DEF Rename
  <2>6. CASE RenameFails(a) \/ CopyFails(a)
    BY <2>6 DEF RenameFails, CopyFails
  <2>7. CASE RemoveTmp(a)
    BY <2>0, <2>7 DEF RemoveTmp
  <2>8. CASE EnsureFails(a)
    BY <2>0, <2>8 DEF EnsureFails, Leave
  <2> QED BY <1>5, <2>1, <2>2, <2>3, <2>4, <2>5, <2>6, <2>7, <2>8 DEF EnsureStep
<1>6. CASE UNCHANGED vars
  BY <1>6
<1> QED BY <1>2, <1>3, <1>4, <1>5, <1>6 DEF Next, RefreshStep, Actors

\* The race of copyFileAtomically with a refresh, which copies a binary list
\* where text should be, harms the plain file only.
THEOREM RawStaysInPlain == Spec => [](file["category"] # Raw /\ file["original"] # Raw)
<1>1. Init => RawInv
  BY DEF Init, RawInv, Files, Derived, Actors
<1>2. ListInv /\ RawInv /\ [Next]_vars => RawInv'
  BY RawStep
<1>3. RawInv => file["category"] # Raw /\ file["original"] # Raw
  BY DEF RawInv
<1> QED BY <1>1, <1>2, <1>3, ListInvariant, PTL DEF Spec

---------------------------------------------------------------------------
(* When the races are over *)

\* The plain file is a whole version and nobody is making it, as after a
\* restart, or between two refreshes once no late handler is left.
PlainAtRest == /\ file["plain"] \in Versions
               /\ \A a \in Actors : target[a] # "plain"

\* From then on the refresher alone makes it, from the original just renamed.
PlainAlone ==
  /\ file["plain"] \in Versions
  /\ \A h \in Handlers : target[h] # "plain"
  /\ target["refresher"] = "plain" =>
       /\ pc["refresher"] \in Ensuring
       /\ pc["refresher"] = "copy" => ~IsDat[file["original"]]
       /\ pc["refresher"] \in {"open", "write"} => out["refresher"] = file["original"]
       /\ pc["refresher"] = "write" => tmp["plain"] = Partial /\ fd["refresher"] = "tmp"
       /\ pc["refresher"] = "rename" => tmp["plain"] \in {file["original"], None}

\* A handler that makes a category file leaves all of this alone.
LEMMA CategoryStep ==
  ASSUME ListInv, PlainAlone, NEW h \in Handlers, EnsureStep(h)
  PROVE  PlainAlone' /\ file'["plain"] = file["plain"]
<1> USE DEF ListInv, TypeOK, Leave, Fault, Files, Derived
<1>1. h \in Actors /\ h # "refresher" /\ "refresher" \in Actors
  BY DEF Actors
<1>2. target[h] = "category" /\ file'["original"] = file["original"]
  BY <1>1, EnsureLeavesOriginal DEF PlainAlone
<1>3. file'["plain"] = file["plain"] /\ tmp'["plain"] = tmp["plain"]
  BY <1>2 DEF EnsureStep, Read, OpenSource, Open, Write, Rename, RenameFails, CopyFails, RemoveTmp, EnsureFails
<1>4. \A b \in Actors \ {h} : target'[b] = target[b] /\ pc'[b] = pc[b] /\ out'[b] = out[b]
  BY DEF EnsureStep, Read, OpenSource, Open, Write, Rename, RenameFails, CopyFails, RemoveTmp, EnsureFails
<1>5. target'[h] \in {"category", None}
  BY <1>1, <1>2 DEF EnsureStep, Read, OpenSource, Open, Write, Rename, RenameFails, CopyFails, RemoveTmp, EnsureFails
<1>6. target["refresher"] = "plain" => fd'["refresher"] = fd["refresher"]
  BY <1>1, <1>2 DEF EnsureStep, Read, OpenSource, Open, Write, Rename, Moved, RenameFails, CopyFails, RemoveTmp,
     EnsureFails
<1>7. None # "plain"
  OBVIOUS
<1> QED BY <1>1, <1>2, <1>3, <1>4, <1>5, <1>6, <1>7 DEF PlainAlone, Actors

\* The refresher replaces it by the original it took it from.
LEMMA RefresherStep ==
  ASSUME ListInv, PlainAlone, EnsureStep("refresher")
  PROVE  PlainAlone' /\ file'["plain"] \in {file["plain"], file["original"]}
<1> USE DEF ListInv, TypeOK, Leave, Fault, Files, Derived, Ensuring
<1>1. "refresher" \in Actors /\ \A h \in Handlers : h \in Actors /\ h # "refresher"
  BY DEF Actors
<1>2. /\ target["refresher"] \in Derived /\ file'["original"] = file["original"]
      /\ file["original"] \in Versions
  BY <1>1, EnsureLeavesOriginal DEF EnsureOK, DownloadOK
<1>3. \A h \in Handlers : target'[h] = target[h]
  BY <1>1 DEF EnsureStep, Read, OpenSource, Open, Write, Rename, RenameFails, CopyFails, RemoveTmp, EnsureFails
<1>4. CASE target["refresher"] = "category"
  <2>1. file'["plain"] = file["plain"] /\ target'["refresher"] \in {"category", None}
    BY <1>1, <1>4 DEF EnsureStep, Read, OpenSource, Open, Write, Rename, RenameFails, CopyFails, RemoveTmp,
       EnsureFails
  <2>2. target'["refresher"] # "plain"
    BY <2>1
  <2> QED BY <1>3, <2>1, <2>2 DEF PlainAlone
<1>5. CASE target["refresher"] = "plain"
  <2> USE DEF PlainAlone
  <2>1. CASE Read("refresher")
    BY <1>1, <1>2, <1>3, <1>5, <2>1 DEF Read, ReadFrom
  <2>2. CASE OpenSource("refresher")
    BY <1>1, <1>2, <1>3, <1>5, <2>2 DEF OpenSource
  <2>3. CASE Open("refresher")
    BY <1>1, <1>2, <1>3, <1>5, <2>3 DEF Open
  <2>4. CASE Write("refresher")
    <3>1. fd["refresher"] = "tmp" /\ tmp["plain"] = Partial /\ out["refresher"] = file["original"]
      BY <1>5, <2>4 DEF Write
    <3>2. Written("refresher", Partial) = {out["refresher"]}
      BY <1>5 DEF Written, Clash, Actors
    <3>3. tmp' = [tmp EXCEPT !["plain"] = out["refresher"]] /\ file' = file
      BY <1>5, <2>4, <3>1, <3>2 DEF Write
    <3> QED BY <1>1, <1>2, <1>3, <1>5, <2>4, <3>1, <3>3 DEF Write
  <2>5. CASE Rename("refresher")
    BY <1>1, <1>2, <1>3, <1>5, <2>5 DEF Rename
  <2>6. CASE RenameFails("refresher") \/ CopyFails("refresher")
    BY <1>1, <1>2, <1>3, <1>5, <2>6 DEF RenameFails, CopyFails
  <2>7. CASE RemoveTmp("refresher")
    BY <1>1, <1>2, <1>3, <1>5, <2>7 DEF RemoveTmp
  <2>8. CASE EnsureFails("refresher")
    BY <1>1, <1>2, <1>3, <1>5, <2>8 DEF EnsureFails
  <2> QED BY <2>1, <2>2, <2>3, <2>4, <2>5, <2>6, <2>7, <2>8 DEF EnsureStep
<1> QED BY <1>2, <1>4, <1>5

\* No request finds the file missing any more, so no step brings a race back.
LEMMA PlainAloneStep ==
  ASSUME ListInv, PlainAlone, [Next]_vars
  PROVE  PlainAlone' /\ file'["plain"] \in {file["plain"], file["original"]}
<1> USE DEF ListInv, TypeOK, PlainAlone, vars, Leave, Fault, Files, Derived, Ensuring
<1>1. "refresher" \in Actors /\ \A h \in Handlers : h \in Actors /\ h # "refresher"
  BY DEF Actors
<1>2. CASE Publish \/ Start \/ Crash
  BY <1>1, <1>2 DEF Publish, Start, Crash
<1>3. CASE BeginDownload \/ EndDownload \/ DownloadFails
  <2>1. target["refresher"] # "plain"
    BY <1>1, <1>3 DEF BeginDownload, EndDownload, DownloadFails
  <2>2. target'["refresher"] # "plain" /\ \A h \in Handlers : target'[h] = target[h]
    BY <1>1, <1>3, <2>1 DEF BeginDownload, EndDownload, DownloadFails
  <2>3. file' = file
    BY <1>3 DEF BeginDownload, EndDownload, DownloadFails
  <2> QED BY <2>2, <2>3
<1>4. CASE Replace
  BY <1>1, <1>4 DEF Replace
<1>5. CASE Invalidate
  <2>1. target["refresher"] # "plain" /\ target' = target
    BY <1>1, <1>5 DEF Invalidate
  <2> QED BY <1>5, <2>1 DEF Invalidate
<1>6. ASSUME NEW h \in Handlers, NEW f \in Derived, Request(h, f)
      PROVE  PlainAlone' /\ file' = file
  <2>1. None \notin Versions
    BY DEF Versions
  <2>2. f = "category"
    BY <1>6, <2>1 DEF Request
  <2> QED BY <1>1, <1>6, <2>2 DEF Request
<1>7. CASE UNCHANGED vars
  BY <1>7
<1> QED BY <1>2, <1>3, <1>4, <1>5, <1>6, <1>7, CategoryStep, RefresherStep DEF Next, RefreshStep

\* Once nobody is making a whole plain file, it is whole for good: no crash,
\* failed refresh or request of ensurePlain tears it, mixes it or takes it away.
THEOREM PlainStaysWhole == Spec => [](PlainAtRest => [](file["plain"] \in Versions))
<1>1. ListInv /\ PlainAlone /\ [Next]_vars => PlainAlone'
  BY PlainAloneStep
<1>2. PlainAtRest => PlainAlone
  BY DEF PlainAtRest, PlainAlone, Actors
<1>3. PlainAlone => file["plain"] \in Versions
  BY DEF PlainAlone
<1> QED BY <1>1, <1>2, <1>3, ListInvariant, PTL DEF Spec

\* And from then on it never goes back to an older version: a handler that
\* lags behind the refresher must have started while the file was missing.
THEOREM PlainStopsGoingBack == Spec => [](PlainAtRest => [][file'["plain"] >= file["plain"]]_vars)
<1>1. ListInv /\ PlainAlone /\ [Next]_vars => PlainAlone'
  BY PlainAloneStep
<1>2. PlainAtRest => PlainAlone
  BY DEF PlainAtRest, PlainAlone, Actors
<1>3. ListInv /\ PlainAlone /\ [Next]_vars => [file'["plain"] >= file["plain"]]_vars
  <2> SUFFICES ASSUME ListInv, PlainAlone, [Next]_vars
               PROVE  file'["plain"] >= file["plain"]
    OBVIOUS
  <2>1. file["plain"] \in Versions /\ file["original"] \in Versions /\ file["plain"] <= file["original"]
    BY DEF ListInv, PlainAlone, DerivedOK, Derived, NotAhead
  <2>2. file'["plain"] \in {file["plain"], file["original"]}
    BY PlainAloneStep
  <2> QED BY <2>1, <2>2 DEF Versions
<1> QED BY <1>1, <1>2, <1>3, ListInvariant, PTL DEF Spec
=============================================================================
