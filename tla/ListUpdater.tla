----------------------------- MODULE ListUpdater ----------------------------
(***************************************************************************)
(* The files list-updater keeps for one list (cmd/listUpdater): the        *)
(* original it downloads, the plain form, and the plain form of one        *)
(* category.  One refresher goroutine downloads, converts and invalidates; *)
(* HTTP handlers make a missing plain or category file on request.  All of *)
(* them write <path>.tmp and rename it, and none takes a lock.             *)
(*                                                                         *)
(* One action per system call whose effect another goroutine can see.      *)
(* A content stands for the version of the list it was made from.          *)
(***************************************************************************)
EXTENDS Naturals

CONSTANTS
  Handlers,     \* HTTP requests that can be served at the same time
  LastVersion,  \* bound on the versions the source publishes
  IsDat,        \* IsDat[v]: version v is a GeoSiteList, not plaintext
  HasCategory,  \* HasCategory[v]: version v has the category
  None,         \* no file, nothing in hand
  Partial,      \* a file somebody truncated and has not written yet
  Mixed,        \* a file two writers wrote different contents to
  Raw,          \* a GeoSiteList copied byte by byte into a plain file
  MaxFaults     \* bound on failures and crashes

Versions == 1..LastVersion

ASSUME ConstantsAssumption ==
  /\ LastVersion \in Nat \ {0}
  /\ IsDat \in [Versions -> BOOLEAN]
  /\ HasCategory \in [Versions -> BOOLEAN]
  /\ {None, Partial, Mixed, Raw} \cap Nat = {}
  /\ None \notin {Partial, Mixed, Raw, "original", "plain", "category"}
  /\ Partial \notin {Mixed, Raw} /\ Mixed # Raw
  /\ "refresher" \notin Handlers
  /\ MaxFaults \in Nat

VARIABLES
  remote,       \* version the source serves
  mode,         \* the process is "up" or "down"
  file,         \* file[f]: content of a file
  tmp,          \* tmp[f]: content of <f>.tmp
  pc,           \* pc[a]: where an actor is
  target,       \* target[a]: the file the actor makes
  out,          \* out[a]: the content it writes
  fd,           \* fd[a]: where the file it has open for writing is now
  faults        \* failures so far

vars == <<remote, mode, file, tmp, pc, target, out, fd, faults>>

Derived == {"plain", "category"}
Files   == Derived \cup {"original"}
Actors  == Handlers \cup {"refresher"}
Content == Versions \cup {None, Partial, Mixed, Raw}
Ensuring == {"read", "copy", "open", "write", "rename", "unlink"}
States   == Ensuring \cup {"idle", "download", "replace", "invalidate"}

Fault == faults < MaxFaults /\ faults' = faults + 1

\* The actor is through, with or without success.
Leave(a) == /\ pc' = [pc EXCEPT ![a] = "idle"]
            /\ target' = [target EXCEPT ![a] = None]
            /\ out' = [out EXCEPT ![a] = None]
            /\ fd' = [fd EXCEPT ![a] = "none"]

Init == /\ remote = 1
        /\ mode = "down"
        /\ file = [f \in Files |-> None]
        /\ tmp = [f \in Files |-> None]
        /\ pc = [a \in Actors |-> "idle"]
        /\ target = [a \in Actors |-> None]
        /\ out = [a \in Actors |-> None]
        /\ fd = [a \in Actors |-> "none"]
        /\ faults = 0

---------------------------------------------------------------------------
(* Environment *)

\* The source publishes a version.
Publish == /\ remote < LastVersion
           /\ remote' = remote + 1
           /\ UNCHANGED <<mode, file, tmp, pc, target, out, fd, faults>>

\* startListUpdater: the refresher begins with a sync.
Start == /\ mode = "down"
         /\ mode' = "up"
         /\ UNCHANGED <<remote, file, tmp, pc, target, out, fd, faults>>

\* The process ends at any point, shutdown included; the files stay.
Crash == /\ mode = "up"
         /\ Fault
         /\ mode' = "down"
         /\ pc' = [a \in Actors |-> "idle"]
         /\ target' = [a \in Actors |-> None]
         /\ out' = [a \in Actors |-> None]
         /\ fd' = [a \in Actors |-> "none"]
         /\ UNCHANGED <<remote, file, tmp>>

---------------------------------------------------------------------------
(* syncOne: download *)

\* A 2xx answer, and the temporary file is created or truncated.
BeginDownload == /\ mode = "up"
                 /\ pc["refresher"] = "idle"
                 /\ tmp' = [tmp EXCEPT !["original"] = Partial]
                 /\ out' = [out EXCEPT !["refresher"] = remote]
                 /\ pc' = [pc EXCEPT !["refresher"] = "download"]
                 /\ UNCHANGED <<remote, mode, file, target, fd, faults>>

EndDownload == /\ pc["refresher"] = "download"
               /\ tmp' = [tmp EXCEPT !["original"] = out["refresher"]]
               /\ pc' = [pc EXCEPT !["refresher"] = "replace"]
               /\ UNCHANGED <<remote, mode, file, target, out, fd, faults>>

\* Variant: the error of io.Copy is only logged.
DownloadFails_Ignored == /\ pc["refresher"] = "download"
                         /\ Fault
                         /\ pc' = [pc EXCEPT !["refresher"] = "replace"]
                         /\ UNCHANGED <<remote, mode, file, tmp, target, out, fd>>

\* The body breaks off, or the rename fails: the temporary file is removed.
DownloadFails == /\ pc["refresher"] \in {"download", "replace"}
                 /\ Fault
                 /\ tmp' = [tmp EXCEPT !["original"] = None]
                 /\ Leave("refresher")
                 /\ UNCHANGED <<remote, mode, file>>

\* os.Rename of the original; ensurePlain follows.
Replace == /\ pc["refresher"] = "replace"
           /\ file' = [file EXCEPT !["original"] = tmp["original"]]
           /\ tmp' = [tmp EXCEPT !["original"] = None]
           /\ pc' = [pc EXCEPT !["refresher"] = "read"]
           /\ target' = [target EXCEPT !["refresher"] = "plain"]
           /\ UNCHANGED <<remote, mode, out, fd, faults>>

---------------------------------------------------------------------------
(* ensurePlain, ensurePlainCategory *)

\* handlePlain, handlePlainCategory: the original exists, the file does not.
Request(h, f) == /\ mode = "up"
                 /\ pc[h] = "idle"
                 /\ file["original"] # None
                 /\ file[f] = None
                 /\ pc' = [pc EXCEPT ![h] = "read"]
                 /\ target' = [target EXCEPT ![h] = f]
                 /\ UNCHANGED <<remote, mode, file, tmp, out, fd, faults>>

\* Variant: what was downloaded last is read, renamed or not.
ReadFrom_Tmp(a) == IF tmp["original"] \in Versions THEN tmp["original"] ELSE file["original"]

ReadFrom(a) == file["original"]

\* The original is read and decoded; plaintext has no categories.
Read(a) == LET v == ReadFrom(a) IN
           /\ pc[a] = "read"
           /\ \/ /\ IsDat[v] /\ (target[a] = "category" => HasCategory[v])
                 /\ out' = [out EXCEPT ![a] = v]
                 /\ pc' = [pc EXCEPT ![a] = "open"]
                 /\ UNCHANGED <<target, fd>>
              \/ /\ ~IsDat[v] /\ target[a] = "plain"
                 /\ pc' = [pc EXCEPT ![a] = "copy"]
                 /\ UNCHANGED <<target, out, fd>>
              \/ /\ target[a] = "category" /\ ~(IsDat[v] /\ HasCategory[v])
                 /\ Leave(a)
           /\ UNCHANGED <<remote, mode, file, tmp, faults>>

\* Variant: source and destination of the copy are swapped.
OpenSource_Swapped(a) == /\ pc[a] = "copy"
                         /\ out' = [out EXCEPT ![a] = file[target[a]]]
                         /\ pc' = [pc EXCEPT ![a] = "open"]
                         /\ UNCHANGED <<remote, mode, file, tmp, target, fd, faults>>

\* copyFileAtomically opens the original a second time.
OpenSource(a) == LET v == file["original"] IN
                 /\ pc[a] = "copy"
                 /\ out' = [out EXCEPT ![a] = IF IsDat[v] THEN Raw ELSE v]
                 /\ pc' = [pc EXCEPT ![a] = "open"]
                 /\ UNCHANGED <<remote, mode, file, tmp, target, fd, faults>>

\* The temporary file is created, or the one already there truncated.
Open(a) == /\ pc[a] = "open"
           /\ tmp' = [tmp EXCEPT ![target[a]] = Partial]
           /\ fd' = [fd EXCEPT ![a] = "tmp"]
           /\ pc' = [pc EXCEPT ![a] = "write"]
           /\ UNCHANGED <<remote, mode, file, target, out, faults>>

\* What a writer leaves in a file that holds c: another writer of that file
\* may have put a different content there, or be about to.
Clash(a, c) == \/ c \notin {Partial, out[a]}
               \/ \E b \in Actors \ {a} : target[b] = target[a] /\ fd[b] = fd[a] /\ out[b] # out[a]

Written(a, c) == IF Clash(a, c) THEN {out[a], Mixed} ELSE {out[a]}

Write(a) == LET f == target[a] IN
            /\ pc[a] = "write"
            /\ \/ /\ fd[a] = "tmp"
                  /\ \E c \in Written(a, tmp[f]) : tmp' = [tmp EXCEPT ![f] = c]
                  /\ UNCHANGED file
               \/ /\ fd[a] = "file"
                  /\ \E c \in Written(a, file[f]) : file' = [file EXCEPT ![f] = c]
                  /\ UNCHANGED tmp
               \/ fd[a] = "gone" /\ UNCHANGED <<file, tmp>>
            /\ fd' = [fd EXCEPT ![a] = "none"]
            /\ pc' = [pc EXCEPT ![a] = "rename"]
            /\ UNCHANGED <<remote, mode, target, out, faults>>

\* After a rename, who has the temporary file open writes to the file, and
\* who had the file open writes to a file without a name.
Moved(f) == [b \in Actors |-> IF target[b] # f \/ fd[b] = "none" THEN fd[b]
                             ELSE IF fd[b] = "tmp" THEN "file" ELSE "gone"]

Rename(a) == LET f == target[a] IN
             /\ pc[a] = "rename"
             /\ tmp[f] # None
             /\ file' = [file EXCEPT ![f] = tmp[f]]
             /\ tmp' = [tmp EXCEPT ![f] = None]
             /\ fd' = Moved(f)
             /\ pc' = [pc EXCEPT ![a] = IF a = "refresher" THEN "invalidate" ELSE "idle"]
             /\ target' = [target EXCEPT ![a] = None]
             /\ out' = [out EXCEPT ![a] = None]
             /\ UNCHANGED <<remote, mode, faults>>

\* os.Rename fails, with a temporary file that another actor renamed or
\* removed already, or for another reason.
RenameFails(a) == /\ pc[a] = "rename"
                  /\ \/ tmp[target[a]] = None /\ UNCHANGED faults
                     \/ Fault
                  /\ pc' = [pc EXCEPT ![a] = "unlink"]
                  /\ UNCHANGED <<remote, mode, file, tmp, target, out, fd>>

\* What copyFileAtomically writes: plaintext, and what was taken for it.
Copied == {v \in Versions : ~IsDat[v]} \cup {Raw}

\* copyFileAtomically stops half way, and closes the file.
CopyFails(a) == /\ pc[a] = "write"
                /\ out[a] \in Copied
                /\ Fault
                /\ fd' = [fd EXCEPT ![a] = "none"]
                /\ pc' = [pc EXCEPT ![a] = "unlink"]
                /\ UNCHANGED <<remote, mode, file, tmp, target, out>>

\* os.Remove of the temporary file, by now perhaps another actor's: what that
\* one still writes has no name, and its own rename will fail.
RemoveTmp(a) == /\ pc[a] = "unlink"
                /\ tmp' = [tmp EXCEPT ![target[a]] = None]
                /\ fd' = [b \in Actors |-> IF target[b] = target[a] /\ fd[b] = "tmp" THEN "gone" ELSE fd[b]]
                /\ pc' = [pc EXCEPT ![a] = "idle"]
                /\ target' = [target EXCEPT ![a] = None]
                /\ out' = [out EXCEPT ![a] = None]
                /\ UNCHANGED <<remote, mode, file, faults>>

\* Any other error of ensurePlain, a failed os.Remove among them: what is
\* there of the temporary file stays.
EnsureFails(a) == /\ pc[a] \in Ensuring
                  /\ Fault
                  /\ Leave(a)
                  /\ UNCHANGED <<remote, mode, file, tmp>>

\* Variant: the category cache is not invalidated.
Invalidate_None == /\ pc["refresher"] = "invalidate"
                   /\ Leave("refresher")
                   /\ UNCHANGED <<remote, mode, file, tmp, faults>>

\* os.RemoveAll of the category directory ends the refresh.
Invalidate == /\ pc["refresher"] = "invalidate"
              /\ file' = [file EXCEPT !["category"] = None]
              /\ tmp' = [tmp EXCEPT !["category"] = None]
              /\ fd' = [b \in Actors |-> IF target[b] = "category" /\ fd[b] # "none" THEN "gone" ELSE fd[b]]
              /\ pc' = [pc EXCEPT !["refresher"] = "idle"]
              /\ UNCHANGED <<remote, mode, target, out, faults>>

EnsureStep(a) == \/ Read(a) \/ OpenSource(a) \/ Open(a) \/ Write(a)
                 \/ Rename(a) \/ RenameFails(a) \/ CopyFails(a) \/ RemoveTmp(a) \/ EnsureFails(a)

RefreshStep == \/ BeginDownload \/ EndDownload \/ DownloadFails \/ Replace
               \/ EnsureStep("refresher") \/ Invalidate

Next == \/ Publish \/ Start \/ Crash
        \/ RefreshStep
        \/ \E h \in Handlers : \/ \E f \in Derived : Request(h, f)
                               \/ EnsureStep(h)

Spec == Init /\ [][Next]_vars

(***************************************************************************)
(* The ticker keeps firing and every download ends by its timeout; a       *)
(* handler, once started, runs.  Nobody need send a request, nor the       *)
(* source publish.                                                         *)
(***************************************************************************)
Fairness == /\ WF_vars(Start)
            /\ WF_vars(RefreshStep)
            /\ \A h \in Handlers : WF_vars(EnsureStep(h))

FairSpec == Spec /\ Fairness

---------------------------------------------------------------------------
(* Properties *)

TypeOK == /\ remote \in 1..LastVersion
          /\ mode \in {"up", "down"}
          /\ file \in [Files -> Content]
          /\ tmp \in [Files -> Content]
          /\ pc \in [Actors -> States]
          /\ target \in [Actors -> Files \cup {None}]
          /\ out \in [Actors -> Versions \cup {None, Raw}]
          /\ fd \in [Actors -> {"none", "tmp", "file", "gone"}]
          /\ faults \in 0..MaxFaults

\* The file served at /<name> is only ever replaced by a whole and newer
\* version: no broken download, crash or leftover temporary file shows there.
OriginalOnlyImproves ==
  [][file'["original"] # file["original"] =>
       /\ file'["original"] \in Versions
       /\ file["original"] = None \/ file'["original"] >= file["original"]]_vars

\* What /plain shows was at /<name> before: no derived file is made from a
\* version that a client of the original could not have seen.
NotAheadOfOriginal ==
  \A f \in Derived : file[f] \in Versions => file["original"] \in Versions /\ file[f] <= file["original"]

\* Once the source stops changing and no more requests find the plain file
\* missing, it becomes the current version and no older version of a category
\* survives, and both stay so, whatever torn, mixed or old content a race left,
\* or a handler brought back after it was removed.
DerivedSettle ==
  \A v \in Versions :
    <>[](remote = v /\ \A h \in Handlers : target[h] # "plain") =>
      <>[](file["plain"] = v /\ file["category"] \notin Versions \ {v})

---------------------------------------------------------------------------
(* Inductive invariant *)

\* The refresher holds a version that is not older than the original.
DownloadOK ==
  /\ file["original"] \in Versions \cup {None}
  /\ file["original"] # None => file["original"] <= remote
  /\ pc["refresher"] \in {"download", "replace"} =>
       /\ out["refresher"] \in 1..remote
       /\ file["original"] # None => file["original"] <= out["refresher"]
  /\ pc["refresher"] = "replace" => tmp["original"] = out["refresher"]

\* A content that does not come from a version newer than the original.
NotAhead(c) == c \in Versions => file["original"] \in Versions /\ c <= file["original"]

\* Whoever makes a derived file took it from the original.
EnsureOK ==
  \A a \in Actors :
    /\ pc[a] \in Ensuring => target[a] \in Derived /\ file["original"] # None
    /\ pc[a] \in {"open", "write"} => NotAhead(out[a])
    /\ a # "refresher" => pc[a] \in Ensuring \cup {"idle"}

DerivedOK == \A f \in Derived : NotAhead(file[f]) /\ NotAhead(tmp[f])

ListInv == TypeOK /\ DownloadOK /\ EnsureOK /\ DerivedOK
=============================================================================
