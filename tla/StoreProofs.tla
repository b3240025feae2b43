---------------------------- MODULE StoreProofs -----------------------------
(***************************************************************************)
(* Safety of the relocator's event ring and counters, for any number of    *)
(* buckets, any event_log and any length of the ring.                      *)
(***************************************************************************)
EXTENDS Store, FiniteSetTheorems, TLAPS

---------------------------------------------------------------------------
(* Types *)

\* Every write of a pass leads from one stage to another.
LEMMA WriteStages == ASSUME NEW w \in Writes PROVE w.from \in Stages /\ w.to \in Stages
  BY DEF Writes, Write, Stages

\* What AppendEvent does to the keys of the ring.
LEMMA AppendDeletes ==
  ASSUME Append
  PROVE  /\ lastSeq' = lastSeq + 1
         /\ \E D \in Trimmed(events \cup {lastSeq + 1}) :
              events' = (events \cup {lastSeq + 1}) \ D
  BY DEF Append

\* Only an event that is appended changes the ring.
LEMMA RingChanges ==
  ASSUME TypeOK, [Next]_vars, lastSeq' # lastSeq
  PROVE  Append /\ logCap' = logCap
<1>1. CASE UNCHANGED vars
  BY <1>1 DEF vars, ringVars
<1>2. ASSUME NEW b \in Buckets, NEW w \in Writes, Commit(b, w) PROVE Append /\ logCap' = logCap
  BY <1>2 DEF Commit, ringVars
<1>3. ASSUME NEW b \in Buckets, NEW w \in Writes, Drop(b, w) PROVE FALSE
  BY <1>3 DEF Drop, ringVars
<1>4. CASE Close
  BY <1>4 DEF Close, ringVars
<1>5. ASSUME NEW n \in EventLogs, Open(n) PROVE FALSE
  BY <1>5 DEF Open, ringVars
<1> QED BY <1>1, <1>2, <1>3, <1>4, <1>5 DEF Next

\* A committed transaction keeps the types.
LEMMA CommitTypes ==
  ASSUME TypeOK, NEW b \in Buckets, NEW w \in Writes, Commit(b, w)
  PROVE  TypeOK'
<1>1. stage' \in [Buckets -> Stages]
  BY WriteStages DEF Commit, Writing, TypeOK
<1>2. passes' \in 0..MaxPasses
  BY StoreAssumption DEF Commit, Writing, TypeOK
<1>3. lastSeq' \in Nat /\ events' \subseteq 1..lastSeq'
  <2>1. CASE w.what = Event
    <3>1. Append
      BY <2>1 DEF Commit
    <3>2. lastSeq' = lastSeq + 1 /\ events' \subseteq events \cup {lastSeq + 1}
      BY <3>1, AppendDeletes
    <3> QED BY <3>2 DEF TypeOK
  <2>2. CASE w.what # Event
    BY <2>2 DEF Commit, ringVars, TypeOK
  <2> QED BY <2>1, <2>2
<1>4. stats' \in [Buckets -> [Counters -> Nat]]
  <2>1. CASE w.what = Event
    BY <2>1 DEF Commit, TypeOK
  <2>2. CASE w.what # Event
    <3>1. [c \in Counters |-> IF c \in w.what THEN stats[b][c] + 1 ELSE stats[b][c]] \in [Counters -> Nat]
      BY DEF TypeOK
    <3>2. stats' = [stats EXCEPT ![b] =
                      [c \in Counters |-> IF c \in w.what THEN stats[b][c] + 1 ELSE stats[b][c]]]
      BY <2>2 DEF Commit
    <3> QED BY <3>1, <3>2 DEF TypeOK
  <2> QED BY <2>1, <2>2
<1> QED BY <1>1, <1>2, <1>3, <1>4 DEF Commit, TypeOK

\* A dropped transaction keeps the types.
LEMMA DropTypes ==
  ASSUME TypeOK, NEW b \in Buckets, NEW w \in Writes, Drop(b, w)
  PROVE  TypeOK'
<1>1. stage' \in [Buckets -> Stages]
  BY WriteStages DEF Drop, Writing, TypeOK
<1>2. passes' \in 0..MaxPasses
  BY StoreAssumption DEF Drop, Writing, TypeOK
<1>3. faults' \in 0..MaxFaults
  BY StoreAssumption DEF Drop, TypeOK
<1>4. lost' \in [Buckets -> Nat]
  BY DEF Drop, TypeOK
<1> QED BY <1>1, <1>2, <1>3, <1>4 DEF Drop, ringVars, TypeOK

\* The keys of the ring, the counters and the stages of the pollers keep their
\* types through writes, failures, shutdowns and restarts of store.go.
THEOREM StoreTypeCorrect == Spec => []TypeOK
<1>1. Init => TypeOK
  BY StoreAssumption DEF Init, TypeOK, Stages
<1>2. TypeOK /\ [Next]_vars => TypeOK'
  <2> SUFFICES ASSUME TypeOK, [Next]_vars PROVE TypeOK'
    OBVIOUS
  <2>1. CASE UNCHANGED vars
    BY <2>1 DEF vars, ringVars, TypeOK
  <2>2. CASE Close
    BY <2>2 DEF Close, ringVars, TypeOK
  <2>3. ASSUME NEW n \in EventLogs, Open(n) PROVE TypeOK'
    <3>1. lost' \in [Buckets -> Nat] /\ stage' \in [Buckets -> Stages]
      BY <2>3 DEF Open, TypeOK, Stages
    <3> QED BY <2>3, <3>1 DEF Open, ringVars, TypeOK
  <2> QED BY <2>1, <2>2, <2>3, CommitTypes, DropTypes DEF Next
<1> QED BY <1>1, <1>2, PTL DEF Spec

---------------------------------------------------------------------------
(* The ring *)

\* The ring is finite, and the new key is above it.
LEMMA RingFinite ==
  ASSUME TypeOK
  PROVE  /\ IsFiniteSet(events)
         /\ Cardinality(events) \in Nat
         /\ events \subseteq Nat
         /\ \A e \in events : e < lastSeq + 1
         /\ LET S == events \cup {lastSeq + 1} IN
              IsFiniteSet(S) /\ S \subseteq Nat /\ Cardinality(S) = Cardinality(events) + 1
<1>1. IsFiniteSet(1..lastSeq)
  BY FS_Interval DEF TypeOK
<1>2. IsFiniteSet(events)
  BY <1>1, FS_Subset DEF TypeOK
<1>3. Cardinality(events) \in Nat
  BY <1>2, FS_CardinalityType
<1>4. events \subseteq Nat /\ (\A e \in events : e < lastSeq + 1) /\ lastSeq + 1 \in Nat
  BY DEF TypeOK
<1>5. lastSeq + 1 \notin events
  BY <1>4
<1> QED BY <1>2, <1>3, <1>4, <1>5, FS_AddElement

\* What lies above a key of a finite set of numbers.
LEMMA AboveFinite ==
  ASSUME NEW S, IsFiniteSet(S), NEW e
  PROVE  IsFiniteSet(Above(S, e)) /\ Cardinality(Above(S, e)) \in Nat
  BY FS_Subset, FS_CardinalityType DEF Above

\* Above the oldest key lie all the others.
LEMMA AboveOldest ==
  ASSUME NEW S \in SUBSET Nat, NEW d \in S, \A f \in S : d <= f
  PROVE  Above(S, d) = S \ {d}
<1>1. ASSUME NEW f \in S PROVE f > d <=> f # d
  <2>1. f \in Nat /\ d \in Nat /\ d <= f
    OBVIOUS
  <2> QED BY <2>1
<1>2. Above(S, d) = {f \in S : f # d}
  BY <1>1 DEF Above
<1> QED BY <1>2

\* An event that is appended at the limit replaces the oldest one.
LEMMA TrimAtLimit ==
  ASSUME NEW S \in SUBSET Nat, IsFiniteSet(S), NEW D, Deletes(S, D, 1)
  PROVE  \E d \in S : D = {d} /\ \A f \in S : d <= f
<1>1. D \in SUBSET S /\ D # {} /\ Cardinality(D) <= 1
  BY DEF Deletes
<1>2. IsFiniteSet(D) /\ Cardinality(D) \in Nat
  BY <1>1, FS_Subset, FS_CardinalityType
<1>3. Cardinality(D) = 1
  BY <1>1, <1>2, FS_EmptySet
<1>4. PICK d : D = {d}
  BY <1>2, <1>3, FS_Singleton
<1>5. d \in S /\ d \in Nat
  BY <1>1, <1>4
<1>6. \/ \A f \in S : d <= f
      \/ \E e \in D : e < d /\ Cardinality(Between(S, e, d)) <= 1
  BY <1>4 DEF Deletes
<1>7. ~\E e \in D : e < d
  BY <1>4, <1>5
<1> QED BY <1>4, <1>5, <1>6, <1>7

\* A set of n + 1 keys without its smallest one is its n newest.
LEMMA NewestWithoutOldest ==
  ASSUME NEW S \in SUBSET Nat, IsFiniteSet(S), NEW n \in Nat, Cardinality(S) = n + 1,
         NEW d \in S, \A f \in S : d <= f
  PROVE  S \ {d} = Newest(S, n)
<1>1. IsFiniteSet(S \ {d}) /\ Cardinality(S \ {d}) = n
  BY FS_RemoveElement
<1>2. Above(S, d) = S \ {d}
  BY AboveOldest
<1>3. ASSUME NEW e \in S, e # d PROVE Cardinality(Above(S, e)) < n
  <2>1. e \in S \ {d}
    BY <1>3
  <2>2. IsFiniteSet((S \ {d}) \ {e}) /\ Cardinality((S \ {d}) \ {e}) = n - 1
    BY <1>1, <2>1, FS_RemoveElement
  <2>3. Above(S, e) \subseteq (S \ {d}) \ {e}
    BY DEF Above
  <2>4. Cardinality(Above(S, e)) <= n - 1 /\ Cardinality(Above(S, e)) \in Nat
    BY <2>2, <2>3, FS_Subset, AboveFinite
  <2> QED BY <2>4
<1>4. ~(Cardinality(Above(S, d)) < n)
  BY <1>1, <1>2
<1> QED BY <1>3, <1>4 DEF Newest

\* A set of at most n keys is its n newest.
LEMMA NewestIsAll ==
  ASSUME NEW S \in SUBSET Nat, IsFiniteSet(S), NEW n \in Nat, Cardinality(S) <= n
  PROVE  S = Newest(S, n)
<1>1. ASSUME NEW e \in S PROVE Cardinality(Above(S, e)) < n
  <2>1. IsFiniteSet(S \ {e}) /\ Cardinality(S \ {e}) = Cardinality(S) - 1
    BY FS_RemoveElement
  <2>2. Above(S, e) \subseteq S \ {e}
    BY DEF Above
  <2>3. Cardinality(Above(S, e)) <= Cardinality(S) - 1 /\ Cardinality(Above(S, e)) \in Nat
    BY <2>1, <2>2, FS_Subset, AboveFinite
  <2>4. Cardinality(S) \in Nat
    BY FS_CardinalityType
  <2> QED BY <2>3, <2>4
<1> QED BY <1>1 DEF Newest

\* The ring within its limit keeps its newest events, the new one first.
LEMMA AppendSteady ==
  ASSUME TypeOK, Append, logCap' = logCap
  PROVE  /\ logCap <= 0 => events' = events \cup {lastSeq'}
         /\ logCap > 0 /\ Cardinality(events) <= logCap + 1 =>
              /\ events' = Newest(events \cup {lastSeq'}, logCap + 1)
              /\ lastSeq' \in RecentEvents'
<1> DEFINE n == lastSeq + 1
           S == events \cup {n}
           excess == KeyN - logCap
<1>1. PICK D \in Trimmed(S) : events' = S \ D
  BY AppendDeletes
<1>2. lastSeq' = n
  BY AppendDeletes
<1>3. /\ IsFiniteSet(events) /\ Cardinality(events) \in Nat /\ events \subseteq Nat
      /\ \A e \in events : e < n
      /\ IsFiniteSet(S) /\ S \subseteq Nat /\ Cardinality(S) = Cardinality(events) + 1
      /\ n \in Nat
  BY RingFinite DEF TypeOK
<1>4. logCap \in Int /\ KeyN = Cardinality(events) /\ excess \in Int
  BY <1>3, StoreAssumption DEF TypeOK, KeyN
<1>5. D = {} \/ (logCap > 0 /\ excess > 0 /\ Deletes(S, D, excess))
  BY <1>1, <1>4 DEF Trimmed
<1>6. logCap <= 0 \/ excess <= 0 => D = {}
  BY <1>1, <1>4 DEF Trimmed
<1>7. logCap <= 0 => events' = S
  BY <1>1, <1>6
<1> HIDE DEF n, S, excess
<1>8. ASSUME logCap > 0, Cardinality(events) <= logCap + 1
      PROVE  events' = Newest(S, logCap + 1) /\ n \in RecentEvents'
  <2>1. logCap + 1 \in Nat
    BY <1>4, <1>8
  <2>2. events' = Newest(S, logCap + 1) /\ n \in events'
    <3>1. CASE Cardinality(events) <= logCap
      <4>1. excess <= 0
        BY <1>3, <1>4, <3>1 DEF excess
      <4>2. events' = S
        BY <1>1, <1>6, <4>1
      <4>3. Cardinality(S) <= logCap + 1
        BY <1>3, <1>4, <3>1
      <4> QED BY <1>3, <2>1, <4>2, <4>3, NewestIsAll DEF S
    <3>2. CASE Cardinality(events) = logCap + 1
      <4>1. excess = 1
        BY <1>3, <1>4, <3>2 DEF excess
      <4>2. D # {} /\ Deletes(S, D, 1)
        <5>1. D \in {E \in SUBSET S : Deletes(S, E, excess)}
          BY <1>1, <1>4, <1>8, <4>1 DEF Trimmed, excess, KeyN
        <5> QED BY <4>1, <5>1 DEF Deletes
      <4>3. PICK d \in S : D = {d} /\ \A f \in S : d <= f
        BY <1>3, <4>2, TrimAtLimit
      <4>4. Cardinality(S) = (logCap + 1) + 1
        BY <1>3, <1>4, <3>2
      <4>5. events' = Newest(S, logCap + 1)
        BY <1>1, <1>3, <2>1, <4>3, <4>4, NewestWithoutOldest
      <4>6. events # {}
        BY <1>3, <1>4, <1>8, <3>2, FS_EmptySet
      <4>7. PICK e \in events : TRUE
        BY <4>6
      <4>8. d <= e /\ e < n
        BY <1>3, <4>3, <4>7 DEF S
      <4>9. d # n /\ n \in S
        <5>1. e \in Nat /\ d \in Nat
          BY <1>3, <4>3, <4>7
        <5> QED BY <1>3, <4>8, <5>1 DEF S
      <4> QED BY <1>1, <4>3, <4>5, <4>9
    <3> QED BY <1>3, <1>4, <1>8, <3>1, <3>2
  <2>3. Above(events', n) = {}
    <3>1. ASSUME NEW e \in events' PROVE ~(e > n)
      <4>1. e \in events \/ e = n
        BY <1>1 DEF S
      <4>2. e \in Nat /\ n \in Nat /\ (e = n \/ e < n)
        BY <1>3, <4>1
      <4> QED BY <4>2
    <3> QED BY <3>1 DEF Above
  <2>4. Cardinality(Above(events', n)) < PageSize
    BY <2>3, FS_EmptySet, StoreAssumption
  <2>5. n \in RecentEvents'
    BY <2>2, <2>4 DEF RecentEvents, Newest
  <2> QED BY <2>2, <2>5
<1> QED BY <1>2, <1>7, <1>8 DEF S

\* Fewer of the newest keys are among more of them.
LEMMA NewestGrows ==
  ASSUME NEW S, IsFiniteSet(S), NEW n \in Nat
  PROVE  Newest(S, n) \subseteq Newest(S, n + 1)
<1> SUFFICES ASSUME NEW e \in Newest(S, n) PROVE e \in Newest(S, n + 1)
  OBVIOUS
<1>1. e \in S /\ Cardinality(Above(S, e)) < n
  BY DEF Newest
<1>2. Cardinality(Above(S, e)) \in Nat
  BY AboveFinite
<1>3. Cardinality(Above(S, e)) < n + 1
  BY <1>1, <1>2
<1> QED BY <1>1, <1>3 DEF Newest

\* What is not among the newest keys is older than all that are.
LEMMA RestIsOlder ==
  ASSUME NEW S \in SUBSET Nat, IsFiniteSet(S), NEW n \in Nat,
         NEW e \in S, e \notin Newest(S, n), NEW f \in Newest(S, n)
  PROVE  e < f
<1>1. f \in S /\ Cardinality(Above(S, f)) < n /\ ~(Cardinality(Above(S, e)) < n)
  BY DEF Newest
<1>2. e \in Nat /\ f \in Nat
  BY <1>1
<1>3. CASE ~(e < f)
  <2>1. Above(S, e) \subseteq Above(S, f)
    <3>1. ASSUME NEW g \in S, g > e PROVE g > f
      BY <1>2, <1>3, <3>1
    <3> QED BY <3>1 DEF Above
  <2>2. Cardinality(Above(S, e)) <= Cardinality(Above(S, f))
    BY <2>1, AboveFinite, FS_Subset
  <2>3. Cardinality(Above(S, e)) \in Nat /\ Cardinality(Above(S, f)) \in Nat
    BY AboveFinite
  <2> QED BY <1>1, <2>2, <2>3
<1> QED BY <1>3

\* What an appended event may push out of a ring that is not overfull.
LEMMA AppendKeepsNewest ==
  ASSUME TypeOK, Append, logCap' = logCap
  PROVE  LET S == events \cup {lastSeq'} IN
         /\ logCap <= 0 => events' = S
         /\ logCap > 0 /\ Cardinality(events) <= logCap + 1 =>
              /\ Newest(S, logCap) \subseteq events'
              /\ \A e \in S \ events', f \in events' : e < f
              /\ lastSeq' \in RecentEvents'
<1> DEFINE S == events \cup {lastSeq'}
<1>1. S \in SUBSET Nat /\ IsFiniteSet(S)
  BY RingFinite, AppendDeletes
<1>2. ASSUME logCap > 0, Cardinality(events) <= logCap + 1
      PROVE  /\ Newest(S, logCap) \subseteq events'
             /\ \A e \in S \ events', f \in events' : e < f
             /\ lastSeq' \in RecentEvents'
  <2>1. logCap \in Nat /\ logCap + 1 \in Nat
    BY <1>2, StoreAssumption DEF TypeOK
  <2>2. events' = Newest(S, logCap + 1) /\ lastSeq' \in RecentEvents'
    BY <1>2, AppendSteady
  <2> HIDE DEF S
  <2>3. Newest(S, logCap) \subseteq Newest(S, logCap + 1)
    BY <1>1, <2>1, NewestGrows
  <2>4. \A e \in S \ events', f \in events' : e < f
    BY <1>1, <2>1, <2>2, RestIsOlder
  <2> QED BY <2>2, <2>3, <2>4
<1> QED BY <1>2, AppendSteady

\* While event_log is not lowered below what the ring holds, whatever the
\* pollers append, AppendEvent trims the oldest events only: the status page
\* is never given an older event in place of a newer one.
THEOREM RingKeepsNewest == Spec => KeepsNewest
<1> DEFINE Keeps ==
      lastSeq' # lastSeq => LET S == events \cup {lastSeq'} IN
        /\ logCap <= 0 => events' = S
        /\ logCap > 0 /\ Cardinality(events) <= logCap + 1 =>
             /\ Newest(S, logCap) \subseteq events'
             /\ \A e \in S \ events', f \in events' : e < f
             /\ lastSeq' \in RecentEvents'
<1>1. TypeOK /\ [Next]_vars => [Keeps]_vars
  BY RingChanges, AppendKeepsNewest
<1>2. Spec => [][Keeps]_vars
  BY <1>1, StoreTypeCorrect, PTL DEF Spec
<1> QED BY <1>2 DEF KeepsNewest

\* With two keys to delete, and four to delete from, the cursor finds two.
LEMMA TrimDeletesTwo ==
  ASSUME NEW S \in SUBSET Nat, IsFiniteSet(S), Cardinality(S) >= 4,
         NEW excess \in Nat, excess >= 2, NEW D, Deletes(S, D, excess)
  PROVE  D \in SUBSET S /\ Cardinality(D) \in 2..excess
<1>1. D \in SUBSET S /\ D # {} /\ Cardinality(D) <= excess
  BY DEF Deletes
<1>2. IsFiniteSet(D) /\ Cardinality(D) \in Nat /\ Cardinality(D) # 0
  BY <1>1, FS_Subset, FS_CardinalityType, FS_EmptySet
<1>3. CASE Cardinality(D) = 1
  <2>1. PICK d : D = {d}
    BY <1>2, <1>3, FS_Singleton
  <2>2. d \in S /\ d \in Nat
    BY <1>1, <2>1
  <2>3. \A f \in S : d <= f
    <3>1. ~\E e \in D : e < d
      BY <2>1, <2>2
    <3> QED BY <2>1, <3>1 DEF Deletes
  <2>4. Cardinality(Above(S, d)) <= 1
    BY <1>3, <2>1 DEF Deletes
  <2>5. Above(S, d) = S \ {d}
    BY <2>2, <2>3, AboveOldest
  <2>6. Cardinality(S \ {d}) = Cardinality(S) - 1 /\ Cardinality(S) \in Nat
    BY <2>2, FS_RemoveElement, FS_CardinalityType
  <2> QED BY <2>4, <2>5, <2>6
<1> QED BY <1>1, <1>2, <1>3

\* The ring over its limit loses more than it gains, and not too much.
LEMMA AppendShrinks ==
  ASSUME TypeOK, Append, logCap > 0, Cardinality(events) > logCap + 1
  PROVE  Cardinality(events') < Cardinality(events) /\ Cardinality(events') >= logCap
<1> DEFINE S == events \cup {lastSeq + 1}
           excess == KeyN - logCap
<1>1. PICK D \in Trimmed(S) : events' = S \ D
  BY AppendDeletes
<1>2. /\ Cardinality(events) \in Nat
      /\ IsFiniteSet(S) /\ S \subseteq Nat /\ Cardinality(S) = Cardinality(events) + 1
  BY RingFinite
<1>3. logCap \in Int /\ KeyN = Cardinality(events)
  BY StoreAssumption DEF TypeOK, KeyN
<1>4. excess \in Nat /\ excess >= 2 /\ Cardinality(S) >= 4
  BY <1>2, <1>3
<1>5. Deletes(S, D, excess)
  BY <1>1, <1>3, <1>4 DEF Trimmed
<1>6. excess = Cardinality(events) - logCap
  BY <1>3
<1> HIDE DEF S, excess
<1>7. D \in SUBSET S /\ Cardinality(D) \in 2..excess
  BY <1>2, <1>4, <1>5, TrimDeletesTwo
<1>8. Cardinality(S \ D) = Cardinality(S) - Cardinality(D)
  <2>1. IsFiniteSet(D) /\ IsFiniteSet(S \ D)
    BY <1>2, <1>7, FS_Subset
  <2>2. D \cap (S \ D) = {} /\ D \cup (S \ D) = S
    BY <1>7
  <2>3. Cardinality(D) \in Nat /\ Cardinality(S \ D) \in Nat
    BY <2>1, FS_CardinalityType
  <2>4. Cardinality(S) = Cardinality(D) + Cardinality(S \ D)
    BY <2>1, <2>2, <2>3, FS_Union, FS_EmptySet
  <2> QED BY <2>3, <2>4
<1> QED BY <1>1, <1>2, <1>3, <1>6, <1>7, <1>8

\* After event_log was lowered across a restart the ring comes back to its
\* limit event by event, for every choice of the cursor in trimEventsLocked.
THEOREM OverfullRingShrinks == Spec => OverfullShrinks
<1> DEFINE Shrinks ==
      lastSeq' # lastSeq /\ logCap > 0 /\ Cardinality(events) > logCap + 1 =>
        /\ Cardinality(events') < Cardinality(events)
        /\ Cardinality(events') >= logCap
<1>1. TypeOK /\ [Next]_vars => [Shrinks]_vars
  BY RingChanges, AppendShrinks
<1>2. Spec => [][Shrinks]_vars
  BY <1>1, StoreTypeCorrect, PTL DEF Spec
<1> QED BY <1>2 DEF OverfullShrinks

---------------------------------------------------------------------------
(* The counters *)

\* An object that was extracted and not yet deleted is in hand.
Deletable(b) == IF stage[b] \in {"unpacked", "warn", "partial", "sent", "recorded"} THEN 1 ELSE 0

\* Where every bucket stands, with the objects in hand; inductive.
Balance(b) ==
  /\ stats[b]["downloaded"] <= Outcomes(b) + InHand(b) + lost[b]
  /\ Outcomes(b) + InHand(b) <= stats[b]["downloaded"] + lost[b]
  /\ stats[b]["deleted"] + Deletable(b) <= stats[b]["extracted"] + lost[b]

\* A write that takes an object in hand counts the download and nothing else.
LEMMA WritesTake ==
  ASSUME NEW w \in Writes, w.to = "fetched"
  PROVE  w.what = {"downloaded"} /\ w.from = "idle"
  BY DEF Writes, Write, Event, Record

\* A write that ends an extraction counts its one outcome.
LEMMA WritesEnd ==
  ASSUME NEW w \in Writes, w.from = "fetched"
  PROVE  \/ w.what = {"extractFailed"} /\ w.to = "report"
         \/ w.what = {"passwordFailed"} /\ w.to = "report"
         \/ w.what = {"extracted"} /\ w.to = "unpacked"
  BY DEF Writes, Write, Event, Record

\* Any other write leaves downloads and outcomes alone, and counts a deletion
\* only of an object that was extracted.
LEMMA WritesElse ==
  ASSUME NEW w \in Writes, w.from # "fetched", w.to # "fetched"
  PROVE  /\ w.what \cap {"downloaded", "extracted", "extractFailed", "passwordFailed"} = {}
         /\ w.to \in {"unpacked", "warn", "partial", "sent", "recorded"} =>
              /\ w.from \in {"unpacked", "warn", "partial", "sent", "recorded"}
              /\ "deleted" \notin w.what
         /\ "deleted" \in w.what => w.from = "recorded"
  BY DEF Writes, Write, Event, Record

\* What a committed transaction does to the counters of its own bucket.
LEMMA CommitCounts ==
  ASSUME TypeOK, NEW b \in Buckets, NEW w \in Writes, Commit(b, w), NEW c \in Counters
  PROVE  stats'[b][c] = IF c \in w.what THEN stats[b][c] + 1 ELSE stats[b][c]
<1>1. CASE w.what = Event
  <2>1. "event" \notin Counters
    BY DEF Counters
  <2>2. c \notin w.what
    BY <1>1, <2>1 DEF Event
  <2> QED BY <1>1, <2>2 DEF Commit
<1>2. CASE w.what # Event
  BY <1>2 DEF Commit, TypeOK
<1> QED BY <1>1, <1>2

\* A committed transaction keeps the balance of its bucket.
LEMMA CommitBalances ==
  ASSUME TypeOK, NEW b \in Buckets, NEW w \in Writes, Commit(b, w), Balance(b)
  PROVE  Balance(b)'
<1> DEFINE n(c) == stats[b][c]
           m(c) == stats'[b][c]
<1>1. \A c \in Counters : n(c) \in Nat /\ m(c) = IF c \in w.what THEN n(c) + 1 ELSE n(c)
  BY CommitCounts DEF TypeOK
<1>2. /\ {"downloaded", "extracted", "extractFailed", "passwordFailed", "deleted"} \subseteq Counters
  BY DEF Counters
<1>3. stage[b] = w.from /\ stage'[b] = w.to /\ lost'[b] = lost[b] /\ lost[b] \in Nat
  BY DEF Commit, Writing, TypeOK
<1>4. CASE w.to = "fetched"
  <2>1. w.what = {"downloaded"} /\ w.from = "idle"
    BY <1>4, WritesTake
  <2>2. /\ stats'[b]["downloaded"] = stats[b]["downloaded"] + 1
        /\ stats'[b]["extracted"] = stats[b]["extracted"]
        /\ stats'[b]["extractFailed"] = stats[b]["extractFailed"]
        /\ stats'[b]["passwordFailed"] = stats[b]["passwordFailed"]
        /\ stats'[b]["deleted"] = stats[b]["deleted"]
    BY <1>1, <1>2, <2>1
  <2> QED BY <1>1, <1>2, <1>3, <1>4, <2>1, <2>2 DEF Balance, Outcomes, InHand, Deletable
<1>5. CASE w.from = "fetched"
  <2>1. \/ w.what = {"extractFailed"} /\ w.to = "report"
        \/ w.what = {"passwordFailed"} /\ w.to = "report"
        \/ w.what = {"extracted"} /\ w.to = "unpacked"
    BY <1>5, WritesEnd
  <2> QED BY <1>1, <1>2, <1>3, <1>5, <2>1 DEF Balance, Outcomes, InHand, Deletable
<1>6. CASE w.from # "fetched" /\ w.to # "fetched"
  <2>1. /\ stats'[b]["downloaded"] = stats[b]["downloaded"]
        /\ stats'[b]["extracted"] = stats[b]["extracted"]
        /\ stats'[b]["extractFailed"] = stats[b]["extractFailed"]
        /\ stats'[b]["passwordFailed"] = stats[b]["passwordFailed"]
    BY <1>1, <1>2, <1>6, WritesElse
  <2>2. stats'[b]["deleted"] + Deletable(b)' <= stats[b]["deleted"] + Deletable(b)
    BY <1>1, <1>2, <1>3, <1>6, WritesElse DEF Deletable
  <2> QED BY <1>1, <1>2, <1>3, <1>6, <2>1, <2>2 DEF Balance, Outcomes, InHand, Deletable
<1> QED BY <1>4, <1>5, <1>6

\* So does one that is dropped, which counts as lost.
LEMMA DropBalances ==
  ASSUME TypeOK, NEW b \in Buckets, NEW w \in Writes, Drop(b, w), Balance(b)
  PROVE  Balance(b)'
<1>1. stats' = stats /\ stage[b] = w.from /\ stage'[b] = w.to
  BY DEF Drop, Writing, TypeOK
<1>2. lost[b] \in Nat /\ lost'[b] = IF w.what \in {Event, Record} THEN lost[b] ELSE lost[b] + 1
  BY DEF Drop, TypeOK
<1>3. \A c \in Counters : stats[b][c] \in Nat
  BY DEF TypeOK
<1>4. {"downloaded", "extracted", "extractFailed", "passwordFailed", "deleted"} \subseteq Counters
  BY DEF Counters
<1>5. CASE w.to = "fetched" \/ w.from = "fetched"
  <2>1. w.what \notin {Event, Record}
    BY <1>5, WritesTake, WritesEnd DEF Event, Record
  <2>2. lost'[b] = lost[b] + 1
    BY <1>2, <2>1
  <2> QED BY <1>1, <1>2, <1>3, <1>4, <1>5, <2>2, WritesTake, WritesEnd
          DEF Balance, Outcomes, InHand, Deletable
<1>6. CASE w.from # "fetched" /\ w.to # "fetched"
  <2>1. lost'[b] >= lost[b] /\ lost'[b] \in Nat
    BY <1>2
  <2>2. Deletable(b)' <= Deletable(b)
    BY <1>1, <1>6, WritesElse DEF Deletable
  <2> QED BY <1>1, <1>2, <1>3, <1>4, <1>6, <2>1, <2>2 DEF Balance, Outcomes, InHand, Deletable
<1> QED BY <1>5, <1>6

\* A transaction of one bucket leaves the counters of the others alone.
LEMMA OthersKeep ==
  ASSUME TypeOK, NEW b \in Buckets, NEW w \in Writes, Commit(b, w) \/ Drop(b, w),
         NEW x \in Buckets, x # b, Balance(x)
  PROVE  Balance(x)'
<1>1. stage'[x] = stage[x] /\ lost'[x] = lost[x]
  BY DEF Commit, Drop, Writing, TypeOK
<1>2. stats'[x] = stats[x]
  BY DEF Commit, Drop, TypeOK
<1> QED BY <1>1, <1>2 DEF Balance, Outcomes, InHand, Deletable

\* A new process has nothing in hand; what was, is lost.
LEMMA OpenBalances ==
  ASSUME TypeOK, NEW n \in EventLogs, Open(n), NEW b \in Buckets, Balance(b)
  PROVE  Balance(b)'
<1>1. stats' = stats /\ stage'[b] = "idle"
  BY DEF Open
<1>2. lost[b] \in Nat /\ lost'[b] = IF stage[b] = "fetched" THEN lost[b] + 1 ELSE lost[b]
  BY DEF Open, TypeOK
<1>3. \A c \in Counters : stats[b][c] \in Nat
  BY DEF TypeOK
<1>4. {"downloaded", "extracted", "extractFailed", "passwordFailed", "deleted"} \subseteq Counters
  BY DEF Counters
<1> QED BY <1>1, <1>2, <1>3, <1>4 DEF Balance, Outcomes, InHand, Deletable

\* However the pollers' transactions interleave, fail or are cut off by a
\* crash, UpdateStats leaves totals that differ by no more than was lost.
THEOREM CountersAlwaysAgree == Spec => []CountersAgree
<1> DEFINE IInv == \A b \in Buckets : Balance(b)
<1>1. Init => IInv
  BY DEF Init, Balance, Outcomes, InHand, Deletable, Counters
<1>2. TypeOK /\ IInv /\ [Next]_vars => IInv'
  <2> SUFFICES ASSUME TypeOK, IInv, [Next]_vars, NEW x \in Buckets PROVE Balance(x)'
    OBVIOUS
  <2>1. CASE UNCHANGED vars
    BY <2>1 DEF vars, Balance, Outcomes, InHand, Deletable
  <2>2. CASE Close
    BY <2>2 DEF Close, Balance, Outcomes, InHand, Deletable
  <2>3. ASSUME NEW b \in Buckets, NEW w \in Writes, Commit(b, w) \/ Drop(b, w) PROVE Balance(x)'
    BY <2>3, CommitBalances, DropBalances, OthersKeep
  <2> QED BY <2>1, <2>2, <2>3, OpenBalances DEF Next
<1>3. TypeOK /\ IInv => CountersAgree
  <2> SUFFICES ASSUME TypeOK, IInv, NEW b \in Buckets
               PROVE  stats[b]["deleted"] <= stats[b]["extracted"] + lost[b]
    BY DEF CountersAgree, Balance
  <2>1. stats[b]["deleted"] \in Nat /\ stats[b]["extracted"] \in Nat /\ lost[b] \in Nat
    BY DEF TypeOK, Counters
  <2> QED BY <2>1 DEF Balance, Deletable
<1> HIDE DEF IInv
<1> QED BY <1>1, <1>2, <1>3, StoreTypeCorrect, PTL DEF Spec
=============================================================================
