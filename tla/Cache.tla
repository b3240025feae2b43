-------------------------------- MODULE Cache -------------------------------
(***************************************************************************)
(* What the cache of answers promises, without a linked list, locks or a   *)
(* clock: a map with room for Capacity entries that may forget an entry    *)
(* at any time, but gives way to a new one only when it is full, and then  *)
(* gives up the entry that was not used for the longest time.              *)
(***************************************************************************)
EXTENDS Naturals, FiniteSets

CONSTANTS Keys,       \* keys of entries
          Entries,    \* what may be stored
          Capacity    \* how many entries there may be

VARIABLES entries,    \* entries[k]: what is stored under k
          older       \* pairs <<j, k>>: j was used before k

vars == <<entries, older>>

Present == DOMAIN entries

\* The order of use among the other entries.
Others(k) == {p \in older : p[1] # k /\ p[2] # k}

\* The order of use once k was used after all of J.
UsedLast(k, J) == Others(k) \cup {<<j, k>> : j \in J \ {k}}

Oldest(k) == k \in Present /\ \A j \in Present \ {k} : <<k, j>> \in older

\* k holds some content, and of the other entries those of K are left.
Holding(k, K) == /\ DOMAIN entries' = K \cup {k}
                 /\ entries'[k] \in Entries
                 /\ \A x \in K \ {k} : entries'[x] = entries[x]

Init == /\ entries = [k \in {} |-> k]
        /\ older = {}

\* An entry is read, which makes it the last one used.
Use(k) == /\ k \in Present
          /\ older' = UsedLast(k, Present)
          /\ UNCHANGED entries

\* An entry is dropped, if there is one.
Forget(k) == /\ entries' = [x \in Present \ {k} |-> entries[x]]
             /\ older' = Others(k)

\* An entry is replaced, or there is room for a new one.
Store(k) == /\ k \in Present \/ Cardinality(Present) < Capacity
            /\ Holding(k, Present)
            /\ older' = UsedLast(k, Present)

\* There is no room: the oldest entry makes way for the new one.
StoreFor(k, o) == /\ k \notin Present
                  /\ Cardinality(Present) = Capacity
                  /\ Oldest(o)
                  /\ Holding(k, Present \ {o})
                  /\ older' = {p \in UsedLast(k, Present) : p[1] # o /\ p[2] # o}

Put(k) == Store(k) \/ \E o \in Keys : StoreFor(k, o)

Next == \E k \in Keys : Use(k) \/ Forget(k) \/ Put(k)

Spec == Init /\ [][Next]_vars
=============================================================================
