------------------------------ MODULE Delivery ------------------------------
(***************************************************************************)
(* What the relocator promises, without pollers, files, retries or         *)
(* crashes: archives arrive in source buckets, each file of an archive is  *)
(* handed to the ingest service at least once, an archive may be recorded  *)
(* as done, or leave its source, only after all its files were handed      *)
(* over.                                                                   *)
(***************************************************************************)
EXTENDS Naturals

CONSTANTS Buckets,     \* configured source buckets
          Keys,        \* object keys
          Versions,    \* contents an object may have, each with its own etag
          None,        \* absent object, absent record
          FileCount,   \* JSON files inside the archive of each content
          Readable     \* contents that can be extracted

VARIABLES source,      \* source[b][k]: content of object k of bucket b
          delivered,   \* files <<b, k, v, i>> the ingest service accepted
          recorded     \* recorded[b][k]: content recorded as done

vars == <<source, delivered, recorded>>

AllDelivered(b, k, v) == \A i \in 1..FileCount[v] : <<b, k, v, i>> \in delivered

Init == /\ source = [b \in Buckets |-> [k \in Keys |-> None]]
        /\ delivered = {}
        /\ recorded = [b \in Buckets |-> [k \in Keys |-> None]]

\* A producer stores an archive under a free key.
Arrive(b, k, v) == /\ source[b][k] = None
                   /\ source' = [source EXCEPT ![b][k] = v]
                   /\ UNCHANGED <<delivered, recorded>>

\* The ingest service accepts file i of the archive now in the source.
Deliver(b, k, i) == LET v == source[b][k] IN
                    /\ v \in Readable
                    /\ i \in 1..FileCount[v]
                    /\ delivered' = delivered \cup {<<b, k, v, i>>}
                    /\ UNCHANGED <<source, recorded>>

\* The archive is remembered as done, which exempts it from further passes.
Record(b, k) == LET v == source[b][k] IN
                /\ v \in Readable
                /\ AllDelivered(b, k, v)
                /\ recorded' = [recorded EXCEPT ![b][k] = v]
                /\ UNCHANGED <<source, delivered>>

\* A pass that failed replaces the record of an earlier content.
Forget(b, k) == /\ recorded' = [recorded EXCEPT ![b][k] = None]
                /\ UNCHANGED <<source, delivered>>

\* The archive leaves its source.
Take(b, k) == LET v == source[b][k] IN
              /\ v \in Readable
              /\ AllDelivered(b, k, v)
              /\ source' = [source EXCEPT ![b][k] = None]
              /\ UNCHANGED <<delivered, recorded>>

Next == \E b \in Buckets, k \in Keys :
           \/ \E v \in Versions : Arrive(b, k, v) \/ \E i \in 1..FileCount[v] : Deliver(b, k, i)
           \/ Record(b, k)
           \/ Forget(b, k)
           \/ Take(b, k)

Spec == Init /\ [][Next]_vars
=============================================================================
