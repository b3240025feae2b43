----------------------------- MODULE MCRelocator ----------------------------
(* Instances of Relocator for TLC. *)
EXTENDS Relocator

CONSTANTS b1, b2, k1, k2, v1, v2, bad, big

\* Two buckets, one with delete_after; v1 holds one file, v2 two.
MCFileCount   == [v \in Versions |-> IF v = v1 THEN 1 ELSE 2]
MCReadable    == Versions \ {bad}
MCMatching    == [b \in Buckets |-> Keys]
MCDeleteAfter == [b \in Buckets |-> b = b1]
\* The path of an object names its bucket and its key.
MCWorkPath    == [b \in Buckets |-> [k \in Keys |-> <<b, k>>]]
\* Bucket "a" with key "b-c.zip" and bucket "a-b" with key "c.zip" have the
\* same work file "a-b-c.zip": sanitizeFileName(name + "-" + key).
MCSharedWorkPath == [b \in Buckets |-> [k \in Keys |-> k]]
=============================================================================
