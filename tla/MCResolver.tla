----------------------------- MODULE MCResolver -----------------------------
(* An instance of Resolver for TLC: two queries at a time, two upstreams, a  *)
(* cache of two entries, and an IPv4 range of four addresses.                *)
EXTENDS Resolver

CONSTANTS h1, h2, k1, k2, k3, u1, u2

\* An answer of one second with an OPT record that asks for DNSSEC, and an
\* NXDOMAIN without records.
MCAnswers == {[rcode |-> "success",  ttl |-> 1, opt |-> 2],
              [rcode |-> "nxdomain", ttl |-> 3, opt |-> 3]}

\* An answer without records, and its OPT record asks for DNSSEC.
MCBareAnswers == {[rcode |-> "success", ttl |-> 3, opt |-> 2]}

\* The first matcher has no rules; the next blocks k1 and fakes the others.
MCMatchers == {[k \in Keys |-> IF k = k1 THEN "block" ELSE "fakeip"]}

\* k3 is no query for an address; the names hash to the size of the range.
MCType == [k \in Keys |-> IF k = k3 THEN "other" ELSE "A"]
MCHash == [k \in Keys |-> 4]
MCV4   == [base |-> 8, size |-> 4, space |-> 16]
=============================================================================
