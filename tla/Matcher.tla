------------------------------- MODULE Matcher ------------------------------
(***************************************************************************)
(* The matcher of the dns subcommand (cmd/dns, matcher.go): rules from all *)
(* rulesets, kept in a trie of domain suffixes, a map of full names, and   *)
(* the lists of keywords and regular expressions, decide what is done with *)
(* a name.                                                                 *)
(*                                                                         *)
(* A name is the sequence of its labels, last label first, as the trie     *)
(* reads it; Decision is what the stored rules say without any of these    *)
(* structures.                                                             *)
(***************************************************************************)
EXTENDS Naturals, Sequences

CONSTANTS
  Labels,       \* labels of names
  Names,        \* names that are asked for
  Patterns,     \* keywords and regular expressions
  Hits,         \* Hits[p]: names that contain keyword p, or match regex p
  Uncompiled    \* patterns regexp.Compile rejects

ASSUME MatcherAssumption ==
  /\ Names \subseteq Seq(Labels)
  /\ Hits \in [Patterns -> SUBSET Names]
  /\ Uncompiled \subseteq Patterns

Actions == {"direct", "fakeip", "block"}

\* Rules that applyRuleset lets through: the name or the pattern is not empty.
Rules == [kind : {"suffix", "full"}, value : Seq(Labels) \ {<<>>}, action : Actions]
           \cup [kind : {"keyword", "regex"}, value : Patterns, action : Actions]

\* actionRank
Rank(a) == [none |-> 0, direct |-> 1, fakeip |-> 2, block |-> 3][a]

\* The action in S that wins, "none" when there is none.
Highest(S) == CHOOSE a \in S \cup {"none"} : \A b \in S : Rank(b) <= Rank(a)

\* A map of actions that has no entry for most of its keys.
At(f, x) == IF x \in DOMAIN f THEN f[x] ELSE "none"

\* The suffixes of a name: the paths to its ancestors in the trie, and its own.
Suffixes(d) == {SubSeq(d, 1, i) : i \in 1..Len(d)}

NewMatcher == [nodes    |-> [p \in {} |-> "none"],
               full     |-> [p \in {} |-> "none"],
               keywords |-> {},
               regexps  |-> {}]

\* The rule replaces what is stored only if its action outranks it.
Raised(f, x, a) == IF Rank(a) > Rank(At(f, x)) THEN a ELSE At(f, x)

\* Variant: the last rule of a name wins.
AddSuffix_LastWins(m, r) ==
  [m EXCEPT !.nodes = [p \in DOMAIN m.nodes \cup Suffixes(r.value) |->
                         IF p = r.value THEN r.action ELSE At(m.nodes, p)]]

\* A node for every suffix of the value; the last one holds the action.
AddSuffix(m, r) ==
  [m EXCEPT !.nodes = [p \in DOMAIN m.nodes \cup Suffixes(r.value) |->
                         IF p = r.value THEN Raised(m.nodes, p, r.action) ELSE At(m.nodes, p)]]

AddFull(m, r) ==
  [m EXCEPT !.full = [p \in DOMAIN m.full \cup {r.value} |->
                        IF p = r.value THEN Raised(m.full, p, r.action) ELSE m.full[p]]]

AddKeyword(m, r) == [m EXCEPT !.keywords = @ \cup {r}]

AddRegex(m, r) == IF r.value \in Uncompiled THEN m ELSE [m EXCEPT !.regexps = @ \cup {r}]

\* addRule
Add(m, r) == CASE r.kind = "suffix"  -> AddSuffix(m, r)
               [] r.kind = "full"    -> AddFull(m, r)
               [] r.kind = "keyword" -> AddKeyword(m, r)
               [] r.kind = "regex"   -> AddRegex(m, r)

\* lookupSuffix descends until a label has no child.
Visited(m, d) ==
  {SubSeq(d, 1, i) : i \in {i \in 1..Len(d) : \A j \in 1..i : SubSeq(d, 1, j) \in DOMAIN m.nodes}}

LookupSuffix(m, d) == {m.nodes[p] : p \in Visited(m, d)}

Lookup(m, d) ==
  Highest({At(m.full, d)} \cup LookupSuffix(m, d)
            \cup {r.action : r \in {r \in m.keywords \cup m.regexps : d \in Hits[r.value]}})

---------------------------------------------------------------------------
(* The reference *)

Matches(r, d) == CASE r.kind = "suffix"  -> r.value \in Suffixes(d)
                   [] r.kind = "full"    -> r.value = d
                   [] r.kind = "keyword" -> d \in Hits[r.value]
                   [] r.kind = "regex"   -> r.value \notin Uncompiled /\ d \in Hits[r.value]

\* block > fakeip > direct > upstream, whichever rules match.
Decision(R, d) == Highest({r.action : r \in {r \in R : Matches(r, d)}})

\* m answers for the rules R.
AnswersFor(m, R) == \A d \in Names : Lookup(m, d) = Decision(R, d)
=============================================================================
