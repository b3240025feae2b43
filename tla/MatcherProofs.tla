---------------------------- MODULE MatcherProofs ---------------------------
(***************************************************************************)
(* The matcher answers as its rules say, in whatever order they were       *)
(* added.                                                                  *)
(*                                                                         *)
(* Represents says what the structures hold for a set of rules; adding a   *)
(* rule keeps it (AddRepresents), and Lookup on a matcher that represents  *)
(* R is Decision(R, .) (LookupDecides).  So a matcher built of two sets    *)
(* answers the higher of what the matchers of each answer, and a rule that *)
(* is added only raises what it matches.                                   *)
(***************************************************************************)
EXTENDS Matcher, TLAPS

\* Actions of the rules of kind k for x.
ActionsOf(R, k, x) == {r.action : r \in {r \in R : r.kind = k /\ r.value = x}}

Represents(m, R) ==
  /\ m = [nodes |-> m.nodes, full |-> m.full, keywords |-> m.keywords, regexps |-> m.regexps]
  /\ m.nodes = [p \in DOMAIN m.nodes |-> m.nodes[p]]
  /\ m.full = [p \in DOMAIN m.full |-> m.full[p]]
  /\ \A r \in R : r.kind = "suffix" => Suffixes(r.value) \subseteq DOMAIN m.nodes
  /\ \A p : At(m.nodes, p) = Highest(ActionsOf(R, "suffix", p))
  /\ \A p : At(m.full, p) = Highest(ActionsOf(R, "full", p))
  /\ m.keywords = {r \in R : r.kind = "keyword"}
  /\ m.regexps = {r \in R : r.kind = "regex" /\ r.value \notin Uncompiled}

---------------------------------------------------------------------------
(* The highest action *)

\* The four ranks differ, so an action is determined by its rank.
LEMMA RankInjective ==
  ASSUME NEW a \in Actions \cup {"none"}, NEW b \in Actions \cup {"none"}
  PROVE  /\ Rank(a) \in 0..3
         /\ Rank(a) = Rank(b) => a = b
  BY DEF Actions, Rank

\* Highest(S) is a member of S, or "none", that no member outranks.
LEMMA HighestIsHighest ==
  ASSUME NEW S \in SUBSET (Actions \cup {"none"})
  PROVE  /\ Highest(S) \in S \cup {"none"}
         /\ \A b \in S : Rank(b) <= Rank(Highest(S))
<1> DEFINE Best(a) == a \in S \cup {"none"} /\ \A b \in S : Rank(b) <= Rank(a)
<1>1. \E a \in S \cup {"none"} : \A b \in S : Rank(b) <= Rank(a)
  <2>1. CASE "block" \in S
    BY <2>1 DEF Actions, Rank
  <2>2. CASE "block" \notin S /\ "fakeip" \in S
    BY <2>2 DEF Actions, Rank
  <2>3. CASE "block" \notin S /\ "fakeip" \notin S /\ "direct" \in S
    BY <2>3 DEF Actions, Rank
  <2>4. CASE "block" \notin S /\ "fakeip" \notin S /\ "direct" \notin S
    <3>1. S \subseteq {"none"}
      BY <2>4 DEF Actions
    <3> QED BY <3>1 DEF Rank
  <2> QED BY <2>1, <2>2, <2>3, <2>4
<1> QED BY <1>1 DEF Highest

\* There is only one such action.
LEMMA HighestUnique ==
  ASSUME NEW S \in SUBSET (Actions \cup {"none"}), NEW a \in S \cup {"none"},
         \A b \in S : Rank(b) <= Rank(a)
  PROVE  a = Highest(S)
<1>1. /\ Highest(S) \in S \cup {"none"}
      /\ \A b \in S : Rank(b) <= Rank(Highest(S))
  BY HighestIsHighest
<1>2. Rank("none") = 0
  BY DEF Rank
<1>3. a \in Actions \cup {"none"} /\ Highest(S) \in Actions \cup {"none"}
  BY <1>1
<1>4. Rank(a) \in 0..3 /\ Rank(Highest(S)) \in 0..3
  BY <1>3, RankInjective
<1>5. Rank(a) = Rank(Highest(S))
  BY <1>1, <1>2, <1>4
<1> QED BY <1>3, <1>5, RankInjective

---------------------------------------------------------------------------
(* Adding rules *)

\* A stored action that is raised by a is the highest of all actions so far.
LEMMA RaisedIsHighest ==
  ASSUME NEW S \in SUBSET Actions, NEW a \in Actions, NEW f, NEW x, At(f, x) = Highest(S)
  PROVE  Raised(f, x, a) = Highest(S \cup {a})
<1>1. /\ Highest(S) \in S \cup {"none"}
      /\ \A b \in S : Rank(b) <= Rank(Highest(S))
  BY HighestIsHighest
<1>2. Raised(f, x, a) \in (S \cup {a}) \cup {"none"}
  BY <1>1 DEF Raised
<1>3. ASSUME NEW b \in S \cup {a} PROVE Rank(b) <= Rank(Raised(f, x, a))
  <2>1. /\ Rank(a) \in 0..3 /\ Rank(b) \in 0..3 /\ Rank(Highest(S)) \in 0..3
    BY <1>1, RankInjective
  <2> QED BY <1>1, <2>1 DEF Raised
<1> QED BY <1>2, <1>3, HighestUnique

\* Rules carry known actions.
LEMMA ActionsKnown ==
  ASSUME NEW R \in SUBSET Rules, NEW k, NEW x
  PROVE  ActionsOf(R, k, x) \in SUBSET Actions
  BY DEF ActionsOf, Rules

\* No rules, no answers.
LEMMA NewRepresents == Represents(NewMatcher, {})
<1>1. \A k, x : ActionsOf({}, k, x) = {}
  BY DEF ActionsOf
<1>2. Highest({}) = "none"
  BY HighestIsHighest
<1>3. \A p : At([x \in {} |-> "none"], p) = "none"
  BY DEF At
<1> QED BY <1>1, <1>2, <1>3 DEF Represents, NewMatcher

\* A suffix rule adds the path to its node and raises the action there.
LEMMA AddSuffixRepresents ==
  ASSUME NEW R \in SUBSET Rules, NEW m, Represents(m, R), NEW r \in Rules, r.kind = "suffix"
  PROVE  Represents(AddSuffix(m, r), R \cup {r})
<1> DEFINE n == AddSuffix(m, r)
           D == DOMAIN m.nodes \cup Suffixes(r.value)
<1>1. /\ r.action \in Actions
      /\ r.value \in Seq(Labels)
      /\ r.value # <<>>
  BY DEF Rules
<1>2. /\ n.nodes = [p \in D |-> IF p = r.value THEN Raised(m.nodes, p, r.action) ELSE At(m.nodes, p)]
      /\ n.full = m.full
      /\ n.keywords = m.keywords
      /\ n.regexps = m.regexps
      /\ n = [nodes |-> n.nodes, full |-> n.full, keywords |-> n.keywords, regexps |-> n.regexps]
  BY DEF AddSuffix, Represents
<1>3. r.value \in Suffixes(r.value)
  <2>1. Len(r.value) \in 1..Len(r.value) /\ r.value = SubSeq(r.value, 1, Len(r.value))
    BY <1>1
  <2> QED BY <2>1 DEF Suffixes
<1>4. ASSUME NEW p PROVE At(n.nodes, p) = Highest(ActionsOf(R \cup {r}, "suffix", p))
  <2>1. At(m.nodes, p) = Highest(ActionsOf(R, "suffix", p))
    BY DEF Represents
  <2>2. CASE p = r.value
    <3>1. At(n.nodes, p) = Raised(m.nodes, p, r.action)
      BY <1>2, <1>3, <2>2 DEF At
    <3>2. Raised(m.nodes, p, r.action) = Highest(ActionsOf(R, "suffix", p) \cup {r.action})
      BY <1>1, <2>1, ActionsKnown, RaisedIsHighest
    <3>3. ActionsOf(R \cup {r}, "suffix", p) = ActionsOf(R, "suffix", p) \cup {r.action}
      BY <2>2 DEF ActionsOf
    <3> QED BY <3>1, <3>2, <3>3
  <2>3. CASE p # r.value
    <3>1. At(n.nodes, p) = At(m.nodes, p)
      BY <1>2, <2>3 DEF At
    <3>2. ActionsOf(R \cup {r}, "suffix", p) = ActionsOf(R, "suffix", p)
      BY <2>3 DEF ActionsOf
    <3> QED BY <2>1, <3>1, <3>2
  <2> QED BY <2>2, <2>3
<1>5. ASSUME NEW p PROVE ActionsOf(R \cup {r}, "full", p) = ActionsOf(R, "full", p)
  BY DEF ActionsOf
<1>6. \A s \in R \cup {r} : s.kind = "suffix" => Suffixes(s.value) \subseteq DOMAIN n.nodes
  BY <1>2 DEF Represents
<1>7. n.nodes = [p \in DOMAIN n.nodes |-> n.nodes[p]]
  BY <1>2
<1> QED BY <1>2, <1>4, <1>5, <1>6, <1>7 DEF Represents

\* A full rule raises the action of its name.
LEMMA AddFullRepresents ==
  ASSUME NEW R \in SUBSET Rules, NEW m, Represents(m, R), NEW r \in Rules, r.kind = "full"
  PROVE  Represents(AddFull(m, r), R \cup {r})
<1> DEFINE n == AddFull(m, r)
           D == DOMAIN m.full \cup {r.value}
<1>1. r.action \in Actions
  BY DEF Rules
<1>2. /\ n.full = [p \in D |-> IF p = r.value THEN Raised(m.full, p, r.action) ELSE m.full[p]]
      /\ n.nodes = m.nodes
      /\ n.keywords = m.keywords
      /\ n.regexps = m.regexps
      /\ n = [nodes |-> n.nodes, full |-> n.full, keywords |-> n.keywords, regexps |-> n.regexps]
  BY DEF AddFull, Represents
<1>3. ASSUME NEW p PROVE At(n.full, p) = Highest(ActionsOf(R \cup {r}, "full", p))
  <2>1. At(m.full, p) = Highest(ActionsOf(R, "full", p))
    BY DEF Represents
  <2>2. CASE p = r.value
    <3>1. At(n.full, p) = Raised(m.full, p, r.action)
      BY <1>2, <2>2 DEF At
    <3>2. Raised(m.full, p, r.action) = Highest(ActionsOf(R, "full", p) \cup {r.action})
      BY <1>1, <2>1, ActionsKnown, RaisedIsHighest
    <3>3. ActionsOf(R \cup {r}, "full", p) = ActionsOf(R, "full", p) \cup {r.action}
      BY <2>2 DEF ActionsOf
    <3> QED BY <3>1, <3>2, <3>3
  <2>3. CASE p # r.value
    <3>1. At(n.full, p) = At(m.full, p)
      BY <1>2, <2>3 DEF At
    <3>2. ActionsOf(R \cup {r}, "full", p) = ActionsOf(R, "full", p)
      BY <2>3 DEF ActionsOf
    <3> QED BY <2>1, <3>1, <3>2
  <2> QED BY <2>2, <2>3
<1>4. ASSUME NEW p PROVE ActionsOf(R \cup {r}, "suffix", p) = ActionsOf(R, "suffix", p)
  BY DEF ActionsOf
<1>5. \A s \in R \cup {r} : s.kind = "suffix" => Suffixes(s.value) \subseteq DOMAIN n.nodes
  BY <1>2 DEF Represents
<1> QED BY <1>2, <1>3, <1>4, <1>5 DEF Represents

\* A keyword or a regex is kept as it is, unless it does not compile.
LEMMA AddPatternRepresents ==
  ASSUME NEW R \in SUBSET Rules, NEW m, Represents(m, R), NEW r \in Rules, r.kind \in {"keyword", "regex"}
  PROVE  Represents(Add(m, r), R \cup {r})
<1> DEFINE n == Add(m, r)
<1>1. \A p : /\ ActionsOf(R \cup {r}, "suffix", p) = ActionsOf(R, "suffix", p)
            /\ ActionsOf(R \cup {r}, "full", p) = ActionsOf(R, "full", p)
  BY DEF ActionsOf
<1>2. m = [nodes |-> m.nodes, full |-> m.full, keywords |-> m.keywords, regexps |-> m.regexps]
  BY DEF Represents
<1>3. CASE r.kind = "keyword"
  <2>1. n = [m EXCEPT !.keywords = m.keywords \cup {r}]
    BY <1>3 DEF Add, AddKeyword
  <2>2. n = [nodes |-> m.nodes, full |-> m.full, keywords |-> m.keywords \cup {r}, regexps |-> m.regexps]
    BY <1>2, <2>1
  <2>3. n.keywords = {s \in R \cup {r} : s.kind = "keyword"}
    BY <1>3, <2>2 DEF Represents
  <2>4. n.regexps = {s \in R \cup {r} : s.kind = "regex" /\ s.value \notin Uncompiled}
    BY <1>3, <2>2 DEF Represents
  <2>5. \A s \in R \cup {r} : s.kind = "suffix" => Suffixes(s.value) \subseteq DOMAIN n.nodes
    BY <1>3, <2>2 DEF Represents
  <2> QED BY <1>1, <2>2, <2>3, <2>4, <2>5 DEF Represents
<1>4. CASE r.kind = "regex"
  <2>1. n = IF r.value \in Uncompiled THEN m ELSE [m EXCEPT !.regexps = m.regexps \cup {r}]
    BY <1>4 DEF Add, AddRegex
  <2>2. n = [nodes |-> m.nodes, full |-> m.full, keywords |-> m.keywords,
             regexps |-> IF r.value \in Uncompiled THEN m.regexps ELSE m.regexps \cup {r}]
    BY <1>2, <2>1
  <2>3. n.keywords = {s \in R \cup {r} : s.kind = "keyword"}
    BY <1>4, <2>2 DEF Represents
  <2>4. n.regexps = {s \in R \cup {r} : s.kind = "regex" /\ s.value \notin Uncompiled}
    BY <1>4, <2>2 DEF Represents
  <2>5. \A s \in R \cup {r} : s.kind = "suffix" => Suffixes(s.value) \subseteq DOMAIN n.nodes
    BY <1>4, <2>2 DEF Represents
  <2>6. n.nodes = m.nodes /\ n.full = m.full
    BY <2>2
  <2>7. \A p : /\ At(n.nodes, p) = Highest(ActionsOf(R \cup {r}, "suffix", p))
              /\ At(n.full, p) = Highest(ActionsOf(R \cup {r}, "full", p))
    BY <1>1, <2>6 DEF Represents
  <2>8. /\ n = [nodes |-> n.nodes, full |-> n.full, keywords |-> n.keywords, regexps |-> n.regexps]
        /\ n.nodes = [p \in DOMAIN n.nodes |-> n.nodes[p]]
        /\ n.full = [p \in DOMAIN n.full |-> n.full[p]]
    BY <2>2, <2>6 DEF Represents
  <2> QED BY <2>3, <2>4, <2>5, <2>7, <2>8 DEF Represents
<1> QED BY <1>3, <1>4

\* Adding a rule of any kind: what the matcher holds grows by that rule.
LEMMA AddRepresents ==
  ASSUME NEW R \in SUBSET Rules, NEW m, Represents(m, R), NEW r \in Rules
  PROVE  Represents(Add(m, r), R \cup {r})
<1>1. r.kind \in {"suffix", "full", "keyword", "regex"}
  BY DEF Rules
<1>2. CASE r.kind = "suffix"
  BY <1>2, AddSuffixRepresents DEF Add
<1>3. CASE r.kind = "full"
  BY <1>3, AddFullRepresents DEF Add
<1>4. CASE r.kind \in {"keyword", "regex"}
  BY <1>4, AddPatternRepresents
<1> QED BY <1>1, <1>2, <1>3, <1>4

---------------------------------------------------------------------------
(* Looking up *)

\* The nodes on the path of d that the descent reaches are the suffixes of d
\* that are in the trie with all their ancestors.
LEMMA VisitedSuffixes ==
  ASSUME NEW m, NEW d \in Seq(Labels), NEW v \in Seq(Labels),
         v \in Suffixes(d), Suffixes(v) \subseteq DOMAIN m.nodes
  PROVE  v \in Visited(m, d)
<1>1. PICK i \in 1..Len(d) : v = SubSeq(d, 1, i)
  BY DEF Suffixes
<1>2. Len(v) = i
  BY <1>1
<1>3. ASSUME NEW j \in 1..i PROVE SubSeq(d, 1, j) \in DOMAIN m.nodes
  <2>1. SubSeq(v, 1, j) = SubSeq(d, 1, j)
    BY <1>1
  <2>2. SubSeq(v, 1, j) \in Suffixes(v)
    BY <1>2, <1>3 DEF Suffixes
  <2> QED BY <2>1, <2>2
<1> QED BY <1>1, <1>3 DEF Visited

\* What the descent reaches is in the trie.
LEMMA VisitedInTrie ==
  ASSUME NEW m, NEW d \in Seq(Labels), NEW p \in Visited(m, d)
  PROVE  p \in Suffixes(d) /\ p \in DOMAIN m.nodes
<1>1. PICK i \in 1..Len(d) : p = SubSeq(d, 1, i) /\ \A j \in 1..i : SubSeq(d, 1, j) \in DOMAIN m.nodes
  BY DEF Visited
<1>2. i \in 1..i
  OBVIOUS
<1> QED BY <1>1, <1>2 DEF Suffixes

\* A matcher that represents R answers every name as R says.
LEMMA LookupDecides ==
  ASSUME NEW R \in SUBSET Rules, NEW m, Represents(m, R), NEW d \in Names
  PROVE  Lookup(m, d) = Decision(R, d)
<1> DEFINE Hit == {r.action : r \in {r \in m.keywords \cup m.regexps : d \in Hits[r.value]}}
           L   == {At(m.full, d)} \cup LookupSuffix(m, d) \cup Hit
           D   == {r.action : r \in {r \in R : Matches(r, d)}}
<1>1. d \in Seq(Labels)
  BY MatcherAssumption
<1>2. D \in SUBSET Actions
  BY DEF Rules
<1>3. \A k, x : Highest(ActionsOf(R, k, x)) \in ActionsOf(R, k, x) \cup {"none"}
  BY ActionsKnown, HighestIsHighest
<1>4. ASSUME NEW b \in L PROVE b \in D \cup {"none"}
  <2>1. CASE b = At(m.full, d)
    <3>1. b \in ActionsOf(R, "full", d) \cup {"none"}
      BY <1>3, <2>1 DEF Represents
    <3> QED BY <3>1 DEF ActionsOf, Matches
  <2>2. CASE b \in LookupSuffix(m, d)
    <3>1. PICK p \in Visited(m, d) : b = m.nodes[p]
      BY <2>2 DEF LookupSuffix
    <3>2. p \in Suffixes(d) /\ p \in DOMAIN m.nodes
      BY <1>1, <3>1, VisitedInTrie
    <3>3. b = At(m.nodes, p)
      BY <3>1, <3>2 DEF At
    <3>4. b \in ActionsOf(R, "suffix", p) \cup {"none"}
      BY <1>3, <3>3 DEF Represents
    <3> QED BY <3>2, <3>4 DEF ActionsOf, Matches
  <2>3. CASE b \in Hit
    <3>1. PICK r \in m.keywords \cup m.regexps : d \in Hits[r.value] /\ b = r.action
      BY <2>3
    <3>2. r \in R /\ (r.kind = "keyword" \/ (r.kind = "regex" /\ r.value \notin Uncompiled))
      BY <3>1 DEF Represents
    <3> QED BY <3>1, <3>2 DEF Matches
  <2> QED BY <2>1, <2>2, <2>3
<1>5. ASSUME NEW r \in R, Matches(r, d)
      PROVE  \E b \in L : Rank(r.action) <= Rank(b)
  <2>1. r.action \in Actions /\ r.kind \in {"suffix", "full", "keyword", "regex"}
    BY DEF Rules
  <2>2. \A k, x : r.action \in ActionsOf(R, k, x) => Rank(r.action) <= Rank(Highest(ActionsOf(R, k, x)))
    BY ActionsKnown, HighestIsHighest
  <2>3. CASE r.kind = "full"
    <3>1. r.action \in ActionsOf(R, "full", d)
      BY <1>5, <2>3 DEF ActionsOf, Matches
    <3> QED BY <2>2, <3>1 DEF Represents
  <2>4. CASE r.kind = "suffix"
    <3>1. r.value \in Suffixes(d) /\ r.value \in Seq(Labels)
      BY <1>5, <2>4 DEF Matches, Rules
    <3>2. Suffixes(r.value) \subseteq DOMAIN m.nodes
      BY <2>4 DEF Represents
    <3>3. r.value \in Visited(m, d)
      BY <1>1, <3>1, <3>2, VisitedSuffixes
    <3>4. m.nodes[r.value] \in L
      BY <3>3 DEF LookupSuffix
    <3>5. r.value \in DOMAIN m.nodes
      BY <1>1, <3>3, VisitedInTrie
    <3>6. m.nodes[r.value] = Highest(ActionsOf(R, "suffix", r.value))
      BY <3>5 DEF Represents, At
    <3>7. r.action \in ActionsOf(R, "suffix", r.value)
      BY <2>4 DEF ActionsOf
    <3> QED BY <2>2, <3>4, <3>6, <3>7
  <2>5. CASE r.kind \in {"keyword", "regex"}
    <3>1. r \in m.keywords \cup m.regexps /\ d \in Hits[r.value]
      BY <1>5, <2>5 DEF Matches, Represents
    <3>2. r.action \in L
      BY <3>1
    <3> QED BY <2>1, <3>2, RankInjective
  <2> QED BY <2>1, <2>3, <2>4, <2>5
<1>6. L \in SUBSET (Actions \cup {"none"})
  BY <1>2, <1>4
<1>7. /\ Highest(L) \in L \cup {"none"}
      /\ \A b \in L : Rank(b) <= Rank(Highest(L))
  BY <1>6, HighestIsHighest
<1>8. Highest(L) \in D \cup {"none"}
  BY <1>4, <1>7
<1>9. ASSUME NEW a \in D PROVE Rank(a) <= Rank(Highest(L))
  <2>1. PICK b \in L : Rank(a) <= Rank(b)
    BY <1>5
  <2>2. Rank(a) \in 0..3 /\ Rank(b) \in 0..3 /\ Rank(Highest(L)) \in 0..3
    BY <1>2, <1>6, <1>7, RankInjective
  <2> QED BY <1>7, <2>1, <2>2
<1>10. Highest(L) = Highest(D)
  BY <1>2, <1>8, <1>9, HighestUnique
<1> QED BY <1>10 DEF Lookup, Decision

\* The same for all names: what the rules were and in which order they came
\* makes no difference.
THEOREM MatcherAnswers ==
  ASSUME NEW R \in SUBSET Rules, NEW m, Represents(m, R)
  PROVE  AnswersFor(m, R)
  BY LookupDecides DEF AnswersFor

---------------------------------------------------------------------------
(* Sets of rules combine *)

\* What rules of several origins say is the highest of what each origin says.
LEMMA HighestOfUnion ==
  ASSUME NEW S \in SUBSET Actions, NEW T \in SUBSET Actions
  PROVE  Highest(S \cup T) = Highest({Highest(S), Highest(T)})
<1> DEFINE s == Highest(S)
           t == Highest(T)
           a == Highest({s, t})
<1>1. /\ s \in S \cup {"none"} /\ \A b \in S : Rank(b) <= Rank(s)
      /\ t \in T \cup {"none"} /\ \A b \in T : Rank(b) <= Rank(t)
  BY HighestIsHighest
<1>2. s \in Actions \cup {"none"} /\ t \in Actions \cup {"none"}
  BY <1>1
<1> HIDE DEF s, t
<1>3. /\ a \in {s, t} \cup {"none"}
      /\ Rank(s) <= Rank(a) /\ Rank(t) <= Rank(a)
  BY <1>2, HighestIsHighest
<1> HIDE DEF a
<1>4. a \in (S \cup T) \cup {"none"}
  BY <1>1, <1>3
<1>5. ASSUME NEW b \in S \cup T PROVE Rank(b) <= Rank(a)
  <2>1. Rank(b) <= Rank(s) \/ Rank(b) <= Rank(t)
    BY <1>1
  <2>2. a \in Actions \cup {"none"} /\ b \in Actions \cup {"none"}
    BY <1>4
  <2>3. Rank(a) \in 0..3 /\ Rank(b) \in 0..3 /\ Rank(s) \in 0..3 /\ Rank(t) \in 0..3
    BY <1>2, <2>2, RankInjective
  <2> QED BY <1>3, <2>1, <2>3
<1>6. a = Highest(S \cup T)
  BY <1>4, <1>5, HighestUnique
<1> QED BY <1>6 DEF a, s, t

\* The actions of the rules of R that match d.
Matching(R, d) == {r.action : r \in {r \in R : Matches(r, d)}}

\* What the rules of two sets say about a name is the higher of what each says.
LEMMA DecisionsCombine ==
  ASSUME NEW R \in SUBSET Rules, NEW S \in SUBSET Rules, NEW d
  PROVE  Decision(R \cup S, d) = Highest({Decision(R, d), Decision(S, d)})
<1>1. Matching(R, d) \in SUBSET Actions /\ Matching(S, d) \in SUBSET Actions
  BY DEF Matching, Rules
<1>2. Matching(R \cup S, d) = Matching(R, d) \cup Matching(S, d)
  BY DEF Matching
<1>3. Highest(Matching(R \cup S, d)) = Highest({Highest(Matching(R, d)), Highest(Matching(S, d))})
  BY <1>1, <1>2, HighestOfUnion
<1> QED BY <1>3 DEF Matching, Decision

\* No set of rules can weaken another: Lookup in a matcher that was built of the
\* rules of two sets, added in any order, answers the higher of what it answers
\* in the matchers built of each set alone.
THEOREM MatchersCombine ==
  ASSUME NEW R \in SUBSET Rules, NEW m, Represents(m, R),
         NEW S \in SUBSET Rules, NEW n, Represents(n, S),
         NEW both, Represents(both, R \cup S), NEW d \in Names
  PROVE  Lookup(both, d) = Highest({Lookup(m, d), Lookup(n, d)})
<1>1. Lookup(m, d) = Decision(R, d) /\ Lookup(n, d) = Decision(S, d)
  BY LookupDecides
<1>2. Lookup(both, d) = Decision(R \cup S, d)
  <2>1. R \cup S \in SUBSET Rules
    OBVIOUS
  <2> QED BY <2>1, LookupDecides
<1> QED BY <1>1, <1>2, DecisionsCombine

\* A rule that is added changes the answer for the names it matches only, and
\* never to an action of lower rank.
THEOREM AddRaisesMatchesOnly ==
  ASSUME NEW R \in SUBSET Rules, NEW m, Represents(m, R), NEW r \in Rules, NEW d \in Names
  PROVE  /\ ~Matches(r, d) => Lookup(Add(m, r), d) = Lookup(m, d)
         /\ Matches(r, d) => Lookup(Add(m, r), d) = Highest({Lookup(m, d), r.action})
         /\ Rank(Lookup(m, d)) <= Rank(Lookup(Add(m, r), d))
<1> DEFINE old == Lookup(m, d)
           new == Lookup(Add(m, r), d)
<1>1. old = Decision(R, d) /\ new = Decision(R \cup {r}, d)
  <2>1. R \cup {r} \in SUBSET Rules /\ Represents(Add(m, r), R \cup {r})
    BY AddRepresents
  <2> QED BY <2>1, LookupDecides
<1>2. old = Highest(Matching(R, d)) /\ new = Highest(Matching(R \cup {r}, d))
  BY <1>1 DEF Decision, Matching
<1>3. Matching(R, d) \in SUBSET Actions /\ r.action \in Actions
  BY DEF Matching, Rules
<1> HIDE DEF old, new
<1>4. old \in Actions \cup {"none"}
  BY <1>2, <1>3, HighestIsHighest
<1>5. ASSUME ~Matches(r, d) PROVE new = old
  <2>1. Matching(R \cup {r}, d) = Matching(R, d)
    BY <1>5 DEF Matching
  <2> QED BY <1>2, <2>1
<1>6. ASSUME Matches(r, d) PROVE new = Highest({old, r.action})
  <2>1. Matching(R \cup {r}, d) = Matching(R, d) \cup {r.action}
    BY <1>6 DEF Matching
  <2>2. {r.action} \in SUBSET Actions /\ Highest({r.action}) = r.action
    <3>1. \A b \in {r.action} : Rank(b) <= Rank(r.action)
      BY <1>3, RankInjective
    <3> QED BY <1>3, <3>1, HighestUnique
  <2> QED BY <1>2, <1>3, <2>1, <2>2, HighestOfUnion
<1>7. Rank(old) <= Rank(new)
  <2>1. CASE Matches(r, d)
    BY <1>3, <1>4, <1>6, <2>1, HighestIsHighest
  <2>2. CASE ~Matches(r, d)
    BY <1>4, <1>5, <2>2, RankInjective
  <2> QED BY <2>1, <2>2
<1> QED BY <1>5, <1>6, <1>7 DEF old, new
=============================================================================
