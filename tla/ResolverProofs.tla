---------------------------- MODULE ResolverProofs --------------------------
(***************************************************************************)
(* Safety of the resolver for any number of queries, upstreams, keys and   *)
(* any size of the cache.                                                  *)
(***************************************************************************)
EXTENDS Resolver, SequenceTheorems, FunctionTheorems, FiniteSetTheorems, TLAPS

\* The keys of a list, and lists that hold no key twice.
KeysOf(s) == {s[i] : i \in 1..Len(s)}
NoTwice(s) == \A i, j \in 1..Len(s) : s[i] = s[j] => i = j

\* k pushed, or moved, to the front of s.
Front(s, k) == <<k>> \o Without(s, k)

---------------------------------------------------------------------------
(* The list of the cache *)

\* Remove of a key that is there: the keys behind it move up by one.
LEMMA WithoutShape ==
  ASSUME NEW s \in Seq(Keys), NEW k \in KeysOf(s)
  PROVE  \E i \in 1..Len(s) :
           /\ s[i] = k
           /\ Without(s, k) \in Seq(Keys)
           /\ Len(Without(s, k)) = Len(s) - 1
           /\ \A j \in 1..Len(Without(s, k)) : Without(s, k)[j] = IF j < i THEN s[j] ELSE s[j + 1]
<1>0. \E i \in 1..Len(s) : s[i] = k
  BY DEF KeysOf
<1> DEFINE i == CHOOSE i \in 1..Len(s) : s[i] = k
           t == Without(s, k)
<1>1. i \in 1..Len(s) /\ s[i] = k
  BY <1>0
<1> HIDE DEF i
<1>2. t = SubSeq(s, 1, i - 1) \o SubSeq(s, i + 1, Len(s))
  BY <1>0 DEF Without, i
<1>3. /\ t \in Seq(Keys)
      /\ Len(t) = Len(s) - 1
      /\ \A j \in 1..Len(t) : t[j] = IF j < i THEN s[j] ELSE s[j + 1]
  <2> DEFINE u == SubSeq(s, 1, i - 1)
             v == SubSeq(s, i + 1, Len(s))
  <2>1. /\ u \in Seq(Keys) /\ Len(u) = i - 1
        /\ \A j \in 1..(i - 1) : u[j] = s[j]
    <3>1. \A j \in 1..(i - 1) : s[j] \in Keys
      BY <1>1
    <3> QED BY <1>1, <3>1, SubSeqProperties
  <2>2. /\ v \in Seq(Keys) /\ Len(v) = Len(s) - i
        /\ \A j \in 1..(Len(s) - i) : v[j] = s[i + j]
    <3>1. \A j \in (i + 1)..Len(s) : s[j] \in Keys
      BY <1>1
    <3>2. /\ v \in Seq(Keys)
          /\ Len(v) = IF i + 1 <= Len(s) THEN Len(s) - (i + 1) + 1 ELSE 0
          /\ \A j \in 1..(Len(s) - (i + 1) + 1) : v[j] = s[(i + 1) + j - 1]
      BY <1>1, <3>1, SubSeqProperties
    <3> QED BY <1>1, <3>2
  <2> HIDE DEF u, v
  <2>3. /\ u \o v \in Seq(Keys)
        /\ Len(u \o v) = Len(u) + Len(v)
        /\ \A j \in 1..(Len(u) + Len(v)) : (u \o v)[j] = IF j <= Len(u) THEN u[j] ELSE v[j - Len(u)]
    BY <2>1, <2>2, ConcatProperties
  <2>4. t = u \o v
    BY <1>2 DEF u, v
  <2>5. Len(t) = Len(s) - 1
    <3>1. Len(t) = (i - 1) + (Len(s) - i)
      BY <2>1, <2>2, <2>3, <2>4
    <3>2. Len(s) \in Nat /\ i \in Nat
      BY <1>1
    <3> QED BY <3>1, <3>2
  <2>6. ASSUME NEW j \in 1..Len(t) PROVE t[j] = IF j < i THEN s[j] ELSE s[j + 1]
    <3>1. CASE j < i
      BY <1>1, <2>1, <2>2, <2>3, <2>4, <2>5, <3>1
    <3>2. CASE j >= i
      <4>1. j - (i - 1) \in 1..(Len(s) - i) /\ i + (j - (i - 1)) = j + 1
        BY <1>1, <2>5, <3>2
      <4>2. t[j] = v[j - (i - 1)]
        BY <1>1, <2>1, <2>2, <2>3, <2>4, <2>5, <3>2
      <4> QED BY <1>1, <2>2, <3>2, <4>1, <4>2
    <3> QED BY <1>1, <3>1, <3>2
  <2> QED BY <2>3, <2>4, <2>5, <2>6
<1> QED BY <1>1, <1>3

\* Remove takes out one key and keeps the rest in order.
LEMMA WithoutKey ==
  ASSUME NEW s \in Seq(Keys), NoTwice(s), NEW k
  PROVE  /\ Without(s, k) \in Seq(Keys)
         /\ NoTwice(Without(s, k))
         /\ KeysOf(Without(s, k)) = KeysOf(s) \ {k}
         /\ Len(Without(s, k)) = IF k \in KeysOf(s) THEN Len(s) - 1 ELSE Len(s)
<1>1. CASE \A i \in 1..Len(s) : s[i] # k
  <2>1. Without(s, k) = s /\ k \notin KeysOf(s)
    BY <1>1 DEF Without, KeysOf
  <2> QED BY <2>1
<1>2. CASE \E i \in 1..Len(s) : s[i] = k
  <2> DEFINE t == Without(s, k)
  <2>0. k \in KeysOf(s)
    BY <1>2 DEF KeysOf
  <2>1. PICK i \in 1..Len(s) :
           /\ s[i] = k
           /\ t \in Seq(Keys)
           /\ Len(t) = Len(s) - 1
           /\ \A j \in 1..Len(t) : t[j] = IF j < i THEN s[j] ELSE s[j + 1]
    BY <2>0, WithoutShape
  <2>3. /\ t \in Seq(Keys)
        /\ Len(t) = Len(s) - 1
        /\ \A j \in 1..Len(t) : t[j] = IF j < i THEN s[j] ELSE s[j + 1]
    BY <2>1
  <2> HIDE DEF t
  <2>4. NoTwice(t)
    BY <2>1, <2>3 DEF NoTwice
  <2>5. KeysOf(t) = KeysOf(s) \ {k}
    <3>1. ASSUME NEW j \in 1..Len(t) PROVE t[j] \in KeysOf(s) \ {k}
      BY <2>1, <2>3 DEF NoTwice, KeysOf
    <3>2. ASSUME NEW j \in 1..Len(s), s[j] # k PROVE s[j] \in KeysOf(t)
      <4>1. CASE j < i
        BY <2>1, <2>3, <4>1 DEF KeysOf
      <4>2. CASE j > i
        <5>1. j - 1 \in 1..Len(t) /\ t[j - 1] = s[j]
          BY <2>1, <2>3, <4>2
        <5> QED BY <5>1 DEF KeysOf
      <4> QED BY <2>1, <3>2, <4>1, <4>2
    <3> QED BY <3>1, <3>2 DEF KeysOf
  <2> QED BY <2>0, <2>3, <2>4, <2>5 DEF t
<1> QED BY <1>1, <1>2

\* A key that is used comes first, before what is left of the others.
LEMMA FrontShape ==
  ASSUME NEW s \in Seq(Keys), NoTwice(s), NEW k \in Keys
  PROVE  /\ Without(s, k) \in Seq(Keys)
         /\ Front(s, k) \in Seq(Keys)
         /\ Len(Front(s, k)) = Len(Without(s, k)) + 1
         /\ Front(s, k)[1] = k
         /\ \A j \in 2..Len(Front(s, k)) : Front(s, k)[j] = Without(s, k)[j - 1]
<1> DEFINE w == Without(s, k)
           t == Front(s, k)
<1>1. w \in Seq(Keys)
  BY WithoutKey
<1>0. t = <<k>> \o w
  BY DEF Front
<1> HIDE DEF w, t
<1>2. /\ <<k>> \in Seq(Keys) /\ Len(<<k>>) = 1 /\ <<k>>[1] = k
      /\ Len(w) \in Nat
  BY <1>1
<1>3. /\ t \in Seq(Keys)
      /\ Len(t) = 1 + Len(w)
      /\ \A j \in 1..(1 + Len(w)) : t[j] = IF j <= 1 THEN <<k>>[j] ELSE w[j - 1]
  BY <1>0, <1>1, <1>2, ConcatProperties
<1>4. t \in Seq(Keys) /\ Len(t) = Len(w) + 1 /\ t[1] = k
  BY <1>2, <1>3
<1>5. ASSUME NEW j \in 2..Len(t) PROVE t[j] = w[j - 1]
  BY <1>2, <1>3
<1> QED BY <1>1, <1>4, <1>5 DEF t, w

\* A key that is used comes first and stays single.
LEMMA PushedKey ==
  ASSUME NEW s \in Seq(Keys), NoTwice(s), NEW k \in Keys
  PROVE  /\ Front(s, k) \in Seq(Keys)
         /\ NoTwice(Front(s, k))
         /\ KeysOf(Front(s, k)) = KeysOf(s) \cup {k}
         /\ Len(Front(s, k)) = IF k \in KeysOf(s) THEN Len(s) ELSE Len(s) + 1
<1> DEFINE w == Without(s, k)
           t == Front(s, k)
<1>1. /\ w \in Seq(Keys)
      /\ NoTwice(w)
      /\ KeysOf(w) = KeysOf(s) \ {k}
      /\ Len(w) = IF k \in KeysOf(s) THEN Len(s) - 1 ELSE Len(s)
  BY WithoutKey
<1>2. /\ t \in Seq(Keys)
      /\ Len(t) = Len(w) + 1
      /\ t[1] = k
      /\ \A j \in 2..Len(t) : t[j] = w[j - 1]
  BY FrontShape
<1>0. Len(w) \in Nat
  BY <1>1
<1> HIDE DEF w, t
<1>3. ASSUME NEW j \in 2..Len(t) PROVE t[j] \in KeysOf(s) \ {k}
  <2>1. j - 1 \in 1..Len(w)
    BY <1>1, <1>2
  <2> QED BY <1>1, <1>2, <2>1 DEF KeysOf
<1>4. NoTwice(t)
  <2> SUFFICES ASSUME NEW a \in 1..Len(t), NEW b \in 1..Len(t), t[a] = t[b] PROVE a = b
    BY DEF NoTwice
  <2>1. CASE a = 1
    BY <1>2, <1>3, <2>1
  <2>2. CASE b = 1
    BY <1>2, <1>3, <2>2
  <2>3. CASE a > 1 /\ b > 1
    <3>1. a - 1 \in 1..Len(w) /\ b - 1 \in 1..Len(w) /\ w[a - 1] = w[b - 1]
      BY <1>1, <1>2, <2>3
    <3> QED BY <1>1, <3>1 DEF NoTwice
  <2> QED BY <1>1, <1>2, <2>1, <2>2, <2>3
<1>5. KeysOf(t) = KeysOf(s) \cup {k}
  <2>1. KeysOf(t) \subseteq KeysOf(s) \cup {k}
    <3> SUFFICES ASSUME NEW a \in 1..Len(t) PROVE t[a] \in KeysOf(s) \cup {k}
      BY DEF KeysOf
    <3> QED BY <1>1, <1>2, <1>3
  <2>2. k \in KeysOf(t)
    BY <1>1, <1>2 DEF KeysOf
  <2>3. KeysOf(w) \subseteq KeysOf(t)
    <3> SUFFICES ASSUME NEW a \in 1..Len(w) PROVE w[a] \in KeysOf(t)
      BY DEF KeysOf
    <3>1. a + 1 \in 2..Len(t) /\ (a + 1) - 1 = a
      BY <1>0, <1>2
    <3>2. t[a + 1] = w[a]
      BY <1>2, <3>1
    <3>3. a + 1 \in 1..Len(t)
      BY <1>0, <1>2
    <3> QED BY <3>2, <3>3 DEF KeysOf
  <2> QED BY <1>1, <2>1, <2>2, <2>3
<1>6. Len(t) = IF k \in KeysOf(s) THEN Len(s) ELSE Len(s) + 1
  BY <1>1, <1>2
<1> QED BY <1>2, <1>4, <1>5, <1>6 DEF t

\* Eviction leaves the other keys where they are.
LEMMA EvictedShape ==
  ASSUME NEW s \in Seq(Keys), s # <<>>, NEW t, t = SubSeq(s, 1, Len(s) - 1)
  PROVE  /\ t \in Seq(Keys)
         /\ Len(t) = Len(s) - 1
         /\ \A j \in 1..Len(t) : t[j] = s[j]
<1> DEFINE n == Len(s) - 1
<1>1. Len(s) \in Nat \ {0}
  BY EmptySeq
<1>2. n \in Nat /\ \A j \in 1..n : s[j] \in Keys
  BY <1>1
<1>0. t = SubSeq(s, 1, n)
  OBVIOUS
<1> HIDE DEF n
<1>3. /\ t \in Seq(Keys)
      /\ Len(t) = IF 1 <= n THEN n - 1 + 1 ELSE 0
      /\ \A j \in 1..(n - 1 + 1) : t[j] = s[1 + j - 1]
  BY <1>0, <1>2, SubSeqProperties
<1>4. Len(t) = n
  BY <1>2, <1>3
<1>5. ASSUME NEW j \in 1..n PROVE t[j] = s[j]
  <2>1. j \in 1..(n - 1 + 1) /\ 1 + j - 1 = j
    BY <1>2
  <2> QED BY <1>3, <2>1
<1> QED BY <1>3, <1>4, <1>5 DEF n

\* Eviction takes the last key.
LEMMA EvictedKey ==
  ASSUME NEW s \in Seq(Keys), NoTwice(s), s # <<>>, NEW t, t = SubSeq(s, 1, Len(s) - 1)
  PROVE  /\ t \in Seq(Keys)
         /\ NoTwice(t)
         /\ KeysOf(t) = KeysOf(s) \ {s[Len(s)]}
         /\ Len(t) = Len(s) - 1
<1>1. /\ t \in Seq(Keys)
      /\ Len(t) = Len(s) - 1
      /\ \A j \in 1..Len(t) : t[j] = s[j]
  BY EvictedShape
<1>2. NoTwice(t)
  BY <1>1 DEF NoTwice
<1>3. KeysOf(t) = KeysOf(s) \ {s[Len(s)]}
  <2>1. ASSUME NEW j \in 1..Len(t) PROVE t[j] \in KeysOf(s) \ {s[Len(s)]}
    BY <1>1 DEF KeysOf, NoTwice
  <2>2. ASSUME NEW j \in 1..Len(s), s[j] # s[Len(s)] PROVE s[j] \in KeysOf(t)
    <3>1. j \in 1..Len(t)
      BY <1>1, <2>2
    <3> QED BY <1>1, <3>1 DEF KeysOf
  <2> QED BY <2>1, <2>2 DEF KeysOf
<1> QED BY <1>1, <1>2, <1>3

---------------------------------------------------------------------------
(* The order of the list *)

\* The pairs of Aged are those of a later and an earlier place of the list.
LEMMA AgedPlaces ==
  ASSUME NEW s
  PROVE  /\ \A i, j \in 1..Len(s) : i > j => <<s[i], s[j]>> \in Aged(s)
         /\ \A p \in Aged(s) : \E i, j \in 1..Len(s) : i > j /\ p = <<s[i], s[j]>>
<1>1. ASSUME NEW i \in 1..Len(s), NEW j \in 1..Len(s), i > j
      PROVE  <<s[i], s[j]>> \in Aged(s)
  <2> DEFINE r == <<i, j>>
  <2>1. r \in (1..Len(s)) \X (1..Len(s)) /\ r[1] = i /\ r[2] = j
    OBVIOUS
  <2>2. r \in {p \in (1..Len(s)) \X (1..Len(s)) : p[1] > p[2]}
    BY <1>1, <2>1
  <2>3. <<s[r[1]], s[r[2]]>> \in Aged(s)
    BY <2>2 DEF Aged
  <2> QED BY <2>1, <2>3
<1>2. ASSUME NEW p \in Aged(s)
      PROVE  \E i, j \in 1..Len(s) : i > j /\ p = <<s[i], s[j]>>
  <2>1. PICK r \in {r \in (1..Len(s)) \X (1..Len(s)) : r[1] > r[2]} : p = <<s[r[1]], s[r[2]]>>
    BY DEF Aged
  <2>2. r[1] \in 1..Len(s) /\ r[2] \in 1..Len(s) /\ r[1] > r[2]
    OBVIOUS
  <2> QED BY <2>1, <2>2
<1> QED BY <1>1, <1>2

\* Remove leaves the order of the other keys alone.
LEMMA WithoutAged ==
  ASSUME NEW s \in Seq(Keys), NoTwice(s), NEW k
  PROVE  Aged(Without(s, k)) = {p \in Aged(s) : p[1] # k /\ p[2] # k}
<1> DEFINE t == Without(s, k)
<1>1. CASE k \notin KeysOf(s)
  <2>1. t = s
    BY <1>1 DEF Without, KeysOf
  <2>2. ASSUME NEW p \in Aged(s) PROVE p[1] # k /\ p[2] # k
    <3>1. PICK i, j \in 1..Len(s) : p = <<s[i], s[j]>>
      BY AgedPlaces
    <3> QED BY <1>1, <3>1 DEF KeysOf
  <2> QED BY <2>1, <2>2
<1>2. CASE k \in KeysOf(s)
  <2>1. PICK i \in 1..Len(s) :
           /\ s[i] = k
           /\ t \in Seq(Keys)
           /\ Len(t) = Len(s) - 1
           /\ \A j \in 1..Len(t) : t[j] = IF j < i THEN s[j] ELSE s[j + 1]
    BY <1>2, WithoutShape
  <2> HIDE DEF t
  <2>2. \A j \in 1..Len(s) : s[j] = k => j = i
    BY <2>1 DEF NoTwice
  <2>3. Len(s) \in Nat
    OBVIOUS
  <2>4. ASSUME NEW p \in Aged(t) PROVE p \in Aged(s) /\ p[1] # k /\ p[2] # k
    <3>1. PICK a, b \in 1..Len(t) : a > b /\ p = <<t[a], t[b]>>
      BY AgedPlaces
    <3> DEFINE c == IF a < i THEN a ELSE a + 1
               d == IF b < i THEN b ELSE b + 1
    <3>2. c \in 1..Len(s) /\ d \in 1..Len(s) /\ c > d /\ c # i /\ d # i
      BY <2>1, <2>3, <3>1
    <3>3. t[a] = s[c] /\ t[b] = s[d]
      BY <2>1
    <3> HIDE DEF c, d
    <3>4. <<s[c], s[d]>> \in Aged(s)
      BY <3>2, AgedPlaces
    <3> QED BY <2>2, <3>1, <3>2, <3>3, <3>4
  <2>5. ASSUME NEW p \in Aged(s), p[1] # k, p[2] # k PROVE p \in Aged(t)
    <3>1. PICK a, b \in 1..Len(s) : a > b /\ p = <<s[a], s[b]>>
      BY AgedPlaces
    <3>2. a # i /\ b # i
      BY <2>1, <2>5, <3>1
    <3> DEFINE c == IF a < i THEN a ELSE a - 1
               d == IF b < i THEN b ELSE b - 1
    <3>3. c \in 1..Len(t) /\ d \in 1..Len(t) /\ c > d
      BY <2>1, <2>3, <3>1, <3>2
    <3>4. ASSUME NEW x \in 1..Len(s), x # i,
                 NEW y \in 1..Len(t), y = IF x < i THEN x ELSE x - 1
          PROVE  t[y] = s[x]
      <4>1. CASE x < i
        BY <2>1, <3>4, <4>1
      <4>2. CASE x > i
        BY <2>1, <2>3, <3>4, <4>2
      <4> QED BY <2>1, <3>4, <4>1, <4>2
    <3>5. t[c] = s[a] /\ t[d] = s[b]
      BY <3>2, <3>3, <3>4
    <3> HIDE DEF c, d
    <3>6. <<t[c], t[d]>> \in Aged(t)
      BY <3>3, AgedPlaces
    <3> QED BY <3>1, <3>5, <3>6
  <2>6. Aged(t) = {p \in Aged(s) : p[1] # k /\ p[2] # k}
    BY <2>4, <2>5
  <2> QED BY <2>6 DEF t
<1> QED BY <1>1, <1>2

\* A key that moves to the front is used after all others, whose order stays.
LEMMA FrontAged ==
  ASSUME NEW s \in Seq(Keys), NoTwice(s), NEW k \in Keys
  PROVE  Aged(Front(s, k)) = {p \in Aged(s) : p[1] # k /\ p[2] # k} \cup {<<j, k>> : j \in KeysOf(s) \ {k}}
<1> DEFINE w == Without(s, k)
           t == Front(s, k)
           O == {p \in Aged(s) : p[1] # k /\ p[2] # k}
           N == {<<j, k>> : j \in KeysOf(s) \ {k}}
<1>1. /\ w \in Seq(Keys) /\ Len(t) = Len(w) + 1 /\ t[1] = k
      /\ \A j \in 2..Len(t) : t[j] = w[j - 1]
  BY FrontShape
<1>2. KeysOf(w) = KeysOf(s) \ {k}
  BY WithoutKey
<1>3. Aged(w) = O
  BY WithoutAged
<1> HIDE DEF w, t, O
<1>4. Len(w) \in Nat
  BY <1>1
<1>5. ASSUME NEW p \in Aged(t) PROVE p \in O \cup N
  <2>1. PICK a, b \in 1..Len(t) : a > b /\ p = <<t[a], t[b]>>
    BY AgedPlaces
  <2>2. a - 1 \in 1..Len(w) /\ t[a] = w[a - 1]
    BY <1>1, <1>4, <2>1
  <2>3. CASE b = 1
    <3>1. t[a] \in KeysOf(w)
      BY <2>2 DEF KeysOf
    <3> QED BY <1>1, <1>2, <2>1, <2>3, <3>1
  <2>4. CASE b > 1
    <3>1. b - 1 \in 1..Len(w) /\ t[b] = w[b - 1] /\ a - 1 > b - 1
      BY <1>1, <1>4, <2>1, <2>4
    <3>2. <<w[a - 1], w[b - 1]>> \in Aged(w)
      BY <2>2, <3>1, AgedPlaces
    <3> QED BY <1>3, <2>1, <2>2, <3>1, <3>2
  <2> QED BY <1>1, <1>4, <2>1, <2>3, <2>4
<1>6. ASSUME NEW p \in O PROVE p \in Aged(t)
  <2>1. PICK a, b \in 1..Len(w) : a > b /\ p = <<w[a], w[b]>>
    BY <1>3, AgedPlaces
  <2>2. a + 1 \in 1..Len(t) /\ b + 1 \in 1..Len(t) /\ a + 1 > b + 1
    BY <1>1, <1>4, <2>1
  <2>3. t[a + 1] = w[a] /\ t[b + 1] = w[b]
    <3>1. a + 1 \in 2..Len(t) /\ b + 1 \in 2..Len(t) /\ (a + 1) - 1 = a /\ (b + 1) - 1 = b
      BY <1>1, <1>4
    <3> QED BY <1>1, <3>1
  <2>4. <<t[a + 1], t[b + 1]>> \in Aged(t)
    BY <2>2, AgedPlaces
  <2> QED BY <2>1, <2>3, <2>4
<1>7. ASSUME NEW j \in KeysOf(s) \ {k} PROVE <<j, k>> \in Aged(t)
  <2>1. PICK a \in 1..Len(w) : w[a] = j
    BY <1>2 DEF KeysOf
  <2>2. a + 1 \in 1..Len(t) /\ 1 \in 1..Len(t) /\ a + 1 > 1
    BY <1>1, <1>4
  <2>3. t[a + 1] = j
    <3>1. a + 1 \in 2..Len(t) /\ (a + 1) - 1 = a
      BY <1>1, <1>4
    <3> QED BY <1>1, <2>1, <3>1
  <2>4. <<t[a + 1], t[1]>> \in Aged(t)
    BY <2>2, AgedPlaces
  <2> QED BY <1>1, <2>3, <2>4
<1>8. Aged(t) = O \cup N
  <2>1. Aged(t) \subseteq O \cup N
    BY <1>5
  <2>2. O \cup N \subseteq Aged(t)
    BY <1>6, <1>7
  <2> QED BY <2>1, <2>2
<1> QED BY <1>8 DEF t, O

\* Eviction leaves the order of the other keys alone, and the key that goes
\* was used before all of them.
LEMMA EvictedAged ==
  ASSUME NEW s \in Seq(Keys), NoTwice(s), s # <<>>, NEW t, t = SubSeq(s, 1, Len(s) - 1)
  PROVE  /\ Aged(t) = {p \in Aged(s) : p[1] # s[Len(s)] /\ p[2] # s[Len(s)]}
         /\ \A j \in KeysOf(s) \ {s[Len(s)]} : <<s[Len(s)], j>> \in Aged(s)
<1> DEFINE o == s[Len(s)]
<1>1. /\ t \in Seq(Keys) /\ Len(t) = Len(s) - 1
      /\ \A j \in 1..Len(t) : t[j] = s[j]
  BY EvictedShape
<1>2. Len(s) \in Nat \ {0}
  BY EmptySeq
<1>3. \A j \in 1..Len(s) : s[j] = o => j = Len(s)
  BY <1>2 DEF NoTwice
<1> HIDE DEF o
<1>4. ASSUME NEW p \in Aged(t) PROVE p \in Aged(s) /\ p[1] # o /\ p[2] # o
  <2>1. PICK a, b \in 1..Len(t) : a > b /\ p = <<t[a], t[b]>>
    BY AgedPlaces
  <2>2. a \in 1..Len(s) /\ b \in 1..Len(s) /\ a # Len(s) /\ b # Len(s) /\ t[a] = s[a] /\ t[b] = s[b]
    BY <1>1, <1>2
  <2>3. <<s[a], s[b]>> \in Aged(s)
    BY <2>1, <2>2, AgedPlaces
  <2> QED BY <1>3, <2>1, <2>2, <2>3
<1>5. ASSUME NEW p \in Aged(s), p[1] # o, p[2] # o PROVE p \in Aged(t)
  <2>1. PICK a, b \in 1..Len(s) : a > b /\ p = <<s[a], s[b]>>
    BY AgedPlaces
  <2>2. a # Len(s) /\ b # Len(s)
    BY <1>5, <2>1 DEF o
  <2>3. a \in 1..Len(t) /\ b \in 1..Len(t)
    BY <1>1, <1>2, <2>2
  <2>4. <<t[a], t[b]>> \in Aged(t)
    BY <2>1, <2>3, AgedPlaces
  <2> QED BY <1>1, <2>1, <2>3, <2>4
<1>6. ASSUME NEW j \in KeysOf(s) \ {o} PROVE <<o, j>> \in Aged(s)
  <2>1. PICK b \in 1..Len(s) : s[b] = j /\ b # Len(s)
    BY DEF KeysOf, o
  <2>2. Len(s) \in 1..Len(s) /\ Len(s) > b
    BY <1>2, <2>1
  <2> QED BY <2>1, <2>2, AgedPlaces DEF o
<1>7. Aged(t) = {p \in Aged(s) : p[1] # o /\ p[2] # o}
  BY <1>4, <1>5
<1> QED BY <1>6, <1>7 DEF o

\* A list that holds no key twice has as many keys as places.
LEMMA KeysCounted ==
  ASSUME NEW s \in Seq(Keys), NoTwice(s)
  PROVE  Cardinality(KeysOf(s)) = Len(s)
<1> DEFINE f == [i \in 1..Len(s) |-> s[i]]
<1>1. Len(s) \in Nat
  OBVIOUS
<1>2. IsFiniteSet(1..Len(s)) /\ Cardinality(1..Len(s)) = Len(s)
  BY <1>1, FS_Interval
<1>3. f \in Bijection(1..Len(s), KeysOf(s))
  <2>1. f \in [1..Len(s) -> KeysOf(s)]
    BY DEF KeysOf
  <2>2. \A i, j \in 1..Len(s) : f[i] = f[j] => i = j
    BY DEF NoTwice
  <2>3. \A k \in KeysOf(s) : \E i \in 1..Len(s) : f[i] = k
    BY DEF KeysOf
  <2> QED BY <2>1, <2>2, <2>3, Fun_IsBij
<1>4. ExistsBijection(1..Len(s), KeysOf(s))
  BY <1>3 DEF ExistsBijection
<1> QED BY <1>2, <1>4, FS_Bijection

---------------------------------------------------------------------------
(* The invariant *)

\* What the cache holds, and for how long.
EntriesInv == \A k \in DOMAIN items : /\ items[k].msg.rcode = "success"
                                      /\ items[k].expires = items[k].stored + Lifetime(items[k].msg)

\* A query past the matcher was let through by a rule of its time.
PassedInv == \A h \in Handlers :
  /\ q[h].stage # "idle" => q[h].key \in Keys /\ q[h].reply = "none"
  /\ q[h].stage = "match" => rules[q[h].key] \in seen[h]
  /\ q[h].stage \in {"pool", "compute"} => "fakeip" \in seen[h]
  /\ q[h].stage = "compute" => PoolOf(q[h].key) # None
  /\ q[h].stage \in {"lookup", "exchange", "store"} => seen[h] \cap {"none", "direct"} # {}

\* Nothing is kept while upstreams are asked, and all that reported have failed.
RaceInv == \A h \in Handlers :
  /\ q[h].stage \in {"match", "pool", "compute", "lookup"} => q[h].kept = None /\ q[h].failed = {}
  /\ q[h].stage = "exchange" /\ q[h].waiting # {} => q[h].kept = None
  /\ q[h].stage = "exchange" /\ q[h].kept = None => q[h].failed = Upstreams \ q[h].waiting
  /\ q[h].stage = "store" => q[h].kept # None

\* Whatever was remembered or answered for a name is the address computed
\* for it, and there was a range to compute it in.
FakeInv == /\ \A k \in DOMAIN fakes : PoolOf(k) # None /\ fakes[k] = Fake(k)
           /\ \A k \in Keys : /\ given[k] \subseteq {Fake(k)}
                              /\ given[k] # {} => PoolOf(k) # None

ResolverInv == /\ TypeOK
               /\ CacheConsistent
               /\ EntriesInv
               /\ PassedInv
               /\ RaceInv
               /\ RulesRespected
               /\ FirstGoodWins
               /\ FakeInv

\* The parts that speak of queries, and the record of one.
QueryInv == PassedInv /\ RaceInv /\ RulesRespected /\ FirstGoodWins

Record == [stage : Stages, key : Keys \cup {None}, waiting : SUBSET Upstreams, failed : SUBSET Upstreams,
           kept : Answers \cup {None}, reply : Replies, left : Nat]

CacheTypeOK == /\ DOMAIN items \subseteq Keys
               /\ \A k \in DOMAIN items : items[k] \in Entry
               /\ lru \in Seq(Keys)

FakeTypeOK == /\ DOMAIN fakes \subseteq Keys
              /\ \A k \in DOMAIN fakes : fakes[k] \in Nat
              /\ given \in [Keys -> SUBSET Nat]

\* newDNSCache gives the cache room for one entry at least.
LEMMA CacheSizePositive == MaxSize \in Nat \ {0}
  BY ResolverAssumption DEF MaxSize

\* The lifetime of an answer is a number of seconds.
LEMMA LifetimeNat == ASSUME NEW a \in Answers PROVE Lifetime(a) \in Nat
  BY ResolverAssumption DEF Lifetime, minAnswerTTL

\* An answer whose records decide is not kept longer than they promise, whatever
\* the flags in its OPT record.
LEMMA LifetimeKeepsPromise ==
  ASSUME NEW a \in Answers, RecordsDecide(a)
  PROVE  Promise(a) \in Nat /\ Lifetime(a) <= Promise(a)
<1>1. a.ttl \in 0..MaxTTL /\ a.opt \in 0..MaxTTL /\ DefaultTTL \in Nat \ {0} /\ MaxTTL \in Nat
  BY ResolverAssumption
<1>2. a.ttl # MaxTTL /\ (TTLOverride => a.opt # 0 \/ a.ttl = 0 \/ a.ttl >= DefaultTTL)
  BY DEF RecordsDecide
<1>3. Promise(a) = IF TTLOverride /\ a.ttl = 0 THEN DefaultTTL ELSE a.ttl
  BY <1>2 DEF Promise
<1>4. a.ttl < MaxTTL /\ minAnswerTTL(a) = IF a.opt < a.ttl THEN a.opt ELSE a.ttl
  BY <1>1, <1>2 DEF minAnswerTTL
<1>5. CASE TTLOverride /\ minAnswerTTL(a) = 0
  <2>1. Lifetime(a) \in {0, DefaultTTL}
    BY <1>5 DEF Lifetime
  <2>2. DefaultTTL <= Promise(a)
    BY <1>1, <1>2, <1>3, <1>4, <1>5
  <2> QED BY <1>1, <1>3, <2>1, <2>2
<1>6. CASE ~(TTLOverride /\ minAnswerTTL(a) = 0)
  <2>1. Lifetime(a) \in {0, minAnswerTTL(a)}
    BY <1>6 DEF Lifetime
  <2>2. minAnswerTTL(a) <= a.ttl
    BY <1>1, <1>4
  <2>3. a.ttl <= Promise(a) /\ Promise(a) \in Nat
    BY <1>1, <1>3
  <2>4. minAnswerTTL(a) \in Nat
    BY <1>1, <1>4
  <2> QED BY <2>1, <2>2, <2>3, <2>4, <1>1
<1> QED BY <1>5, <1>6

---------------------------------------------------------------------------
(* Addresses *)

\* What hashOffset gives lies below the number of usable addresses.
LEMMA OffsetBelow == ASSUME NEW h \in Nat, NEW n \in Nat \ {0} PROVE h % n \in 0..(n - 1)
  OBVIOUS

\* What computeV4 gives: nothing runs over the end of the address space.
LEMMA ComputeV4Value ==
  ASSUME NEW r \in Ranges, NEW hash \in Nat
  PROVE  /\ r.size >= 4 => ComputeV4(r, hash) = r.base + ((hash % (r.size - 2)) + 1)
         /\ ~(r.size >= 4) => ComputeV4(r, hash) = r.base + (hash % r.size)
<1> DEFINE usable == IF r.size >= 4 THEN r.size - 2 ELSE r.size
           offset == IF usable < r.size THEN (hash % usable) + 1 ELSE hash % usable
<1>1. r.base \in Nat /\ r.size \in Nat \ {0} /\ r.space \in Nat /\ r.base + r.size <= r.space
  BY DEF Ranges
<1>2. usable \in Nat \ {0}
  BY <1>1
<1>3. hash % usable \in 0..(usable - 1)
  <2> HIDE DEF usable
  <2> QED BY <1>2, OffsetBelow
<1>4. ComputeV4(r, hash) = Fixed(r.base + offset, r.space)
  BY DEF ComputeV4, minRangeForReservation, reservedIPv4Endpoints
<1>5. CASE r.size >= 4
  <2>1. usable = r.size - 2
    BY <1>5
  <2>2. offset = (hash % usable) + 1
    BY <1>1, <2>1
  <2> HIDE DEF usable, offset
  <2>3. offset \in 1..(r.size - 2)
    BY <1>1, <1>3, <2>1, <2>2
  <2>4. ComputeV4(r, hash) = r.base + offset
    BY <1>1, <1>4, <2>3 DEF Fixed
  <2> QED BY <1>5, <2>1, <2>2, <2>4
<1>6. CASE ~(r.size >= 4)
  <2>1. usable = r.size
    BY <1>6
  <2>2. offset = hash % usable
    BY <1>1, <2>1
  <2> HIDE DEF usable, offset
  <2>3. offset \in 0..(r.size - 1)
    BY <1>1, <1>3, <2>1, <2>2
  <2>4. ComputeV4(r, hash) = r.base + offset
    BY <1>1, <1>4, <2>3 DEF Fixed
  <2> QED BY <1>6, <2>1, <2>2, <2>4
<1> QED BY <1>5, <1>6

\* computeV4 stays within the range, and off its two ends if it has four
\* addresses or more, whatever the hash and wherever the range lies.
LEMMA ComputeV4InRange ==
  ASSUME NEW r \in Ranges, NEW hash \in Nat
  PROVE  /\ ComputeV4(r, hash) \in Block(r)
         /\ r.size >= 4 => ComputeV4(r, hash) \notin {r.base, r.base + r.size - 1}
<1>1. r.base \in Nat /\ r.size \in Nat \ {0}
  BY DEF Ranges
<1>2. CASE r.size >= 4
  <2> DEFINE n == r.size - 2
             x == hash % n
  <2>1. n \in Nat \ {0} /\ n = r.size - 2
    BY <1>1, <1>2
  <2>2. ComputeV4(r, hash) = r.base + (x + 1)
    BY <1>2, ComputeV4Value
  <2> HIDE DEF n
  <2>3. x \in 0..(n - 1)
    BY <2>1, OffsetBelow
  <2> HIDE DEF x
  <2> QED BY <1>1, <1>2, <2>1, <2>2, <2>3 DEF Block
<1>3. CASE ~(r.size >= 4)
  <2>1. hash % r.size \in 0..(r.size - 1)
    BY <1>1, OffsetBelow
  <2> QED BY <1>1, <1>3, <2>1, ComputeV4Value DEF Block
<1> QED BY <1>2, <1>3

\* computeV6 gives the address at the residue of the hash.
LEMMA ComputeV6Value ==
  ASSUME NEW r \in Ranges, NEW hash \in Nat
  PROVE  ComputeV6(r, hash) = r.base + (hash % r.size)
<1>1. r.base \in Nat /\ r.size \in Nat \ {0} /\ r.space \in Nat /\ r.base + r.size <= r.space
  BY DEF Ranges
<1>2. hash % r.size \in 0..(r.size - 1)
  BY <1>1, OffsetBelow
<1> QED BY <1>1, <1>2 DEF ComputeV6, Fixed

\* computeV6 stays within the range.
LEMMA ComputeV6InRange ==
  ASSUME NEW r \in Ranges, NEW hash \in Nat
  PROVE  ComputeV6(r, hash) \in Block(r)
<1>1. r.base \in Nat /\ r.size \in Nat \ {0}
  BY DEF Ranges
<1>2. hash % r.size \in 0..(r.size - 1)
  BY <1>1, OffsetBelow
<1> QED BY <1>1, <1>2, ComputeV6Value DEF Block

\* A number below n is its own residue.
LEMMA ResidueOfSmall == ASSUME NEW n \in Nat \ {0}, NEW i \in 0..(n - 1) PROVE i % n = i
  OBVIOUS

\* No address of a pool is wasted: every address of an IPv4 range that
\* computeV4 does not reserve, and every address of an IPv6 range, is given
\* to the names of some hash.
THEOREM EveryAddressServes ==
  ASSUME NEW r \in Ranges, NEW a \in Block(r)
  PROVE  /\ r.size >= 4 /\ a \notin {r.base, r.base + r.size - 1} => \E hash \in Nat : ComputeV4(r, hash) = a
         /\ ~(r.size >= 4) => \E hash \in Nat : ComputeV4(r, hash) = a
         /\ \E hash \in Nat : ComputeV6(r, hash) = a
<1>1. r.base \in Nat /\ r.size \in Nat \ {0} /\ a \in Nat /\ a >= r.base /\ a <= r.base + r.size - 1
  BY DEF Ranges, Block
<1> DEFINE i == a - r.base
<1>2. i \in 0..(r.size - 1) /\ r.base + i = a
  BY <1>1
<1> HIDE DEF i
<1>3. i % r.size = i /\ i \in Nat
  BY <1>1, <1>2, ResidueOfSmall
<1>4. ComputeV6(r, i) = a
  BY <1>2, <1>3, ComputeV6Value
<1>5. ~(r.size >= 4) => ComputeV4(r, i) = a
  BY <1>2, <1>3, ComputeV4Value
<1>6. ASSUME r.size >= 4, a \notin {r.base, r.base + r.size - 1}
      PROVE  \E hash \in Nat : ComputeV4(r, hash) = a
  <2> DEFINE j == i - 1
             n == r.size - 2
  <2>1. j \in 0..(n - 1) /\ n \in Nat \ {0} /\ r.base + (j + 1) = a
    BY <1>1, <1>2, <1>6
  <2>2. j % n = j /\ j \in Nat
    <3> HIDE DEF j, n
    <3> QED BY <2>1, ResidueOfSmall
  <2>3. ComputeV4(r, j) = r.base + ((j % n) + 1)
    BY <1>6, <2>2, ComputeV4Value
  <2> QED BY <2>1, <2>2, <2>3
<1> QED BY <1>3, <1>4, <1>5, <1>6

\* Names share a fake address if and only if their hashes agree modulo the
\* number of addresses there are to give, wherever the range lies.
THEOREM AddressesSharedByResidue ==
  ASSUME NEW r \in Ranges, NEW g \in Nat, NEW h \in Nat
  PROVE  /\ r.size >= 4 => (ComputeV4(r, g) = ComputeV4(r, h) <=> g % (r.size - 2) = h % (r.size - 2))
         /\ ~(r.size >= 4) => (ComputeV4(r, g) = ComputeV4(r, h) <=> g % r.size = h % r.size)
         /\ ComputeV6(r, g) = ComputeV6(r, h) <=> g % r.size = h % r.size
<1>1. r.base \in Nat /\ r.size \in Nat \ {0}
  BY DEF Ranges
<1>2. ASSUME NEW x \in Nat, NEW y \in Nat
      PROVE  /\ r.base + x = r.base + y <=> x = y
             /\ r.base + (x + 1) = r.base + (y + 1) <=> x = y
  BY <1>1
<1>3. g % r.size \in Nat /\ h % r.size \in Nat
  BY <1>1, OffsetBelow
<1>4. ComputeV6(r, g) = ComputeV6(r, h) <=> g % r.size = h % r.size
  BY <1>2, <1>3, ComputeV6Value
<1>5. CASE r.size >= 4
  <2> DEFINE n == r.size - 2
  <2>1. n \in Nat \ {0}
    BY <1>1, <1>5
  <2>2. ComputeV4(r, g) = r.base + ((g % n) + 1) /\ ComputeV4(r, h) = r.base + ((h % n) + 1)
    BY <1>5, ComputeV4Value
  <2> HIDE DEF n
  <2>3. g % n \in Nat /\ h % n \in Nat
    BY <2>1, OffsetBelow
  <2>4. ComputeV4(r, g) = ComputeV4(r, h) <=> g % n = h % n
    BY <1>2, <2>2, <2>3
  <2> QED BY <1>4, <1>5, <2>4 DEF n
<1>6. CASE ~(r.size >= 4)
  <2>1. ComputeV4(r, g) = ComputeV4(r, h) <=> g % r.size = h % r.size
    BY <1>2, <1>3, <1>6, ComputeV4Value
  <2> QED BY <1>4, <1>6, <2>1
<1> QED BY <1>5, <1>6

\* A name with a range gets an address that its clients may use.
LEMMA FakeIsUsable ==
  ASSUME NEW k \in Keys, PoolOf(k) # None
  PROVE  Fake(k) \in Usable(k) /\ Fake(k) \in Nat
<1> DEFINE r == PoolOf(k)
<1>1. r \in Ranges /\ Hash[k] \in Nat
  BY ResolverAssumption DEF PoolOf
<1>2. Fake(k) \in Block(r) /\ (Type[k] = "A" /\ r.size >= 4 => Fake(k) \notin {r.base, r.base + r.size - 1})
  <2>1. CASE Type[k] = "A"
    <3>1. r = V4 /\ Fake(k) = ComputeV4(V4, Hash[k])
      BY <2>1 DEF PoolOf, Fake
    <3> QED BY <1>1, <3>1, ComputeV4InRange
  <2>2. CASE Type[k] # "A"
    <3>1. r = V6 /\ Fake(k) = ComputeV6(V6, Hash[k])
      BY <2>2 DEF PoolOf, Fake
    <3> QED BY <1>1, <2>2, <3>1, ComputeV6InRange
  <2> QED BY <2>1, <2>2
<1> HIDE DEF r
<1>3. Fake(k) \in Nat
  BY <1>1, <1>2 DEF Block, Ranges
<1>4. Fake(k) \in Usable(k)
  BY <1>2 DEF Usable, r
<1> QED BY <1>3, <1>4

\* The resolver starts with an empty cache and no queries.
LEMMA ResolverInit == Init => ResolverInv
<1> SUFFICES ASSUME Init PROVE ResolverInv
  OBVIOUS
<1>1. TypeOK
  BY ResolverAssumption DEF Init, TypeOK, Query, Stages, Replies, Verdicts
<1>2. CacheConsistent
  BY CacheSizePositive DEF Init, CacheConsistent
<1>3. EntriesInv /\ PassedInv /\ RaceInv /\ RulesRespected /\ FirstGoodWins /\ FakeInv
  BY DEF Init, Query, FakeInv, EntriesInv, PassedInv, RaceInv, RulesRespected, FirstGoodWins
<1> QED BY <1>1, <1>2, <1>3 DEF ResolverInv

\* The cache after a lookup: the hit moves to the front, the expired goes.
LEMMA HitKeepsCache ==
  ASSUME TypeOK, CacheConsistent, EntriesInv, NEW h \in Handlers, Hit(h)
  PROVE  CacheTypeOK' /\ CacheConsistent' /\ EntriesInv'
<1> DEFINE k == q[h].key
<1>1. /\ k \in DOMAIN items /\ k \in Keys
      /\ lru \in Seq(Keys) /\ NoTwice(lru) /\ KeysOf(lru) = DOMAIN items
      /\ lru' = Front(lru, k) /\ items' = items
  BY DEF Hit, Pushed, Front, TypeOK, CacheConsistent, NoTwice, KeysOf
<1>2. /\ Front(lru, k) \in Seq(Keys) /\ NoTwice(Front(lru, k))
      /\ KeysOf(Front(lru, k)) = KeysOf(lru) \cup {k}
      /\ Len(Front(lru, k)) = IF k \in KeysOf(lru) THEN Len(lru) ELSE Len(lru) + 1
  <2> HIDE DEF k
  <2> QED BY <1>1, PushedKey
<1>3. /\ lru' \in Seq(Keys) /\ NoTwice(lru') /\ KeysOf(lru') = DOMAIN items'
      /\ Len(lru') = Len(lru)
  BY <1>1, <1>2
<1> QED BY <1>1, <1>3 DEF CacheTypeOK, CacheConsistent, EntriesInv, TypeOK, NoTwice, KeysOf, Entry

\* The cache after Get has removed an expired entry.
LEMMA MissKeepsCache ==
  ASSUME TypeOK, CacheConsistent, EntriesInv, NEW h \in Handlers, Miss(h)
  PROVE  CacheTypeOK' /\ CacheConsistent' /\ EntriesInv'
<1> DEFINE k == q[h].key
<1>1. /\ lru \in Seq(Keys) /\ NoTwice(lru) /\ KeysOf(lru) = DOMAIN items /\ Len(lru) <= MaxSize
      /\ lru' = Without(lru, k)
      /\ items' = [x \in DOMAIN items \ {k} |-> items[x]]
  BY DEF Miss, Drop, TypeOK, CacheConsistent, NoTwice, KeysOf
<1>2. /\ lru' \in Seq(Keys) /\ NoTwice(lru') /\ KeysOf(lru') = KeysOf(lru) \ {k}
      /\ Len(lru') = IF k \in KeysOf(lru) THEN Len(lru) - 1 ELSE Len(lru)
  BY <1>1, WithoutKey
<1>3. Len(lru') <= MaxSize
  BY <1>1, <1>2, CacheSizePositive
<1> QED BY <1>1, <1>2, <1>3 DEF CacheTypeOK, CacheConsistent, EntriesInv, TypeOK, NoTwice, KeysOf

\* The cache after Put: the new key is in, at most one other is out.
LEMMA StoreKeepsCache ==
  ASSUME TypeOK, CacheConsistent, EntriesInv, RaceInv, PassedInv, NEW h \in Handlers, Store(h)
  PROVE  CacheTypeOK' /\ CacheConsistent' /\ EntriesInv'
<1> DEFINE k == q[h].key
           a == q[h].kept
           l == Pushed(k)
           e == [msg |-> a, expires |-> now + Lifetime(a), stored |-> now]
           s == [x \in DOMAIN items \cup {k} |-> IF x = k THEN e ELSE items[x]]
           full == k \notin DOMAIN items /\ Len(l) > MaxSize
<1>1. k \in Keys /\ a \in Answers
  BY DEF Store, TypeOK, RaceInv, PassedInv
<1>2. Lifetime(a) \in Nat
  BY <1>1, LifetimeNat
<1>3. CASE Lifetime(a) = 0
  <2>1. items' = items /\ lru' = lru
    BY <1>3 DEF Store, cacheVars
  <2>2. CacheTypeOK
    BY DEF CacheTypeOK, TypeOK
  <2> QED BY <2>1, <2>2 DEF CacheTypeOK, CacheConsistent, EntriesInv
<1>4. CASE Lifetime(a) # 0
  <2>1. e \in Entry /\ e.msg.rcode = "success" /\ e.expires = e.stored + Lifetime(e.msg)
    BY <1>1, <1>2, <1>4 DEF Entry, TypeOK, Lifetime
  <2>2. /\ lru \in Seq(Keys) /\ NoTwice(lru) /\ KeysOf(lru) = DOMAIN items /\ Len(lru) <= MaxSize
        /\ l = Front(lru, k)
    BY DEF TypeOK, CacheConsistent, NoTwice, KeysOf, Pushed, Front
  <2>3. /\ l \in Seq(Keys) /\ NoTwice(l) /\ KeysOf(l) = DOMAIN items \cup {k}
        /\ Len(l) = IF k \in DOMAIN items THEN Len(lru) ELSE Len(lru) + 1
    <3>1. /\ Front(lru, k) \in Seq(Keys) /\ NoTwice(Front(lru, k))
          /\ KeysOf(Front(lru, k)) = KeysOf(lru) \cup {k}
          /\ Len(Front(lru, k)) = IF k \in KeysOf(lru) THEN Len(lru) ELSE Len(lru) + 1
      <4> HIDE DEF k
      <4> QED BY <1>1, <2>2, PushedKey
    <3> HIDE DEF k, l
    <3> QED BY <2>2, <3>1
  <2>4. /\ DOMAIN s = DOMAIN items \cup {k}
        /\ \A x \in DOMAIN s : /\ s[x] \in Entry
                               /\ s[x].msg.rcode = "success"
                               /\ s[x].expires = s[x].stored + Lifetime(s[x].msg)
    BY <2>1 DEF TypeOK, EntriesInv
  <2> HIDE DEF l, e, s
  <2>5. CASE full
    <3>1. lru' = SubSeq(l, 1, Len(l) - 1) /\ items' = [x \in DOMAIN s \ {l[Len(l)]} |-> s[x]]
      BY <1>4, <2>5 DEF Store, Drop, l, e, s
    <3>2. l # <<>>
      BY <2>3, <2>5, CacheSizePositive
    <3>3. /\ lru' \in Seq(Keys) /\ NoTwice(lru') /\ KeysOf(lru') = KeysOf(l) \ {l[Len(l)]}
          /\ Len(lru') = Len(l) - 1
      BY <2>3, <3>1, <3>2, EvictedKey
    <3>4. Len(lru') <= MaxSize
      BY <2>2, <2>3, <2>5, <3>3, CacheSizePositive
    <3>5. DOMAIN items' = KeysOf(lru') /\ DOMAIN items' \subseteq Keys
      BY <1>1, <2>3, <2>4, <3>1, <3>3 DEF TypeOK
    <3> QED BY <2>4, <3>1, <3>3, <3>4, <3>5 DEF CacheTypeOK, CacheConsistent, EntriesInv, NoTwice, KeysOf
  <2>6. CASE ~full
    <3>1. lru' = l /\ items' = s
      BY <1>4, <2>6 DEF Store, l, e, s
    <3>2. Len(l) <= MaxSize
      BY <2>2, <2>3, <2>6, CacheSizePositive
    <3>3. DOMAIN s \subseteq Keys
      BY <1>1, <2>4 DEF TypeOK
    <3>4. CacheTypeOK' /\ EntriesInv'
      BY <2>3, <2>4, <3>1, <3>3 DEF CacheTypeOK, EntriesInv
    <3>5. CacheConsistent'
      <4>1. /\ NoTwice(lru') /\ KeysOf(lru') = DOMAIN items' /\ Len(lru') <= MaxSize
        BY <2>3, <2>4, <3>1, <3>2
      <4> QED BY <4>1 DEF CacheConsistent, NoTwice, KeysOf
    <3> QED BY <3>4, <3>5
  <2> QED BY <2>5, <2>6
<1> QED BY <1>3, <1>4

---------------------------------------------------------------------------
(* Every step keeps the invariant *)

\* The types without those of the cache.
QueryTypeOK == /\ now \in 0..MaxTime
               /\ rules \in [Keys -> Verdicts]
               /\ q \in [Handlers -> Record]
               /\ seen \in [Handlers -> SUBSET Verdicts]

\* The type invariant falls into parts on queries, on the cache and on fake addresses.
LEMMA TypeParts == TypeOK <=> QueryTypeOK /\ CacheTypeOK /\ FakeTypeOK
  BY DEF TypeOK, QueryTypeOK, CacheTypeOK, FakeTypeOK, Record

\* A new query, and a reply, which leaves the handler idle.
LEMMA QueryRecord ==
  ASSUME NEW st \in Stages, NEW k \in Keys \cup {None}
  PROVE  Query(st, k) \in Record
  BY DEF Query, Record, Replies

\* A reply leaves its handler idle and the others as they are.
LEMMA ReplyRecord ==
  ASSUME QueryTypeOK, NEW h \in Handlers, NEW r \in Replies
  PROVE  /\ Reply(h, r) \in [Handlers -> Record]
         /\ Reply(h, r)[h].stage = "idle"
         /\ Reply(h, r)[h].reply = r
         /\ Reply(h, r)[h].failed = q[h].failed
         /\ \A g \in Handlers \ {h} : Reply(h, r)[g] = q[g]
  BY DEF QueryTypeOK, Record, Reply, Query, Stages

\* Steps that leave the cache alone keep what is known of it.
LEMMA CacheUnchanged ==
  ASSUME CacheTypeOK, CacheConsistent, EntriesInv, UNCHANGED cacheVars
  PROVE  CacheTypeOK' /\ CacheConsistent' /\ EntriesInv'
  BY DEF cacheVars, CacheTypeOK, CacheConsistent, EntriesInv

\* The clock changes no query.
LEMMA TickStep ==
  ASSUME QueryTypeOK, QueryInv, Tick
  PROVE  QueryTypeOK' /\ QueryInv'
<1>1. QueryTypeOK'
  BY ResolverAssumption DEF Tick, QueryTypeOK
<1> QED BY <1>1 DEF Tick, QueryInv, PassedInv, RaceInv, RulesRespected, FirstGoodWins

\* A new matcher adds to what was in force for the queries under way.
LEMMA SwapStep ==
  ASSUME QueryTypeOK, QueryInv, NEW m \in Matchers, SwapMatcher(m)
  PROVE  QueryTypeOK' /\ QueryInv'
<1>1. /\ m \in [Keys -> Verdicts] /\ rules' = m /\ q' = q /\ now' = now
      /\ seen' = [h \in Handlers |-> IF q[h].stage = "idle" THEN seen[h] ELSE seen[h] \cup {m[q[h].key]}]
  BY ResolverAssumption DEF SwapMatcher
<1>2. \A h \in Handlers : q[h].stage # "idle" => m[q[h].key] \in Verdicts
  BY <1>1 DEF QueryInv, PassedInv
<1>3. \A h \in Handlers : seen[h] \subseteq seen'[h]
  BY <1>1
<1>4. QueryTypeOK'
  BY <1>1, <1>2 DEF QueryTypeOK
<1>5. PassedInv'
  BY <1>1, <1>3 DEF QueryInv, PassedInv
<1>6. RaceInv' /\ FirstGoodWins'
  BY <1>1 DEF QueryInv, RaceInv, FirstGoodWins
<1>7. RulesRespected'
  BY <1>1, <1>3 DEF QueryInv, RulesRespected
<1> QED BY <1>4, <1>5, <1>6, <1>7 DEF QueryInv

\* A new query starts with the action its name has now.
LEMMA ReceiveStep ==
  ASSUME QueryTypeOK, QueryInv, NEW h \in Handlers, NEW k \in Keys, Receive(h, k)
  PROVE  QueryTypeOK' /\ QueryInv'
<1>1. /\ q' = [q EXCEPT ![h] = Query("match", k)]
      /\ seen' = [seen EXCEPT ![h] = {rules[k]}]
      /\ now' = now /\ rules' = rules
  BY DEF Receive
<1>2. Query("match", k) \in Record
  BY QueryRecord DEF Stages
<1>3. QueryTypeOK'
  BY <1>1, <1>2 DEF QueryTypeOK
<1>4. QueryInv'
  BY <1>1 DEF QueryTypeOK, Query, QueryInv, PassedInv, RaceInv, RulesRespected, FirstGoodWins
<1> QED BY <1>3, <1>4

\* A reply is good for all parts of the invariant if it obeys the rules.
LEMMA ReplyStep ==
  ASSUME QueryTypeOK, QueryInv, NEW h \in Handlers, NEW r \in {"nxdomain", "fake", "answer"},
         q' = Reply(h, r), UNCHANGED <<now, rules, seen>>,
         r = "nxdomain" => "block" \in seen[h],
         r = "fake" => "fakeip" \in seen[h],
         r = "answer" => seen[h] \cap {"none", "direct"} # {}
  PROVE  QueryTypeOK' /\ QueryInv'
<1>1. /\ q' \in [Handlers -> Record] /\ q'[h].stage = "idle" /\ q'[h].reply = r
      /\ \A g \in Handlers \ {h} : q'[g] = q[g]
  BY ReplyRecord DEF Replies
<1>2. QueryTypeOK'
  BY <1>1 DEF QueryTypeOK
<1>3. PassedInv' /\ RaceInv' /\ FirstGoodWins'
  BY <1>1 DEF QueryInv, PassedInv, RaceInv, FirstGoodWins
<1>4. RulesRespected'
  BY <1>1 DEF QueryInv, RulesRespected
<1> QED BY <1>2, <1>3, <1>4 DEF QueryInv

\* A query is refused, faked or let through as the matcher says.
LEMMA MatchStep ==
  ASSUME QueryTypeOK, QueryInv, NEW h \in Handlers, Match(h)
  PROVE  QueryTypeOK' /\ QueryInv'
<1>1. /\ q[h].stage = "match" /\ rules[q[h].key] \in seen[h]
      /\ now' = now /\ rules' = rules /\ seen' = seen
  BY DEF Match, QueryInv, PassedInv
<1>2. CASE rules[q[h].key] = "block" /\ q' = Reply(h, "nxdomain")
  BY <1>1, <1>2, ReplyStep
<1>3. CASE rules[q[h].key] = "fakeip" /\ q' = [q EXCEPT ![h].stage = "pool"]
  <2>1. QueryTypeOK'
    BY <1>1, <1>3 DEF QueryTypeOK, Record, Stages
  <2>2. QueryInv'
    BY <1>1, <1>3 DEF QueryTypeOK, Record, QueryInv, PassedInv, RaceInv, RulesRespected, FirstGoodWins
  <2> QED BY <2>1, <2>2
<1>4. CASE q' = [q EXCEPT ![h].stage = "lookup"] /\ rules[q[h].key] \in {"none", "direct"}
  <2>1. QueryTypeOK'
    BY <1>1, <1>4 DEF QueryTypeOK, Record, Stages
  <2>2. QueryInv'
    BY <1>1, <1>4 DEF QueryTypeOK, Record, QueryInv, PassedInv, RaceInv, RulesRespected, FirstGoodWins
  <2> QED BY <2>1, <2>2
<1> QED BY <1>2, <1>3, <1>4 DEF Match

\* A name that a rule fakes gets a reply without records where there is no range.
LEMMA NoPoolStep ==
  ASSUME QueryTypeOK, QueryInv, NEW h \in Handlers, NoPool(h)
  PROVE  QueryTypeOK' /\ QueryInv'
  BY ReplyStep DEF NoPool, QueryInv, PassedInv

\* An address that is known is given, another one is to be computed.
LEMMA KnownStep ==
  ASSUME QueryTypeOK, QueryInv, NEW h \in Handlers, Known(h)
  PROVE  QueryTypeOK' /\ QueryInv'
<1>1. /\ q[h].stage = "pool" /\ PoolOf(q[h].key) # None /\ "fakeip" \in seen[h]
      /\ now' = now /\ rules' = rules /\ seen' = seen
  BY DEF Known, QueryInv, PassedInv
<1>2. CASE q' = Reply(h, "fake")
  BY <1>1, <1>2, ReplyStep
<1>3. CASE q' = [q EXCEPT ![h].stage = "compute"]
  <2>1. QueryTypeOK'
    BY <1>1, <1>3 DEF QueryTypeOK, Record, Stages
  <2>2. QueryInv'
    BY <1>1, <1>3 DEF QueryTypeOK, Record, QueryInv, PassedInv, RaceInv, RulesRespected, FirstGoodWins
  <2> QED BY <2>1, <2>2
<1> QED BY <1>2, <1>3 DEF Known, Gives

\* An address that was computed is given.
LEMMA RememberStep ==
  ASSUME QueryTypeOK, QueryInv, NEW h \in Handlers, Remember(h)
  PROVE  QueryTypeOK' /\ QueryInv'
  BY ReplyStep DEF Remember, Gives, QueryInv, PassedInv

\* Steps that leave the fake addresses alone keep what is known of them.
LEMMA FakesUnchanged ==
  ASSUME FakeTypeOK, FakeInv, UNCHANGED fakeVars
  PROVE  FakeTypeOK' /\ FakeInv'
  BY DEF fakeVars, FakeTypeOK, FakeInv

\* The answer to h names the one address of its key.
LEMMA GivesOne ==
  ASSUME FakeTypeOK, FakeInv, NEW k \in Keys, PoolOf(k) # None,
         given' = [given EXCEPT ![k] = @ \cup {Fake(k)}]
  PROVE  /\ given' \in [Keys -> SUBSET Nat]
         /\ \A x \in Keys : /\ given'[x] \subseteq {Fake(x)}
                            /\ given'[x] # {} => PoolOf(x) # None
<1>1. Fake(k) \in Nat
  BY FakeIsUsable
<1> QED BY <1>1 DEF FakeTypeOK, FakeInv

\* What is remembered is what would be computed again.
LEMMA KnownKeepsFakes ==
  ASSUME QueryInv, FakeTypeOK, FakeInv, NEW h \in Handlers, Known(h)
  PROVE  FakeTypeOK' /\ FakeInv'
<1> DEFINE k == q[h].key
<1>1. k \in Keys /\ PoolOf(k) # None /\ fakes' = fakes
  BY DEF Known, QueryInv, PassedInv
<1>2. CASE k \in DOMAIN fakes
  <2>1. given' = [given EXCEPT ![k] = @ \cup {fakes[k]}] /\ fakes[k] = Fake(k)
    BY <1>2 DEF Known, Gives, FakeInv
  <2> HIDE DEF k
  <2>2. given' = [given EXCEPT ![k] = @ \cup {Fake(k)}]
    BY <2>1
  <2> QED BY <1>1, <2>2, GivesOne DEF FakeTypeOK, FakeInv
<1>3. CASE k \notin DOMAIN fakes
  BY <1>1, <1>3, FakesUnchanged DEF Known, fakeVars
<1> QED BY <1>2, <1>3

\* Two handlers that compute an address at once compute the same.
LEMMA RememberKeepsFakes ==
  ASSUME QueryInv, FakeTypeOK, FakeInv, NEW h \in Handlers, Remember(h)
  PROVE  FakeTypeOK' /\ FakeInv'
<1> DEFINE k == q[h].key
<1>1. k \in Keys /\ PoolOf(k) # None
  BY DEF Remember, QueryInv, PassedInv
<1>2. /\ given' = [given EXCEPT ![k] = @ \cup {Fake(k)}]
      /\ fakes' = [x \in DOMAIN fakes \cup {k} |-> IF x = k THEN Fake(k) ELSE fakes[x]]
  BY DEF Remember, Gives
<1> HIDE DEF k
<1>3. Fake(k) \in Nat
  BY <1>1, FakeIsUsable
<1>4. DOMAIN fakes' \subseteq Keys /\ \A x \in DOMAIN fakes' : fakes'[x] \in Nat
  BY <1>1, <1>2, <1>3 DEF FakeTypeOK
<1>5. \A x \in DOMAIN fakes' : PoolOf(x) # None /\ fakes'[x] = Fake(x)
  BY <1>1, <1>2 DEF FakeInv
<1> QED BY <1>1, <1>2, <1>4, <1>5, GivesOne DEF FakeTypeOK, FakeInv

\* A hit carries the time that is left, which is not negative.
LEMMA HitStep ==
  ASSUME QueryTypeOK, QueryInv, CacheTypeOK, NEW h \in Handlers, Hit(h)
  PROVE  QueryTypeOK' /\ QueryInv'
<1> DEFINE e == items[q[h].key]
<1>1. /\ q[h].stage = "lookup" /\ e \in Entry /\ ~(now > e.expires)
      /\ q' = [Reply(h, "cached") EXCEPT ![h].left = e.expires - now]
      /\ now' = now /\ rules' = rules /\ seen' = seen
  BY DEF Hit, Expired, Remaining, CacheTypeOK
<1>2. e.expires - now \in Nat
  BY <1>1 DEF Entry, QueryTypeOK
<1> HIDE DEF e
<1>3. /\ Reply(h, "cached") \in [Handlers -> Record]
      /\ Reply(h, "cached")[h].stage = "idle"
      /\ Reply(h, "cached")[h].reply = "cached"
      /\ \A g \in Handlers \ {h} : Reply(h, "cached")[g] = q[g]
  BY ReplyRecord DEF Replies
<1>4. /\ q' \in [Handlers -> Record] /\ q'[h].stage = "idle" /\ q'[h].reply = "cached"
      /\ \A g \in Handlers \ {h} : q'[g] = q[g]
  BY <1>1, <1>2, <1>3 DEF Record
<1>5. QueryTypeOK'
  BY <1>1, <1>4 DEF QueryTypeOK
<1>6. PassedInv' /\ RaceInv' /\ FirstGoodWins'
  BY <1>1, <1>4 DEF QueryInv, PassedInv, RaceInv, FirstGoodWins
<1>7. RulesRespected'
  BY <1>1, <1>4 DEF QueryInv, PassedInv, RulesRespected
<1> QED BY <1>5, <1>6, <1>7 DEF QueryInv

\* A query the cache cannot answer goes to all upstreams.
LEMMA MissStep ==
  ASSUME QueryTypeOK, QueryInv, NEW h \in Handlers, Miss(h)
  PROVE  QueryTypeOK' /\ QueryInv'
<1>1. /\ q[h].stage = "lookup"
      /\ q' = [q EXCEPT ![h].stage = "exchange", ![h].waiting = Upstreams]
      /\ now' = now /\ rules' = rules /\ seen' = seen
  BY DEF Miss
<1>2. QueryTypeOK'
  <2>1. "exchange" \in Stages /\ Upstreams \in SUBSET Upstreams
    BY DEF Stages
  <2>2. q \in [Handlers -> Record] /\ q[h] \in Record
    BY DEF QueryTypeOK
  <2>3. [q[h] EXCEPT !.stage = "exchange", !.waiting = Upstreams] \in Record
    BY <2>1, <2>2 DEF Record
  <2>4. q' = [q EXCEPT ![h] = [q[h] EXCEPT !.stage = "exchange", !.waiting = Upstreams]]
    BY <1>1, <2>2
  <2> QED BY <1>1, <2>2, <2>3, <2>4 DEF QueryTypeOK
<1>3. QueryInv'
  BY <1>1 DEF QueryTypeOK, Record, QueryInv, PassedInv, RaceInv, RulesRespected, FirstGoodWins
<1> QED BY <1>2, <1>3

\* The first good answer is kept, and ends the race.
LEMMA AnswerStep ==
  ASSUME QueryTypeOK, QueryInv, NEW h \in Handlers, NEW u \in Upstreams, NEW a \in Answers, Answer(h, u, a)
  PROVE  QueryTypeOK' /\ QueryInv'
<1>1. /\ q[h].stage = "exchange"
      /\ q' = [q EXCEPT ![h].waiting = {}, ![h].failed = {}, ![h].kept = a]
      /\ now' = now /\ rules' = rules /\ seen' = seen
  BY DEF Answer, Asking
<1>2. q \in [Handlers -> Record] /\ q[h] \in Record
  BY DEF QueryTypeOK
<1>3. [q[h] EXCEPT !.waiting = {}, !.failed = {}, !.kept = a] \in Record
  BY <1>2 DEF Record
<1>4. q' = [q EXCEPT ![h] = [q[h] EXCEPT !.waiting = {}, !.failed = {}, !.kept = a]]
  BY <1>1, <1>2
<1>5. QueryTypeOK'
  BY <1>1, <1>2, <1>3, <1>4 DEF QueryTypeOK
<1>6. a # None
  BY ResolverAssumption
<1>7. QueryInv'
  BY <1>1, <1>6 DEF QueryTypeOK, Record, QueryInv, PassedInv, RaceInv, RulesRespected, FirstGoodWins
<1> QED BY <1>5, <1>7

\* A failure counts, and the others are waited for.
LEMMA FailStep ==
  ASSUME QueryTypeOK, QueryInv, NEW h \in Handlers, NEW u \in Upstreams, Fail(h, u)
  PROVE  QueryTypeOK' /\ QueryInv'
<1>1. /\ q[h].stage = "exchange" /\ q[h].waiting # {}
      /\ q' = [q EXCEPT ![h].waiting = @ \ {u}, ![h].failed = @ \cup {u}]
      /\ now' = now /\ rules' = rules /\ seen' = seen
  BY DEF Fail, Asking
<1>2. QueryTypeOK'
  BY <1>1 DEF QueryTypeOK, Record
<1>3. PassedInv' /\ RulesRespected' /\ FirstGoodWins'
  BY <1>1 DEF QueryTypeOK, Record, QueryInv, PassedInv, RulesRespected, FirstGoodWins
<1>4. RaceInv'
  BY <1>1 DEF QueryTypeOK, Record, QueryInv, RaceInv
<1> QED BY <1>2, <1>3, <1>4 DEF QueryInv

\* With no answer kept at the end, all upstreams have failed.
LEMMA ExchangeEndsStep ==
  ASSUME QueryTypeOK, QueryInv, NEW h \in Handlers, ExchangeEnds(h)
  PROVE  QueryTypeOK' /\ QueryInv'
<1>1. /\ q[h].stage = "exchange" /\ q[h].waiting = {}
      /\ now' = now /\ rules' = rules /\ seen' = seen
  BY DEF ExchangeEnds
<1>2. CASE q[h].kept = None
  <2>1. q' = Reply(h, "servfail")
    BY <1>2 DEF ExchangeEnds
  <2>2. /\ q' \in [Handlers -> Record] /\ q'[h].stage = "idle" /\ q'[h].reply = "servfail"
        /\ q'[h].failed = q[h].failed
        /\ \A g \in Handlers \ {h} : q'[g] = q[g]
    BY <2>1, ReplyRecord DEF Replies
  <2>3. QueryTypeOK'
    BY <1>1, <2>2 DEF QueryTypeOK
  <2>4. FirstGoodWins'
    BY <1>1, <1>2, <2>2 DEF QueryInv, RaceInv, FirstGoodWins
  <2>5. PassedInv' /\ RaceInv' /\ RulesRespected'
    BY <1>1, <2>2 DEF QueryInv, PassedInv, RaceInv, RulesRespected
  <2> QED BY <2>3, <2>4, <2>5 DEF QueryInv
<1>3. CASE q[h].kept # None
  <2>1. q' = [q EXCEPT ![h].stage = "store"]
    BY <1>3 DEF ExchangeEnds
  <2>2. QueryTypeOK'
    BY <1>1, <2>1 DEF QueryTypeOK, Record, Stages
  <2>3. QueryInv'
    BY <1>1, <1>3, <2>1 DEF QueryTypeOK, Record, QueryInv, PassedInv, RaceInv, RulesRespected, FirstGoodWins
  <2> QED BY <2>2, <2>3
<1> QED BY <1>2, <1>3

\* A stored answer is the reply.
LEMMA StoreStep ==
  ASSUME QueryTypeOK, QueryInv, NEW h \in Handlers, Store(h)
  PROVE  QueryTypeOK' /\ QueryInv'
<1>1. /\ q[h].stage = "store" /\ q' = Reply(h, "answer")
      /\ now' = now /\ rules' = rules /\ seen' = seen
  BY DEF Store
<1>2. /\ q' \in [Handlers -> Record] /\ q'[h].stage = "idle" /\ q'[h].reply = "answer"
      /\ \A g \in Handlers \ {h} : q'[g] = q[g]
  BY <1>1, ReplyRecord DEF Replies
<1>3. QueryTypeOK'
  BY <1>1, <1>2 DEF QueryTypeOK
<1>4. PassedInv' /\ RaceInv' /\ RulesRespected' /\ FirstGoodWins'
  BY <1>1, <1>2 DEF QueryInv, PassedInv, RaceInv, RulesRespected, FirstGoodWins
<1> QED BY <1>3, <1>4 DEF QueryInv

\* Every step keeps the invariant.
LEMMA ResolverNext == ResolverInv /\ [Next]_vars => ResolverInv'
<1> SUFFICES ASSUME ResolverInv, [Next]_vars PROVE ResolverInv'
  OBVIOUS
<1>1. /\ QueryTypeOK /\ CacheTypeOK /\ TypeOK /\ CacheConsistent /\ EntriesInv /\ QueryInv
      /\ FakeTypeOK /\ FakeInv
  BY TypeParts DEF ResolverInv, QueryInv
<1> DEFINE Kept == /\ QueryTypeOK' /\ QueryInv'
                   /\ CacheTypeOK' /\ CacheConsistent' /\ EntriesInv'
                   /\ FakeTypeOK' /\ FakeInv'
<1>2. SUFFICES Kept
  <2>1. (QueryTypeOK /\ CacheTypeOK /\ FakeTypeOK => TypeOK)'
    BY TypeParts, PTL
  <2> QED BY <1>2, <2>1 DEF ResolverInv, QueryInv
<1>3. CASE UNCHANGED vars
  BY <1>1, <1>3, CacheUnchanged, FakesUnchanged
     DEF vars, cacheVars, fakeVars, QueryTypeOK, QueryInv, PassedInv, RaceInv, RulesRespected, FirstGoodWins
<1>4. CASE Tick
  BY <1>1, <1>4, TickStep, CacheUnchanged, FakesUnchanged DEF Tick
<1>5. ASSUME NEW m \in Matchers, SwapMatcher(m) PROVE Kept
  BY <1>1, <1>5, SwapStep, CacheUnchanged, FakesUnchanged DEF SwapMatcher
<1>6. ASSUME NEW h \in Handlers, NEW k \in Keys, Receive(h, k) PROVE Kept
  BY <1>1, <1>6, ReceiveStep, CacheUnchanged, FakesUnchanged DEF Receive
<1>7. ASSUME NEW h \in Handlers, Match(h) PROVE Kept
  BY <1>1, <1>7, MatchStep, CacheUnchanged, FakesUnchanged DEF Match
<1>8. ASSUME NEW h \in Handlers, Hit(h) PROVE Kept
  BY <1>1, <1>8, HitStep, HitKeepsCache, FakesUnchanged DEF Hit
<1>9. ASSUME NEW h \in Handlers, Miss(h) PROVE Kept
  BY <1>1, <1>9, MissStep, MissKeepsCache, FakesUnchanged DEF Miss
<1>10. ASSUME NEW h \in Handlers, NEW u \in Upstreams, NEW a \in Answers, Answer(h, u, a) PROVE Kept
  BY <1>1, <1>10, AnswerStep, CacheUnchanged, FakesUnchanged DEF Answer
<1>11. ASSUME NEW h \in Handlers, NEW u \in Upstreams, Fail(h, u) PROVE Kept
  BY <1>1, <1>11, FailStep, CacheUnchanged, FakesUnchanged DEF Fail
<1>12. ASSUME NEW h \in Handlers, ExchangeEnds(h) PROVE Kept
  BY <1>1, <1>12, ExchangeEndsStep, CacheUnchanged, FakesUnchanged DEF ExchangeEnds
<1>13. ASSUME NEW h \in Handlers, Store(h) PROVE Kept
  BY <1>1, <1>13, StoreStep, StoreKeepsCache, FakesUnchanged DEF QueryInv, Store
<1>14. ASSUME NEW h \in Handlers, NoPool(h) PROVE Kept
  BY <1>1, <1>14, NoPoolStep, CacheUnchanged, FakesUnchanged DEF NoPool
<1>15. ASSUME NEW h \in Handlers, Known(h) PROVE Kept
  BY <1>1, <1>15, KnownStep, CacheUnchanged, KnownKeepsFakes DEF Known
<1>16. ASSUME NEW h \in Handlers, Remember(h) PROVE Kept
  BY <1>1, <1>16, RememberStep, CacheUnchanged, RememberKeepsFakes DEF Remember
<1> QED BY <1>3, <1>4, <1>5, <1>6, <1>7, <1>8, <1>9, <1>10, <1>11, <1>12, <1>13, <1>14, <1>15, <1>16
        DEF Next, HandleStep

---------------------------------------------------------------------------
(* Theorems *)

\* The invariant of the resolver holds whatever queries, answers, rules and
\* ticks of the clock follow one another.
THEOREM ResolverInvariant == Spec => []ResolverInv
  BY ResolverInit, ResolverNext, PTL DEF Spec

\* Queries, matchers and the cache's entries keep the types of the structs in
\* resolver.go and cache.go; no hit carries a negative TTL.
THEOREM ResolverTypeCorrect == Spec => []TypeOK
<1>1. ResolverInv => TypeOK
  BY DEF ResolverInv
<1> QED BY <1>1, ResolverInvariant, PTL

\* The map and the list of the cache agree, and stay within cache.size, for
\* any number of queries that fill it.
THEOREM CacheStaysConsistent == Spec => []CacheConsistent
<1>1. ResolverInv => CacheConsistent
  BY DEF ResolverInv
<1> QED BY <1>1, ResolverInvariant, PTL

\* Every reply of Handle obeys a rule that was in force while the query was
\* handled, however often rebuildMatcher swaps the matcher.
THEOREM RulesAreRespected == Spec => []RulesRespected
<1>1. ResolverInv => RulesRespected
  BY DEF ResolverInv
<1> QED BY <1>1, ResolverInvariant, PTL

\* exchange gives up only when every upstream has failed, in any order of
\* their reports and for any number of them.
THEOREM ServfailOnlyIfAllFail == Spec => []FirstGoodWins
<1>1. ResolverInv => FirstGoodWins
  BY DEF ResolverInv
<1> QED BY <1>1, ResolverInvariant, PTL

\* Nobody but its own goroutine moves a query that has arrived.
LEMMA OwnStep ==
  ASSUME ResolverInv, Next, NEW h \in Handlers, q[h].stage # "idle", q'[h] # q[h]
  PROVE  HandleStep(h)
<1>1. QueryTypeOK /\ q[h] \in Record
  BY TypeParts DEF ResolverInv, QueryTypeOK
<1>2. q'[h] # q[h]
  OBVIOUS
<1>3. ASSUME NEW g \in Handlers, NEW k \in Keys, Receive(g, k) PROVE FALSE
  <2>1. g # h
    BY <1>3 DEF Receive
  <2> QED BY <1>1, <1>2, <1>3, <2>1 DEF Receive, QueryTypeOK
<1>4. ASSUME NEW g \in Handlers, HandleStep(g) PROVE HandleStep(h)
  <2>1. CASE g # h
    <3>1. \A r \in Replies : Reply(g, r)[h] = q[h]
      BY <1>1, <2>1, ReplyRecord
    <3>2. CASE Hit(g)
      BY <1>1, <1>2, <2>1, <3>1, <3>2, ReplyRecord DEF Hit, Replies
    <3>3. CASE Match(g)
      BY <1>1, <1>2, <2>1, <3>1, <3>3 DEF Match, Replies, QueryTypeOK
    <3>4. CASE Miss(g)
      BY <1>1, <1>2, <2>1, <3>4 DEF Miss, QueryTypeOK
    <3>5. ASSUME NEW u \in Upstreams, Fail(g, u) PROVE FALSE
      BY <1>1, <1>2, <2>1, <3>5 DEF Fail, QueryTypeOK
    <3>6. ASSUME NEW u \in Upstreams, NEW a \in Answers, Answer(g, u, a) PROVE FALSE
      BY <1>1, <1>2, <2>1, <3>6 DEF Answer, QueryTypeOK
    <3>7. CASE ExchangeEnds(g)
      BY <1>1, <1>2, <2>1, <3>1, <3>7 DEF ExchangeEnds, Replies, QueryTypeOK
    <3>8. CASE Store(g)
      BY <1>1, <1>2, <2>1, <3>1, <3>8 DEF Store, Replies
    <3>9. CASE NoPool(g)
      BY <1>1, <1>2, <2>1, <3>1, <3>9 DEF NoPool, Replies
    <3>10. CASE Known(g)
      BY <1>1, <1>2, <2>1, <3>1, <3>10 DEF Known, Gives, Replies, QueryTypeOK
    <3>11. CASE Remember(g)
      BY <1>1, <1>2, <2>1, <3>1, <3>11 DEF Remember, Gives, Replies
    <3> QED BY <1>4, <3>2, <3>3, <3>4, <3>5, <3>6, <3>7, <3>8, <3>9, <3>10, <3>11 DEF HandleStep
  <2>2. CASE g = h
    BY <1>4, <2>2
  <2> QED BY <2>1, <2>2
<1> QED BY <1>2, <1>3, <1>4 DEF Next, Tick, SwapMatcher

\* A query that looks up the cache is answered from it by Get alone.
LEMMA OnlyHitsAreCached ==
  ASSUME ResolverInv, Next, NEW h \in Handlers, q[h].stage = "lookup", q'[h].reply = "cached"
  PROVE  Hit(h)
<1>1. QueryTypeOK /\ q[h].reply = "none" /\ q[h] \in Record
  BY TypeParts DEF ResolverInv, PassedInv, QueryTypeOK
<1>2. HandleStep(h)
  <2>1. q'[h] # q[h] /\ q[h].stage # "idle"
    BY <1>1
  <2> QED BY <2>1, OwnStep
<1>3. ~Miss(h)
  BY <1>1 DEF Miss, QueryTypeOK, Record
<1> QED BY <1>2, <1>3 DEF HandleStep, Match, NoPool, Known, Remember, Fail, Answer, Asking, ExchangeEnds, Store

\* A query whose answer waits to be stored is answered by Put alone.
LEMMA OnlyStoreAnswers ==
  ASSUME ResolverInv, Next, NEW h \in Handlers, q[h].stage = "store", q'[h].reply = "answer"
  PROVE  Store(h)
<1>1. q[h].reply = "none"
  BY DEF ResolverInv, PassedInv
<1>2. HandleStep(h)
  <2>1. q'[h] # q[h] /\ q[h].stage # "idle"
    BY <1>1
  <2> QED BY <2>1, OwnStep
<1> QED BY <1>2 DEF HandleStep, Match, NoPool, Known, Remember, Hit, Miss, Fail, Answer, Asking, ExchangeEnds

\* Get serves no answer that failed, and none beyond what its records promised
\* when Put stored it, for any TTLs, with ttl_override or without; the flags of
\* an OPT record matter in the two cases only that RecordsDecide names.
THEOREM HitsStayFresh == Spec => HitsFreshByRecords
<1> DEFINE Fresh == \A h \in Handlers : ServesCached(h) => LET a == items[q[h].key].msg IN
                      /\ a.rcode = "success"
                      /\ RecordsDecide(a) => KeepsPromise(h)
<1>1. ResolverInv /\ [Next]_vars => [Fresh]_vars
  <2> SUFFICES ASSUME ResolverInv, Next, NEW h \in Handlers, ServesCached(h)
               PROVE  LET a == items[q[h].key].msg IN
                        /\ a.rcode = "success"
                        /\ RecordsDecide(a) => KeepsPromise(h)
    OBVIOUS
  <2> DEFINE e == items[q[h].key]
  <2>1. Hit(h)
    BY OnlyHitsAreCached DEF ServesCached
  <2>2. /\ q[h].key \in DOMAIN items /\ ~(now > e.expires)
        /\ q' = [Reply(h, "cached") EXCEPT ![h].left = e.expires - now]
    BY <2>1 DEF Hit, Expired, Remaining
  <2>3. /\ e \in Entry /\ e.msg.rcode = "success"
        /\ e.expires = e.stored + Lifetime(e.msg)
    BY <2>2 DEF ResolverInv, TypeOK, EntriesInv
  <2> HIDE DEF e
  <2>4. QueryTypeOK
    BY TypeParts DEF ResolverInv
  <2>5. q'[h].left = e.expires - now
    <3>1. Reply(h, "cached") \in [Handlers -> Record]
      BY <2>4, ReplyRecord DEF Replies
    <3> QED BY <2>2, <3>1 DEF Record
  <2>6. /\ now \in Nat /\ e.expires \in Nat
        /\ ~(now > e.expires)
        /\ e.expires = e.stored + Lifetime(e.msg)
    BY <2>2, <2>3, <2>4 DEF Entry, QueryTypeOK
  <2>7. e.expires - now \in 0..(e.expires - now)
    BY <2>6
  <2>8. ASSUME RecordsDecide(e.msg) PROVE q'[h].left \in 0..(e.stored + Promise(e.msg) - now)
    <3>1. /\ e.stored \in Nat /\ Lifetime(e.msg) \in Nat
          /\ Promise(e.msg) \in Nat /\ Lifetime(e.msg) <= Promise(e.msg)
      BY <2>3, <2>8, LifetimeNat, LifetimeKeepsPromise DEF Entry
    <3> QED BY <2>5, <2>6, <2>7, <3>1
  <2> QED BY <2>3, <2>8 DEF e, KeepsPromise
<1>2. Spec => [][Fresh]_vars
  BY <1>1, ResolverInvariant, PTL DEF Spec
<1> QED BY <1>2 DEF HitsFreshByRecords

\* All that are given a fake address for a name get the same one, inside the
\* range and off its network and broadcast addresses, however many handlers
\* race in ForA and ForAAAA, for any ranges and any hashes.
THEOREM FakeAddressesStable == Spec => []OneFakeAddress
<1>1. ResolverInv => OneFakeAddress
  <2> SUFFICES ASSUME ResolverInv, NEW k \in Keys
               PROVE  /\ Cardinality(given[k]) <= 1
                      /\ given[k] # {} => PoolOf(k) # None /\ given[k] \subseteq Usable(k)
    BY DEF OneFakeAddress
  <2>1. given[k] \subseteq {Fake(k)} /\ (given[k] # {} => PoolOf(k) # None)
    BY DEF ResolverInv, FakeInv
  <2>2. CASE given[k] = {}
    BY <2>2, FS_EmptySet
  <2>3. CASE given[k] = {Fake(k)}
    <3>1. Cardinality(given[k]) = 1
      BY <2>3, FS_Singleton
    <3> QED BY <2>1, <2>3, <3>1, FakeIsUsable
  <2> QED BY <2>1, <2>2, <2>3
<1> QED BY <1>1, ResolverInvariant, PTL

---------------------------------------------------------------------------
(* Refinement of Cache *)

\* The list holds the keys of the map, once each.
LEMMA CacheList ==
  ASSUME ResolverInv
  PROVE  /\ lru \in Seq(Keys) /\ NoTwice(lru)
         /\ KeysOf(lru) = C!Present
         /\ Cardinality(C!Present) = Len(lru)
         /\ Len(lru) <= MaxSize
<1>1. lru \in Seq(Keys) /\ NoTwice(lru) /\ KeysOf(lru) = DOMAIN items /\ Len(lru) <= MaxSize
  BY DEF ResolverInv, TypeOK, CacheConsistent, NoTwice, KeysOf
<1> QED BY <1>1, KeysCounted DEF C!Present

\* The cache counts as FiniteSets does.
LEMMA CacheCounts == \A S : C!Cardinality(S) = Cardinality(S)
  BY DEF C!Cardinality, Cardinality

\* A push makes its key the last one used.
LEMMA PushUses ==
  ASSUME ResolverInv, NEW k \in Keys
  PROVE  Aged(Pushed(k)) = C!UsedLast(k, C!Present)
<1>1. Pushed(k) = Front(lru, k)
  BY DEF Pushed, Front
<1>2. Aged(Front(lru, k)) = {p \in Aged(lru) : p[1] # k /\ p[2] # k} \cup {<<j, k>> : j \in KeysOf(lru) \ {k}}
  BY CacheList, FrontAged
<1> QED BY <1>1, <1>2, CacheList DEF C!UsedLast, C!Others

\* The cache begins empty.
LEMMA CacheInit == Init => C!Init
<1> SUFFICES ASSUME Init PROVE C!Init
  OBVIOUS
<1>1. lru = <<>> /\ items = [k \in {} |-> None]
  BY DEF Init
<1>2. Aged(lru) = {}
  <2> SUFFICES ASSUME NEW p \in Aged(lru) PROVE FALSE
    OBVIOUS
  <2>1. PICK i \in 1..Len(lru) : TRUE
    BY AgedPlaces
  <2> QED BY <1>1, <2>1
<1>3. items = [k \in {} |-> k]
  BY <1>1
<1> QED BY <1>2, <1>3 DEF C!Init

\* A hit is a use of its entry.
LEMMA HitUses ==
  ASSUME ResolverInv, NEW h \in Handlers, Hit(h)
  PROVE  q[h].key \in Keys /\ C!Use(q[h].key)
<1> DEFINE k == q[h].key
<1>1. k \in DOMAIN items /\ k \in Keys /\ lru' = Pushed(k) /\ items' = items
  BY DEF Hit, ResolverInv, TypeOK
<1> HIDE DEF k
<1>2. Aged(lru)' = C!UsedLast(k, C!Present)
  <2>1. Aged(lru') = C!UsedLast(k, C!Present)
    BY <1>1, PushUses
  <2> QED BY <2>1 DEF Aged
<1>3. C!Use(k)
  BY <1>1, <1>2 DEF C!Use, C!Present
<1> QED BY <1>1, <1>3 DEF k

\* A miss forgets the entry that expired, or nothing.
LEMMA MissForgets ==
  ASSUME ResolverInv, NEW h \in Handlers, Miss(h)
  PROVE  C!Next
<1> DEFINE k == q[h].key
<1>1. k \in Keys
  BY DEF Miss, ResolverInv, PassedInv
<1>2. lru' = Without(lru, k) /\ items' = [x \in DOMAIN items \ {k} |-> items[x]]
  BY DEF Miss, Drop
<1> HIDE DEF k
<1>3. Aged(lru)' = C!Others(k)
  <2>1. Aged(lru') = C!Others(k)
    BY <1>2, CacheList, WithoutAged DEF C!Others
  <2> QED BY <2>1 DEF Aged
<1>4. C!Forget(k)
  BY <1>2, <1>3 DEF C!Forget, C!Present
<1> QED BY <1>1, <1>4 DEF C!Next

\* A stored answer replaces an entry, takes a free place, or makes the entry
\* go that was not used for the longest time.
LEMMA StoreStores ==
  ASSUME ResolverInv, NEW h \in Handlers, Store(h)
  PROVE  IF Lifetime(q[h].kept) = 0 THEN UNCHANGED C!vars
         ELSE q[h].key \in Keys /\ C!Put(q[h].key)
<1> DEFINE k == q[h].key
           a == q[h].kept
           l == Pushed(k)
           e == [msg |-> a, expires |-> now + Lifetime(a), stored |-> now]
           s == [x \in DOMAIN items \cup {k} |-> IF x = k THEN e ELSE items[x]]
           full == k \notin DOMAIN items /\ Len(l) > MaxSize
<1>1. k \in Keys /\ a \in Answers /\ now \in Nat
  BY DEF Store, ResolverInv, TypeOK, RaceInv, PassedInv
<1>2. CASE Lifetime(a) = 0
  <2>1. items' = items /\ lru' = lru
    BY <1>2 DEF Store, cacheVars
  <2> QED BY <1>2, <2>1 DEF C!vars, Aged
<1>3. CASE Lifetime(a) # 0
  <2>1. e \in Entry
    BY <1>1, LifetimeNat DEF Entry
  <2>2. /\ DOMAIN s = DOMAIN items \cup {k}
        /\ s[k] = e
        /\ \A x \in DOMAIN items \ {k} : s[x] = items[x]
    OBVIOUS
  <2>3. /\ l \in Seq(Keys) /\ NoTwice(l) /\ KeysOf(l) = DOMAIN items \cup {k}
        /\ Len(l) = IF k \in DOMAIN items THEN Len(lru) ELSE Len(lru) + 1
    <3>1. Pushed(k) = Front(lru, k)
      BY DEF Pushed, Front
    <3> HIDE DEF k, l
    <3>2. /\ Front(lru, k) \in Seq(Keys) /\ NoTwice(Front(lru, k))
          /\ KeysOf(Front(lru, k)) = KeysOf(lru) \cup {k}
          /\ Len(Front(lru, k)) = IF k \in KeysOf(lru) THEN Len(lru) ELSE Len(lru) + 1
      BY <1>1, CacheList, PushedKey
    <3> QED BY <3>1, <3>2, CacheList DEF l, C!Present
  <2>4. Aged(l) = C!UsedLast(k, C!Present)
    BY <1>1, PushUses
  <2>5. (full => lru' = SubSeq(l, 1, Len(l) - 1) /\ items' = Drop(s, l[Len(l)]))
        /\ (~full => lru' = l /\ items' = s)
    BY <1>3 DEF Store
  <2> HIDE DEF k, a, l, e, s
  <2>6. Len(lru) \in Nat /\ MaxSize \in Nat \ {0}
    BY CacheList, CacheSizePositive
  <2>7. ASSUME full PROVE C!Put(k)
    <3> DEFINE o == l[Len(l)]
    <3>1. k \notin DOMAIN items /\ Len(l) = Len(lru) + 1 /\ Len(lru) = MaxSize
      BY <2>3, <2>6, <2>7, CacheList
    <3>2. l # <<>> /\ Len(l) \in 2..Len(l)
      BY <2>3, <2>6, <3>1
    <3>3. lru' = SubSeq(l, 1, Len(l) - 1) /\ items' = [x \in DOMAIN s \ {o} |-> s[x]]
      BY <2>5, <2>7 DEF Drop
    <3>4. /\ Aged(lru') = {p \in Aged(l) : p[1] # o /\ p[2] # o}
          /\ \A j \in KeysOf(l) \ {o} : <<o, j>> \in Aged(l)
      BY <2>3, <3>2, <3>3, EvictedAged
    <3>5. o \in KeysOf(l) /\ o # k
      <4>1. l[1] = k
        BY <1>1, CacheList, FrontShape DEF l, Pushed, Front
      <4>2. 1 \in 1..Len(l) /\ Len(l) \in 1..Len(l) /\ Len(l) # 1
        BY <2>6, <3>1
      <4> QED BY <2>3, <4>1, <4>2 DEF NoTwice, KeysOf
    <3> HIDE DEF o
    <3>6. o \in C!Present /\ o \in Keys
      BY <2>3, <3>5 DEF C!Present, ResolverInv, TypeOK
    <3>7. C!Oldest(o)
      <4>1. ASSUME NEW j \in C!Present \ {o} PROVE <<o, j>> \in Aged(lru)
        <5>1. <<o, j>> \in Aged(l) /\ j # k
          BY <2>3, <3>1, <3>4, <4>1 DEF C!Present
        <5> QED BY <2>4, <5>1 DEF C!UsedLast, C!Others
      <4> QED BY <3>6, <4>1 DEF C!Oldest
    <3>8. C!Holding(k, C!Present \ {o})
      <4>1. DOMAIN items' = (C!Present \ {o}) \cup {k}
        BY <2>2, <3>3, <3>5 DEF C!Present
      <4>2. items'[k] = e /\ \A x \in (C!Present \ {o}) \ {k} : items'[x] = items[x]
        BY <2>2, <3>3, <3>5 DEF C!Present
      <4> QED BY <2>1, <4>1, <4>2 DEF C!Holding
    <3>9. Aged(lru)' = {p \in C!UsedLast(k, C!Present) : p[1] # o /\ p[2] # o}
      BY <2>4, <3>4 DEF Aged
    <3>10. k \notin C!Present /\ Cardinality(C!Present) = MaxSize
      BY <3>1, CacheList DEF C!Present
    <3>11. C!StoreFor(k, o)
      BY <3>7, <3>8, <3>9, <3>10, CacheCounts DEF C!StoreFor
    <3> QED BY <3>6, <3>11 DEF C!Put
  <2>8. ASSUME ~full PROVE C!Put(k)
    <3>1. lru' = l /\ items' = s
      BY <2>5, <2>8
    <3>2. k \in C!Present \/ Cardinality(C!Present) < MaxSize
      BY <2>3, <2>6, <2>8, CacheList DEF C!Present
    <3>3. C!Holding(k, C!Present)
      BY <2>1, <2>2, <3>1 DEF C!Holding, C!Present
    <3>4. Aged(lru)' = C!UsedLast(k, C!Present)
      BY <2>4, <3>1 DEF Aged
    <3>5. C!Store(k)
      BY <3>2, <3>3, <3>4, CacheCounts DEF C!Store
    <3> QED BY <3>5 DEF C!Put
  <2>9. C!Put(k)
    BY <2>7, <2>8
  <2>10. Lifetime(q[h].kept) # 0 /\ q[h].key \in Keys
    BY <1>1, <1>3 DEF a, k
  <2>11. C!Put(q[h].key)
    BY <2>9 DEF k
  <2> QED BY <2>10, <2>11
<1> QED BY <1>2, <1>3

\* Every step of the resolver is a step of the cache, or leaves it alone.
LEMMA CacheStep ==
  ASSUME ResolverInv, [Next]_vars
  PROVE  [C!Next]_C!vars
<1>1. ASSUME UNCHANGED cacheVars PROVE UNCHANGED C!vars
  BY <1>1 DEF cacheVars, C!vars, Aged
<1>2. ASSUME NEW h \in Handlers, HandleStep(h) PROVE [C!Next]_C!vars
  <2>1. CASE Hit(h)
    BY <2>1, HitUses DEF C!Next
  <2>2. CASE Miss(h)
    BY <2>2, MissForgets
  <2>3. CASE Store(h)
    BY <2>3, StoreStores DEF C!Next
  <2>4. CASE ~Hit(h) /\ ~Miss(h) /\ ~Store(h)
    <3>1. UNCHANGED cacheVars
      BY <1>2, <2>4 DEF HandleStep, Match, NoPool, Known, Remember, Fail, Answer, ExchangeEnds
    <3> QED BY <1>1, <3>1
  <2> QED BY <2>1, <2>2, <2>3, <2>4
<1>3. CASE UNCHANGED cacheVars
  BY <1>1, <1>3
<1> QED BY <1>2, <1>3 DEF Next, Tick, SwapMatcher, Receive, vars

\* Map and list implement the cache that evicts only the entry that was not
\* used for the longest time, for any size and any number of handlers.
THEOREM ResolverImplementsCache == Spec => ImplementsCache
<1>1. ResolverInv /\ [Next]_vars => [C!Next]_C!vars
  BY CacheStep
<1>2. ResolverInv /\ [Next]_vars => [EntriesUsed]_vars
  <2> SUFFICES ASSUME ResolverInv, Next, NEW h \in Handlers
               PROVE  /\ q[h].stage = "lookup" /\ q'[h].reply = "cached" => C!Use(q[h].key)
                      /\ q[h].stage = "store" /\ q'[h].reply = "answer" /\ Lifetime(q[h].kept) > 0
                           => C!Put(q[h].key)
    BY DEF EntriesUsed, ServesCached
  <2>1. ASSUME q[h].stage = "lookup", q'[h].reply = "cached" PROVE C!Use(q[h].key)
    BY <2>1, OnlyHitsAreCached, HitUses
  <2>2. ASSUME q[h].stage = "store", q'[h].reply = "answer", Lifetime(q[h].kept) > 0
        PROVE  C!Put(q[h].key)
    <3>1. Lifetime(q[h].kept) # 0
      BY <2>2
    <3> QED BY <2>2, <3>1, OnlyStoreAnswers, StoreStores
  <2> QED BY <2>1, <2>2
<1>3. Spec => C!Spec
  BY CacheInit, <1>1, ResolverInvariant, PTL DEF Spec, C!Spec
<1>4. Spec => [][EntriesUsed]_vars
  BY <1>2, ResolverInvariant, PTL DEF Spec
<1> QED BY <1>3, <1>4 DEF ImplementsCache
=============================================================================
