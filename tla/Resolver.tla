------------------------------ MODULE Resolver ------------------------------
(***************************************************************************)
(* Queries of the dns subcommand (cmd/dns: resolver.go, upstream.go,       *)
(* cache.go, fakeip.go).  Every query is handled by a goroutine of its     *)
(* own: it looks the name up in the matcher that is active at that moment, *)
(* then in the cache, then asks all upstreams at once, keeps the first     *)
(* good answer, waits for the other upstreams and stores the answer; or it *)
(* is given a fake address.                                                *)
(*                                                                         *)
(* A key is a name with a query type.  Get and Put hold the mutex of the   *)
(* cache; the two readings of the clock in Get fall into one second.       *)
(***************************************************************************)
EXTENDS Integers, Sequences, FiniteSets, FakeIP

CONSTANTS
  Handlers,     \* goroutines that handle queries
  Keys,         \* keys that are asked for
  Upstreams,    \* configured upstreams
  Answers,      \* what an upstream may answer: [rcode, ttl, opt]
  MaxTTL,       \* largest value of a TTL field; no records, or no OPT record
  Enabled,      \* cache.enabled
  Size,         \* cache.size
  Matchers,     \* what matchers may decide: functions from Keys to Verdicts
  TTLOverride,  \* cache.ttl_override
  DefaultTTL,   \* defaultCacheTTL
  Type,         \* Type[k]: the query type of k
  Hash,         \* Hash[k]: the hash of the name of k
  V4, V6,       \* fakeip.ipv4_range and ipv6_range, or None
  None,         \* no answer, no key, no range
  MaxTime       \* bound on the clock, in seconds

Rcodes   == {"success", "nxdomain", "servfail"}
Verdicts == {"none", "direct", "fakeip", "block"}

ASSUME ResolverAssumption ==
  /\ IsFiniteSet(Keys)
  /\ Answers \subseteq [rcode : Rcodes, ttl : 0..MaxTTL, opt : 0..MaxTTL]
  /\ MaxTTL \in Nat
  /\ Enabled \in BOOLEAN
  /\ Matchers \subseteq [Keys -> Verdicts]
  /\ Size \in Int
  /\ TTLOverride \in BOOLEAN
  /\ DefaultTTL \in Nat \ {0}
  /\ Type \in [Keys -> {"A", "AAAA", "other"}]
  /\ Hash \in [Keys -> Nat]
  /\ V4 \in Ranges \cup {None}
  /\ V6 \in Ranges \cup {None}
  /\ None \notin Answers \cup Keys \cup Ranges
  /\ MaxTime \in Nat

VARIABLES
  now,      \* the clock
  rules,    \* rules[k]: action of the active matcher for k
  q,        \* q[h]: the query handler h works on, or its last one
  items,    \* the map of the cache, from keys to entries
  lru,      \* its list, most recently used key first
  fakes,    \* v4Cache and v6Cache: from keys to fake addresses
  given,    \* given[k]: the fake addresses that were ever answered for k
  seen      \* seen[h]: the actions in force since the query of h arrived

cacheVars == <<items, lru>>
fakeVars  == <<fakes, given>>
vars      == <<now, rules, q, cacheVars, fakeVars, seen>>

Stages  == {"idle", "match", "pool", "compute", "lookup", "exchange", "store"}
Replies == {"none", "nxdomain", "fake", "cached", "answer", "servfail"}

\* newDNSCache
MaxSize == IF Size <= 0 THEN 1 ELSE Size

\* Remove of the list element of k.
Without(s, k) == IF \A i \in 1..Len(s) : s[i] # k THEN s
                 ELSE LET i == CHOOSE i \in 1..Len(s) : s[i] = k
                      IN  SubSeq(s, 1, i - 1) \o SubSeq(s, i + 1, Len(s))

\* Variant: an entry that is used again is pushed again.
Pushed_Twice(k) == <<k>> \o lru

\* A new entry is pushed to the front, one that is used again moves there.
Pushed(k) == <<k>> \o Without(lru, k)

Drop(f, k) == [x \in DOMAIN f \ {k} |-> f[x]]

\* The time left in an entry, which a hit carries in all of its records.
Remaining(e) == e.expires - now

\* Variant: an entry is kept as long as it is used.
Expired_Never(e) == FALSE

Expired(e) == now > e.expires

Good(a) == a.rcode # "servfail"

\* Variant: the additional section alone decides, if there is one.
minAnswerTTL_Last(a) == LET m == IF a.opt = MaxTTL THEN a.ttl ELSE a.opt IN
  IF m = MaxTTL THEN 0 ELSE m

\* The lowest of the TTL fields, the flags of an OPT record among them.
minAnswerTTL(a) == LET m == IF a.opt < a.ttl THEN a.opt ELSE a.ttl IN
  IF m = MaxTTL THEN 0 ELSE m

\* maybeCache: the lifetime of an answer in the cache, 0 to leave it out.
Lifetime(a) == IF ~Enabled \/ a.rcode # "success" THEN 0
               ELSE IF TTLOverride /\ minAnswerTTL(a) = 0 THEN DefaultTTL
               ELSE minAnswerTTL(a)

\* The range that ForA or ForAAAA takes an address for k from, if any.
PoolOf(k) == IF Type[k] = "A" THEN V4 ELSE IF Type[k] = "AAAA" THEN V6 ELSE None

\* What computeV4 or computeV6 makes of the name of k.
Fake(k) == IF Type[k] = "A" THEN ComputeV4(V4, Hash[k]) ELSE ComputeV6(V6, Hash[k])

\* A handler that has no query, or has just got one.
Query(stage, k) == [stage |-> stage, key |-> k, waiting |-> {}, failed |-> {}, kept |-> None,
                    reply |-> "none", left |-> 0]

\* Handler h replies and is free again.
Reply(h, r) == [q EXCEPT ![h] = [Query("idle", None) EXCEPT !.reply = r, !.failed = q[h].failed]]

Init == /\ now = 0
        /\ rules = [k \in Keys |-> "none"]
        /\ q = [h \in Handlers |-> Query("idle", None)]
        /\ items = [k \in {} |-> None]
        /\ lru = <<>>
        /\ fakes = [k \in {} |-> 0]
        /\ given = [k \in Keys |-> {}]
        /\ seen = [h \in Handlers |-> {}]

---------------------------------------------------------------------------
(* Environment *)

Tick == /\ now < MaxTime
        /\ now' = now + 1
        /\ UNCHANGED <<rules, q, cacheVars, fakeVars, seen>>

\* rebuildMatcher swaps a matcher in.
SwapMatcher(m) == /\ rules # m
                  /\ rules' = m
                  /\ seen' = [h \in Handlers |-> IF q[h].stage = "idle" THEN seen[h]
                                                ELSE seen[h] \cup {m[q[h].key]}]
                  /\ UNCHANGED <<now, q, cacheVars, fakeVars>>

\* A query with a question arrives; one without is refused at once.
Receive(h, k) == /\ q[h].stage = "idle"
                 /\ q' = [q EXCEPT ![h] = Query("match", k)]
                 /\ seen' = [seen EXCEPT ![h] = {rules[k]}]
                 /\ UNCHANGED <<now, rules, cacheVars, fakeVars>>

---------------------------------------------------------------------------
(* Handle *)

\* Variant: rules apply only to what the cache does not hold.
Match_CacheFirst(h) ==
  /\ q[h].stage = "match"
  /\ \/ q[h].key \notin DOMAIN items /\ rules[q[h].key] = "block" /\ q' = Reply(h, "nxdomain")
     \/ q[h].key \notin DOMAIN items /\ rules[q[h].key] = "fakeip" /\ q' = [q EXCEPT ![h].stage = "pool"]
     \/ /\ q[h].key \in DOMAIN items \/ rules[q[h].key] \in {"none", "direct"}
        /\ q' = [q EXCEPT ![h].stage = "lookup"]
  /\ UNCHANGED <<now, rules, cacheVars, fakeVars, seen>>

\* The matcher decides; direct and no match go on to the upstreams.
Match(h) ==
  /\ q[h].stage = "match"
  /\ \/ rules[q[h].key] = "block" /\ q' = Reply(h, "nxdomain")
     \/ rules[q[h].key] = "fakeip" /\ q' = [q EXCEPT ![h].stage = "pool"]
     \/ rules[q[h].key] \in {"none", "direct"} /\ q' = [q EXCEPT ![h].stage = "lookup"]
  /\ UNCHANGED <<now, rules, cacheVars, fakeVars, seen>>

---------------------------------------------------------------------------
(* fakeipResponse *)

\* The fake reply to h names address a.
Gives(h, a) == q' = Reply(h, "fake") /\ given' = [given EXCEPT ![q[h].key] = @ \cup {a}]

\* Another query type, or no range for it: a reply without records.
NoPool(h) == /\ q[h].stage = "pool"
             /\ PoolOf(q[h].key) = None
             /\ q' = Reply(h, "fake")
             /\ UNCHANGED <<now, rules, cacheVars, fakeVars, seen>>

\* ForA, ForAAAA: look under the read lock ...
Known(h) == LET k == q[h].key IN
  /\ q[h].stage = "pool"
  /\ PoolOf(k) # None
  /\ IF k \in DOMAIN fakes THEN Gives(h, fakes[k])
     ELSE q' = [q EXCEPT ![h].stage = "compute"] /\ UNCHANGED given
  /\ UNCHANGED <<now, rules, cacheVars, fakes, seen>>

\* ... compute without it, and write under the write lock.
Remember(h) == LET k == q[h].key IN
  /\ q[h].stage = "compute"
  /\ fakes' = [x \in DOMAIN fakes \cup {k} |-> IF x = k THEN Fake(k) ELSE fakes[x]]
  /\ Gives(h, Fake(k))
  /\ UNCHANGED <<now, rules, cacheVars, seen>>

---------------------------------------------------------------------------
(* Get *)

\* Variant: Get does not move the entry to the front.
Hit_NotMoved(h) == LET k == q[h].key IN
  /\ q[h].stage = "lookup"
  /\ k \in DOMAIN items
  /\ ~Expired(items[k])
  /\ q' = [Reply(h, "cached") EXCEPT ![h].left = Remaining(items[k])]
  /\ UNCHANGED <<now, rules, cacheVars, fakeVars, seen>>

\* Get finds an entry that has not expired.
Hit(h) == LET k == q[h].key IN
  /\ q[h].stage = "lookup"
  /\ k \in DOMAIN items
  /\ ~Expired(items[k])
  /\ lru' = Pushed(k)
  /\ q' = [Reply(h, "cached") EXCEPT ![h].left = Remaining(items[k])]
  /\ UNCHANGED <<now, rules, items, fakeVars, seen>>

\* Get finds nothing, or an expired entry, which it removes.
Miss(h) == LET k == q[h].key IN
  /\ q[h].stage = "lookup"
  /\ k \in DOMAIN items => Expired(items[k])
  /\ items' = Drop(items, k)
  /\ lru' = Without(lru, k)
  /\ q' = [q EXCEPT ![h].stage = "exchange", ![h].waiting = Upstreams]
  /\ UNCHANGED <<now, rules, fakeVars, seen>>

---------------------------------------------------------------------------
(* Exchange *)

Asking(h, u) == q[h].stage = "exchange" /\ u \in q[h].waiting

\* Upstream u gives the first good answer to the query of h: the others are
\* cancelled, and neither their reports nor earlier failures matter any more.
Answer(h, u, a) ==
  /\ Asking(h, u)
  /\ Good(a)
  /\ q' = [q EXCEPT ![h].waiting = {}, ![h].failed = {}, ![h].kept = a]
  /\ UNCHANGED <<now, rules, cacheVars, fakeVars, seen>>

\* Variant: the first result ends the race, good or not.
Fail_EndsRace(h, u) ==
  /\ Asking(h, u)
  /\ q' = [q EXCEPT ![h].waiting = {}, ![h].failed = @ \cup {u}]
  /\ UNCHANGED <<now, rules, cacheVars, fakeVars, seen>>

\* An error, the timeout or SERVFAIL.
Fail(h, u) ==
  /\ Asking(h, u)
  /\ q' = [q EXCEPT ![h].waiting = @ \ {u}, ![h].failed = @ \cup {u}]
  /\ UNCHANGED <<now, rules, cacheVars, fakeVars, seen>>

\* Variant: the channel of results is not closed.
ExchangeEnds_NotClosed(h) ==
  /\ q[h].stage = "exchange"
  /\ q[h].waiting = {}
  /\ q[h].kept # None
  /\ q' = [q EXCEPT ![h].stage = "store"]
  /\ UNCHANGED <<now, rules, cacheVars, fakeVars, seen>>

\* All upstreams have failed, or have reported to drainResults.
ExchangeEnds(h) ==
  /\ q[h].stage = "exchange"
  /\ q[h].waiting = {}
  /\ q' = IF q[h].kept = None THEN Reply(h, "servfail") ELSE [q EXCEPT ![h].stage = "store"]
  /\ UNCHANGED <<now, rules, cacheVars, fakeVars, seen>>

---------------------------------------------------------------------------
(* maybeCache, Put *)

\* Put of a new entry evicts the least recently used one when the list is too long.
Store(h) == LET k == q[h].key
                a == q[h].kept
                l == Pushed(k)
                s == [x \in DOMAIN items \cup {k} |->
                        IF x = k THEN [msg |-> a, expires |-> now + Lifetime(a), stored |-> now] ELSE items[x]]
                full == k \notin DOMAIN items /\ Len(l) > MaxSize
            IN
  /\ q[h].stage = "store"
  /\ q' = Reply(h, "answer")
  /\ IF Lifetime(a) = 0 THEN UNCHANGED cacheVars
     ELSE IF full THEN /\ lru' = SubSeq(l, 1, Len(l) - 1)
                       /\ items' = Drop(s, l[Len(l)])
     ELSE lru' = l /\ items' = s
  /\ UNCHANGED <<now, rules, fakeVars, seen>>

HandleStep(h) == \/ Match(h) \/ NoPool(h) \/ Known(h) \/ Remember(h)
                 \/ Hit(h) \/ Miss(h)
                 \/ \E u \in Upstreams : Fail(h, u) \/ \E a \in Answers : Answer(h, u, a)
                 \/ ExchangeEnds(h) \/ Store(h)

Next == \/ Tick
        \/ \E m \in Matchers : SwapMatcher(m)
        \/ \E h \in Handlers : HandleStep(h) \/ \E k \in Keys : Receive(h, k)

Spec == Init /\ [][Next]_vars

\* Goroutines run, and every upstream reports by its timeout.
Fairness == \A h \in Handlers : WF_vars(HandleStep(h))

FairSpec == Spec /\ Fairness

---------------------------------------------------------------------------
(* Properties *)

Entry == [msg : Answers, expires : Nat, stored : Nat]

TypeOK == /\ now \in 0..MaxTime
          /\ rules \in [Keys -> Verdicts]
          /\ q \in [Handlers -> [stage : Stages, key : Keys \cup {None}, waiting : SUBSET Upstreams,
                                 failed : SUBSET Upstreams, kept : Answers \cup {None},
                                 reply : Replies, left : Nat]]
          /\ DOMAIN items \subseteq Keys
          /\ \A k \in DOMAIN items : items[k] \in Entry
          /\ lru \in Seq(Keys)
          /\ DOMAIN fakes \subseteq Keys
          /\ \A k \in DOMAIN fakes : fakes[k] \in Nat
          /\ given \in [Keys -> SUBSET Nat]
          /\ seen \in [Handlers -> SUBSET Verdicts]

\* The map and the list of the cache hold the same keys, each once, and never
\* more than cache.size of them, whatever queries fill it at the same time.
CacheConsistent == /\ DOMAIN items = {lru[i] : i \in 1..Len(lru)}
                   /\ \A i, j \in 1..Len(lru) : lru[i] = lru[j] => i = j
                   /\ Len(lru) <= MaxSize

\* How long an answer may be used by its records: their lowest TTL, replaced by
\* the default if it is 0 and cache.ttl_override is set; no records promise nothing.
Promise(a) == IF a.ttl = MaxTTL THEN 0
              ELSE IF TTLOverride /\ a.ttl = 0 THEN DefaultTTL ELSE a.ttl

\* Handler h, about to reply from the cache, sends a TTL that ends no later than
\* the records of the answer promised when it was stored.
KeepsPromise(h) == LET e == items[q[h].key] IN q'[h].left \in 0..(e.stored + Promise(e.msg) - now)

ServesCached(h) == q[h].stage = "lookup" /\ q'[h].reply = "cached"

\* A hit lives by the records of its answer, "0 if no records are present". The
\* code lets the TTL field of an OPT record, which holds flags, decide as well.
HitsFresh == [][\A h \in Handlers : ServesCached(h) => KeepsPromise(h)]_vars

\* There are records, and no OPT field of 0 has had a TTL replaced by a longer default.
RecordsDecide(a) == /\ a.ttl # MaxTTL
                    /\ TTLOverride => a.opt # 0 \/ a.ttl = 0 \/ a.ttl >= DefaultTTL

\* A hit comes from an answer that succeeded and, those two cases apart, the TTL
\* it carries ends no later than the records promised, whatever else the OPT
\* record held and however often the entry was used.
HitsFreshByRecords ==
  [][\A h \in Handlers : ServesCached(h) => LET a == items[q[h].key].msg IN
       /\ a.rcode = "success"
       /\ RecordsDecide(a) => KeepsPromise(h)]_vars

\* The addresses of a range a client may be given: in an IPv4 range of four or
\* more not the first, its network address, nor the last, its broadcast address.
Usable(k) == LET r == PoolOf(k) IN
  IF Type[k] = "A" /\ r.size >= 4 THEN Block(r) \ {r.base, r.base + r.size - 1} ELSE Block(r)

\* "Deterministically maps domain to IP within the configured range": whatever
\* queries for a name race, all that get an address get the same one.
OneFakeAddress == \A k \in Keys :
  /\ Cardinality(given[k]) <= 1
  /\ given[k] # {} => PoolOf(k) # None /\ given[k] \subseteq Usable(k)

\* A reply obeys rules that were in force while the query was handled: a
\* name that was blocked all the time is refused, cached or not.
RulesRespected == \A h \in Handlers :
  /\ q[h].reply = "nxdomain" => "block" \in seen[h]
  /\ q[h].reply = "fake" => "fakeip" \in seen[h]
  /\ q[h].reply \in {"cached", "answer", "servfail"} => seen[h] \cap {"none", "direct"} # {}

\* "If all upstreams fail, SERVFAIL": and only then.
FirstGoodWins == \A h \in Handlers : q[h].reply = "servfail" => q[h].failed = Upstreams

\* Every query is answered, whatever the upstreams and the other queries do.
QueryAnswered == \A h \in Handlers : (q[h].stage # "idle") ~> (q[h].stage = "idle")

---------------------------------------------------------------------------
(* Refinement *)

\* The pairs of keys of a list, most recently used first, as <<older, newer>>.
Aged(s) == {<<s[p[1]], s[p[2]]>> : p \in {p \in (1..Len(s)) \X (1..Len(s)) : p[1] > p[2]}}

C == INSTANCE Cache WITH Entries <- Entry, Capacity <- MaxSize, entries <- items, older <- Aged(lru)

\* Every hit uses its entry, and every answer with a lifetime is stored.
EntriesUsed == \A h \in Handlers :
  /\ ServesCached(h) => C!Use(q[h].key)
  /\ q[h].stage = "store" /\ q'[h].reply = "answer" /\ Lifetime(q[h].kept) > 0 => C!Put(q[h].key)

\* Map and list together are a cache of cache.size entries that evicts the one
\* that was not used for the longest time, and only for want of room.
ImplementsCache == C!Spec /\ [][EntriesUsed]_vars
=============================================================================
