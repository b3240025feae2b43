# infra-helper: TLA+ verification project

infra-helper is one Go binary with four subcommands (`dns`, `list-updater`, `relocator`, `stup`) on a shared process
lifecycle. This directory holds TLA+ models of its stateful parts, TLC configurations that check them on small
instances, and proofs that TLAPS checks for every instance. `PROJECT.json` lists runs, mutants, theorems, hazards and,
for every modelled definition, the source lines it stands for.

Contents: 1 inventory, 2 modules and code, 3 runs, 4 bounds, 5 fairness, 6 proofs, 7 abstractions, 8 what is not
modelled, 9 findings, 10 plan.

## 1. Inventory

| component | source | state | operations | what makes it correct |
|---|---|---|---|---|
| process lifecycle | `pkg/app/app.go`, `cmd/root.go`, `main.go` | job registry, WaitGroup, context, watcher and waiter goroutines | Init, AddJob/onStop, Cancel, signal, cobra hooks, exits | ends when asked and only then; waits for its jobs; never hangs |
| metrics server, logger, version | `pkg/app/metrics.go`, `logger.go`, `version.go` | one HTTP server, health flags | start, stop | its failure harms no command |
| relocator pollers and pipeline | `cmd/relocator/internal/relocator/{pipeline,poller,poster,service,types}.go` | listing, object in hand, work files, trigger channels | poll, dedup, download, extract, POST with retries, record, delete, quarantine | at-least-once delivery; nothing deleted undelivered; no repeats; no leaks |
| relocator store | `store.go` (bolt) | processed records, ring of events, counters | IsProcessed, MarkProcessed, AppendEvent, UpdateStats, Close | a record is the truth about a content; counters fit together; the ring keeps the newest events |
| relocator archives | `archive.go` | none | open and decode zip, 7z, gz, tar | all JSON files, or an error |
| relocator page | `http.go`, `web/app.js` | none | status, events, files, manual poll | a manual poll is served |
| list-updater | `cmd/listUpdater/internal/listupdater/{sync,plain,service}.go` | original, plain and category files with their `.tmp` | refresh, convert, invalidate, serve, generate on request | served files are whole, never ahead, settle on the current version |
| dns rulesets | `cmd/dns/internal/dns/ruleset.go` | cached files, matcher pointer, reload and tick channels, timers | refresh all/one, rebuild, swap, reload, shutdown | matcher = files; no request lost; old data survives failures; shutdown ends |
| dns matcher | `matcher.go` | trie, map, keyword and regex lists | Add*, Lookup | highest action of all matching rules |
| dns cache | `cache.go` | map and LRU list under a mutex | Get, Put, evict | map = list, bounded, never stale |
| dns resolver, upstreams | `resolver.go`, `upstream.go` | one goroutine per query and upstream | match, cache, race, drain, store | rules respected; SERVFAIL only if all fail; always answers |
| dns listeners, admin | `server.go`, `admin.go`, `service.go` | servers | serve, POST /reload, shutdown | lifecycle |
| dns fake addresses | `fakeip.go` | two ranges, two caches of addresses | ForA, ForAAAA | one address per name, inside the range, never network or broadcast address |
| stup | `cmd/stup/...` | server; installer writes a systemd unit | serve, --install | lifecycle |

How they interact:

- Every subcommand calls `app.AddJob` for itself and for each server it starts; onStop gives the name back and counts
  the job out of the WaitGroup that the watcher's second goroutine and `PersistentPostRun` wait for. All loops end on
  the one lifecycle context. A server that fails calls `app.Cancel`.
- relocator: one poller goroutine per bucket; pollers share the bolt store, the work directory and the ingest service.
  The page sends a token into the poller's trigger channel (capacity 1). A third goroutine closes the store on
  shutdown and waits for nobody.
- list-updater: one refresher and any number of HTTP handlers write the same files; there is no lock.
- dns: query goroutines read the matcher through an atomic pointer that the ruleset goroutine replaces; they share the
  cache; the admin server and the timers wake the ruleset goroutine through channels.

What is hard in this code: goroutines without locks on shared files (list-updater, two relocator buckets on one work
path); records, deletions and acknowledgements that a crash can separate; listing data used after the object changed;
a store closed under running pollers; merged wake-ups on channels of capacity 1; senders blocked on a full channel at
shutdown; a WaitGroup waited for before it is used; answers that race, and a cache that must not outlive its rules or
TTLs. Each of these is a row of `hazards` in PROJECT.json, with the properties that guard it or the reason why none does.

## 2. Modules and the code

| module | models | EXTENDS / composes |
|---|---|---|
| `Delivery` | abstract: at-least-once delivery of archives | |
| `Relocator` | pollers, pipeline, poster, dedup store, work files, lifecycle of the relocator | `D == INSTANCE Delivery` (refinement) |
| `RelocatorProofs`, `RelocatorDeliveryProofs` | proofs | Relocator |
| `Store`, `StoreProofs` | counters and event ring behind the status page | the stages a poller's object passes, as in Relocator |
| `App`, `AppProofs` | lifecycle shared by all commands | |
| `ListUpdater`, `ListUpdaterProofs` | files of one list | |
| `Matcher`, `MatcherProofs` | rule structures against the reference `Decision` | |
| `RuleBook` | abstract: a book of rules whose answers change all at once | |
| `Ruleset`, `RulesetProofs` | ruleset goroutine, timers, downloads | composes Matcher: builds real matchers step by step; `B == INSTANCE RuleBook` (refinement) |
| `FakeIP` | address arithmetic of the fake ranges, no state | |
| `Cache` | abstract: a bounded cache that evicts what was used the longest time ago | |
| `Resolver`, `ResolverProofs` | queries, cache, upstream race, fake addresses | FakeIP; `C == INSTANCE Cache` (refinement); takes matchers as functions from keys to actions, which `AnswersAreVerdicts` shows the matchers of Ruleset to be |
| `MC*` | values of the constants for TLC | |

### Relocator
State: `s3` (buckets), `processed` (bolt bucket `processed`), `work`/`writing` (work directory and open descriptors),
`pc`, `todo`, `cur`, `got`, `sent`, `attempt`, `failed` per poller (locals of pollOnce, handleObject, processObject,
sendFiles and Send), `trigger` (channels), `mode`/`store` (context, bolt open or closed). One action per effect
another goroutine or service can see:

| code | actions |
|---|---|
| runPoller, pollOnce | FirstPoll, TickPoll, TriggeredPoll, EndPoll, PollerStops |
| handleObject | SkipObject (done, too large, lookup error), BeginObject |
| downloadObject | CreateTemp, CreateFails, CopyObject, CopyFails |
| ExtractJSON, handleExtractError | ExtractOk, ExtractFails (quarantine or not) |
| Poster.Send, doSend | PostOk, PostRejected, PostUnanswered (which may have been accepted), retries in `attempt` |
| MarkProcessed, RemoveObject, deferred os.Remove | Mark, Remove, RemoveFails, Clean |
| Start, shutdownOnContext, os.Exit | Start, Cancel, StoreClose, Exit, Crash |
| outside | Upload (producer), TriggerPoll (operator) |

`received` and `removed` are history: what the ingest service accepted and what was deleted.

### Store
`stats[b]` are the counters of a bucket, `events` the keys of the ring, `lastSeq` its sequence; `stage[b]` is how far the
poller of `b` is with an object. `Writes` lists the transactions of a pass over an object in the order of pipeline.go,
and every one of them is a step: Commit stores it, Drop is its ignored error (or a closed database). `Append` is
AppendEvent with trimEventsLocked: the excess is counted over committed keys (`KeyN`), and `Deletes` is every set of
keys the cursor may delete, since deleting a key under it may make Next skip one. Open is a restart with any
`event_log`, Close is shutdownOnContext. `lost` is history: counter updates that were not stored.

### App
`main`, `watcher`, `wait[w]` are the positions of the main goroutine, of Init's goroutine and of the two
WaitGroup.Wait calls; `job[j]` the position of each job in AddJob, its loop and onStop; `registered`, `wg`, `context`
the shared state. AddJob and onStop are two steps each (registry, counter), because others run in between. A Wait that
is released while the counter is already positive again panics, as sync.WaitGroup does. `Deaf` are servers whose
library ignores a shutdown that comes before the listen (miekg/dns), `Namings` the job names a configuration gives.

### ListUpdater
`file[f]` and `tmp[f]` for the original, the plain form and one category; contents are version numbers, or `Partial`,
`Mixed`, `Raw`. Actors are the refresher and the handlers; `fd[a]` says whether the file an actor has open is still
the `.tmp`, has been renamed to the file, or is unlinked: a rename by one actor moves the descriptor of another.

| code | actions |
|---|---|
| syncOne, downloadToFile | BeginDownload, EndDownload, DownloadFails, Replace |
| handlePlain, handlePlainCategory | Request |
| ensurePlain, ensurePlainCategory | Read |
| writeLinesAtomically, copyFileAtomically | OpenSource (copy only), Open, Write, CopyFails (copy only), Rename, RenameFails, EnsureFails |
| os.Remove after a failed copy or rename | RemoveTmp: a step of its own, by which time the `.tmp` may be another writer's |
| os.RemoveAll of the categories | Invalidate |

### Matcher and Ruleset
A matcher is the record [nodes, full, keywords, regexps] of matcher.go; names are sequences of labels, last label first.
`Add` and `Lookup` follow AddSuffix, AddFull, AddKeyword, AddRegex and Lookup; `Decision` is the documented precedence
block > fakeip > direct > upstream applied to the plain set of rules. Ruleset has the Run goroutine (`pc`), parallel
downloads (`busy`), the build (`building`, `todo`), the pointer (`active`), the reload channel, the tick channel and
the timer goroutines (`ticker`). `asked` is history: a reload was requested and no refresh has begun since.

### Resolver
`q[h]` is the query a goroutine works on: match, then pool and compute, or lookup, exchange and store. `items` and
`lru` are the cache, `fakes` is v4Cache and v6Cache. History: `seen[h]`, the actions in force for the name since the
query arrived, and `given[k]`, the fake addresses that were ever answered for k.

| code | actions |
|---|---|
| Handle, handleMatched | Receive, Match |
| fakeipResponse, ForA, ForAAAA | NoPool, Known (under the read lock), Remember (computed without a lock, written under the write lock) |
| lookupCache, Get | Hit, Miss |
| Exchange, drainResults | Answer, Fail, ExchangeEnds |
| maybeCache, Put | Store |
| outside | SwapMatcher (rebuildMatcher), Tick |

An answer is its response code, the lowest TTL of its records and the TTL field of its OPT record, which holds flags;
`minAnswerTTL` mixes both as the code does. `FakeIP` computes an address from a range and the hash of the name.

## 3. Runs

| run | cfg | shows |
|---|---|---|
| relocator_safety | MCRelocator_safety | two buckets, one with delete_after, a readable and an unreadable archive, any two failures/crashes/shutdowns: records, deletions, quarantine, work files and dedup are right, nothing is posted twice unless something failed, and the pipeline implements `Delivery` |
| relocator_liveness | MCRelocator_liveness | one bucket, two keys, a good, an unreadable and an oversized archive, one failure: every good archive is delivered, every manual poll is served |
| relocator_overwrite | MCRelocator_overwrite | violation: an object replaced after its download is deleted undelivered |
| relocator_store | MCStore_ring | two pollers, two passes, one lost transaction, shutdowns, crashes, restarts with another event_log: the counters fit together up to what was lost; an event pushes out older ones only, and a ring left too long shrinks |
| relocator_ring_size | MCStore_size | violation: the ring settles at one event more than `event_log` |
| app_lifecycle | MCApp_lifecycle | the dns command with two listeners and metrics under every schedule: no spontaneous exit, unique names, PostRun waits, the WaitGroup panics only in a process that is being stopped, every stop, failure and failed start ends the process |
| app_stopped | MCApp_stopped | violation: "all jobs stopped" while servers serve |
| listupdater_files | MCListUpdater_files | refresher and two handlers without locks, one failure or crash, three versions: the original only improves, derived files are never ahead of it and, once the races for a missing plain file end, settle |
| dns_rulesets | MCRuleset_refresh | two sets, one with a timer, all kinds of rules in any order of insertion: the matcher answers as the files say and implements `RuleBook`; old data stays; reloads and ticks are served; Run returns |
| dns_rulesets_garbage | MCRuleset_garbage | violation: a 2xx answer that is no list replaces the good file |
| dns_resolver | MCResolver_queries | two queries, two upstreams, three keys, a cache of two entries, an IPv4 range of four addresses, an answer with an OPT record, matcher swaps, time: rules, TTLs, map and list agree and implement `Cache`, one usable fake address per key, SERVFAIL, and every query is answered |
| dns_resolver_opt | MCResolver_opt | violation: an answer without records lives for as long as the flags of its OPT record say |

Each property of a passing run has a mutant: a plausible slip in one operation (named `<Operation>_<Slip>`, defined
before the operation) with which TLC finds the property violated. The passing relocator runs leave
out shared work paths and overwriting producers; `relocator_overwrite` and `MCRelocator_workpath.cfg` allow them and
fail. Two more configurations are kept beside the runs, for the further observations of section 9:
`tlc -config MCRelocator_delete.cfg MCRelocator` and `tlc -config MCRelocator_workpath.cfg MCRelocator`.

Deadlock is checked in every run. The pollers' ticks, the ticker of the refresher and Start keep the models going;
`App` has an explicit `Terminated`.

## 4. Bounds

- `MaxFaults` bounds failures, crashes and cancellations together. Two in relocator_safety reach every pair (failed
  POST then crash, failed record then failed removal, crash then leftover work file); a cancelled context's own
  failures are not charged. One elsewhere: all liveness properties say what happens after failures stop, and one
  failure already reaches each error path.
- Two buckets on disjoint keys are enough for interference: pollers share only store state, work directory and faults,
  and interact pairwise. `Retries = 1` has a first try, a retry and giving up. Archives of two files separate "all
  files", "some files" and "the last file". The theorems lift all of these.
- Versions 1..3 in ListUpdater: text served in place of a list, a list, its successor; a handler may lag by two
  versions. Two handlers give two writers beside the refresher.
- dns_rulesets: `MaxPublished = 1` lets a source change once between or during refreshes. Names and patterns are
  chosen so that suffix, full, keyword and regex rules of both sets meet on one name with all three actions, a tag is
  listed twice, and a trie path has an inner node without an action; one pattern does not compile.
- relocator_store: event_log 0, 1 and 2 (no limit, the smallest, one more) on databases that hold nothing or five
  events: the ring grows, is steady, and is over its limit by enough for the cursor to skip. `MaxPasses = 2` lets both
  buckets be in a pass at once or one have two; one lost transaction separates every pair of counters, and closes and
  restarts are free. relocator_ring_size needs one event_log, an empty database and three events.
- dns_resolver: three keys on `Size = 2` make the third evict, and only the order of use says which; the repair of a
  size below one is left to the proofs, which hold for every size. TTLs of one second and two seconds of time pass
  through fresh, the last instant, and expired. Queries find a matcher without rules, then one that blocks and fakes
  what it let through. `MaxTTL = 3` stands for a TTL field that no record has lowered (the largest value, as in the
  code). The range of four is the smallest with reserved addresses, the hash is 4 (beyond it); one key has a type
  without a range. `FakeAddressesStable` proves the arithmetic for every range and hash. dns_resolver_opt adds an
  answer that has only an OPT record.
- App has no counter to bound.

No symmetry is used: every liveness run has temporal properties, and the safety runs finish without it.

## 5. Fairness

Passing runs without temporal-progress properties use plain `Spec`. The others assume:

- Relocator: weak fairness of every poller (a goroutine that can run, runs; the ticker keeps firing) and of Exit after
  a cancellation; strong fairness of TriggeredPoll, since `select` picks at random among ready channels. Weak fairness
  includes that each request to S3 or the ingest service ends. POSTs have a timeout; GetObject and io.Copy have no
  deadline, so for them this is an assumption on the network, not a fact of the code (hazard at pipeline.go:213).
- App: every goroutine that can take a step of main, watcher, Wait, AddJob or onStop takes it. A job need never react
  to the context (Stops is not fair) and no signal need come. Timers have no clock: the grace period may end at any
  moment, and does end.
- ListUpdater: the process is started again, the refresher's ticker fires, each download ends (its HTTP client has a
  timeout), a handler that was started runs. Requests and publications are not fair. DerivedSettle also supposes that
  from some time on no request finds the plain file missing. TLC shows that this is needed: with one failure behind it
  and no plain file, requests that keep coming can remove each other's and the refresher's `.tmp` for ever (section 9).
- Ruleset: Run's and the timers' goroutines run, downloads end by their timeout; strong fairness of the three cases of
  Run's `select` (random choice) and of a timer's send (senders blocked on a channel are served first come first served).
- Resolver: the goroutine of each query runs, and each upstream reports by its timeout (dnsClient.Exchange sets one).

Failures need no fairness: each budget runs out, and `~>` and `<>[]` speak of what follows.

## 6. Proofs

All theorems hold for every value of the constants that the ASSUMEs allow: any number of buckets, keys, handlers,
upstreams, versions, retries, ranges and faults (where a set must be finite the ASSUME says so). TLC evaluates the
ASSUMEs in the runs.

| module | theorem | says | hypotheses |
|---|---|---|---|
| RelocatorProofs | AnywhereInvariant, TypeCorrect, NeverReprocessed, NoWorkFileLeaks | types; no work on a recorded content; no leaked work file | none |
| RelocatorProofs | OnceInvariant, PostsOnceWithoutFailure | at least once is exactly once while nothing fails | none |
| RelocatorDeliveryProofs | PipelineInvariant, RecordedWasDelivered, NothingLost | a record or a deletion implies full delivery of that content | producers do not overwrite; no shared work path |
| RelocatorDeliveryProofs | EarnedInvariant, OutcomesAlwaysEarned, QuarantineOnlyBad | a record or a deletion implies full delivery of some content of that object; only bad archives in quarantine | no shared work path |
| RelocatorDeliveryProofs | RelocatorImplementsDelivery | Relocator refines Delivery | the same |
| StoreProofs | StoreTypeCorrect, CountersAlwaysAgree, RingKeepsNewest, OverfullRingShrinks | counters and event ring | none |
| AppProofs | AppInvariant, AppTypeCorrect, JobNamesUnique, NothingEndsByItself, PostRunWaitsForJobs, ReuseNeedsStop | registry, counter, exits | finitely many components |
| ListUpdaterProofs | ListInvariant, ListTypeCorrect, DerivedNotAhead, OriginalImproves, RawStaysInPlain | the files' safety; raw bytes reach the plain file only | none |
| ListUpdaterProofs | PlainStaysWhole, PlainStopsGoingBack | once the plain file is whole and nobody is making it, it stays whole and never goes back | none |
| MatcherProofs | MatcherAnswers, MatchersCombine, AddRaisesMatchesOnly | Add in any order, then Lookup, equals Decision; Lookup of two sets together is the higher of the two; a rule changes what it matches, upwards | well-formed rules |
| RulesetProofs | RulesetInvariant, RulesetTypeCorrect, RulesAlwaysCurrent, AnswersFromWholeFiles, AnswersAreVerdicts | matcher = files outside a refresh, = one whole file of each set at any time | RulesWellFormed |
| RulesetProofs | RulesetImplementsRuleBook, NothingAfterRun | Ruleset refines RuleBook; nothing happens after Run returned | RulesWellFormed |
| RulesetProofs | OldDataStays | failures keep good files | no source serves garbage with 2xx |
| ResolverProofs | ResolverInvariant, ResolverTypeCorrect, CacheStaysConsistent, RulesAreRespected, ServfailOnlyIfAllFail, HitsStayFresh, FakeAddressesStable | cache, rules, race, TTLs, fake addresses | none |
| ResolverProofs | ResolverImplementsCache | Resolver refines Cache | none |
| ResolverProofs | EveryAddressServes, AddressesSharedByResidue | which hashes share a fake address; no usable address is wasted | none |

The inductive invariants, and why the properties alone are not inductive:

- `AnywhereInv` = types, `InHand` (where an object, a content, a counter is meaningful), NoReprocessing, `FileOwned`
  (a work file belongs to a poller past CreateTemp). NoLeakedWorkFile alone does not say who is past CreateTemp.
- `PipelineInv` adds `ListingFresh` (what was listed is still there), `WorkFileOK` (the work file holds the listed
  etag's content) and `SentOK` (files counted as sent were accepted): "recorded implies delivered" needs to know that
  the content in hand is the listed one. `ListingFresh` fails when producers overwrite, `WorkFileOK` when paths are
  shared; relocator_overwrite and MCRelocator_workpath.cfg show that both hypotheses are necessary.
- `EarnedInv` is what is left of it when producers overwrite: the work file is whole and its poller's own (`OwnFile`),
  and what counts as sent was accepted, whatever content it is (`AcceptedSoFar`). It gives up which content the record
  names. TLC checked it on one bucket with three contents that replace each other, before the proof.
- `OnceInv` says that while nothing failed an accepted file belongs to a content whose record stands, to a key with a
  newer record, or to the archive being posted, before the file at hand. A record of another content is the one case in
  which a file may be accepted twice without a failure, so NoRepeatedPost excludes it.
- `AppInv` = types, `LaunchOK`, `RegistryOK`, `CountOK` (counter = number of counted jobs, a cardinality argument),
  `CancelOK` (how far main and watcher get without a cancellation), `AwaitOK` (an awaited job stays counted until
  gone), `ReuseOK` (while nothing stops the process, the command's job or one it waits for keeps the counter up, so
  that no released Wait meets a new AddJob).
- `ListInv` = types, `DownloadOK` (the refresher's body is between original and remote), `EnsureOK`, `DerivedOK`: what
  writers hold in memory or in `.tmp` is not ahead either. `RawInv` adds who may hold raw bytes: a writer of the plain
  file. `PlainAlone` speaks of a run in which the plain file is whole and no handler is making it: then no request
  finds it missing, so none ever will again, and the refresher, which copies only what it has just renamed, is its one
  writer. `PlainAtRest`, the hypothesis in the theorems' formula, holds after every restart with a whole plain file and
  whenever the last late writer is done. While it does not hold, TLC finds torn, mixed and older plain forms, as the
  comment of DerivedSettle says.
- `RulesetInv` = types, `BuildInv` (the matcher being built represents the files minus the rules to do), `CurrentInv`
  (the active one represents the files), `TimersInv`. `Represents(m, R)` is the matcher's representation invariant:
  each node and full entry holds the highest action of its rules, nodes are closed under suffixes, the lists hold the
  rest. `AddRepresents` and `LookupDecides` are the two halves of MatcherAnswers. The refinement maps a set's file to
  its rules and the matcher to its answers: Swap is Publish, because CurrentInv's argument says that the matcher that
  was built rule by rule answers as all files do, and every step of the build is a stutter. `WholeAnswers` holds in a
  refresh too, where RulesCurrent says nothing; `StopInv` says that a Run that returned left no timer's goroutine.
- `ResolverInv` = types, CacheConsistent, `EntriesInv` (entries are successes and expire one lifetime after they were
  stored), `PassedInv` (who is past the matcher was let through), `RaceInv` (while nothing is kept, every reported
  upstream has failed, and nothing is kept while one is asked), `FakeInv` (what is remembered or was given for a key is
  what would be computed for it, and it has a range), RulesRespected, FirstGoodWins. `LifetimeKeepsPromise` bounds a
  lifetime by the records' TTL where `RecordsDecide`: minAnswerTTL mixes in the OPT field, so an answer without records
  lives by its flags, and with ttl_override a field of 0 replaces a shorter record TTL by the default
  (dns_resolver_opt); `ComputeV4InRange` and `ComputeV6InRange` place an address in its range. The list lemmas
  `WithoutKey`, `PushedKey`, `EvictedKey` say what removing, moving to the front and evicting do to the keys of the LRU
  list; `WithoutAged`, `FrontAged` and `EvictedAged` say what they do to the order of use, which the refinement reads
  off the positions in the list. `KeysCounted` ties the length of the list to the number of entries, which says when
  the cache is full.

- The inductive invariant of Store, `Balance`, says for each bucket by how much the counters may differ at each stage of
  an object, with what was lost on one side: CountersAgree alone forgets where the object in hand is. KeepsNewest and
  OverfullShrinks follow from the types by lemmas on `Newest` and on what a skipping cursor can delete.

Every invariant and action property and all three refinements that a passing run checks are proved. Only model-checked
are the liveness properties (EventuallyDelivered, TriggerServed, StopEnds, FailureEnds, DerivedSettle, ReloadServed,
RulesSettle, RunReturns, QueryAnswered: the prover has neither fairness nor ENABLED), and the violations. That an
overfull ring is within its limit after so many events would need an induction over them; the theorem says one step.

## 7. Abstractions

- Relocator: a listing is a snapshot; downloading is atomic for the object's content but not for the work file
  (`Partial` until copied, `Mixed` if two wrote it). Archives are a number of files or unreadable. A stat or remove of
  the work file by `Clean` cannot fail. Metrics counters are left out; the counters and events of the store are in
  Store. Records reach the disk when the transaction returns (bolt syncs).
- Store: an event is its number; posted and postFailed, which the code raises by numbers of files, go up by one; bolt's
  transactions are atomic and admitted one at a time. Bucket.Stats and the cursor are bbolt's: modelled from its
  behaviour, with the skipping left open. A consequence no document speaks of: after event_log was lowered the first
  trims may delete newer events and keep older ones.
- ListUpdater: one list; RemoveAll of a category directory is atomic; a rename is durable (the code does not fsync, so
  a power failure, as opposed to the end of the process, is outside the model). A category file that a handler made
  from the previous original may come back after the refresher removed it and be served until the next refresh,
  although sync.go:68 speaks of invalidating on refresh; DerivedSettle says that it does not last.
- Ruleset: every set has a file of its own (validateRulesets, cmd.go:167, refuses two sets of one URL); rules are added
  in any order, which includes the code's; rebuildMatcher reads all files at once, which is exact because downloads
  only run in a refresh; tags have known actions, since validateTags (cmd.go:195) refuses others. At a restart all sets
  are downloaded again, as in the code; TASK_1.md:67-68 could be read as asking to use the files there. Until the first
  refresh of a process ends the matcher is empty and queries go upstream.
- Matcher: statistics, tags and sources of matches, letter case and trailing dots are left out.
- Resolver: the two clock readings of Get fall into one second; a TTL field at its largest value is the same as no
  record, as in the code; Answer also stands for drainResults throwing away the reports that follow it; queries without
  a question are refused before any state is touched and not modelled. Exchange returns when all upstreams have
  reported, as `drainResults` does, though TASK_1.md:96 asks for the first good answer.
- `ttl_override` is documented as overriding the TTL of an answer (TASK_1.md:53); resolver.go:171 applies it to a
  lifetime of 0 only, and so does Lifetime. `Promise`, which HitsFresh measures hits by, reads it as the code means it:
  the default for records with TTL 0, the records' TTL otherwise, and nothing for an answer without records.
- TTLs run from Put, not from the receipt of the answer: the difference is the wait for the slower upstreams.

## 8. Not modelled

- dns: truncation (an answer that was cut for UDP is cached and served over TCP too; no document speaks of it), the
  transports (UDP, TCP, DoT, DoH) and proxies, which are I/O, and the parsing of ranges.
- The relocator's status page (reads); archive formats and passwords; validation of configs.
- list-updater's index, authentication and reads of existing files; more than one list at a time.
- stup's installer: a linear script of file writes and systemctl calls that an operator runs once; nothing is concurrent
  with it and it keeps no state to be consistent with.
- Metrics, logging, version and default config files.

## 9. Findings

Each is a violation run; PROJECT.json quotes the sentence of the repository it contradicts.

1. relocator_overwrite: RemoveObject (pipeline.go:123) deletes by key, whatever is there by then.
2. relocator_ring_size: the excess over event_log is counted without the event just put (store.go:313), so the ring of
   `event_log` events settles at one more.
3. app_stopped: the waiter may pass the WaitGroup before the first AddJob (app.go:94).
4. dns_rulesets_garbage: a body is decoded only after it has replaced the good file.
5. dns_resolver_opt: minAnswerTTL takes the flags in the TTL field of an OPT record for a TTL (cache.go:156), so an answer
   without records is cached for 32768 seconds when DO is set. The same line keeps every answer whose OPT field is 0 out
   of the cache, or with ttl_override gives it 60 seconds whatever its records say.

Further observations, from configurations and traces beside the runs:

- MCRelocator_delete.cfg violates EventuallyDeleted: RemoveObject is tried once (pipeline.go:122), after the record that
  makes later polls skip the object; if it fails, an object of a bucket with delete_after stays for good.
- MCRelocator_workpath.cfg violates OkMeansDelivered: bucket `a` with key `b-c.zip` and bucket `a-b` with key `c.zip`
  share a work file (pipeline.go:195), and one's content is recorded as the other's.
- list-updater, without the plain file and with steady requests for it: a handler or the refresher whose rename fails,
  because another renamed the shared `.tmp` first, removes the `.tmp` a third has just created (plain.go:235, :291),
  whose rename then fails in turn. An unlucky schedule repeats this for ever, and the plain file is never made.

## 10. Plan

Done, in this order: Delivery, Relocator, App, ListUpdater, Matcher, Ruleset, Resolver, Store, FakeIP, RuleBook, Cache,
each with its runs and proofs.

Left, in order of worth:

1. ListUpdater: the refresher's loop over several lists, whose names may collide (`a` and `a.tmp`), and the handlers'
   reads.
2. Truncated answers and the transport a query came by.
3. Relocator: what a poller with a shared work path can still promise.
