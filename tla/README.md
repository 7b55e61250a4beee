# Formal models of the SQL query optimizer and its plan cache

The repository has three subsystems that share a machine room: a cost-based SQL
optimizer and executor in C++, a distributed execution layer on top of it (a
coordinator and HTTP workers), and a Redis-like plan cache in Go that the
optimizer's front ends talk to over TCP. This directory holds TLA+ models of the
parts whose correctness depends on order, concurrency or failure, of the way a query
takes from its text to a physical plan, and of the texts that processes exchange and
keep, the TLC configurations that check them, and TLAPS proofs about the cache (storage
engine, snapshots, shutdown), the plan cache, the coordinator, the join-order search and
the executor.
Paths below are relative to the repository root (`src/` in `PROJECT.json`).

    tlc -workers 2 -config MCCacheStore_safety.cfg MCCacheStore     # a run
    tlapm CacheStoreProofs.tla                                      # proofs; likewise
                                                                    # every *Proofs.tla

## 1. Inventory

| Component | State it keeps | Operations | Interacts with | What is hard | What makes it correct |
|---|---|---|---|---|---|
| Storage engine, `cache/internal/storage` | per shard: map, LRU list, `usedBytes`, mutex; two shared gauges | get, set (EX/PX/NX/XX), del, exists, expire, persist, ttl, incrBy, eviction loop, expiration worker, FLUSHALL, restoreEntry | called by every connection handler, by the sweep goroutine, by persistence | lazy and active expiry, eviction and overwrites all adjust the same counters; multi-shard operations hold one lock at a time | list = map, counters = sums, budget kept, a client sees an expiring map |
| Persistence, `cache/internal/persistence` | temp file, snapshot file | SaveSnapshot (periodic, SAVE command, final), LoadSnapshot | reads the shards' entries, renames files | entries are read after the locks are gone; two saves may overlap; crash and power loss | never a corrupt file; untouched keys saved as they were |
| Server and process life, `cache/internal/server`, `cache/cmd/server` | listener, `conns`, WaitGroup, phases of `main` | Serve, accept, handle, watch, Shutdown, final save, exit | handlers dispatch into the store | Shutdown against Accept, grace period against replies | acknowledged writes are saved, shutdown ends |
| Commands, `cache/internal/command` | none | argument checks, dispatch | store | | actions of the storage model |
| RESP codec, metrics, config, client, benchmark (`cache/...`) | counters | encode, decode | | | see section 7 |
| Plan cache integration, `integration/` | one TCP connection per session, versions | plan_with_cache, build_cache_key, get/set | CLI, web and coordinator on one side, cache server on the other | shared keys between processes, statistics that change under a running session, broken and hung connections | a session gets the plan it would have made; always an answer |
| Statistics, `statistics/` | catalog per process | load, ANALYZE | files in `stats/`, `data/` | read twice at start (content, fingerprint) | keys identify statistics |
| Coordinator and workers, `distributed/` | per worker a partition of every table | unwrap the plan, pick a strategy, call workers in order, recover, merge | HTTP to the workers, executor locally, bandit | any call may fail or hang; three strategies; partial aggregates | same rows as one node |
| Execution engine, `execution/` | operator state during one query | scan, filter, joins, aggregate, sort, limit, projection | coordinator, workers, CLI | NULLs, mixed number types | SQL meaning of the plan |
| Bandit and calibration, `adaptive/` | per-arm averages, per-operator sums, a JSON file each | choose, update, record, fit, save, load | coordinator; EXPLAIN ANALYZE in the CLI | files rewritten in place, by several processes, without a look at the stream | a model is the mean or the fit of the observations it stands for; an exploited arm is the best |
| SQL parser and printer, `parser/` | position in the tokens | recursive descent, canonical text | plan cache key, planner | precedence, keys that must differ | trees as SQL binds; different statements, different keys |
| JSON and plan serializer, `util/json.*`, `integration/plan_serializer.cpp`, `distributed/row_json.cpp` | none | write, parse, structure to JSON and back | plan cache, workers, state files | two directions that must agree field by field, escapes, numbers | what was written is read back |
| HTTP between coordinator and workers, `distributed/http_client.cpp`, `web/http_server.cpp` | one connection per call | send, read, route, answer | plan and row codecs | messages cut and split anywhere | a message arrives whole or counts as a failure |
| Logical and physical planning, join search, `logical/`, `physical/`, `optimizer/` | none between queries | rewrites, dynamic program over relation sets, costing | parser above, executor below | which predicates end up where | plan means what the query means, cheapest of its search space |
| Lexer, CSV storage, hashing, metrics log, web pages, command-line tools | none of interest | | | | see section 7 |

`PROJECT.json` lists the same components with their status, and under `hazards`
each place in the code where something can go wrong that a test would hardly
reach.

## 2. Plan

Done so far, most important first: `CacheStore` with `ExpiringMap`, its proofs and the
proof of the refinement; `CacheSnapshot`, `CacheServer`, `Coordinator` and `PlanCache`,
each with its proofs; the query planner (`LogicalOptimizer`, `JoinSearch` with its proofs,
and `QueryPlanner`, which composes them); `Execution`, the pull iterators of one node, with
its proofs, on `Literals`, which `Coordinator` shares; the texts (`TextReader`, `JsonText`, `SqlText`,
`PlanCodec`, `HttpMessage`, and `QueryText`, which composes them); `Learning`, the bandit,
the calibration and their files, with its proofs, and `LearningText`, what is in the files.

Next, in this order:

1. Join trees of three tables in `Execution`.
2. The operators that the physical planner chooses outside the join search, and the
   selectivity estimator with histograms as small integer tables.
3. A cluster in which a worker was started with other data or another worker count.

## 3. Modules and the code they model

**CacheStore** (`storage/shard.go`, `store.go`, `lru.go`, `entry.go`, the handlers of
`command/`, `restoreEntry`'s caller in `snapshot.go`). One action per outcome of each
shard operation. An operation is one step because it runs under `shard.mu`; the
exception is `evictIfOverBudget`, whose iterations (`Evict`, then `Unlock`) are
separate steps, since the gauges it changes are atomics that INFO reads without the
lock. `SweepShard` and `FlushShard` handle one shard per step, as the code locks one
at a time. `newer` is the order of each LRU list as a relation. `Weight` is a sum of
sizes written as a cardinality, so that it needs no recursion. Integers wrap at
`IntMin..IntMax`. The clock is discrete; expiry is strict, as in `isExpired`.
`stale` and `reply` are history variables.

**ExpiringMap** is the abstract specification: a map whose keys vanish when their TTL
passes and that may forget keys. It has no shards, locks, list or accounting.
`CacheStoreRefinement` gives the refinement mapping (an entry is visible when it is live).

**CacheSnapshot** (`persistence/snapshot.go`, `cmd/server/main.go`). `SaveSnapshot` is
split where other goroutines can run: collecting pointers shard by shard under the
lock, then reading `Value`, `HasExpiry` and `ExpiresAt` of each entry without it, then
write, fsync and rename. `incrBy` and `expire` have a begin and an end, because they
write the very objects a save reads; a read that meets a write yields the old value,
the new one or a torn one. `durable` is the set of files that power loss may leave at
the path: the directory is never synced, so the previous file is among them.

**CacheServer** (`server/server.go`, `connection.go`, `cmd/server/main.go`). The accept
loop's three statements (Accept, trackConn, wg.Add), each handler, the watcher that
closes the listener, `Shutdown` with its `select`, the final save and the exit.
A command is a write with a name.

**Literals** (`execution/value_ops.cpp`): NULL and numbers, their comparison and the
string that hash keys are made of. `Coordinator` and `Execution` extend it.

**Coordinator** (`distributed/*.cpp`, `execution/operators.cpp`). One
query over two tables: eligibility, choice of strategy (the bandit may return any legal
arm), the worker calls in their order, each of which answers, fails and is recovered
from the full data, or hangs, then the merge or the decision to skip it. A list of rows
is a set of occurrences, so duplicates count. The same operators evaluate the plan on
one node (`Local`).

**PlanCache** (`integration/*.cpp`, `cmd/cli/main.cpp`, `web/api_handlers.cpp`,
`statistics/statistics_loader.cpp`). CLI sessions and web requests that share a cache
server: loading statistics and fingerprinting them as two steps, `plan_with_cache` as
lookup, planning and store, ANALYZE with its epoch, files that change, a server that
stops, hangs and returns, entries that are evicted or overwritten by something else. A CLI
keeps its connection between queries, a web request has one of its own (`Keeps`).

**LogicalOptimizer** (`logical/planner.cpp`, `logical/optimizer.cpp`, the tree walks of
`optimizer/join_graph.cpp` and `physical/physical_planner.cpp`). Operators on trees, one
per function of the source. A condition is a sequence of conjuncts, which is what
`split_and` makes of an AND; a conjunct is a record of the facts the code asks about it:
the tables it names, whether it has an unqualified column, whether it is an equality,
which of its columns are indexed, its statistics. Aggregate, Sort, Limit and Project
pass through every pass unchanged and differ only in the columns they use, so they are
one kind of node, `Above`.

**JoinSearch** (`optimizer/join_graph.cpp`, `access_path_generator.cpp`,
`join_enumerator.cpp`, `cost_model.cpp`, `physical/cost.cpp`, and from
`cardinality_estimator.cpp` what they call). Building the graph and the access paths are
operators; the dynamic program is a state machine that solves one set of relations per
step, in the order of the bit masks, and fills `memo_`. Costs are exact integers in units
of 1/10000, estimates are fractions until `rows_to_size` rounds them: on these inputs a
double holds them without error that could swap two candidates. `Candidates` lists the
join algorithms in the code's order because the first of the cheapest wins.

**QueryPlanner** composes the two: one action for the logical plan, one per pass, and the
search on the subtree that `plan_node` hands over.

**Execution** (`execution/`). One physical plan on one node: a chain of filters,
aggregates, sorts, limits and projections over an access path or a join of two. An access
path (`plan.access`) is a sequential or an index scan with the filters that pushdown and
the access-path generator put right above it, below the join
(`access_path_generator.cpp:70`); `Passes` is what it makes of a row, which includes a
predicate that throws. The right one is drained when the join opens (`RightRows`), the
left one advances with the join. Every `open()` and every `next()` of a node of the chain is a step, with the call on its way
down and the answer on its way up in `call`; the operators' fields (`pos_`, `emitted_`,
`current_left_`, `right_pos_` or the probe iterators, `rows_`, `results_`) are what lives
between calls. `Expressions` is the set of the plans' expressions and their operands, on
which `Evaluate` is a recursive function. An expression that throws ends the query; a star
is an argument of COUNT, and throws in any other aggregate. `std::sort` may leave ties in any
order, and anything in any order when its comparator is not a strict weak order; rows of
one key leave an `unordered_multimap` in any fixed order. `Meanings` gives the sequences of
rows each node may stand for, written from sets and sequences without the iterators;
`Qualifies` is its reading of an access path, all conditions at once.

**TextReader, JsonText, PlanCodec, SqlText, HttpMessage** (`parser/parser.cpp`,
`parser/sql_printer.cpp`, `util/json.cpp`, `integration/plan_serializer.cpp`,
`distributed/row_json.cpp`, `http_client.cpp`, `worker_service.cpp`,
`web/http_server.cpp`) are operators, one per function of the source, from texts to values
and back. A SQL text is a sequence of tokens, a JSON text one of lexemes in which the
characters that the writer or the parser treats specially are told apart, an HTTP message
a start line, headers, a blank line and a body. A parse is a value with the position after
it, or a throw, which `Then` and `Expect` of `TextReader` hand on. The serializer's
functions are lists of fields, so `PlanCodec` has a table of fields per structure and one
`Write` and one `Read` that go through it, with the initializers of the structures for what
is missing. `ToDouble` rounds integers above `Mantissa` to even doubles and `FloatToken`
prints `SigDigits` digits, as the code does with 2^53 and 6.

**QueryText** composes them. `Ask` is `plan_with_cache` on texts: refused, served from the
cache under the canonical text, or planned and stored as JSON. `CallWorker` is
`call_worker_execute` with the worker's handler and everything TCP may make of the two
messages: nothing, a prefix, one chunk or two. The optimizer is a parameter, `PlanOf`. What
each text and each call gives is a function of constants, so it is tabulated once
(`Prepared`, `Calls`, which `TablesAssumption` ties to their definitions) and the actions
look it up.

**Learning** (`adaptive/`, the loop of `cmd/coordinator/main.cpp`, EXPLAIN ANALYZE of
`cmd/cli/main.cpp`). Processes load their model, change it with a query and save it: opening
truncates the file, then the text is written, and a crash, a short write or another process
can come in between. What the text of a model is and what a text is read as are parameters,
`Text` and `Loads`; **LearningText** gives them as the code does, JSON written by `to_json` and
read back with `parse_json`, and the runs use those. They are parameters because the parser is
RECURSIVE, which no module with theorems may reach. Averages are exact fractions. `seen` and
`kept` are history variables: the observations, in their order, that a model or a file stands
for.

The modules meet at named actions: a `CacheServer` write is a command of `CacheStore`;
`CacheServer`'s `FinalSave` is a whole save of `CacheSnapshot`; `PlanCache`'s server is
the cache seen by a client, of which it assumes only what `ExpiringMap` gives: a key
holds the last value stored, or nothing; its `Plan` is a whole behaviour of
`QueryPlanner`, a function of the query and the statistics, and that its keys and values
stand for statements and plans is what `QueryText` shows. `QueryText`'s `CallWorker` is a
call of `Coordinator`, and `Learning`'s `RunJoin` a whole query of it.

## 4. Runs

| Run | Shows | Bounds |
|---|---|---|
| `store_safety` | list = map, accounting exact, budget kept, a writer's own key is evicted last, the store implements `ExpiringMap` | two keys of one shard, values of 1, 2 and 4 bytes with a budget of 3 (so one value never fits and two keys may not), 1-bit integers, clock 0..1, TTL -1 and 1 |
| `store_shards` | FLUSHALL clears everything older than itself; expired keys are reclaimed (liveness) | two shards with a key each |
| `snapshot` | the snapshot path never holds a corrupt file; keys nobody touched during a save are saved as they were | two shards, one key (in the second) with one value, the periodic and the final save, two renames, one restart |
| `server_safety` | WaitGroup = running handlers; what was executed for connections served at shutdown is saved; the forced close ends (liveness) | two connections, two commands each |
| `coordinator_match` | every strategy with every set of failed calls returns one node's rows | two workers, all tables of at most two rows with keys and values from 1, 2, NULL |
| `plan_cache_shared` | a served plan was made from the session's own statistics, with the provisos stated in `PlanMatchesStats` | two sessions, two statistics files, one malformed, two data files, one ANALYZE each |
| `plan_cache_answered` | every query is answered unless the cache server hangs (liveness) | a session and a web thread, one plannable and one rejected query |
| `planner` | the tree keeps its tables through every pass; the search joins each relation once along a predicate, refuses exactly the disconnected, is optimal up to three relations, agrees with `CostModel`; no surplus predicates, no lost conjunct; no scan skips a used column | all statements built from five WHERE clauses and four, five and three ON clauses over tables of 3 to 40 rows, three and four tables, inner and left joins, with and without SELECT * |
| `planner_conjuncts` | violation, section 6 | the same |
| `execution` | the rows returned are an answer to the plan; `rows_produced` is a node's size; a LIMIT fetches no row too many; every query ends (liveness) | eighteen plans with every operator, with filters and index scans on either side of a join, over all tables of at most three (one table) or two rows (two tables) with keys and values from 1, 2, NULL |
| `query_text` | a query gets the plan of its own statement, whatever was asked and cached before; conditions bind as in SQL; plans and rows cross to a worker and back unchanged, or the call fails | two exchanges: a query of 154 texts, then one of 352, which hold every clause and its variants, two operators in every order and grouping, with NOT and - before any operand, and texts that are refused; three fragments, four row sets with every kind of value and every escaped character that survives; messages cut at and next to the ends of headers and body, in up to two chunks |
| `learning` | a model is the mean, or the least-squares fit, of the observations handed down to it; an exploited arm has the best mean | two coordinators and a CLI, three queries with one of two rewards or an EXPLAIN ANALYZE of one or two nodes, a crash or exit with a restart, one short write cut at three places |

Why the bounds are enough: in the store every operation touches one key and compares it
with at most one other of its shard (the candidate for eviction), so two keys show each
pairwise case, and the proofs cover the rest; the oversized value makes the eviction
loop run to the empty list. A FLUSHALL or a save is between shards as soon as there are
two. In `snapshot` the key is in the shard that a save comes to last, so commands reach it
before, while and after it is collected and encoded; with a second key only one saver fits
into five minutes, and its values are the comments of `MCCacheSnapshot_safety.cfg` (run by
hand, the same properties hold). The theorems of section 5 are about any number of shards,
keys, values and savers. Shutdown relates one late connection to one that is being served. Two rows in two
partitions give every combination of empty, NULL and matching partials that a pairwise
merge can meet. Four relations are the fewest for which the search extends a set that
could itself be reached in several ways by a relation it could also have taken earlier
(`CheapestPlan` fails there and not with three); the clauses hold each kind of conjunct
the graph builder tells apart. Three rows give an aggregate a group of two beside another
one and a sort two neighbours on either side; two rows on either side of a join stop it
before, between and after the matches of a left row. Two operators are the fewest that
bind one way or the other, and the precedence levels between two are all present; a key
that two statements share needs two queries to be noticed. A message is cut next to every
boundary that the readers test. kMinSamples observations of a kind are the
three queries of `learning`, with a restart between them. Clients, clocks, renames, restarts, starts and epochs are bounded by
constants named `Max...`.

Deadlock is checked for the store and for `PlanCache`, which never stop. The other models
end (a process that is down, a query that is answered), so their configurations turn the
check off.

### Fairness

`store_shards`: weak fairness of the eviction loop and of start-up, strong fairness of the
sweep, because its ticker keeps firing and Go's mutex hands itself to a waiter that has
starved for a millisecond. `server_safety`: weak fairness of the accept loop, the
watcher, every handler and `main` (goroutines that can run do; the grace timer fires),
none of clients or of the signal. `plan_cache_answered`: weak fairness of
`plan_with_cache`, sequential code; none of the server, the files or the users.
`execution`: weak fairness of the whole query, which is one thread of sequential code.

## 5. What is proved

`CacheStoreProofs` proves for every set of keys, number of shards, assignment of keys to
shards, budget, positive sizes, integer range and TTLs (`StoreAssumption`):

| Theorem | Statement |
|---|---|
| `Consistency` | `Spec => []IInv` |
| `TypeCorrect`, `LRUMatchesMap`, `AccountingCorrect`, `BudgetCorrect`, `FlushAllCorrect` | `Spec => []P` for the invariants of the runs |
| `WriterEvictedLast` | `Spec => WriterSurvives`, an action property |

None of the invariants is inductive alone. The budget needs the list to match the map (an
over-full shard must have a candidate) and the accounting to be exact (an empty shard must
account for zero). `IInv` therefore conjoins them and adds three facts: `WriterNewest` (the
key whose writer holds the lock heads its list), `FlushProgress` (keys older than a running
FLUSHALL lie in shards it has still to visit) and `LoadingIsQuiet` (no lock is held
before the server starts). The sum of sizes is handled by lemmas on `Pairs` (splitting,
one key, update of a subset), from which `Rebalance` follows: when only keys of one shard
change, the books balance if that shard's counter and the gauge move by the difference.
Each kind of step (`PutStep`, `RemoveStep`, `TouchStep`, `UpdateStep`, `RestoreStep`) is a
lemma that `CommandStep` and `NextIInv` apply to each action. `WriterEvictedLast` combines
`WriterNewest` with the order: if the writer's key is the oldest as well as the newest, it
is alone, and an over-full shard that holds one key holds one that exceeds the budget.

`JoinSearchProofs` proves for all tables, any number of relations and any conjuncts
(`JoinSearchAssumption`: a query has a relation, its relations are tables; row, page and
distinct counts are natural numbers and a selectivity is one over a positive one):

| Theorem | Statement |
|---|---|
| `SearchInvariant` | `SearchSpec => []IInv` |
| `SearchWellFormed` | `SearchSpec => []PlansWellFormed` |
| `RefusalExact` | `SearchSpec => []RefusedIffDisconnected` |
| `TreesKeepConjuncts` | `SearchSpec => []TreeKeepsConjuncts` |
| `SearchKeepsCheapest` | `SearchSpec => []CInv` |
| `CostModelMirrors` | `SearchSpec => []CostModelAgrees` |
| `CheapestFound` | `SearchSpec => []CheapestOfThree` |

Only `PlansWellFormed` is nearly inductive. `IInv` adds that sets are solved by size
(`SolvedBySize`) and that a solved set that could be reached from a planned smaller one
has a plan (`SolvedIfReachable`). The second needs the first: solving a set must not make
a set reachable that was solved before it, and it cannot, because that set is not larger.
`Outcome` records what the last step returned.

- A planned query is connected: given a cut, take the first relation in the join order
  that lies on the other side of it from the first one; the edge it was joined by crosses.
- A refused query is not: take a largest planned set. It is not all relations, so if the
  graph is connected an edge leaves it, and the set with that edge's other end is solved,
  reachable, hence planned, and larger.
- No conjunct is lost: the steps of a plan name different relations, because n of them
  cover n relations, hence they use different edges, and n - 1 different edges are all of
  them when there are n - 1.

The last three are about costs and need a second invariant. `CInv` adds to `IInv` that
estimates are natural numbers (`Priced`: without it "cheapest" says nothing), that every kept
plan of several relations is a cheapest extension of a smaller kept plan (`KeptCheapest`; later
steps do not disturb it, because by `SolvedBySize` they plan no set that it could have been
extended from), and that there are row counts and costs along its join order that follow
CostModel's formulas step by step and end in the plan's own (`Reckoned`).

- CostModel agrees: its recursive sums are functions that satisfy the same equations, and such
  functions are unique (`SameAlong`: look at the first place where two of them differ).
- The cheapest of up to three: the estimate of a pair is the same from both sides
  (`PairEstimate`), so all plans of a pair have the same rows and the dearer ones only cost
  more; a candidate's cost grows with the cost of its left side (`CandidatesGrow`). With four
  relations the first fact fails, which is the counterexample to `CheapestPlan` in section 6.

Least and greatest elements come from the library's well-foundedness of `<` on Nat, which also
takes the place of induction where a recursive function has to be unfolded (`Handed`).

`CacheStoreProofs` also proves `StoreImplementsMap == Spec => ImplementsExpiringMap`,
with the same constants and `ViewAssumption` (the marker for a missing key is
not something an entry can show). It needs only the type invariant: what a client sees is a
function of the entries and the time (`ViewOf`), and three lemmas say how it moves: with one
entry stored, with a set of keys removed, with a tick. Every action is then one of them or a
stutter. Removing what has expired is a stutter; eviction, FLUSHALL and the sweep of one
shard are the map forgetting keys; INCR of an expired key is a stutter as well, since the
entry it writes keeps its old expiry.

`CacheSnapshotProofs` proves for all keys, shards, savers and any number of crashes
(`SnapshotAssumption`: finitely many keys, markers that are not values):

| Theorem | Statement |
|---|---|
| `SavesFaithful` | `Spec => []IInv` |
| `TypeCorrect`, `NeverCorrupt`, `StableSaved` | `Spec => []P` for `TypeOK`, `SnapshotNeverCorrupt`, `StableKeysSaved` |

`StableKeysSaved` speaks of an image on disk, made by a save long before. `IInv` follows a
save through its stages: `Reading` says what its program counter means (which shards it has
collected, which entry it reads, that the key it reads is not yet in its image), and
`Faithful(p, k)` that for a key untouched since the save began, what the save holds of it at
that stage (a pointer, the value read, the flag read, the encoded entry) is what the store
held. An operation that touches the key ends the obligation, one on another key does not
reach it, and a removal leaves the save with the unlinked object as it was.

`CacheServerProofs` proves for every finite set of connections and any number of commands
(`ServerAssumption`):

| Theorem | Statement |
|---|---|
| `DrainCorrect` | `Spec => []IInv` |
| `TypeCorrect`, `ServedSaved` | `Spec => []P` for `TypeOK`, `ServedWritesSaved` |

`Counted` (the WaitGroup is the number of handlers that run) is what makes `wg.Wait` mean
anything: zero is then no handler. `Drain` says that a connection which was being served when
Shutdown began has finished once its wait returned, so that a handler that writes during the
save is one Shutdown did not know of: the case of `AckedWritesSaved` in section 6.

`PlanCacheProofs` proves for all sessions, web requests, queries and contents of the
directories (`PlanCacheAssumption`):

| Theorem | Statement |
|---|---|
| `VersionsTrusted` | `Spec => []IInv` |
| `TypeCorrect`, `PlanServedMatches` | `Spec => []P` for `TypeOK`, `PlanMatchesStats` |

The argument is about versions, not about queries: `Tells(version, stats)` says that a version
identifies statistics (a fingerprint while no load was torn, an epoch while the data have not
changed). `Cached` says so of every entry under its key, `Sound` of every process, and two
versions that are equal tell equal statistics (`VersionsTell`): that is why a hit is right,
whoever stored it and however many restarts, evictions and failures lie between.

`CoordinatorProofs` proves for every number of workers, all tables, every hash function, every
pattern of failed and hanging calls (`CoordinatorAssumption`: row ids are integers, and the
keys of rows have hashes):

| Theorem | Statement |
|---|---|
| `CallsTakeEffect` | `Spec => []IInv` |
| `TypeCorrect` | `Spec => []TypeOK` |
| `RowsCorrect` | `Spec => []RowsMatchLocal`: the merged rows are, each as often, the local ones |
| `PlainPlansMatchLocal` | `MatchesLocal` when no plan aggregates |

`IInv` says which calls are still to come (a suffix of the strategy's list, gathers first) and
what those made have brought: `Gathered(side)`, all rows of the partitions asked so far,
`Answered(w)`, the rows worker `w` owes. That they add up is a fact about partitions: each
row has one owner and one hash target, so the lists of rows from the workers, tagged with
their worker, are in one-to-one correspondence with the local list (`ConcatenationIsLocal`);
for a shuffle this needs a hash join on one node as well, which compares the strings that
the shuffle hashes (`RowsMatchLocal` says so). Counts of occurrences are cardinalities, so
the correspondence is all that is needed.

`ExecutionProofs` proves for every plan, all tables and expressions, and every order in which
a sort or a hash table leaves rows (`ExecutionAssumption`: tables, chains of operators and
the filters of an access path are sequences, as the items of an ORDER BY are, a LIMIT is a natural number, as `size_t` is):

| Theorem | Statement |
|---|---|
| `ExecutionInvariant` | `Spec => []IInv` |
| `ExecutionTypes` | `Spec => []TypeOK` |
| `LimitNeverOverfetches` | `Spec => []LimitStops` |
| `ActualRowsAddUp` | `Spec => []CountsAddUp`; both are conjuncts of the invariant `ActualRows` |

The counters say little of a moment when a row is on its way from one node to the next, so
`IInv` says for every open node what it has returned against what it has *taken* (`Node`,
`Reading`, with `Pending` for the row on its way). That needs the discipline of the calls:
which nodes a call can be with, that only a sort or an aggregate reads while it is opened,
and that it does not ask again once it is open (`Calls`), so that its input's counter stands
still while it returns what it holds; and that the end of the rows reaches a node only from
one that has returned everything, unless a limit made it up (`Drained`). Every action is one
of three moves, a node asks its child (`Asking`), returns a row (`Giving`) or the end
(`Ending`), or opens a node (`NodeOpens`, `ReadsOn`); what it does of its own is a lemma each.
No fact about the value of an expression is used.

The second part of the module is about the rows themselves:

| Theorem | Statement |
|---|---|
| `RowsInvariant` | `Spec => []RInv` |
| `ExecutionResult` | `Spec => []ResultIsTheChains` |
| `ExecutionAnswers` | `Spec => [](OperatorsAgree => RowsAsPlanned)` |
| `ExecutionActualRows` | `Spec => [](OperatorsAgree => ActualRows)` |
| `StreamedAnswers` | both, without a hash join, a sort or an aggregate: then nothing is asked of the data |

Neither property says anything before the query is done, when all rows have passed through
every node. `RInv` therefore says there are sequences `m[i]`, *all* the rows that node `i`
will ever make (`Chain`: those of the scan or join, and of each operator on all rows of the
node below), of which a node has so far returned the first `produced[i]`; a row on its way up
is `m[i][produced[i]]`; a filter has returned as many rows as its input's first ones hold
accepted ones; a sort holds a rearrangement of its input and an aggregate the fold of
`AddRow` over what it has taken; a join stands at a pair of positions, with all earlier
matching pairs returned. Then a step shows only that the row it returns is the next one. A
witness for `m` exists because an operator's rows are fixed when it opens, and only sorts and
hash tables choose. TLC cannot evaluate `RInv` (its `m` is unbounded); it has checked
`RowsAsPlanned` and `ActualRows`, which follow from it.

`ResultIsTheChains` is what the iterators alone guarantee. That the chain's rows are what the
plan *means* needs that its operators compare as its expressions do, which the code does not
enforce (section 6: a hash join of NULL keys, a comparator that is no order), so
`OperatorsAgree` is a hypothesis on the tables: for a hash join, key strings are equal where
the condition is true, for the left rows that are probed; sort keys are NULL or numbers;
arguments of SUM, AVG, MIN and MAX are NULL or numbers of one kind. Under it, in order of
difficulty:

- a row passes an access path, filter by filter, exactly if it qualifies, all conditions at
  once (`PassesMeans`), so a path that does not throw returns the rows that the plan means;
- positions and pairs of positions are counted by cardinalities (`Nth`, `NthPair`), so what a
  filter or a join returns next is the next position of a set, and no induction is needed;
- a sort by numbers is lexicographic on the items, a strict weak order by the first item
  where two rows differ, so `std::sort` must leave an order that the keys ask for
  (`SortMeans`); with a NULL among them the meaning allows any order, as the code does;
- the fold of `AddRow` leaves one group per first row of a key, in that order, with counts,
  sums and extrema of exactly the group's rows (`GroupedAll`, `FoldMeans`). A sum over a set
  is a recursive function on finite sets; `AdditiveExists` and `SumIs` show that such a function has
  a value and that one more row adds its number, by a least counterexample.

`LearningProofs` proves for any processes, contexts, integer rewards and runs, any lengths by
which a write falls short, and any bounds (`LearningAssumption`: no process runs both programs,
rewards, costs and times are integers), whenever `TextsRead` holds:

| Theorem | Statement |
|---|---|
| `LearningCorrect` | `Spec => []LearningInv` |
| `LearningTypeCorrect` | `Spec => []TypeOK` |
| `LearningMeans` | `Spec => []AverageIsMean` |
| `LearningExploits` | `Spec => []ExploitsBestMean` |
| `LearningFits` | `Spec => []CalibrationFitsAll` |

`TextsRead` is what the argument takes of `Text` and `Loads`: the text of a model, whatever
follows it in the file, is read as that model (without contexts that have no arm), and an empty
file or a text that was cut short is read as a new one. For the texts of `LearningText` and every
model it is an induction over data. `MCLearning` has TLC evaluate it, before the `learning` run
starts, for all models with two contexts or two kinds and two values of an entry, cut at every
element, and with the rest of any of the others behind them (`TextsReadAssumption`).

None of the properties says anything of the files, and a mean does not say how it came about.
`LearningInv` says that each process's model stands for the observations in `seen`, entry by entry
(`ArmStands`: an arm has an entry exactly if it was observed, with their number and an average
whose fraction is their mean; `FitStands`: a kind's five sums are those of its observations), and
that each file, *as it would be loaded*, stands for those in `kept`. A step that loads, truncates,
writes, cuts or overwrites then only hands such a pair on (`ModelStep`, `FileStep`,
`RestoredStands`), and learning is `UpdateStands` or `PlanStands`: the running average and the
running sums of one observation more. Sums over positions are shown to be additive and linear by
a least counterexample (`SumIs`, `SumLinear`), as the fold of a run is shown to have a value
(`PlanFolds`). That the errors of a line and their products with the costs add up to zero is then
an identity of the five sums (`LineResiduals`). When the denominator is zero, the code's line is
flat, and the second sum is zero only because all costs are equal: their spread is a sum of
squares that is zero (`CostsAgree`).

Proofs found two things wrong in a model: `Execution` took the second component of a condition's
value as its truth, where `literal_truthy` throws unless it is a boolean (`value_ops.cpp:9`);
a filter by a NULL now ends the query. And `Matches` and `Output` of `Coordinator` were CASE
expressions whose guards overlap, whose value TLA+ leaves open (TLC takes the first that is
true); they are now IF / ELSE in the code's order.

Only model-checked:

- liveness (`ExpiredReclaimed`, `ForcedCloseEnds`, `AnsweredUnlessHung`, that an execution
  ends): out of this prover's reach;
- `MatchesLocal` for plans that aggregate: a sum over a set of rows is a fold, and that sums of
  partial sums are the sum is an induction over data;
- that `OperatorsAgree` holds of a given plan: which values a column holds is not part of a plan.
  The `execution` run checks `RowsAsPlanned` and `ActualRows` without it, on tables with NULLs;
- that the texts of the learning files satisfy `TextsRead`: only for the models that `MCLearning`
  lists;
- `LogicalOptimizer`, `QueryPlanner`, and the text modules with `QueryText` and `LearningText`:
  their operators are RECURSIVE, as the code is (trees, `parse_value`, `parse_or`, `Write`),
  or use such operators, and no module with theorems extends them.

## 6. Known disagreements between code and documentation

Checked as a run that must fail, with a finding in `PROJECT.json`:

- `planner_conjuncts`: two predicates between the same tables are two edges, a join takes
  the first, and the other is applied nowhere (`join_enumerator.cpp:66`); a condition that
  `greedy_join_order` has not used when one node is left is dropped (`optimizer.cpp:336`).

Met while modelling, stated as properties next to the others. `MC<module>_refuted.cfg`
shows the counterexample of one property of its module when TLC is run on it by hand; the
others are comments in it, with the constants each needs.

| Module | Property | What the code does |
|---|---|---|
| `CacheStore` | `IncrementStored` | INCR of an expired key answers a number but leaves the old expiry, so the number cannot be read back (`shard.go:223`, comment at 214) |
| `CacheStore` | `FootprintWithinBudget` | restored entries have size 0, so the shard holds more than its budget (`snapshot.go:172`; `cache/README.md:152`) |
| `CacheStore` | `MinusOneMeansNoExpiry` | TTL answers -1 in the last instant of a key with an expiry (`expiry.go:40`; `cache/README.md:102`) |
| `CacheSnapshot` | `EncodedAsStored` | a save reads entries without their lock (`snapshot.go:71`; `shard.go:14`) |
| `CacheSnapshot` | `FinalSnapshotSurvives` | a periodic save still running renames its image over the final one (`main.go:81`; `cache/README.md:203`) |
| `CacheServer` | `AckedWritesSaved` | a connection between Accept and `wg.Add` escapes Shutdown's wait; its acknowledged write misses the final snapshot (`server.go:71`; `cache/README.md:193`) |
| `CacheServer` | `ShutdownCompletes` | a connection tracked after the forced close is never closed (`server.go:121`) |
| `Coordinator` | `MinMatchesLocal` | MIN and MAX start from a NULL partial and never leave it (`coordinator.cpp:288`; `coordinator.hpp:48`) |
| `Coordinator` | `AvgMatchesLocal` | AVG over no rows is 0.0, not NULL (`coordinator.cpp:305`) |
| `Coordinator` | `ShuffleMatchesLocal` | 1 and 1.0 compare equal and hash apart (`coordinator.cpp:182`) |
| `Coordinator` | `StrategyNeverFails` | shuffle of a join that is no equality throws (`coordinator.cpp:163`) |
| `Coordinator` | `QueryCompletes` | the worker timeout covers connecting, not receiving (`http_client.cpp:96`) |
| `PlanCache` | `FreshAfterAnalyze` | sessions that ANALYZE different data use the same epoch and share keys (`cmd/cli/main.cpp:241`, comment at 237) |
| `PlanCache` | `CacheTroubleNeverSurfaces` | a cached value that does not parse makes planning throw (`cached_planner.cpp:38`) |
| `PlanCache` | `QueryAnswered` | `recv` from the cache has no timeout (`cache_client.cpp:66`) |
| `QueryPlanner` | `OuterJoinsNotSearched` | a LEFT JOIN below a pushed-down filter is reordered as an inner join, because `all_inner` stops at the filter (`join_graph.cpp:22`; `join_graph.hpp:43`) |
| `QueryPlanner` | `LinkedQueriesPlanned` | a condition over three tables is taken for the first pair of them it touches; that pair's own condition is left over and dropped, and the query is refused as disconnected (`optimizer.cpp:307`; `join_enumerator.hpp:41`) |
| `QueryPlanner` | `CheapestPlan` | with four relations the plan is not always the cheapest left-deep one (`join_enumerator.cpp:196`; `join_enumerator.hpp:40`) |
| `QueryPlanner` | `StarReadsAllColumns` | SELECT * with a condition records only the condition's columns at the scans (`optimizer.cpp:136`; `logical_plan.hpp:39`); the executor reads all columns anyway |
| `Execution` | `OuterRowsKept` | `build_executor` ignores `join_type`, so a LEFT JOIN runs as an inner join (`executor_builder.cpp:55`; `optimizer.cpp:209` keeps outer joins in place for their meaning) |
| `Execution` | `HashJoinsAgree` | a hash join matches NULL with NULL, because it compares printed keys (`operators.cpp:186`); a loop does not |
| `Execution` | `HashJoinsRun` | the search plans a hash join for any equality, and its executor throws unless both sides are columns (`operators.cpp:173`) |
| `Execution` | `ComparatorLawful` | with a NULL key, descending, each of two rows sorts before the other, which `std::sort` does not allow (`operators.cpp:383`) |
| `QueryText` | `CacheKeyDiffersForDifferentPredicate` | floats are printed with six digits into the key, so statements that differ beyond them share a plan (`sql_printer.cpp:36`) |
| `QueryText` | `WholeTextRead` | tokens after the last clause are dropped: `a = b = c` is answered as `a = b` (`parser.cpp:84`) |
| `QueryText` | `ServedPlanIsForStatement`, `WorkerReadsWhatWasSent` with `MCOdd...` | carriage returns and control characters are written as `\r` and `\u00XX` and read back as letters (`json.cpp:146`); integers above 2^53 are rounded (`row_json.cpp:15`) |
| `Learning` | `LearningSurvives` | the file is truncated before it is written and the last writer wins: a crash, or a second process, loses what was learned (`bandit.cpp:91`, `calibration.cpp:135`) |

`ImplementsExpiringMap` holds in spite of two of these, because `ExpiringMap` allows them:
TTL may answer -1 in the last instant of a key, and INCR of a key that has expired may
answer a number and leave nothing visible. It says nothing against either; only
`MinusOneMeansNoExpiry` and `IncrementStored` do. `AccountingExact` and `BudgetRespected`
are about the bytes that the store accounts for, which are none for restored entries:
`FootprintWithinBudget` is about the others.

The other passing properties exclude these cases: MIN, MAX and ungrouped AVG are not
among `coordinator_match`'s queries and its keys are integers; `ForcedCloseEnds`,
`PlanMatchesStats`, `AnsweredUnlessHung`, `CheapestOfThree`, `TreeKeepsConjuncts`,
`SimpleKept`, `ScansReadWhatIsUsed`, `RowsAsPlanned` and `ActualRows` name their provisos;
`query_text`'s strings have no carriage returns or control characters, its one float prints
exactly and its integers are below the mantissa. `AverageIsMean` and `CalibrationFitsAll`
allow observations to be lost, never to be mixed or counted twice; a kind of operator that is
lost entirely is skipped by the second.

## 7. What is not modelled

- Monotone counters (hits, misses, expired, evicted, commands): telemetry that nothing
  reads back.
- Characters: the lexer, whitespace, the digits of numbers, RESP frames, CSV, the snapshot's
  layout. A snapshot either passes its checksum or does not; a cut number or word is refused
  with the JSON text around it, which is cut too.
- Rounding of doubles other than `ToDouble` and `FloatToken`: averages and fits are exact, so
  nothing is shown of `denom == 0.0` (`calibration.cpp:63`) where rounding decides it.
- A short write of a learned model over the longer text of another process
  (`Learning`'s `WriteShort` is into a file that nobody else wrote meanwhile).
- Statistics read while their files are changing one by one (`statistics_loader.cpp:75`):
  `PlanCache` loads a directory in one step, and a mixture of two versions counts as torn.
- A table without an `id` column, which every worker keeps whole, and rows whose id is not an
  integer (`partition.cpp:28`, `partition.cpp:33`): the schema has neither.
- Hash collisions of plan cache keys; resolving host names, connecting and its timeout (a
  call that fails, in `Coordinator`); requests above the readers' limit of 1 MiB; a peer that
  closes while the other still writes (`http_client.cpp:84`, `cache_client.cpp:226`): nobody
  handles the signal, which ends the process.
- The demo and benchmark commands, web pages, metrics log: output.
- DBSIZE, INFO, PING, ECHO: they only read. TYPE is EXISTS with another reply; DEL, EXISTS,
  MGET and MSET of several keys are sequences of the one-key operations, as in the code.
- Selectivity, histograms, and the costs of operators that nothing chooses
  by: floating-point functions without state.
- The physical operators chosen outside the join search; HAVING in `LogicalOptimizer`,
  which stays above the Aggregate it is planned on.
- HAVING, ORDER BY, LIMIT, projection and column names in `Coordinator`: they run on the
  merged rows as on one node. `recovered_workers` and timings are reporting.
- In `Execution`: joins of more than two tables, the row counters of the scans and filters
  below a join, `ExternalRows` (a scan of rows that came
  with their schema), strings, arithmetic other than addition, column names of computed
  columns, timings.
- A cluster whose workers were started with other data or another worker count than the
  coordinator's (`cmd/worker/main.cpp:35`): how it is started is up to its operators.
