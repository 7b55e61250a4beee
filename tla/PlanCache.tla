----------------------------- MODULE PlanCache ------------------------------
(***************************************************************************)
(* The optimizer's use of the plan cache (integration/cached_planner,      *)
(* cache_key, cache_client) by the processes that plan queries: CLI        *)
(* sessions, which may ANALYZE, and web requests, which open a connection  *)
(* each (the coordinator is a CLI without ANALYZE).  They share one cache  *)
(* and read the statistics and data files when they start.                 *)
(*                                                                         *)
(* The optimizer is a deterministic function of the query and the          *)
(* statistics, so a plan is the pair of the two.  The schema catalog is    *)
(* compiled in: its version is the same in every key and is left out.      *)
(***************************************************************************)
EXTENDS Integers, FiniteSets, Functions

CONSTANTS
  CLIs,        \* interactive sessions: one connection, made at the start
  Webs,        \* web request threads: a connection per request
  Queries,     \* canonical SQL texts
  Unplannable, \* those that the planner rejects
  StatsFiles,  \* contents that stats/*.json may have
  Malformed,   \* those that load_catalog_from_directory cannot parse
  DataFiles,   \* contents that data/*.csv may have
  MaxStarts,   \* bound: how often a process is started
  MaxEpoch,    \* bound: how often one session ANALYZEs
  None,        \* nothing yet
  Garbage      \* a cached value that deserialize_plan cannot parse

Processes == CLIs \cup Webs

ASSUME PlanCacheAssumption ==
  /\ CLIs \cap Webs = {}
  /\ Unplannable \subseteq Queries /\ Malformed \subseteq StatsFiles
  /\ MaxStarts \in Nat /\ MaxEpoch \in Nat

VARIABLES
  statsDir, dataDir,  \* what the two directories hold
  server,             \* the cache server: "up", "hung" (accepts, never answers), "down"
  cache,              \* a function from some keys to what is stored there
  proc,               \* Processes -> the state of the process
  starts,             \* Processes -> how often it was started
  torn,               \* history: a process loaded other statistics than it fingerprinted
  edited              \* history: dataDir has changed

files   == <<statsDir, dataDir, edited>>
outside == <<files, server, starts, torn>>
vars == <<outside, cache, proc>>

-----------------------------------------------------------------------------
\* load_catalog_from_directory; on an exception main goes on with no statistics.
Loaded(dir) == IF dir \in Malformed THEN <<"no statistics">> ELSE <<"files", dir>>

\* build_cache_key: query hash and stats_version.
Key(p) == <<proc[p].query, proc[p].version>>

\* CacheClient::connect against a server that accepts may still time out.
ConnectResults == IF server = "down" THEN {"none"} ELSE {"none", "open"}

\* A connected client whose request reaches a server that answers.
Served(p) == proc[p].link = "open" /\ server = "up"

Down == [pc |-> "down", stats |-> None, version |-> None, epoch |-> 0, data |-> None,
         link |-> "none", query |-> None, plan |-> None, outcome |-> "none"]

\* Process p's state changes, and nothing else does.
Moves(p, state) == proc' = [proc EXCEPT ![p] = state] /\ UNCHANGED outside

\* A web request's connection is closed when the request ends; a session's stays
\* as it is, and one that broke is closed for good.
Keeps(p, link) == IF p \in CLIs THEN link ELSE "none"

\* plan_with_cache returns to its caller with this plan ...
Returns(p, plan, link) ==
  [proc[p] EXCEPT !.pc = "ready", !.plan = plan, !.outcome = "plan", !.link = Keeps(p, link)]

\* ... or throws, which the REPL prints and the web server answers with a 500.
Throws(p) ==
  [proc[p] EXCEPT !.pc = "ready", !.plan = None, !.outcome = "error",
                  !.link = Keeps(p, proc[p].link)]

-----------------------------------------------------------------------------
\* main loads the statistics, ... (The loader reads one file after the other; what
\* an edit in between mixes is compared with the files as ComputeVersions finds
\* them, like any other version.)
LoadStats(p) ==
  /\ proc[p].pc = "down" /\ starts[p] < MaxStarts
  /\ proc' = [proc EXCEPT ![p] = [Down EXCEPT !.pc = "loaded", !.stats = Loaded(statsDir)]]
  /\ starts' = [starts EXCEPT ![p] = @ + 1]
  /\ UNCHANGED <<files, server, torn, cache>>

\* ... then reads the directory again for compute_versions, loads the data and
\* (the CLI) connects to the cache.
ComputeVersions(p) ==
  /\ proc[p].pc = "loaded"
  /\ \E c \in IF p \in CLIs THEN ConnectResults ELSE {"none"} :
       proc' = [proc EXCEPT ![p].pc = "ready", ![p].version = <<"files", statsDir>>,
                            ![p].data = dataDir, ![p].link = c]
  /\ torn' = (torn \/ proc[p].stats # Loaded(statsDir))
  /\ UNCHANGED <<files, server, starts, cache>>

\* Mutant of Ask: the last answer is not forgotten.
AskKeepsOutcome(p, q) ==
  /\ proc[p].pc = "ready"
  /\ Moves(p, [proc[p] EXCEPT !.pc = "lookup", !.query = q, !.plan = None])
  /\ UNCHANGED cache

\* A query arrives; a web request opens its own connection.
Ask(p, q) ==
  /\ proc[p].pc = "ready"
  /\ \E c \in IF p \in CLIs THEN {proc[p].link} ELSE ConnectResults :
       Moves(p, [proc[p] EXCEPT !.pc = "lookup", !.query = q, !.plan = None,
                                !.outcome = "none", !.link = c])
  /\ UNCHANGED cache

\* GET finds the key: the plan is deserialized, which may throw.
LookupHit(p) ==
  /\ proc[p].pc = "lookup" /\ Served(p)
  /\ Key(p) \in DOMAIN cache
  /\ Moves(p, IF cache[Key(p)] = Garbage THEN Throws(p)
              ELSE Returns(p, cache[Key(p)], "open"))
  /\ UNCHANGED cache

\* Mutant of LookupMiss: a client without a connection waits for one.
LookupMissConnected(p) ==
  /\ proc[p].pc = "lookup"
  /\ Served(p) /\ Key(p) \notin DOMAIN cache
  /\ Moves(p, [proc[p] EXCEPT !.pc = "planning"])
  /\ UNCHANGED cache

LookupMiss(p) ==
  /\ proc[p].pc = "lookup"
  /\ \/ proc[p].link = "none"
     \/ Served(p) /\ Key(p) \notin DOMAIN cache
  /\ Moves(p, [proc[p] EXCEPT !.pc = "planning"])
  /\ UNCHANGED cache

\* send or recv fails: the client closes the connection for good, and get()
\* reports a miss.
LookupFails(p) ==
  /\ proc[p].pc = "lookup" /\ proc[p].link = "broken"
  /\ Moves(p, [proc[p] EXCEPT !.pc = "planning", !.link = "none"])
  /\ UNCHANGED cache

\* The optimizer runs, or rejects the query.
Plan(p) ==
  /\ proc[p].pc = "planning"
  /\ Moves(p, IF proc[p].query \in Unplannable THEN Throws(p)
              ELSE [proc[p] EXCEPT !.pc = "store",
                      !.plan = [query |-> proc[p].query, stats |-> proc[p].stats]])
  /\ UNCHANGED cache

WithPlan(p) ==
  [k \in DOMAIN cache \cup {Key(p)} |-> IF k = Key(p) THEN proc[p].plan ELSE cache[k]]

\* SET with the TTL; its result is ignored.
Store(p) ==
  /\ proc[p].pc = "store" /\ Served(p)
  /\ cache' = WithPlan(p)
  /\ Moves(p, Returns(p, proc[p].plan, "open"))

\* No connection, or it broke before or after the server took the SET.
StoreFails(p) ==
  /\ proc[p].pc = "store" /\ proc[p].link # "open"
  /\ cache' \in {cache} \cup (IF proc[p].link = "broken" THEN {WithPlan(p)} ELSE {})
  /\ Moves(p, Returns(p, proc[p].plan, "none"))

\* Mutant of Analyze: the new statistics keep the old version.
AnalyzeKeepsVersion(p) ==
  /\ p \in CLIs /\ proc[p].pc = "ready" /\ proc[p].epoch < MaxEpoch
  /\ Moves(p, [proc[p] EXCEPT !.epoch = @ + 1, !.stats = <<"data", proc[p].data>>,
                              !.plan = None, !.outcome = "none"])
  /\ UNCHANGED cache

\* run_analyze: statistics from the loaded data, and a version made of nothing
\* but this session's epoch.
Analyze(p) ==
  /\ p \in CLIs /\ proc[p].pc = "ready" /\ proc[p].epoch < MaxEpoch
  /\ Moves(p, [proc[p] EXCEPT !.epoch = @ + 1, !.stats = <<"data", proc[p].data>>,
                              !.version = <<"epoch", proc[p].epoch + 1>>,
                              !.plan = None, !.outcome = "none"])
  /\ UNCHANGED cache

\* EXIT, or the end of a web server's process.
Quit(p) ==
  /\ proc[p].pc = "ready"
  /\ Moves(p, Down)
  /\ UNCHANGED cache

-----------------------------------------------------------------------------
\* The environment: somebody replaces the files, ...
EditStats(f) ==
  /\ f # statsDir /\ statsDir' = f
  /\ UNCHANGED <<dataDir, edited, server, starts, torn, cache, proc>>

EditData(f) ==
  /\ f # dataDir /\ dataDir' = f /\ edited' = TRUE
  /\ UNCHANGED <<statsDir, server, starts, torn, cache, proc>>

\* ... the server stops, hangs or comes back; its entries expire or are evicted,
\* and a client of another kind may overwrite one.
ServerBecomes(s) ==
  /\ s # server /\ server' = s
  /\ proc' = [p \in Processes |-> IF s = "down" /\ proc[p].link = "open"
                                   THEN [proc[p] EXCEPT !.link = "broken"] ELSE proc[p]]
  /\ UNCHANGED <<files, starts, torn, cache>>

Forget(k) ==
  /\ k \in DOMAIN cache
  /\ cache' = Restrict(cache, DOMAIN cache \ {k})
  /\ UNCHANGED <<outside, proc>>

Overwrite(k) ==
  /\ k \in DOMAIN cache /\ server = "up"
  /\ cache' = [cache EXCEPT ![k] = Garbage]
  /\ UNCHANGED <<outside, proc>>

-----------------------------------------------------------------------------
Init ==
  /\ statsDir \in StatsFiles /\ dataDir \in DataFiles
  /\ server = "up" /\ cache = <<>>
  /\ proc = [p \in Processes |-> Down]
  /\ starts = [p \in Processes |-> 0]
  /\ torn = FALSE /\ edited = FALSE

\* Everything between a query and its answer.
PlanWithCache(p) ==
  \/ LookupHit(p)
  \/ LookupMiss(p)
  \/ LookupFails(p)
  \/ Plan(p)
  \/ Store(p)
  \/ StoreFails(p)

Next ==
  \/ \E p \in Processes : LoadStats(p)
  \/ \E p \in Processes : ComputeVersions(p)
  \/ \E p \in Processes, q \in Queries : Ask(p, q)
  \/ \E p \in Processes : PlanWithCache(p)
  \/ \E p \in Processes : Analyze(p)
  \/ \E p \in Processes : Quit(p)
  \/ \E f \in StatsFiles : EditStats(f)
  \/ \E f \in DataFiles : EditData(f)
  \/ \E s \in {"up", "hung", "down"} : ServerBecomes(s)
  \/ \E k \in DOMAIN cache : Forget(k)
  \/ \E k \in DOMAIN cache : Overwrite(k)

Spec == Init /\ [][Next]_vars

\* plan_with_cache is sequential code that keeps running unless it is blocked
\* in recv.  Nothing is assumed of users, files or the cache server.
FairSpec == Spec /\ \A p \in Processes : WF_vars(PlanWithCache(p))

-----------------------------------------------------------------------------
PlanType == [query : Queries, stats : {<<"no statistics">>} \cup ({"files"} \X StatsFiles)
                                        \cup ({"data"} \X DataFiles)]

\* Type invariant: what a process has at each point of plan_with_cache, and
\* that the cache never holds a plan under another query's key.
TypeOK ==
  /\ statsDir \in StatsFiles /\ dataDir \in DataFiles
  /\ server \in {"up", "hung", "down"}
  /\ \A k \in DOMAIN cache :
       cache[k] # Garbage => cache[k] \in PlanType /\ cache[k].query = k[1]
  /\ \A p \in Processes :
       /\ proc[p].pc \in {"down", "loaded", "ready", "lookup", "planning", "store"}
       /\ proc[p].link \in {"none", "open", "broken"}
       /\ proc[p].pc \in {"lookup", "planning", "store"} => proc[p].query \in Queries
       /\ proc[p].outcome = "plan" => proc[p].plan \in PlanType

\* A query runs the plan its own process would have made: a plan that some
\* process cached is never served to one with other statistics.  Two provisos
\* come from the code: no process loaded its statistics and computed their
\* fingerprint on either side of a change of the files, and, for a session that
\* has ANALYZEd, all sessions saw the same data.
PlanMatchesStats ==
  \A p \in Processes :
    proc[p].outcome = "plan" /\ (IF proc[p].epoch = 0 THEN ~torn ELSE ~edited)
      => proc[p].plan = [query |-> proc[p].query, stats |-> proc[p].stats]

\* Every query is answered, with or without the cache, unless the cache server
\* accepts a request and never answers it.
AnsweredUnlessHung ==
  \A p \in Processes :
    proc[p].pc \in {"lookup", "planning", "store"}
      ~> (proc[p].pc = "ready" \/ server = "hung")

\* run_analyze's comment: the epoch "keeps every ANALYZE this session hashing to
\* a cache key nothing has used before".  So after an ANALYZE only plans made
\* from those statistics are served.
FreshAfterAnalyze ==
  \A p \in Processes :
    proc[p].outcome = "plan" /\ proc[p].epoch > 0 => proc[p].plan.stats = proc[p].stats

\* cached_planner.hpp: "cache trouble never surfaces as an exception here", so
\* only a query that the pipeline itself rejects fails.
CacheTroubleNeverSurfaces ==
  \A p \in Processes : proc[p].outcome = "error" => proc[p].query \in Unplannable

\* cache_client.hpp: "a down/unreachable cache never stops the optimizer from
\* working".
QueryAnswered ==
  \A p \in Processes :
    proc[p].pc \in {"lookup", "planning", "store"} ~> proc[p].pc = "ready"
=============================================================================
