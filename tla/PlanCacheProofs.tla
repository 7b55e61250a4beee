-------------------------- MODULE PlanCacheProofs ---------------------------
(***************************************************************************)
(* Proofs about the shared plan cache for every set of sessions, web       *)
(* requests, queries and files: a query never runs a plan made for another *)
(* query, nor, under the two provisos of PlanMatchesStats, one made from   *)
(* statistics other than its own process's.                                *)
(***************************************************************************)
EXTENDS PlanCache, TLAPS

Stats == {<<"no statistics">>} \cup ({"files"} \X StatsFiles) \cup ({"data"} \X DataFiles)

PCs     == {"down", "loaded", "ready", "lookup", "planning", "store"}
Asking  == {"lookup", "planning", "store"}
Started == {"ready", "lookup", "planning", "store"}

\* The directories and the server.
World ==
  /\ statsDir \in StatsFiles /\ dataDir \in DataFiles
  /\ server \in {"up", "hung", "down"}
  /\ torn \in BOOLEAN /\ edited \in BOOLEAN

\* A process's record.
Versions == {None} \cup ({"files"} \X StatsFiles) \cup ({"epoch"} \X (1..MaxEpoch))

ProcType ==
  [pc : PCs, stats : Stats \cup {None}, version : Versions,
   epoch : 0..MaxEpoch, data : DataFiles \cup {None}, link : {"none", "open", "broken"},
   query : Queries \cup {None}, plan : PlanType \cup {None},
   outcome : {"none", "plan", "error"}]

Records == proc \in [Processes -> ProcType]

\* A version tells which statistics it was computed from: a fingerprint names the
\* files, unless they changed while a process was reading them, and an epoch
\* stands for the one content that the data has had, unless that was edited.
Tells(version, stats) ==
  \/ \E d \in StatsFiles : /\ version = <<"files", d>>
                           /\ ~torn => stats = Loaded(d)
  \/ \E n \in 1..MaxEpoch : /\ version = <<"epoch", n>>
                            /\ ~edited => stats = <<"data", dataDir>>

\* A started process: its version tells its statistics, and says whether the
\* session has ANALYZEd.
Versioned(r) ==
  /\ r.stats \in Stats
  /\ r.data \in DataFiles
  /\ ~edited => r.data = dataDir
  /\ Tells(r.version, r.stats)
  /\ IF r.epoch = 0 THEN \E d \in StatsFiles : r.version = <<"files", d>>
                    ELSE r.version = <<"epoch", r.epoch>>

\* What a process knows at each point of plan_with_cache ...
Progress(r) ==
  /\ r.pc \in Asking => r.query \in Queries
  /\ r.pc = "store" => r.plan = [query |-> r.query, stats |-> r.stats]
  /\ r.pc = "loaded" => r.epoch = 0 /\ r.stats \in Stats
  /\ r.pc \in Started => Versioned(r)
  /\ r.outcome = "plan" => r.pc = "ready" /\ r.plan \in PlanType

\* ... and PlanMatchesStats of one process.
Matches(r) ==
  r.outcome = "plan" /\ (IF r.epoch = 0 THEN ~torn ELSE ~edited)
    => r.plan = [query |-> r.query, stats |-> r.stats]

\* A cached plan is its key's query's, made from statistics that its key's
\* version tells.
Cached ==
  \A k \in DOMAIN cache :
    cache[k] # Garbage =>
      /\ cache[k] \in PlanType
      /\ cache[k].query = k[1]
      /\ Tells(k[2], cache[k].stats)

Sound == \A p \in Processes : Progress(proc[p]) /\ Matches(proc[p])

\* The inductive invariant.
IInv == World /\ Records /\ Cached /\ Sound

-----------------------------------------------------------------------------
\* What load_catalog_from_directory returns is a set of statistics.
LEMMA LoadedType == \A d \in StatsFiles : Loaded(d) \in Stats
BY DEF Loaded, Stats

\* A plan is the pair of its query and its statistics.
LEMMA PlanIsPair ==
  /\ \A plan \in PlanType :
       /\ plan.query \in Queries /\ plan.stats \in Stats
       /\ plan = [query |-> plan.query, stats |-> plan.stats]
  /\ \A q \in Queries, s \in Stats : [query |-> q, stats |-> s] \in PlanType
<1>1. PlanType = [query : Queries, stats : Stats]
  BY DEF PlanType, Stats
<1> HIDE DEF PlanType
<1> QED BY <1>1

\* Equal versions tell equal statistics, if the proviso that belongs to the
\* version's kind holds: why a cache hit is sound.
LEMMA VersionsTell ==
  ASSUME NEW v, NEW s, NEW t, Tells(v, s), Tells(v, t),
         \/ ~torn /\ \E d \in StatsFiles : v = <<"files", d>>
         \/ ~edited /\ \E n \in 1..MaxEpoch : v = <<"epoch", n>>
  PROVE  s = t
<1>1. ASSUME ~torn, NEW d \in StatsFiles, v = <<"files", d>>
      PROVE  s = t
  <2>1. /\ \A n : v # <<"epoch", n>>
        /\ \A e : v = <<"files", e>> => e = d
    BY <1>1
  <2>2. s = Loaded(d) /\ t = Loaded(d)
    BY <1>1, <2>1 DEF Tells
  <2> QED BY <2>2
<1>2. ASSUME ~edited, NEW n \in 1..MaxEpoch, v = <<"epoch", n>>
      PROVE  s = t
  <2>1. /\ \A d : v # <<"files", d>>
        /\ \A m : v = <<"epoch", m>> => m = n
    BY <1>2
  <2>2. s = <<"data", dataDir>> /\ t = <<"data", dataDir>>
    BY <1>2, <2>1 DEF Tells
  <2> QED BY <2>2
<1> QED BY <1>1, <1>2

\* A process's record as its action leaves it.
LEMMA Others ==
  ASSUME IInv, NEW p \in Processes, UNCHANGED outside, Records', Cached',
         \A q \in Processes \ {p} : proc'[q] = proc[q],
         Progress(proc[p])', Matches(proc[p])'
  PROVE  IInv'
<1> USE DEF IInv, outside, files
<1>1. World'
  BY DEF World
<1>2. ASSUME NEW q \in Processes \ {p}
      PROVE  Progress(proc[q])' /\ Matches(proc[q])'
  <2>1. Progress(proc[q]) /\ Matches(proc[q])
    BY DEF Sound
  <2>2. proc'[q] = proc[q]
    OBVIOUS
  <2> QED BY <2>1, <2>2 DEF Progress, Matches, Versioned, Tells
<1>3. Sound'
  BY <1>2 DEF Sound
<1> QED BY <1>1, <1>3

\* The cache is as it was, and so is what its versions tell.
LEMMA CacheKept ==
  ASSUME Cached, UNCHANGED <<outside, cache>>
  PROVE  Cached'
BY DEF Cached, Tells, outside, files

-----------------------------------------------------------------------------
\* A process that is not running.
LEMMA DownType == Down \in ProcType
BY PlanCacheAssumption DEF Down, ProcType, Versions, PCs

\* The initial states satisfy the invariant.
LEMMA InitIInv == Init => IInv
<1> SUFFICES ASSUME Init PROVE IInv
  OBVIOUS
<1>1. World
  BY DEF Init, World
<1>3. Records
  BY DownType DEF Init, Records
<1>4. DOMAIN cache = {}
  BY DEF Init
<1>5. Cached
  BY <1>4 DEF Cached
<1>6. Sound
  BY DEF Init, Sound, Progress, Matches, Down, Asking, Started
<1> QED BY <1>1, <1>3, <1>5, <1>6 DEF IInv

\* A process starts: it loads the statistics, ...
LEMMA LoadStatsStep ==
  ASSUME IInv, NEW p \in Processes, LoadStats(p)
  PROVE  IInv'
<1> USE DEF IInv, LoadStats, files
<1> DEFINE r == [Down EXCEPT !.pc = "loaded", !.stats = Loaded(statsDir)]
<1>1. r \in ProcType
  BY DownType, LoadedType DEF World, ProcType, PCs
<1>2. Records'
  BY <1>1 DEF Records
<1>3. World' /\ Cached'
  BY DEF World, Cached, Tells
<1>4. ASSUME NEW q \in Processes
      PROVE  Progress(proc[q])' /\ Matches(proc[q])'
  <2>1. CASE q = p
    <3>1. /\ proc'[q].pc = "loaded" /\ proc'[q].outcome = "none" /\ proc'[q].epoch = 0
          /\ proc'[q].stats = Loaded(statsDir)
      BY <2>1 DEF Records, Down
    <3> QED BY <3>1, LoadedType DEF World, Progress, Matches, Asking, Started
  <2>2. CASE q # p
    <3>1. proc'[q] = proc[q]
      BY <2>2 DEF Records
    <3>2. Progress(proc[q]) /\ Matches(proc[q])
      BY DEF Sound
    <3> QED BY <3>1, <3>2 DEF Progress, Matches, Versioned, Tells
  <2> QED BY <2>1, <2>2
<1> QED BY <1>2, <1>3, <1>4 DEF Sound

\* ... and then computes their version.  If the files are no longer the ones it
\* loaded, torn records it.
LEMMA ComputeVersionsStep ==
  ASSUME IInv, NEW p \in Processes, ComputeVersions(p)
  PROVE  IInv'
<1> USE DEF IInv, files
<1>1. PICK c \in {"none", "open"} :
         proc' = [proc EXCEPT ![p].pc = "ready", ![p].version = <<"files", statsDir>>,
                              ![p].data = dataDir, ![p].link = c]
  BY DEF ComputeVersions, ConnectResults
<1>2. UNCHANGED <<files, server, starts, cache>> /\ torn' = (torn \/ proc[p].stats # Loaded(statsDir))
  BY DEF ComputeVersions
<1>3. World'
  BY <1>2 DEF World
<1>4. torn' = FALSE => torn = FALSE /\ proc[p].stats = Loaded(statsDir)
  BY <1>2 DEF World
<1>5. Cached'
  BY <1>2, <1>4 DEF Cached, Tells, World
<1>6. proc[p] \in ProcType /\ proc[p].pc = "loaded"
  BY DEF Records, ComputeVersions
<1>7. [proc[p] EXCEPT !.pc = "ready", !.version = <<"files", statsDir>>,
                      !.data = dataDir, !.link = c] \in ProcType
  <2>1. <<"files", statsDir>> \in Versions
    BY DEF World, Versions
  <2> QED BY <1>6, <2>1 DEF ProcType, PCs, World
<1>8. Records'
  BY <1>1, <1>7 DEF Records
<1>9. ASSUME NEW q \in Processes
      PROVE  Progress(proc[q])' /\ Matches(proc[q])'
  <2>1. CASE q = p
    <3>1. /\ proc'[q].pc = "ready" /\ proc'[q].version = <<"files", statsDir>>
          /\ proc'[q].data = dataDir
          /\ proc'[q].stats = proc[p].stats /\ proc'[q].epoch = proc[p].epoch
          /\ proc'[q].outcome = proc[p].outcome
      BY <1>1, <1>6, <2>1 DEF Records, ProcType
    <3>2. proc[p].epoch = 0 /\ proc[p].stats \in Stats /\ proc[p].outcome # "plan"
      BY <1>6 DEF Sound, Progress
    <3>3. Tells(proc[q].version, proc[q].stats)'
      BY <1>3, <1>4, <3>1 DEF Tells, World
    <3>4. Versioned(proc[q])'
      BY <1>2, <1>3, <3>1, <3>2, <3>3 DEF Versioned, World
    <3> QED BY <3>1, <3>2, <3>4 DEF Progress, Matches, Asking
  <2>2. CASE q # p
    <3>1. proc'[q] = proc[q]
      BY <1>1, <2>2 DEF Records
    <3>2. Progress(proc[q]) /\ Matches(proc[q])
      BY DEF Sound
    <3>3. Tells(proc[q].version, proc[q].stats) => Tells(proc[q].version, proc[q].stats)'
      BY <1>2, <1>4, <3>1 DEF Tells, World
    <3> QED BY <1>2, <1>4, <3>1, <3>2, <3>3 DEF Progress, Matches, Versioned, World
  <2> QED BY <2>1, <2>2
<1> QED BY <1>3, <1>5, <1>8, <1>9 DEF Sound

\* A step of one process that is written with Moves.
LEMMA MovesStep ==
  ASSUME IInv, NEW p \in Processes, NEW r \in ProcType, Moves(p, r), Cached',
         Progress(r), Matches(r)
  PROVE  IInv'
<1>1. UNCHANGED outside /\ proc' = [proc EXCEPT ![p] = r]
  BY DEF Moves
<1>2. Records' /\ proc'[p] = r /\ \A q \in Processes \ {p} : proc'[q] = proc[q]
  BY <1>1 DEF IInv, Records
<1>3. Progress(proc[p])' /\ Matches(proc[p])'
  BY <1>1, <1>2 DEF Progress, Matches, Versioned, Tells, outside, files
<1> QED BY <1>1, <1>2, <1>3, Others

\* A query arrives.
LEMMA AskStep ==
  ASSUME IInv, NEW p \in Processes, NEW q \in Queries, Ask(p, q)
  PROVE  IInv'
<1>1. PICK c \in {"none", "open", "broken"} :
        Moves(p, [proc[p] EXCEPT !.pc = "lookup", !.query = q, !.plan = None,
                                 !.outcome = "none", !.link = c])
  BY DEF Ask, ConnectResults, IInv, Records, ProcType
<1> DEFINE r == [proc[p] EXCEPT !.pc = "lookup", !.query = q, !.plan = None,
                                !.outcome = "none", !.link = c]
<1>2. proc[p] \in ProcType /\ proc[p].pc = "ready" /\ Versioned(proc[p])
  BY DEF Ask, IInv, Records, Sound, Progress, Started
<1>3. r \in ProcType
  BY <1>2 DEF ProcType, PCs
<1>4. /\ r.pc = "lookup" /\ r.query = q /\ r.outcome = "none"
      /\ r.stats = proc[p].stats /\ r.data = proc[p].data
      /\ r.version = proc[p].version /\ r.epoch = proc[p].epoch
  BY <1>2 DEF ProcType
<1>5. Progress(r) /\ Matches(r)
  <2> HIDE DEF r
  <2> QED BY <1>2, <1>4 DEF Progress, Matches, Versioned, Started, Asking
<1>6. Cached'
  BY CacheKept, <1>1 DEF IInv, Ask, Moves
<1> QED BY <1>1, <1>3, <1>5, <1>6, MovesStep

\* Closing or keeping a connection leaves one of the three states.
LEMMA KeepsType ==
  ASSUME NEW p, NEW link \in {"none", "open", "broken"}
  PROVE  Keeps(p, link) \in {"none", "open", "broken"}
BY DEF Keeps

\* plan_with_cache throws: the process is ready for the next query.
LEMMA ThrowsSound ==
  ASSUME IInv, NEW p \in Processes, proc[p].pc \in Asking
  PROVE  Throws(p) \in ProcType /\ Progress(Throws(p)) /\ Matches(Throws(p))
<1>1. proc[p] \in ProcType /\ Versioned(proc[p])
  BY DEF IInv, Records, Sound, Progress, Asking, Started
<1>2. Keeps(p, proc[p].link) \in {"none", "open", "broken"}
  BY <1>1, KeepsType DEF ProcType
<1>3. Throws(p) \in ProcType
  <2> DEFINE r == proc[p]
             link == Keeps(p, r.link)
  <2>1. Throws(p) = [r EXCEPT !.pc = "ready", !.plan = None, !.outcome = "error",
                              !.link = link]
    BY DEF Throws
  <2>2. r \in ProcType /\ link \in {"none", "open", "broken"}
    BY <1>1, <1>2
  <2> HIDE DEF r, link
  <2> QED BY <2>1, <2>2 DEF ProcType, PCs
<1>4. /\ Throws(p).pc = "ready" /\ Throws(p).outcome = "error"
      /\ Throws(p).stats = proc[p].stats /\ Throws(p).data = proc[p].data
      /\ Throws(p).version = proc[p].version /\ Throws(p).epoch = proc[p].epoch
  BY <1>1 DEF Throws, ProcType
<1> QED BY <1>1, <1>3, <1>4 DEF Progress, Matches, Versioned, Started, Asking

\* plan_with_cache returns a plan that is its caller's own, under the provisos.
LEMMA ReturnsSound ==
  ASSUME IInv, NEW p \in Processes, proc[p].pc \in Asking,
         NEW plan \in PlanType, NEW link \in {"none", "open", "broken"},
         (IF proc[p].epoch = 0 THEN ~torn ELSE ~edited)
           => plan = [query |-> proc[p].query, stats |-> proc[p].stats]
  PROVE  /\ Returns(p, plan, link) \in ProcType
         /\ Progress(Returns(p, plan, link))
         /\ Matches(Returns(p, plan, link))
<1> DEFINE r == Returns(p, plan, link)
<1>1. proc[p] \in ProcType /\ Versioned(proc[p])
  BY DEF IInv, Records, Sound, Progress, Asking, Started
<1>2. Keeps(p, link) \in {"none", "open", "broken"}
  BY KeepsType
<1>3. r \in ProcType
  BY <1>1, <1>2 DEF Returns, ProcType, PCs
<1>4. /\ r.pc = "ready" /\ r.outcome = "plan" /\ r.plan = plan
      /\ r.stats = proc[p].stats /\ r.data = proc[p].data /\ r.query = proc[p].query
      /\ r.version = proc[p].version /\ r.epoch = proc[p].epoch
  BY <1>1 DEF Returns, ProcType
<1> HIDE DEF r
<1>5. Progress(r) /\ Matches(r)
  BY <1>1, <1>4 DEF Progress, Matches, Versioned, Started, Asking
<1> QED BY <1>3, <1>5 DEF r

\* A cache hit: the key has the process's version, and equal versions tell equal
\* statistics.
LEMMA LookupHitStep ==
  ASSUME IInv, NEW p \in Processes, LookupHit(p)
  PROVE  IInv'
<1>1. Cached'
  BY CacheKept DEF IInv, LookupHit, Moves
<1>2. proc[p].pc \in Asking /\ proc[p] \in ProcType
  BY DEF LookupHit, Asking, IInv, Records
<1>3. CASE cache[Key(p)] = Garbage
  <2>1. Moves(p, Throws(p))
    BY <1>3 DEF LookupHit
  <2> QED BY <1>1, <1>2, <2>1, ThrowsSound, MovesStep
<1>4. CASE cache[Key(p)] # Garbage
  <2> DEFINE plan == cache[Key(p)]
  <2>1. Moves(p, Returns(p, plan, "open"))
    BY <1>4 DEF LookupHit
  <2>2. /\ plan \in PlanType /\ plan.query = proc[p].query
        /\ Tells(proc[p].version, plan.stats)
    <3>1. /\ plan \in PlanType /\ plan.query = Key(p)[1]
          /\ Tells(Key(p)[2], plan.stats)
      BY <1>4 DEF LookupHit, IInv, Cached
    <3>2. Key(p)[1] = proc[p].query /\ Key(p)[2] = proc[p].version
      BY DEF Key
    <3> QED BY <3>1, <3>2
  <2>3. Versioned(proc[p]) /\ proc[p].epoch \in 0..MaxEpoch
    BY <1>2 DEF IInv, Sound, Progress, Asking, Started, ProcType
  <2> HIDE DEF plan
  <2>4. ASSUME IF proc[p].epoch = 0 THEN ~torn ELSE ~edited
        PROVE  plan = [query |-> proc[p].query, stats |-> proc[p].stats]
    <3>1. \/ ~torn /\ \E d \in StatsFiles : proc[p].version = <<"files", d>>
          \/ ~edited /\ \E n \in 1..MaxEpoch : proc[p].version = <<"epoch", n>>
      <4>1. CASE proc[p].epoch = 0
        BY <2>3, <2>4, <4>1 DEF Versioned
      <4>2. CASE proc[p].epoch # 0
        <5>1. proc[p].epoch \in 1..MaxEpoch
          BY <2>3, <4>2, PlanCacheAssumption
        <5> QED BY <2>3, <2>4, <4>2, <5>1 DEF Versioned
      <4> QED BY <4>1, <4>2
    <3>2. Tells(proc[p].version, proc[p].stats)
      BY <2>3 DEF Versioned
    <3>3. plan.stats = proc[p].stats
      BY <2>2, <3>1, <3>2, VersionsTell
    <3> QED BY <2>2, <3>3, PlanIsPair
  <2>5. /\ Returns(p, plan, "open") \in ProcType
        /\ Progress(Returns(p, plan, "open")) /\ Matches(Returns(p, plan, "open"))
    BY <1>2, <2>2, <2>4, ReturnsSound
  <2> QED BY <1>1, <2>1, <2>5, MovesStep
<1> QED BY <1>3, <1>4

\* A miss, or a connection that fails: the process plans the query itself.
LEMMA LookupMissStep ==
  ASSUME IInv, NEW p \in Processes, LookupMiss(p) \/ LookupFails(p)
  PROVE  IInv'
<1>1. proc[p].pc = "lookup" /\ proc[p] \in ProcType /\ Progress(proc[p]) /\ Versioned(proc[p])
  BY DEF LookupMiss, LookupFails, IInv, Records, Sound, Progress, Started
<1>2. PICK link \in {"none", "open", "broken"} :
        Moves(p, [proc[p] EXCEPT !.pc = "planning", !.link = link])
  <2>1. CASE LookupMiss(p)
    <3>1. [proc[p] EXCEPT !.pc = "planning"] =
            [proc[p] EXCEPT !.pc = "planning", !.link = proc[p].link]
      BY <1>1 DEF ProcType
    <3>2. proc[p].link \in {"none", "open", "broken"}
      BY <1>1 DEF ProcType
    <3>3. Moves(p, [proc[p] EXCEPT !.pc = "planning"])
      BY <2>1 DEF LookupMiss
    <3> QED BY <3>1, <3>2, <3>3
  <2>2. CASE LookupFails(p)
    BY <2>2 DEF LookupFails
  <2> QED BY <2>1, <2>2
<1> DEFINE r == [proc[p] EXCEPT !.pc = "planning", !.link = link]
<1>3. r \in ProcType
  BY <1>1 DEF ProcType, PCs
<1>4. /\ r.pc = "planning" /\ r.query = proc[p].query /\ r.outcome = proc[p].outcome
      /\ r.stats = proc[p].stats /\ r.data = proc[p].data
      /\ r.version = proc[p].version /\ r.epoch = proc[p].epoch
  BY <1>1 DEF ProcType
<1>5. Progress(r) /\ Matches(r)
  <2> HIDE DEF r
  <2> QED BY <1>1, <1>4 DEF Progress, Matches, Versioned, Started, Asking
<1>6. Cached'
  BY CacheKept, <1>2 DEF IInv, LookupMiss, LookupFails, Moves
<1> QED BY <1>2, <1>3, <1>5, <1>6, MovesStep

\* The optimizer runs.
LEMMA PlanStep ==
  ASSUME IInv, NEW p \in Processes, Plan(p)
  PROVE  IInv'
<1>1. Cached'
  BY CacheKept DEF IInv, Plan, Moves
<1>2. proc[p].pc = "planning" /\ proc[p] \in ProcType /\ Progress(proc[p]) /\ Versioned(proc[p])
  BY DEF Plan, IInv, Records, Sound, Progress, Started
<1>3. CASE proc[p].query \in Unplannable
  <2>1. Moves(p, Throws(p)) /\ proc[p].pc \in Asking
    BY <1>2, <1>3 DEF Plan, Asking
  <2> QED BY <1>1, <2>1, ThrowsSound, MovesStep
<1>4. CASE proc[p].query \notin Unplannable
  <2> DEFINE plan == [query |-> proc[p].query, stats |-> proc[p].stats]
             r == [proc[p] EXCEPT !.pc = "store", !.plan = plan]
  <2>1. Moves(p, r)
    BY <1>4 DEF Plan
  <2>2. plan \in PlanType
    BY <1>2, PlanIsPair DEF Progress, Versioned, Asking
  <2>3. r \in ProcType
    <3> HIDE DEF plan
    <3> QED BY <1>2, <2>2 DEF ProcType, PCs
  <2>4. /\ r.pc = "store" /\ r.query = proc[p].query /\ r.outcome = proc[p].outcome
        /\ r.stats = proc[p].stats /\ r.data = proc[p].data /\ r.plan = plan
        /\ r.version = proc[p].version /\ r.epoch = proc[p].epoch
    <3> HIDE DEF plan
    <3> QED BY <1>2 DEF ProcType
  <2>5. Progress(r) /\ Matches(r)
    <3> HIDE DEF r
    <3> QED BY <1>2, <2>4 DEF Progress, Matches, Versioned, Started, Asking
  <2> QED BY <1>1, <2>1, <2>3, <2>5, MovesStep
<1> QED BY <1>3, <1>4

\* The SET puts under the process's key the plan it has just made.
LEMMA WithPlanCached ==
  ASSUME IInv, NEW p \in Processes, proc[p].pc = "store",
         cache' = WithPlan(p), UNCHANGED outside
  PROVE  Cached'
<1>1. Versioned(proc[p]) /\ Progress(proc[p])
  BY DEF IInv, Sound, Progress, Started
<1>2. /\ proc[p].plan \in PlanType
      /\ proc[p].plan.query = proc[p].query /\ proc[p].plan.stats = proc[p].stats
  BY <1>1, PlanIsPair DEF Progress, Versioned, Asking
<1>3. Tells(proc[p].version, proc[p].plan.stats)
  BY <1>1, <1>2 DEF Versioned
<1>4. Key(p)[1] = proc[p].query /\ Key(p)[2] = proc[p].version
  BY DEF Key
<1>5. ASSUME NEW k \in DOMAIN cache', cache'[k] # Garbage
      PROVE  cache'[k] \in PlanType /\ cache'[k].query = k[1] /\ Tells(k[2], cache'[k].stats)
  <2>1. CASE k = Key(p)
    <3>1. cache'[k] = proc[p].plan
      BY <2>1 DEF WithPlan
    <3> QED BY <1>2, <1>3, <1>4, <2>1, <3>1
  <2>2. CASE k # Key(p)
    <3>1. k \in DOMAIN cache /\ cache'[k] = cache[k]
      BY <2>2 DEF WithPlan
    <3> QED BY <1>5, <3>1 DEF IInv, Cached
  <2> QED BY <2>1, <2>2
<1> QED BY <1>5 DEF Cached, Tells, outside, files

\* Whether the SET succeeds or not, the process returns its own plan.
LEMMA StoreStep ==
  ASSUME IInv, NEW p \in Processes, Store(p) \/ StoreFails(p)
  PROVE  IInv'
<1>1. proc[p].pc = "store" /\ Progress(proc[p]) /\ Versioned(proc[p])
  BY DEF Store, StoreFails, IInv, Sound, Progress, Started
<1>2. UNCHANGED outside /\ cache' \in {cache, WithPlan(p)}
  BY DEF Store, StoreFails, Moves
<1>3. Cached'
  BY <1>1, <1>2, WithPlanCached, CacheKept DEF IInv
<1>4. proc[p].plan \in PlanType
  BY <1>1, PlanIsPair DEF Progress, Versioned, Asking
<1>5. PICK link \in {"none", "open"} : Moves(p, Returns(p, proc[p].plan, link))
  BY DEF Store, StoreFails
<1>6. proc[p].plan = [query |-> proc[p].query, stats |-> proc[p].stats]
      /\ proc[p].pc \in Asking
  BY <1>1 DEF Progress, Asking
<1>7. /\ Returns(p, proc[p].plan, link) \in ProcType
      /\ Progress(Returns(p, proc[p].plan, link)) /\ Matches(Returns(p, proc[p].plan, link))
  BY <1>4, <1>6, ReturnsSound
<1> QED BY <1>3, <1>5, <1>7, MovesStep

\* ANALYZE: a new epoch, and statistics from the data the session loaded.
LEMMA AnalyzeStep ==
  ASSUME IInv, NEW p \in Processes, Analyze(p)
  PROVE  IInv'
<1> DEFINE n == proc[p].epoch + 1
           s == <<"data", proc[p].data>>
           r == [proc[p] EXCEPT !.epoch = n, !.stats = s, !.version = <<"epoch", n>>,
                                !.plan = None, !.outcome = "none"]
<1>1. /\ proc[p].pc = "ready" /\ proc[p] \in ProcType /\ Versioned(proc[p])
      /\ proc[p].epoch < MaxEpoch
  BY DEF Analyze, IInv, Records, Sound, Progress, Started
<1>2. Moves(p, r)
  <2>1. Moves(p, [proc[p] EXCEPT !.epoch = @ + 1, !.stats = <<"data", proc[p].data>>,
                              !.version = <<"epoch", proc[p].epoch + 1>>,
                              !.plan = None, !.outcome = "none"])
    BY DEF Analyze
  <2> QED BY <2>1
<1>3. n \in 1..MaxEpoch
  BY <1>1, PlanCacheAssumption DEF ProcType
<1>4. s \in Stats /\ (~edited => s = <<"data", dataDir>>)
  BY <1>1 DEF Versioned, Stats
<1>5. r \in ProcType
  <2> HIDE DEF n, s
  <2>1. <<"epoch", n>> \in Versions
    BY <1>3 DEF Versions
  <2>2. n \in 0..MaxEpoch
    BY <1>3, PlanCacheAssumption
  <2> QED BY <1>1, <1>4, <2>1, <2>2 DEF ProcType
<1>6. /\ r.pc = "ready" /\ r.outcome = "none" /\ r.stats = s /\ r.data = proc[p].data
      /\ r.version = <<"epoch", n>> /\ r.epoch = n
  <2> HIDE DEF n, s
  <2> QED BY <1>1 DEF ProcType
<1> HIDE DEF n, s, r
<1>7. Tells(r.version, r.stats)
  BY <1>3, <1>4, <1>6 DEF Tells
<1>8. Versioned(r)
  BY <1>1, <1>3, <1>4, <1>6, <1>7, PlanCacheAssumption DEF Versioned
<1>9. Progress(r) /\ Matches(r)
  BY <1>6, <1>8 DEF Progress, Matches, Asking
<1>10. Cached'
  BY CacheKept DEF IInv, Analyze, Moves
<1> QED BY <1>2, <1>5, <1>9, <1>10, MovesStep

\* The process ends.
LEMMA QuitStep ==
  ASSUME IInv, NEW p \in Processes, Quit(p)
  PROVE  IInv'
<1>1. Moves(p, Down) /\ Cached'
  BY CacheKept DEF Quit, IInv, Moves
<1>2. Progress(Down) /\ Matches(Down)
  BY DEF Down, Progress, Matches, Asking, Started
<1> QED BY <1>1, <1>2, DownType, MovesStep

\* Somebody replaces the files: what the versions tell can only get less.
LEMMA EditStep ==
  ASSUME IInv, \/ \E f \in StatsFiles : EditStats(f)
               \/ \E f \in DataFiles : EditData(f)
  PROVE  IInv'
<1>1. UNCHANGED <<server, starts, torn, cache, proc>>
  BY DEF EditStats, EditData
<1>2. World' /\ Records'
  BY <1>1 DEF EditStats, EditData, IInv, World, Records
<1>3. edited' \/ UNCHANGED <<edited, dataDir>>
  BY DEF EditStats, EditData
<1>4. \A v, s : Tells(v, s) => Tells(v, s)'
  BY <1>1, <1>3 DEF Tells
<1>5. Cached'
  BY <1>1, <1>4 DEF IInv, Cached
<1>6. ~edited' => ~edited
  BY <1>3 DEF IInv, World
<1>7. Sound'
  <2> SUFFICES ASSUME NEW p \in Processes
               PROVE  Progress(proc[p])' /\ Matches(proc[p])'
    BY DEF Sound
  <2>1. Progress(proc[p]) /\ Matches(proc[p])
    BY DEF IInv, Sound
  <2>2. Versioned(proc[p]) => Versioned(proc[p])'
    BY <1>1, <1>3, <1>4, <1>6 DEF Versioned
  <2> QED BY <1>1, <1>6, <2>1, <2>2 DEF Progress, Matches
<1> QED BY <1>2, <1>5, <1>7 DEF IInv

\* The server stops, hangs or comes back: only links change.
LEMMA ServerStep ==
  ASSUME IInv, NEW s \in {"up", "hung", "down"}, ServerBecomes(s)
  PROVE  IInv'
<1>1. UNCHANGED <<files, starts, torn, cache>> /\ server' = s
  BY DEF ServerBecomes
<1>2. World' /\ Cached'
  BY <1>1 DEF IInv, World, Cached, Tells, files
<1>3. ASSUME NEW p \in Processes
      PROVE  proc'[p] \in ProcType /\ Progress(proc[p])' /\ Matches(proc[p])'
  <2>1. proc[p] \in ProcType /\ Progress(proc[p]) /\ Matches(proc[p])
    BY DEF IInv, Records, Sound
  <2>2. proc'[p] = proc[p] \/ proc'[p] = [proc[p] EXCEPT !.link = "broken"]
    BY DEF ServerBecomes
  <2>3. /\ proc'[p] \in ProcType
        /\ proc'[p].pc = proc[p].pc /\ proc'[p].query = proc[p].query
        /\ proc'[p].stats = proc[p].stats /\ proc'[p].data = proc[p].data
        /\ proc'[p].version = proc[p].version /\ proc'[p].epoch = proc[p].epoch
        /\ proc'[p].plan = proc[p].plan /\ proc'[p].outcome = proc[p].outcome
    BY <2>1, <2>2 DEF ProcType
  <2>4. Versioned(proc[p]) => Versioned(proc[p])'
    BY <1>1, <2>3 DEF Versioned, Tells, files
  <2> QED BY <1>1, <2>1, <2>3, <2>4 DEF Progress, Matches, files
<1>4. proc' = [p \in Processes |-> proc'[p]]
  BY DEF ServerBecomes
<1>5. Records'
  BY <1>3, <1>4 DEF Records
<1> QED BY <1>2, <1>3, <1>5 DEF IInv, Sound

\* An entry expires, is evicted, or is overwritten by a client of another kind.
LEMMA EntryStep ==
  ASSUME IInv, NEW k \in DOMAIN cache, Forget(k) \/ Overwrite(k)
  PROVE  IInv'
<1>1. UNCHANGED <<outside, proc>>
  BY DEF Forget, Overwrite
<1>2. \A j \in DOMAIN cache' : j \in DOMAIN cache /\ cache'[j] \in {cache[j], Garbage}
  BY DEF Forget, Overwrite, Restrict
<1>3. Cached'
  BY <1>1, <1>2 DEF IInv, Cached, Tells, outside, files
<1>4. World' /\ Records'
  BY <1>1 DEF IInv, World, Records, outside, files
<1>5. Sound'
  BY <1>1 DEF IInv, Sound, Progress, Matches, Versioned, Tells, outside, files
<1> QED BY <1>3, <1>4, <1>5 DEF IInv

\* Every step preserves the invariant.
LEMMA NextIInv == IInv /\ [Next]_vars => IInv'
<1> SUFFICES ASSUME IInv, [Next]_vars PROVE IInv'
  OBVIOUS
<1>1. ASSUME NEW p \in Processes, LoadStats(p) PROVE IInv'
  BY <1>1, LoadStatsStep
<1>2. ASSUME NEW p \in Processes, ComputeVersions(p) PROVE IInv'
  BY <1>2, ComputeVersionsStep
<1>3. ASSUME NEW p \in Processes, NEW q \in Queries, Ask(p, q) PROVE IInv'
  BY <1>3, AskStep
<1>4. ASSUME NEW p \in Processes, PlanWithCache(p) PROVE IInv'
  BY <1>4, LookupHitStep, LookupMissStep, PlanStep, StoreStep DEF PlanWithCache
<1>5. ASSUME NEW p \in Processes, Analyze(p) PROVE IInv'
  BY <1>5, AnalyzeStep
<1>6. ASSUME NEW p \in Processes, Quit(p) PROVE IInv'
  BY <1>6, QuitStep
<1>7. CASE \/ \E f \in StatsFiles : EditStats(f)
           \/ \E f \in DataFiles : EditData(f)
  BY <1>7, EditStep
<1>8. ASSUME NEW s \in {"up", "hung", "down"}, ServerBecomes(s) PROVE IInv'
  BY <1>8, ServerStep
<1>9. ASSUME NEW k \in DOMAIN cache, Forget(k) \/ Overwrite(k) PROVE IInv'
  BY <1>9, EntryStep
<1>10. CASE UNCHANGED vars
  <2>1. Cached'
    BY <1>10, CacheKept DEF IInv, vars
  <2>2. World' /\ Records' /\ Sound'
    BY <1>10 DEF IInv, World, Records, Sound, Progress, Matches, Versioned, Tells,
                 vars, outside, files
  <2> QED BY <2>1, <2>2 DEF IInv
<1> QED BY <1>1, <1>2, <1>3, <1>4, <1>5, <1>6, <1>7, <1>8, <1>9, <1>10 DEF Next

-----------------------------------------------------------------------------
\* The invariant holds throughout.
THEOREM VersionsTrusted == Spec => []IInv
BY InitIInv, NextIInv, PTL DEF Spec

\* Type invariant; in it, that the cache never holds a plan under another
\* query's key, whatever expires, is evicted or is overwritten, and whoever
\* stores it.
THEOREM TypeCorrect == Spec => []TypeOK
<1>1. IInv => TypeOK
  <2> SUFFICES ASSUME IInv PROVE TypeOK
    OBVIOUS
  <2>1. \A p \in Processes : proc[p] \in ProcType /\ Progress(proc[p])
    BY DEF IInv, Records, Sound
  <2> QED BY <2>1 DEF IInv, TypeOK, World, Cached, Progress, ProcType, PCs, Asking
<1> QED BY <1>1, VersionsTrusted, PTL

\* A query never runs a plan that was made from statistics other than its own
\* process's, under the provisos of PlanMatchesStats, however many processes
\* start, ANALYZE, ask and end, and whatever happens to the files and the cache.
THEOREM PlanServedMatches == Spec => []PlanMatchesStats
<1>1. IInv => PlanMatchesStats
  BY DEF IInv, Sound, Matches, PlanMatchesStats
<1> QED BY <1>1, VersionsTrusted, PTL
=============================================================================
