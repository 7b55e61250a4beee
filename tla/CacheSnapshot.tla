--------------------------- MODULE CacheSnapshot ----------------------------
(***************************************************************************)
(* Snapshot persistence of the plan cache (cache/internal/persistence) and *)
(* the process life around it (cache/cmd/server/main.go): loading, the     *)
(* periodic save loop, the final save of a shutdown, crashes, power loss   *)
(* and restarts.                                                           *)
(*                                                                         *)
(* SaveSnapshot collects pointers to the live CacheEntry objects under the *)
(* shard locks, one shard at a time, and reads their fields afterwards     *)
(* without any lock.  incrBy, expire and persist update those same objects *)
(* in place; set and removals unlink them.  A saver's list therefore holds *)
(* Linked for an object that is still in the map, whose fields it reads as *)
(* they are at that moment, and a frozen copy for one that has been        *)
(* unlinked, which nobody writes any more.  LRU order, byte accounting and *)
(* eviction policy are CacheStore's; here any key may be dropped any time. *)
(***************************************************************************)
EXTENDS Integers, FiniteSets

CONSTANTS
  Keys,        \* the keys clients use
  NumShards,   \* number of shards
  ShardOf,     \* shardFor
  Savers,      \* the callers of SaveSnapshot: "loop" is runSnapshotLoop, absent
               \* when SnapshotInterval is 0, "main" the final save, and
               \* "client" a SAVE command
  Values,      \* values of entries
  TTLs,        \* TTLs of SET and EXPIRE, in clock units; 0 is SET's "no TTL"
  MaxTime,     \* bound: the clock stops here
  MaxRenames,  \* bound: snapshots renamed into place, over all restarts
  MaxRestarts, \* bound: times the process is started again
  None,        \* no entry, no operation in progress
  Changed,     \* history: a key some operation changed during a save
  Linked,      \* a collected pointer whose object is still in the map
  Torn,        \* a slice header read while incrBy was writing it
  Missing,     \* no file at the snapshot path
  Corrupt      \* a file whose checksum does not match

\* A CacheEntry; a torn value can be loaded back.
Entries == [value : Values \cup {Torn}, hasExpiry : BOOLEAN, expiresAt : Int]

\* The contents of a snapshot.
Images == [Keys -> Entries \cup {None}]

ASSUME SnapshotAssumption ==
  /\ IsFiniteSet(Keys)
  /\ NumShards \in Nat \ {0}
  /\ ShardOf \in [Keys -> 1..NumShards]
  /\ TTLs \subseteq Nat
  /\ MaxTime \in Nat /\ MaxRenames \in Nat /\ MaxRestarts \in Nat
  /\ Savers \subseteq {"loop", "main", "client"}
  /\ Entries \cap {None, Changed, Linked} = {} /\ None # Changed /\ None # Linked
  /\ Images \cap {Missing, Corrupt} = {} /\ Missing # Corrupt

\* time.Time{}, the year 1, which is what ExpiresAt holds until it is set.
ZeroTime == -1

VARIABLES
  mem,      \* Keys -> the CacheEntry in the map, or None
  busy,     \* Keys -> the rest of an in-place update under the shard's lock
  save,     \* Savers -> the local state of a running SaveSnapshot
  stable,   \* history: Savers -> mem when the save began, Changed since
  file,     \* the snapshot path: Missing, Corrupt or an image
  durable,  \* what power loss may leave at that path
  phase,    \* of main: "loading", "serving", "stopping" (in Shutdown),
            \* "saving" (the final snapshot), "exiting" or "down"
  final,    \* the image main's last save renamed into place, or None
  now, renames, restarts

storeVars == <<mem, busy>>
saveVars  == <<save, stable>>
diskVars  == <<file, durable, renames>>
vars == <<storeVars, saveVars, diskVars, phase, final, now, restarts>>

-----------------------------------------------------------------------------
Entry(v, hasExpiry, t) == [value |-> v, hasExpiry |-> hasExpiry, expiresAt |-> t]

IsExpired(ent, t) == ent.hasExpiry /\ t > ent.expiresAt

Empty == [k \in Keys |-> None]

Idle == [pc |-> "idle", next |-> 1, refs |-> Empty, image |-> Empty,
         key |-> None, value |-> None, flag |-> FALSE]

Unlocked(s) == \A k \in Keys : ShardOf[k] = s => busy[k] = None

\* A client command on k can run: the server is up or draining, and k's shard
\* is unlocked.
Locks(k) == phase \in {"serving", "stopping"} /\ Unlocked(ShardOf[k])

\* Every running save learns that k did not stay as it was.
Touches(k) ==
  stable' = [p \in Savers |-> IF save[p].pc = "idle" THEN stable[p]
                              ELSE [stable[p] EXCEPT ![k] = Changed]]

\* k's object leaves the map: pointers to it keep its last contents.
Unlink(k) ==
  /\ save' = [p \in Savers |->
               IF save[p].refs[k] = Linked
                 THEN [save[p] EXCEPT !.refs[k] = mem[k]] ELSE save[p]]
  /\ Touches(k)

environment == <<diskVars, phase, final, now, restarts>>

-----------------------------------------------------------------------------
\* SET (and INCR of a missing key): a new object replaces the old one.
Set(k, v, ttl) ==
  /\ Locks(k)
  /\ mem' = [mem EXCEPT ![k] = IF ttl > 0 THEN Entry(v, TRUE, now + ttl)
                                          ELSE Entry(v, FALSE, ZeroTime)]
  /\ Unlink(k)
  /\ UNCHANGED <<busy, environment>>

\* removeLocked, whoever calls it: DEL, lazy expiration and eviction while
\* clients are served; the expiration worker, which nobody waits for, until
\* the process is gone.
Remove(k) ==
  /\ mem[k] # None /\ Unlocked(ShardOf[k])
  /\ \/ phase \in {"serving", "stopping"}
     \/ phase \in {"saving", "exiting"} /\ IsExpired(mem[k], now)
  /\ mem' = [mem EXCEPT ![k] = None]
  /\ Unlink(k)
  /\ UNCHANGED <<busy, environment>>

\* incrBy on an entry: Value is a multi-word slice header, so an unlocked
\* reader may see it half written until IncrEnd.
IncrBegin(k, v) ==
  /\ Locks(k) /\ mem[k] # None
  /\ busy' = [busy EXCEPT ![k] = <<"value", v>>]
  /\ Touches(k)
  /\ UNCHANGED <<mem, save, environment>>

IncrEnd(k) ==
  /\ busy[k] # None /\ busy[k][1] = "value"
  /\ mem' = [mem EXCEPT ![k].value = busy[k][2]]
  /\ busy' = [busy EXCEPT ![k] = None]
  /\ UNCHANGED <<saveVars, environment>>

\* expire: HasExpiry is set first, ExpiresAt second.
ExpireBegin(k, ttl) ==
  /\ Locks(k) /\ mem[k] # None /\ ~IsExpired(mem[k], now)
  /\ mem' = [mem EXCEPT ![k].hasExpiry = TRUE]
  /\ busy' = [busy EXCEPT ![k] = <<"time", now + ttl>>]
  /\ Touches(k)
  /\ UNCHANGED <<save, environment>>

ExpireEnd(k) ==
  /\ busy[k] # None /\ busy[k][1] = "time"
  /\ mem' = [mem EXCEPT ![k].expiresAt = busy[k][2]]
  /\ busy' = [busy EXCEPT ![k] = None]
  /\ UNCHANGED <<saveVars, environment>>

Persist(k) ==
  /\ Locks(k) /\ mem[k] # None /\ ~IsExpired(mem[k], now) /\ mem[k].hasExpiry
  /\ mem' = [mem EXCEPT ![k].hasExpiry = FALSE]
  /\ Touches(k)
  /\ UNCHANGED <<busy, save, environment>>

-----------------------------------------------------------------------------
\* Mutant of MayStart: the save loop is started before the snapshot is loaded.
MayStartEarly(p) ==
  CASE p = "loop"   -> phase # "down"
    [] p = "main"   -> phase = "saving"
    [] p = "client" -> phase \in {"serving", "stopping"}

\* A save may start.  runSnapshotLoop selects between its ticker and the
\* canceled context, and select picks either when both are ready, so it can
\* start one more save during the shutdown.
MayStart(p) ==
  CASE p = "loop"   -> phase \in {"serving", "stopping", "saving", "exiting"}
    [] p = "main"   -> phase = "saving"
    [] p = "client" -> phase \in {"serving", "stopping"}

SaveBegin(p) ==
  /\ MayStart(p) /\ save[p].pc = "idle" /\ renames < MaxRenames
  /\ save' = [save EXCEPT ![p] = [Idle EXCEPT !.pc = "collect"]]
  /\ stable' = [stable EXCEPT ![p] =
                  [k \in Keys |-> IF busy[k] = None THEN mem[k] ELSE Changed]]
  /\ UNCHANGED <<storeVars, environment>>

\* Mutant of Collect: the last shard is not visited.
CollectMissesLast(p) ==
  LET s == save[p].next
      found == {k \in Keys : /\ ShardOf[k] = s /\ mem[k] # None
                             /\ ~IsExpired(mem[k], now)}
  IN  /\ save[p].pc = "collect" /\ Unlocked(s)
      /\ save' = [save EXCEPT
           ![p].refs = [k \in Keys |-> IF k \in found THEN Linked ELSE @[k]],
           ![p].next = s + 1,
           ![p].pc = IF s >= NumShards - 1 THEN "encode" ELSE "collect"]
      /\ UNCHANGED <<stable, storeVars, environment>>

\* forEach on the next shard, under its lock: pointers to its live entries.
Collect(p) ==
  LET s == save[p].next
      found == {k \in Keys : /\ ShardOf[k] = s /\ mem[k] # None
                             /\ ~IsExpired(mem[k], now)}
  IN  /\ save[p].pc = "collect" /\ Unlocked(s)
      /\ save' = [save EXCEPT
           ![p].refs = [k \in Keys |-> IF k \in found THEN Linked ELSE @[k]],
           ![p].next = s + 1,
           ![p].pc = IF s = NumShards THEN "encode" ELSE "collect"]
      /\ UNCHANGED <<stable, storeVars, environment>>

\* The object a saver's pointer leads to.
Deref(p, k) == IF save[p].refs[k] = Linked THEN mem[k] ELSE save[p].refs[k]

\* A reader of this field meets a writer: it may see the old contents, the new
\* ones, or some words of each (a Torn value, a moment nobody set, for which
\* ZeroTime stands).
Races(p, k, field) ==
  save[p].refs[k] = Linked /\ busy[k] # None /\ busy[k][1] = field

ToEncode(p) == {k \in Keys : save[p].refs[k] # None /\ save[p].image[k] = None}

\* Encoding one entry: Value, then HasExpiry, then ExpiresAt, each read on
\* its own and without the lock.  Entries come in the order of the shards, and
\* within a shard in Go's arbitrary map order.
EncodeValue(p, k) ==
  /\ save[p].pc = "encode" /\ k \in ToEncode(p)
  /\ \A j \in ToEncode(p) : ShardOf[k] <= ShardOf[j]
  /\ \E v \in {Deref(p, k).value} \cup
              (IF Races(p, k, "value") THEN {busy[k][2], Torn} ELSE {}) :
       save' = [save EXCEPT ![p].pc = "flag", ![p].key = k, ![p].value = v]
  /\ UNCHANGED <<stable, storeVars, environment>>

EncodeFlag(p) ==
  /\ save[p].pc = "flag"
  /\ save' = [save EXCEPT ![p].pc = "time",
                          ![p].flag = Deref(p, save[p].key).hasExpiry]
  /\ UNCHANGED <<stable, storeVars, environment>>

EncodeTime(p) ==
  LET k == save[p].key
      times == IF ~save[p].flag THEN {ZeroTime}
               ELSE {Deref(p, k).expiresAt} \cup
                    (IF Races(p, k, "time") THEN {busy[k][2], ZeroTime} ELSE {})
  IN  /\ save[p].pc = "time"
      /\ \E t \in times :
           save' = [save EXCEPT ![p] =
             [@ EXCEPT !.pc = "encode", !.key = None, !.value = None, !.flag = FALSE,
                       !.image[k] = Entry(save[p].value, save[p].flag, t)]]
      /\ UNCHANGED <<stable, storeVars, environment>>

\* The payload is complete: checksum, CreateTemp and Write.
WriteTemp(p) ==
  /\ save[p].pc = "encode" /\ ToEncode(p) = {}
  /\ save' = [save EXCEPT ![p].pc = "written"]
  /\ UNCHANGED <<stable, storeVars, environment>>

Fsync(p) ==
  /\ save[p].pc = "written"
  /\ save' = [save EXCEPT ![p].pc = "synced"]
  /\ UNCHANGED <<stable, storeVars, environment>>

\* SaveSnapshot returns; main goes on to exit whatever the result.
SaveEnds(p) ==
  /\ save' = [save EXCEPT ![p] = Idle]
  /\ stable' = [stable EXCEPT ![p] = Empty]
  /\ phase' = IF p = "main" THEN "exiting" ELSE phase

\* What power loss leaves of the temp file once it is at the snapshot path: its
\* blocks are on the disk only after the fsync.
OnDisk(p) == IF save[p].pc = "synced" THEN save[p].image ELSE Corrupt

\* Mutant of Rename: the temp file is renamed without an fsync.
RenameUnsynced(p) ==
  /\ save[p].pc \in {"written", "synced"} /\ renames < MaxRenames
  /\ file' = save[p].image
  /\ durable' = durable \cup {OnDisk(p)}
  /\ final' = IF p = "main" THEN save[p].image ELSE final
  /\ renames' = renames + 1
  /\ SaveEnds(p)
  /\ UNCHANGED <<storeVars, now, restarts>>

\* Close and Rename.  The directory is not synced, so power loss may still
\* leave what was at the path before.
Rename(p) ==
  /\ save[p].pc = "synced" /\ renames < MaxRenames
  /\ file' = save[p].image
  /\ durable' = durable \cup {OnDisk(p)}
  /\ final' = IF p = "main" THEN save[p].image ELSE final
  /\ renames' = renames + 1
  /\ SaveEnds(p)
  /\ UNCHANGED <<storeVars, now, restarts>>

\* An I/O error: the temp file is removed and the error is only logged.
SaveFails(p) ==
  /\ save[p].pc \in {"encode", "written", "synced"} /\ ToEncode(p) = {}
  /\ SaveEnds(p)
  /\ UNCHANGED <<storeVars, diskVars, final, now, restarts>>

-----------------------------------------------------------------------------
\* LoadSnapshot: a missing file leaves the store empty, so does a corrupt one
\* (main logs a warning); entries that have expired are dropped.
Load ==
  /\ phase = "loading"
  /\ mem' = IF file \in {Missing, Corrupt} THEN Empty
            ELSE [k \in Keys |-> IF file[k] = None \/ IsExpired(file[k], now)
                                   THEN None ELSE file[k]]
  /\ phase' = "serving"
  /\ UNCHANGED <<busy, saveVars, diskVars, final, now, restarts>>

\* SIGINT or SIGTERM: cancelWorkers, then srv.Shutdown.
Signal ==
  /\ phase = "serving"
  /\ phase' = "stopping"
  /\ UNCHANGED <<storeVars, saveVars, diskVars, final, now, restarts>>

\* Shutdown returns once every connection handler is done, one that runs SAVE
\* included; nothing waits for the save loop.
Drained ==
  /\ phase = "stopping" /\ busy = Empty
  /\ \A p \in Savers \cap {"client"} : save[p].pc = "idle"
  /\ phase' = "saving"
  /\ UNCHANGED <<storeVars, saveVars, diskVars, final, now, restarts>>

\* The process is gone with its memory and its unfinished saves.
Stop ==
  /\ phase' = "down"
  /\ mem' = Empty /\ busy' = Empty
  /\ save' = [p \in Savers |-> Idle]
  /\ stable' = [p \in Savers |-> Empty]
  /\ UNCHANGED <<renames, now, restarts>>

\* main returns.
Exit ==
  /\ phase = "exiting"
  /\ Stop
  /\ UNCHANGED <<file, durable, final>>

\* The process is killed: what was written reaches the disk later.
Crash ==
  /\ phase # "down"
  /\ Stop
  /\ final' = None
  /\ UNCHANGED <<file, durable>>

PowerLoss ==
  /\ phase # "down"
  /\ Stop
  /\ final' = None
  /\ \E f \in durable : file' = f /\ durable' = {f}

Restart ==
  /\ phase = "down" /\ restarts < MaxRestarts
  /\ phase' = "loading"
  /\ final' = None
  /\ restarts' = restarts + 1
  /\ UNCHANGED <<storeVars, saveVars, diskVars, now>>

Tick ==
  /\ now < MaxTime
  /\ now' = now + 1
  /\ UNCHANGED <<storeVars, saveVars, diskVars, phase, final, restarts>>

-----------------------------------------------------------------------------
Init ==
  /\ mem = Empty /\ busy = Empty
  /\ save = [p \in Savers |-> Idle]
  /\ stable = [p \in Savers |-> Empty]
  /\ file = Missing /\ durable = {Missing}
  /\ phase = "loading" /\ final = None
  /\ now = 0 /\ renames = 0 /\ restarts = 0

Command(k) ==
  \/ \E v \in Values, ttl \in TTLs : Set(k, v, ttl)
  \/ Remove(k)
  \/ \E v \in Values : IncrBegin(k, v)
  \/ IncrEnd(k)
  \/ \E ttl \in TTLs : ExpireBegin(k, ttl)
  \/ ExpireEnd(k)
  \/ Persist(k)

SaveStep(p) ==
  \/ Collect(p)
  \/ \E k \in Keys : EncodeValue(p, k)
  \/ EncodeFlag(p)
  \/ EncodeTime(p)
  \/ WriteTemp(p)
  \/ Fsync(p)
  \/ Rename(p)

Next ==
  \/ \E k \in Keys : Command(k)
  \/ \E p \in Savers : SaveBegin(p)
  \/ \E p \in Savers : SaveStep(p)
  \/ \E p \in Savers : SaveFails(p)
  \/ Load
  \/ Signal
  \/ Drained
  \/ Exit
  \/ Crash
  \/ PowerLoss
  \/ Restart
  \/ Tick

Spec == Init /\ [][Next]_vars

-----------------------------------------------------------------------------
\* Type invariant: which phase allows which goroutine to be active.
TypeOK ==
  /\ phase \in {"loading", "serving", "stopping", "saving", "exiting", "down"}
  /\ now \in 0..MaxTime /\ renames \in 0..MaxRenames /\ restarts \in 0..MaxRestarts
  /\ \A p \in Savers :
       save[p].pc \in {"idle", "collect", "encode", "flag", "time", "written", "synced"}
  /\ phase \in {"loading", "down"} => mem = Empty /\ \A p \in Savers : save[p].pc = "idle"

\* README, Persistence: "A crash mid-write can never leave a corrupted file at
\* the real path".  Neither a killed process nor power loss, at any point of
\* either of two concurrent saves, does.
SnapshotNeverCorrupt == file # Corrupt /\ Corrupt \notin durable

\* Two entries are the same to a client: ExpiresAt counts only with HasExpiry.
SameEntry(d, e) ==
  \/ d = e
  \/ /\ None \notin {d, e} /\ d.value = e.value
     /\ ~d.hasExpiry /\ ~e.hasExpiry

\* A finished image holds every key that no operation changed during the save
\* exactly as it was when the save began (unless it expired meanwhile), and no
\* key that was absent all along: unlocked reading costs only changing keys.
StableKeysSaved ==
  \A p \in Savers :
    save[p].pc \in {"written", "synced"} =>
      \A k \in Keys :
        \/ stable[p][k] = Changed
        \/ SameEntry(save[p].image[k], stable[p][k])
        \/ /\ stable[p][k] # None /\ IsExpired(stable[p][k], now)
           /\ save[p].image[k] = None

\* shard.go: "Every operation here holds shard.mu -- callers never touch
\* entries/lru directly."  So an encoded entry has no half-written value and no
\* expiry that nobody set.
EncodedAsStored ==
  \A p \in Savers, k \in Keys :
    save[p].image[k] # None =>
      /\ save[p].image[k].value # Torn
      /\ save[p].image[k].hasExpiry => save[p].image[k].expiresAt # ZeroTime

\* README, Graceful shutdown: the workers are canceled and then "5. Save a
\* final snapshot. 6. Exit."  So after such an exit the path holds that
\* snapshot.
FinalSnapshotSurvives ==
  phase = "down" /\ final # None => file = final
=============================================================================
