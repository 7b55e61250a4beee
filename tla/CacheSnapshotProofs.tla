------------------------ MODULE CacheSnapshotProofs -------------------------
(***************************************************************************)
(* Proofs about snapshots for every set of keys, shards and savers, and    *)
(* any number of crashes: the snapshot path never holds a corrupt file,    *)
(* and an image has every key that no operation changed while it was made, *)
(* although its entries are read without a lock.                           *)
(***************************************************************************)
EXTENDS CacheSnapshot, TLAPS

SavePCs == {"idle", "collect", "encode", "flag", "time", "written", "synced"}

SaverType ==
  [pc : SavePCs, next : 1..(NumShards + 1),
   refs : [Keys -> Entries \cup {None, Linked}], image : Images,
   key : Keys \cup {None}, value : Values \cup {Torn, None}, flag : BOOLEAN]

\* The types of the store, ...
StoreType ==
  /\ mem \in Images
  /\ busy \in [Keys -> {None} \cup ({"value"} \X Values) \cup ({"time"} \X Nat)]
  /\ \A k \in Keys : busy[k] # None => mem[k] # None

\* ... the saves, ...
SaveType ==
  /\ save \in [Savers -> SaverType]
  /\ stable \in [Savers -> [Keys -> Entries \cup {None, Changed}]]

\* ... the disk, on which nothing but a whole image ever gets its name, ...
DiskType ==
  /\ file \in Images \cup {Missing}
  /\ durable \subseteq Images \cup {Missing}
  /\ renames \in 0..MaxRenames

\* ... and the process, which has no memory and no save while it loads or is down.
ProcessType ==
  /\ phase \in {"loading", "serving", "stopping", "saving", "exiting", "down"}
  /\ now \in 0..MaxTime /\ restarts \in 0..MaxRestarts
  /\ phase \in {"loading", "down"} =>
       mem = Empty /\ busy = Empty /\ \A p \in Savers : save[p].pc = "idle"

\* A save's own state at each of its steps: its pointers lead to entries, and
\* it writes the file when it has read them all.
Reading(p) ==
  /\ save[p].pc = "idle" => save[p] = Idle
  /\ IF save[p].pc \in {"idle", "collect"} THEN save[p].next \in 1..NumShards
                                           ELSE save[p].next = NumShards + 1
  /\ \A k \in Keys : save[p].refs[k] = Linked => mem[k] # None
  /\ save[p].pc \in {"flag", "time"} =>
       /\ save[p].key \in Keys /\ save[p].refs[save[p].key] # None
       /\ save[p].value \in Values \cup {Torn}
  /\ save[p].pc \in {"written", "synced"} => ToEncode(p) = {}

\* What a running save has of a key that nothing has changed since it began:
\* the store still has the key as it was, no update of it is under way, the
\* pointer (if its shard has been visited and it had not expired) is live, and
\* each field read so far is the key's.
Faithful(p, k) ==
  LET e == stable[p][k] IN
  save[p].pc # "idle" /\ e # Changed =>
    /\ mem[k] = e /\ busy[k] = None
    /\ save[p].refs[k] \in {None, Linked}
    /\ ShardOf[k] < save[p].next /\ e # None /\ save[p].refs[k] = None
         => IsExpired(e, now)
    /\ save[p].image[k] # None =>
         save[p].refs[k] # None /\ SameEntry(save[p].image[k], e)
    /\ save[p].pc \in {"flag", "time"} /\ save[p].key = k => save[p].value = e.value
    /\ save[p].pc = "time" /\ save[p].key = k => save[p].flag = e.hasExpiry

\* The inductive invariant.
IInv ==
  /\ StoreType /\ SaveType /\ DiskType /\ ProcessType
  /\ \A p \in Savers : Reading(p)
  /\ \A p \in Savers, k \in Keys : Faithful(p, k)

-----------------------------------------------------------------------------
\* Entries are records of their three fields, and none is a marker.
LEMMA EntryFacts ==
  /\ \A e \in Entries : /\ e.value \in Values \cup {Torn} /\ e.hasExpiry \in BOOLEAN
                        /\ e.expiresAt \in Int
                        /\ e = Entry(e.value, e.hasExpiry, e.expiresAt)
  /\ \A v \in Values \cup {Torn}, h \in BOOLEAN, t \in Int :
       /\ Entry(v, h, t) \in Entries
       /\ Entry(v, h, t).value = v /\ Entry(v, h, t).hasExpiry = h
       /\ Entry(v, h, t).expiresAt = t
  /\ None \notin Entries /\ Changed \notin Entries /\ Linked \notin Entries
  /\ None # Changed /\ None # Linked
BY SnapshotAssumption DEF Entries, Entry

\* An empty map is an image, and a save that is not running is well typed.
LEMMA IdleType ==
  /\ Empty \in Images
  /\ Idle \in SaverType
  /\ Idle.pc = "idle" /\ Idle.next = 1 /\ Idle.refs = Empty /\ Idle.image = Empty
BY SnapshotAssumption DEF Empty, Images, Idle, SaverType, SavePCs

\* The fields of a save.
LEMMA SaverFacts ==
  ASSUME SaveType, NEW p \in Savers
  PROVE  /\ save[p] \in SaverType
         /\ save[p].pc \in SavePCs /\ save[p].next \in 1..(NumShards + 1)
         /\ save[p].refs \in [Keys -> Entries \cup {None, Linked}]
         /\ save[p].image \in Images /\ save[p].flag \in BOOLEAN
         /\ save[p].key \in Keys \cup {None} /\ save[p].value \in Values \cup {Torn, None}
BY DEF SaveType, SaverType

\* What a save's pointer leads to is an entry.
LEMMA DerefType ==
  ASSUME IInv, NEW p \in Savers, NEW k \in Keys, save[p].refs[k] # None
  PROVE  Deref(p, k) \in Entries
<1>1. save[p].refs[k] \in Entries \cup {None, Linked}
  BY SaverFacts DEF IInv
<1>2. mem[k] \in Entries \cup {None}
  BY DEF IInv, StoreType, Images
<1>3. CASE save[p].refs[k] = Linked
  BY <1>2, <1>3 DEF Deref, IInv, Reading
<1>4. CASE save[p].refs[k] # Linked
  BY <1>1, <1>4 DEF Deref
<1> QED BY <1>3, <1>4

\* A step of one save: the store, the process and the other saves stay as they
\* are, so only that save's own facts need a proof.
LEMMA OneSave ==
  ASSUME IInv, NEW p \in Savers, UNCHANGED <<storeVars, now, restarts>>,
         phase' \in {"serving", "stopping", "saving", "exiting"},
         SaveType', DiskType',
         \A q \in Savers \ {p} : save'[q] = save[q] /\ stable'[q] = stable[q],
         Reading(p)', \A k \in Keys : Faithful(p, k)'
  PROVE  IInv'
<1> USE DEF storeVars
<1>1. StoreType' /\ ProcessType'
  BY DEF IInv, StoreType, ProcessType
<1>2. ASSUME NEW q \in Savers \ {p}
      PROVE  Reading(q)' /\ \A k \in Keys : Faithful(q, k)'
  <2>1. save'[q] = save[q] /\ stable'[q] = stable[q]
    OBVIOUS
  <2>2. Reading(q) /\ \A k \in Keys : Faithful(q, k)
    BY DEF IInv
  <2>3. Reading(q)'
    BY <2>1, <2>2 DEF Reading, ToEncode
  <2>4. \A k \in Keys : Faithful(q, k)'
    BY <2>1, <2>2 DEF Faithful
  <2> QED BY <2>3, <2>4
<1>3. \A q \in Savers : Reading(q)' /\ \A k \in Keys : Faithful(q, k)'
  BY <1>2
<1> QED BY <1>1, <1>3 DEF IInv

\* A step of one key under its shard's lock: the saves keep what they know of
\* the other keys, and none counts on this one any more.
LEMMA OneKey ==
  ASSUME IInv, NEW k \in Keys, UNCHANGED environment,
         phase \notin {"loading", "down"},
         StoreType', SaveType',
         \A j \in Keys \ {k} : mem'[j] = mem[j] /\ busy'[j] = busy[j],
         \A p \in Savers :
           /\ save'[p] = save[p] \/ (save[p].refs[k] = Linked /\ mem[k] # None
                                       /\ save'[p] = [save[p] EXCEPT !.refs[k] = mem[k]])
           /\ save'[p].refs[k] = Linked => mem'[k] # None
           /\ save[p].pc # "idle" => stable'[p][k] = Changed
           /\ \A j \in Keys \ {k} : stable'[p][j] = stable[p][j]
  PROVE  IInv'
<1>1. DiskType' /\ ProcessType'
  BY DEF IInv, DiskType, ProcessType, environment, diskVars
<1>2. ASSUME NEW p \in Savers
      PROVE  Reading(p)' /\ \A j \in Keys : Faithful(p, j)'
  <2>1. /\ save'[p].pc = save[p].pc /\ save'[p].next = save[p].next
        /\ save'[p].image = save[p].image /\ save'[p].key = save[p].key
        /\ save'[p].value = save[p].value /\ save'[p].flag = save[p].flag
        /\ \A j \in Keys \ {k} : save'[p].refs[j] = save[p].refs[j]
        /\ save'[p].refs[k] = None <=> save[p].refs[k] = None
    <3>1. save[p] \in SaverType /\ save[p].refs \in [Keys -> Entries \cup {None, Linked}]
      BY SaverFacts DEF IInv
    <3>2. CASE save'[p] = save[p]
      BY <3>2
    <3>3. CASE save[p].refs[k] = Linked /\ mem[k] # None
                 /\ save'[p] = [save[p] EXCEPT !.refs[k] = mem[k]]
      <4>1. save'[p].refs = [save[p].refs EXCEPT ![k] = mem[k]]
        BY <3>1, <3>3 DEF SaverType
      <4>2. /\ save'[p].pc = save[p].pc /\ save'[p].next = save[p].next
            /\ save'[p].image = save[p].image /\ save'[p].key = save[p].key
            /\ save'[p].value = save[p].value /\ save'[p].flag = save[p].flag
        BY <3>1, <3>3 DEF SaverType
      <4> QED BY <3>1, <3>3, <4>1, <4>2, EntryFacts
    <3> QED BY <3>2, <3>3
  <2>2. save[p].pc = "idle" => save'[p] = save[p]
    <3>1. Reading(p)
      BY DEF IInv
    <3>2. save[p].pc = "idle" => save[p].refs = Empty
      BY <3>1, IdleType DEF Reading
    <3>3. Empty[k] # Linked
      BY EntryFacts DEF Empty
    <3> QED BY <3>2, <3>3
  <2>3. Reading(p)'
    <3>2. Reading(p)
      BY DEF IInv
    <3>1. ASSUME NEW j \in Keys, save'[p].refs[j] = Linked
          PROVE  mem'[j] # None
      <4>1. CASE j = k
        BY <3>1, <4>1
      <4>2. CASE j # k
        <5>1. save[p].refs[j] = Linked /\ mem'[j] = mem[j]
          BY <2>1, <3>1, <4>2
        <5> QED BY <3>2, <5>1 DEF Reading
      <4> QED BY <4>1, <4>2
    <3>3. save[p].pc \in {"written", "synced"} => ToEncode(p)' = {}
      BY <2>1, <3>2 DEF Reading, ToEncode
    <3>4. save[p].pc \in {"flag", "time"} =>
            save[p].key \in Keys /\ save'[p].refs[save[p].key] # None
      BY <2>1, <3>2 DEF Reading
    <3> QED BY <2>1, <2>2, <3>1, <3>2, <3>3, <3>4 DEF Reading
  <2>4. ASSUME NEW j \in Keys
        PROVE  Faithful(p, j)'
    <3>1. CASE j = k
      BY <2>1, <3>1 DEF Faithful
    <3>2. CASE j # k
      <4>1. /\ stable'[p][j] = stable[p][j] /\ mem'[j] = mem[j] /\ busy'[j] = busy[j]
            /\ now' = now
        BY <3>2 DEF environment
      <4>2. Faithful(p, j)
        BY DEF IInv
      <4> QED BY <2>1, <3>2, <4>1, <4>2 DEF Faithful
    <3> QED BY <3>1, <3>2
  <2> QED BY <2>3, <2>4
<1> QED BY <1>1, <1>2 DEF IInv

-----------------------------------------------------------------------------
\* What a command that changes k tells the running saves.
LEMMA TouchesFacts ==
  ASSUME SaveType, NEW k \in Keys, Touches(k)
  PROVE  /\ stable' \in [Savers -> [Keys -> Entries \cup {None, Changed}]]
         /\ \A p \in Savers :
              /\ save[p].pc # "idle" => stable'[p][k] = Changed
              /\ \A j \in Keys \ {k} : stable'[p][j] = stable[p][j]
BY DEF SaveType, Touches

\* A command that replaces or removes k's object: pointers to the old one keep
\* its last contents.
LEMMA UnlinkStep ==
  ASSUME IInv, NEW k \in Keys, phase \notin {"loading", "down"}, Unlocked(ShardOf[k]),
         NEW e \in Entries \cup {None}, mem' = [mem EXCEPT ![k] = e],
         Unlink(k), UNCHANGED <<busy, environment>>
  PROVE  IInv'
<1>1. busy[k] = None
  BY DEF Unlocked
<1>2. /\ mem' \in Images /\ mem'[k] = e
      /\ \A j \in Keys \ {k} : mem'[j] = mem[j] /\ busy'[j] = busy[j]
  BY DEF IInv, StoreType, Images
<1>3. StoreType'
  BY <1>1, <1>2 DEF IInv, StoreType
<1>4. /\ stable' \in [Savers -> [Keys -> Entries \cup {None, Changed}]]
      /\ \A p \in Savers :
           /\ save[p].pc # "idle" => stable'[p][k] = Changed
           /\ \A j \in Keys \ {k} : stable'[p][j] = stable[p][j]
  BY TouchesFacts DEF Unlink, IInv
<1>5. ASSUME NEW p \in Savers
      PROVE  /\ save'[p] \in SaverType
             /\ save'[p] = save[p] \/ (save[p].refs[k] = Linked /\ mem[k] # None
                                         /\ save'[p] = [save[p] EXCEPT !.refs[k] = mem[k]])
             /\ save'[p].refs[k] # Linked
  <2>1. /\ save[p] \in SaverType
        /\ save[p].refs \in [Keys -> Entries \cup {None, Linked}]
    BY SaverFacts DEF IInv
  <2>2. CASE save[p].refs[k] # Linked
    BY <2>1, <2>2 DEF Unlink
  <2>3. CASE save[p].refs[k] = Linked
    <3>1. save'[p] = [save[p] EXCEPT !.refs[k] = mem[k]]
      BY <2>3 DEF Unlink
    <3>2. mem[k] # None
      BY <2>3 DEF IInv, Reading
    <3>3. mem[k] \in Entries
      BY <3>2 DEF IInv, StoreType, Images
    <3>4. [save[p].refs EXCEPT ![k] = mem[k]] \in [Keys -> Entries \cup {None, Linked}]
      BY <2>1, <3>3
    <3>5. save'[p] \in SaverType /\ save'[p].refs = [save[p].refs EXCEPT ![k] = mem[k]]
      BY <2>1, <3>1, <3>4 DEF SaverType
    <3>6. save'[p].refs[k] = mem[k]
      BY <2>1, <3>5
    <3> QED BY <2>3, <3>1, <3>2, <3>3, <3>5, <3>6, EntryFacts
  <2> QED BY <2>2, <2>3
<1>6. SaveType'
  <2>1. save' = [p \in Savers |-> save'[p]]
    BY DEF Unlink
  <2>2. save' \in [Savers -> SaverType]
    BY <1>5, <2>1
  <2> QED BY <1>4, <2>2 DEF SaveType
<1>7. UNCHANGED environment
  OBVIOUS
<1> QED BY <1>2, <1>3, <1>4, <1>5, <1>6, <1>7, OneKey

\* An in-place update of k's object.
LEMMA UpdateStep ==
  ASSUME IInv, NEW k \in Keys, phase \notin {"loading", "down"}, mem[k] # None,
         NEW e \in Entries, mem' = [mem EXCEPT ![k] = e],
         NEW b \in {None} \cup ({"value"} \X Values) \cup ({"time"} \X Nat),
         busy' = [busy EXCEPT ![k] = b],
         Touches(k) \/ (busy[k] # None /\ UNCHANGED stable),
         UNCHANGED <<save, environment>>
  PROVE  IInv'
<1>1. /\ mem' \in Images /\ mem'[k] = e
      /\ busy' \in [Keys -> {None} \cup ({"value"} \X Values) \cup ({"time"} \X Nat)]
      /\ \A j \in Keys \ {k} : mem'[j] = mem[j] /\ busy'[j] = busy[j]
  <2> DEFINE B == {None} \cup ({"value"} \X Values) \cup ({"time"} \X Nat)
  <2>1. busy \in [Keys -> B] /\ b \in B
    BY DEF IInv, StoreType
  <2> HIDE DEF B
  <2>2. busy' \in [Keys -> B] /\ \A j \in Keys \ {k} : busy'[j] = busy[j]
    BY <2>1
  <2>3. mem' \in Images /\ mem'[k] = e /\ \A j \in Keys \ {k} : mem'[j] = mem[j]
    BY DEF IInv, StoreType, Images
  <2> QED BY <2>2, <2>3 DEF B
<1>2. mem'[k] # None
  BY <1>1, EntryFacts
<1>3. StoreType'
  BY <1>1, <1>2 DEF IInv, StoreType
<1>4. /\ stable' \in [Savers -> [Keys -> Entries \cup {None, Changed}]]
      /\ \A p \in Savers :
           /\ save[p].pc # "idle" => stable'[p][k] = Changed
           /\ \A j \in Keys \ {k} : stable'[p][j] = stable[p][j]
  <2>1. CASE Touches(k)
    BY <2>1, TouchesFacts DEF IInv
  <2>2. CASE busy[k] # None /\ UNCHANGED stable
    BY <2>2 DEF IInv, Faithful, SaveType
  <2> QED BY <2>1, <2>2
<1>5. SaveType' /\ UNCHANGED environment
  BY <1>4 DEF IInv, SaveType
<1>6. \A p \in Savers : save'[p] = save[p]
  OBVIOUS
<1> QED BY <1>1, <1>2, <1>3, <1>4, <1>5, <1>6, OneKey

\* The commands of clients and the expiration worker.
LEMMA CommandStep ==
  ASSUME IInv, NEW k \in Keys, Command(k)
  PROVE  IInv'
<1>1. now \in Nat /\ ZeroTime \in Int /\ mem[k] \in Entries \cup {None}
  BY SnapshotAssumption DEF IInv, ProcessType, ZeroTime, StoreType, Images
<1>2. ASSUME NEW v \in Values, NEW ttl \in TTLs, Set(k, v, ttl)
      PROVE  IInv'
  <2> DEFINE e == IF ttl > 0 THEN Entry(v, TRUE, now + ttl) ELSE Entry(v, FALSE, ZeroTime)
  <2>1. now + ttl \in Int
    BY <1>1, SnapshotAssumption
  <2>2. e \in Entries
    BY <1>1, <2>1, EntryFacts
  <2>3. /\ mem' = [mem EXCEPT ![k] = e] /\ Unlink(k) /\ UNCHANGED <<busy, environment>>
        /\ phase \notin {"loading", "down"} /\ Unlocked(ShardOf[k])
    BY <1>2 DEF Set, Locks
  <2> HIDE DEF e
  <2> QED BY <2>2, <2>3, UnlinkStep
<1>3. CASE Remove(k)
  <2>1. /\ mem' = [mem EXCEPT ![k] = None] /\ Unlink(k) /\ UNCHANGED <<busy, environment>>
        /\ phase \notin {"loading", "down"} /\ Unlocked(ShardOf[k])
    BY <1>3 DEF Remove
  <2> QED BY <2>1, UnlinkStep
<1>4. ASSUME NEW v \in Values, IncrBegin(k, v)
      PROVE  IInv'
  <2>1. /\ mem[k] # None /\ phase \notin {"loading", "down"}
        /\ busy' = [busy EXCEPT ![k] = <<"value", v>>]
        /\ Touches(k) /\ UNCHANGED <<save, environment>>
    BY <1>4 DEF IncrBegin, Locks
  <2>2. mem' = [mem EXCEPT ![k] = mem[k]]
    BY <1>4 DEF IncrBegin, IInv, StoreType, Images
  <2>3. mem[k] \in Entries /\ <<"value", v>> \in {"value"} \X Values
    BY <1>1, <2>1
  <2> QED BY <2>1, <2>2, <2>3, UpdateStep
<1>5. CASE IncrEnd(k) \/ ExpireEnd(k)
  <2>1. /\ busy[k] # None /\ busy' = [busy EXCEPT ![k] = None]
        /\ UNCHANGED <<stable, save, environment>>
    BY <1>5 DEF IncrEnd, ExpireEnd, saveVars
  <2>2. busy # Empty
    BY <2>1 DEF Empty
  <2>3. phase \notin {"loading", "down"}
    BY <2>2 DEF IInv, ProcessType
  <2>4. mem[k] # None /\ mem[k] \in Entries
    BY <1>1, <2>1 DEF IInv, StoreType
  <2>5. PICK e \in Entries : mem' = [mem EXCEPT ![k] = e]
    <3>1. CASE IncrEnd(k)
      <4>1. busy[k][2] \in Values
        BY <2>1, <3>1 DEF IncrEnd, IInv, StoreType
      <4>2. [mem[k] EXCEPT !.value = busy[k][2]] \in Entries
        BY <2>4, <4>1 DEF Entries
      <4>3. mem' = [mem EXCEPT ![k] = [mem[k] EXCEPT !.value = busy[k][2]]]
        BY <3>1 DEF IncrEnd, IInv, StoreType, Images
      <4> QED BY <4>2, <4>3
    <3>2. CASE ExpireEnd(k)
      <4>1. busy[k][2] \in Int
        BY <2>1, <3>2 DEF ExpireEnd, IInv, StoreType
      <4>2. [mem[k] EXCEPT !.expiresAt = busy[k][2]] \in Entries
        BY <2>4, <4>1 DEF Entries
      <4>3. mem' = [mem EXCEPT ![k] = [mem[k] EXCEPT !.expiresAt = busy[k][2]]]
        BY <3>2 DEF ExpireEnd, IInv, StoreType, Images
      <4> QED BY <4>2, <4>3
    <3> QED BY <1>5, <3>1, <3>2
  <2>6. None \in {None} \cup ({"value"} \X Values) \cup ({"time"} \X Nat)
    OBVIOUS
  <2> QED BY <2>1, <2>3, <2>4, <2>5, <2>6, UpdateStep
<1>6. ASSUME NEW ttl \in TTLs, ExpireBegin(k, ttl)
      PROVE  IInv'
  <2>1. /\ mem[k] # None /\ phase \notin {"loading", "down"}
        /\ busy' = [busy EXCEPT ![k] = <<"time", now + ttl>>]
        /\ Touches(k) /\ UNCHANGED <<save, environment>>
    BY <1>6 DEF ExpireBegin, Locks
  <2>2. [mem[k] EXCEPT !.hasExpiry = TRUE] \in Entries
    BY <1>1, <2>1 DEF Entries
  <2>3. mem' = [mem EXCEPT ![k] = [mem[k] EXCEPT !.hasExpiry = TRUE]]
    BY <1>6 DEF ExpireBegin, IInv, StoreType, Images
  <2>4. now + ttl \in Nat
    BY <1>1, SnapshotAssumption
  <2>5. <<"time", now + ttl>> \in {"time"} \X Nat
    BY <2>4
  <2> QED BY <2>1, <2>2, <2>3, <2>5, UpdateStep
<1>7. CASE Persist(k)
  <2>1. /\ mem[k] # None /\ phase \notin {"loading", "down"}
        /\ Touches(k) /\ UNCHANGED <<save, environment>>
    BY <1>7 DEF Persist, Locks
  <2>2. [mem[k] EXCEPT !.hasExpiry = FALSE] \in Entries
    BY <1>1, <2>1 DEF Entries
  <2>3. mem' = [mem EXCEPT ![k] = [mem[k] EXCEPT !.hasExpiry = FALSE]]
    BY <1>7 DEF Persist, IInv, StoreType, Images
  <2>4. /\ busy' = [busy EXCEPT ![k] = busy[k]]
        /\ busy[k] \in {None} \cup ({"value"} \X Values) \cup ({"time"} \X Nat)
    BY <1>7 DEF Persist, IInv, StoreType
  <2> QED BY <2>1, <2>2, <2>3, <2>4, UpdateStep
<1> QED BY <1>2, <1>3, <1>4, <1>5, <1>6, <1>7 DEF Command

-----------------------------------------------------------------------------
\* Saves run only while the process is up.
LEMMA Running ==
  ASSUME IInv, NEW p \in Savers, save[p].pc # "idle"
  PROVE  phase \in {"serving", "stopping", "saving", "exiting"}
BY DEF IInv, ProcessType

\* A step in the middle of a save, which changes nothing but its own record.
LEMMA MiddleStep ==
  ASSUME IInv, NEW p \in Savers, save[p].pc # "idle",
         NEW r \in SaverType, save' = [save EXCEPT ![p] = r],
         UNCHANGED <<stable, storeVars, environment>>,
         Reading(p)', \A k \in Keys : Faithful(p, k)'
  PROVE  IInv'
<1>1. SaveType' /\ \A q \in Savers \ {p} : save'[q] = save[q] /\ stable'[q] = stable[q]
  BY DEF IInv, SaveType
<1>2. /\ phase' \in {"serving", "stopping", "saving", "exiting"}
      /\ UNCHANGED <<storeVars, now, restarts>>
  BY Running DEF environment
<1>3. DiskType'
  BY DEF IInv, DiskType, environment, diskVars
<1> QED BY <1>1, <1>2, <1>3, OneSave

\* A save begins.
LEMMA SaveBeginStep ==
  ASSUME IInv, NEW p \in Savers, SaveBegin(p)
  PROVE  IInv'
<1> DEFINE r == [Idle EXCEPT !.pc = "collect"]
<1>1. /\ r \in SaverType /\ r.pc = "collect" /\ r.next = 1
      /\ r.refs = Empty /\ r.image = Empty
  BY IdleType DEF SaverType, SavePCs
<1>2. /\ save' = [save EXCEPT ![p] = r]
      /\ stable' = [stable EXCEPT ![p] =
                      [k \in Keys |-> IF busy[k] = None THEN mem[k] ELSE Changed]]
      /\ UNCHANGED <<storeVars, environment>>
  BY DEF SaveBegin
<1> HIDE DEF r
<1>3. /\ save' \in [Savers -> SaverType] /\ save'[p] = r
      /\ \A q \in Savers \ {p} : save'[q] = save[q] /\ stable'[q] = stable[q]
  BY <1>1, <1>2 DEF IInv, SaveType
<1>4. SaveType' /\ \A k \in Keys : stable'[p][k] = IF busy[k] = None THEN mem[k] ELSE Changed
  <2>1. [k \in Keys |-> IF busy[k] = None THEN mem[k] ELSE Changed]
          \in [Keys -> Entries \cup {None, Changed}]
    BY DEF IInv, StoreType, Images
  <2> QED BY <1>2, <1>3, <2>1 DEF IInv, SaveType
<1>5. phase \in {"serving", "stopping", "saving", "exiting"}
  <2>1. p \in {"loop", "main", "client"} /\ MayStart(p)
    BY SnapshotAssumption DEF SaveBegin
  <2> QED BY <2>1 DEF MayStart
<1>6. \A k \in Keys : Empty[k] = None
  BY DEF Empty
<1>7. Reading(p)'
  BY <1>1, <1>3, <1>6, EntryFacts, SnapshotAssumption DEF Reading
<1>8. ASSUME NEW k \in Keys PROVE Faithful(p, k)'
  <2>1. mem'[k] = mem[k] /\ busy'[k] = busy[k]
    BY <1>2 DEF storeVars
  <2>2. save'[p].refs[k] = None /\ save'[p].image[k] = None /\ save'[p].next = 1
        /\ save'[p].pc = "collect"
    BY <1>1, <1>3, <1>6
  <2>3. ~(ShardOf[k] < 1)
    BY SnapshotAssumption
  <2> QED BY <1>4, <2>1, <2>2, <2>3 DEF Faithful
<1>9. DiskType'
  BY <1>2 DEF IInv, DiskType, environment, diskVars
<1>10. UNCHANGED <<storeVars, phase, now, restarts>>
  BY <1>2 DEF environment
<1> QED BY <1>3, <1>4, <1>5, <1>7, <1>8, <1>9, <1>10, OneSave

\* One shard is collected: it gets a live pointer to each key that is there and
\* has not expired.
LEMMA CollectStep ==
  ASSUME IInv, NEW p \in Savers, Collect(p)
  PROVE  IInv'
<1> DEFINE s == save[p].next
           found == {k \in Keys : /\ ShardOf[k] = s /\ mem[k] # None
                                  /\ ~IsExpired(mem[k], now)}
           refs == [k \in Keys |-> IF k \in found THEN Linked ELSE save[p].refs[k]]
           pc == IF s = NumShards THEN "encode" ELSE "collect"
           r == [save[p] EXCEPT !.refs = refs, !.next = s + 1, !.pc = pc]
<1>1. save[p] \in SaverType /\ save[p].pc = "collect" /\ Unlocked(s)
  BY SaverFacts DEF IInv, Collect
<1>2. s \in 1..NumShards /\ NumShards \in Nat
  BY <1>1, SnapshotAssumption DEF IInv, Reading
<1>3. save' = [save EXCEPT ![p] = r] /\ UNCHANGED <<stable, storeVars, environment>>
  BY <1>1 DEF Collect, IInv, SaveType, SaverType
<1>4. refs \in [Keys -> Entries \cup {None, Linked}]
  BY <1>1 DEF SaverType
<1>5. pc \in {"collect", "encode"} /\ (pc = "encode" <=> s = NumShards)
  OBVIOUS
<1>6. \A k \in Keys : refs[k] = IF k \in found THEN Linked ELSE save[p].refs[k]
  OBVIOUS
<1> HIDE DEF refs, pc
<1>7. /\ r \in SaverType
      /\ r.pc = pc /\ r.next = s + 1 /\ r.refs = refs /\ r.image = save[p].image
  <2>1. s + 1 \in 1..(NumShards + 1)
    BY <1>2
  <2>2. pc \in SavePCs
    BY <1>5 DEF SavePCs
  <2> DEFINE n == s + 1
  <2> HIDE DEF n
  <2>3. [save[p] EXCEPT !.refs = refs, !.next = n, !.pc = pc] \in SaverType
    BY <1>1, <1>4, <2>1, <2>2 DEF SaverType, n
  <2>4. r = [save[p] EXCEPT !.refs = refs, !.next = n, !.pc = pc]
    BY DEF n
  <2>5. r.pc = pc /\ r.next = n /\ r.refs = refs /\ r.image = save[p].image
    BY <1>1, <2>4 DEF SaverType
  <2> QED BY <2>3, <2>4, <2>5 DEF n
<1>8. save'[p] = r
  BY <1>3 DEF IInv, SaveType
<1> HIDE DEF r
<1>9. mem' = mem /\ busy' = busy /\ stable' = stable /\ now' = now
  BY <1>3 DEF storeVars, environment
<1>10. Reading(p)'
  <2>1. \A k \in Keys : save'[p].refs[k] = Linked => mem'[k] # None
    BY <1>6, <1>7, <1>8, <1>9 DEF IInv, Reading
  <2> QED BY <1>2, <1>5, <1>7, <1>8, <2>1 DEF Reading
<1>11. ASSUME NEW k \in Keys PROVE Faithful(p, k)'
  <2> SUFFICES ASSUME stable[p][k] # Changed PROVE Faithful(p, k)'
    BY <1>9 DEF Faithful
  <2> DEFINE e == stable[p][k]
  <2>1. /\ mem[k] = e /\ busy[k] = None
        /\ save[p].refs[k] \in {None, Linked}
        /\ ShardOf[k] < s /\ e # None /\ save[p].refs[k] = None => IsExpired(e, now)
        /\ save[p].image[k] # None => save[p].refs[k] # None /\ SameEntry(save[p].image[k], e)
    BY <1>1 DEF IInv, Faithful
  <2>2. ShardOf[k] < s + 1 => ShardOf[k] < s \/ ShardOf[k] = s
    BY <1>2, SnapshotAssumption
  <2>3. refs[k] \in {None, Linked} /\ (save[p].refs[k] # None => refs[k] # None)
    BY <1>6, <2>1, EntryFacts
  <2>4. ShardOf[k] < s + 1 /\ e # None /\ refs[k] = None => IsExpired(e, now)
    <3>1. CASE k \in found
      BY <1>6, <3>1, EntryFacts
    <3>2. CASE k \notin found
      BY <1>6, <2>1, <2>2, <3>2
    <3> QED BY <3>1, <3>2
  <2> HIDE DEF e, s
  <2>5. /\ save'[p].refs[k] = refs[k] /\ save'[p].next = s + 1
        /\ save'[p].image[k] = save[p].image[k] /\ save'[p].pc \notin {"flag", "time"}
    BY <1>5, <1>7, <1>8
  <2>6. stable'[p][k] = e
    BY <1>9 DEF e
  <2> QED BY <1>9, <2>1, <2>3, <2>4, <2>5, <2>6 DEF Faithful
<1> QED BY <1>1, <1>3, <1>7, <1>10, <1>11, MiddleStep

\* A step after the collection: the pointers are what they were, and each field
\* that it reads of an unchanged key is the key's.
LEMMA EncodeStep ==
  ASSUME IInv, NEW p \in Savers, save[p].pc \notin {"idle", "collect"},
         NEW r \in SaverType, save' = [save EXCEPT ![p] = r],
         UNCHANGED <<stable, storeVars, environment>>,
         r.refs = save[p].refs, r.next = save[p].next,
         r.pc \in {"encode", "flag", "time", "written", "synced"},
         r.pc \in {"flag", "time"} =>
           r.key \in Keys /\ save[p].refs[r.key] # None /\ r.value \in Values \cup {Torn},
         r.pc \in {"written", "synced"} => ToEncode(p) = {} /\ r.image = save[p].image,
         \A k \in Keys :
           stable[p][k] # Changed =>
             /\ r.image[k] # None =>
                  save[p].refs[k] # None /\ SameEntry(r.image[k], stable[p][k])
             /\ r.pc \in {"flag", "time"} /\ r.key = k => r.value = stable[p][k].value
             /\ r.pc = "time" /\ r.key = k => r.flag = stable[p][k].hasExpiry
  PROVE  IInv'
<1>1. save'[p] = r
  BY DEF IInv, SaveType
<1>2. mem' = mem /\ busy' = busy /\ stable' = stable /\ now' = now
  BY DEF storeVars, environment
<1>3. Reading(p)'
  <2>1. Reading(p)
    BY DEF IInv
  <2>2. r.pc \in {"written", "synced"} => ToEncode(p)' = {}
    BY <1>1 DEF ToEncode
  <2>3. r.next = NumShards + 1
    BY <2>1 DEF Reading
  <2>4. \A k \in Keys : r.refs[k] = Linked => mem[k] # None
    BY <2>1 DEF Reading
  <2> QED BY <1>1, <1>2, <2>2, <2>3, <2>4 DEF Reading
<1>4. ASSUME NEW k \in Keys PROVE Faithful(p, k)'
  <2> SUFFICES ASSUME stable[p][k] # Changed PROVE Faithful(p, k)'
    BY <1>2 DEF Faithful
  <2>1. Faithful(p, k)
    BY DEF IInv
  <2> QED BY <1>1, <1>2, <2>1 DEF Faithful
<1> QED BY <1>3, <1>4, MiddleStep

\* An unchanged key's pointer, once there, leads to the entry the store has had
\* since the save began.
LEMMA DerefStable ==
  ASSUME IInv, NEW p \in Savers, NEW k \in Keys, save[p].pc # "idle",
         save[p].refs[k] # None, stable[p][k] # Changed
  PROVE  Deref(p, k) = stable[p][k] /\ stable[p][k] \in Entries /\ busy[k] = None
<1>1. mem[k] = stable[p][k] /\ busy[k] = None /\ save[p].refs[k] = Linked
  BY DEF IInv, Faithful
<1>2. Deref(p, k) = mem[k]
  BY <1>1 DEF Deref
<1> QED BY <1>1, <1>2, DerefType

\* Value is read, ...
LEMMA EncodeValueStep ==
  ASSUME IInv, NEW p \in Savers, NEW k \in Keys, EncodeValue(p, k)
  PROVE  IInv'
<1>1. /\ save[p].pc = "encode" /\ save[p] \in SaverType
      /\ save[p].refs[k] # None
  BY SaverFacts DEF EncodeValue, ToEncode, IInv
<1>2. PICK v \in {Deref(p, k).value} \cup
                 (IF Races(p, k, "value") THEN {busy[k][2], Torn} ELSE {}) :
        save' = [save EXCEPT ![p].pc = "flag", ![p].key = k, ![p].value = v]
  BY DEF EncodeValue
<1>3. UNCHANGED <<stable, storeVars, environment>>
  BY DEF EncodeValue
<1>4. v \in Values \cup {Torn}
  <2>1. Deref(p, k).value \in Values \cup {Torn}
    BY <1>1, DerefType, EntryFacts
  <2>2. Races(p, k, "value") => busy[k][2] \in Values
    BY DEF Races, IInv, StoreType
  <2> QED BY <1>2, <2>1, <2>2
<1> DEFINE r == [save[p] EXCEPT !.pc = "flag", !.key = k, !.value = v]
<1>5. save' = [save EXCEPT ![p] = r]
  BY <1>2 DEF IInv, SaveType
<1>6. /\ r \in SaverType
      /\ r.pc = "flag" /\ r.key = k /\ r.value = v
      /\ r.refs = save[p].refs /\ r.next = save[p].next /\ r.image = save[p].image
  BY <1>1, <1>4 DEF SaverType, SavePCs
<1> HIDE DEF r
<1>7. ASSUME NEW j \in Keys, stable[p][j] # Changed
      PROVE  /\ r.image[j] # None =>
                  save[p].refs[j] # None /\ SameEntry(r.image[j], stable[p][j])
             /\ r.key = j => r.value = stable[p][j].value
  <2>1. r.image[j] # None =>
          save[p].refs[j] # None /\ SameEntry(r.image[j], stable[p][j])
    BY <1>1, <1>6, <1>7 DEF IInv, Faithful
  <2>2. CASE j = k
    <3>1. Deref(p, k) = stable[p][k] /\ busy[k] = None
      BY <1>1, <1>7, <2>2, DerefStable
    <3>2. ~Races(p, k, "value")
      BY <3>1 DEF Races
    <3>3. v = stable[p][k].value
      BY <1>2, <3>1, <3>2
    <3> QED BY <1>6, <2>1, <2>2, <3>3
  <2>3. CASE j # k
    BY <1>6, <2>1, <2>3
  <2> QED BY <2>2, <2>3
<1> QED BY <1>1, <1>3, <1>4, <1>5, <1>6, <1>7, EncodeStep

\* ... then HasExpiry ...
LEMMA EncodeFlagStep ==
  ASSUME IInv, NEW p \in Savers, EncodeFlag(p)
  PROVE  IInv'
<1> DEFINE k == save[p].key
           r == [save[p] EXCEPT !.pc = "time", !.flag = Deref(p, k).hasExpiry]
<1>1. /\ save[p].pc = "flag" /\ save[p] \in SaverType
      /\ k \in Keys /\ save[p].refs[k] # None /\ save[p].value \in Values \cup {Torn}
  BY SaverFacts DEF EncodeFlag, IInv, Reading
<1>2. Deref(p, k).hasExpiry \in BOOLEAN
  <2>1. Deref(p, k) \in Entries
    BY <1>1, DerefType
  <2> QED BY <2>1, EntryFacts
<1>3. save' = [save EXCEPT ![p] = r] /\ UNCHANGED <<stable, storeVars, environment>>
  BY DEF EncodeFlag, IInv, SaveType
<1>4. /\ r \in SaverType
      /\ r.pc = "time" /\ r.key = k /\ r.value = save[p].value /\ r.flag = Deref(p, k).hasExpiry
      /\ r.refs = save[p].refs /\ r.next = save[p].next /\ r.image = save[p].image
  BY <1>1, <1>2 DEF SaverType, SavePCs
<1> HIDE DEF r
<1>5. ASSUME NEW j \in Keys, stable[p][j] # Changed
      PROVE  /\ r.image[j] # None =>
                  save[p].refs[j] # None /\ SameEntry(r.image[j], stable[p][j])
             /\ r.key = j => r.value = stable[p][j].value
             /\ r.key = j => r.flag = stable[p][j].hasExpiry
  <2>1. /\ r.image[j] # None =>
             save[p].refs[j] # None /\ SameEntry(r.image[j], stable[p][j])
        /\ r.key = j => r.value = stable[p][j].value
    BY <1>1, <1>4, <1>5 DEF IInv, Faithful
  <2>2. r.key = j => Deref(p, k) = stable[p][j]
    BY <1>1, <1>4, <1>5, DerefStable
  <2>3. r.key = j => r.flag = stable[p][j].hasExpiry
    <3> HAVE r.key = j
    <3>1. r.flag = Deref(p, k).hasExpiry
      BY <1>4
    <3>2. Deref(p, k) = stable[p][j]
      BY <2>2
    <3> QED BY <3>1, <3>2, Zenon
  <2> QED BY <2>1, <2>3
<1> HIDE DEF k
<1>6. /\ save[p].pc \notin {"idle", "collect"}
      /\ r.pc \in {"encode", "flag", "time", "written", "synced"}
      /\ r.pc \notin {"written", "synced"}
      /\ r.key \in Keys /\ save[p].refs[r.key] # None /\ r.value \in Values \cup {Torn}
  BY <1>1, <1>4
<1> QED BY <1>3, <1>4, <1>5, <1>6, EncodeStep

\* ... and then ExpiresAt, which completes the entry.
LEMMA EncodeTimeStep ==
  ASSUME IInv, NEW p \in Savers, EncodeTime(p)
  PROVE  IInv'
<1> DEFINE k == save[p].key
<1>1. /\ save[p].pc = "time" /\ save[p] \in SaverType
      /\ k \in Keys /\ save[p].refs[k] # None /\ save[p].value \in Values \cup {Torn}
      /\ save[p].flag \in BOOLEAN
  BY SaverFacts DEF EncodeTime, IInv, Reading
<1>2. PICK t \in IF ~save[p].flag THEN {ZeroTime}
                 ELSE {Deref(p, k).expiresAt} \cup
                      (IF Races(p, k, "time") THEN {busy[k][2], ZeroTime} ELSE {}) :
        save' = [save EXCEPT ![p] =
             [save[p] EXCEPT !.pc = "encode", !.key = None, !.value = None, !.flag = FALSE,
                             !.image[k] = Entry(save[p].value, save[p].flag, t)]]
  BY DEF EncodeTime, IInv, SaveType
<1>3. UNCHANGED <<stable, storeVars, environment>>
  BY DEF EncodeTime
<1>4. t \in Int
  <2>1. Deref(p, k).expiresAt \in Int
    BY <1>1, DerefType, EntryFacts
  <2>2. Races(p, k, "time") => busy[k][2] \in Nat
    BY <1>1 DEF Races, IInv, StoreType
  <2> QED BY <1>2, <2>1, <2>2 DEF ZeroTime
<1> DEFINE e == Entry(save[p].value, save[p].flag, t)
           image == [save[p].image EXCEPT ![k] = e]
           r == [save[p] EXCEPT !.pc = "encode", !.key = None, !.value = None, !.flag = FALSE,
                                !.image = image]
<1>5. /\ e \in Entries /\ e.value = save[p].value /\ e.hasExpiry = save[p].flag
      /\ e.expiresAt = t
  BY <1>1, <1>4, EntryFacts
<1>6. save' = [save EXCEPT ![p] = r]
  <2> HIDE DEF e
  <2>2. save' = [save EXCEPT ![p] =
                   [save[p] EXCEPT !.pc = "encode", !.key = None, !.value = None,
                                   !.flag = FALSE, !.image[k] = e]]
    BY <1>2 DEF e
  <2>3. [save[p] EXCEPT !.pc = "encode", !.key = None, !.value = None,
                        !.flag = FALSE, !.image[k] = e] = r
    BY <1>1 DEF SaverType
  <2> QED BY <2>2, <2>3
<1> HIDE DEF e
<1>7. image \in Images /\ image[k] = e /\ \A j \in Keys \ {k} : image[j] = save[p].image[j]
  BY <1>1, <1>5 DEF SaverType, Images
<1> HIDE DEF image
<1>8. /\ r \in SaverType
      /\ r.pc = "encode" /\ r.refs = save[p].refs /\ r.next = save[p].next
      /\ r.image = image
  BY <1>1, <1>7 DEF SaverType, SavePCs
<1> HIDE DEF r
<1>9. ASSUME NEW j \in Keys, stable[p][j] # Changed
      PROVE  r.image[j] # None =>
                  save[p].refs[j] # None /\ SameEntry(r.image[j], stable[p][j])
  <2>1. CASE j # k
    BY <1>1, <1>7, <1>8, <1>9, <2>1 DEF IInv, Faithful
  <2>2. CASE j = k
    <3> DEFINE d == stable[p][k]
    <3>1. Deref(p, k) = d /\ d \in Entries /\ busy[k] = None
      BY <1>1, <1>9, <2>2, DerefStable
    <3>2. save[p].value = d.value /\ save[p].flag = d.hasExpiry
      BY <1>1, <1>9, <2>2 DEF IInv, Faithful
    <3>3. ~Races(p, k, "time")
      BY <3>1 DEF Races
    <3> HIDE DEF d
    <3>4. CASE save[p].flag
      <4>1. t = d.expiresAt
        BY <1>2, <3>1, <3>3, <3>4
      <4>2. e = Entry(d.value, d.hasExpiry, d.expiresAt)
        BY <3>2, <4>1 DEF e
      <4>3. e = d
        BY <3>1, <4>2, EntryFacts
      <4> QED BY <1>1, <1>7, <1>8, <2>2, <4>3 DEF SameEntry, d
    <3>5. CASE ~save[p].flag
      <4>1. None \notin {e, d} /\ e.value = d.value /\ ~e.hasExpiry /\ ~d.hasExpiry
        BY <1>5, <3>1, <3>2, <3>5, EntryFacts
      <4> QED BY <1>1, <1>7, <1>8, <2>2, <4>1 DEF SameEntry, d
    <3> QED BY <3>4, <3>5
  <2> QED BY <2>1, <2>2
<1> QED BY <1>1, <1>3, <1>6, <1>8, <1>9, EncodeStep

\* The temp file is written and synced: the record says so, and nothing else.
LEMMA WriteStep ==
  ASSUME IInv, NEW p \in Savers, WriteTemp(p) \/ Fsync(p)
  PROVE  IInv'
<1>1. PICK pc \in {"written", "synced"} : save' = [save EXCEPT ![p].pc = pc]
  BY DEF WriteTemp, Fsync
<1>2. /\ save[p].pc \in {"encode", "written"} /\ save[p] \in SaverType
      /\ ToEncode(p) = {} /\ UNCHANGED <<stable, storeVars, environment>>
  BY SaverFacts DEF WriteTemp, Fsync, IInv, Reading
<1> DEFINE r == [save[p] EXCEPT !.pc = pc]
<1>3. save' = [save EXCEPT ![p] = r]
  BY <1>1 DEF IInv, SaveType
<1>4. /\ r \in SaverType
      /\ r.pc = pc /\ r.refs = save[p].refs /\ r.next = save[p].next
      /\ r.image = save[p].image
  BY <1>2 DEF SaverType, SavePCs
<1> HIDE DEF r
<1>5. \A k \in Keys : stable[p][k] # Changed /\ r.image[k] # None =>
        save[p].refs[k] # None /\ SameEntry(r.image[k], stable[p][k])
  BY <1>2, <1>4 DEF IInv, Faithful
<1> QED BY <1>1, <1>2, <1>3, <1>4, <1>5, EncodeStep

\* A save that is not running knows nothing and promises nothing.
LEMMA IdleSave ==
  ASSUME NEW p \in Savers, save'[p] = Idle
  PROVE  Reading(p)' /\ \A k \in Keys : Faithful(p, k)'
<1>1. save'[p].pc = "idle" /\ save'[p].next = 1 /\ \A k \in Keys : save'[p].refs[k] = None
  BY IdleType DEF Empty
<1>2. 1 \in 1..NumShards
  BY SnapshotAssumption
<1>3. Reading(p)'
  BY <1>1, <1>2, EntryFacts DEF Reading, Idle, Empty
<1> QED BY <1>1, <1>3 DEF Faithful

\* SaveSnapshot returns, after the rename or with an error: the path has its old
\* contents, or the complete image.
LEMMA SaveEndsStep ==
  ASSUME IInv, NEW p \in Savers, Rename(p) \/ SaveFails(p)
  PROVE  IInv'
<1>1. /\ save[p].pc \in {"encode", "written", "synced"} /\ SaveEnds(p)
      /\ UNCHANGED <<storeVars, now, restarts>>
  BY DEF Rename, SaveFails
<1>2. phase' \in {"serving", "stopping", "saving", "exiting"}
  BY <1>1, Running DEF SaveEnds
<1>3. /\ SaveType' /\ save'[p] = Idle
      /\ \A q \in Savers \ {p} : save'[q] = save[q] /\ stable'[q] = stable[q]
  <2>1. Empty \in [Keys -> Entries \cup {None, Changed}]
    BY DEF Empty
  <2> QED BY <1>1, <2>1, IdleType DEF SaveEnds, IInv, SaveType
<1>4. DiskType'
  <2>1. CASE Rename(p)
    <3>1. save[p].image \in Images
      BY SaverFacts DEF IInv
    <3>2. file' = save[p].image /\ durable' = durable \cup {save[p].image}
      BY <2>1 DEF Rename, OnDisk
    <3>3. renames' \in 0..MaxRenames
      BY <2>1, SnapshotAssumption DEF Rename, IInv, DiskType
    <3> QED BY <3>1, <3>2, <3>3 DEF IInv, DiskType
  <2>2. CASE SaveFails(p)
    BY <2>2 DEF SaveFails, IInv, DiskType, diskVars
  <2> QED BY <2>1, <2>2
<1>5. Reading(p)' /\ \A k \in Keys : Faithful(p, k)'
  BY <1>3, IdleSave
<1> QED BY <1>1, <1>2, <1>3, <1>4, <1>5, OneSave

-----------------------------------------------------------------------------
\* A process loads what is at the path and serves it.
LEMMA LoadStep ==
  ASSUME IInv, Load
  PROVE  IInv'
<1>1. /\ busy = Empty /\ UNCHANGED <<busy, saveVars, diskVars, now, restarts>>
      /\ phase' = "serving"
  BY DEF Load, IInv, ProcessType
<1>2. mem' \in Images
  <2>1. CASE file \in {Missing, Corrupt}
    BY <2>1, IdleType DEF Load
  <2>2. CASE file \notin {Missing, Corrupt}
    <3>1. file \in [Keys -> Entries \cup {None}]
      BY <2>2 DEF IInv, DiskType, Images
    <3> QED BY <2>2, <3>1 DEF Load, Images
  <2> QED BY <2>1, <2>2
<1>3. StoreType'
  BY <1>1, <1>2 DEF StoreType, IInv, Empty
<1>4. SaveType' /\ DiskType' /\ ProcessType'
  BY <1>1 DEF IInv, SaveType, DiskType, ProcessType, saveVars, diskVars
<1>5. \A p \in Savers : save'[p] = Idle
  BY <1>1 DEF Load, IInv, ProcessType, Reading, saveVars
<1> QED BY <1>3, <1>4, <1>5, IdleSave DEF IInv

\* The process ends: its memory and its saves are gone, and power loss leaves at
\* the path one of the images it may have held.
LEMMA StopStep ==
  ASSUME IInv, Exit \/ Crash \/ PowerLoss
  PROVE  IInv'
<1>1. Stop
  BY DEF Exit, Crash, PowerLoss
<1>2. StoreType'
  BY <1>1, IdleType DEF Stop, StoreType, Empty
<1>3. SaveType' /\ \A p \in Savers : save'[p] = Idle
  <2>1. Empty \in [Keys -> Entries \cup {None, Changed}]
    BY DEF Empty
  <2> QED BY <1>1, <2>1, IdleType DEF Stop, SaveType
<1>4. DiskType'
  <2>1. renames' = renames /\ (UNCHANGED <<file, durable>> \/ \E f \in durable : file' = f /\ durable' = {f})
    BY <1>1 DEF Exit, Crash, PowerLoss, Stop
  <2> QED BY <2>1 DEF IInv, DiskType
<1>5. ProcessType'
  BY <1>1, <1>3, IdleType DEF Stop, IInv, ProcessType
<1> QED BY <1>2, <1>3, <1>4, <1>5, IdleSave DEF IInv

\* The signal, the end of Shutdown, a restart and the clock.  An entry that has
\* expired stays expired.
LEMMA LifeStep ==
  ASSUME IInv, Signal \/ Drained \/ Restart \/ Tick
  PROVE  IInv'
<1>1. UNCHANGED <<storeVars, saveVars, diskVars>>
  BY DEF Signal, Drained, Restart, Tick
<1>2. StoreType' /\ SaveType' /\ DiskType'
  BY <1>1 DEF IInv, StoreType, SaveType, DiskType, storeVars, saveVars, diskVars
<1>3. ProcessType'
  <2>1. now' \in 0..MaxTime /\ restarts' \in 0..MaxRestarts
    BY SnapshotAssumption DEF Signal, Drained, Restart, Tick, IInv, ProcessType
  <2> QED BY <1>1, <2>1
          DEF Signal, Drained, Restart, Tick, IInv, ProcessType, storeVars, saveVars
<1>4. now \in Nat /\ now' \in {now, now + 1}
  BY SnapshotAssumption DEF Signal, Drained, Restart, Tick, IInv, ProcessType
<1>5. \A p \in Savers : Reading(p)'
  BY <1>1 DEF IInv, Reading, ToEncode, storeVars, saveVars
<1>6. ASSUME NEW p \in Savers, NEW k \in Keys
      PROVE  Faithful(p, k)'
  <2>1. Faithful(p, k)
    BY DEF IInv
  <2>2. stable[p][k] # None /\ stable[p][k] # Changed => stable[p][k] \in Entries
    BY DEF IInv, SaveType
  <2>3. stable[p][k] # None /\ stable[p][k] # Changed /\ IsExpired(stable[p][k], now)
          => IsExpired(stable[p][k], now')
    BY <1>4, <2>2, EntryFacts DEF IsExpired
  <2> QED BY <1>1, <2>1, <2>3 DEF Faithful, storeVars, saveVars
<1> QED BY <1>2, <1>3, <1>5, <1>6 DEF IInv

-----------------------------------------------------------------------------
\* The initial state satisfies the invariant.
LEMMA InitIInv == Init => IInv
<1> SUFFICES ASSUME Init PROVE IInv
  OBVIOUS
<1>1. StoreType
  BY IdleType DEF Init, StoreType, Empty
<1>2. SaveType
  <2>1. Empty \in [Keys -> Entries \cup {None, Changed}]
    BY DEF Empty
  <2> QED BY <2>1, IdleType DEF Init, SaveType
<1>3. DiskType
  BY SnapshotAssumption DEF Init, DiskType
<1>4. ProcessType
  BY SnapshotAssumption, IdleType DEF Init, ProcessType
<1>5. ASSUME NEW p \in Savers
      PROVE  Reading(p) /\ \A k \in Keys : Faithful(p, k)
  <2>1. save[p] = Idle
    BY DEF Init
  <2>2. /\ save[p].pc = "idle" /\ save[p].next = 1
        /\ \A k \in Keys : save[p].refs[k] = None
    BY <2>1, IdleType DEF Empty
  <2>3. 1 \in 1..NumShards
    BY SnapshotAssumption
  <2> QED BY <2>1, <2>2, <2>3, EntryFacts DEF Reading, Faithful
<1> QED BY <1>1, <1>2, <1>3, <1>4, <1>5 DEF IInv

\* Every step preserves it.
LEMMA NextIInv == IInv /\ [Next]_vars => IInv'
<1> SUFFICES ASSUME IInv, [Next]_vars PROVE IInv'
  OBVIOUS
<1>1. ASSUME NEW k \in Keys, Command(k) PROVE IInv'
  BY <1>1, CommandStep
<1>2. ASSUME NEW p \in Savers, SaveBegin(p) PROVE IInv'
  BY <1>2, SaveBeginStep
<1>3. ASSUME NEW p \in Savers, SaveStep(p) PROVE IInv'
  BY <1>3, CollectStep, EncodeValueStep, EncodeFlagStep, EncodeTimeStep, WriteStep,
     SaveEndsStep DEF SaveStep
<1>4. ASSUME NEW p \in Savers, SaveFails(p) PROVE IInv'
  BY <1>4, SaveEndsStep
<1>5. CASE Load
  BY <1>5, LoadStep
<1>6. CASE Exit \/ Crash \/ PowerLoss
  BY <1>6, StopStep
<1>7. CASE Signal \/ Drained \/ Restart \/ Tick
  BY <1>7, LifeStep
<1>8. CASE UNCHANGED vars
  <2>1. StoreType' /\ SaveType' /\ DiskType' /\ ProcessType'
    BY <1>8 DEF IInv, StoreType, SaveType, DiskType, ProcessType,
                vars, storeVars, saveVars, diskVars
  <2>2. \A p \in Savers : Reading(p)'
    BY <1>8 DEF IInv, Reading, ToEncode, vars, storeVars, saveVars
  <2>3. \A p \in Savers, k \in Keys : Faithful(p, k)'
    BY <1>8 DEF IInv, Faithful, vars, storeVars, saveVars
  <2> QED BY <2>1, <2>2, <2>3 DEF IInv
<1> QED BY <1>1, <1>2, <1>3, <1>4, <1>5, <1>6, <1>7, <1>8 DEF Next

-----------------------------------------------------------------------------
\* The invariant holds throughout.
THEOREM SavesFaithful == Spec => []IInv
BY InitIInv, NextIInv, PTL DEF Spec

\* Type invariant; in it, that no save runs and the store is empty while the
\* process loads or is down.
THEOREM TypeCorrect == Spec => []TypeOK
<1>1. IInv => TypeOK
  <2> SUFFICES ASSUME IInv PROVE TypeOK
    OBVIOUS
  <2>1. \A p \in Savers : save[p].pc \in SavePCs
    BY SaverFacts DEF IInv
  <2> QED BY <2>1 DEF IInv, TypeOK, SavePCs, ProcessType, DiskType
<1> QED BY <1>1, SavesFaithful, PTL

\* Neither a killed process nor power loss, at any point of any number of
\* concurrent saves, leaves a corrupt file at the snapshot path.
THEOREM NeverCorrupt == Spec => []SnapshotNeverCorrupt
<1>1. IInv => SnapshotNeverCorrupt
  BY SnapshotAssumption DEF IInv, DiskType, SnapshotNeverCorrupt
<1> QED BY <1>1, SavesFaithful, PTL

\* A complete image has every key that nothing changed during its save, as it
\* was, and no key that was absent all along, although the save reads the
\* entries field by field without their shards' locks.
THEOREM StableSaved == Spec => []StableKeysSaved
<1>1. IInv => StableKeysSaved
  <2> SUFFICES ASSUME IInv, NEW p \in Savers, NEW k \in Keys,
                      save[p].pc \in {"written", "synced"}, stable[p][k] # Changed
               PROVE  \/ SameEntry(save[p].image[k], stable[p][k])
                      \/ /\ stable[p][k] # None /\ IsExpired(stable[p][k], now)
                         /\ save[p].image[k] = None
    BY DEF StableKeysSaved
  <2>1. Faithful(p, k) /\ Reading(p)
    BY DEF IInv
  <2>2. CASE save[p].refs[k] # None
    <3>1. save[p].image[k] # None
      BY <2>1, <2>2 DEF Reading, ToEncode
    <3> QED BY <2>1, <3>1 DEF Faithful
  <2>3. CASE save[p].refs[k] = None
    <3>1. save[p].image[k] = None
      BY <2>1, <2>3 DEF Faithful
    <3>2. ShardOf[k] < save[p].next
      BY <2>1, SnapshotAssumption DEF Reading
    <3>3. stable[p][k] # None => IsExpired(stable[p][k], now)
      BY <2>1, <2>3, <3>2 DEF Faithful
    <3> QED BY <3>1, <3>3 DEF SameEntry
  <2> QED BY <2>2, <2>3
<1> QED BY <1>1, SavesFaithful, PTL
=============================================================================
