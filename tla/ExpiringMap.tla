---------------------------- MODULE ExpiringMap -----------------------------
(***************************************************************************)
(* What the plan cache promises its clients, with no shards, locks, LRU    *)
(* list or byte accounting: a map whose keys disappear the moment their    *)
(* TTL passes, which may forget keys to save memory or because of a        *)
(* FLUSHALL, and whose replies depend only on what is visible.             *)
(*                                                                         *)
(* Two replies are looser than a client would expect, because the code's   *)
(* are: DEL of an expired key may count it, and INCR of an expired key may *)
(* answer without leaving anything visible.                                *)
(***************************************************************************)
EXTENDS Integers

CONSTANTS Keys, Blobs, IntMin, IntMax, Deltas, SetTTLs, ExpireTTLs, Nil, Gone

VARIABLES
  view,     \* Keys -> what a client can see of the key, or Gone
  now,
  serving,
  reply

vars == <<view, now, serving, reply>>

Ints    == IntMin..IntMax
Values  == Blobs \cup Ints
Visible == [value : Values, hasExpiry : BOOLEAN, expiresAt : Int]

Wrap(n) == IntMin + ((n - IntMin) % (IntMax - IntMin + 1))

\* A value stored now that never expires, or expires at time t.
Forever(v)  == [value |-> v, hasExpiry |-> FALSE, expiresAt |-> 0]
Until(v, t) == [value |-> v, hasExpiry |-> TRUE, expiresAt |-> t]

\* A key's visible state at time t.
At(vis, t) == IF vis # Gone /\ vis.hasExpiry /\ t > vis.expiresAt THEN Gone ELSE vis

Answer(r)    == serving /\ reply' = r /\ UNCHANGED <<now, serving>>
Becomes(k, vis) == view' = [view EXCEPT ![k] = At(vis, now)]

Get(k) ==
  /\ Answer(<<"get", k, IF view[k] = Gone THEN Nil ELSE view[k].value>>)
  /\ UNCHANGED view

Exists(k) ==
  /\ Answer(<<"exists", k, view[k] # Gone>>)
  /\ UNCHANGED view

\* NX stores only over nothing, XX only over something visible.
Admits(k, mode) ==
  /\ mode = "NX" => view[k] = Gone
  /\ mode = "XX" => view[k] # Gone

Set(k, mode) ==
  /\ Answer(<<"set", k, mode, Admits(k, mode)>>)
  /\ IF Admits(k, mode)
       THEN \E v \in Values, ttl \in SetTTLs :
              Becomes(k, IF ttl > 0 THEN Until(v, now + ttl) ELSE Forever(v))
       ELSE UNCHANGED view

Del(k) ==
  /\ Becomes(k, Gone)
  /\ \E b \in BOOLEAN : (view[k] # Gone => b) /\ Answer(<<"del", k, b>>)

Expire(k) ==
  /\ Answer(<<"expire", k, view[k] # Gone>>)
  /\ \/ view[k] = Gone /\ UNCHANGED view
     \/ view[k] # Gone /\ \E ttl \in ExpireTTLs :
                            Becomes(k, Until(view[k].value, now + ttl))

Persist(k) ==
  /\ Answer(<<"persist", k, view[k] # Gone /\ view[k].hasExpiry>>)
  /\ IF view[k] = Gone THEN UNCHANGED view ELSE Becomes(k, Forever(view[k].value))

\* A key in its last instant answers -1, like one that never expires.
TTL(k) ==
  /\ Answer(<<"ttl", k, IF view[k] = Gone THEN -2
                        ELSE IF view[k].hasExpiry /\ view[k].expiresAt # now
                               THEN view[k].expiresAt - now ELSE -1>>)
  /\ UNCHANGED view

Incr(k) ==
  \/ /\ view[k] # Gone /\ view[k].value \in Blobs
     /\ Answer(<<"incr", k, Nil>>)
     /\ UNCHANGED view
  \/ \E delta \in Deltas :
       \/ /\ view[k] # Gone /\ view[k].value \in Ints
          /\ Answer(<<"incr", k, Wrap(view[k].value + delta)>>)
          /\ Becomes(k, [view[k] EXCEPT !.value = Wrap(@ + delta)])
       \/ /\ view[k] = Gone
          /\ Answer(<<"incr", k, Wrap(delta)>>)
          /\ Becomes(k, Forever(Wrap(delta))) \/ UNCHANGED view

\* Eviction and FLUSHALL.
Forget ==
  /\ \E R \in SUBSET Keys : view' = [k \in Keys |-> IF k \in R THEN Gone ELSE view[k]]
  /\ UNCHANGED <<now, serving, reply>>

\* Snapshot loading, and its end.
Restore ==
  /\ ~serving
  /\ \E k \in Keys : /\ view[k] = Gone
                     /\ view'[k] \in Visible
                     /\ view' = [view EXCEPT ![k] = view'[k]]
  /\ UNCHANGED <<now, serving, reply>>

Open == serving' /\ UNCHANGED <<view, now, reply>>

Tick ==
  /\ now' = now + 1
  /\ view' = [k \in Keys |-> At(view[k], now + 1)]
  /\ UNCHANGED <<serving, reply>>

Init ==
  /\ view = [k \in Keys |-> Gone]
  /\ now = 0
  /\ serving = FALSE
  /\ reply = <<"none">>

Next ==
  \/ \E k \in Keys : \/ Get(k) \/ Exists(k) \/ Del(k)
                     \/ \E mode \in {"always", "NX", "XX"} : Set(k, mode)
                     \/ Expire(k) \/ Persist(k) \/ TTL(k) \/ Incr(k)
  \/ Forget
  \/ Restore
  \/ Open
  \/ Tick

Spec == Init /\ [][Next]_vars
=============================================================================
