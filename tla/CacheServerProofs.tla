------------------------- MODULE CacheServerProofs --------------------------
(***************************************************************************)
(* Proofs about the cache server's shutdown for every set of connections:  *)
(* the WaitGroup counts the running handlers, Shutdown's wait is a wait    *)
(* for every handler that was running when it was called, and so no such   *)
(* handler writes to the store behind the final snapshot.                  *)
(***************************************************************************)
EXTENDS CacheServer, FiniteSetTheorems, TLAPS

States ==
  {"new", "backlog", "refused", "accepted", "reading", "applied", "returning",
   "untracked", "finished"}

\* The states in which a connection has a handler that wg counts.
Active == {"reading", "applied", "returning", "untracked"}

\* The control state of the accept loop and of its connections: a connection
\* that the loop holds is accepted and has no handler yet.
Control ==
  /\ phase \in {"serving", "draining", "forced", "saving", "exiting", "down"}
  /\ listener \in {"unbound", "open", "closed"}
  /\ loop \in {"listen", "accept", "track", "register", "returned"}
  /\ current \in Conns \cup {None}
  /\ state \in [Conns -> States]
  /\ conns \subseteq Conns /\ closed \subseteq Conns
  /\ loop \in {"track", "register"} => current \in Conns /\ state[current] = "accepted"

\* wg counts the running handlers.
Counted == wg = Cardinality(Handlers)

\* What the snapshot and the clients have seen was executed.
Executed == saved \subseteq applied /\ acked \subseteq applied

\* The connections that were being served when Shutdown was called: each one's
\* handler is running or has finished, and all have finished once done is closed,
\* which is what main waits for before it saves.
Drain ==
  /\ early \subseteq Conns
  /\ \A c \in early : state[c] \in Active \cup {"finished"}
  /\ phase = "serving" => early = {} /\ ~done
  /\ done => \A c \in early : state[c] = "finished"
  /\ phase \in {"saving", "exiting"} => done

\* The inductive invariant.
IInv == Control /\ Counted /\ Executed /\ Drain /\ ServedWritesSaved

-----------------------------------------------------------------------------
\* The handlers are finitely many, and none is running when wg is zero: what
\* wg.Wait's return means.
LEMMA HandlersFinite ==
  /\ IsFiniteSet(Handlers)
  /\ Cardinality(Handlers) \in Nat
  /\ Cardinality(Handlers) = 0 <=> Handlers = {}
<1>1. IsFiniteSet(Conns)
  BY ServerAssumption
<1>2. Handlers \subseteq Conns
  BY DEF Handlers
<1>3. IsFiniteSet(Handlers)
  BY <1>1, <1>2, FS_Subset
<1> QED BY <1>3, FS_CardinalityType, FS_EmptySet

\* A step that moves no connection into or out of its handler keeps the count.
LEMMA CountKept ==
  ASSUME Counted, wg' = wg,
         \A c \in Conns : state[c] \in Active <=> state'[c] \in Active
  PROVE  Counted'
<1>1. Handlers' = Handlers
  BY DEF Handlers, Active
<1> QED BY <1>1 DEF Counted

\* wg.Add(1) accounts for the handler that is about to start.
LEMMA CountAdd ==
  ASSUME Counted, NEW c \in Conns, wg' = wg + 1, state \in [Conns -> States],
         state[c] \notin Active,
         state' = [state EXCEPT ![c] = "reading"]
  PROVE  Counted'
<1>1. Handlers' = Handlers \cup {c} /\ c \notin Handlers
  BY DEF Handlers, Active
<1>2. Cardinality(Handlers \cup {c}) = Cardinality(Handlers) + 1
  BY <1>1, HandlersFinite, FS_AddElement
<1> QED BY <1>1, <1>2 DEF Counted

\* wg.Done accounts for the one that has ended.
LEMMA CountDone ==
  ASSUME Counted, NEW c \in Conns, wg' = wg - 1, state \in [Conns -> States],
         state[c] = "untracked",
         state' = [state EXCEPT ![c] = "finished"]
  PROVE  Counted'
<1>1. Handlers' = Handlers \ {c} /\ c \in Handlers
  BY DEF Handlers, Active
<1>2. Cardinality(Handlers \ {c}) = Cardinality(Handlers) - 1
  BY <1>1, HandlersFinite, FS_RemoveElement
<1> QED BY <1>1, <1>2 DEF Counted

-----------------------------------------------------------------------------
\* The initial state satisfies the invariant.
LEMMA InitIInv == Init => IInv
<1> SUFFICES ASSUME Init PROVE IInv
  OBVIOUS
<1> USE DEF Init
<1>1. Control
  BY DEF Control, States
<1>2. Counted
  <2>1. Handlers = {}
    BY DEF Handlers
  <2> QED BY <2>1, FS_EmptySet DEF Counted
<1>3. Executed /\ Drain /\ ServedWritesSaved
  BY DEF Executed, Drain, ServedWritesSaved
<1> QED BY <1>1, <1>2, <1>3 DEF IInv

\* The clients' steps move no handler.
LEMMA ClientStep ==
  ASSUME IInv, NEW c \in Conns, Client(c)
  PROVE  IInv'
<1> USE DEF IInv, clientVars, storeVars, mainVars, acceptVars
<1>1. CASE Connect(c)
  <2> USE <1>1 DEF Connect
  <2>1. Control'
    BY DEF Control, States
  <2>2. Counted'
    BY CountKept DEF Control, Active
  <2>3. Executed' /\ Drain' /\ ServedWritesSaved'
    BY DEF Control, Executed, Drain, ServedWritesSaved, Active
  <2> QED BY <2>1, <2>2, <2>3
<1>2. CASE Send(c)
  BY <1>2, CountKept DEF Send, Control, Executed, Drain, ServedWritesSaved
<1>3. CASE Disconnect(c)
  BY <1>3, CountKept DEF Disconnect, Control, Executed, Drain, ServedWritesSaved
<1> QED BY <1>1, <1>2, <1>3 DEF Client

\* Closing the listener refuses connections of the backlog: no handler moves.
LEMMA CloseListenerStep ==
  ASSUME Control, CloseListener
  PROVE  /\ listener' = "closed"
         /\ state' \in [Conns -> States]
         /\ \A c \in Conns : state'[c] = state[c] \/
                             (state[c] = "backlog" /\ state'[c] = "refused")
BY DEF Control, CloseListener, States

\* The accept loop and its watcher.
LEMMA ServeStep ==
  ASSUME IInv, Serve \/ Watch
  PROVE  IInv'
<1> USE DEF IInv, clientVars, storeVars, mainVars, acceptVars
<1>1. CASE Listen
  BY <1>1, CountKept DEF Listen, Control, Executed, Drain, ServedWritesSaved
<1>2. CASE ListenFails
  <2> USE <1>2 DEF ListenFails
  <2>1. phase' = phase \/ phase' = "down"
    OBVIOUS
  <2>2. Control' /\ Executed' /\ Drain' /\ ServedWritesSaved'
    BY <2>1 DEF Control, Executed, Drain, ServedWritesSaved
  <2>3. Counted'
    BY CountKept
  <2> QED BY <2>2, <2>3
<1>3. ASSUME NEW c \in Conns, Accept(c)
      PROVE  IInv'
  <2> USE <1>3 DEF Accept
  <2>1. Control'
    BY DEF Control, States
  <2>2. Counted'
    BY CountKept DEF Control, Active
  <2>3. Executed' /\ Drain' /\ ServedWritesSaved'
    BY DEF Control, Executed, Drain, ServedWritesSaved, Active
  <2> QED BY <2>1, <2>2, <2>3
<1>4. CASE TrackConn
  BY <1>4, CountKept DEF TrackConn, Control, Executed, Drain, ServedWritesSaved
<1>5. CASE Register
  <2> USE <1>5 DEF Register
  <2>1. Control'
    BY DEF Control, States
  <2>2. Counted'
    BY CountAdd DEF Control, Active
  <2>3. Executed' /\ Drain' /\ ServedWritesSaved'
    BY DEF Control, Executed, Drain, ServedWritesSaved, Active
  <2> QED BY <2>1, <2>2, <2>3
<1>6. CASE ServeReturns
  BY <1>6, CountKept DEF ServeReturns, Control, Executed, Drain, ServedWritesSaved
<1>7. CASE Watch
  <2> USE <1>7 DEF Watch
  <2>1. Control'
    BY CloseListenerStep DEF Control
  <2>2. Counted'
    BY CloseListenerStep, CountKept DEF Active
  <2>3. Executed' /\ Drain' /\ ServedWritesSaved'
    BY CloseListenerStep DEF Executed, Drain, ServedWritesSaved, Active
  <2> QED BY <2>1, <2>2, <2>3
<1> QED BY <1>1, <1>2, <1>3, <1>4, <1>5, <1>6, <1>7 DEF Serve

\* A connection's handler.  Dispatch is the step that could write behind the
\* snapshot: it does so only for a connection that Shutdown did not wait for.
LEMMA HandlerStep ==
  ASSUME IInv, NEW c \in Conns, Handler(c)
  PROVE  IInv'
<1> USE DEF IInv, clientVars, storeVars, mainVars, acceptVars
<1>1. CASE Dispatch(c)
  <2> USE <1>1 DEF Dispatch
  <2>1. Control'
    BY DEF Control, States
  <2>2. Counted'
    BY CountKept DEF Control, Active
  <2>3. PICK n : applied' = applied \cup {<<c, n>>}
    OBVIOUS
  <2>4. Executed' /\ Drain'
    BY <2>3 DEF Control, Executed, Drain, Active
  <2>5. phase = "exiting" => c \notin early
    BY DEF Drain
  <2>6. ServedWritesSaved'
    BY <2>3, <2>5 DEF ServedWritesSaved
  <2> QED BY <2>1, <2>2, <2>4, <2>6
<1>2. CASE ReadFails(c) \/ ReplyFails(c)
  <2>1. Returns(c) /\ state[c] \in {"reading", "applied"}
    BY <1>2 DEF ReadFails, ReplyFails
  <2> USE <2>1 DEF Returns
  <2>2. Control'
    BY DEF Control, States
  <2>3. Counted'
    BY CountKept DEF Control, Active
  <2>4. Executed' /\ Drain' /\ ServedWritesSaved'
    BY DEF Control, Executed, Drain, ServedWritesSaved, Active
  <2> QED BY <2>2, <2>3, <2>4
<1>3. CASE Reply(c)
  <2> USE <1>3 DEF Reply
  <2>1. Control'
    BY DEF Control, States
  <2>2. Counted'
    BY CountKept DEF Control, Active
  <2>3. acked' \subseteq applied
    BY DEF Executed
  <2>4. Executed' /\ Drain' /\ ServedWritesSaved'
    BY <2>3 DEF Control, Executed, Drain, ServedWritesSaved, Active
  <2> QED BY <2>1, <2>2, <2>4
<1>4. CASE UntrackConn(c)
  <2> USE <1>4 DEF UntrackConn
  <2>1. Control'
    BY DEF Control, States
  <2>2. Counted'
    BY CountKept DEF Control, Active
  <2>3. Executed' /\ Drain' /\ ServedWritesSaved'
    BY DEF Control, Executed, Drain, ServedWritesSaved, Active
  <2> QED BY <2>1, <2>2, <2>3
<1>5. CASE Done(c)
  <2> USE <1>5 DEF Done
  <2>1. Control'
    BY DEF Control, States
  <2>2. Counted'
    BY CountDone DEF Control
  <2>3. Executed' /\ Drain' /\ ServedWritesSaved'
    BY DEF Control, Executed, Drain, ServedWritesSaved, Active
  <2> QED BY <2>1, <2>2, <2>3
<1> QED BY <1>1, <1>2, <1>3, <1>4, <1>5 DEF Handler

\* The signal, Shutdown, its wait, the final save and the exit.
LEMMA MainStep ==
  ASSUME IInv, Signal \/ WaitReturns \/ Main
  PROVE  IInv'
<1> USE DEF IInv, clientVars, storeVars, mainVars, acceptVars
<1>1. CASE Signal
  BY <1>1, CountKept DEF Signal, Control, Executed, Drain, ServedWritesSaved
<1>2. CASE Shutdown
  <2> USE <1>2 DEF Shutdown
  <2>1. /\ listener' \in {"unbound", "open", "closed"}
        /\ state' \in [Conns -> States]
        /\ \A c \in Conns : state'[c] = state[c] \/
                            (state[c] = "backlog" /\ state'[c] = "refused")
    <3>1. CASE listener = "open"
      BY <3>1, CloseListenerStep
    <3>2. CASE listener # "open"
      BY <3>2 DEF Control
    <3> QED BY <3>1, <3>2
  <2>2. Control'
    BY <2>1 DEF Control
  <2>3. Counted'
    BY <2>1, CountKept DEF Active
  <2>4. Executed' /\ Drain' /\ ServedWritesSaved'
    BY <2>1 DEF Executed, Drain, ServedWritesSaved, Handlers, Active
  <2> QED BY <2>2, <2>3, <2>4
<1>3. CASE WaitReturns
  <2> USE <1>3 DEF WaitReturns
  <2>1. Handlers = {}
    BY HandlersFinite DEF Counted
  <2>2. \A c \in early : state[c] = "finished"
    BY <2>1 DEF Drain, Handlers, Active
  <2>3. Counted'
    BY CountKept
  <2>4. Control' /\ Executed' /\ Drain' /\ ServedWritesSaved'
    BY <2>2 DEF Control, Executed, Drain, ServedWritesSaved
  <2> QED BY <2>3, <2>4
<1>4. CASE Drained \/ ForcedDone
  BY <1>4, CountKept DEF Drained, ForcedDone, Control, Executed, Drain, ServedWritesSaved
<1>5. CASE GraceExpires
  BY <1>5, CountKept DEF GraceExpires, Control, Executed, Drain, ServedWritesSaved
<1>6. CASE FinalSave
  BY <1>6, CountKept DEF FinalSave, Control, Executed, Drain, ServedWritesSaved
<1>7. CASE Exit
  BY <1>7, CountKept DEF Exit, Control, Executed, Drain, ServedWritesSaved
<1> QED BY <1>1, <1>2, <1>3, <1>4, <1>5, <1>6, <1>7 DEF Main

\* Every step preserves the invariant.
LEMMA NextIInv == IInv /\ [Next]_vars => IInv'
<1> SUFFICES ASSUME IInv, [Next]_vars PROVE IInv'
  OBVIOUS
<1>1. CASE \E c \in Conns : Client(c)
  BY <1>1, ClientStep
<1>2. CASE Serve \/ Watch
  BY <1>2, ServeStep
<1>3. CASE \E c \in Conns : Handler(c)
  BY <1>3, HandlerStep
<1>4. CASE Signal \/ WaitReturns \/ Main
  BY <1>4, MainStep
<1>5. CASE UNCHANGED vars
  BY <1>5, CountKept
     DEF IInv, Control, Executed, Drain, ServedWritesSaved, vars, mainVars,
         acceptVars, clientVars, storeVars
<1> QED BY <1>1, <1>2, <1>3, <1>4, <1>5 DEF Next

-----------------------------------------------------------------------------
\* The invariant holds throughout.
THEOREM DrainCorrect == Spec => []IInv
BY InitIInv, NextIInv, PTL DEF Spec

\* Type invariant; in it, that the WaitGroup's counter is the number of running
\* handlers, so that wg.Done never takes it below zero, which would panic.
THEOREM TypeCorrect == Spec => []TypeOK
<1>1. IInv => TypeOK
  BY DEF IInv, Control, Counted, Executed, Drain, TypeOK
<1> QED BY <1>1, DrainCorrect, PTL

\* Shutdown loses no write of a connection that it waited for: every command
\* executed for a connection that was being served when it was called is in
\* the final snapshot.
THEOREM ServedSaved == Spec => []ServedWritesSaved
<1>1. IInv => ServedWritesSaved
  BY DEF IInv
<1> QED BY <1>1, DrainCorrect, PTL
=============================================================================
