---------------------------- MODULE CacheServer -----------------------------
(***************************************************************************)
(* The plan cache's TCP front end (cache/internal/server) and the shutdown *)
(* sequence of cache/cmd/server/main.go around it: the accept loop, one    *)
(* handler goroutine per connection, the watcher that closes the listener, *)
(* Shutdown with its grace period, the final snapshot and the exit.        *)
(*                                                                         *)
(* A command is a write, named <<connection, number>>; what it does to the *)
(* store is CacheStore's, how the snapshot is written is CacheSnapshot's.  *)
(***************************************************************************)
EXTENDS Integers, FiniteSets

CONSTANTS
  Conns,        \* the connections clients may open
  MaxCommands,  \* bound: commands a client sends on one connection
  None          \* the accept loop holds no connection

ASSUME ServerAssumption ==
  /\ IsFiniteSet(Conns)
  /\ MaxCommands \in Nat
  /\ None \notin Conns

VARIABLES
  phase,      \* main: "serving", "draining" (Shutdown's select), "forced"
              \* (Shutdown's last <-done), "saving", "exiting", "down"
  signalled,  \* ctx is done: SIGINT or SIGTERM arrived
  listener,   \* "unbound", "open" or "closed"
  loop,       \* Serve: "listen", "accept", "track", "register" or "returned"
  current,    \* the connection the accept loop just accepted
  state,      \* Conns -> "new", "backlog", "refused", "accepted", "reading",
              \* "applied", "returning", "untracked", "finished"
  conns,      \* Server.conns: the connections Shutdown would force-close
  wg,         \* Server.wg's counter
  done,       \* Shutdown's done channel is closed
  closed,     \* the connections the server has closed
  here,       \* the clients that have not disconnected
  sent,       \* Conns -> commands the client has sent
  applied,    \* commands dispatched to the store
  acked,      \* commands whose reply reached a client that is still there
  saved,      \* commands in the final snapshot
  early       \* history: connections registered when Shutdown was called

clientVars == <<here, sent>>
storeVars  == <<applied, acked, saved>>
mainVars   == <<phase, signalled, done, early>>
acceptVars == <<listener, loop, current>>
vars == <<mainVars, acceptVars, state, conns, wg, closed, clientVars, storeVars>>

-----------------------------------------------------------------------------
Running == phase # "down"

\* The handlers counted by wg.
Handlers == {c \in Conns : state[c] \in {"reading", "applied", "returning", "untracked"}}

\* ln.Close: connections still in the kernel's backlog are reset.
CloseListener ==
  /\ listener' = "closed"
  /\ state' = [c \in Conns |-> IF state[c] = "backlog" THEN "refused" ELSE state[c]]

-----------------------------------------------------------------------------
\* Clients.  A client may write before the server has accepted it.
Connect(c) ==
  /\ Running /\ listener = "open" /\ state[c] = "new"
  /\ state' = [state EXCEPT ![c] = "backlog"]
  /\ UNCHANGED <<mainVars, acceptVars, conns, wg, closed, clientVars, storeVars>>

Send(c) ==
  /\ Running /\ state[c] \notin {"new", "refused"}
  /\ c \in here \ closed /\ sent[c] < MaxCommands
  /\ sent' = [sent EXCEPT ![c] = @ + 1]
  /\ UNCHANGED <<mainVars, acceptVars, state, conns, wg, closed, here, storeVars>>

Disconnect(c) ==
  /\ Running /\ state[c] # "new" /\ c \in here
  /\ here' = here \ {c}
  /\ UNCHANGED <<mainVars, acceptVars, state, conns, wg, closed, sent, storeVars>>

-----------------------------------------------------------------------------
\* Serve binds its address ...
Listen ==
  /\ Running /\ loop = "listen"
  /\ listener' = "open" /\ loop' = "accept"
  /\ UNCHANGED <<mainVars, current, state, conns, wg, closed, clientVars, storeVars>>

\* ... or fails to, which main answers with log.Fatalf unless it takes, or has
\* taken, the signal's branch of its select.
ListenFails ==
  /\ Running /\ loop = "listen"
  /\ loop' = "returned"
  /\ phase' \in (IF phase = "serving" THEN {"down"} ELSE {phase})
                 \cup (IF signalled THEN {phase} ELSE {})
  /\ UNCHANGED <<signalled, done, early, listener, current, state, conns, wg,
                 closed, clientVars, storeVars>>

Accept(c) ==
  /\ Running /\ loop = "accept" /\ listener = "open" /\ state[c] = "backlog"
  /\ state' = [state EXCEPT ![c] = "accepted"]
  /\ loop' = "track" /\ current' = c
  /\ UNCHANGED <<mainVars, listener, conns, wg, closed, clientVars, storeVars>>

TrackConn ==
  /\ Running /\ loop = "track"
  /\ conns' = conns \cup {current}
  /\ loop' = "register"
  /\ UNCHANGED <<mainVars, listener, current, state, wg, closed, clientVars, storeVars>>

\* Mutant of Register: the handler starts without wg.Add.
RegisterUncounted ==
  /\ Running /\ loop = "register"
  /\ state' = [state EXCEPT ![current] = "reading"]
  /\ loop' = "accept" /\ current' = None
  /\ UNCHANGED <<mainVars, listener, conns, wg, closed, clientVars, storeVars>>

\* wg.Add(1) and the go statement.
Register ==
  /\ Running /\ loop = "register"
  /\ wg' = wg + 1
  /\ state' = [state EXCEPT ![current] = "reading"]
  /\ loop' = "accept" /\ current' = None
  /\ UNCHANGED <<mainVars, listener, conns, closed, clientVars, storeVars>>

\* Accept returns net.ErrClosed.
ServeReturns ==
  /\ Running /\ loop = "accept" /\ listener = "closed"
  /\ loop' = "returned"
  /\ UNCHANGED <<mainVars, listener, current, state, conns, wg, closed,
                 clientVars, storeVars>>

\* Serve's watcher goroutine.
Watch ==
  /\ Running /\ signalled /\ listener = "open"
  /\ CloseListener
  /\ UNCHANGED <<mainVars, loop, current, conns, wg, closed, clientVars, storeVars>>

-----------------------------------------------------------------------------
\* handleConnection.  Commands are read through a bufio.Reader, so one that
\* has arrived can still be parsed after a forced close.
Unread(c) == {n \in 1..sent[c] : <<c, n>> \notin applied}

Dispatch(c) ==
  /\ Running /\ state[c] = "reading"
  /\ \E n \in Unread(c) :
       /\ \A m \in Unread(c) : n <= m
       /\ applied' = applied \cup {<<c, n>>}
  /\ state' = [state EXCEPT ![c] = "applied"]
  /\ UNCHANGED <<mainVars, acceptVars, conns, wg, closed, clientVars, acked, saved>>

\* The handler returns: the deferred conn.Close.
Returns(c) ==
  /\ state' = [state EXCEPT ![c] = "returning"]
  /\ closed' = closed \cup {c}
  /\ UNCHANGED <<mainVars, acceptVars, conns, wg, clientVars, storeVars>>

\* ParseCommand fails: end of the stream, or a forced close.
ReadFails(c) ==
  /\ Running /\ state[c] = "reading"
  /\ c \in closed \/ (c \notin here /\ Unread(c) = {})
  /\ Returns(c)

\* WriteRESP and Flush.
Reply(c) ==
  /\ Running /\ state[c] = "applied" /\ c \notin closed
  /\ acked' = IF c \in here THEN acked \cup {x \in applied : x[1] = c} ELSE acked
  /\ state' = [state EXCEPT ![c] = "reading"]
  /\ UNCHANGED <<mainVars, acceptVars, conns, wg, closed, clientVars, applied, saved>>

ReplyFails(c) ==
  /\ Running /\ state[c] = "applied"
  /\ c \in closed \/ c \notin here
  /\ Returns(c)

UntrackConn(c) ==
  /\ Running /\ state[c] = "returning"
  /\ conns' = conns \ {c}
  /\ state' = [state EXCEPT ![c] = "untracked"]
  /\ UNCHANGED <<mainVars, acceptVars, wg, closed, clientVars, storeVars>>

\* The deferred wg.Done.
Done(c) ==
  /\ Running /\ state[c] = "untracked"
  /\ wg' = wg - 1
  /\ state' = [state EXCEPT ![c] = "finished"]
  /\ UNCHANGED <<mainVars, acceptVars, conns, closed, clientVars, storeVars>>

-----------------------------------------------------------------------------
Signal ==
  /\ Running /\ ~signalled
  /\ signalled' = TRUE
  /\ UNCHANGED <<phase, done, early, acceptVars, state, conns, wg, closed,
                 clientVars, storeVars>>

\* main leaves its select, on the signal or on Serve's nil result, and calls
\* Shutdown, which closes the listener if Serve has already stored it.
Shutdown ==
  /\ phase = "serving" /\ signalled
  /\ phase' = "draining"
  /\ early' = Handlers
  /\ IF listener = "open" THEN CloseListener ELSE UNCHANGED <<listener, state>>
  /\ UNCHANGED <<signalled, done, loop, current, conns, wg, closed,
                 clientVars, storeVars>>

\* Shutdown's goroutine: wg.Wait returns and done is closed.
WaitReturns ==
  /\ phase \in {"draining", "forced"} /\ ~done /\ wg = 0
  /\ done' = TRUE
  /\ UNCHANGED <<phase, signalled, early, acceptVars, state, conns, wg, closed,
                 clientVars, storeVars>>

Drained ==
  /\ phase = "draining" /\ done
  /\ phase' = "saving"
  /\ UNCHANGED <<signalled, done, early, acceptVars, state, conns, wg, closed,
                 clientVars, storeVars>>

\* Mutant of GraceExpires: the connections stay open.
GraceExpiresGently ==
  /\ phase = "draining"
  /\ phase' = "forced"
  /\ UNCHANGED <<signalled, done, early, acceptVars, state, conns, wg, closed,
                 clientVars, storeVars>>

\* time.After(gracePeriod) fires: every tracked connection is closed.
GraceExpires ==
  /\ phase = "draining"
  /\ phase' = "forced"
  /\ closed' = closed \cup conns
  /\ UNCHANGED <<signalled, done, early, acceptVars, state, conns, wg,
                 clientVars, storeVars>>

\* Mutant of ForcedDone: Shutdown returns right after the forced close.
ForcedNotAwaited ==
  /\ phase = "forced"
  /\ phase' = "saving"
  /\ UNCHANGED <<signalled, done, early, acceptVars, state, conns, wg, closed,
                 clientVars, storeVars>>

\* Shutdown's last statement, <-done.
ForcedDone ==
  /\ phase = "forced" /\ done
  /\ phase' = "saving"
  /\ UNCHANGED <<signalled, done, early, acceptVars, state, conns, wg, closed,
                 clientVars, storeVars>>

FinalSave ==
  /\ phase = "saving"
  /\ saved' = applied
  /\ phase' = "exiting"
  /\ UNCHANGED <<signalled, done, early, acceptVars, state, conns, wg, closed,
                 clientVars, applied, acked>>

Exit ==
  /\ phase = "exiting"
  /\ phase' = "down"
  /\ UNCHANGED <<signalled, done, early, acceptVars, state, conns, wg, closed,
                 clientVars, storeVars>>

-----------------------------------------------------------------------------
Init ==
  /\ phase = "serving" /\ signalled = FALSE /\ done = FALSE /\ early = {}
  /\ listener = "unbound" /\ loop = "listen" /\ current = None
  /\ state = [c \in Conns |-> "new"]
  /\ conns = {} /\ wg = 0 /\ closed = {}
  /\ here = Conns /\ sent = [c \in Conns |-> 0]
  /\ applied = {} /\ acked = {} /\ saved = {}

Client(c) == Connect(c) \/ Send(c) \/ Disconnect(c)

Serve ==
  \/ Listen
  \/ ListenFails
  \/ \E c \in Conns : Accept(c)
  \/ TrackConn
  \/ Register
  \/ ServeReturns

Handler(c) ==
  \/ Dispatch(c)
  \/ ReadFails(c)
  \/ Reply(c)
  \/ ReplyFails(c)
  \/ UntrackConn(c)
  \/ Done(c)

Main ==
  \/ Shutdown
  \/ Drained
  \/ GraceExpires
  \/ ForcedDone
  \/ FinalSave
  \/ Exit

Next ==
  \/ \E c \in Conns : Client(c)
  \/ Serve
  \/ Watch
  \/ \E c \in Conns : Handler(c)
  \/ Signal
  \/ WaitReturns
  \/ Main

Spec == Init /\ [][Next]_vars

\* The runtime runs every goroutine that can run, and the grace timer fires.
\* Nothing is assumed of the clients or of the signal.
Fairness ==
  /\ WF_vars(Serve) /\ WF_vars(Watch) /\ WF_vars(WaitReturns) /\ WF_vars(Main)
  /\ \A c \in Conns : WF_vars(Handler(c))

FairSpec == Spec /\ Fairness

-----------------------------------------------------------------------------
\* Type invariant.  The WaitGroup's counter is the number of handlers that are
\* running, so it never goes negative (which would panic).
TypeOK ==
  /\ phase \in {"serving", "draining", "forced", "saving", "exiting", "down"}
  /\ listener \in {"unbound", "open", "closed"}
  /\ loop \in {"listen", "accept", "track", "register", "returned"}
  /\ current \in Conns \cup {None}
  /\ conns \subseteq Conns /\ closed \subseteq Conns /\ early \subseteq Conns
  /\ saved \subseteq applied /\ acked \subseteq applied
  /\ wg = Cardinality(Handlers)

\* A command executed for a connection that was being served when Shutdown was
\* called is in the final snapshot: Shutdown returns only after each of those
\* handlers has, forced or not, so none of them writes behind the save.
ServedWritesSaved ==
  phase = "exiting" => \A x \in applied : x[1] \in early => x \in saved

\* Shutdown's comment: those "still open after gracePeriod are force-closed so
\* their blocked Read() calls unblock and the handler goroutines can exit".
\* Once that has happened, and only handlers from before Shutdown are left, with
\* none on its way, the process exits whatever its clients do.
ForcedCloseEnds ==
  (/\ phase = "forced" /\ listener = "closed"
   /\ loop \notin {"track", "register"} /\ Handlers \subseteq early)
    ~> phase = "down"

\* README, Graceful shutdown: stop accepting, wait for or force-close in-flight
\* connections, then "Save a final snapshot" and exit.  So a write that any
\* client saw acknowledged is in the snapshot when the process has exited.
AckedWritesSaved ==
  phase = "exiting" => acked \subseteq saved

\* The same comment, without the proviso of ForcedCloseEnds.
ShutdownCompletes == signalled ~> phase = "down"
=============================================================================
