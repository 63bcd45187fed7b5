--------------------------- MODULE EventsListener ---------------------------
(***************************************************************************)
(* The process-wide LISTEN of the API (job-events.listener.ts): one          *)
(* dedicated connection for all the streams, opened for the first subscriber *)
(* and closed a while after the last, listened to again after a loss.  Its   *)
(* handlers and timers run one at a time; what interleaves is the database,  *)
(* the network and the continuations of its awaits.                          *)
(***************************************************************************)
EXTENDS Integers, FiniteSets

CONSTANTS EvSubscribers,   \* subscriptions that may be made, each of them once or more
          EvMaxClients     \* bound: how many postgres clients are ever made

ASSUME EventsAssumption == EvMaxClients \in Nat \ {0}

VARIABLES
  evSubs,     \* subscribers
  evSql,      \* sql: the number of the current client, 0: null
  evClients,  \* clients made so far
  evLink,     \* the current client's connection: down, or listening at the server
  evPending,  \* clients with a LISTEN whose await has not returned
  evHeard,    \* clients whose LISTEN succeeded, the await being about to return
  evRetry,    \* reconnectTimer: the client its callback compares with, 0: none
  evIdle,     \* idleTimer is armed
  evMissed,   \* subscribers with a change they were not told of
  evStopped   \* stop() was called: the process shuts down

evVars == <<evSubs, evSql, evClients, evLink, evPending, evHeard, evRetry, evIdle,
            evMissed, evStopped>>

EvInit ==
  /\ evSubs = {} /\ evSql = 0 /\ evClients = 0
  /\ evLink = "down"
  /\ evPending = {} /\ evHeard = {}
  /\ evRetry = 0 /\ evIdle = FALSE
  /\ evMissed = {} /\ evStopped = FALSE

----------------------------------------------------------------------------
(* The listener's own operations, as functions of what it holds *)

\* connect and the first half of listen, up to its await
Connect ==
  /\ evSql' = evClients + 1 /\ evClients' = evClients + 1
  /\ evPending' = evPending \union {evClients + 1}
  /\ evLink' = "down"

Subscribe(s) ==
  /\ s \notin evSubs /\ ~evStopped
  /\ evSubs' = evSubs \union {s}
  /\ evIdle' = FALSE
  /\ IF evSql = 0
     THEN evClients < EvMaxClients /\ Connect
     ELSE UNCHANGED <<evSql, evClients, evPending, evLink>>
  /\ UNCHANGED <<evHeard, evRetry, evMissed, evStopped>>

\* The mutant of IdleAfter: who is left is counted before the entry is removed.
IdleBefore(s) == evIdle \/ evSubs = {}

\* scheduleIdleShutdown, when nobody is left; an armed timer stays.
IdleAfter(s) == evIdle \/ evSubs \ {s} = {}

Unsubscribe(s) ==
  /\ s \in evSubs
  /\ evSubs' = evSubs \ {s} /\ evMissed' = evMissed \ {s}
  /\ evIdle' = IdleAfter(s)
  /\ UNCHANGED <<evSql, evClients, evLink, evPending, evHeard, evRetry, evStopped>>

\* The mutant of Teardown: the reconnect timer of the client stays.
TeardownKeepsTimer ==
  /\ evSql' = 0 /\ evRetry' = evRetry /\ evLink' = "down"

\* teardown up to its await: nothing is left of the client but its awaits.
Teardown ==
  /\ evSql' = 0 /\ evRetry' = 0 /\ evLink' = "down"

Stop ==
  /\ ~evStopped
  /\ evStopped' = TRUE /\ evIdle' = FALSE
  /\ Teardown
  /\ UNCHANGED <<evSubs, evClients, evPending, evHeard, evMissed>>

IdleTimer ==
  /\ evIdle
  /\ evIdle' = FALSE
  /\ IF evSubs = {} THEN Teardown ELSE UNCHANGED <<evSql, evRetry, evLink>>
  /\ UNCHANGED <<evSubs, evClients, evPending, evHeard, evMissed, evStopped>>

\* handleConnectionLost: one timer at a time, for the current client only.
ConnectionLost(c) == IF evSql # c \/ evRetry # 0 THEN evRetry ELSE c

\* The callback: torn down without subscribers, else LISTEN again.
ReconnectTimer ==
  /\ evRetry # 0
  /\ IF evSql # evRetry
     THEN evRetry' = 0 /\ UNCHANGED <<evSql, evLink, evPending>>
     ELSE IF evSubs = {} THEN Teardown /\ UNCHANGED evPending
     ELSE evRetry' = 0 /\ evPending' = evPending \union {evSql} /\ UNCHANGED <<evSql, evLink>>
  /\ UNCHANGED <<evSubs, evClients, evHeard, evIdle, evMissed, evStopped>>

----------------------------------------------------------------------------
(* The connection.  The client opens it for a query; it may be lost at any   *)
(* moment, which its onclose reports, while a LISTEN is on its way or not.   *)

\* The server executes a LISTEN that is on its way: changes are told from now on.
Listens ==
  /\ evSql \in evPending
  /\ evPending' = evPending \ {evSql} /\ evHeard' = evHeard \union {evSql}
  /\ evLink' = "listening"
  /\ UNCHANGED <<evSubs, evSql, evClients, evRetry, evIdle, evMissed, evStopped>>

\* onclose.  Notifications that were under way are lost; a LISTEN that was may
\* fail before, or after.
LinkLost ==
  /\ evSql # 0
  /\ evLink' = "down"
  /\ evRetry' = ConnectionLost(evSql)
  /\ \E lost \in SUBSET evSubs :
       /\ evLink = "listening" \/ lost = {}
       /\ evMissed' = evMissed \union lost
  /\ UNCHANGED <<evSubs, evSql, evClients, evPending, evHeard, evIdle, evStopped>>

\* The await of a LISTEN throws: not executed, or its answer lost with the
\* connection.  A client that was replaced is ignored.
ListenFails(c) ==
  /\ \/ c \in evPending
     \/ c \in evHeard /\ (c # evSql \/ evLink = "down")
  /\ evPending' = evPending \ {c} /\ evHeard' = evHeard \ {c}
  /\ evRetry' = ConnectionLost(c)
  /\ UNCHANGED <<evSubs, evSql, evClients, evLink, evIdle, evMissed, evStopped>>

\* The mutant of Broadcast: who listens already is not told again.
NoBroadcast(c) == evMissed

\* What a client that (re)connected leaves unnoticed: everyone is poked.
Broadcast(c) == IF evSql = c THEN {} ELSE evMissed

\* The await of a LISTEN returns.
ListenReturns(c) ==
  /\ c \in evHeard
  /\ evHeard' = evHeard \ {c}
  /\ evMissed' = Broadcast(c)
  /\ UNCHANGED <<evSubs, evSql, evClients, evLink, evPending, evRetry, evIdle, evStopped>>

\* A job changes: dispatch tells its subscriber if the server listens.
Notified(s) ==
  /\ s \in evSubs /\ s \notin evMissed /\ evLink # "listening"
  /\ evMissed' = evMissed \union {s}
  /\ UNCHANGED <<evSubs, evSql, evClients, evLink, evPending, evHeard, evRetry, evIdle, evStopped>>

EvNext ==
  \/ \E s \in EvSubscribers : Subscribe(s) \/ Unsubscribe(s) \/ Notified(s)
  \/ \E c \in evPending \union evHeard : ListenFails(c)
  \/ \E c \in evHeard : ListenReturns(c)
  \/ Stop \/ IdleTimer \/ ReconnectTimer \/ Listens \/ LinkLost

EvSpec == EvInit /\ [][EvNext]_evVars
----------------------------------------------------------------------------
(* Properties *)

\* While a stream is subscribed and the process is not shutting down, somebody
\* is at work on hearing about its job: the server listens, a LISTEN is on its
\* way, or a reconnect is scheduled, whatever was lost, torn down or subscribed
\* in between (job-events.listener.ts:102-137).
EvNeverDeaf ==
  evSubs # {} /\ ~evStopped =>
    evSql # 0 /\ (evLink = "listening" \/ evSql \in evPending \/ evRetry = evSql)

\* Where nothing is on its way or scheduled, every subscriber was told, or poked,
\* after each change of its job (job-events.listener.ts:98).
EvNothingMissed ==
  ~evStopped /\ evSql \notin evPending \union evHeard /\ evRetry = 0 =>
    evMissed = {}

\* A connection that serves nobody is about to be closed: the idle timer is armed
\* in whatever order subscribers came, went and were reconnected
\* (job-events.listener.ts:119).
EvNoIdleConnection == evSubs = {} /\ evSql # 0 => evIdle
=============================================================================
