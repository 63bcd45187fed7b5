------------------------ MODULE EventsListenerProofs ------------------------
(***************************************************************************)
(* Proofs about EventsListener, for every set of subscribers and however     *)
(* many clients are made.                                                    *)
(***************************************************************************)
EXTENDS EventsListener, TLAPS

\* The types; the two flags are only ever read as truth values.
EvTypeOK ==
  /\ evSubs \subseteq EvSubscribers
  /\ evClients \in Nat /\ evSql \in 0..evClients
  /\ evLink \in {"down", "listening"}
  /\ evPending \subseteq 1..evClients /\ evHeard \subseteq 1..evClients
  /\ evRetry \in 0..evClients
  /\ evMissed \subseteq evSubs

\* A reconnect that is scheduled is one of the client in use: a torn down client
\* takes its timer with it.
RetryIsCurrent == evRetry \in {0, evSql}

\* A client in use listens or is about to, also without a subscriber.
ClientIsAlive == evSql # 0 => evLink = "listening" \/ evSql \in evPending \/ evRetry = evSql

\* Subscribers have a client.
ClientIsThere == evSubs # {} /\ ~evStopped => evSql # 0

EvInv ==
  /\ EvTypeOK /\ RetryIsCurrent /\ ClientIsAlive /\ ClientIsThere
  /\ EvNothingMissed /\ EvNoIdleConnection

----------------------------------------------------------------------------
\* The invariant holds at the start: there is no client.
LEMMA ListenerAtStart == EvInit => EvInv
  BY DEF EvInit, EvInv, EvTypeOK, RetryIsCurrent, ClientIsAlive, ClientIsThere,
         EvNothingMissed, EvNoIdleConnection

\* A subscriber that comes finds a client or makes one.
LEMMA SubscribeKeeps ==
  ASSUME EvInv, NEW s \in EvSubscribers, Subscribe(s) PROVE EvInv'
<1> USE DEF EvInv, EvTypeOK, RetryIsCurrent, ClientIsAlive, ClientIsThere,
            EvNothingMissed, EvNoIdleConnection
<1>1. CASE evSql = 0
  <2>1. /\ evSubs' = evSubs \union {s} /\ evMissed' = evMissed
        /\ evSql' = evClients + 1 /\ evClients' = evClients + 1
        /\ evPending' = evPending \union {evClients + 1} /\ evHeard' = evHeard
        /\ evLink' = "down" /\ evRetry' = evRetry
    BY <1>1 DEF Subscribe, Connect
  <2> QED BY <1>1, <2>1
<1>2. CASE evSql # 0
  <2>1. /\ evSubs' = evSubs \union {s}
        /\ UNCHANGED <<evMissed, evSql, evClients, evPending, evHeard, evLink, evRetry, evStopped>>
    BY <1>2 DEF Subscribe
  <2> QED BY <1>2, <2>1
<1> QED BY <1>1, <1>2

\* A subscriber that goes, or is not told of a change.
LEMMA SubscriberKeeps ==
  ASSUME EvInv, NEW s \in EvSubscribers, Unsubscribe(s) \/ Notified(s) PROVE EvInv'
<1> USE DEF EvInv, EvTypeOK, RetryIsCurrent, ClientIsAlive, ClientIsThere,
            EvNothingMissed, EvNoIdleConnection
<1>1. CASE Unsubscribe(s)
  BY <1>1 DEF Unsubscribe, IdleAfter
<1>2. CASE Notified(s)
  BY <1>2 DEF Notified
<1> QED BY <1>1, <1>2

\* stop, and the timers: who tears a client down has no subscriber, or is the last.
LEMMA TimersKeep ==
  ASSUME EvInv, Stop \/ IdleTimer \/ ReconnectTimer PROVE EvInv'
<1> USE DEF EvInv, EvTypeOK, RetryIsCurrent, ClientIsAlive, ClientIsThere,
            EvNothingMissed, EvNoIdleConnection
<1>1. CASE Stop
  BY <1>1 DEF Stop, Teardown
<1>2. CASE IdleTimer
  BY <1>2 DEF IdleTimer, Teardown
<1>3. CASE ReconnectTimer
  <2>1. evRetry = evSql /\ evSql # 0
    BY <1>3 DEF ReconnectTimer
  <2>2. CASE evSubs = {}
    <3>1. /\ evSql' = 0 /\ evRetry' = 0 /\ evLink' = "down"
          /\ UNCHANGED <<evSubs, evClients, evPending, evHeard, evIdle, evMissed, evStopped>>
      BY <1>3, <2>1, <2>2 DEF ReconnectTimer, Teardown
    <3> QED BY <2>2, <3>1
  <2>3. CASE evSubs # {}
    <3>1. /\ evRetry' = 0 /\ evPending' = evPending \union {evSql}
          /\ UNCHANGED <<evSql, evLink, evSubs, evClients, evHeard, evIdle, evMissed, evStopped>>
      BY <1>3, <2>1, <2>3 DEF ReconnectTimer
    <3> QED BY <2>1, <2>3, <3>1
  <2> QED BY <2>2, <2>3
<1> QED BY <1>1, <1>2, <1>3

\* The connection, lost or heard of: a loss leaves a reconnect behind.
LEMMA ConnectionKeeps ==
  ASSUME EvInv, Listens \/ LinkLost \/ (\E c \in evPending \union evHeard : ListenFails(c))
                \/ (\E c \in evHeard : ListenReturns(c))
  PROVE EvInv'
<1> USE DEF EvInv, EvTypeOK, RetryIsCurrent, ClientIsAlive, ClientIsThere,
            EvNothingMissed, EvNoIdleConnection
<1>1. CASE Listens
  BY <1>1 DEF Listens
<1>2. CASE LinkLost
  BY <1>2 DEF LinkLost, ConnectionLost
<1>3. ASSUME NEW c \in evPending \union evHeard, ListenFails(c) PROVE EvInv'
  <2>1. CASE c = evSql
    BY <1>3, <2>1 DEF ListenFails, ConnectionLost
  <2>2. CASE c # evSql
    BY <1>3, <2>2 DEF ListenFails, ConnectionLost
  <2> QED BY <2>1, <2>2
<1>4. ASSUME NEW c \in evHeard, ListenReturns(c) PROVE EvInv'
  <2>1. CASE c = evSql
    BY <1>4, <2>1 DEF ListenReturns, Broadcast
  <2>2. CASE c # evSql
    BY <1>4, <2>2 DEF ListenReturns, Broadcast
  <2> QED BY <2>1, <2>2
<1> QED BY <1>1, <1>2, <1>3, <1>4

----------------------------------------------------------------------------
\* The inductive invariant of the listener: its client, its timer and its awaits
\* agree about who will hear next.
THEOREM ListenerInductive == EvSpec => []EvInv
<1>1. ASSUME EvInv, [EvNext]_evVars PROVE EvInv'
  <2>1. CASE UNCHANGED evVars
    BY <1>1, <2>1
       DEF evVars, EvInv, EvTypeOK, RetryIsCurrent, ClientIsAlive, ClientIsThere,
           EvNothingMissed, EvNoIdleConnection
  <2>2. CASE EvNext
    BY <1>1, <2>2, SubscribeKeeps, SubscriberKeeps, TimersKeep, ConnectionKeeps DEF EvNext
  <2> QED BY <1>1, <2>1, <2>2
<1> QED BY ListenerAtStart, <1>1, PTL DEF EvSpec

\* While a stream is subscribed, the server listens, a LISTEN is on its way, or a
\* reconnect is scheduled (job-events.listener.ts:102-137).
THEOREM ListenerIsNeverDeaf == EvSpec => []EvNeverDeaf
<1>1. EvInv => EvNeverDeaf
  BY DEF EvInv, ClientIsAlive, ClientIsThere, EvNeverDeaf
<1> QED BY <1>1, ListenerInductive, PTL

\* Where nothing is on its way or scheduled, no subscriber missed a change
\* (job-events.listener.ts:98).
THEOREM ListenerMissesNothing == EvSpec => []EvNothingMissed
<1>1. EvInv => EvNothingMissed
  BY DEF EvInv
<1> QED BY <1>1, ListenerInductive, PTL

\* A connection that serves nobody has its idle timer armed
\* (job-events.listener.ts:119).
THEOREM ListenerIsNotIdle == EvSpec => []EvNoIdleConnection
<1>1. EvInv => EvNoIdleConnection
  BY DEF EvInv
<1> QED BY <1>1, ListenerInductive, PTL
=============================================================================
