----------------------------- MODULE HltbPermit -----------------------------
(***************************************************************************)
(* The permit to call HowLongToBeat (hltb_provider_state): one row that the  *)
(* processes of the API and its scripts share, so that one request at a time *)
(* goes out, some time after the one before, and none while the provider     *)
(* asked to be left alone (hltb.client.ts, hltb.repository.ts).              *)
(***************************************************************************)
EXTENDS Integers

CONSTANTS PmOwners,        \* requests, each with its own owner id
          PmLease,         \* how long a permit lasts (15 s)
          PmTimeout,       \* how long a request may take, its body included (10 s)
          PmSpacing,       \* the pause before the next permit (500 ms)
          PmWaits,         \* how far ahead a refused request waits for (1 s)
          PmCooldowns,     \* cooldowns a response or a failure asks for
          PmMaxTime        \* bound on the clock

ASSUME PermitAssumption ==
  /\ PmLease \in Nat /\ PmTimeout \in Nat /\ PmTimeout < PmLease
  /\ PmSpacing \in Nat /\ PmWaits \in Nat /\ PmMaxTime \in Nat
  /\ PmCooldowns \subseteq Nat
  /\ "free" \notin PmOwners

VARIABLES
  pmNow,      \* the clock
  pmOwner, pmUntil, pmNext, pmCooldown,  \* the row: lease, next request, cooldown (0: null)
  pmPc,       \* how far a request is
  pmGot, pmBegan, \* when it got its permit and began to call
  pmRetry     \* until when it waits, or was told to wait

pmRow == <<pmOwner, pmUntil, pmNext, pmCooldown>>
pmVars == <<pmNow, pmRow, pmPc, pmGot, pmBegan, pmRetry>>

PmInit ==
  /\ pmNow = 0
  /\ pmOwner = "free" /\ pmUntil = 0 /\ pmNext = 0 /\ pmCooldown = 0
  /\ pmPc = [o \in PmOwners |-> "new"]
  /\ pmGot = [o \in PmOwners |-> -PmSpacing]
  /\ pmBegan = [o \in PmOwners |-> 0]
  /\ pmRetry = [o \in PmOwners |-> 0]

----------------------------------------------------------------------------
Latest(a, b) == IF a > b THEN a ELSE b

\* The WHERE of acquireProviderPermit.
Available ==
  /\ pmOwner = "free" \/ pmUntil <= pmNow
  /\ pmCooldown <= pmNow
  /\ pmNext <= pmNow

\* A request asks for a permit when it starts, and again after its wait.
Asks(o) == pmPc[o] = "new" \/ (pmPc[o] = "waiting" /\ pmRetry[o] <= pmNow)
Becomes(o, pc) == pmPc' = [pmPc EXCEPT ![o] = pc]

Acquire(o) ==
  /\ Asks(o) /\ Available
  /\ pmOwner' = o /\ pmUntil' = pmNow + PmLease /\ pmNext' = pmNow + PmSpacing
  /\ Becomes(o, "permitted")
  /\ pmGot' = [pmGot EXCEPT ![o] = pmNow]
  /\ UNCHANGED <<pmNow, pmCooldown, pmBegan, pmRetry>>

RetryAt == Latest(pmNext, Latest(pmCooldown, IF pmOwner = "free" THEN 0 ELSE pmUntil))

\* A first refusal that is short is waited for, a second one or a long one ends
\* the request.
Refused(o) ==
  /\ Asks(o) /\ ~Available
  /\ IF pmPc[o] = "new" /\ RetryAt - pmNow <= PmWaits
     THEN Becomes(o, "waiting") /\ pmRetry' = [pmRetry EXCEPT ![o] = RetryAt]
     ELSE Becomes(o, "over") /\ UNCHANGED pmRetry
  /\ UNCHANGED <<pmNow, pmRow, pmGot, pmBegan>>

\* fetch begins, and with it the timeout: at once, unless the process is
\* suspended after its permit was given.
Begin(o) ==
  /\ pmPc[o] = "permitted" /\ Becomes(o, "calling")
  /\ pmBegan' = [pmBegan EXCEPT ![o] = pmNow]
  /\ UNCHANGED <<pmNow, pmRow, pmGot, pmRetry>>

\* The response, read to its end, or the failure; the answer may ask for a
\* cooldown (0: none).
Answer(o, wait) ==
  /\ pmPc[o] = "calling" /\ Becomes(o, "answered")
  /\ pmRetry' = [pmRetry EXCEPT ![o] = IF wait = 0 THEN 0 ELSE pmNow + wait]
  /\ UNCHANGED <<pmNow, pmRow, pmGot, pmBegan>>

\* The mutant of Extended: a late, shorter cooldown replaces a longer one.
Replaced(cooldown, until) == IF until = 0 THEN cooldown ELSE until

\* greatest(coalesce(cooldown, until), until)
Extended(cooldown, until) == Latest(cooldown, until)

\* The mutant of Returns: whoever releases ends the lease.
ReturnsAnyway(o) == TRUE

\* Only the owner's lease ends: a late request must not end its successor's.
Returns(o) == pmOwner = o

ReleasePermit(o) ==
  /\ pmPc[o] = "answered" /\ Becomes(o, "released")
  /\ pmOwner' = IF Returns(o) THEN "free" ELSE pmOwner
  /\ pmUntil' = IF Returns(o) THEN 0 ELSE pmUntil
  /\ pmCooldown' = Extended(pmCooldown, pmRetry[o])
  /\ UNCHANGED <<pmNow, pmNext, pmGot, pmBegan, pmRetry>>

\* The caller of the request cannot read what it returned: deferProvider.
Defer(o, wait) ==
  /\ pmPc[o] = "released" /\ pmRetry[o] = 0 /\ wait # 0
  /\ Becomes(o, "over")
  /\ pmCooldown' = Extended(pmCooldown, pmNow + wait)
  /\ pmRetry' = [pmRetry EXCEPT ![o] = pmNow + wait]
  /\ UNCHANGED <<pmNow, pmOwner, pmUntil, pmNext, pmGot, pmBegan>>

\* The process dies; what is left of its permit is the lease.
Dies(o) ==
  /\ pmPc[o] \in {"permitted", "calling", "answered"} /\ Becomes(o, "dead")
  /\ UNCHANGED <<pmNow, pmRow, pmGot, pmBegan, pmRetry>>

\* Time passes; a call is aborted at its timeout at the latest.
PmTick ==
  /\ pmNow < PmMaxTime
  /\ \A o \in PmOwners : pmPc[o] = "calling" => pmNow < pmBegan[o] + PmTimeout
  /\ pmNow' = pmNow + 1
  /\ UNCHANGED <<pmRow, pmPc, pmGot, pmBegan, pmRetry>>

PmNext ==
  \/ \E o \in PmOwners : Acquire(o) \/ Refused(o) \/ Begin(o) \/ ReleasePermit(o) \/ Dies(o)
  \/ \E o \in PmOwners, wait \in PmCooldowns : Answer(o, wait) \/ Defer(o, wait)
  \/ PmTick

PmSpec == PmInit /\ [][PmNext]_pmVars
----------------------------------------------------------------------------
(* Properties *)

\* Of two calls to the provider at once, one began so long after its permit that
\* its lease could run out: a process that is not suspended in between is alone,
\* whatever releases come late (hltb.repository.ts:101-109).
PmExclusive ==
  \A o, p \in PmOwners :
    o # p /\ pmPc[o] = "calling" /\ pmPc[p] = "calling" =>
      \E q \in {o, p} : pmBegan[q] - pmGot[q] >= PmLease - PmTimeout

\* A permit is given when every time has passed that an answer told to wait for,
\* in whatever order the answers were recorded, and not before the pause since
\* every permit before (hltb.repository.ts:91-96 and 107). An answer nobody has
\* recorded yet does not count.
PmPolite ==
  [][\A o, p \in PmOwners : pmPc[o] # "permitted" /\ pmPc'[o] = "permitted" =>
       /\ pmNow >= pmGot[p] + PmSpacing
       /\ pmPc[p] \in {"released", "over"} => pmNow >= pmRetry[p]]_pmVars
=============================================================================
