------------------------------- MODULE JobStream -------------------------------
(***************************************************************************)
(* One open Server-Sent Events connection of the jobs dashboard            *)
(* (apps/api/src/modules/jobs/dashboard/stream/job-stream.ts): the log     *)
(* cursor, the coalesced refreshes, backpressure and the ways a stream     *)
(* ends; and what it reads, the job's row and its job_logs, as the worker  *)
(* writes them (apps/worker/src/queue.rs).                                 *)
(*                                                                         *)
(* JavaScript runs a callback to its next await without interruption, so   *)
(* an action is one callback, or what follows one await.  A read of two    *)
(* queries is two actions.  The wire is the response's buffer and the      *)
(* network together: what the server wrote and the browser has not taken.  *)
(*                                                                         *)
(* The status "running" stands for queued and running, "failed" for failed *)
(* and cancelled; version counts the row's visible changes, so two rows    *)
(* are equal exactly when their snapshotKey is.                            *)
(***************************************************************************)
EXTENDS Integers, Sequences, FiniteSets

CONSTANTS
    None,         \* null
    BatchSize,    \* options.batchSize: logs per read
    HighWater,    \* chunks on the wire from which write() returns false
    MaxVersion,   \* bound: changes of the row
    MaxLog,       \* bound: log ids
    MaxFaults     \* bound: everything that goes wrong, and keep-alive pings

Statuses == {"running", "succeeded", "failed"}
Rows == [status : Statuses, version : Nat]

ASSUME StreamAssumption ==
    /\ BatchSize \in Nat \ {0} /\ HighWater \in Nat \ {0}
    /\ MaxVersion \in Nat /\ MaxLog \in Nat /\ MaxFaults \in Nat
    /\ None \notin Nat /\ None \notin Rows

VARIABLES
    \* the row of the job: [status, version]; times it was retried
    row, retries,
    \* committed log ids; those committed by a run that no longer held the job;
    \* the line the holder is inserting; the line of a run that lost the job;
    \* the next value of the bigserial
    log, late, inserting, stray, nextId,
    \* the stream, and the chunks the browser has not taken
    stream, wire,
    \* whether the stream has yet to hear of a committed change: "none", "due"
    \* (a notification is on its way), "missed" (it was lost, or came too early)
    wakes,
    faults

source == <<row, retries, log, late, inserting, stray, nextId>>
server == <<stream, wire, wakes>>

-----------------------------------------------------------------------------
(* Rows and log lines *)

Terminal(job) == job.status # "running"

FirstOf(S, n) == {x \in S : Cardinality({y \in S : y < x}) < n}
LastOf(S, n) == {x \in S : Cardinality({y \in S : y > x}) < n}
Greatest(S) == CHOOSE x \in S : \A y \in S : y <= x

Ascending(S) ==
    [i \in 1..Cardinality(S) |-> CHOOSE x \in S : Cardinality({y \in S : y < x}) = i - 1]

\* listLogs
LogsAfter(cursor, limit) == FirstOf({l \in log : l > cursor}, limit)

\* the second query of findJobWithLogsAfter: without a cursor, the last lines
Backlog(cursor) ==
    IF cursor = None THEN LastOf(log, BatchSize) ELSE LogsAfter(cursor, BatchSize)

Fault == faults < MaxFaults /\ faults' = faults + 1

-----------------------------------------------------------------------------
(* What the worker and other users of the API do to the row and its log *)

\* pg_notify: a stream that still reads has not subscribed yet
Notify ==
    /\ wakes' = CASE stream.phase = "open" -> "due"
                  [] stream.phase = "opening" -> "missed"
                  [] OTHER -> wakes
    /\ UNCHANGED <<stream, wire>>

Change(status) == row' = [status |-> status, version |-> row.version + 1] /\ Notify

CanChange == row.version < MaxVersion

\* a claim, progress, a checkpoint, a request to cancel
Progress ==
    /\ ~Terminal(row) /\ CanChange
    /\ Change("running")
    /\ UNCHANGED <<retries, log, late, inserting, stray, nextId, faults>>

\* the statement draws its id, and commits later; one at a time in a run
BeginLog ==
    /\ ~Terminal(row) /\ inserting = None /\ nextId <= MaxLog
    /\ inserting' = nextId
    /\ nextId' = nextId + 1
    /\ UNCHANGED <<row, retries, log, late, stray, server, faults>>

CommitLog ==
    /\ inserting # None
    /\ log' = log \cup {inserting}
    /\ inserting' = None
    /\ Notify
    /\ UNCHANGED <<row, retries, late, stray, nextId, faults>>

\* The reaper takes the job from a run that is inserting a line and writes a
\* line of its own in the same statement.
Reap ==
    /\ inserting # None /\ stray = None /\ CanChange /\ nextId <= MaxLog /\ Fault
    /\ stray' = inserting /\ inserting' = None
    /\ Change("running")
    /\ log' = log \cup {nextId}
    /\ nextId' = nextId + 1
    /\ UNCHANGED <<retries, late>>

CommitStray ==
    /\ stray # None
    /\ log' = log \cup {stray} /\ late' = late \cup {stray}
    /\ stray' = None
    /\ Notify
    /\ UNCHANGED <<row, retries, inserting, nextId, faults>>

\* mutant of Finish: the final status is committed before its log line
FinishBeforeLine(status) ==
    /\ ~Terminal(row) /\ inserting = None /\ CanChange /\ nextId <= MaxLog
    /\ Change(status)
    /\ inserting' = nextId
    /\ nextId' = nextId + 1
    /\ UNCHANGED <<retries, log, late, stray, faults>>

\* the final status and its log line, in one transaction
Finish(status) ==
    /\ ~Terminal(row) /\ inserting = None /\ CanChange /\ nextId <= MaxLog
    /\ Change(status)
    /\ log' = log \cup {nextId}
    /\ nextId' = nextId + 1
    /\ UNCHANGED <<retries, late, inserting, stray, faults>>

\* a retry from elsewhere in the dashboard
RetryRow ==
    /\ row.status = "failed" /\ CanChange
    /\ Change("running")
    /\ retries' = retries + 1
    /\ UNCHANGED <<log, late, inserting, stray, nextId, faults>>

SourceNext ==
    \/ Progress \/ BeginLog \/ CommitLog \/ Reap \/ CommitStray \/ RetryRow
    \/ \E status \in Statuses \ {"running"} : Finish(status)

-----------------------------------------------------------------------------
(* The stream.  phase: none (also: closed), opening (the route's handler   *)
(* reads, nothing is written), open.  fetch: no, or the next step of the   *)
(* read in progress.  job and page are what that read has returned.        *)

NoStream ==
    [phase |-> "none", paused |-> FALSE, pending |-> FALSE, timer |-> FALSE,
     fetch |-> "no", job |-> None, page |-> {}, cursor |-> None, key |-> None]

\* StreamJobHandler.handle, before its first query
Open(after) ==
    /\ stream' = [NoStream EXCEPT !.phase = "opening", !.fetch = "job", !.cursor = after]
    /\ wire' = <<>> /\ wakes' = "none"

\* the browser closed the connection, or it broke: close()
Hangup == stream' = NoStream /\ wire' = <<>> /\ wakes' = "none"

\* mutant of RequestRefresh: a call during a read or a pause is dropped
RequestRefreshDropped(s) ==
    IF s.paused \/ s.fetch # "no" THEN s ELSE [s EXCEPT !.timer = TRUE]

RequestRefresh(s) ==
    IF s.paused \/ s.fetch # "no"
      THEN [s EXCEPT !.pending = TRUE]
      ELSE [s EXCEPT !.timer = TRUE]

\* the subscription calls back
Notified ==
    /\ wakes = "due"
    /\ stream' = RequestRefresh(stream)
    /\ wakes' = "none"
    /\ UNCHANGED <<source, wire, faults>>

\* the listener's connection was down
NotificationLost ==
    /\ wakes = "due"
    /\ Fault
    /\ wakes' = "missed"
    /\ UNCHANGED <<source, stream, wire>>

\* the poll of every 2 s, or the listener's broadcast after a reconnect
Poll ==
    /\ stream.phase = "open"
    /\ stream' = RequestRefresh(stream)
    /\ UNCHANGED <<source, wire, wakes, faults>>

\* the debounce timer fires: refresh up to its await
Refresh ==
    /\ stream.timer
    /\ stream' = IF stream.paused
                   THEN [stream EXCEPT !.timer = FALSE, !.pending = TRUE]
                   ELSE [stream EXCEPT !.timer = FALSE, !.pending = FALSE, !.fetch = "job"]
    /\ wakes' = IF ~stream.paused /\ wakes = "missed" THEN "none" ELSE wakes
    /\ UNCHANGED <<source, wire, faults>>

\* findJobWithLogsAfter: the job first, the logs second
ReadJob ==
    /\ stream.fetch = "job"
    /\ stream' = [stream EXCEPT !.fetch = "logs", !.job = row]
    /\ UNCHANGED <<source, wire, wakes, faults>>

ReadLogs ==
    /\ stream.fetch = "logs"
    /\ stream' = [stream EXCEPT !.fetch = "apply", !.page = Backlog(stream.cursor)]
    /\ UNCHANGED <<source, wire, wakes, faults>>

\* the next notification or poll retries
ReadFails ==
    /\ stream.phase = "open" /\ stream.fetch \in {"job", "logs"}
    /\ Fault
    /\ stream' = [stream EXCEPT !.fetch = "no", !.job = None]
    /\ wakes' = IF wakes = "none" THEN "missed" ELSE wakes
    /\ UNCHANGED <<source, wire>>

Full(w) == Len(w) >= HighWater

\* mutant of NextCursor: lines that were read but not written count as sent
NextCursorRead(s, written, page) ==
    IF page # {} THEN Greatest(page) ELSE IF s.cursor = None THEN 0 ELSE s.cursor

\* mutant of NextCursor: a stream without lines keeps the cursor null
NextCursorNull(s, written, page) == IF written # {} THEN Greatest(written) ELSE s.cursor

\* the cursor moves with the lines handed to the sink
NextCursor(s, written, page) ==
    IF written # {} THEN Greatest(written) ELSE IF s.cursor = None THEN 0 ELSE s.cursor

MoreLogs(written, page) == written # page \/ Cardinality(page) >= BatchSize

\* What apply(job, logs) makes of a stream and its wire.  write() of a chunk
\* that fills the buffer pauses the stream; the chunk itself is sent.
Apply(s, w, job, page) ==
    LET snapshot == job # s.key /\ ~s.paused
        w1 == IF snapshot THEN Append(w, <<"snapshot", job>>) ELSE w
        room == IF s.paused \/ Full(w1) THEN 0 ELSE HighWater - Len(w1)
        written == FirstOf(page, room)
        lines == Ascending(written)
        w2 == w1 \o [i \in DOMAIN lines |-> <<"log", lines[i]>>]
        paused == s.paused \/ Full(w2)
        key == IF snapshot THEN job ELSE s.key
        next == [s EXCEPT !.phase = "open", !.fetch = "no", !.job = None, !.page = {},
                          !.key = key, !.paused = paused,
                          !.cursor = NextCursor(s, written, page)]
    IN  IF paused
          THEN [stream |-> [next EXCEPT !.pending = TRUE], wire |-> w2]
          ELSE IF Terminal(job) /\ ~MoreLogs(written, page) /\ job = key
            THEN [stream |-> NoStream, wire |-> w2 \o << <<"done">>, <<"end">> >>]
            ELSE [stream |-> IF MoreLogs(written, page) \/ s.pending THEN RequestRefresh(next) ELSE next,
                  wire |-> w2]

\* a step to what Apply returned; a closed stream waits for nothing
Becomes(result) ==
    /\ stream' = result.stream /\ wire' = result.wire
    /\ wakes' = IF result.stream.phase = "none" THEN "none" ELSE wakes

\* refresh after its await
ApplyRead ==
    /\ stream.phase = "open" /\ stream.fetch = "apply"
    /\ Becomes(Apply(stream, wire, stream.job, stream.page))
    /\ UNCHANGED <<source, faults>>

\* start: the retry hint, the subscription and the timers, the initial read
Start ==
    /\ stream.phase = "opening" /\ stream.fetch = "apply"
    /\ LET w == << <<"retry">> >>
       IN  Becomes(Apply([stream EXCEPT !.paused = Full(w)], w, stream.job, stream.page))
    /\ UNCHANGED <<source, faults>>

\* keep-alive
Ping ==
    /\ stream.phase = "open" /\ ~stream.paused
    /\ Fault
    /\ wire' = Append(wire, <<"ping">>)
    /\ stream' = [stream EXCEPT !.paused = Full(wire')]
    /\ UNCHANGED <<source, wakes>>

\* the drain event of the response: resume
Resume ==
    /\ stream.paused /\ wire = <<>>
    /\ stream' = RequestRefresh([stream EXCEPT !.paused = FALSE])
    /\ UNCHANGED <<source, wire, wakes, faults>>

\* finish() of the lifetime timer, of the drain timer and of preClose
FinishStream ==
    /\ stream.phase = "open"
    /\ Fault
    /\ stream' = NoStream /\ wakes' = "none"
    /\ wire' = Append(wire, <<"end">>)
    /\ UNCHANGED source

StreamNext ==
    \/ Notified \/ NotificationLost \/ Poll \/ Refresh \/ ReadJob \/ ReadLogs \/ ReadFails \/ ApplyRead \/ Start
    \/ Ping \/ Resume \/ FinishStream

=============================================================================
