------------------------------ MODULE JobLiveView ------------------------------
(***************************************************************************)
(* The live page of one job: the browser's session                        *)
(* (apps/web/src/app/dashboard/jobs/hooks/useJobStream.ts), what it puts   *)
(* on the screen ([id]/JobLiveView.tsx) and the stream of module JobStream *)
(* it is connected to.                                                     *)
(*                                                                         *)
(* A session is in one place:                                              *)
(*   mint     about to ask for a stream token (also: the retry timer runs) *)
(*   open     an EventSource exists                                        *)
(*   drain    "done" was heard, the final state is being fetched           *)
(*   tick     the polling timer runs                                       *)
(*   fetch    a poll is in flight                                          *)
(*   over     nothing will happen any more                                 *)
(*   denied   the same, after a refusal the page reports                   *)
(* ended is conn === "ended", which the hook also reports while a finished  *)
(* job's remaining lines are fetched.                                      *)
(***************************************************************************)
EXTENDS JobStream

CONSTANTS
    PageSize,     \* LOG_PAGE_SIZE, MAX_LOGS_PER_REQUEST
    MaxInitial,   \* bound: log lines there are when the page opens
    MaxLines,     \* MAX_LINES
    MaxFailed,    \* MAX_FAILED_CONNECTIONS
    MaxClicks     \* bound: cancels and retries from this page, which MaxFaults
                  \* counts too

ASSUME ViewAssumption ==
    /\ PageSize \in Nat \ {0} /\ MaxLines \in Nat \ {0}
    /\ MaxFailed \in Nat \ {0} /\ MaxClicks \in Nat /\ MaxInitial \in 0..MaxLog

VARIABLES
    \* the session: [pc, ended, heard, failed, last, sseUnavailable]; heard is
    \* heardAny of the EventSource, last the highest log id received
    session,
    \* the request of a drain or a poll in flight: [step, job, page]
    request,
    \* what waits for the next animation frame, and what is on the screen
    queued, view,
    \* an action of the user in flight: [step, kind, ended, answer], where ended
    \* is the conn === "ended" of the render the button belonged to
    action, clicks

browser == <<session, request, queued, view>>
user == <<action, clicks>>
vars == <<source, server, faults, browser, user>>

-----------------------------------------------------------------------------

NoRequest == [step |-> "none", job |-> None, page |-> {}]
NewRequest == [NoRequest EXCEPT !.step = "job"]
NoAction == [step |-> "none", kind |-> None, ended |-> FALSE, answer |-> None]
NothingQueued == [job |-> None, lines |-> <<>>, dropped |-> 0]

Active(job) == ~Terminal(job)

\* the last MaxLines of a sequence, and how many go
Kept(lines) ==
    SubSeq(lines, IF Len(lines) > MaxLines THEN Len(lines) - MaxLines + 1 ELSE 1, Len(lines))
Over(lines) == IF Len(lines) > MaxLines THEN Len(lines) - MaxLines ELSE 0

AppendLines(v, lines, dropped) ==
    LET all == v.lines \o lines
    IN  [v EXCEPT !.lines = Kept(all), !.hidden = @ + dropped + Over(all)]

\* the page opens: the first PageSize lines, and a session if the job is
\* active or the page of lines is full
Init ==
    /\ \E status \in {"running", "failed"}, n \in 0..MaxInitial :
          /\ row = [status |-> status, version |-> 0]
          /\ log = 1..n /\ nextId = n + 1
    /\ retries = 0 /\ late = {} /\ inserting = None /\ stray = None
    /\ stream = NoStream /\ wire = <<>> /\ wakes = "none"
    /\ faults = 0
    /\ LET page == FirstOf(log, PageSize)
       IN  /\ view = AppendLines([job |-> row, lines |-> <<>>, hidden |-> 0], Ascending(page), 0)
           /\ session = [pc |-> IF Active(row) THEN "mint"
                                ELSE IF Cardinality(page) >= PageSize THEN "tick" ELSE "over",
                         ended |-> Terminal(row), heard |-> FALSE, failed |-> 0, sseUnavailable |-> FALSE,
                         last |-> IF page = {} THEN None ELSE Greatest(page)]
    /\ request = NoRequest /\ queued = NothingQueued
    /\ action = NoAction /\ clicks = 0

-----------------------------------------------------------------------------
(* Updates: onJob and onLogs queue them, an animation frame shows them *)

\* emitLogs keeps the lines above the last id
Fresh(S) == IF session.last = None THEN S ELSE {l \in S : l > session.last}

Last(S) == IF Fresh(S) = {} THEN session.last ELSE Greatest(Fresh(S))

QueueLines(q, S) ==
    LET all == q.lines \o Ascending(S)
    IN  [q EXCEPT !.lines = Kept(all), !.dropped = @ + Over(all)]

\* onJob(job), then emitLogs(lines)
Deliver(job, lines) ==
    queued' = QueueLines([queued EXCEPT !.job = job], Fresh(lines))

Frame ==
    /\ queued # NothingQueued
    /\ view' = LET v == AppendLines(view, queued.lines, queued.dropped)
               IN  IF queued.job = None THEN v ELSE [v EXCEPT !.job = queued.job]
    /\ queued' = NothingQueued
    /\ UNCHANGED <<source, server, faults, session, request, user>>

-----------------------------------------------------------------------------
(* The session over Server-Sent Events *)

\* createJobStreamAction, and the EventSource of its answer
Connect ==
    /\ session.pc = "mint"
    /\ Open(session.last)
    /\ session' = [session EXCEPT !.pc = "open", !.ended = FALSE, !.heard = FALSE]
    /\ UNCHANGED <<source, faults, request, queued, view, user>>

\* the API refuses a token: poll, here and in later sessions of the page; or it
\* has no such job, which ends the session
Refused ==
    /\ session.pc = "mint"
    /\ Fault
    /\ \/ session' = [session EXCEPT !.pc = "tick", !.ended = FALSE, !.sseUnavailable = TRUE]
       \/ session' = [session EXCEPT !.pc = "denied", !.ended = TRUE]
    /\ UNCHANGED <<source, server, request, queued, view, user>>

\* a connection that delivered no event
ConnectionFailed(s) ==
    IF s.failed + 1 >= MaxFailed
      THEN [s EXCEPT !.failed = s.failed + 1, !.pc = "tick"]
      ELSE [s EXCEPT !.failed = s.failed + 1, !.pc = "mint"]

\* scheduleReconnect, or connectionFailed
OnError(s) == IF s.heard THEN [s EXCEPT !.pc = "mint"] ELSE ConnectionFailed(s)

\* the token request does not reach the API
Unreachable ==
    /\ session.pc = "mint"
    /\ Fault
    /\ session' = ConnectionFailed(session)
    /\ UNCHANGED <<source, server, request, queued, view, user>>

\* the connection breaks, or the route answers with an error
Broken ==
    /\ session.pc = "open"
    /\ Fault
    /\ Hangup
    /\ session' = OnError(session)
    /\ UNCHANGED <<source, request, queued, view, user>>

Heard(s) == [s EXCEPT !.heard = TRUE, !.failed = IF s.heard THEN @ ELSE 0]

\* the next chunk reaches the EventSource
Receive ==
    /\ session.pc = "open" /\ wire # <<>>
    /\ LET chunk == Head(wire)
       IN  CASE chunk[1] = "snapshot" ->
                  /\ session' = Heard(session)
                  /\ queued' = [queued EXCEPT !.job = chunk[2]]
                  /\ wire' = Tail(wire)
                  /\ UNCHANGED <<stream, wakes, request>>
             [] chunk[1] = "log" ->
                  /\ session' = [Heard(session) EXCEPT !.last = Last({chunk[2]})]
                  /\ queued' = QueueLines(queued, Fresh({chunk[2]}))
                  /\ wire' = Tail(wire)
                  /\ UNCHANGED <<stream, wakes, request>>
             [] chunk[1] = "done" ->
                  /\ session' = [session EXCEPT !.pc = "drain", !.ended = TRUE]
                  /\ request' = NewRequest
                  /\ Hangup
                  /\ UNCHANGED queued
             [] chunk[1] = "end" ->
                  /\ session' = OnError(session)
                  /\ Hangup
                  /\ UNCHANGED <<request, queued>>
             [] OTHER ->
                  /\ wire' = Tail(wire)
                  /\ UNCHANGED <<session, stream, wakes, request, queued>>
    /\ UNCHANGED <<source, faults, view, user>>

-----------------------------------------------------------------------------
(* fetchLive: GET .../live, GetJobHandler's two queries, its answer *)

\* the polling timer fires
Tick ==
    /\ session.pc = "tick"
    /\ session' = [session EXCEPT !.pc = "fetch"]
    /\ request' = NewRequest
    /\ UNCHANGED <<source, server, faults, queued, view, user>>

RequestJob ==
    /\ request.step = "job"
    /\ request' = [request EXCEPT !.step = "logs", !.job = row]
    /\ UNCHANGED <<source, server, faults, session, queued, view, user>>

RequestLogs ==
    /\ request.step = "logs"
    /\ request' = [request EXCEPT !.step = "answer",
                     !.page = LogsAfter(IF session.last = None THEN 0 ELSE session.last,
                                        PageSize)]
    /\ UNCHANGED <<source, server, faults, session, queued, view, user>>

FullPage == Cardinality(request.page) >= PageSize

\* mutant of PollAnswered: a full page is not followed by another request
PollAnsweredOnce ==
    /\ session.pc = "fetch" /\ request.step = "answer"
    /\ Deliver(request.job, request.page)
    /\ session' = [session EXCEPT !.last = Last(request.page),
                     !.pc = IF Active(request.job) THEN "tick" ELSE "over",
                     !.ended = Terminal(request.job)]
    /\ request' = NoRequest
    /\ UNCHANGED <<source, server, faults, view, user>>

PollAnswered ==
    /\ session.pc = "fetch" /\ request.step = "answer"
    /\ Deliver(request.job, request.page)
    /\ session' = [session EXCEPT !.last = Last(request.page),
                     !.pc = IF FullPage \/ Active(request.job) THEN "tick" ELSE "over",
                     !.ended = IF FullPage THEN @ ELSE Terminal(request.job)]
    /\ request' = NoRequest
    /\ UNCHANGED <<source, server, faults, view, user>>

\* 401, 403 and 404 end the session, other errors back off
PollFailed ==
    /\ session.pc = "fetch"
    /\ Fault
    /\ \E pc \in {"tick", "denied"} :
          session' = [session EXCEPT !.pc = pc, !.ended = pc = "denied"]
    /\ request' = NoRequest
    /\ UNCHANGED <<source, server, queued, view, user>>

DrainAnswered ==
    /\ session.pc = "drain" /\ request.step = "answer"
    /\ Deliver(request.job, request.page)
    /\ session' = [session EXCEPT !.last = Last(request.page),
                     !.pc = IF FullPage THEN "drain" ELSE "over"]
    /\ request' = IF FullPage THEN NewRequest ELSE NoRequest
    /\ UNCHANGED <<source, server, faults, view, user>>

DrainFailed ==
    /\ session.pc = "drain"
    /\ Fault
    /\ session' = [session EXCEPT !.pc = "over"]
    /\ request' = NoRequest
    /\ UNCHANGED <<source, server, queued, view, user>>

-----------------------------------------------------------------------------
(* The buttons: runAction *)

Click ==
    /\ action.step = "none" /\ clicks < MaxClicks /\ Fault
    /\ clicks' = clicks + 1
    /\ \E kind \in {"cancel", "retry"} :
          /\ kind = "cancel" <=> Active(view.job)
          /\ kind = "retry" <=> view.job.status = "failed"
          /\ action' = [step |-> "sent", kind |-> kind, ended |-> session.ended, answer |-> None]
    /\ UNCHANGED <<source, server, browser>>

\* the API's handler; a cancel ends a queued job and marks a running one
Served ==
    /\ action.step = "sent" /\ CanChange
    /\ IF action.kind = "cancel"
         THEN /\ ~Terminal(row)
              /\ \/ Change("running")
                 \/ inserting = None /\ Change("failed")
              /\ UNCHANGED retries
         ELSE row.status = "failed" /\ Change("running") /\ retries' = retries + 1
    /\ action' = [action EXCEPT !.step = "answered", !.answer = row']
    /\ UNCHANGED <<log, late, inserting, stray, nextId, faults, browser, clicks>>

\* a state mismatch, or no answer
Rejected ==
    /\ action.step = "sent"
    /\ action' = NoAction
    /\ UNCHANGED <<source, server, faults, browser, clicks>>

\* setJob(res.data), and restart() if the render's session had ended; a new
\* stream is connecting, a new poll is as the old session was until it answers
Answered ==
    /\ action.step = "answered"
    /\ view' = [view EXCEPT !.job = action.answer]
    /\ action' = NoAction
    /\ IF action.ended /\ Active(action.answer)
         THEN /\ session' = [session EXCEPT !.pc = IF session.sseUnavailable THEN "tick" ELSE "mint",
                                            !.ended = @ /\ session.sseUnavailable,
                                            !.heard = FALSE, !.failed = 0]
              /\ Hangup
              /\ request' = NoRequest
         ELSE UNCHANGED <<session, server, request>>
    /\ UNCHANGED <<source, faults, queued, clicks>>

-----------------------------------------------------------------------------

SessionNext ==
    \/ Frame \/ Connect \/ Refused \/ Unreachable \/ Broken \/ Receive
    \/ Tick \/ RequestJob \/ RequestLogs \/ PollAnswered \/ PollFailed
    \/ DrainAnswered \/ DrainFailed
    \/ Click \/ Served \/ Rejected \/ Answered

Next ==
    \/ SourceNext /\ UNCHANGED <<browser, user>>
    \/ StreamNext /\ UNCHANGED <<browser, user>>
    \/ SessionNext

\* The server's and the browser's callbacks run, the 2 s poll among them.
\* Nothing makes a job end, fail or be retried, and nobody has to click.
Fairness ==
    /\ WF_vars(Poll /\ UNCHANGED <<browser, user>>)
    /\ WF_vars((Refresh \/ ReadJob \/ ReadLogs \/ ApplyRead \/ Start \/ Resume)
                 /\ UNCHANGED <<browser, user>>)
    /\ WF_vars(Frame \/ Connect \/ Receive \/ Tick \/ RequestJob \/ RequestLogs
                 \/ PollAnswered \/ DrainAnswered \/ Answered)

Spec == Init /\ [][Next]_vars /\ Fairness

-----------------------------------------------------------------------------
(* Properties *)

Console == AppendLines(view, queued.lines, queued.dropped).lines

Shown == {Console[i] : i \in DOMAIN Console}

OnWire(l) == \E i \in DOMAIN wire : wire[i] = <<"log", l>>

\* the lines the page has to show: those committed in time, from its first one
\* on (a page that opened without a line starts from the stream's last ones)
Due == {l \in log \ late : Shown # {} /\ \E f \in Shown : f <= l}

\* The values the state takes; an open stream has a cursor, so that a later
\* read never starts over from the last lines.
TypeOK ==
    /\ row \in [status : Statuses, version : 0..MaxVersion] /\ retries \in 0..MaxVersion
    /\ log \subseteq 1..MaxLog /\ late \subseteq log
    /\ inserting \in {None} \cup 1..MaxLog /\ stray \in {None} \cup 1..MaxLog
    /\ nextId \in 1..MaxLog + 1 /\ faults \in 0..MaxFaults /\ clicks \in 0..MaxClicks
    /\ stream.phase \in {"none", "opening", "open"}
    /\ stream.fetch \in {"no", "job", "logs", "apply"}
    /\ stream.cursor \in {None} \cup 0..MaxLog
    /\ stream.phase = "open" => stream.cursor # None
    /\ session.pc \in {"mint", "open", "drain", "tick", "fetch", "over", "denied"}
    /\ session.last \in {None} \cup 1..MaxLog
    /\ session.failed \in 0..MaxFailed /\ view.hidden \in 0..MaxLog

\* Whatever pauses, reconnects, falls back to polling or starts anew, the page
\* shows the job's lines in order, none twice, and of those up to the last one
\* it received it misses none but a line committed by a run that had lost the job.
LogIsGapless ==
    /\ \A i, j \in DOMAIN Console : i < j => Console[i] < Console[j]
    /\ \A l \in Due : l <= session.last => l \in Shown

\* A stream that says "done" has sent everything: until the job is retried, the
\* page has, or is about to receive, its final row and every line of its log.
DoneIsLast ==
    (\E i \in DOMAIN wire : wire[i] = <<"done">>) /\ retries = 0 /\ clicks = 0 =>
        /\ \A l \in Due : l \in Shown \/ OnWire(l)
        /\ \/ \E i \in DOMAIN wire : wire[i] = <<"snapshot", row>>
           \/ queued.job = row
           \/ queued.job = None /\ view.job = row

\* No wake-up is lost: a stream with no timer, no read and no pause, which every
\* notification has reached, has sent the row and the log as they are.
NothingUnnoticed ==
    stream.phase = "open" /\ stream.fetch = "no" /\ ~stream.timer /\ ~stream.paused
      /\ wakes = "none" =>
        /\ stream.key = row
        /\ \A l \in log \ late : l <= stream.cursor

\* A page left open shows the final state and the whole log of a job that ended
\* and is not retried, unless the API refused to answer it.
ViewSettles ==
    Terminal(row) /\ retries = 0 ~>
        \/ retries > 0 \/ clicks > 0 \/ session.pc = "denied"
        \/ view.job = row /\ Due \subseteq Shown /\ queued = NothingQueued

\* "A retried job is queued again: open a new live session if the last one
\* ended": after the answer to a retry the page has a session.
RetriedIsFollowed ==
    [][action.kind = "retry" /\ action.step = "answered" /\ action'.step = "none"
         => session'.pc \notin {"drain", "over", "denied"}]_vars

=============================================================================
