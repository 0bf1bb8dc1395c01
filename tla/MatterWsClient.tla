---------------------------- MODULE MatterWsClient ----------------------------
(***************************************************************************)
(* HaMatterWsClient (src/src/ha_matter_ws_client.py): one WebSocket to the *)
(* Matter server, shared by concurrent requests, a task that waits for     *)
(* events and the reader task that routes every frame.                     *)
(*                                                                         *)
(* All the code runs on one event loop, so an action is what happens       *)
(* between two suspension points.  The frames of the server arrive in the  *)
(* order it sent them; the server may answer requests in any order, late,  *)
(* never, twice, or answer what was never asked.                           *)
(***************************************************************************)
EXTENDS Naturals, Sequences, SequencesExt, FiniteSets

CONSTANTS NumRequests,   \* requests made in a session
          NumStrays,     \* ids the server may use that nobody used
          MaxFrames,     \* max_frames, without the greeting
          MaxLate,       \* _MAX_LATE_RESPONSE_IDS
          MaxSent,       \* bound: frames the server sends
          MaxWire        \* bound: frames in flight

ASSUME ClientAssumption ==
    /\ NumRequests \in Nat \ {0}
    /\ NumStrays \in Nat
    /\ MaxFrames \in Nat
    /\ MaxLate \in Nat
    /\ MaxSent \in Nat
    /\ MaxWire \in Nat

Requests == 1..NumRequests
Strays   == (NumRequests + 1)..(NumRequests + NumStrays)

\* What classify_frame tells apart, a result and an error being both the answer to
\* a request.  An event may match what is waited for.  "malformed" is everything it
\* rejects, and a second greeting.
Frame == [kind : {"answer"}, id : Requests \cup Strays]
            \cup [kind : {"event", "matching", "malformed"}, id : {0}]

VARIABLES
    socket,    \* "open", "lost" (the peer is gone), "closed"
    wire,      \* frames received and not yet read
    reads,     \* len(_frames)
    call,      \* the coroutine of each request
    future,    \* _pending: what its future holds; a popped future is ignored
    outcome,   \* what request() returned or raised
    late,      \* _late_response_ids, oldest first
    reader,    \* the reader task
    failure,   \* _reader_error
    events,    \* _sequenced_events: which of them match
    waiter,    \* a task in next_event
    cursor,    \* its `after`
    closer     \* close()

\* History: requests that reached the socket, frames sent for each id, ids
\* dropped from `late`.
VARIABLES sent, answers, forgotten

clientVars == <<call, future, outcome, late, reader, failure, events, waiter, cursor, closer>>
history    == <<sent, answers, forgotten>>
vars       == <<socket, wire, reads, clientVars, history>>

Pending == {r \in Requests : call[r] \in {"sending", "waiting"}}

NotAnswered == [kind |-> "none", id |-> 0]
Open        == [kind |-> "open", id |-> 0]
Failed      == [kind |-> "failed", id |-> 0]
Closed      == [kind |-> "closed", id |-> 0]

Init ==
    /\ socket = "open" /\ wire = <<>> /\ reads = 0
    /\ call = [r \in Requests |-> "idle"]
    /\ future = [r \in Requests |-> NotAnswered]
    /\ outcome = [r \in Requests |-> NotAnswered]
    /\ late = <<>> /\ reader = "reading" /\ failure = "none"
    /\ events = <<>> /\ waiter = "idle" /\ cursor = 0 /\ closer = "no"
    /\ sent = {} /\ answers = [i \in Requests \cup Strays |-> 0] /\ forgotten = {}

-------------------------------------------------------------------------------
(* The server and the network.                                             *)

Deliver(f) ==
    /\ socket = "open" /\ reads + Len(wire) < MaxSent /\ Len(wire) < MaxWire
    /\ f.kind = "answer" => f.id \in sent \cup Strays
    /\ wire' = Append(wire, f)
    /\ answers' = IF f.id = 0 THEN answers ELSE [answers EXCEPT ![f.id] = @ + 1]
    /\ UNCHANGED <<socket, reads, clientVars, sent, forgotten>>

LoseConnection ==
    /\ socket = "open" /\ socket' = "lost"
    /\ UNCHANGED <<wire, reads, clientVars, history>>

-------------------------------------------------------------------------------
(* request()                                                               *)

\* Ids are taken from a counter, so requests come in order.
Request(r) ==
    /\ call[r] = "idle" /\ \A q \in 1..(r - 1) : call[q] # "idle"
    /\ closer # "closed" /\ socket # "closed"
    /\ call' = [call EXCEPT ![r] = "sending"]
    /\ future' = [future EXCEPT ![r] = Open]
    /\ sent' = IF socket = "open" THEN sent \cup {r} ELSE sent
    /\ UNCHANGED <<socket, wire, reads, outcome, late, reader, failure, events, waiter,
                   cursor, closer, answers, forgotten>>

SendDone(r) ==
    /\ call[r] = "sending" /\ r \in sent
    /\ call' = [call EXCEPT ![r] = "waiting"]
    /\ UNCHANGED <<socket, wire, reads, future, outcome, late, reader, failure, events,
                   waiter, cursor, closer, history>>

Settle(r, result) ==
    /\ call' = [call EXCEPT ![r] = "done"]
    /\ outcome' = [outcome EXCEPT ![r] = result]
    /\ UNCHANGED <<socket, wire, reads, future, reader, failure, events, waiter, cursor,
                   closer, sent, answers>>

SendFails(r) ==
    /\ call[r] = "sending" /\ socket # "open"
    /\ Settle(r, [kind |-> "unsent", id |-> 0])
    /\ UNCHANGED <<late, forgotten>>

Resume(r) ==
    /\ call[r] = "waiting" /\ future[r] # Open
    /\ Settle(r, future[r])
    /\ UNCHANGED <<late, forgotten>>

\* The finally block of a request that was given up: its id is remembered, and
\* the oldest ids are forgotten.
GiveUp(r, how) ==
    /\ Settle(r, [kind |-> how, id |-> 0])
    /\ LET ids == Append(late, r) IN
       IF Len(ids) > MaxLate
       THEN late' = Tail(ids) /\ forgotten' = forgotten \cup {Head(ids)}
       ELSE late' = ids /\ UNCHANGED forgotten

\* Mutant: the id of a request that timed out is not remembered.
TimeoutForgotten(r) ==
    /\ call[r] = "waiting" /\ Settle(r, [kind |-> "timeout", id |-> 0])
    /\ UNCHANGED <<late, forgotten>>

\* Mutant: there is no timer, the reader's end is relied upon.
TimeoutWhileReading(r) == call[r] = "waiting" /\ reader = "reading" /\ GiveUp(r, "timeout")

\* The timer may fire when the future is done and the task has not run yet.
Timeout(r)    == call[r] = "waiting" /\ GiveUp(r, "timeout")
CancelCall(r) == call[r] \in {"sending", "waiting"} /\ GiveUp(r, "cancelled")

-------------------------------------------------------------------------------
(* _reader_loop()                                                          *)

\* notify_all: who waits on the condition will look again.
Notify == waiter' = IF waiter = "waiting" THEN "notified" ELSE waiter

FailPending(how) ==
    future' = [r \in Requests |->
                 IF r \in Pending /\ future[r] = Open THEN how ELSE future[r]]

ReaderFails(why) ==
    /\ reader' = "failed" /\ failure' = why
    /\ FailPending(Failed)
    /\ Notify
    /\ UNCHANGED <<call, outcome, late, events, cursor, closer>>

\* A frame is taken off the wire; the one that exceeds max_frames is dropped.
Read(f) ==
    /\ reader = "reading" /\ wire # <<>> /\ f = Head(wire)
    /\ wire' = Tail(wire) /\ reads' = reads + 1
    /\ UNCHANGED <<socket, history>>

TooManyFrames == \E f \in Frame : Read(f) /\ reads >= MaxFrames /\ ReaderFails("frames")

ReadMalformed(f) == f.kind = "malformed" /\ ReaderFails("malformed")

ReadEvent(f) ==
    /\ f.kind \in {"event", "matching"}
    /\ events' = Append(events, f.kind = "matching")
    /\ Notify
    /\ UNCHANGED <<call, future, outcome, late, reader, failure, cursor, closer>>

IsAnswer(f) == f.kind = "answer"

\* Mutant: answers are taken to come in the order of the requests.
ReadAnswerInOrder(f) ==
    /\ IsAnswer(f)
    /\ LET open == {r \in Pending : future[r] = Open} IN
       /\ open # {}
       /\ future' = [future EXCEPT ![CHOOSE r \in open : \A q \in open : r <= q] = f]
    /\ UNCHANGED <<call, outcome, late, reader, failure, events, waiter, cursor, closer>>

ReadAnswer(f) ==
    /\ IsAnswer(f) /\ f.id \in Pending /\ future[f.id] = Open
    /\ future' = [future EXCEPT ![f.id] = f]
    /\ UNCHANGED <<call, outcome, late, reader, failure, events, waiter, cursor, closer>>

\* The future was resolved and its request has not run yet: InvalidStateError.
ReadTwice(f) ==
    /\ IsAnswer(f) /\ f.id \in Pending /\ future[f.id] # Open
    /\ ReaderFails("twice")

ReadLate(f) ==
    /\ IsAnswer(f) /\ f.id \notin Pending
    /\ \E i \in 1..Len(late) : late[i] = f.id /\ late' = RemoveAt(late, i)
    /\ UNCHANGED <<call, future, outcome, reader, failure, events, waiter, cursor, closer>>

ReadUnknown(f) ==
    /\ IsAnswer(f) /\ f.id \notin Pending
    /\ \A i \in 1..Len(late) : late[i] # f.id
    /\ ReaderFails("unknown")

ReadFrame ==
    \E f \in Frame :
        /\ Read(f) /\ reads < MaxFrames
        /\ \/ ReadMalformed(f)
           \/ ReadEvent(f)
           \/ ReadAnswer(f)
           \/ ReadTwice(f)
           \/ ReadLate(f)
           \/ ReadUnknown(f)

ReaderLoses ==
    /\ reader = "reading" /\ socket # "open" /\ wire = <<>>
    /\ ReaderFails("lost")
    /\ UNCHANGED <<socket, wire, reads, history>>

\* The CancelledError of close() reaches the reader where it awaits a frame.
ReaderCancelled ==
    /\ reader = "cancelling" /\ reader' = "cancelled"
    /\ Notify
    /\ UNCHANGED <<socket, wire, reads, call, future, outcome, late, failure, events, cursor,
                   closer, history>>

-------------------------------------------------------------------------------
(* next_event()                                                            *)

Stopped == reader \in {"failed", "cancelled"}

Matches(after) == {i \in DOMAIN events : i > after /\ events[i]}

\* One turn of the loop in wait_for_match: a retained event comes before an error.
Look(after) ==
    waiter' = IF Matches(after) # {} THEN "matched"
              ELSE IF reader = "failed" THEN "failed"
              ELSE IF Stopped THEN "stopped" ELSE "waiting"

StartWait ==
    /\ waiter = "idle"
    /\ \E after \in {0, Len(events)} : cursor' = after /\ Look(after)
    /\ UNCHANGED <<socket, wire, reads, call, future, outcome, late, reader, failure,
                   events, closer, history>>

Wake ==
    /\ waiter = "notified" /\ Look(cursor)
    /\ UNCHANGED <<socket, wire, reads, call, future, outcome, late, reader, failure,
                   events, cursor, closer, history>>

WaitTimeout ==
    /\ waiter \in {"waiting", "notified"} /\ waiter' = "timeout"
    /\ UNCHANGED <<socket, wire, reads, call, future, outcome, late, reader, failure,
                   events, cursor, closer, history>>

-------------------------------------------------------------------------------
(* close()                                                                 *)

\* Mutant: closing leaves the futures alone.
FinishCloseSilently ==
    /\ closer' = "closed" /\ UNCHANGED future
    /\ Notify

FinishClose ==
    /\ closer' = "closed"
    /\ FailPending(Closed)
    /\ Notify

\* Awaiting a reader that has ended does not suspend.
Close ==
    /\ closer = "no"
    /\ \/ /\ reader = "reading" /\ reader' = "cancelling" /\ closer' = "joining"
          /\ UNCHANGED <<future, waiter>>
       \/ reader # "reading" /\ FinishClose /\ UNCHANGED reader
    /\ UNCHANGED <<socket, wire, reads, call, outcome, late, failure, events, cursor, history>>

Joined ==
    /\ closer = "joining" /\ reader = "cancelled"
    /\ FinishClose
    /\ UNCHANGED <<socket, wire, reads, call, outcome, late, reader, failure, events, cursor,
                   history>>

CloseSocket ==
    /\ closer = "closed" /\ socket # "closed" /\ socket' = "closed"
    /\ UNCHANGED <<wire, reads, clientVars, history>>

-------------------------------------------------------------------------------
Next ==
    \/ \E f \in Frame : Deliver(f)
    \/ LoseConnection
    \/ \E r \in Requests :
         \/ Request(r) \/ SendDone(r) \/ SendFails(r) \/ Resume(r)
         \/ Timeout(r) \/ CancelCall(r)
    \/ ReadFrame \/ TooManyFrames \/ ReaderLoses \/ ReaderCancelled
    \/ StartWait \/ Wake \/ WaitTimeout
    \/ Close \/ Joined \/ CloseSocket

Spec == Init /\ [][Next]_vars

\* The event loop runs ready tasks and fires the timers of requests; a send ends
\* or fails.  Nothing is assumed of the server, of events, or of who closes.
Fairness ==
    /\ \A r \in Requests : WF_vars(SendDone(r) \/ SendFails(r) \/ Resume(r) \/ Timeout(r))
    /\ WF_vars(ReaderCancelled) /\ WF_vars(Joined) /\ WF_vars(Wake)
    /\ WF_vars(CloseSocket)

FairSpec == Spec /\ Fairness

-------------------------------------------------------------------------------
(* Properties.                                                             *)

Settled == [kind : {"answer"}, id : Requests]
              \cup [kind : {"none", "open", "failed", "closed"}, id : {0}]

TypeOK ==
    /\ socket \in {"open", "lost", "closed"}
    /\ wire \in Seq(Frame) /\ reads \in Nat
    /\ call \in [Requests -> {"idle", "sending", "waiting", "done"}]
    /\ future \in [Requests -> Settled]
    /\ outcome \in [Requests -> Settled
                      \cup [kind : {"unsent", "timeout", "cancelled"}, id : {0}]]
    /\ late \in Seq(Requests) /\ Len(late) <= MaxLate
    /\ reader \in {"reading", "failed", "cancelling", "cancelled"}
    /\ failure \in {"none", "frames", "malformed", "twice", "unknown", "lost"}
    /\ events \in Seq(BOOLEAN)
    /\ waiter \in {"idle", "waiting", "notified", "matched", "failed", "stopped", "timeout"}
    /\ cursor \in Nat
    /\ closer \in {"no", "joining", "closed"}

\* A request that returns, or raises the server's error, does so with an answer the
\* server gave to that very request, whatever else was answered, given up or
\* answered late in between (message_id correlation, _reader_loop).
OwnAnswer ==
    \A r \in Requests :
        outcome[r].kind = "answer" =>
            outcome[r].id = r /\ r \in sent /\ answers[r] > 0

\* A session does not fail on an answer unless the server answered something twice,
\* answered what nobody asked, more abandoned requests than _MAX_LATE_RESPONSE_IDS
\* were outstanding, or the connection was being lost: answers that are late or that
\* cross a timeout, a cancellation or a send are never taken for an error.
HonestServerKeepsSession ==
    failure \in {"twice", "unknown"} =>
        \/ \E i \in Requests \cup Strays : answers[i] > 1
        \/ \E i \in Strays : answers[i] > 0
        \/ forgotten # {}
        \/ socket # "open"

\* A task that sleeps in next_event has nothing to wake up for: no retained event
\* past its cursor matches, and the reader is still there to notify it.
NoLostWakeup ==
    waiter = "waiting" => Matches(cursor) = {} /\ ~Stopped

\* After close() no request waits for an answer that cannot come, not even one made
\* while close() waited for the reader.
ClosedLeavesNobodyWaiting ==
    closer = "closed" => \A r \in Pending : future[r] # Open

\* Nobody waits in vain: neither for an event nor, once the client is closed, for an
\* answer (notify_all in _reader_loop, _fail_pending in close).
NobodyWaitsInVain == NoLostWakeup /\ ClosedLeavesNobodyWaiting

\* Every request ends, whatever the server does and whenever the session fails or is
\* closed (request_timeout).
EveryRequestEnds == \A r \in Requests : call[r] = "sending" ~> call[r] = "done"
===============================================================================
