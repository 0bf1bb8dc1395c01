------------------------ MODULE MatterWsClient_proofs ------------------------
(***************************************************************************)
(* What a session promises to its callers, for any number of requests,     *)
(* frames and ids: an answer goes to the request it answers, nobody waits  *)
(* for what cannot come, and no session fails on a late answer.            *)
(***************************************************************************)
EXTENDS MatterWsClient, TLAPS

\* A result that is an answer is one the server gave to that request.
Right(r, result) == result.kind = "answer" => result.id = r /\ answers[r] > 0

\* A request that is answered was made: the server answers what was sent, and
\* what a frame in flight answers has been answered.
Answers ==
    /\ answers \in [Requests \cup Strays -> Nat]
    /\ \A r \in Requests : answers[r] > 0 => r \in sent

Wire ==
    /\ wire \in Seq(Frame)
    /\ \A i \in 1..Len(wire) : wire[i].kind = "answer" => answers[wire[i].id] > 0

Results ==
    /\ DOMAIN future = Requests /\ DOMAIN outcome = Requests
    /\ \A r \in Requests : Right(r, future[r]) /\ Right(r, outcome[r])

IInv == Answers /\ Wire /\ Results

-------------------------------------------------------------------------------

\* Strays are the ids that no request has.
LEMMA IdsApart == \A i \in Strays : i \notin Requests
BY ClientAssumption DEF Requests, Strays

LEMMA InitIInv == Init => IInv
BY DEF Init, IInv, Answers, Wire, Results, Right, NotAnswered, Frame

\* Counting up lowers no count.
LEMMA Counted ==
    ASSUME NEW S, NEW g \in [S -> Nat], NEW k
    PROVE  /\ [g EXCEPT ![k] = g[k] + 1] \in [S -> Nat]
           /\ \A i \in S : [g EXCEPT ![k] = g[k] + 1][i] >= g[i]
<1> DEFINE h == [g EXCEPT ![k] = g[k] + 1]
<1>1. \A i \in S : h[i] = IF i = k THEN g[i] + 1 ELSE g[i]
  OBVIOUS
<1>2. \A i \in S : g[i] \in Nat
  OBVIOUS
<1>3. h = [i \in S |-> h[i]]
  OBVIOUS
<1> HIDE DEF h
<1>4. \A i \in S : h[i] \in Nat /\ h[i] >= g[i]
  BY <1>1, <1>2
<1>5. h \in [S -> Nat] /\ \A i \in S : h[i] >= g[i]
  BY <1>3, <1>4
<1> QED
  BY <1>5 DEF h

\* The server answers only what has reached it.
LEMMA DeliverStep ==
    ASSUME IInv, NEW f \in Frame, Deliver(f)
    PROVE  IInv'
<1>1. UNCHANGED <<future, outcome, sent>>
  BY DEF Deliver, clientVars
<1>2. /\ answers' \in [Requests \cup Strays -> Nat]
      /\ \A i \in Requests \cup Strays : answers'[i] >= answers[i]
  <2>1. answers \in [Requests \cup Strays -> Nat]
    BY DEF IInv, Answers
  <2>2. CASE f.id = 0
    BY <2>1, <2>2 DEF Deliver
  <2>3. CASE f.id # 0
    <3> DEFINE I == Requests \cup Strays
    <3>1. answers' = [answers EXCEPT ![f.id] = answers[f.id] + 1]
      BY <2>3 DEF Deliver
    <3>2. answers \in [I -> Nat]
      BY <2>1
    <3> HIDE DEF I
    <3>3. answers' \in [I -> Nat] /\ \A i \in I : answers'[i] >= answers[i]
      BY <3>1, <3>2, Counted
    <3> QED
      BY <3>3 DEF I
  <2> QED
    BY <2>2, <2>3
<1>3. \A i \in Requests \cup Strays : answers'[i] >= answers[i]
  BY <1>2
<1>4. Answers'
  <2>1. ASSUME NEW r \in Requests, answers'[r] > 0 PROVE r \in sent
    <3>1. CASE f.id = r /\ r # 0
      <4>1. f.kind = "answer"
        BY <3>1 DEF Frame
      <4> QED
        BY <3>1, <4>1, IdsApart DEF Deliver
    <3>2. CASE f.id # r \/ r = 0
      <4>1. answers'[r] = answers[r]
        BY <3>2 DEF Deliver, IInv, Answers
      <4> QED
        BY <2>1, <4>1 DEF IInv, Answers
    <3> QED
      BY <3>1, <3>2
  <2> QED
    BY <1>1, <1>2, <2>1 DEF Answers
<1>5. Wire'
  <2>1. wire' = Append(wire, f) /\ wire \in Seq(Frame)
    BY DEF Deliver, IInv, Wire
  <2>2. f.kind = "answer" => f.id # 0 /\ f.id \in Requests \cup Strays
    BY ClientAssumption DEF Frame, Requests, Strays
  <2>3. f.kind = "answer" => answers'[f.id] > 0
    BY <2>2 DEF Deliver, IInv, Answers
  <2>4. \A i \in 1..Len(wire) : wire[i] \in Frame
    BY <2>1
  <2>5. \A g \in Frame : g.kind = "answer" => g.id \in Requests \cup Strays
    BY DEF Frame
  <2>6. \A i \in 1..Len(wire) : wire[i].kind = "answer" => answers'[wire[i].id] > 0
    BY <1>2, <1>3, <2>4, <2>5 DEF IInv, Wire, Answers
  <2> QED
    BY <2>1, <2>3, <2>6 DEF Wire
<1>6. Results'
  BY <1>1, <1>2, <1>3 DEF IInv, Results, Right, Answers
<1> QED
  BY <1>4, <1>5, <1>6 DEF IInv

\* A request is registered before its frame is sent, and has no answer yet.
LEMMA RequestStep ==
    ASSUME IInv, NEW r \in Requests, Request(r)
    PROVE  IInv'
BY DEF Request, IInv, Answers, Wire, Results, Right, Open

\* A request ends with what its future holds, or with no answer at all.
LEMMA CallSteps ==
    ASSUME IInv, NEW r \in Requests,
           SendDone(r) \/ SendFails(r) \/ Resume(r) \/ Timeout(r) \/ CancelCall(r)
    PROVE  IInv'
<1>1. UNCHANGED <<wire, future, sent, answers>>
  BY DEF SendDone, SendFails, Resume, Timeout, CancelCall, GiveUp, Settle, history
<1>2. CASE SendDone(r)
  BY <1>1, <1>2 DEF SendDone, IInv, Answers, Wire, Results, Right
<1>3. CASE Resume(r)
  BY <1>1, <1>3 DEF Resume, Settle, IInv, Answers, Wire, Results, Right
<1>4. CASE SendFails(r) \/ Timeout(r) \/ CancelCall(r)
  <2>1. PICK how \in {"unsent", "timeout", "cancelled"} :
           outcome' = [outcome EXCEPT ![r] = [kind |-> how, id |-> 0]]
    BY <1>4 DEF SendFails, Timeout, CancelCall, GiveUp, Settle
  <2> QED
    BY <1>1, <2>1 DEF IInv, Answers, Wire, Results, Right
<1> QED
  BY <1>2, <1>3, <1>4

\* Failing what is pending answers nothing.
LEMMA FailedAnswersNothing ==
    ASSUME IInv, NEW how, how.kind # "answer", FailPending(how), UNCHANGED <<outcome, answers>>
    PROVE  Results'
BY DEF IInv, Results, Right, FailPending

\* Reading a frame takes it off the wire, and shows an answer that was given.
LEMMA ReadTakes ==
    ASSUME IInv, NEW f \in Frame, Read(f)
    PROVE  /\ Answers' /\ Wire'
           /\ f.kind = "answer" => answers[f.id] > 0
           /\ UNCHANGED <<sent, answers>>
<1>1. wire # <<>> /\ f = Head(wire) /\ wire' = Tail(wire) /\ UNCHANGED <<sent, answers>>
  BY DEF Read, history
<1>2. wire \in Seq(Frame) /\ Len(wire) > 0
  BY <1>1 DEF IInv, Wire
<1>3. f = wire[1] /\ wire' \in Seq(Frame)
  BY <1>1, <1>2
<1>4. Len(wire') = Len(wire) - 1 /\ \A i \in 1..Len(wire') : wire'[i] = wire[i + 1]
  BY <1>1, <1>2
<1>5. Wire'
  BY <1>1, <1>2, <1>3, <1>4 DEF IInv, Wire
<1>6. f.kind = "answer" => answers[f.id] > 0
  BY <1>2, <1>3 DEF IInv, Wire
<1> QED
  BY <1>1, <1>5, <1>6 DEF IInv, Answers

LEMMA ReaderSteps ==
    ASSUME IInv, ReadFrame \/ TooManyFrames \/ ReaderLoses \/ ReaderCancelled
    PROVE  IInv'
<1>0. Failed.kind # "answer"
  BY DEF Failed
<1>1. ASSUME NEW f \in Frame, Read(f),
             ReadMalformed(f) \/ ReadTwice(f) \/ ReadUnknown(f) \/ ReaderFails("frames")
      PROVE  IInv'
  <2>1. FailPending(Failed) /\ UNCHANGED outcome
    BY <1>1 DEF ReadMalformed, ReadTwice, ReadUnknown, ReaderFails
  <2> QED
    BY <1>0, <1>1, <2>1, ReadTakes, FailedAnswersNothing DEF IInv
<1>2. ASSUME NEW f \in Frame, Read(f), ReadEvent(f) \/ ReadLate(f)
      PROVE  IInv'
  <2>1. UNCHANGED <<future, outcome>>
    BY <1>2 DEF ReadEvent, ReadLate
  <2> QED
    BY <1>2, <2>1, ReadTakes DEF IInv, Results, Right
<1>3. ASSUME NEW f \in Frame, Read(f), ReadAnswer(f)
      PROVE  IInv'
  <2>1. /\ f.kind = "answer" /\ f.id \in Requests
        /\ future' = [future EXCEPT ![f.id] = f] /\ UNCHANGED outcome
    BY <1>3 DEF ReadAnswer, IsAnswer, Pending
  <2>2. Results'
    BY <1>3, <2>1, ReadTakes DEF IInv, Results, Right
  <2> QED
    BY <1>3, <2>2, ReadTakes DEF IInv
<1>4. CASE ReaderLoses
  <2>1. FailPending(Failed) /\ UNCHANGED <<outcome, wire, sent, answers>>
    BY <1>4 DEF ReaderLoses, ReaderFails, history
  <2> QED
    BY <1>0, <2>1, FailedAnswersNothing DEF IInv, Answers, Wire
<1>5. CASE ReaderCancelled
  BY <1>5 DEF ReaderCancelled, history, IInv, Answers, Wire, Results, Right
<1> QED
  BY <1>1, <1>2, <1>3, <1>4, <1>5 DEF ReadFrame, TooManyFrames

LEMMA OtherSteps ==
    ASSUME IInv,
           \/ LoseConnection \/ StartWait \/ Wake \/ WaitTimeout
           \/ Close \/ Joined \/ CloseSocket \/ UNCHANGED vars
    PROVE  IInv'
<1>1. UNCHANGED <<wire, outcome, sent, answers>>
  BY DEF LoseConnection, StartWait, Wake, WaitTimeout, Close, Joined, CloseSocket, vars,
         clientVars, history
<1>2. FailPending(Closed) \/ UNCHANGED future
  BY DEF LoseConnection, StartWait, Wake, WaitTimeout, Close, Joined, CloseSocket, vars,
         clientVars, FinishClose
<1>3. Closed.kind # "answer"
  BY DEF Closed
<1>4. Results'
  BY <1>1, <1>2, <1>3, FailedAnswersNothing DEF IInv, Results, Right
<1> QED
  BY <1>1, <1>4 DEF IInv, Answers, Wire

LEMMA NextIInv == IInv /\ [Next]_vars => IInv'
<1> SUFFICES ASSUME IInv, [Next]_vars PROVE IInv'
  OBVIOUS
<1> QED
  BY DeliverStep, RequestStep, CallSteps, ReaderSteps, OtherSteps DEF Next

\* Every request that returns does so with an answer to itself, whatever was
\* answered late, twice, out of order or to nobody (_reader_loop's correlation).
THEOREM AnswersReachTheirRequests == Spec => []OwnAnswer
<1>1. IInv => OwnAnswer
  BY DEF IInv, Answers, Results, Right, OwnAnswer
<1> QED
  BY <1>1, InitIInv, NextIInv, PTL DEF Spec

-------------------------------------------------------------------------------
(* Nobody waits in vain.                                                   *)

Registered == DOMAIN future = Requests /\ DOMAIN call = Requests

Waiting == Registered /\ NobodyWaitsInVain

LEMMA InitWaiting == Init => Waiting
BY DEF Init, Waiting, Registered, NobodyWaitsInVain, NoLostWakeup, ClosedLeavesNobodyWaiting

\* Whoever is notified looks again: nobody sleeps over what has just happened.
LEMMA NotifiedAwake ==
    ASSUME Notify
    PROVE  NoLostWakeup'
BY DEF Notify, NoLostWakeup

\* Nothing happened for who sleeps, or he decided to sleep on what there is.
LEMMA Undisturbed ==
    ASSUME NoLostWakeup, UNCHANGED <<waiter, events, cursor, reader>>
    PROVE  NoLostWakeup'
BY DEF NoLostWakeup, Matches, Stopped

\* Failing what is pending leaves no future open.
LEMMA PendingFailed ==
    ASSUME Registered, NEW how, how # Open, FailPending(how), UNCHANGED call
    PROVE  Registered' /\ \A r \in Pending' : future'[r] # Open
BY DEF Registered, FailPending, Pending

\* A step that opens no future and starts no request leaves nobody waiting.
LEMMA NobodyStarts ==
    ASSUME ClosedLeavesNobodyWaiting, UNCHANGED closer,
           \A r \in Pending' : r \in Pending /\ (future[r] # Open => future'[r] # Open)
    PROVE  ClosedLeavesNobodyWaiting'
BY DEF ClosedLeavesNobodyWaiting

LEMMA ServerWaiting ==
    ASSUME Waiting, (\E f \in Frame : Deliver(f)) \/ LoseConnection \/ CloseSocket \/ UNCHANGED vars
    PROVE  Waiting'
<1>1. UNCHANGED <<call, future, closer, waiter, events, cursor, reader>>
  BY DEF Deliver, LoseConnection, CloseSocket, vars, clientVars
<1>2. NoLostWakeup'
  BY <1>1, Undisturbed DEF Waiting, NobodyWaitsInVain
<1>3. ClosedLeavesNobodyWaiting'
  BY <1>1, NobodyStarts DEF Waiting, NobodyWaitsInVain, Pending
<1> QED
  BY <1>1, <1>2, <1>3 DEF Waiting, NobodyWaitsInVain, Registered

LEMMA CallWaiting ==
    ASSUME Waiting, NEW r \in Requests,
           \/ Request(r) \/ SendDone(r) \/ SendFails(r) \/ Resume(r)
           \/ Timeout(r) \/ CancelCall(r)
    PROVE  Waiting'
<1>1. UNCHANGED <<closer, waiter, events, cursor, reader>>
  BY DEF Request, SendDone, SendFails, Resume, Timeout, CancelCall, GiveUp, Settle
<1>2. NoLostWakeup'
  BY <1>1, Undisturbed DEF Waiting, NobodyWaitsInVain
<1>3. CASE Request(r)
  <2>1. closer # "closed"
    BY <1>3 DEF Request
  <2>2. Registered'
    BY <1>3 DEF Request, Waiting, Registered
  <2> QED
    BY <1>1, <1>2, <2>1, <2>2 DEF Waiting, NobodyWaitsInVain, ClosedLeavesNobodyWaiting
<1>4. CASE SendDone(r) \/ SendFails(r) \/ Resume(r) \/ Timeout(r) \/ CancelCall(r)
  <2>1. PICK stage \in {"waiting", "done"} :
           /\ call[r] \in {"sending", "waiting"} /\ call' = [call EXCEPT ![r] = stage]
           /\ UNCHANGED future
    BY <1>4 DEF SendDone, SendFails, Resume, Timeout, CancelCall, GiveUp, Settle
  <2>2. Registered'
    BY <2>1 DEF Waiting, Registered
  <2>3. \A q \in Pending' : q \in Pending /\ (future[q] # Open => future'[q] # Open)
    BY <2>1 DEF Pending, Waiting, Registered
  <2>4. ClosedLeavesNobodyWaiting'
    BY <1>1, <2>3, NobodyStarts DEF Waiting, NobodyWaitsInVain
  <2> QED
    BY <1>2, <2>2, <2>4 DEF Waiting, NobodyWaitsInVain
<1> QED
  BY <1>3, <1>4

\* A reader that ends has failed what was pending, and has notified.
LEMMA FailureWaiting ==
    ASSUME Waiting, NEW why, ReaderFails(why)
    PROVE  Waiting'
<1>1. Failed # Open
  BY DEF Failed, Open
<1>2. UNCHANGED <<call, closer>> /\ FailPending(Failed) /\ Notify
  BY DEF ReaderFails
<1>3. NoLostWakeup'
  BY <1>2, NotifiedAwake
<1>4. Registered' /\ ClosedLeavesNobodyWaiting'
  BY <1>1, <1>2, PendingFailed DEF Waiting, ClosedLeavesNobodyWaiting
<1> QED
  BY <1>3, <1>4 DEF Waiting, NobodyWaitsInVain

LEMMA ReaderWaiting ==
    ASSUME Waiting, ReadFrame \/ TooManyFrames \/ ReaderLoses \/ ReaderCancelled
    PROVE  Waiting'
<1>1. CASE \E why \in {"frames", "malformed", "twice", "unknown", "lost"} : ReaderFails(why)
  BY <1>1, FailureWaiting
<1>2. ASSUME NEW f \in Frame, ReadEvent(f) \/ ReadLate(f) PROVE Waiting'
  <2>1. UNCHANGED <<call, future, closer>>
    BY <1>2 DEF ReadEvent, ReadLate
  <2>2. NoLostWakeup'
    BY <1>2, NotifiedAwake, Undisturbed DEF ReadEvent, ReadLate, Waiting, NobodyWaitsInVain
  <2>3. ClosedLeavesNobodyWaiting'
    BY <2>1, NobodyStarts DEF Pending, Waiting, NobodyWaitsInVain
  <2> QED
    BY <2>1, <2>2, <2>3 DEF Waiting, NobodyWaitsInVain, Registered
<1>3. ASSUME NEW f \in Frame, ReadAnswer(f) PROVE Waiting'
  <2>1. /\ UNCHANGED <<call, closer, waiter, events, cursor, reader>>
        /\ f.kind = "answer" /\ future' = [future EXCEPT ![f.id] = f]
    BY <1>3 DEF ReadAnswer, IsAnswer
  <2>2. f # Open
    BY <2>1 DEF Open
  <2>3. Registered' /\ \A q \in Pending' : q \in Pending /\ (future[q] # Open => future'[q] # Open)
    BY <2>1, <2>2 DEF Pending, Waiting, Registered
  <2>4. ClosedLeavesNobodyWaiting'
    BY <2>1, <2>3, NobodyStarts DEF Waiting, NobodyWaitsInVain
  <2> QED
    BY <2>1, <2>3, <2>4, Undisturbed DEF Waiting, NobodyWaitsInVain
<1>4. CASE ReaderCancelled
  <2>1. UNCHANGED <<call, future, closer>> /\ Notify
    BY <1>4 DEF ReaderCancelled
  <2>2. ClosedLeavesNobodyWaiting'
    BY <2>1, NobodyStarts DEF Pending, Waiting, NobodyWaitsInVain
  <2> QED
    BY <2>1, <2>2, NotifiedAwake DEF Waiting, NobodyWaitsInVain, Registered
<1> QED
  BY <1>1, <1>2, <1>3, <1>4
     DEF ReadFrame, TooManyFrames, ReaderLoses, ReadMalformed, ReadTwice, ReadUnknown

\* Who starts to wait has looked, and saw neither an event nor the end.
LEMMA WaiterWaiting ==
    ASSUME Waiting, StartWait \/ Wake \/ WaitTimeout
    PROVE  Waiting'
<1>1. UNCHANGED <<call, future, closer, events, reader>>
  BY DEF StartWait, Wake, WaitTimeout
<1>2. NoLostWakeup'
  <2>1. CASE WaitTimeout
    BY <2>1 DEF WaitTimeout, NoLostWakeup
  <2>2. CASE StartWait \/ Wake
    <3>1. Look(cursor')
      BY <2>2 DEF StartWait, Wake
    <3>2. waiter' = "waiting" => Matches(cursor') = {} /\ ~Stopped
      BY <3>1 DEF Look
    <3> QED
      BY <1>1, <3>2 DEF NoLostWakeup, Matches, Stopped
  <2> QED
    BY <2>1, <2>2
<1>3. ClosedLeavesNobodyWaiting'
  BY <1>1, NobodyStarts DEF Pending, Waiting, NobodyWaitsInVain
<1> QED
  BY <1>1, <1>2, <1>3 DEF Waiting, NobodyWaitsInVain, Registered

\* close() fails what is pending when the reader is gone, even what was
\* requested while it waited for the reader.
LEMMA CloseWaiting ==
    ASSUME Waiting, Close \/ Joined
    PROVE  Waiting'
<1>1. CASE FinishClose /\ UNCHANGED call
  <2>1. Closed # Open
    BY DEF Closed, Open
  <2>2. FailPending(Closed) /\ Notify
    BY <1>1 DEF FinishClose
  <2> QED
    BY <1>1, <2>1, <2>2, PendingFailed, NotifiedAwake
       DEF Waiting, NobodyWaitsInVain, ClosedLeavesNobodyWaiting
<1>2. CASE /\ reader = "reading" /\ reader' = "cancelling" /\ closer' = "joining"
           /\ UNCHANGED <<call, future, waiter, events, cursor>>
  BY <1>2 DEF Waiting, NobodyWaitsInVain, ClosedLeavesNobodyWaiting, NoLostWakeup, Matches,
              Stopped, Registered
<1> QED
  BY <1>1, <1>2 DEF Close, Joined

\* Nobody sleeps in next_event over an event or an end of the session, and no
\* request is left behind by close(), whenever it was made.
THEOREM NobodyIsLeftWaiting == Spec => []NobodyWaitsInVain
<1>1. Waiting /\ [Next]_vars => Waiting'
  BY ServerWaiting, CallWaiting, ReaderWaiting, WaiterWaiting, CloseWaiting DEF Next
<1>2. Waiting => NobodyWaitsInVain
  BY DEF Waiting
<1> QED
  BY <1>1, <1>2, InitWaiting, PTL DEF Spec

-------------------------------------------------------------------------------
(* A session does not fail on what an honest server answers.               *)

\* Every request was answered at most once, nobody was answered who did not ask, no
\* abandoned request was forgotten and the connection stands.
Honest ==
    /\ \A i \in Requests \cup Strays : answers[i] <= 1
    /\ \A i \in Strays : answers[i] = 0
    /\ forgotten = {} /\ socket = "open"

InLate(r) == \E i \in 1..Len(late) : late[i] = r

OnWire(r) == \E i \in 1..Len(wire) : wire[i].kind = "answer" /\ wire[i].id = r

\* The reader has yet to read the answer to r, if it ever comes ...
Unread(r) == answers[r] = 0 \/ OnWire(r)

\* ... and takes it for the answer of a pending request or for a late one.
Expected(r) ==
    \/ r \in Pending /\ future[r] = Open
    \/ call[r] = "done" /\ InLate(r)

\* No two frames in flight answer the same request.
AnswersDiffer ==
    \A i, k \in 1..Len(wire) :
        wire[i].kind = "answer" /\ wire[k].kind = "answer" /\ wire[i].id = wire[k].id => i = k

Tracked ==
    /\ AnswersDiffer
    /\ \A r \in sent : call[r] # "idle"
    /\ \A r \in sent : Unread(r) => Expected(r)

Kept ==
    /\ sent \subseteq Requests /\ late \in Seq(Requests)
    /\ Honest => /\ failure \notin {"twice", "unknown"}
                 /\ reader = "reading" => Tracked

HInv == IInv /\ Registered /\ Kept

LEMMA InitHInv == Init => HInv
<1> SUFFICES ASSUME Init PROVE Registered /\ Kept
  BY InitIInv DEF HInv
<1>1. Registered
  BY DEF Init, Registered
<1>2. Kept
  BY DEF Init, Kept, Tracked, AnswersDiffer
<1> QED
  BY <1>1, <1>2

-------------------------------------------------------------------------------

\* What is left of a sequence when one of its elements is dropped.
LEMMA Dropped ==
    ASSUME NEW S, NEW q \in Seq(S), NEW p \in 1..Len(q)
    PROVE  /\ RemoveAt(q, p) \in Seq(S)
           /\ \A i \in 1..Len(q) :
                i # p => \E k \in 1..Len(RemoveAt(q, p)) : RemoveAt(q, p)[k] = q[i]
<1>1. /\ SubSeq(q, 1, p - 1) \in Seq(S) /\ Len(SubSeq(q, 1, p - 1)) = p - 1
      /\ \A i \in 1..p - 1 : SubSeq(q, 1, p - 1)[i] = q[i]
  OBVIOUS
<1>2. /\ SubSeq(q, p + 1, Len(q)) \in Seq(S) /\ Len(SubSeq(q, p + 1, Len(q))) = Len(q) - p
      /\ \A i \in 1..Len(q) - p : SubSeq(q, p + 1, Len(q))[i] = q[p + i]
  OBVIOUS
<1>3. PICK a \in Seq(S), b \in Seq(S) : a = SubSeq(q, 1, p - 1) /\ b = SubSeq(q, p + 1, Len(q))
  BY <1>1, <1>2
<1>4. /\ Len(a) = p - 1 /\ Len(b) = Len(q) - p /\ Len(q) \in Nat
      /\ \A i \in 1..p - 1 : a[i] = q[i]
      /\ \A i \in 1..Len(q) - p : b[i] = q[p + i]
  BY <1>1, <1>2, <1>3
<1>5. /\ a \o b \in Seq(S) /\ Len(a \o b) = Len(a) + Len(b)
      /\ \A i \in 1..Len(a) + Len(b) : (a \o b)[i] = IF i <= Len(a) THEN a[i] ELSE b[i - Len(a)]
  OBVIOUS
<1>6. ASSUME NEW i \in 1..Len(q), i # p
      PROVE  \E k \in 1..Len(a \o b) : (a \o b)[k] = q[i]
  <2>1. CASE i < p
    <3>1. i \in 1..Len(a \o b) /\ (a \o b)[i] = q[i]
      BY <1>4, <1>5, <2>1
    <3> QED
      BY <3>1
  <2>2. CASE i > p
    <3>1. i - p \in 1..Len(q) - p /\ b[i - p] = q[p + (i - p)] /\ p + (i - p) = i
      BY <1>4, <2>2
    <3>2. i - 1 \in 1..Len(a) + Len(b) /\ ~(i - 1 <= Len(a)) /\ (i - 1) - Len(a) = i - p
      BY <1>4, <2>2
    <3>3. (a \o b)[i - 1] = b[i - p]
      BY <1>5, <3>2
    <3> QED
      BY <1>5, <3>1, <3>2, <3>3
  <2> QED
    BY <1>6, <2>1, <2>2
<1> QED
  BY <1>3, <1>5, <1>6 DEF RemoveAt

LEMMA TailOf == ASSUME NEW S, NEW q \in Seq(S), Len(q) > 0 PROVE Tail(q) \in Seq(S)
OBVIOUS

\* Who was dishonest stays so.
LEMMA HonestBefore ==
    ASSUME HInv, [Next]_vars, Honest'
    PROVE  Honest
<1>1. \A i \in Requests \cup Strays :
         answers[i] \in Nat /\ answers'[i] \in Nat /\ answers[i] <= answers'[i]
  <2>1. answers \in [Requests \cup Strays -> Nat]
    BY DEF HInv, IInv, Answers
  <2>2. CASE UNCHANGED answers
    BY <2>1, <2>2
  <2>3. ASSUME NEW f \in Frame, answers' = [answers EXCEPT ![f.id] = answers[f.id] + 1]
        PROVE  \A i \in Requests \cup Strays : answers'[i] >= answers[i] /\ answers'[i] \in Nat
    <3> DEFINE I == Requests \cup Strays
    <3>1. answers \in [I -> Nat]
      BY <2>1
    <3> HIDE DEF I
    <3>2. answers' \in [I -> Nat] /\ \A i \in I : answers'[i] >= answers[i]
      BY <2>3, <3>1, Counted
    <3> QED
      BY <3>2 DEF I
  <2>4. \/ UNCHANGED answers
        \/ \E f \in Frame : answers' = [answers EXCEPT ![f.id] = answers[f.id] + 1]
    BY DEF Next, Deliver, LoseConnection, Request, SendDone, SendFails, Resume, Timeout, CancelCall,
           GiveUp, Settle, ReadFrame, TooManyFrames, Read, ReaderLoses, ReaderCancelled, StartWait,
           Wake, WaitTimeout, Close, Joined, CloseSocket, vars, history
  <2> QED
    BY <2>1, <2>2, <2>3, <2>4
<1>2. forgotten \subseteq forgotten'
  BY DEF Next, Deliver, LoseConnection, Request, SendDone, SendFails, Resume, Timeout, CancelCall,
         GiveUp, Settle, ReadFrame, TooManyFrames, Read, ReaderLoses, ReaderCancelled, StartWait,
         Wake, WaitTimeout, Close, Joined, CloseSocket, vars, history
<1>3. socket' = "open" => socket = "open"
  BY DEF Next, Deliver, LoseConnection, Request, SendDone, SendFails, Resume, Timeout, CancelCall,
         GiveUp, Settle, ReadFrame, TooManyFrames, Read, ReaderLoses, ReaderCancelled, StartWait,
         Wake, WaitTimeout, Close, Joined, CloseSocket, vars
<1>4. \A i \in Requests \cup Strays : answers[i] <= 1
  <2>1. \A i \in Requests \cup Strays : answers'[i] <= 1
    BY DEF Honest
  <2> QED
    BY <1>1, <2>1
<1>5. \A i \in Strays : answers'[i] = 0 /\ answers[i] \in Nat /\ answers[i] <= answers'[i]
  BY <1>1 DEF Honest
<1>6. \A i \in Strays : answers[i] = 0
  BY <1>5
<1> QED
  BY <1>2, <1>3, <1>4, <1>6 DEF Honest

-------------------------------------------------------------------------------
(* The steps of an honest session.                                         *)

\* While the reader reads on, nothing it has to expect is lost by a step that takes
\* nothing from the wire.
LEMMA StillTracked ==
    ASSUME Tracked, UNCHANGED wire,
           \A r \in sent' : answers'[r] = answers[r],
           \A r \in sent' : call'[r] # "idle",
           \A r \in sent' : Unread(r) => Expected(r)'
    PROVE  Tracked'
BY DEF Tracked, AnswersDiffer, Unread, OnWire

LEMMA DeliverKept ==
    ASSUME HInv, Honest, Honest', NEW f \in Frame, Deliver(f)
    PROVE  Kept'
<1>1. /\ wire' = Append(wire, f) /\ wire \in Seq(Frame)
      /\ UNCHANGED <<call, future, late, failure, reader, sent>>
  BY DEF Deliver, clientVars, HInv, IInv, Wire
<1>2. f.kind = "answer" => f.id \in sent /\ answers[f.id] = 0 /\ answers'[f.id] # 0
  <2>1. ASSUME f.kind = "answer"
        PROVE  f.id # 0 /\ f.id \in Requests \cup Strays /\ f.id \in sent \cup Strays
    BY <2>1, ClientAssumption DEF Deliver, Frame, Requests, Strays
  <2>2. ASSUME f.kind = "answer"
        PROVE  answers' = [answers EXCEPT ![f.id] = answers[f.id] + 1]
    BY <2>1, <2>2 DEF Deliver
  <2>3. ASSUME f.kind = "answer" PROVE answers[f.id] \in Nat /\ answers'[f.id] = answers[f.id] + 1
    BY <2>1, <2>2, <2>3 DEF HInv, IInv, Answers
  <2>4. ASSUME f.kind = "answer" PROVE answers[f.id] = 0 /\ answers'[f.id] = 1
    BY <2>1, <2>3, <2>4 DEF Honest
  <2>5. ASSUME f.kind = "answer" PROVE f.id \notin Strays
    BY <2>4, <2>5 DEF Honest
  <2> QED
    BY <2>1, <2>4, <2>5
<1>3. ASSUME NEW r \in sent, answers'[r] = 0 PROVE answers[r] = 0
  <2>1. answers[r] \in Nat
    BY DEF HInv, Kept, IInv, Answers
  <2>2. answers'[r] = answers[r] \/ answers'[r] = answers[r] + 1
    BY <2>1 DEF Deliver, HInv, Kept, IInv, Answers
  <2> QED
    BY <1>3, <2>1, <2>2
<1>4. /\ Len(wire') = Len(wire) + 1 /\ Len(wire) \in Nat
      /\ \A i \in 1..Len(wire') : wire'[i] = IF i = Len(wire) + 1 THEN f ELSE wire[i]
  BY <1>1
<1>5. \A i \in 1..Len(wire') : i # Len(wire) + 1 => i \in 1..Len(wire)
  BY <1>4
<1>6. \A i \in 1..Len(wire) : wire[i].kind = "answer" => answers[wire[i].id] # 0
  <2>1. \A i \in 1..Len(wire) : wire[i].kind = "answer" => answers[wire[i].id] > 0
    BY DEF HInv, IInv, Wire
  <2> QED
    BY <2>1
<1>7. ASSUME reader' = "reading" PROVE Tracked'
  <2>1. Tracked
    BY <1>1, <1>7 DEF HInv, Kept
  <2>2. AnswersDiffer'
    BY <1>2, <1>4, <1>5, <1>6, <2>1 DEF Tracked, AnswersDiffer
  <2>3. \A r \in sent : Unread(r)' => Unread(r)
    <3>1. \A r \in sent : OnWire(r)' => OnWire(r) \/ (f.kind = "answer" /\ f.id = r)
      BY <1>4, <1>5 DEF OnWire
    <3> QED
      BY <1>2, <1>3, <3>1 DEF Unread
  <2>4. \A r \in sent : Expected(r) => Expected(r)'
    BY <1>1 DEF Expected, Pending, InLate
  <2> QED
    BY <1>1, <2>1, <2>2, <2>3, <2>4 DEF Tracked
<1> QED
  BY <1>1, <1>7 DEF HInv, Kept

\* The reader remembers whom it still expects, through a call's whole life.
LEMMA CallKept ==
    ASSUME HInv, Honest, Honest', NEW r \in Requests,
           \/ Request(r) \/ SendDone(r) \/ SendFails(r) \/ Resume(r)
           \/ Timeout(r) \/ CancelCall(r)
    PROVE  Kept'
<1>1. /\ UNCHANGED <<wire, reader, failure, answers, socket>> /\ socket = "open"
      /\ DOMAIN future = Requests /\ DOMAIN call = Requests
  BY DEF Request, SendDone, SendFails, Resume, Timeout, CancelCall, GiveUp, Settle, Honest,
         HInv, Registered, history
<1>2. CASE Request(r)
  <2>1. /\ call' = [call EXCEPT ![r] = "sending"] /\ future' = [future EXCEPT ![r] = Open]
        /\ sent' = sent \cup {r} /\ UNCHANGED late /\ call[r] = "idle"
    BY <1>1, <1>2 DEF Request
  <2>2. ASSUME reader' = "reading" PROVE Tracked'
    <3>1. Tracked
      BY <1>1, <2>2 DEF HInv, Kept
    <3>2. \A q \in sent : q # r /\ q \in Requests
      BY <2>1, <3>1 DEF Tracked, HInv, Kept
    <3>3. Expected(r)'
      BY <1>1, <2>1 DEF Expected, Pending
    <3>4. \A q \in sent : Unread(q) => Expected(q)'
      BY <1>1, <2>1, <3>1, <3>2 DEF Tracked, Expected, Pending, InLate
    <3> QED
      BY <1>1, <2>1, <3>1, <3>2, <3>3, <3>4, StillTracked DEF Tracked
  <2> QED
    BY <1>1, <2>1, <2>2 DEF HInv, Kept
<1>3. CASE SendDone(r)
  <2>1. /\ call' = [call EXCEPT ![r] = "waiting"] /\ call[r] = "sending"
        /\ UNCHANGED <<future, sent, late>>
    BY <1>3 DEF SendDone, history
  <2>2. ASSUME reader' = "reading" PROVE Tracked'
    <3>1. Tracked
      BY <1>1, <2>2 DEF HInv, Kept
    <3>2. \A q \in sent : q \in Requests
      BY DEF HInv, Kept
    <3>3. \A q \in sent : Unread(q) => Expected(q)'
      BY <1>1, <2>1, <3>1, <3>2 DEF Tracked, Expected, Pending, InLate
    <3> QED
      BY <1>1, <2>1, <3>1, <3>2, <3>3, StillTracked DEF Tracked
  <2> QED
    BY <1>1, <2>1, <2>2 DEF HInv, Kept
<1>4. CASE SendFails(r)
  BY <1>1, <1>4 DEF SendFails
<1>5. CASE Resume(r)
  <2>1. /\ call' = [call EXCEPT ![r] = "done"] /\ call[r] = "waiting" /\ future[r] # Open
        /\ UNCHANGED <<future, sent, late>>
    BY <1>5 DEF Resume, Settle
  <2>2. ASSUME reader' = "reading" PROVE Tracked'
    <3>1. Tracked
      BY <1>1, <2>2 DEF HInv, Kept
    <3>2. \A q \in sent : q \in Requests
      BY DEF HInv, Kept
    <3>3. \A q \in sent : Unread(q) => Expected(q)'
      BY <1>1, <2>1, <3>1, <3>2 DEF Tracked, Expected, Pending, InLate
    <3> QED
      BY <1>1, <2>1, <3>1, <3>2, <3>3, StillTracked DEF Tracked
  <2> QED
    BY <1>1, <2>1, <2>2 DEF HInv, Kept
<1>6. CASE Timeout(r) \/ CancelCall(r)
  <2>1. /\ call' = [call EXCEPT ![r] = "done"] /\ call[r] \in {"sending", "waiting"}
        /\ UNCHANGED <<future, sent>>
    BY <1>6 DEF Timeout, CancelCall, GiveUp, Settle
  <2>2. late' = Append(late, r) /\ late \in Seq(Requests)
    BY <1>6 DEF Timeout, CancelCall, GiveUp, Honest, HInv, Kept
  <2>3. /\ late' \in Seq(Requests) /\ InLate(r)'
        /\ \A q \in Requests : InLate(q) => InLate(q)'
    <3>1. /\ late' \in Seq(Requests) /\ Len(late') = Len(late) + 1 /\ Len(late) \in Nat
          /\ late'[Len(late) + 1] = r
          /\ \A i \in 1..Len(late) : late'[i] = late[i]
      BY <2>2
    <3> QED
      BY <3>1 DEF InLate
  <2>4. ASSUME reader' = "reading" PROVE Tracked'
    <3>1. Tracked
      BY <1>1, <2>4 DEF HInv, Kept
    <3>2. \A q \in sent : q \in Requests
      BY DEF HInv, Kept
    <3>3. \A q \in sent : Unread(q) => Expected(q)'
      BY <1>1, <2>1, <2>3, <3>1, <3>2 DEF Tracked, Expected, Pending
    <3> QED
      BY <1>1, <2>1, <3>1, <3>2, <3>3, StillTracked DEF Tracked
  <2> QED
    BY <1>1, <2>1, <2>3, <2>4 DEF HInv, Kept
<1> QED
  BY <1>2, <1>3, <1>4, <1>5, <1>6

\* A frame that is an answer is expected: it is neither a second one nor unknown.
LEMMA FrameExpected ==
    ASSUME HInv, Honest, NEW f \in Frame, Read(f)
    PROVE  /\ wire \in Seq(Frame) /\ Len(wire) > 0 /\ f = wire[1] /\ Tracked
           /\ Len(wire') = Len(wire) - 1 /\ \A i \in 1..Len(wire') : wire'[i] = wire[i + 1]
           /\ IsAnswer(f) => f.id \in sent /\ Unread(f.id) /\ Expected(f.id) /\ answers[f.id] # 0
<1>1. wire # <<>> /\ f = Head(wire) /\ wire' = Tail(wire) /\ wire \in Seq(Frame)
  BY DEF Read, HInv, IInv, Wire
<1>2. Len(wire) > 0 /\ f = wire[1] /\ 1 \in 1..Len(wire)
  BY <1>1
<1>3. Len(wire') = Len(wire) - 1 /\ \A i \in 1..Len(wire') : wire'[i] = wire[i + 1]
  BY <1>1
<1>4. Tracked
  BY DEF Read, HInv, Kept
<1>5. ASSUME IsAnswer(f)
      PROVE  f.id \in sent /\ Unread(f.id) /\ Expected(f.id) /\ answers[f.id] # 0
  <2>1. answers[f.id] > 0 /\ f.kind = "answer"
    BY <1>2, <1>5 DEF HInv, IInv, Wire, IsAnswer
  <2>2. f.id \in Requests \cup Strays
    BY <2>1 DEF Frame
  <2>3. f.id \in sent
    BY <2>1, <2>2 DEF HInv, IInv, Answers, Honest
  <2>4. OnWire(f.id)
    BY <1>2, <2>1 DEF OnWire
  <2> QED
    BY <1>4, <2>1, <2>3, <2>4 DEF Tracked, Unread
<1> QED
  BY <1>1, <1>2, <1>3, <1>4, <1>5

LEMMA ReadKept ==
    ASSUME HInv, Honest, Honest', ReadFrame \/ TooManyFrames
    PROVE  Kept'
<1>1. ASSUME NEW f \in Frame, Read(f), NEW why \in {"frames", "malformed"}, ReaderFails(why)
      PROVE  Kept'
  BY <1>1 DEF Read, ReaderFails, history, HInv, Kept
<1>2. ASSUME NEW f \in Frame, Read(f), ReadTwice(f) \/ ReadUnknown(f) PROVE FALSE
  <2>1. IsAnswer(f) /\ Expected(f.id)
    BY <1>2, FrameExpected DEF ReadTwice, ReadUnknown
  <2> QED
    BY <1>2, <2>1 DEF Expected, Pending, InLate, ReadTwice, ReadUnknown
<1>3. ASSUME NEW f \in Frame, Read(f), ReadEvent(f) \/ ReadAnswer(f) \/ ReadLate(f)
      PROVE  Kept'
  <2>1. /\ UNCHANGED <<call, sent, answers, reader, failure>> /\ sent \subseteq Requests
        /\ late \in Seq(Requests) /\ DOMAIN future = Requests
    BY <1>3 DEF Read, ReadEvent, ReadAnswer, ReadLate, history, HInv, Kept, Registered
  <2>2. \A q \in sent : OnWire(q)' => OnWire(q)
    BY <1>3, FrameExpected DEF OnWire
  <2>3. IsAnswer(f) => ~Unread(f.id)'
    <3>1. SUFFICES ASSUME IsAnswer(f), NEW i \in 1..Len(wire'),
                          wire'[i].kind = "answer", wire'[i].id = f.id
                   PROVE  FALSE
      BY <1>3, <2>1, FrameExpected DEF Unread, OnWire
    <3>2. /\ wire[i + 1] = wire'[i] /\ i + 1 \in 1..Len(wire) /\ i + 1 # 1 /\ 1 \in 1..Len(wire)
          /\ wire[1] = f /\ f.kind = "answer" /\ AnswersDiffer
      BY <1>3, <3>1, FrameExpected DEF IsAnswer, Tracked
    <3> QED
      BY <3>1, <3>2 DEF AnswersDiffer
  <2>4. AnswersDiffer'
    <3>1. \A i \in 1..Len(wire') : i + 1 \in 1..Len(wire) /\ wire'[i] = wire[i + 1]
      BY <1>3, FrameExpected
    <3>2. AnswersDiffer
      BY <1>3, FrameExpected DEF Tracked
    <3>3. \A i, k \in 1..Len(wire') : i + 1 = k + 1 => i = k
      OBVIOUS
    <3> QED
      BY <3>1, <3>2, <3>3 DEF AnswersDiffer
  <2>5. /\ late' \in Seq(Requests)
        /\ \A q \in sent : (IsAnswer(f) /\ f.id = q) \/ (Expected(q) => Expected(q)')
    <3>1. CASE ReadEvent(f)
      BY <2>1, <3>1 DEF ReadEvent, Expected, Pending, InLate
    <3>2. CASE ReadAnswer(f)
      BY <2>1, <3>2 DEF ReadAnswer, IsAnswer, Expected, Pending, InLate
    <3>3. CASE ReadLate(f)
      <4>1. PICK p \in 1..Len(late) : late[p] = f.id /\ late' = RemoveAt(late, p)
        BY <3>3 DEF ReadLate
      <4>2. /\ late' \in Seq(Requests)
            /\ \A i \in 1..Len(late) : i # p => \E k \in 1..Len(late') : late'[k] = late[i]
        BY <2>1, <4>1, Dropped
      <4>3. \A q \in sent : q # f.id /\ InLate(q) => InLate(q)'
        BY <4>1, <4>2 DEF InLate
      <4>4. UNCHANGED future /\ IsAnswer(f)
        BY <3>3 DEF ReadLate
      <4> QED
        BY <2>1, <4>2, <4>3, <4>4 DEF Expected, Pending
    <3> QED
      BY <1>3, <3>1, <3>2, <3>3
  <2>6. Tracked'
    <3>1. \A q \in sent : Unread(q)' => Unread(q)
      BY <2>1, <2>2 DEF Unread
    <3>2. \A q \in sent : Unread(q)' => ~(IsAnswer(f) /\ f.id = q)
      BY <2>3
    <3>3. Tracked
      BY <1>3, FrameExpected
    <3> QED
      BY <2>1, <2>4, <2>5, <3>1, <3>2, <3>3 DEF Tracked
  <2> QED
    BY <2>1, <2>5, <2>6 DEF HInv, Kept
<1> QED
  BY <1>1, <1>2, <1>3 DEF ReadFrame, TooManyFrames, ReadMalformed

LEMMA OtherKept ==
    ASSUME HInv, Honest, Honest',
           \/ LoseConnection \/ StartWait \/ Wake \/ WaitTimeout \/ ReaderLoses \/ ReaderCancelled
           \/ Close \/ Joined \/ CloseSocket \/ UNCHANGED vars
    PROVE  Kept'
<1>1. CASE LoseConnection \/ CloseSocket \/ ReaderLoses
  BY <1>1 DEF LoseConnection, CloseSocket, ReaderLoses, Honest
<1>2. CASE StartWait \/ Wake \/ WaitTimeout \/ UNCHANGED vars
  <2>1. UNCHANGED <<wire, call, future, late, reader, failure, sent, answers>>
    BY <1>2 DEF StartWait, Wake, WaitTimeout, vars, clientVars, history
  <2> QED
    BY <2>1 DEF HInv, Kept, Tracked, AnswersDiffer, Unread, OnWire, Expected, Pending, InLate
<1>3. CASE ReaderCancelled \/ Close \/ Joined
  <2>1. UNCHANGED <<late, failure, sent>> /\ reader' # "reading"
    BY <1>3 DEF ReaderCancelled, Close, Joined, history
  <2> QED
    BY <2>1 DEF HInv, Kept
<1> QED
  BY <1>1, <1>2, <1>3

\* What a step keeps of the types, honest server or not.
LEMMA TypesKept ==
    ASSUME HInv, [Next]_vars
    PROVE  sent' \subseteq Requests /\ late' \in Seq(Requests) /\ Registered'
<1>0. sent \subseteq Requests /\ late \in Seq(Requests) /\ DOMAIN future = Requests
      /\ DOMAIN call = Requests
  BY DEF HInv, Kept, Registered
<1>1. sent' \subseteq Requests
  BY <1>0 DEF Next, Deliver, LoseConnection, Request, SendDone, SendFails, Resume, Timeout,
         CancelCall, GiveUp, Settle, ReadFrame, TooManyFrames, Read, ReaderLoses, ReaderCancelled,
         StartWait, Wake, WaitTimeout, Close, Joined, CloseSocket, vars, history
<1>2. \/ UNCHANGED late
      \/ \E r \in Requests : late' = Append(late, r) \/ late' = Tail(Append(late, r))
      \/ \E p \in 1..Len(late) : late' = RemoveAt(late, p)
  BY DEF Next, Deliver, LoseConnection, Request, SendDone, SendFails, Resume, Timeout, CancelCall,
         GiveUp, Settle, ReadFrame, TooManyFrames, Read, ReadMalformed, ReadEvent, ReadAnswer,
         ReadTwice, ReadLate, ReadUnknown, ReaderFails, ReaderLoses, ReaderCancelled, StartWait,
         Wake, WaitTimeout, Close, Joined, CloseSocket, vars, clientVars
<1>3. \A r \in Requests : /\ Append(late, r) \in Seq(Requests)
                         /\ Tail(Append(late, r)) \in Seq(Requests)
  <2> TAKE r \in Requests
  <2>1. /\ Append(late, r) \in Seq(Requests) /\ Len(Append(late, r)) = Len(late) + 1
        /\ Len(late) \in Nat
    BY <1>0
  <2>2. Len(Append(late, r)) > 0
    BY <2>1
  <2> QED
    BY <2>1, <2>2, TailOf
<1>4. late' \in Seq(Requests)
  BY <1>0, <1>2, <1>3, Dropped
<1>5. DOMAIN future' = Requests /\ DOMAIN call' = Requests
  BY <1>0 DEF Next, Deliver, LoseConnection, Request, SendDone, SendFails, Resume, Timeout,
         CancelCall, GiveUp, Settle, ReadFrame, TooManyFrames, Read, ReadMalformed, ReadEvent,
         ReadAnswer, ReadTwice, ReadLate, ReadUnknown, ReaderFails, ReaderLoses, ReaderCancelled,
         StartWait, Wake, WaitTimeout, Close, Joined, FinishClose, FailPending, CloseSocket, vars,
         clientVars
<1> QED
  BY <1>1, <1>4, <1>5 DEF Registered

LEMMA NextHInv == HInv /\ [Next]_vars => HInv'
<1> SUFFICES ASSUME HInv, [Next]_vars PROVE HInv'
  OBVIOUS
<1>1. IInv'
  BY NextIInv DEF HInv
<1>2. Kept'
  <2>1. CASE Honest'
    BY <2>1, HonestBefore, DeliverKept, CallKept, ReadKept, OtherKept DEF Next
  <2>2. CASE ~Honest'
    BY <2>2, TypesKept DEF Kept
  <2> QED
    BY <2>1, <2>2
<1> QED
  BY <1>1, <1>2, TypesKept DEF HInv

\* A session whose server answers each request at most once, and only who asked, is
\* never failed by an answer: not by one that crosses a timeout, a cancellation or a
\* send, in whatever order the answers come.
THEOREM HonestSessionsLast == Spec => []HonestServerKeepsSession
<1>1. HInv => HonestServerKeepsSession
  <2> SUFFICES ASSUME HInv,
                      \A i \in Requests \cup Strays : ~(answers[i] > 1),
                      \A i \in Strays : ~(answers[i] > 0),
                      forgotten = {}, socket = "open"
               PROVE  failure \notin {"twice", "unknown"}
    BY DEF HonestServerKeepsSession
  <2>1. \A i \in Requests \cup Strays : answers[i] \in Nat
    BY DEF HInv, IInv, Answers
  <2>2. \A i \in Requests \cup Strays : answers[i] <= 1
    BY <2>1
  <2>3. \A i \in Strays : answers[i] = 0
    BY <2>1
  <2> QED
    BY <2>2, <2>3 DEF HInv, Kept, Honest
<1> QED
  BY <1>1, InitHInv, NextHInv, PTL DEF Spec

===============================================================================
