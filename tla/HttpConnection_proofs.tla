----------------------- MODULE HttpConnection_proofs ------------------------
(***************************************************************************)
(* Proofs about HttpConnection: for any kinds of requests and any number   *)
(* of them, responses go out in order, one handler is at work at a time,   *)
(* and no response is cut off.                                             *)
(***************************************************************************)
EXTENDS HttpConnection, SequenceTheorems, TLAPS

-----------------------------------------------------------------------------
(* The inductive invariant                                                 *)

\* The units of a connection: after the head of a "post" comes its body, after anything
\* else the head of the next request.  The units us are the run that starts with e.
HeadOf(n) == [part |-> "head", n |-> n]
BodyOf(n) == [part |-> "body", n |-> n]
After(reqs, u) == IF u.part = "head" /\ reqs[u.n] = "post" THEN BodyOf(u.n) ELSE HeadOf(u.n + 1)
Runs(reqs, us, e) ==
  /\ us # <<>> => us[1] = e
  /\ \A i \in 1..(Len(us) - 1) : us[i + 1] = After(reqs, us[i])
EndOf(reqs, us, e) == IF us = <<>> THEN e ELSE After(reqs, us[Len(us)])

\* What the loop reads next, if it does.
Expected ==
  IF \/ at = "body" /\ c.ready = "nothing"
     \/ at = "head" /\ c.ready = "result" /\ requests[c.n] = "post"
    THEN BodyOf(c.n) ELSE HeadOf(c.n + 1)
Ahead == c.stream.buffer \o inbox

\* The close callback is counted while it is on the IOLoop; it is there at most once, and
\* only after the stream was closed.
PendingOK(st) ==
  \/ st.pending = 0 /\ \A i \in 1..Len(st.tasks) : st.tasks[i].kind = "close"
  \/ /\ st.pending = 1 /\ st.closed
     /\ \E k \in 1..Len(st.tasks) :
          \A i \in 1..Len(st.tasks) : st.tasks[i].kind # "close" <=> i = k

\* What holds of the connection record, open or closed.
Sound(r) ==
  /\ r \in Connection
  /\ PendingOK(r.stream)
  /\ r.stream.closeCallback => r.n # 0

\* What is received or under way are requests that were sent, and a connection ends, or
\* is reset, only when the client has gone.
Sane ==
  /\ TypeOK /\ Sound(c)
  /\ c.n <= Len(requests)
  /\ \A i \in 1..Len(c.stream.buffer) : c.stream.buffer[i].n <= Len(requests)
  /\ \A i \in 1..Len(inbox) : inbox[i].n <= Len(requests)
  /\ tcp # "up" => peer \in {"left", "vanished"}
  /\ \A i \in 1..Len(c.stream.tasks) : c.stream.tasks[i].kind = "close" => tcp = "reset"
  /\ at = "idle" <=> peer = "absent"
  /\ at = "idle" => /\ c.stream = IO!Fresh /\ c.n = 0 /\ c.ready = "nothing"
                    /\ requests = <<>> /\ inbox = <<>>
  /\ at # "idle" => c.n # 0 \/ at = "head" \/ at = "over"
  /\ at = "head" /\ c.ready = "result" => c.n # 0
  /\ c.ready = "error" => c.stream.closed
  /\ c.ready = "timeout" => at = "head"

Busy(n) == handler[n] = "running"
NoneBusy == \A n \in Number : ~Busy(n)

\* Where an open connection is between two requests, before the handler of the request in
\* hand runs, while it runs, and while its response is being written.
Between ==
  \/ at \in {"idle", "moment"} \/ (at = "head" /\ c.ready = "nothing")
Got == (at = "head" /\ c.ready = "result") \/ at = "body"
Working == at \in {"response", "detached"}

Phase ==
  /\ at # "over"
  /\ c.stream.reading => /\ at \in {"head", "body"} /\ c.ready \in {"nothing", "timeout"}
                         /\ c.stream.buffer = <<>>
  /\ at \in {"head", "body"} => ~c.finished /\ ~c.writing
  /\ at = "moment" => c.ready = "result"
  /\ ~Working => NoneBusy /\ c.stream.writeBuffer = <<>>
  /\ Between => Len(Responses) = c.n
  /\ Got => Len(Responses) = c.n - 1
  /\ Working =>
       /\ \A n \in Number : Busy(n) => n = c.n
       /\ Busy(c.n) => Len(Responses) = c.n - 1 /\ c.stream.writeBuffer = <<>> /\ ~c.writing
       /\ ~Busy(c.n) => Len(Responses) = c.n
  /\ at = "response" =>
       /\ c.ready = IF c.finished THEN "result" ELSE "nothing"
       /\ c.finished => ~Busy(c.n) /\ c.stream.writeBuffer = <<>>
       /\ ~c.finished /\ ~Busy(c.n) => c.writing
  /\ c.ready # "timeout" => Runs(requests, Ahead, Expected)
  /\ c.ready # "timeout" /\ peer \in {"absent", "open"} =>
       EndOf(requests, Ahead, Expected) = HeadOf(Len(requests) + 1)

HttpInv ==
  /\ Sane /\ ResponsesInOrder /\ NothingIsCutOff
  /\ ~c.stream.closed => Phase

-----------------------------------------------------------------------------
(* The operations on a connection                                          *)

\* What closing a connection, or finishing with a closed one, may do to it.
Keeps(r, q) ==
  /\ Sound(q)
  /\ q.n = r.n /\ q.stream.buffer = r.stream.buffer
  /\ q.stream.writeBuffer = r.stream.writeBuffer
  /\ \A i \in 1..Len(q.stream.tasks) : q.stream.tasks[i].kind = "close" =>
       \E j \in 1..Len(r.stream.tasks) : r.stream.tasks[j].kind = "close"
  /\ q.ready = "timeout" => r.ready = "timeout"
  /\ q.ready = "result" => r.ready = "result" \/ at = "response"
  /\ r.stream.closed => q.stream.closed

\* Two operations that keep what matters keep it together.
LEMMA KeepsTransitive ==
  ASSUME NEW p, NEW q, NEW r, Keeps(p, q), Keeps(q, r)  PROVE Keeps(p, r)
BY DEF Keeps

\* Putting the close callback on the IOLoop.
LEMMA ScheduleOnClose ==
  ASSUME NEW st \in IO!Stream, st.pending = 0, st.closed, PendingOK(st), NEW u \in Unit
  PROVE  LET q == IO!Schedule(st, [kind |-> "onClose", data |-> <<u>>]) IN
         /\ q \in IO!Stream /\ PendingOK(q)
         /\ q = [st EXCEPT !.pending = 1, !.tasks = q.tasks]
         /\ \A i \in 1..Len(q.tasks) : q.tasks[i].kind = "close" =>
              \E j \in 1..Len(st.tasks) : st.tasks[j].kind = "close"
<1>. DEFINE task == [kind |-> "onClose", data |-> <<u>>]
            q == IO!Schedule(st, task)
<1>1. task \in IO!Task /\ task.kind = "onClose"
  BY DEF IO!Task
<1>. HIDE DEF task
<1>2. st.tasks \in Seq(IO!Task)
  BY DEF IO!Stream
<1>3. q = [st EXCEPT !.pending = 1, !.tasks = Append(st.tasks, task)]
  BY DEF IO!Schedule, IO!Stream
<1>4. /\ q.tasks = Append(st.tasks, task) /\ q.pending = 1 /\ q.closed
      /\ q = [st EXCEPT !.pending = 1, !.tasks = q.tasks]
  BY <1>3 DEF IO!Stream
<1>5. /\ q.tasks \in Seq(IO!Task) /\ Len(q.tasks) = Len(st.tasks) + 1
      /\ \A i \in 1..Len(st.tasks) : q.tasks[i] = st.tasks[i]
      /\ q.tasks[Len(st.tasks) + 1] = task
  BY <1>1, <1>2, <1>4
<1>. HIDE DEF q
<1>6. q \in IO!Stream
  <2>. DEFINE t == q.tasks
  <2>1. q = [st EXCEPT !.pending = 1, !.tasks = t] /\ t \in Seq(IO!Task)
    BY <1>4, <1>5
  <2>. HIDE DEF t
  <2>. QED  BY <2>1 DEF IO!Stream
<1>7. PendingOK(q)
  <2>. DEFINE k == Len(st.tasks) + 1
  <2>1. \A i \in 1..Len(st.tasks) : st.tasks[i].kind = "close"
    BY DEF PendingOK
  <2>2. k \in 1..Len(q.tasks) /\ \A i \in 1..Len(q.tasks) : q.tasks[i].kind # "close" <=> i = k
    BY <1>1, <1>2, <1>5, <2>1
  <2>. QED  BY <1>4, <2>2 DEF PendingOK
<1>8. \A i \in 1..Len(q.tasks) : q.tasks[i].kind = "close" =>
              \E j \in 1..Len(st.tasks) : st.tasks[j].kind = "close"
  BY <1>1, <1>2, <1>5
<1>. QED  BY <1>4, <1>6, <1>7, <1>8 DEF q, task

\* Each of the three below changes little.
LEMMA ResolveKeeps ==
  ASSUME NEW r, Sound(r)
  PROVE  Keeps(r, Resolve(r, "error")) /\ Resolve(r, "error").stream = r.stream
         /\ Resolve(r, "error").writing = r.writing
BY DEF Keeps, Sound, Resolve, Connection, PendingOK

\* _clear_callbacks touches the close callback only.
LEMMA ClearCallbacksKeeps ==
  ASSUME NEW r, Sound(r)
  PROVE  /\ Keeps(r, ClearCallbacks(r))
         /\ ClearCallbacks(r).stream.closed = r.stream.closed
BY ZenonT(60) DEF Keeps, Sound, ClearCallbacks, Connection, PendingOK, IO!Stream

\* _response_finished is set, the stream left alone.
LEMMA SetFinishedKeeps ==
  ASSUME NEW r, Sound(r)
  PROVE  Keeps(r, SetFinished(r)) /\ SetFinished(r).stream = r.stream
BY ZenonT(60) DEF Keeps, Sound, SetFinished, Resolve, Connection, PendingOK

\* _maybe_run_close_callback.
LEMMA MaybeRunCloseCallbackKeeps ==
  ASSUME NEW r, Sound(r)
  PROVE  /\ Keeps(r, MaybeRunCloseCallback(r))
         /\ MaybeRunCloseCallback(r).stream.closed = r.stream.closed
         /\ ~r.stream.closed => MaybeRunCloseCallback(r) = r
<1>. DEFINE read == IF r.stream.reading THEN Resolve(r, "error") ELSE r
            write == IF r.writing THEN SetFinished(ClearCallbacks(read)) ELSE read
            st == [write.stream EXCEPT !.reading = FALSE, !.closeCallback = FALSE]
            u == HeadOf(r.n)
            q == IO!Schedule(st, [kind |-> "onClose", data |-> <<u>>])
            new == IF write.stream.closeCallback THEN q ELSE st
<1>1. CASE ~r.stream.closed \/ r.stream.pending # 0
  BY <1>1 DEF MaybeRunCloseCallback, Keeps
<1>2. CASE r.stream.closed /\ r.stream.pending = 0
  <2>1. Keeps(r, read) /\ read.stream = r.stream
    BY ResolveKeeps DEF Keeps
  <2>2. /\ Keeps(r, write) /\ write.stream.closed = r.stream.closed
        /\ write.stream.pending = 0
        /\ write.stream.closeCallback => r.stream.closeCallback
    <3>. HIDE DEF read
    <3>1. CASE ~r.writing
      BY <1>2, <2>1, <3>1
    <3>2. CASE r.writing
      <4>. DEFINE cleared == ClearCallbacks(read)
      <4>1. Keeps(read, cleared) /\ cleared.stream.closed = read.stream.closed
            /\ cleared.stream.pending = read.stream.pending /\ ~cleared.stream.closeCallback
        BY <2>1, ClearCallbacksKeeps DEF Keeps, ClearCallbacks, Sound, Connection, IO!Stream
      <4>. HIDE DEF cleared
      <4>2. Keeps(cleared, write) /\ write.stream = cleared.stream
        BY <3>2, <4>1, SetFinishedKeeps DEF Keeps, cleared
      <4>. QED  BY <1>2, <2>1, <4>1, <4>2, KeepsTransitive
    <3>. QED  BY <3>1, <3>2
  <2>3. MaybeRunCloseCallback(r) = [write EXCEPT !.stream = new]
    BY <1>2 DEF MaybeRunCloseCallback, HeadOf
  <2>. HIDE DEF write
  <2>4. /\ st \in IO!Stream /\ PendingOK(st) /\ st.pending = 0 /\ ~st.closeCallback
        /\ st.buffer = write.stream.buffer /\ st.writeBuffer = write.stream.writeBuffer
        /\ st.closed = write.stream.closed /\ st.tasks = write.stream.tasks
    <3>. DEFINE w == write.stream
    <3>1. w \in IO!Stream /\ PendingOK(w) /\ w.pending = 0
      BY <2>2 DEF Keeps, Sound, Connection
    <3>. HIDE DEF w
    <3>2. st = [w EXCEPT !.reading = FALSE, !.closeCallback = FALSE]
      BY DEF st, w
    <3>3. /\ st \in IO!Stream /\ st.pending = w.pending /\ ~st.closeCallback
          /\ st.buffer = w.buffer /\ st.writeBuffer = w.writeBuffer
          /\ st.closed = w.closed /\ st.tasks = w.tasks
      BY <3>1, <3>2 DEF IO!Stream
    <3>. QED  BY <3>1, <3>3 DEF PendingOK, w
  <2>. HIDE DEF st
  <2>5. /\ new \in IO!Stream /\ PendingOK(new) /\ ~new.closeCallback
        /\ new.buffer = st.buffer /\ new.writeBuffer = st.writeBuffer
        /\ new.closed = st.closed
        /\ \A i \in 1..Len(new.tasks) : new.tasks[i].kind = "close" =>
              \E j \in 1..Len(st.tasks) : st.tasks[j].kind = "close"
    <3>1. CASE write.stream.closeCallback
      <4>1. u \in Unit
        BY <2>2, <3>1 DEF HeadOf, Unit, Number, Sound, Connection
      <4>. HIDE DEF u
      <4>2. /\ q \in IO!Stream /\ PendingOK(q)
            /\ q = [st EXCEPT !.pending = 1, !.tasks = q.tasks]
            /\ \A i \in 1..Len(q.tasks) : q.tasks[i].kind = "close" =>
                  \E j \in 1..Len(st.tasks) : st.tasks[j].kind = "close"
        BY <1>2, <2>2, <2>4, <4>1, ScheduleOnClose
      <4>. HIDE DEF q
      <4>3. /\ q.closeCallback = st.closeCallback /\ q.buffer = st.buffer
            /\ q.writeBuffer = st.writeBuffer /\ q.closed = st.closed
        BY <2>4, <4>2 DEF IO!Stream
      <4>. QED  BY <2>4, <3>1, <4>2, <4>3
    <3>2. CASE ~write.stream.closeCallback
      BY <2>4, <3>2
    <3>. QED  BY <3>1, <3>2
  <2>. HIDE DEF new
  <2>6. Keeps(write, [write EXCEPT !.stream = new])
    BY <2>2, <2>4, <2>5 DEF Keeps, Sound, Connection
  <2>7. [write EXCEPT !.stream = new].stream = new
    BY <2>2 DEF Keeps, Sound, Connection
  <2>. QED  BY <1>2, <2>2, <2>3, <2>4, <2>5, <2>6, <2>7, KeepsTransitive
<1>. QED  BY <1>1, <1>2

\* close.
LEMMA CloseStreamKeeps ==
  ASSUME NEW r, Sound(r)
  PROVE  Keeps(r, CloseStream(r)) /\ CloseStream(r).stream.closed
<1>. DEFINE p == [r EXCEPT !.stream.closed = TRUE, !.stream.handler = FALSE,
                           !.stream.interest = {}]
<1>1. Keeps(r, p) /\ p.stream.closed
  <2>1. /\ p.n = r.n /\ p.ready = r.ready /\ p.finished = r.finished
        /\ p.writing = r.writing /\ p \in Connection
        /\ p.stream.closed /\ p.stream.buffer = r.stream.buffer
        /\ p.stream.writeBuffer = r.stream.writeBuffer
        /\ p.stream.tasks = r.stream.tasks /\ p.stream.pending = r.stream.pending
        /\ p.stream.closeCallback = r.stream.closeCallback
    BY DEF Sound, Connection, IO!Stream
  <2>. HIDE DEF p
  <2>. QED  BY <2>1, SMTT(40) DEF Keeps, Sound, PendingOK
<1>2. CloseStream(r) = MaybeRunCloseCallback(p)
  BY DEF CloseStream
<1>. HIDE DEF p
<1>. QED  BY <1>1, <1>2, MaybeRunCloseCallbackKeeps, KeepsTransitive DEF Keeps

\* _finish_request.
LEMMA FinishRequestKeeps ==
  ASSUME NEW r, Sound(r), NEW d \in BOOLEAN
  PROVE  /\ Keeps(r, FinishRequest(r, d))
         /\ d \/ r.stream.closed => FinishRequest(r, d).stream.closed
         /\ ~d => FinishRequest(r, d) = SetFinished(ClearCallbacks(r))
<1>. DEFINE cleared == ClearCallbacks(r)
            p == IF d THEN CloseStream(cleared) ELSE cleared
<1>1. Keeps(r, cleared) /\ cleared.stream.closed = r.stream.closed
  BY ClearCallbacksKeeps
<1>. HIDE DEF cleared
<1>2. Keeps(cleared, p) /\ (d \/ r.stream.closed => p.stream.closed)
  <2>1. CASE d
    BY <1>1, <2>1, CloseStreamKeeps DEF Keeps
  <2>2. CASE ~d
    BY <1>1, <2>2 DEF Keeps
  <2>. QED  BY <2>1, <2>2
<1>3. FinishRequest(r, d) = SetFinished(p)
  BY DEF FinishRequest, cleared
<1>4. ~d => p = ClearCallbacks(r)
  BY DEF cleared
<1>. HIDE DEF p
<1>. QED  BY <1>1, <1>2, <1>3, <1>4, SetFinishedKeeps, KeepsTransitive DEF Keeps

-----------------------------------------------------------------------------
(* Runs of units                                                           *)

\* A run that is cut short, that loses its first unit, or that is continued.
LEMMA RunsPrefix ==
  ASSUME NEW reqs, NEW us \in Seq(Unit), NEW e, Runs(reqs, us, e), NEW k \in 0..Len(us)
  PROVE  Runs(reqs, SubSeq(us, 1, k), e)
<1>. DEFINE p == SubSeq(us, 1, k)
<1>1. p \in Seq(Unit) /\ Len(p) = k /\ \A i \in 1..k : p[i] = us[i]
  OBVIOUS
<1>2. p # <<>> => k >= 1
  BY <1>1
<1>. HIDE DEF p
<1>3. p # <<>> => p[1] = e
  BY <1>1, <1>2 DEF Runs
<1>4. \A i \in 1..(Len(p) - 1) : p[i + 1] = After(reqs, p[i])
  BY <1>1 DEF Runs
<1>. QED  BY <1>3, <1>4 DEF Runs, p

\* The first unit of a run is the one that is expected.
LEMMA RunsTail ==
  ASSUME NEW reqs, NEW us \in Seq(Unit), NEW e, Runs(reqs, us, e), us # <<>>
  PROVE  /\ us[1] = e /\ Runs(reqs, Tail(us), After(reqs, e))
         /\ EndOf(reqs, Tail(us), After(reqs, e)) = EndOf(reqs, us, e)
<1>. DEFINE p == Tail(us)
<1>1. p \in Seq(Unit) /\ Len(p) = Len(us) - 1 /\ \A i \in 1..Len(p) : p[i] = us[i + 1]
  OBVIOUS
<1>2. Len(us) \in Nat \ {0} /\ us[1] = e
  BY DEF Runs
<1>. HIDE DEF p
<1>3. p # <<>> <=> Len(us) > 1
  <2>1. p # <<>> <=> Len(p) # 0
    BY <1>1
  <2>. QED  BY <1>1, <1>2, <2>1
<1>4. p # <<>> => p[1] = After(reqs, e)
  BY <1>1, <1>2, <1>3 DEF Runs
<1>5. \A i \in 1..(Len(p) - 1) : p[i + 1] = After(reqs, p[i])
  BY <1>1, <1>2 DEF Runs
<1>6. EndOf(reqs, p, After(reqs, e)) = EndOf(reqs, us, e)
  <2>1. CASE p = <<>>
    BY <1>2, <1>3, <2>1 DEF EndOf
  <2>2. CASE p # <<>>
    BY <1>1, <1>2, <1>3, <2>2 DEF EndOf
  <2>. QED  BY <2>1, <2>2
<1>. QED  BY <1>2, <1>4, <1>5, <1>6 DEF Runs, p

\* A run goes on where another ends.
LEMMA RunsOn ==
  ASSUME NEW reqs, NEW us \in Seq(Unit), NEW vs \in Seq(Unit), NEW e,
         Runs(reqs, us, e), Runs(reqs, vs, EndOf(reqs, us, e)), vs # <<>>
  PROVE  /\ Runs(reqs, us \o vs, e)
         /\ EndOf(reqs, us \o vs, e) = After(reqs, vs[Len(vs)])
<1>. DEFINE p == us \o vs
<1>1. /\ p \in Seq(Unit) /\ Len(p) = Len(us) + Len(vs) /\ Len(us) \in Nat /\ Len(vs) \in Nat \ {0}
      /\ \A i \in 1..Len(us) : p[i] = us[i]
      /\ \A i \in 1..Len(vs) : p[Len(us) + i] = vs[i]
  OBVIOUS
<1>. HIDE DEF p
<1>2. p # <<>> /\ p[1] = e
  <2>1. CASE us = <<>>
    BY <1>1, <2>1 DEF Runs, EndOf
  <2>2. CASE us # <<>>
    BY <1>1, <2>2 DEF Runs
  <2>. QED  BY <2>1, <2>2
<1>3. ASSUME NEW i \in 1..(Len(p) - 1)  PROVE p[i + 1] = After(reqs, p[i])
  <2>1. CASE i < Len(us)
    <3>1. i \in 1..(Len(us) - 1) /\ i \in 1..Len(us) /\ i + 1 \in 1..Len(us)
      BY <1>1, <2>1
    <3>2. p[i] = us[i] /\ p[i + 1] = us[i + 1]
      BY <1>1, <3>1
    <3>. QED  BY <3>1, <3>2 DEF Runs
  <2>2. CASE i = Len(us)
    BY <1>1, <2>2 DEF Runs, EndOf
  <2>3. CASE i > Len(us)
    <3>. DEFINE j == i - Len(us)
    <3>1. j \in 1..(Len(vs) - 1) /\ i = Len(us) + j /\ i + 1 = Len(us) + (j + 1)
      BY <1>1, <2>3
    <3>. HIDE DEF j
    <3>2. p[i] = vs[j] /\ p[i + 1] = vs[j + 1]
      BY <1>1, <3>1
    <3>. QED  BY <3>1, <3>2 DEF Runs
  <2>. QED  BY <1>1, <2>1, <2>2, <2>3
<1>4. EndOf(reqs, p, e) = After(reqs, vs[Len(vs)])
  BY <1>1, <1>2 DEF EndOf
<1>. QED  BY <1>2, <1>3, <1>4 DEF Runs, p

\* A request sent later does not change what the units before it are.
LEMMA RunsStay ==
  ASSUME NEW reqs \in Seq(Kind), NEW kind, NEW us \in Seq(Unit), NEW e,
         \A i \in 1..Len(us) : us[i].n <= Len(reqs),
         Runs(reqs, us, e)
  PROVE  /\ Runs(Append(reqs, kind), us, e)
         /\ EndOf(Append(reqs, kind), us, e) = EndOf(reqs, us, e)
<1>1. \A i \in 1..Len(us) : After(Append(reqs, kind), us[i]) = After(reqs, us[i])
  <2>. TAKE i \in 1..Len(us)
  <2>0. us[i] \in Unit
    OBVIOUS
  <2>1. us[i].n \in 1..Len(reqs)
    BY <2>0 DEF Unit, Number
  <2>2. Append(reqs, kind)[us[i].n] = reqs[us[i].n]
    BY <2>1
  <2>. QED  BY <2>2 DEF After
<1>2. us # <<>> => Len(us) \in 1..Len(us)
  OBVIOUS
<1>3. \A i \in 1..(Len(us) - 1) : i \in 1..Len(us)
  OBVIOUS
<1>. QED  BY <1>1, <1>2, <1>3 DEF Runs, EndOf

\* What a recv finds is taken from the front of what is under way.
Rest(q, ch) == SubSeq(q, Len(ch.units) + 1, Len(q))

\* What recv returns and what is left in the socket make up what was there.
LEMMA ChunkIsFront ==
  ASSUME NEW q \in Seq(Unit), NEW gone \in BOOLEAN,
         NEW ch \in IO!Received(q, gone) \cup {IO!NothingYet}
  PROVE  /\ ch.units \in Seq(Unit) /\ Rest(q, ch) \in Seq(Unit)
         /\ ch.units \o Rest(q, ch) = q
         /\ ch.eof => gone /\ ch.units = <<>>
         /\ ch.eof \in BOOLEAN
         /\ \A i \in 1..Len(ch.units) : \E j \in 1..Len(q) : ch.units[i] = q[j]
         /\ \A i \in 1..Len(Rest(q, ch)) : \E j \in 1..Len(q) : Rest(q, ch)[i] = q[j]
<1>1. CASE ch.units = <<>>
  <2>1. Rest(q, ch) = q
    BY <1>1 DEF Rest
  <2>2. ch.eof => gone
    BY DEF IO!Received, IO!NothingYet
  <2>3. ch.eof \in BOOLEAN
    <3>1. CASE ch = IO!NothingYet
      BY <3>1 DEF IO!NothingYet
    <3>2. CASE \E n \in 1..Len(q) : ch = [units |-> SubSeq(q, 1, n), eof |-> FALSE]
      BY <3>2
    <3>3. CASE ch = [units |-> <<>>, eof |-> TRUE]
      BY <3>3
    <3>. QED  BY <3>1, <3>2, <3>3 DEF IO!Received
  <2>. QED  BY <1>1, <2>1, <2>2, <2>3
<1>2. CASE ch.units # <<>>
  <2>1. PICK n \in 1..Len(q) : ch = [units |-> SubSeq(q, 1, n), eof |-> FALSE]
    BY <1>2 DEF IO!Received, IO!NothingYet
  <2>2. ch.units = SubSeq(q, 1, n) /\ ch.eof = FALSE
    BY <2>1
  <2>3. Len(ch.units) = n /\ ch.units \in Seq(Unit)
    BY <2>2
  <2>4. Rest(q, ch) = SubSeq(q, n + 1, Len(q))
    BY <2>3 DEF Rest
  <2>5. SubSeq(q, n + 1, Len(q)) \in Seq(Unit)
    OBVIOUS
  <2>6. SubSeq(q, 1, n) \o SubSeq(q, n + 1, Len(q)) = q
    <3>1. 1 \in 1..(Len(q) + 1) /\ n \in (1 - 1)..Len(q) /\ Len(q) \in n..Len(q)
      OBVIOUS
    <3>2. SubSeq(q, 1, n) \o SubSeq(q, n + 1, Len(q)) = SubSeq(q, 1, Len(q))
      BY <3>1, ConcatAdjacentSubSeq
    <3>. QED  BY <3>2, SubSeqFull
  <2>7. \A i \in 1..Len(SubSeq(q, n + 1, Len(q))) :
          SubSeq(q, n + 1, Len(q))[i] = q[n + i] /\ n + i \in 1..Len(q)
    OBVIOUS
  <2>8. \A i \in 1..n : SubSeq(q, 1, n)[i] = q[i] /\ i \in 1..Len(q)
    OBVIOUS
  <2>9. \A i \in 1..Len(Rest(q, ch)) : \E j \in 1..Len(q) : Rest(q, ch)[i] = q[j]
    BY <2>4, <2>7
  <2>10. \A i \in 1..Len(ch.units) : \E j \in 1..Len(q) : ch.units[i] = q[j]
    BY <2>2, <2>3, <2>8
  <2>. QED  BY <2>2, <2>3, <2>4, <2>5, <2>6, <2>9, <2>10
<1>. QED  BY <1>1, <1>2

\* Received, then read: the first unit is gone.
LEMMA TakeFirst ==
  ASSUME NEW b \in Seq(Unit), NEW us \in Seq(Unit), NEW rest \in Seq(Unit), b \o us # <<>>
  PROVE  /\ Tail(b \o us) \o rest = Tail(b \o (us \o rest))
         /\ (b \o us)[1] = (b \o (us \o rest))[1]
         /\ b \o (us \o rest) # <<>>
<1>. DEFINE x == b \o us
<1>1. b \o (us \o rest) = x \o rest
  OBVIOUS
<1>2. x \in Seq(Unit) /\ x # <<>>
  OBVIOUS
<1>. HIDE DEF x
<1>3. Tail(x) \o rest = Tail(x \o rest) /\ x[1] = (x \o rest)[1] /\ x \o rest # <<>>
  BY <1>2
<1>. QED  BY <1>1, <1>3 DEF x

-----------------------------------------------------------------------------
(* Reading                                                                 *)

\* q is r, but for what it listens for; or it has lost its first unit; or it waits.
Like(r, q) ==
  /\ Sound(q)
  /\ q.n = r.n /\ q.ready = r.ready /\ q.finished = r.finished /\ q.writing = r.writing
  /\ q.stream.closed = r.stream.closed /\ q.stream.reading = r.stream.reading
  /\ q.stream.buffer = r.stream.buffer /\ q.stream.writeBuffer = r.stream.writeBuffer
  /\ q.stream.tasks = r.stream.tasks

Took(r, q, b) ==
  /\ Sound(q) /\ b # <<>>
  /\ q.n = b[1].n /\ q.stream.buffer = Tail(b) /\ ~q.stream.reading
  /\ q.ready = (IF r.ready = "nothing" THEN "result" ELSE r.ready)
  /\ q.finished = r.finished /\ q.writing = r.writing
  /\ q.stream.closed = r.stream.closed
  /\ q.stream.writeBuffer = r.stream.writeBuffer /\ q.stream.tasks = r.stream.tasks

Waits(r, q) ==
  /\ Like([r EXCEPT !.ready = "nothing", !.stream.reading = TRUE], q)
  /\ ~r.stream.closed /\ r.stream.buffer = <<>>

\* A connection with another stream.
LEMMA WithStream ==
  ASSUME NEW r \in Connection, NEW t \in IO!Stream
  PROVE  LET q == [r EXCEPT !.stream = t] IN
         /\ q \in Connection /\ q.stream = t /\ q.n = r.n /\ q.ready = r.ready
         /\ q.finished = r.finished /\ q.writing = r.writing
BY DEF Connection

\* Soundness looks at four fields only.
LEMMA StaysSound ==
  ASSUME NEW r, Sound(r), NEW q \in Connection,
         q.stream.pending = r.stream.pending, q.stream.tasks = r.stream.tasks,
         r.stream.closed => q.stream.closed,
         q.stream.closeCallback => r.stream.closeCallback,
         r.n # 0 => q.n # 0
  PROVE  Sound(q)
BY DEF Sound, PendingOK

\* Listening for something else changes nothing about the requests.
LEMMA RelistenIsLike ==
  ASSUME NEW r, Sound(r)  PROVE Like(r, Relisten(r))
<1>. DEFINE st == r.stream
<1>1. st \in IO!Stream /\ r \in Connection
  BY DEF Sound, Connection
<1>2. IO!Relisten(st) = st \/ \E w \in SUBSET {"READ", "WRITE"} :
        IO!Relisten(st) = [st EXCEPT !.interest = w]
  BY <1>1 DEF IO!Relisten
<1>. HIDE DEF st
<1>. DEFINE t == IO!Relisten(st)
<1>3. /\ t \in IO!Stream
      /\ t.closed = st.closed /\ t.reading = st.reading /\ t.buffer = st.buffer
      /\ t.writeBuffer = st.writeBuffer /\ t.tasks = st.tasks
      /\ t.pending = st.pending /\ t.closeCallback = st.closeCallback
  BY <1>1, <1>2 DEF IO!Stream
<1>4. Relisten(r) = [r EXCEPT !.stream = t]
  BY DEF Relisten, st
<1>. DEFINE q == Relisten(r)
<1>. HIDE DEF t
<1>5. /\ q \in Connection /\ q.stream = t /\ q.n = r.n /\ q.ready = r.ready
      /\ q.finished = r.finished /\ q.writing = r.writing
  BY <1>1, <1>3, <1>4, WithStream
<1>. HIDE DEF q
<1>6. Sound(q)
  BY <1>3, <1>5, StaysSound DEF st
<1>. QED  BY <1>3, <1>5, <1>6 DEF Like, st, q

\* _add_io_state changes nothing about the requests.
LEMMA ListenIsLike ==
  ASSUME NEW r, Sound(r), NEW event \in {"READ", "WRITE"}
  PROVE  Like(r, [r EXCEPT !.stream = IO!AddIoState(@, event)])
<1>. DEFINE st == r.stream
            t == IO!AddIoState(st, event)
<1>1. st \in IO!Stream /\ r \in Connection
  BY DEF Sound, Connection
<1>. HIDE DEF st
<1>2. /\ t \in IO!Stream
      /\ t.closed = st.closed /\ t.reading = st.reading /\ t.buffer = st.buffer
      /\ t.writeBuffer = st.writeBuffer /\ t.tasks = st.tasks
      /\ t.pending = st.pending /\ t.closeCallback = st.closeCallback
  BY <1>1 DEF IO!AddIoState, IO!Stream
<1>. HIDE DEF t
<1>3. Like(r, [r EXCEPT !.stream = t])
  <2>. DEFINE q == [r EXCEPT !.stream = t]
  <2>1. /\ q \in Connection /\ q.stream = t /\ q.n = r.n /\ q.ready = r.ready
        /\ q.finished = r.finished /\ q.writing = r.writing
    BY <1>1, <1>2, WithStream
  <2>. HIDE DEF q
  <2>2. Sound(q)
    BY <1>2, <2>1, StaysSound DEF st
  <2>. QED  BY <1>2, <2>1, <2>2 DEF Like, st, q
<1>. QED  BY <1>3 DEF t, st

\* A read takes the first unit of the buffer.
LEMMA ConsumeTakes ==
  ASSUME NEW r, Sound(r), r.stream.buffer # <<>>
  PROVE  Took(r, Consume(r), r.stream.buffer)
<1>. DEFINE b == r.stream.buffer
            m == b[1].n
            p == Resolve(r, "result")
            q == [p EXCEPT !.stream.reading = FALSE, !.n = m, !.stream.buffer = Tail(@)]
<1>1. b \in Seq(Unit) /\ m \in Number /\ Tail(b) \in Seq(Unit)
  <2>1. b \in Seq(Unit)
    BY DEF Sound, Connection, IO!Stream
  <2>. HIDE DEF b
  <2>2. b # <<>>
    BY DEF b
  <2>3. b[1] \in Unit /\ Tail(b) \in Seq(Unit)
    BY <2>1, <2>2
  <2>. QED  BY <2>1, <2>3 DEF Unit
<1>2. /\ p \in Connection /\ p.stream = r.stream /\ p.n = r.n /\ p.finished = r.finished
      /\ p.writing = r.writing /\ p.ready = (IF r.ready = "nothing" THEN "result" ELSE r.ready)
  BY DEF Sound, Connection, Resolve
<1>3. Consume(r) = q
  BY DEF Consume
<1>. HIDE DEF p, m
<1>4. /\ q \in Connection /\ q.n = m /\ q.finished = p.finished /\ q.writing = p.writing
      /\ q.ready = p.ready /\ q.stream.buffer = Tail(b) /\ ~q.stream.reading
      /\ q.stream.closed = p.stream.closed /\ q.stream.writeBuffer = p.stream.writeBuffer
      /\ q.stream.tasks = p.stream.tasks /\ q.stream.pending = p.stream.pending
      /\ q.stream.closeCallback = p.stream.closeCallback
  <2>. DEFINE s == p.stream
              rest == Tail(b)
              t == [s EXCEPT !.reading = FALSE, !.buffer = rest]
  <2>1. s \in IO!Stream
    BY <1>1, <1>2 DEF Connection
  <2>2. q = [p EXCEPT !.stream = t, !.n = m]
    BY <1>2 DEF Connection
  <2>3. rest \in Seq(Unit)
    BY <1>1
  <2>. HIDE DEF s, rest
  <2>4. /\ t \in IO!Stream /\ t.buffer = rest /\ ~t.reading /\ t.closed = s.closed
        /\ t.writeBuffer = s.writeBuffer /\ t.tasks = s.tasks /\ t.pending = s.pending
        /\ t.closeCallback = s.closeCallback
    BY <2>1, <2>3 DEF IO!Stream
  <2>. HIDE DEF t, q
  <2>5. /\ q \in Connection /\ q.stream = t /\ q.n = m /\ q.ready = p.ready
        /\ q.finished = p.finished /\ q.writing = p.writing
    <3>. DEFINE v == [p EXCEPT !.stream = t]
    <3>1. /\ v \in Connection /\ v.stream = t /\ v.ready = p.ready
          /\ v.finished = p.finished /\ v.writing = p.writing
      BY <1>2, <2>4, WithStream
    <3>2. q = [v EXCEPT !.n = m]
      BY <2>2
    <3>3. m \in 0..MaxRequest
      BY <1>1 DEF Number
    <3>. HIDE DEF v
    <3>. QED  BY <3>1, <3>2, <3>3 DEF Connection
  <2>. QED  BY <2>4, <2>5 DEF s, rest
<1>5. m # 0
  BY <1>1 DEF Number
<1>. HIDE DEF q
<1>6. Sound(q)
  BY <1>2, <1>4, <1>5 DEF Sound, PendingOK
<1>. QED  BY <1>2, <1>3, <1>4, <1>6 DEF Took, m

\* A read takes a unit, or finds the end of the connection, or waits.
LEMMA ReadOutcome ==
  ASSUME inbox \in Seq(Unit), NEW r, Sound(r), ~ReadRaises(r), NEW ch \in Chunks(r)
  PROVE  \/ Took([r EXCEPT !.ready = "nothing"], Read(r, ch), r.stream.buffer \o ch.units)
         \/ /\ Keeps(r, Read(r, ch)) /\ Read(r, ch).stream.closed
            /\ Read(r, ch).ready # "timeout" /\ Disconnected /\ ch.units = <<>>
         \/ Waits(r, Read(r, ch)) /\ ch.units = <<>>
<1>. DEFINE waiting == [r EXCEPT !.ready = "nothing", !.stream.reading = TRUE]
            filled == IF r.stream.buffer # <<>> THEN waiting
                      ELSE [waiting EXCEPT !.stream = IO!ToBuffer(@, ch)]
            b == r.stream.buffer \o ch.units
<1>1. /\ Disconnected \in BOOLEAN
      /\ ch \in IO!Received(inbox, Disconnected) \cup {IO!NothingYet}
      /\ r.stream.buffer # <<>> => ch = IO!NothingYet
  BY DEF Disconnected, Chunks
<1>2. /\ ch.units \in Seq(Unit) /\ ch.eof \in BOOLEAN
      /\ ch.eof => Disconnected /\ ch.units = <<>>
  BY <1>1, ChunkIsFront
<1>3. r.stream.buffer # <<>> => ch.units = <<>> /\ ~ch.eof
  BY <1>1 DEF IO!NothingYet
<1>4. /\ Sound(waiting) /\ waiting.n = r.n /\ waiting.ready = "nothing"
      /\ waiting.finished = r.finished /\ waiting.writing = r.writing
      /\ waiting.stream = [r.stream EXCEPT !.reading = TRUE]
  BY ZenonT(40) DEF Sound, Connection, IO!Stream, PendingOK
<1>5. r.stream \in IO!Stream /\ r \in Connection
  BY DEF Sound, Connection
<1>6. /\ waiting.stream.buffer = r.stream.buffer /\ waiting.stream.closed = r.stream.closed
      /\ waiting.stream.writeBuffer = r.stream.writeBuffer
      /\ waiting.stream.tasks = r.stream.tasks /\ waiting.stream.reading = TRUE
  BY <1>4, <1>5 DEF IO!Stream
<1>7. b \in Seq(Unit)
  BY <1>2, <1>5 DEF IO!Stream
<1>8. Read(r, ch) = IF filled.stream.buffer # <<>> THEN Consume(filled)
                    ELSE IF filled.stream.closed THEN MaybeRunCloseCallback(filled)
                    ELSE [filled EXCEPT !.stream = IO!AddIoState(@, "READ")]
  BY DEF Read
<1>. HIDE DEF waiting
\* Not the end of the connection: the buffer holds b.
<1>9. CASE ~ch.eof
  <2>1. /\ Sound(filled) /\ filled.stream.buffer = b /\ filled.n = r.n
        /\ filled.ready = "nothing" /\ filled.finished = r.finished
        /\ filled.writing = r.writing /\ filled.stream.closed = r.stream.closed
        /\ filled.stream.writeBuffer = r.stream.writeBuffer
        /\ filled.stream.tasks = r.stream.tasks /\ filled.stream.reading = TRUE
    <3>1. CASE r.stream.buffer # <<>>
      <4>1. filled = waiting /\ b = r.stream.buffer
        BY <1>3, <1>5, <3>1, ConcatEmptySeq DEF IO!Stream
      <4>. QED  BY <1>4, <1>6, <4>1
    <3>2. CASE r.stream.buffer = <<>>
      <4>1. filled = [waiting EXCEPT !.stream = [waiting.stream EXCEPT !.buffer = b]]
        <5>1. filled = [waiting EXCEPT !.stream = IO!ToBuffer(waiting.stream, ch)]
          BY <1>4, <3>2 DEF Sound, Connection
        <5>2. IO!ToBuffer(waiting.stream, ch)
                = [waiting.stream EXCEPT !.buffer = waiting.stream.buffer \o ch.units]
          BY <1>4, <1>9 DEF IO!ToBuffer, Sound, Connection, IO!Stream
        <5>. HIDE DEF filled
        <5>. QED  BY <1>6, <5>1, <5>2
      <4>. HIDE DEF filled, b
      <4>. DEFINE s == waiting.stream
                  t == [s EXCEPT !.buffer = b]
      <4>2. s \in IO!Stream /\ waiting \in Connection
        BY <1>4 DEF Sound, Connection
      <4>3. filled = [waiting EXCEPT !.stream = t]
        BY <4>1
      <4>4. /\ t \in IO!Stream /\ t.buffer = b /\ t.reading = s.reading /\ t.closed = s.closed
            /\ t.writeBuffer = s.writeBuffer /\ t.tasks = s.tasks /\ t.pending = s.pending
            /\ t.closeCallback = s.closeCallback
        BY <1>7, <4>2 DEF IO!Stream
      <4>. HIDE DEF t
      <4>5. /\ filled \in Connection /\ filled.stream = t /\ filled.n = waiting.n
            /\ filled.ready = waiting.ready /\ filled.finished = waiting.finished
            /\ filled.writing = waiting.writing
        BY <4>2, <4>3, <4>4 DEF Connection
      <4>6. Sound(filled)
        BY <1>4, <4>4, <4>5, StaysSound DEF s
      <4>. QED  BY <1>4, <1>6, <4>4, <4>5, <4>6 DEF s
    <3>. QED  BY <3>1, <3>2
  <2>. HIDE DEF filled
  <2>2. CASE b # <<>>
    <3>1. Took(filled, Consume(filled), b)
      BY <2>1, <2>2, ConsumeTakes
    <3>2. Read(r, ch) = Consume(filled)
      BY <1>8, <2>1, <2>2
    <3>3. /\ [r EXCEPT !.ready = "nothing"].stream = r.stream
          /\ [r EXCEPT !.ready = "nothing"].ready = "nothing"
          /\ [r EXCEPT !.ready = "nothing"].finished = r.finished
          /\ [r EXCEPT !.ready = "nothing"].writing = r.writing
      BY <1>5 DEF Connection
    <3>. QED  BY <2>1, <3>1, <3>2, <3>3 DEF Took
  <2>3. CASE b = <<>>
    <3>1. r.stream.buffer = <<>> /\ ch.units = <<>>
      <4>. DEFINE x == r.stream.buffer
      <4>1. x \in Seq(Unit)
        BY <1>5 DEF IO!Stream
      <4>. HIDE DEF x
      <4>2. x \o ch.units = <<>>
        BY <2>3 DEF x
      <4>3. x = <<>> /\ ch.units = <<>>
        BY <1>2, <4>1, <4>2, ConcatEqualIffEmpty
      <4>. QED  BY <4>3 DEF x
    <3>2. ~r.stream.closed
      BY <3>1 DEF ReadRaises
    <3>3. Read(r, ch) = [filled EXCEPT !.stream = IO!AddIoState(@, "READ")]
      BY <1>8, <2>1, <2>3, <3>2
    <3>4. Like(filled, Read(r, ch))
      BY <2>1, <3>3, ListenIsLike
    <3>5. Like(waiting, Read(r, ch))
      BY <1>4, <1>6, <2>1, <2>3, <3>1, <3>4, ZenonT(40) DEF Like
    <3>. QED  BY <3>1, <3>2, <3>5 DEF Waits, waiting
  <2>. QED  BY <2>2, <2>3
\* The end of it: the stream is closed.
<1>10. CASE ch.eof
  <2>1. filled = [waiting EXCEPT !.stream =
          [waiting.stream EXCEPT !.closed = TRUE, !.handler = FALSE, !.interest = {}]]
    BY <1>3, <1>4, <1>10 DEF IO!ToBuffer, Sound, Connection
  <2>2. r.stream.buffer = <<>>
    BY <1>3, <1>10
  <2>. HIDE DEF filled
  <2>3. /\ filled \in Connection /\ filled.ready = "nothing" /\ filled.n = r.n
        /\ filled.stream.closed /\ filled.stream.buffer = <<>>
        /\ filled.stream.writeBuffer = r.stream.writeBuffer
        /\ filled.stream.tasks = r.stream.tasks
        /\ filled.stream.pending = r.stream.pending
        /\ filled.stream.closeCallback = r.stream.closeCallback
    BY <1>4, <1>5, <1>6, <2>1, <2>2 DEF Sound, Connection, IO!Stream
  <2>4. Sound(filled) /\ Keeps(r, filled)
    BY <1>5, <2>2, <2>3 DEF Sound, Keeps, PendingOK
  <2>5. Read(r, ch) = MaybeRunCloseCallback(filled)
    BY <1>8, <2>3
  <2>6. Keeps(filled, Read(r, ch)) /\ Read(r, ch).stream.closed
    BY <2>3, <2>4, <2>5, MaybeRunCloseCallbackKeeps
  <2>. QED  BY <1>2, <1>10, <2>3, <2>4, <2>6, KeepsTransitive DEF Keeps
<1>. QED  BY <1>2, <1>9, <1>10

-----------------------------------------------------------------------------
(* Finishing a request                                                     *)

\* Callbacks that are done with: what is left of it on the IOLoop.
LEMMA StartedIsSound ==
  ASSUME NEW r, Sound(r), r.stream.tasks # <<>>
  PROVE  LET q == [r EXCEPT !.stream = IO!Started(@)] IN
         /\ Keeps(r, q)
         /\ q.stream.closed = r.stream.closed
         /\ Head(r.stream.tasks).kind # "close" => r.stream.closed
<1>. DEFINE s == r.stream
            ts == s.tasks
            rest == Tail(ts)
            p == IF Head(ts).kind = "close" THEN s.pending ELSE s.pending - 1
            t == [s EXCEPT !.tasks = rest, !.pending = p]
            q == [r EXCEPT !.stream = IO!Started(@)]
<1>1. s \in IO!Stream /\ r \in Connection /\ PendingOK(s)
  BY DEF Sound, Connection
<1>2. q = [r EXCEPT !.stream = t]
  BY <1>1 DEF IO!Started, Connection, IO!Stream
<1>3. ts \in Seq(IO!Task) /\ ts # <<>>
  BY <1>1 DEF IO!Stream
<1>. HIDE DEF ts
<1>4. /\ rest \in Seq(IO!Task) /\ Len(rest) = Len(ts) - 1 /\ Head(ts) = ts[1] /\ Len(ts) >= 1
      /\ \A i \in 1..Len(rest) : rest[i] = ts[i + 1]
  BY <1>3
<1>5. /\ Head(ts).kind # "close" => s.pending = 1 /\ s.closed
      /\ p \in Nat
  BY <1>1, <1>3, <1>4 DEF PendingOK, ts, IO!Stream
<1>. HIDE DEF rest, p, s
<1>6. /\ t \in IO!Stream /\ t.tasks = rest /\ t.pending = p /\ t.closed = s.closed
      /\ t.buffer = s.buffer /\ t.writeBuffer = s.writeBuffer
      /\ t.closeCallback = s.closeCallback
  BY <1>1, <1>4, <1>5 DEF IO!Stream
<1>. HIDE DEF t
<1>7. PendingOK(t)
  <2>1. CASE s.pending = 0 /\ \A i \in 1..Len(ts) : ts[i].kind = "close"
    <3>1. Head(ts).kind = "close" /\ p = s.pending
      BY <1>4, <2>1 DEF p
    <3>2. \A i \in 1..Len(rest) : rest[i].kind = "close"
      BY <1>4, <2>1
    <3>. QED  BY <1>6, <2>1, <3>1, <3>2 DEF PendingOK
  <2>2. CASE s.pending = 1 /\ s.closed
             /\ \E k \in 1..Len(ts) : \A i \in 1..Len(ts) : ts[i].kind # "close" <=> i = k
    <3>1. PICK k \in 1..Len(ts) : \A i \in 1..Len(ts) : ts[i].kind # "close" <=> i = k
      BY <2>2
    <3>2. CASE ts[1].kind # "close"
      <4>1. p = 0
        BY <1>4, <2>2, <3>2 DEF p
      <4>2. \A i \in 1..Len(rest) : rest[i].kind = "close"
        BY <1>4, <3>1, <3>2
      <4>. QED  BY <1>6, <4>1, <4>2 DEF PendingOK
    <3>3. CASE ts[1].kind = "close"
      <4>1. k - 1 \in 1..Len(rest) /\ \A i \in 1..Len(rest) : rest[i].kind # "close" <=> i = k - 1
        BY <1>4, <3>1, <3>3
      <4>2. p = 1
        BY <1>4, <2>2, <3>3 DEF p
      <4>. QED  BY <1>6, <2>2, <4>1, <4>2 DEF PendingOK
    <3>. QED  BY <3>2, <3>3
  <2>. QED  BY <1>1, <2>1, <2>2 DEF PendingOK, ts
<1>8. /\ q \in Connection /\ q.stream = t /\ q.n = r.n /\ q.ready = r.ready
  BY <1>1, <1>2, <1>6, WithStream, ZenonT(60)
<1>. HIDE DEF q
<1>9. Sound(q)
  BY <1>6, <1>7, <1>8 DEF Sound, s
<1>10. \A i \in 1..Len(rest) : \E j \in 1..Len(ts) : rest[i] = ts[j]
  BY <1>4
<1>. QED  BY <1>4, <1>5, <1>6, <1>8, <1>9, <1>10, ZenonT(40) DEF Keeps, q, s, ts

\* What of the responses waits to be written.
LEMMA Rewritten ==
  ASSUME NEW r, Sound(r), NEW w \in Seq(Number)
  PROVE  LET s == [r EXCEPT !.stream.writeBuffer = w] IN
         /\ Sound(s) /\ s.n = r.n /\ s.ready = r.ready /\ s.finished = r.finished
         /\ s.writing = r.writing /\ s.stream.closed = r.stream.closed
         /\ s.stream.reading = r.stream.reading /\ s.stream.buffer = r.stream.buffer
         /\ s.stream.writeBuffer = w /\ s.stream.tasks = r.stream.tasks
<1>. DEFINE st == r.stream
            t == [st EXCEPT !.writeBuffer = w]
            s == [r EXCEPT !.stream.writeBuffer = w]
<1>1. st \in IO!Stream /\ r \in Connection
  BY DEF Sound, Connection
<1>2. s = [r EXCEPT !.stream = t]
  BY <1>1 DEF Connection
<1>. HIDE DEF st
<1>3. /\ t \in IO!Stream /\ t.closed = st.closed /\ t.reading = st.reading
      /\ t.buffer = st.buffer /\ t.writeBuffer = w /\ t.tasks = st.tasks
      /\ t.pending = st.pending /\ t.closeCallback = st.closeCallback
  BY <1>1 DEF IO!Stream
<1>. HIDE DEF t
<1>4. /\ s \in Connection /\ s.stream = t /\ s.n = r.n /\ s.ready = r.ready
      /\ s.finished = r.finished /\ s.writing = r.writing
  BY <1>1, <1>2, <1>3, WithStream, ZenonT(60)
<1>. HIDE DEF s
<1>5. Sound(s)
  BY <1>3, <1>4, StaysSound DEF st
<1>. QED  BY <1>3, <1>4, <1>5 DEF s, st

\* _finish_request without closing.
LEMMA FinishedOpen ==
  ASSUME NEW r, Sound(r)
  PROVE  LET q == SetFinished(ClearCallbacks(r)) IN
         /\ Keeps(r, q) /\ q.finished = TRUE /\ q.writing = FALSE
         /\ q.ready = (IF at = "response" /\ ~r.finished /\ r.ready = "nothing"
                         THEN "result" ELSE r.ready)
         /\ q.stream.reading = r.stream.reading /\ q.stream.closed = r.stream.closed
<1>. DEFINE p == ClearCallbacks(r)
            q == SetFinished(p)
<1>1. Keeps(r, p) /\ p.stream.closed = r.stream.closed
  BY ClearCallbacksKeeps
<1>2. /\ p \in Connection /\ p.finished = r.finished /\ p.ready = r.ready
      /\ p.stream.reading = r.stream.reading
  BY DEF ClearCallbacks, Sound, Connection, IO!Stream
<1>. HIDE DEF p
<1>3. Keeps(p, q) /\ q.stream = p.stream
  BY <1>1, SetFinishedKeeps DEF Keeps
<1>4. /\ q.finished = TRUE /\ q.writing = FALSE
      /\ q.ready = (IF at = "response" /\ ~p.finished /\ p.ready = "nothing"
                      THEN "result" ELSE p.ready)
  BY <1>2 DEF SetFinished, Resolve, Connection
<1>. HIDE DEF q
<1>. QED  BY <1>1, <1>2, <1>3, <1>4, KeepsTransitive DEF p, q

\* What a response leaves of the connection: it was closed; or all of it is written; or the
\* kernel has not taken it yet.
LEMMA FinishOutcome ==
  ASSUME NEW r, Sound(r), ~r.stream.closed, r.stream.writeBuffer = <<>>, NEW n \in Number,
         Wants(n) \in BOOLEAN, NEW h \in FinishOutcomes(r, n)
  PROVE  LET q == h.conn
             s == [r EXCEPT !.stream.writeBuffer = q.stream.writeBuffer] IN
         /\ h.out \in {<<>>, <<n>>} /\ Sound(s)
         /\ \/ /\ q.stream.closed /\ q.stream.writeBuffer = <<>> /\ Keeps(s, q)
               /\ h.out = <<>> => Disconnected \/ peer = "left"
            \/ /\ h.out = <<n>> /\ q.stream.writeBuffer = <<>>
               /\ q = SetFinished(ClearCallbacks(s))
            \/ /\ h.out = <<>> /\ q.stream.writeBuffer = <<n>>
               /\ Like([s EXCEPT !.writing = TRUE], q)
<1>. DEFINE sent(w) == [r EXCEPT !.stream.writeBuffer = w]
            d == Wants(n)
            q == h.conn
            fails == FinishRequest(CloseStream(r), d)
            whole == FinishRequest(sent(<<>>), d)
            wait == [sent(<<n>>) EXCEPT !.writing = TRUE]
            held == [wait EXCEPT !.stream = IO!AddIoState(@, "WRITE")]
<1>1. \/ q = whole /\ h.out = <<n>>
      \/ q = held /\ h.out = <<>>
      \/ q = fails /\ h.out = <<>> /\ (Disconnected \/ peer = "left")
  <2>. DEFINE all == <<n>>
              rest(k) == SubSeq(all, k + 1, Len(all))
  <2>1. r.stream.writeBuffer \o <<n>> = all /\ Len(all) = 1
    OBVIOUS
  <2>2. /\ rest(0) = <<n>> /\ rest(1) = <<>>
        /\ SubSeq(all, 1, 0) = <<>> /\ SubSeq(all, 1, 1) = <<n>>
    <3>1. all \in Seq({n}) /\ Len(all) = 1 /\ all[1] = n
      OBVIOUS
    <3>. HIDE DEF all
    <3>2. /\ SubSeq(all, 1, 1) \in Seq({n}) /\ Len(SubSeq(all, 1, 1)) = 1 /\ SubSeq(all, 1, 1)[1] = n
          /\ SubSeq(all, 2, 1) = <<>> /\ SubSeq(all, 1, 0) = <<>>
      BY <3>1
    <3>3. SubSeq(all, 1, 1) = all
      BY <3>1, SubSeqFull
    <3>. QED  BY <3>1, <3>2, <3>3 DEF all
  <2>3. \/ \E k \in 0..Len(all) :
             /\ h.out = SubSeq(all, 1, k)
             /\ q = IF rest(k) = <<>> THEN FinishRequest(sent(rest(k)), d)
                    ELSE [sent(rest(k)) EXCEPT !.writing = TRUE,
                                               !.stream = IO!AddIoState(@, "WRITE")]
        \/ q = fails /\ h.out = <<>> /\ (Disconnected \/ peer = "left")
    <3>. DEFINE buffered == r.stream.writeBuffer \o <<n>>
    <3>1. \/ \E k \in 0..Len(buffered) :
               h = [conn |-> IF SubSeq(buffered, k + 1, Len(buffered)) = <<>>
                               THEN FinishRequest(sent(SubSeq(buffered, k + 1, Len(buffered))), d)
                               ELSE [sent(SubSeq(buffered, k + 1, Len(buffered)))
                                       EXCEPT !.writing = TRUE,
                                              !.stream = IO!AddIoState(@, "WRITE")],
                    out |-> SubSeq(buffered, 1, k)]
          \/ h = [conn |-> fails, out |-> <<>>] /\ (Disconnected \/ peer = "left")
      BY DEF FinishOutcomes
    <3>2. buffered = all
      BY <2>1
    <3>. HIDE DEF fails, d, buffered, all
    <3>3. CASE h = [conn |-> fails, out |-> <<>>] /\ (Disconnected \/ peer = "left")
      BY <3>3
    <3>4. ASSUME NEW k \in 0..Len(all),
                 h = [conn |-> IF rest(k) = <<>> THEN FinishRequest(sent(rest(k)), d)
                               ELSE [sent(rest(k)) EXCEPT !.writing = TRUE,
                                                          !.stream = IO!AddIoState(@, "WRITE")],
                      out |-> SubSeq(all, 1, k)]
          PROVE  /\ h.out = SubSeq(all, 1, k)
                 /\ q = IF rest(k) = <<>> THEN FinishRequest(sent(rest(k)), d)
                        ELSE [sent(rest(k)) EXCEPT !.writing = TRUE,
                                                   !.stream = IO!AddIoState(@, "WRITE")]
      <4>. DEFINE x == IF rest(k) = <<>> THEN FinishRequest(sent(rest(k)), d)
                       ELSE [sent(rest(k)) EXCEPT !.writing = TRUE,
                                                  !.stream = IO!AddIoState(@, "WRITE")]
      <4>1. h = [conn |-> x, out |-> SubSeq(all, 1, k)]
        BY <3>4
      <4>. HIDE DEF x
      <4>2. h.conn = x /\ h.out = SubSeq(all, 1, k)
        BY <4>1
      <4>. QED  BY <4>2 DEF x
    <3>. QED  BY <3>1, <3>2, <3>3, <3>4
  <2>4. ASSUME NEW k \in 0..Len(all), h.out = SubSeq(all, 1, k),
               q = IF rest(k) = <<>> THEN FinishRequest(sent(rest(k)), d)
                   ELSE [sent(rest(k)) EXCEPT !.writing = TRUE,
                                              !.stream = IO!AddIoState(@, "WRITE")]
        PROVE  \/ q = whole /\ h.out = <<n>>
               \/ q = held /\ h.out = <<>>
    <3>1. CASE k = 0
      <4>1. [sent(<<n>>) EXCEPT !.writing = TRUE, !.stream = IO!AddIoState(@, "WRITE")] = held
        BY DEF Sound, Connection
      <4>2. <<n>> # <<>>
        OBVIOUS
      <4>. HIDE DEF held, whole
      <4>3. q = held /\ h.out = <<>>
        BY <2>2, <2>4, <3>1, <4>1, <4>2
      <4>. QED  BY <4>3
    <3>2. CASE k = 1
      <4>. HIDE DEF held
      <4>1. q = whole /\ h.out = <<n>>
        BY <2>2, <2>4, <3>2
      <4>. QED  BY <4>1
    <3>. QED  BY <2>1, <3>1, <3>2
  <2>. HIDE DEF all, rest
  <2>. QED  BY <2>3, <2>4
<1>. HIDE DEF q
<1>2. <<n>> \in Seq(Number) /\ <<>> \in Seq(Number)
  OBVIOUS
<1>3. CASE q = whole /\ h.out = <<n>>
  <2>. DEFINE s == sent(<<>>)
  <2>1. Sound(s) /\ s.stream.writeBuffer = <<>>
    BY <1>2, Rewritten
  <2>. HIDE DEF s
  <2>2. Keeps(s, q) /\ (d => q.stream.closed) /\ (~d => q = SetFinished(ClearCallbacks(s)))
    BY <1>3, <2>1, FinishRequestKeeps DEF s
  <2>3. q.stream.writeBuffer = <<>>
    BY <2>1, <2>2 DEF Keeps
  <2>. QED  BY <1>3, <2>1, <2>2, <2>3 DEF s, q
<1>4. CASE q = held /\ h.out = <<>>
  <2>. DEFINE s == sent(<<n>>)
  <2>1. Sound(s) /\ s.stream.writeBuffer = <<n>>
    BY <1>2, Rewritten
  <2>. HIDE DEF s
  <2>2. Sound(wait) /\ wait.stream = s.stream
    BY <2>1 DEF Sound, Connection, s
  <2>3. wait = [s EXCEPT !.writing = TRUE]
    BY DEF s
  <2>. HIDE DEF wait
  <2>4. Like(wait, q)
    BY <1>4, <2>2, ListenIsLike
  <2>5. q.stream.writeBuffer = <<n>>
    BY <2>1, <2>2, <2>4 DEF Like
  <2>. QED  BY <1>4, <2>1, <2>3, <2>4, <2>5 DEF s, q
<1>5. CASE q = fails /\ h.out = <<>> /\ (Disconnected \/ peer = "left")
  <2>. DEFINE s == sent(<<>>)
              p == CloseStream(r)
  <2>1. /\ Sound(s) /\ s.n = r.n /\ s.stream.buffer = r.stream.buffer
        /\ s.stream.writeBuffer = <<>> /\ s.stream.tasks = r.stream.tasks
        /\ s.ready = r.ready /\ s.stream.closed = r.stream.closed
    BY <1>2, Rewritten
  <2>2. Keeps(r, p) /\ p.stream.closed
    BY CloseStreamKeeps
  <2>. HIDE DEF s, p
  <2>3. Keeps(p, q) /\ q.stream.closed
    BY <1>5, <2>2, FinishRequestKeeps DEF Keeps, p
  <2>4. Keeps(r, q)
    BY <2>2, <2>3, KeepsTransitive
  <2>5. Keeps(s, q) /\ q.stream.writeBuffer = <<>>
    BY <2>1, <2>4 DEF Keeps
  <2>. QED  BY <1>5, <2>1, <2>3, <2>5 DEF s, q
<1>. QED  BY <1>1, <1>3, <1>4, <1>5

-----------------------------------------------------------------------------
(* What a step keeps                                                       *)

\* The types the other lemmas need.
LEMMA Types ==
  ASSUME HttpInv
  PROVE  /\ c \in Connection /\ c.stream \in IO!Stream /\ Sound(c)
         /\ c.stream.buffer \in Seq(Unit) /\ c.stream.writeBuffer \in Seq(Number)
         /\ c.stream.tasks \in Seq(IO!Task)
         /\ c.n \in 0..MaxRequest /\ inbox \in Seq(Unit) /\ requests \in Seq(Kind)
         /\ net \in Seq(Number) /\ got \in Seq(Number) /\ Responses \in Seq(Number)
<1>1. c \in Connection /\ inbox \in Seq(Unit) /\ requests \in Seq(Kind) /\ Sound(c)
      /\ net \in Seq(Number) /\ got \in Seq(Number)
  BY DEF HttpInv, Sane, TypeOK
<1>2. c.stream \in IO!Stream /\ c.n \in 0..MaxRequest
  BY <1>1 DEF Connection
<1>3. c.stream.buffer \in Seq(Unit) /\ c.stream.writeBuffer \in Seq(Number)
      /\ c.stream.tasks \in Seq(IO!Task)
  BY <1>2 DEF IO!Stream
<1>4. Responses \in Seq(Number)
  BY <1>1, <1>3 DEF Responses
<1>. QED  BY <1>1, <1>2, <1>3, <1>4

\* The numbers in order, and one more.
LEMMA AppendInOrder ==
  ASSUME NEW s \in Seq(Number), s = [i \in 1..Len(s) |-> i], NEW n \in Number, Len(s) = n - 1
  PROVE  s \o <<n>> = [i \in 1..Len(s \o <<n>>) |-> i] /\ Len(s \o <<n>>) = n
<1>. DEFINE t == s \o <<n>>
<1>1. t \in Seq(Number) /\ Len(t) = Len(s) + 1 /\ t[Len(s) + 1] = n
      /\ \A i \in 1..Len(s) : t[i] = s[i]
  OBVIOUS
<1>. HIDE DEF t
<1>2. \A i \in 1..Len(t) : t[i] = i
  BY <1>1 DEF Number
<1>3. Len(t) = n /\ t = [i \in 1..Len(t) |-> t[i]]
  BY <1>1 DEF Number
<1>. QED  BY <1>2, <1>3 DEF t

\* What all steps on a connection that is accepted keep.
LEMMA SaneStep ==
  ASSUME Sane, at # "idle", UNCHANGED <<peer, requests, tcp>>,
         inbox' \in Seq(Unit), net' \in Seq(Number), got' \in Seq(Number),
         handler' \in [Number -> {"none", "running", "finished"}],
         at' \in {"head", "body", "response", "moment", "detached", "over"},
         Sound(c'), c'.n <= Len(requests),
         \A i \in 1..Len(c'.stream.buffer) : c'.stream.buffer[i].n <= Len(requests),
         \A i \in 1..Len(inbox') : inbox'[i].n <= Len(requests),
         \A i \in 1..Len(c'.stream.tasks) : c'.stream.tasks[i].kind = "close" =>
           \E j \in 1..Len(c.stream.tasks) : c.stream.tasks[j].kind = "close",
         c'.n # 0 \/ at' \in {"head", "over"},
         at' = "head" /\ c'.ready = "result" => c'.n # 0,
         c'.ready = "error" => c'.stream.closed,
         c'.ready = "timeout" => at' = "head"
  PROVE  Sane'
<1>1. TypeOK'
  BY DEF Sane, TypeOK, Sound
<1>. QED  BY <1>1 DEF Sane

\* A step that leaves the stream closed.
LEMMA ClosedStep ==
  ASSUME HttpInv, at # "idle", UNCHANGED <<peer, requests, tcp, inbox, got>>,
         NEW r, r.n = c.n, r.stream.buffer = c.stream.buffer,
         r.stream.tasks = c.stream.tasks,
         r.ready = "timeout" => c.ready = "timeout",
         r.ready = "result" => c.ready = "result",
         Keeps(r, c'), c'.stream.closed,
         net' \in Seq(Number),
         handler' \in [Number -> {"none", "running", "finished"}],
         \/ at' = at
         \/ at' = "over" /\ c'.ready # "timeout"
         \/ at' \in {"head", "body", "response", "moment", "detached"}
              /\ c'.ready # "timeout" /\ c.n # 0,
         ResponsesInOrder', NothingIsCutOff'
  PROVE  HttpInv'
<1>1. /\ Sane /\ Sound(c') /\ c'.n = c.n /\ c'.stream.buffer = c.stream.buffer
      /\ c'.ready = "timeout" => c.ready = "timeout"
      /\ c'.ready = "result" => c.ready = "result" \/ at = "response"
      /\ \A i \in 1..Len(c'.stream.tasks) : c'.stream.tasks[i].kind = "close" =>
           \E j \in 1..Len(c.stream.tasks) : c.stream.tasks[j].kind = "close"
  BY DEF Keeps, HttpInv
<1>2. at' \in {"head", "body", "response", "moment", "detached", "over"}
  BY <1>1 DEF Sane, TypeOK
<1>3. /\ inbox' \in Seq(Unit) /\ got' \in Seq(Number)
      /\ c'.n <= Len(requests)
      /\ \A i \in 1..Len(c'.stream.buffer) : c'.stream.buffer[i].n <= Len(requests)
      /\ \A i \in 1..Len(inbox') : inbox'[i].n <= Len(requests)
  BY <1>1 DEF Sane, TypeOK
<1>4. /\ c'.n # 0 \/ at' \in {"head", "over"}
      /\ at' = "head" /\ c'.ready = "result" => c'.n # 0
      /\ c'.ready = "timeout" => at' = "head"
  BY <1>1 DEF Sane
<1>5. Sane'
  BY <1>1, <1>2, <1>3, <1>4, SaneStep
<1>. QED  BY <1>5 DEF HttpInv

-----------------------------------------------------------------------------
(* The client's steps                                                      *)

\* All units received or under way are of requests that were sent.
LEMMA AheadIsSent ==
  ASSUME HttpInv
  PROVE  Ahead \in Seq(Unit) /\ \A i \in 1..Len(Ahead) : Ahead[i].n <= Len(requests)
<1>. DEFINE b == c.stream.buffer
<1>1. b \in Seq(Unit) /\ inbox \in Seq(Unit)
  BY Types
<1>2. /\ \A i \in 1..Len(b) : b[i].n <= Len(requests)
      /\ \A i \in 1..Len(inbox) : inbox[i].n <= Len(requests)
  BY DEF HttpInv, Sane
<1>. HIDE DEF b
<1>3. \A i \in 1..Len(b \o inbox) : \/ i \in 1..Len(b) /\ (b \o inbox)[i] = b[i]
                                    \/ /\ i - Len(b) \in 1..Len(inbox)
                                       /\ (b \o inbox)[i] = inbox[i - Len(b)]
  BY <1>1
<1>. QED  BY <1>1, <1>2, <1>3 DEF Ahead, b

\* The invariant is kept when the browser sends a request.
LEMMA SendRequestStep ==
  ASSUME HttpInv, SendRequest  PROVE HttpInv'
<1>1. PICK kind \in Kind : /\ requests' = Append(requests, kind)
                           /\ inbox' = inbox \o UnitsOf(kind, Len(requests) + 1)
  BY DEF SendRequest
<1>. DEFINE m == Len(requests) + 1
            us == UnitsOf(kind, m)
            e == Expected
            reqs == Append(requests, kind)
<1>2. /\ peer = "open" /\ m \in Number
      /\ UNCHANGED <<peer, tcp, at, c, handler, net, got>>
  BY Types, KindAssumption DEF SendRequest, Number
<1>3. /\ us \in Seq(Unit) /\ us # <<>>
      /\ \A i \in 1..Len(us) : us[i].n = m
      /\ Runs(reqs, us, HeadOf(m))
      /\ After(reqs, us[Len(us)]) = HeadOf(m + 1)
  <2>0. reqs[m] = kind
    BY Types
  <2>1. HeadOf(m) \in Unit /\ BodyOf(m) \in Unit
    BY <1>2 DEF HeadOf, BodyOf, Unit
  <2>2. CASE kind = "post"
    <3>1. us = <<HeadOf(m)>> \o <<BodyOf(m)>>
      BY <2>2 DEF UnitsOf, HeadOf, BodyOf
    <3>2. After(reqs, HeadOf(m)) = BodyOf(m) /\ After(reqs, BodyOf(m)) = HeadOf(m + 1)
      BY <2>0, <2>2 DEF After, HeadOf, BodyOf
    <3>3. HeadOf(m).n = m /\ BodyOf(m).n = m
      BY DEF HeadOf, BodyOf
    <3>. HIDE DEF us, reqs, m
    <3>4. Len(us) = 2 /\ us[1] = HeadOf(m) /\ us[2] = BodyOf(m) /\ us \in Seq(Unit)
      <4>. DEFINE s == <<HeadOf(m)>>
                  t == <<BodyOf(m)>>
      <4>1. /\ s \in Seq(Unit) /\ t \in Seq(Unit) /\ Len(s) = 1 /\ Len(t) = 1
            /\ s[1] = HeadOf(m) /\ t[1] = BodyOf(m) /\ us = s \o t
        BY <2>1, <3>1
      <4>. HIDE DEF s, t
      <4>2. /\ s \o t \in Seq(Unit) /\ Len(s \o t) = 2
            /\ (s \o t)[1] = s[1] /\ (s \o t)[2] = t[1]
        BY <4>1, ConcatProperties
      <4>. QED  BY <4>1, <4>2
    <3>. QED  BY <3>2, <3>3, <3>4 DEF Runs
  <2>3. CASE kind # "post"
    <3>1. us = <<HeadOf(m)>>
      BY <2>3 DEF UnitsOf, HeadOf
    <3>2. After(reqs, HeadOf(m)) = HeadOf(m + 1)
      BY <2>0, <2>3 DEF After, HeadOf
    <3>3. HeadOf(m).n = m
      BY DEF HeadOf
    <3>. HIDE DEF us, reqs, m
    <3>4. Len(us) = 1 /\ us[1] = HeadOf(m) /\ us \in Seq(Unit)
      BY <2>1, <3>1
    <3>. QED  BY <3>2, <3>3, <3>4 DEF Runs
  <2>. QED  BY <2>2, <2>3
<1>. HIDE DEF us
<1>4. Sane'
  <2>1. requests' \in Seq(Kind) /\ Len(requests') = m /\ m <= MaxRequest /\ inbox' \in Seq(Unit)
    BY <1>1, <1>2, <1>3, Types DEF Number, us
  <2>2. \A i \in 1..Len(inbox') : inbox'[i].n <= m
    <3>1. \A i \in 1..Len(inbox') : \/ i \in 1..Len(inbox) /\ inbox'[i] = inbox[i]
                                    \/ /\ i - Len(inbox) \in 1..Len(us)
                                       /\ inbox'[i] = us[i - Len(inbox)]
      BY <1>1, <1>3, Types, SMTT(40) DEF us
    <3>2. \A i \in 1..Len(inbox) : inbox[i].n <= m
      <4>1. \A i \in 1..Len(inbox) : inbox[i] \in Unit /\ inbox[i].n <= Len(requests)
        BY Types DEF HttpInv, Sane
      <4>2. Len(requests) \in Nat
        BY Types
      <4>. QED  BY <4>1, <4>2 DEF Unit, Number
    <3>. QED  BY <1>2, <1>3, <3>1, <3>2 DEF Number
  <2>3. \A i \in 1..Len(c.stream.buffer) : c.stream.buffer[i].n <= m
    <3>1. \A i \in 1..Len(c.stream.buffer) :
            c.stream.buffer[i] \in Unit /\ c.stream.buffer[i].n <= Len(requests)
      BY Types DEF HttpInv, Sane
    <3>. QED  BY <3>1, Types, SMTT(40) DEF Unit, Number
  <2>4. TypeOK'
    BY <1>2, <2>1 DEF HttpInv, Sane, TypeOK
  <2>5. c.n <= m
    BY Types DEF HttpInv, Sane
  <2>6. at # "idle"
    BY <1>2 DEF HttpInv, Sane
  <2>. HIDE DEF m
  <2>. QED  BY <1>2, <2>1, <2>2, <2>3, <2>4, <2>5, <2>6 DEF HttpInv, Sane
<1>5. ResponsesInOrder' /\ NothingIsCutOff'
  BY <1>2 DEF HttpInv, ResponsesInOrder, Responses, NothingIsCutOff
<1>6. ASSUME ~c.stream.closed  PROVE Phase'
  <2>1. Phase
    BY <1>6 DEF HttpInv
  <2>2. Expected' = e
    <3>1. CASE at = "head" /\ c.ready = "result"
      <4>1. c.n \in 1..Len(requests)
        BY <3>1, Types DEF HttpInv, Sane
      <4>2. requests'[c.n] = requests[c.n]
        BY <1>1, <4>1, Types
      <4>. QED  BY <1>2, <4>2 DEF Expected
    <3>2. CASE ~(at = "head" /\ c.ready = "result")
      BY <1>2, <3>2 DEF Expected
    <3>. QED  BY <3>1, <3>2
  <2>3. ASSUME c.ready # "timeout"
        PROVE  Runs(reqs, Ahead \o us, e) /\ EndOf(reqs, Ahead \o us, e) = HeadOf(m + 1)
    <3>1. Runs(requests, Ahead, e) /\ EndOf(requests, Ahead, e) = HeadOf(m)
      BY <1>2, <2>1, <2>3 DEF Phase
    <3>2. Runs(reqs, Ahead, e) /\ EndOf(reqs, Ahead, e) = HeadOf(m)
      BY <3>1, RunsStay, AheadIsSent, Types
    <3>. HIDE DEF e, reqs, m
    <3>. QED  BY <1>3, <3>2, RunsOn, AheadIsSent
  <2>4. Ahead' = Ahead \o us /\ Len(requests') + 1 = m + 1
    <3>1. Ahead' = c.stream.buffer \o (inbox \o us)
      BY <1>1, <1>2 DEF Ahead, us
    <3>2. Ahead' = Ahead \o us
      <4>. DEFINE b == c.stream.buffer
      <4>1. b \in Seq(Unit) /\ inbox \in Seq(Unit)
        BY Types
      <4>. HIDE DEF b
      <4>2. (b \o inbox) \o us = b \o (inbox \o us)
        BY <1>3, <4>1, ConcatAssociative
      <4>. QED  BY <3>1, <4>2 DEF Ahead, b
    <3>. QED  BY <1>1, <3>2, Types
  <2>5. UNCHANGED <<peer, at, c, handler>> /\ Responses' = Responses /\ requests' = reqs
    BY <1>1, <1>2 DEF Responses
  <2>6. Between' = Between /\ Got' = Got /\ Working' = Working
    BY <2>5 DEF Between, Got, Working
  <2>. HIDE DEF e, reqs, m
  <2>. QED  BY <1>2, <2>1, <2>2, <2>3, <2>4, <2>5, <2>6 DEF Phase, Busy, NoneBusy
<1>. QED  BY <1>2, <1>4, <1>5, <1>6 DEF HttpInv

\* The client goes, or the connection ends: less is under way.
LEMMA LessComes ==
  ASSUME HttpInv, NEW k \in 0..Len(inbox), inbox' = SubSeq(inbox, 1, k),
         UNCHANGED <<requests, at, c, handler, net, got>>,
         peer # "absent", peer' \in {"left", "vanished"},
         tcp' \in {"up", "fin", "reset"}, tcp = "reset" => tcp' = "reset"
  PROVE  HttpInv'
<1>1. /\ inbox \in Seq(Unit) /\ c.stream.buffer \in Seq(Unit) /\ Ahead \in Seq(Unit)
  BY Types, AheadIsSent
<1>2. /\ inbox' \in Seq(Unit) /\ Len(inbox') = k
      /\ \A i \in 1..k : inbox'[i] = inbox[i] /\ i \in 1..Len(inbox)
  BY <1>1
<1>3. Sane'
  <2>1. TypeOK'
    BY <1>2 DEF HttpInv, Sane, TypeOK
  <2>2. \A i \in 1..Len(inbox') : inbox'[i].n <= Len(requests)
    BY <1>2 DEF HttpInv, Sane
  <2>3. \A i \in 1..Len(c.stream.tasks) : c.stream.tasks[i].kind = "close" => tcp' = "reset"
    BY DEF HttpInv, Sane
  <2>4. at # "idle"
    BY DEF HttpInv, Sane
  <2>. QED  BY <2>1, <2>2, <2>3, <2>4 DEF HttpInv, Sane
<1>4. ResponsesInOrder' /\ NothingIsCutOff'
  BY DEF HttpInv, ResponsesInOrder, Responses, NothingIsCutOff
<1>5. ASSUME ~c.stream.closed  PROVE Phase'
  <2>. DEFINE b == c.stream.buffer
              j == Len(b) + k
  <2>1. Phase
    BY <1>5 DEF HttpInv
  <2>2. Ahead' = SubSeq(Ahead, 1, j) /\ j \in 0..Len(Ahead)
    <3>. HIDE DEF b
    <3>1. Ahead = b \o inbox /\ Ahead' = b \o inbox'
      BY DEF Ahead, b
    <3>2. b \in Seq(Unit)
      BY <1>1 DEF b
    <3>3. Len(Ahead) = Len(b) + Len(inbox) /\ Len(b) \in Nat /\ Len(inbox) \in Nat
          /\ Len(Ahead') = j /\ Ahead' \in Seq(Unit)
      BY <1>1, <1>2, <3>1, <3>2
    <3>4. /\ SubSeq(Ahead, 1, j) \in Seq(Unit) /\ Len(SubSeq(Ahead, 1, j)) = j
          /\ \A i \in 1..j : SubSeq(Ahead, 1, j)[i] = Ahead[i]
      BY <1>1, <3>3
    <3>5. \A i \in 1..j : Ahead'[i] = Ahead[i]
      BY <1>1, <1>2, <3>1, <3>2, <3>3
    <3>. QED  BY <3>3, <3>4, <3>5, SeqEqual
  <2>3. c.ready # "timeout" => Runs(requests, Ahead', Expected)
    BY <1>1, <2>1, <2>2, RunsPrefix DEF Phase
  <2>4. Expected' = Expected /\ Responses' = Responses
    BY DEF Expected, Responses
  <2>5. Between' = Between /\ Got' = Got /\ Working' = Working
    BY DEF Between, Got, Working
  <2>. QED  BY <2>1, <2>3, <2>4, <2>5 DEF Phase, Busy, NoneBusy
<1>. QED  BY <1>3, <1>4, <1>5 DEF HttpInv

\* The invariant is kept when the browser leaves.
LEMMA PeerGoesStep ==
  ASSUME HttpInv, PeerGoes  PROVE HttpInv'
<1>1. inbox \in Seq(Unit) /\ Len(inbox) \in Nat
  BY Types
<1>2. \E k \in 0..Len(inbox) : inbox' = SubSeq(inbox, 1, k)
  <2>1. CASE inbox' = inbox
    BY <1>1, <2>1, SubSeqFull
  <2>2. CASE inbox # <<>> /\ inbox' = Front(inbox)
    <3>1. inbox' = SubSeq(inbox, 1, Len(inbox) - 1) /\ Len(inbox) # 0
      BY <1>1, <2>2 DEF Front
    <3>. QED  BY <1>1, <3>1
  <2>. QED  BY <2>1, <2>2 DEF PeerGoes
<1>3. tcp \in {"up", "fin", "reset"}
  BY DEF HttpInv, Sane, TypeOK
<1>. QED  BY <1>2, <1>3, LessComes DEF PeerGoes

\* The invariant is kept when the connection ends.
LEMMA ConnectionEndsStep ==
  ASSUME HttpInv, ConnectionEnds  PROVE HttpInv'
<1>1. inbox \in Seq(Unit) /\ Len(inbox) \in Nat
  BY Types
<1>2. \E k \in 0..Len(inbox) : inbox' = SubSeq(inbox, 1, k)
  <2>1. CASE inbox' = inbox
    BY <1>1, <2>1, SubSeqFull
  <2>2. CASE inbox' = <<>>
    <3>1. SubSeq(inbox, 1, 0) = <<>>
      BY <1>1
    <3>. QED  BY <1>1, <2>2, <3>1
  <2>. QED  BY <2>1, <2>2 DEF ConnectionEnds
<1>. QED  BY <1>2, LessComes DEF ConnectionEnds

\* The invariant is kept when the browser reads a response.
LEMMA DeliverStep ==
  ASSUME HttpInv, Deliver  PROVE HttpInv'
<1>1. /\ peer = "open" /\ net # <<>> /\ got' = Append(got, Head(net)) /\ net' = Tail(net)
      /\ UNCHANGED <<peer, requests, inbox, tcp, at, c, handler>>
  BY DEF Deliver, clientVars
<1>2. /\ net \in Seq(Number) /\ got \in Seq(Number)
      /\ c.stream.writeBuffer \in Seq(Number)
  BY Types
<1>3. got' \in Seq(Number) /\ net' \in Seq(Number)
  BY <1>1, <1>2
<1>4. got' \o net' = got \o net
  <2>1. /\ Len(got') = Len(got) + 1 /\ Len(net') = Len(net) - 1 /\ Len(net) \in Nat
        /\ Len(net) >= 1 /\ Len(got) \in Nat
        /\ \A i \in 1..Len(got) : got'[i] = got[i]
        /\ got'[Len(got) + 1] = net[1]
        /\ \A i \in 1..Len(net') : net'[i] = net[i + 1]
    BY <1>1, <1>2
  <2>2. /\ got' \o net' \in Seq(Number) /\ got \o net \in Seq(Number)
        /\ Len(got' \o net') = Len(got) + Len(net) /\ Len(got \o net) = Len(got) + Len(net)
    <3>1. got' \o net' \in Seq(Number) /\ Len(got' \o net') = Len(got') + Len(net')
      BY <1>3, ConcatProperties
    <3>2. got \o net \in Seq(Number) /\ Len(got \o net) = Len(got) + Len(net)
      BY <1>2, ConcatProperties
    <3>. QED  BY <2>1, <3>1, <3>2
  <2>3. ASSUME NEW i \in 1..(Len(got) + Len(net))  PROVE (got' \o net')[i] = (got \o net)[i]
    <3>1. (got' \o net')[i] = IF i <= Len(got') THEN got'[i] ELSE net'[i - Len(got')]
      BY <1>2, <1>3, <2>1, <2>3, ConcatProperties
    <3>2. (got \o net)[i] = IF i <= Len(got) THEN got[i] ELSE net[i - Len(got)]
      BY <1>2, <1>3, <2>1, <2>3, ConcatProperties
    <3>. QED  BY <2>1, <2>3, <3>1, <3>2
  <2>. QED  BY <2>2, <2>3, SeqEqual
<1>5. Responses' = Responses
  BY <1>1, <1>4 DEF Responses
<1>6. Sane'
  <2>1. TypeOK'
    BY <1>1, <1>3 DEF HttpInv, Sane, TypeOK
  <2>. QED  BY <1>1, <2>1 DEF HttpInv, Sane
<1>7. ResponsesInOrder' /\ NothingIsCutOff'
  BY <1>1, <1>5 DEF HttpInv, ResponsesInOrder, NothingIsCutOff
<1>8. ~c.stream.closed => Phase'
  <2>1. Expected' = Expected /\ Ahead' = Ahead
    BY <1>1 DEF Expected, Ahead
  <2>2. Between' = Between /\ Got' = Got /\ Working' = Working
    BY <1>1 DEF Between, Got, Working
  <2>. QED  BY <1>1, <1>5, <2>1, <2>2 DEF HttpInv, Phase, Busy, NoneBusy
<1>. QED  BY <1>1, <1>6, <1>7, <1>8 DEF HttpInv

-----------------------------------------------------------------------------
(* Timeout, error, callbacks                                               *)

\* The invariant is kept by the header timeout.
LEMMA HeaderTimeoutStep ==
  ASSUME HttpInv, HeaderTimeout  PROVE HttpInv'
<1>1. /\ at = "head" /\ c.ready = "nothing" /\ c' = [c EXCEPT !.ready = "timeout"]
      /\ UNCHANGED <<peer, requests, inbox, tcp, at, handler, net, got>>
  BY DEF HeaderTimeout, clientVars
<1>2. c' \in Connection /\ c'.ready = "timeout" /\ c'.stream = c.stream /\ c'.n = c.n
      /\ c'.finished = c.finished /\ c'.writing = c.writing
  BY <1>1, Types DEF Connection
<1>3. Sound(c')
  BY <1>2, Types, StaysSound
<1>4. Sane'
  <2>1. TypeOK'
    BY <1>1, <1>2 DEF HttpInv, Sane, TypeOK
  <2>. QED  BY <1>1, <1>2, <1>3, <2>1 DEF HttpInv, Sane
<1>5. ResponsesInOrder' /\ NothingIsCutOff' /\ Responses' = Responses
  BY <1>1, <1>2 DEF HttpInv, ResponsesInOrder, Responses, NothingIsCutOff
<1>6. ~c.stream.closed => Phase'
  BY <1>1, <1>2, <1>5 DEF HttpInv, Phase, Between, Got, Working, Busy, NoneBusy
<1>. QED  BY <1>2, <1>4, <1>5, <1>6 DEF HttpInv

\* The invariant is kept by an ERROR event.
LEMMA ErrorEventStep ==
  ASSUME HttpInv, ErrorEvent  PROVE HttpInv'
<1>. DEFINE s == c.stream
            ts == s.tasks
            task == IO!Plain("close")
            t == [s EXCEPT !.tasks = Append(@, task)]
<1>1. /\ tcp = "reset" /\ c' = [c EXCEPT !.stream = t] /\ at # "detached" /\ ~s.closed
      /\ UNCHANGED <<peer, requests, inbox, tcp, at, handler, net, got>>
  BY DEF ErrorEvent, clientVars, IO!HandleError, Listening
<1>2. s \in IO!Stream /\ ts \in Seq(IO!Task) /\ task \in IO!Task /\ task.kind = "close"
  BY Types DEF IO!Plain, IO!Task
<1>. HIDE DEF task, ts
<1>3. s.pending = 0 /\ \A i \in 1..Len(ts) : ts[i].kind = "close"
  BY <1>1, Types DEF Sound, PendingOK, ts
<1>. HIDE DEF s
<1>4. t = [s EXCEPT !.tasks = Append(ts, task)]
  BY DEF ts
<1>5. /\ Append(ts, task) \in Seq(IO!Task)
      /\ \A i \in 1..Len(Append(ts, task)) : Append(ts, task)[i].kind = "close"
  BY <1>2, <1>3
<1>. HIDE DEF t
<1>6. /\ t \in IO!Stream /\ t.closed = s.closed /\ t.reading = s.reading
      /\ t.buffer = s.buffer /\ t.writeBuffer = s.writeBuffer /\ t.pending = s.pending
      /\ t.closeCallback = s.closeCallback /\ t.tasks = Append(ts, task)
  BY <1>2, <1>4, <1>5 DEF IO!Stream
<1>7. /\ c' \in Connection /\ c'.stream = t /\ c'.n = c.n /\ c'.ready = c.ready
      /\ c'.finished = c.finished /\ c'.writing = c.writing
  BY <1>1, <1>6, Types, WithStream
<1>8. Sound(c')
  <2>1. PendingOK(t)
    BY <1>3, <1>5, <1>6 DEF PendingOK
  <2>. QED  BY <1>6, <1>7, <2>1, Types DEF Sound, s
<1>9. Sane'
  <2>1. TypeOK'
    BY <1>1, <1>7 DEF HttpInv, Sane, TypeOK
  <2>2. at # "idle"
    BY <1>1 DEF HttpInv, Sane
  <2>. QED  BY <1>1, <1>6, <1>7, <1>8, <2>1, <2>2 DEF HttpInv, Sane, s
<1>10. ResponsesInOrder' /\ NothingIsCutOff' /\ Responses' = Responses
  BY <1>1, <1>6, <1>7 DEF HttpInv, ResponsesInOrder, Responses, NothingIsCutOff, s
<1>11. Phase'
  <2>1. Ahead' = Ahead
    BY <1>1, <1>6, <1>7 DEF Ahead, s
  <2>2. Expected' = Expected
    BY <1>1, <1>7 DEF Expected
  <2>3. Between' = Between /\ Got' = Got /\ Working' = Working
    BY <1>1, <1>7 DEF Between, Got, Working
  <2>. QED  BY <1>1, <1>6, <1>7, <1>10, <2>1, <2>2, <2>3 DEF HttpInv, Phase, Busy, NoneBusy, s
<1>. QED  BY <1>9, <1>10, <1>11 DEF HttpInv

\* The invariant is kept by every callback of the stream.
LEMMA RunTaskStep ==
  ASSUME HttpInv, RunTask  PROVE HttpInv'
<1>. DEFINE ts == c.stream.tasks
            task == Head(ts)
            r == [c EXCEPT !.stream = IO!Started(@)]
<1>1. /\ ts # <<>> /\ at # "detached"
      /\ c' = IF task.kind = "close" THEN CloseStream(r)
              ELSE IF at = "response" /\ task.data[1].n = c.n THEN ClearCallbacks(SetFinished(r))
              ELSE r
      /\ UNCHANGED <<peer, requests, inbox, tcp, at, handler, net, got>>
  BY DEF RunTask, clientVars
<1>2. /\ Keeps(c, r) /\ r.stream.closed = c.stream.closed
      /\ task.kind # "close" => c.stream.closed
  BY <1>1, Types, StartedIsSound
<1>3. ts \in Seq(IO!Task)
  BY Types
<1>. HIDE DEF r
<1>4. Keeps(r, c') /\ c'.stream.closed
  <2>0. Sound(r)
    BY <1>2 DEF Keeps
  <2>1. CASE task.kind = "close"
    BY <1>1, <2>0, <2>1, CloseStreamKeeps
  <2>2. CASE task.kind # "close" /\ at = "response" /\ task.data[1].n = c.n
    <3>1. Keeps(r, SetFinished(r)) /\ SetFinished(r).stream = r.stream
      BY <2>0, SetFinishedKeeps
    <3>2. /\ Keeps(SetFinished(r), c') /\ c'.stream.closed = SetFinished(r).stream.closed
      BY <1>1, <2>2, <3>1, ClearCallbacksKeeps DEF Keeps
    <3>. QED  BY <1>2, <2>2, <3>1, <3>2, KeepsTransitive
  <2>3. CASE task.kind # "close" /\ ~(at = "response" /\ task.data[1].n = c.n)
    BY <1>1, <1>2, <2>0, <2>3 DEF Keeps
  <2>. QED  BY <2>1, <2>2, <2>3
<1>5. Keeps(c, c')
  <2>1. Keeps(c, r) /\ Keeps(r, c')
    BY <1>2, <1>4
  <2>. QED  BY <2>1, KeepsTransitive
<1>6. at # "idle" /\ ResponsesInOrder' /\ NothingIsCutOff'
  <2>1. at # "idle"
    BY <1>1 DEF HttpInv, Sane, IO!Fresh
  <2>2. task.kind = "close" => peer # "open"
    <3>1. Head(ts) = ts[1] /\ 1 \in 1..Len(ts)
      BY <1>1, <1>3, SMTT(40)
    <3>. QED  BY <3>1 DEF HttpInv, Sane
  <2>3. c'.stream.writeBuffer = c.stream.writeBuffer /\ net' = net /\ got' = got
    BY <1>1, <1>5 DEF Keeps
  <2>4. Responses' = Responses
    BY <2>3 DEF Responses
  <2>5. ResponsesInOrder'
    BY <2>4 DEF HttpInv, ResponsesInOrder
  <2>6. NothingIsCutOff'
    BY <1>1, <1>2, <2>2, <2>3 DEF HttpInv, NothingIsCutOff
  <2>. QED  BY <2>1, <2>5, <2>6
<1>7. net' \in Seq(Number) /\ handler' \in [Number -> {"none", "running", "finished"}]
  BY <1>1 DEF HttpInv, Sane, TypeOK
<1>. HIDE DEF ts
<1>. QED  BY <1>1, <1>4, <1>5, <1>6, <1>7, ClosedStep

-----------------------------------------------------------------------------
(* Writing                                                                 *)

\* The stream is what it was but for what it listens for.
LEMMA LikeKeeps ==
  ASSUME NEW p, NEW q, NEW r, Keeps(p, q), Like(q, r)  PROVE Keeps(p, r)
BY DEF Keeps, Like

\* The invariant is kept by a WRITE event.
LEMMA WriteEventStep ==
  ASSUME HttpInv, WriteEvent  PROVE HttpInv'
<1>. DEFINE w == c.stream.writeBuffer
            left(k) == SubSeq(w, k + 1, Len(w))
            r(k) == [c EXCEPT !.stream.writeBuffer = left(k)]
<1>1. /\ at # "detached" /\ ~c.stream.closed
      /\ UNCHANGED <<peer, requests, inbox, tcp, at, handler, got>>
  BY DEF WriteEvent, clientVars, Listening
<1>2. w \in Seq(Number) /\ net \in Seq(Number) /\ got \in Seq(Number)
  BY Types
<1>3. handler' \in [Number -> {"none", "running", "finished"}]
  BY <1>1 DEF HttpInv, Sane, TypeOK
<1>4. CASE (Disconnected \/ peer = "left") /\ c' = CloseStream(c) /\ UNCHANGED net
  <2>1. Keeps(c, c') /\ c'.stream.closed
    BY <1>4, Types, CloseStreamKeeps
  <2>2. at # "idle" /\ peer # "open"
    BY <1>4 DEF HttpInv, Sane, Disconnected
  <2>3. ResponsesInOrder' /\ NothingIsCutOff'
    BY <1>1, <1>4, <2>1, <2>2
       DEF HttpInv, ResponsesInOrder, Responses, NothingIsCutOff, Keeps
  <2>. QED  BY <1>1, <1>2, <1>3, <1>4, <2>1, <2>2, <2>3, ClosedStep
<1>5. ASSUME NEW k \in 1..Len(w), net' = net \o SubSeq(w, 1, k),
             c' = Relisten(IF left(k) = <<>> /\ r(k).writing THEN FinishRequest(r(k), Wants(r(k).n))
                           ELSE r(k))
      PROVE  HttpInv'
  <2>. DEFINE l == left(k)
              s == r(k)
              q == IF l = <<>> /\ s.writing THEN FinishRequest(s, Wants(s.n)) ELSE s
  <2>1. /\ l \in Seq(Number) /\ SubSeq(w, 1, k) \in Seq(Number) /\ net' \in Seq(Number)
        /\ w # <<>>
    <3>. HIDE DEF w
    <3>1. k \in Nat /\ k \in 1..Len(w) /\ w # <<>>
      BY <1>2, <1>5
    <3>2. l \in Seq(Number) /\ SubSeq(w, 1, k) \in Seq(Number)
      BY <1>2, <3>1
    <3>3. net \o SubSeq(w, 1, k) \in Seq(Number)
      BY <1>2, <3>2
    <3>. QED  BY <1>5, <3>1, <3>2, <3>3
  <2>2. SubSeq(w, 1, k) \o l = w
    <3>1. 1 \in 1..(Len(w) + 1) /\ k \in (1 - 1)..Len(w) /\ Len(w) \in k..Len(w)
      BY <1>2
    <3>2. SubSeq(w, 1, k) \o l = SubSeq(w, 1, Len(w))
      BY <1>2, <3>1, ConcatAdjacentSubSeq
    <3>. QED  BY <1>2, <3>2, SubSeqFull
  <2>3. c' = Relisten(q) /\ s = [c EXCEPT !.stream.writeBuffer = l]
    BY <1>5
  <2>. HIDE DEF l, s
  <2>4. /\ Sound(s) /\ s.n = c.n /\ s.ready = c.ready /\ s.finished = c.finished
        /\ s.writing = c.writing /\ ~s.stream.closed
        /\ s.stream.reading = c.stream.reading /\ s.stream.buffer = c.stream.buffer
        /\ s.stream.writeBuffer = l /\ s.stream.tasks = c.stream.tasks
    BY <1>1, <2>1, <2>3, Types, Rewritten, ZenonT(60)
  <2>5. Phase /\ Working /\ at = "response" /\ ~Busy(c.n) /\ Len(Responses) = c.n /\ ~c.finished
        /\ c.writing /\ c.ready = "nothing"
    <3>1. Phase
      BY <1>1 DEF HttpInv
    <3>2. Working /\ at = "response"
      BY <1>1, <2>1, <3>1 DEF Phase, Working
    <3>. QED  BY <2>1, <3>1, <3>2 DEF Phase
  <2>6. Wants(s.n) \in BOOLEAN
    BY DEF Wants
  <2>7. /\ Keeps(s, q)
        /\ \/ q.stream.closed /\ l = <<>>
           \/ l = <<>> /\ q = SetFinished(ClearCallbacks(s))
           \/ l # <<>> /\ q = s
    <3>1. CASE l = <<>>
      BY <2>4, <2>5, <2>6, <3>1, FinishRequestKeeps
    <3>2. CASE l # <<>>
      BY <2>4, <3>2 DEF Keeps
    <3>. QED  BY <3>1, <3>2
  <2>. HIDE DEF q
  <2>8. Like(q, c')
    BY <2>3, <2>7, RelistenIsLike DEF Keeps
  <2>9. Keeps(s, c')
    BY <2>7, <2>8, LikeKeeps
  <2>10. Responses' = Responses
    <3>1. /\ got' = got /\ net' = net \o SubSeq(w, 1, k) /\ c'.stream.writeBuffer = l
      BY <1>1, <1>5, <2>4, <2>9 DEF Keeps
    <3>. DEFINE front == SubSeq(w, 1, k)
                x == got \o net
    <3>2. front \in Seq(Number) /\ x \in Seq(Number) /\ w = front \o l
      BY <1>2, <2>1, <2>2
    <3>3. Responses = x \o w
      BY DEF Responses
    <3>4. Responses' = (got \o (net \o front)) \o l
      BY <3>1 DEF Responses
    <3>. HIDE DEF front
    <3>5. got \o (net \o front) = x \o front
      BY <1>2, <3>2, ConcatAssociative, SMTT(40)
    <3>. HIDE DEF x, w
    <3>6. (x \o front) \o l = x \o (front \o l)
      BY <2>1, <3>2, ConcatAssociative, SMTT(40)
    <3>. QED  BY <3>2, <3>3, <3>4, <3>5, <3>6
  <2>11. ResponsesInOrder'
    BY <2>10 DEF HttpInv, ResponsesInOrder
  <2>12. at # "idle"
    BY <2>5
  <2>13. CASE q.stream.closed /\ l = <<>>
    <3>1. c'.stream.closed
      BY <2>8, <2>13 DEF Like
    <3>2. NothingIsCutOff'
      BY <2>4, <2>9, <2>13 DEF NothingIsCutOff, Keeps
    <3>. QED  BY <1>1, <1>3, <2>1, <2>4, <2>9, <2>11, <2>12, <3>1, <3>2, ClosedStep
  <2>14. ASSUME ~c'.stream.closed,
                \/ l = <<>> /\ c'.finished = TRUE /\ c'.writing = FALSE /\ c'.ready = "result"
                \/ c'.finished = c.finished /\ c'.writing = c.writing /\ c'.ready = c.ready,
                c'.stream.reading = c.stream.reading
         PROVE  HttpInv'
    <3>1. /\ Sound(c') /\ c'.n = c.n /\ c'.stream.buffer = c.stream.buffer
          /\ c'.stream.writeBuffer = l
          /\ \A i \in 1..Len(c'.stream.tasks) : c'.stream.tasks[i].kind = "close" =>
               \E j \in 1..Len(c.stream.tasks) : c.stream.tasks[j].kind = "close"
          /\ at' = at /\ c'.ready \in {"nothing", "result"}
      BY <1>1, <2>4, <2>5, <2>9, <2>14 DEF Keeps
    <3>2. /\ Sane /\ inbox' \in Seq(Unit) /\ got' \in Seq(Number)
          /\ c.n <= Len(requests) /\ c.n # 0
          /\ \A i \in 1..Len(c.stream.buffer) : c.stream.buffer[i].n <= Len(requests)
          /\ \A i \in 1..Len(inbox') : inbox'[i].n <= Len(requests)
      BY <1>1, <2>5 DEF HttpInv, Sane, TypeOK
    <3>3. Sane'
      BY <1>1, <1>3, <2>1, <2>5, <3>1, <3>2, SaneStep
    <3>4. Phase'
      <4>1. Ahead' = Ahead
        BY <1>1, <3>1 DEF Ahead
      <4>2. Expected' = Expected /\ Expected = HeadOf(c.n + 1)
        BY <1>1, <2>5, <3>1 DEF Expected
      <4>3. ~Between' /\ ~Got' /\ Working'
        BY <1>1, <2>5 DEF Between, Got, Working
      <4>. QED  BY <1>1, <2>5, <2>10, <2>14, <3>1, <4>1, <4>2, <4>3 DEF Phase, Busy, NoneBusy
    <3>. QED  BY <2>11, <2>14, <3>3, <3>4 DEF HttpInv, NothingIsCutOff
  <2>15. CASE l = <<>> /\ q = SetFinished(ClearCallbacks(s))
    <3>1. /\ q.finished = TRUE /\ q.writing = FALSE /\ q.ready = "result"
          /\ q.stream.reading = c.stream.reading /\ ~q.stream.closed
      BY <2>4, <2>5, <2>15, FinishedOpen
    <3>. QED  BY <2>8, <2>14, <2>15, <3>1 DEF Like
  <2>16. CASE l # <<>> /\ q = s
    BY <2>4, <2>8, <2>14, <2>16 DEF Like
  <2>. QED  BY <2>7, <2>13, <2>15, <2>16
<1>. QED  BY <1>4, <1>5 DEF WriteEvent

-----------------------------------------------------------------------------
(* The handlers' steps                                                     *)

\* Where a response that is written goes.
LEMMA ResponsesAre ==
  ASSUME HttpInv, NEW out \in Seq(Number), NEW w \in Seq(Number),
         got' = got, net' = net \o out, c'.stream.writeBuffer = w
  PROVE  Responses' = (got \o net) \o (out \o w)
<1>1. Responses' = (got \o (net \o out)) \o w
  BY DEF Responses
<1>2. got \in Seq(Number) /\ net \in Seq(Number)
  BY Types
<1>. DEFINE x == got \o net
<1>3. got \o (net \o out) = x \o out /\ x \in Seq(Number)
  BY <1>2, ConcatAssociative, SMTT(40)
<1>. HIDE DEF x
<1>4. (x \o out) \o w = x \o (out \o w)
  BY <1>3, ConcatAssociative, SMTT(40)
<1>. QED  BY <1>1, <1>3, <1>4 DEF x

\* One more response, the next one, is with the kernel or in the write buffer; or none is.
LEMMA NextResponse ==
  ASSUME HttpInv, c.stream.writeBuffer = <<>>, NEW n \in Number, Len(Responses) = n - 1,
         NEW out \in {<<>>, <<n>>}, NEW w \in {<<>>, <<n>>}, out = <<>> \/ w = <<>>,
         got' = got, net' = net \o out, c'.stream.writeBuffer = w
  PROVE  /\ net' \in Seq(Number) /\ ResponsesInOrder'
         /\ (out = <<>> /\ w = <<>> => Responses' = Responses)
         /\ (out = <<n>> \/ w = <<n>> => Len(Responses') = n)
<1>. DEFINE x == got \o net
            one == <<n>>
            none == <<>>
<1>1. /\ net \in Seq(Number) /\ got \in Seq(Number) /\ x \in Seq(Number)
      /\ out \in Seq(Number) /\ w \in Seq(Number) /\ one \in Seq(Number) /\ one # <<>>
  <2>1. one \in Seq(Number) /\ one # <<>> /\ none \in Seq(Number)
    OBVIOUS
  <2>2. out \in {one, none} /\ w \in {one, none}
    OBVIOUS
  <2>3. net \in Seq(Number) /\ got \in Seq(Number) /\ x \in Seq(Number)
    BY Types
  <2>. HIDE DEF one, none, x
  <2>. QED  BY <2>1, <2>2, <2>3 DEF none
<1>2. Responses = x
  BY <1>1, ConcatEmptySeq DEF Responses
<1>3. Responses' = x \o (out \o w)
  <2>. HIDE DEF one
  <2>. QED  BY <1>1, ResponsesAre
<1>. HIDE DEF x, one
<1>4. net' \in Seq(Number)
  BY <1>1
<1>5. CASE out = <<>> /\ w = <<>>
  <2>1. Responses' = Responses
    BY <1>1, <1>2, <1>3, <1>5, ConcatEmptySeq
  <2>2. out # <<n>> /\ w # <<n>>
    BY <1>1, <1>5 DEF one
  <2>. QED  BY <1>4, <2>1, <2>2 DEF HttpInv, ResponsesInOrder
<1>6. CASE (out = <<n>> /\ w = <<>>) \/ (out = <<>> /\ w = <<n>>)
  <2>1. out \o w = one
    <3>1. one \o <<>> = one /\ <<>> \o one = one
      BY <1>1, ConcatEmptySeq
    <3>. QED  BY <1>6, <3>1 DEF one
  <2>2. Responses' = x \o <<n>>
    BY <1>3, <2>1 DEF one
  <2>3. Responses = [i \in 1..Len(Responses) |-> i]
    BY DEF HttpInv, ResponsesInOrder
  <2>4. /\ x \o <<n>> = [i \in 1..Len(x \o <<n>>) |-> i] /\ Len(x \o <<n>>) = n
    BY <1>1, <1>2, <2>3, AppendInOrder
  <2>5. ~(out = <<>> /\ w = <<>>)
    BY <1>1, <1>6 DEF one
  <2>. QED  BY <1>4, <2>2, <2>4, <2>5 DEF ResponsesInOrder
<1>. QED  BY <1>5, <1>6

\* A handler that finishes after the stream was closed.
LEMMA LateFinish ==
  ASSUME HttpInv, NEW r, Sound(r), r.stream.closed, NEW n \in Number, NEW h \in FinishOutcomes(r, n)
  PROVE  h.out = <<>> /\ Keeps(r, h.conn) /\ h.conn.stream.closed
<1>. DEFINE q == IF n = r.n THEN FinishRequest(r, Wants(n)) ELSE ClearCallbacks(r)
<1>1. Keeps(r, q) /\ q.stream.closed
  <2>1. Wants(n) \in BOOLEAN
    BY DEF Wants
  <2>. QED  BY <2>1, FinishRequestKeeps, ClearCallbacksKeeps
<1>2. h = [conn |-> q, out |-> <<>>]
  BY DEF FinishOutcomes
<1>. HIDE DEF q
<1>3. h.conn = q /\ h.out = <<>>
  BY <1>2
<1>. QED  BY <1>1, <1>3

\* The invariant is kept when a handler finishes its response.
LEMMA HandlerFinishesStep ==
  ASSUME HttpInv, NEW n \in Number, HandlerFinishes(n)  PROVE HttpInv'
<1>1. PICK h \in FinishOutcomes(c, n) : c' = h.conn /\ net' = net \o h.out
  BY DEF HandlerFinishes
<1>2. /\ Busy(n) /\ handler' = [handler EXCEPT ![n] = "finished"]
      /\ UNCHANGED <<peer, requests, inbox, tcp, at, got>>
  BY DEF HandlerFinishes, clientVars, Busy
<1>3. /\ handler \in [Number -> {"none", "running", "finished"}]
      /\ handler' \in [Number -> {"none", "running", "finished"}]
  BY <1>2 DEF HttpInv, Sane, TypeOK
<1>4. \A m \in Number : Busy(m)' <=> m # n /\ Busy(m)
  BY <1>2, <1>3 DEF Busy
<1>5. CASE c.stream.closed
  <2>1. h.out = <<>> /\ Keeps(c, c') /\ c'.stream.closed
    BY <1>1, <1>5, Types, LateFinish
  <2>2. net' = net /\ net' \in Seq(Number)
    BY <1>1, <2>1, Types, ConcatEmptySeq
  <2>3. at # "idle"
    BY <1>5 DEF HttpInv, Sane, IO!Fresh
  <2>4. ResponsesInOrder' /\ NothingIsCutOff'
    BY <1>2, <1>5, <2>1, <2>2
       DEF HttpInv, ResponsesInOrder, Responses, NothingIsCutOff, Keeps
  <2>. QED  BY <1>2, <1>3, <2>1, <2>2, <2>3, <2>4, ClosedStep
<1>6. CASE ~c.stream.closed
  <2>1. Phase
    BY <1>6 DEF HttpInv
  <2>2. /\ Working /\ n = c.n /\ Len(Responses) = n - 1 /\ c.stream.writeBuffer = <<>>
        /\ ~c.writing /\ at # "idle" /\ c.n # 0
    BY <1>2, <2>1 DEF Phase, NoneBusy, Working, HttpInv, Sane, Number
  <2>. DEFINE q == h.conn
              s == [c EXCEPT !.stream.writeBuffer = q.stream.writeBuffer]
  <2>3. /\ h.out \in {<<>>, <<n>>} /\ Sound(s)
        /\ \/ /\ q.stream.closed /\ q.stream.writeBuffer = <<>> /\ Keeps(s, q)
              /\ h.out = <<>> => Disconnected \/ peer = "left"
           \/ /\ h.out = <<n>> /\ q.stream.writeBuffer = <<>>
              /\ q = SetFinished(ClearCallbacks(s))
           \/ /\ h.out = <<>> /\ q.stream.writeBuffer = <<n>>
              /\ Like([s EXCEPT !.writing = TRUE], q)
    <3>1. Wants(n) \in BOOLEAN
      BY DEF Wants
    <3>2. Sound(c)
      BY Types
    <3>. HIDE DEF Wants, Working
    <3>. QED  BY <1>1, <1>6, <2>2, <3>1, <3>2, FinishOutcome, ZenonT(60)
  <2>4. q.stream.writeBuffer \in {<<>>, <<n>>} /\ (h.out = <<>> \/ q.stream.writeBuffer = <<>>)
    BY <2>3
  <2>5. /\ net' \in Seq(Number) /\ ResponsesInOrder'
        /\ (h.out = <<n>> \/ q.stream.writeBuffer = <<n>> => Len(Responses') = n)
    BY <1>1, <1>2, <2>2, <2>3, <2>4, NextResponse
  <2>6. /\ s.n = c.n /\ s.ready = c.ready /\ s.finished = c.finished /\ ~s.stream.closed
        /\ s.stream.reading = c.stream.reading /\ s.stream.buffer = c.stream.buffer
        /\ s.stream.writeBuffer = q.stream.writeBuffer /\ s.stream.tasks = c.stream.tasks
    <3>1. q.stream.writeBuffer \in Seq(Number)
      <4>. DEFINE w == q.stream.writeBuffer
                  one == <<n>>
                  none == <<>>
      <4>1. w \in {none, one} /\ none \in Seq(Number) /\ one \in Seq(Number)
        BY <2>4
      <4>. HIDE DEF w, one, none
      <4>. QED  BY <4>1 DEF w
    <3>. HIDE DEF q
    <3>. QED  BY <1>6, <3>1, Types, Rewritten, ZenonT(60)
  <2>7. c' = q
    BY <1>1
  <2>. HIDE DEF s, q
  <2>8. CASE q.stream.closed /\ q.stream.writeBuffer = <<>> /\ Keeps(s, q)
    <3>1. NothingIsCutOff'
      BY <2>7, <2>8 DEF NothingIsCutOff
    <3>. QED  BY <1>2, <1>3, <2>2, <2>5, <2>6, <2>7, <2>8, <3>1, ClosedStep
  <2>9. ASSUME ~q.stream.closed, Keeps(s, q), q.stream.reading = c.stream.reading,
               \/ /\ h.out = <<n>> /\ q.stream.writeBuffer = <<>>
                  /\ q.finished = TRUE /\ q.writing = FALSE
                  /\ q.ready = (IF at = "response" THEN "result" ELSE c.ready)
               \/ /\ q.stream.writeBuffer = <<n>>
                  /\ q.finished = c.finished /\ q.writing = TRUE /\ q.ready = c.ready
        PROVE  HttpInv'
    <3>1. /\ Sound(c') /\ c'.n = c.n /\ c'.stream.buffer = c.stream.buffer
          /\ \A i \in 1..Len(c'.stream.tasks) : c'.stream.tasks[i].kind = "close" =>
               \E j \in 1..Len(c.stream.tasks) : c.stream.tasks[j].kind = "close"
      BY <2>6, <2>7, <2>9 DEF Keeps
    <3>2. /\ Sane /\ inbox' \in Seq(Unit) /\ got' \in Seq(Number)
          /\ c.n <= Len(requests)
          /\ \A i \in 1..Len(c.stream.buffer) : c.stream.buffer[i].n <= Len(requests)
          /\ \A i \in 1..Len(inbox') : inbox'[i].n <= Len(requests)
          /\ c.ready # "error" /\ c.ready # "timeout" /\ at' \in {"response", "detached"}
          /\ at' = at
      BY <1>2, <1>6, <2>2 DEF HttpInv, Sane, TypeOK, Working
    <3>3. Sane'
      BY <1>2, <1>3, <2>2, <2>5, <2>7, <2>9, <3>1, <3>2, SaneStep
    <3>4. Len(Responses') = n
      BY <2>5, <2>9
    <3>5. Phase'
      <4>1. Ahead' = Ahead
        BY <1>2, <3>1 DEF Ahead
      <4>2. Expected' = Expected /\ Expected = HeadOf(c.n + 1)
        BY <1>2, <3>1, <3>2 DEF Expected
      <4>3. ~Between' /\ ~Got' /\ Working'
        BY <3>2 DEF Between, Got, Working
      <4>4. ~Busy(n)' /\ \A m \in Number : ~Busy(m)'
        BY <1>4, <2>1, <2>2 DEF Phase
      <4>5. /\ c'.stream.reading = FALSE \/ at' \in {"head", "body"}
            /\ at' = "response" => c.finished = FALSE /\ c.ready = "nothing"
        BY <1>2, <2>1, <2>2, <2>7, <2>9, <3>2 DEF Phase, Connection, HttpInv, Sane, TypeOK, IO!Stream
      <4>. QED  BY <1>2, <2>1, <2>2, <2>7, <2>9, <3>1, <3>2, <3>4, <4>1, <4>2, <4>3, <4>4, <4>5
                DEF Phase, NoneBusy
    <3>. QED  BY <2>5, <2>7, <2>9, <3>3, <3>5 DEF HttpInv, NothingIsCutOff
  <2>10. CASE h.out = <<n>> /\ q.stream.writeBuffer = <<>> /\ q = SetFinished(ClearCallbacks(s))
    <3>1. at = "response" => ~c.finished /\ c.ready = "nothing"
      BY <1>2, <2>1, <2>2 DEF Phase
    <3>. QED  BY <2>3, <2>6, <2>9, <2>10, <3>1, FinishedOpen
  <2>11. CASE q.stream.writeBuffer = <<n>> /\ Like([s EXCEPT !.writing = TRUE], q)
    <3>. DEFINE u == [s EXCEPT !.writing = TRUE]
    <3>1. /\ u.n = s.n /\ u.ready = s.ready /\ u.finished = s.finished /\ u.writing = TRUE
          /\ u.stream = s.stream
      BY <2>3 DEF Sound, Connection
    <3>. HIDE DEF u
    <3>2. Like(u, q)
      BY <2>11 DEF u
    <3>3. Keeps(s, q)
      BY <3>1, <3>2 DEF Like, Keeps
    <3>. QED  BY <2>6, <2>9, <2>11, <3>1, <3>2, <3>3 DEF Like
  <2>. QED  BY <2>3, <2>8, <2>10, <2>11
<1>. QED  BY <1>5, <1>6

-----------------------------------------------------------------------------
(* The loop's reads                                                        *)

\* A unit is received, if there was none, and read: one less is ahead.
LEMMA OneLessAhead ==
  ASSUME HttpInv, NEW ch \in IO!Received(inbox, Disconnected) \cup {IO!NothingYet},
         inbox' = Rest(inbox, ch), c.stream.buffer \o ch.units # <<>>,
         c'.stream.buffer = Tail(c.stream.buffer \o ch.units),
         c'.n = (c.stream.buffer \o ch.units)[1].n
  PROVE  /\ Ahead # <<>> /\ Ahead' = Tail(Ahead) /\ c'.n = Ahead[1].n
         /\ c'.n \in Number /\ c'.n <= Len(requests) /\ inbox' \in Seq(Unit)
         /\ \A i \in 1..Len(c'.stream.buffer) : c'.stream.buffer[i].n <= Len(requests)
         /\ \A i \in 1..Len(inbox') : inbox'[i].n <= Len(requests)
<1>. DEFINE b == c.stream.buffer
            us == ch.units
            rest == Rest(inbox, ch)
            x == b \o us
<1>1. b \in Seq(Unit) /\ inbox \in Seq(Unit) /\ Disconnected \in BOOLEAN
  BY Types DEF Disconnected
<1>2. /\ us \in Seq(Unit) /\ rest \in Seq(Unit) /\ us \o rest = inbox
      /\ \A i \in 1..Len(us) : \E j \in 1..Len(inbox) : us[i] = inbox[j]
      /\ \A i \in 1..Len(rest) : \E j \in 1..Len(inbox) : rest[i] = inbox[j]
  BY <1>1, ChunkIsFront
<1>3. /\ \A i \in 1..Len(b) : b[i].n <= Len(requests)
      /\ \A i \in 1..Len(inbox) : inbox[i].n <= Len(requests)
  BY DEF HttpInv, Sane
<1>. HIDE DEF b, us, rest
<1>4. x \in Seq(Unit) /\ x # <<>>
  BY <1>1, <1>2 DEF b, us
<1>5. \A i \in 1..Len(x) : x[i].n <= Len(requests)
  <2>1. \A i \in 1..Len(x) : \/ i \in 1..Len(b) /\ x[i] = b[i]
                             \/ i - Len(b) \in 1..Len(us) /\ x[i] = us[i - Len(b)]
    BY <1>1, <1>2
  <2>. QED  BY <1>2, <1>3, <2>1, SMTT(40)
<1>6. /\ Tail(x) \o rest = Tail(b \o inbox) /\ x[1] = (b \o inbox)[1] /\ b \o inbox # <<>>
  BY <1>1, <1>2, <1>4, TakeFirst, ZenonT(60)
<1>7. Ahead = b \o inbox /\ Ahead' = Tail(x) \o rest
  BY DEF Ahead, b, us, rest
<1>8. c'.n = x[1].n /\ c'.stream.buffer = Tail(x) /\ inbox' = rest
  BY DEF b, us, rest
<1>. HIDE DEF x
<1>9. x[1] \in Unit /\ 1 \in 1..Len(x)
      /\ \A i \in 1..Len(Tail(x)) : Tail(x)[i] = x[i + 1] /\ i + 1 \in 1..Len(x)
  BY <1>4
<1>10. c'.n \in Number /\ c'.n <= Len(requests)
  BY <1>5, <1>8, <1>9 DEF Unit
<1>11. \A i \in 1..Len(c'.stream.buffer) : c'.stream.buffer[i].n <= Len(requests)
  BY <1>5, <1>8, <1>9
<1>12. inbox' \in Seq(Unit) /\ \A i \in 1..Len(inbox') : inbox'[i].n <= Len(requests)
  BY <1>2, <1>3, <1>8
<1>13. Ahead # <<>> /\ Ahead' = Tail(Ahead) /\ c'.n = Ahead[1].n
  BY <1>6, <1>7, <1>8
<1>. QED  BY <1>10, <1>11, <1>12, <1>13

\* What it was to be, if the connection is open.
LEMMA UnitRead ==
  ASSUME HttpInv, ~c.stream.closed, c.ready # "timeout", requests' = requests,
         Expected = IF at' = "body" THEN BodyOf(c.n) ELSE HeadOf(c.n + 1),
         at' \in {"head", "body"}, c'.ready = "result",
         Ahead # <<>>, Ahead' = Tail(Ahead), c'.n = Ahead[1].n
  PROVE  /\ c'.n = IF at' = "body" THEN c.n ELSE c.n + 1
         /\ Runs(requests, Ahead', Expected')
         /\ EndOf(requests, Ahead', Expected') = EndOf(requests, Ahead, Expected)
<1>1. Runs(requests, Ahead, Expected)
  BY DEF HttpInv, Phase
<1>2. /\ Ahead[1] = Expected /\ Runs(requests, Ahead', After(requests, Expected))
      /\ EndOf(requests, Ahead', After(requests, Expected)) = EndOf(requests, Ahead, Expected)
  BY <1>1, AheadIsSent, RunsTail
<1>3. CASE at' = "body"
  <2>1. Expected = BodyOf(c.n) /\ Ahead[1] = BodyOf(c.n)
    BY <1>2, <1>3
  <2>2. c'.n = c.n /\ After(requests, Expected) = HeadOf(c.n + 1)
    BY <2>1 DEF BodyOf, After
  <2>3. Expected' = HeadOf(c'.n + 1)
    BY <1>3 DEF Expected
  <2>. QED  BY <1>2, <1>3, <2>2, <2>3
<1>4. CASE at' = "head"
  <2>1. Expected = HeadOf(c.n + 1) /\ Ahead[1] = HeadOf(c.n + 1)
    BY <1>2, <1>4
  <2>2. /\ c'.n = c.n + 1
        /\ After(requests, Expected)
             = IF requests[c'.n] = "post" THEN BodyOf(c'.n) ELSE HeadOf(c'.n + 1)
    BY <2>1 DEF HeadOf, After
  <2>3. Expected' = IF requests[c'.n] = "post" THEN BodyOf(c'.n) ELSE HeadOf(c'.n + 1)
    BY <1>4 DEF Expected
  <2>. QED  BY <1>2, <1>4, <2>2, <2>3
<1>. QED  BY <1>3, <1>4

\* A step after which the loop reads or has read.
LEMMA LoopStep ==
  ASSUME HttpInv, at # "idle", at' \in {"head", "body"},
         UNCHANGED <<peer, requests, tcp, handler, net, got>>,
         Sound(c'), c'.stream.closed = c.stream.closed,
         c'.stream.writeBuffer = c.stream.writeBuffer, c'.stream.tasks = c.stream.tasks,
         c'.ready = "error" => c.stream.closed, c'.ready = "timeout" => at' = "head",
         c'.n <= Len(requests), inbox' \in Seq(Unit),
         \A i \in 1..Len(c'.stream.buffer) : c'.stream.buffer[i].n <= Len(requests),
         \A i \in 1..Len(inbox') : inbox'[i].n <= Len(requests),
         c'.n # 0 \/ (at' = "head" /\ c'.ready # "result"),
         ~c.stream.closed =>
           /\ ~Working /\ ~c'.finished /\ ~c'.writing
           /\ c'.stream.reading => c'.ready # "result" /\ c'.stream.buffer = <<>>
           /\ c'.ready # "timeout" =>
                /\ c.ready # "timeout"
                /\ Len(Responses) = IF c'.ready = "result" \/ at' = "body" THEN c'.n - 1 ELSE c'.n
                /\ Runs(requests, Ahead', Expected')
                /\ EndOf(requests, Ahead', Expected') = EndOf(requests, Ahead, Expected)
  PROVE  HttpInv'
<1>1. /\ net' \in Seq(Number) /\ got' \in Seq(Number)
      /\ handler' \in [Number -> {"none", "running", "finished"}] /\ Sane
  BY DEF HttpInv, Sane, TypeOK
<1>2. Sane'
  BY <1>1, SaneStep
<1>3. Responses' = Responses
  BY DEF Responses
<1>4. ASSUME ~c.stream.closed  PROVE Phase'
  <2>1. /\ Phase /\ NoneBusy /\ c.stream.writeBuffer = <<>>
    BY <1>4 DEF HttpInv, Phase
  <2>2. ~Working' /\ (Between' <=> at' = "head" /\ c'.ready = "nothing")
        /\ (Got' <=> at' = "body" \/ c'.ready = "result")
    BY DEF Working, Between, Got
  <2>3. at' # "over" /\ at' # "moment" /\ at' # "response"
    OBVIOUS
  <2>4. c'.ready # "timeout" =>
          Len(Responses') = IF c'.ready = "result" \/ at' = "body" THEN c'.n - 1 ELSE c'.n
    BY <1>3, <1>4
  <2>5. c'.ready # "timeout" =>
          /\ Runs(requests', Ahead', Expected')
          /\ peer' \in {"absent", "open"} =>
               EndOf(requests', Ahead', Expected') = HeadOf(Len(requests') + 1)
    BY <1>4, <2>1 DEF Phase
  <2>6. /\ c'.stream.reading => /\ c'.ready \in {"nothing", "timeout"}
                                /\ c'.stream.buffer = <<>>
        /\ ~c'.finished /\ ~c'.writing /\ c'.stream.writeBuffer = <<>>
        /\ NoneBusy'
    BY <1>4, <2>1 DEF NoneBusy, Busy, Sound, Connection
  <2>7. c'.ready = "timeout" => at' = "head"
    OBVIOUS
  <2>. HIDE DEF Expected
  <2>. QED  BY <2>2, <2>3, <2>4, <2>5, <2>6, <2>7 DEF Phase, Working
<1>. QED  BY <1>2, <1>3, <1>4 DEF HttpInv, ResponsesInOrder, NothingIsCutOff

\* The invariant is kept when the loop reads the body or the next head.
LEMMA ReadingOn ==
  ASSUME HttpInv, c.ready = "result", NEW r, Sound(r),
         r.ready = "nothing", r.n = c.n, r.stream = c.stream,
         NEW where, ReadOrEnd(r, where),
         \/ /\ where = "body" /\ at = "head" /\ requests[c.n] = "post"
            /\ r.finished = c.finished /\ r.writing = c.writing
         \/ where = "head" /\ at = "moment" /\ r.finished = FALSE /\ r.writing = FALSE,
         UNCHANGED <<peer, requests, tcp, handler, net, got>>
  PROVE  HttpInv'
<1>1. /\ at # "idle" /\ c.n # 0 /\ r.stream.writeBuffer = c.stream.writeBuffer
      /\ r.stream.buffer = c.stream.buffer /\ r.stream.tasks = c.stream.tasks
      /\ net' \in Seq(Number) /\ got' \in Seq(Number)
      /\ handler' \in [Number -> {"none", "running", "finished"}]
      /\ tcp # "up" => peer # "open"
  BY DEF HttpInv, Sane, TypeOK
<1>2. CASE ReadRaises(r)
  <2>1. at' = "over" /\ c' = r /\ inbox' = inbox
    BY <1>2 DEF ReadOrEnd
  <2>2. Keeps(r, r) /\ r.stream.closed
    BY <1>2 DEF Keeps, ReadRaises
  <2>3. ResponsesInOrder' /\ NothingIsCutOff'
    BY <1>1, <2>1 DEF HttpInv, ResponsesInOrder, Responses, NothingIsCutOff
  <2>. QED  BY <1>1, <2>1, <2>2, <2>3, ClosedStep
<1>3. ASSUME ~ReadRaises(r), NEW ch \in Chunks(r), at' = where, c' = Read(r, ch),
             inbox' = SubSeq(inbox, Len(ch.units) + 1, Len(inbox))
      PROVE  HttpInv'
  <2>1. inbox \in Seq(Unit)
    BY Types
  <2>2. \/ Took([r EXCEPT !.ready = "nothing"], c', r.stream.buffer \o ch.units)
        \/ /\ Keeps(r, c') /\ c'.stream.closed
           /\ c'.ready # "timeout" /\ Disconnected /\ ch.units = <<>>
        \/ Waits(r, c') /\ ch.units = <<>>
    BY <1>3, <2>1, ReadOutcome
  <2>3. /\ inbox' = Rest(inbox, ch)
        /\ ch \in IO!Received(inbox, Disconnected) \cup {IO!NothingYet}
        /\ ch.units = <<>> => inbox' = inbox
    <3>1. ch.units = <<>> => inbox' = SubSeq(inbox, 1, Len(inbox))
      BY <1>3
    <3>2. SubSeq(inbox, 1, Len(inbox)) = inbox
      BY <2>1, SubSeqFull
    <3>. QED  BY <1>3, <3>1, <3>2 DEF Rest, Chunks
  \* The end of the connection.
  <2>4. CASE /\ Keeps(r, c') /\ c'.stream.closed
             /\ c'.ready # "timeout" /\ Disconnected /\ ch.units = <<>>
    <3>1. inbox' = inbox /\ peer # "open"
      BY <1>1, <2>3, <2>4 DEF Disconnected
    <3>2. c'.stream.writeBuffer = c.stream.writeBuffer /\ net' = net /\ got' = got
      BY <1>1, <2>4 DEF Keeps
    <3>3. Responses' = Responses
      BY <3>2 DEF Responses
    <3>4. ResponsesInOrder'
      BY <3>3 DEF HttpInv, ResponsesInOrder
    <3>5. peer' # "open"
      BY <3>1
    <3>6. NothingIsCutOff'
      BY <3>5 DEF NothingIsCutOff
    <3>. QED  BY <1>1, <1>3, <2>4, <3>1, <3>4, <3>6, ClosedStep
  \* A unit, or nothing yet.
  <2>5. /\ at' \in {"head", "body"} /\ where = at'
        /\ ~c.stream.closed => ~Working /\ ~r.finished /\ ~r.writing
    BY <1>3 DEF HttpInv, Phase, Working
  <2>6. ~c.stream.closed =>
          /\ Expected = IF at' = "body" THEN BodyOf(c.n) ELSE HeadOf(c.n + 1)
          /\ Len(Responses) = IF at' = "body" THEN c.n - 1 ELSE c.n
          /\ Runs(requests, Ahead, Expected)
    BY <1>3 DEF HttpInv, Phase, Expected, Between, Got
  <2>7. CASE Took([r EXCEPT !.ready = "nothing"], c', r.stream.buffer \o ch.units)
    <3>1. /\ Sound(c') /\ c.stream.buffer \o ch.units # <<>>
          /\ c'.n = (c.stream.buffer \o ch.units)[1].n
          /\ c'.stream.buffer = Tail(c.stream.buffer \o ch.units) /\ c'.stream.reading = FALSE
          /\ c'.ready = "result" /\ c'.finished = r.finished /\ c'.writing = r.writing
          /\ c'.stream.closed = c.stream.closed
          /\ c'.stream.writeBuffer = c.stream.writeBuffer
          /\ c'.stream.tasks = c.stream.tasks
      <4>. DEFINE u == [r EXCEPT !.ready = "nothing"]
      <4>1. u.ready = "nothing" /\ u.finished = r.finished /\ u.writing = r.writing
            /\ u.stream = r.stream
        BY DEF Sound, Connection
      <4>. HIDE DEF u
      <4>2. Took(u, c', c.stream.buffer \o ch.units)
        BY <2>7 DEF u
      <4>3. c' \in Connection /\ c'.stream.reading \in BOOLEAN
        BY <4>2, SMTT(40) DEF Took, Sound, Connection, IO!Stream
      <4>. QED  BY <4>1, <4>2, <4>3 DEF Took
    <3>2. /\ Ahead # <<>> /\ Ahead' = Tail(Ahead) /\ c'.n = Ahead[1].n
          /\ c'.n \in Number /\ c'.n <= Len(requests) /\ inbox' \in Seq(Unit)
          /\ \A i \in 1..Len(c'.stream.buffer) : c'.stream.buffer[i].n <= Len(requests)
          /\ \A i \in 1..Len(inbox') : inbox'[i].n <= Len(requests)
      BY <2>3, <3>1, OneLessAhead
    <3>3. ASSUME ~c.stream.closed
          PROVE  /\ Len(Responses) = c'.n - 1
                 /\ Runs(requests, Ahead', Expected')
                 /\ EndOf(requests, Ahead', Expected') = EndOf(requests, Ahead, Expected)
      <4>1. /\ c'.n = IF at' = "body" THEN c.n ELSE c.n + 1
            /\ Runs(requests, Ahead', Expected')
            /\ EndOf(requests, Ahead', Expected') = EndOf(requests, Ahead, Expected)
        BY <2>5, <2>6, <3>1, <3>2, <3>3, UnitRead
      <4>2. c.n \in Nat
        BY Types
      <4>. QED  BY <2>6, <3>3, <4>1, <4>2
    <3>4. c'.n # 0
      BY <3>2 DEF Number
    <3>. HIDE DEF Expected
    <3>. QED  BY <1>1, <2>5, <3>1, <3>2, <3>3, <3>4, LoopStep
  <2>8. CASE Waits(r, c') /\ ch.units = <<>>
    <3>1. /\ Sound(c') /\ c'.n = c.n /\ c'.ready = "nothing" /\ c'.finished = r.finished
          /\ c'.writing = r.writing /\ c'.stream.closed = c.stream.closed
          /\ c'.stream.buffer = c.stream.buffer /\ c.stream.buffer = <<>>
          /\ c'.stream.writeBuffer = c.stream.writeBuffer
          /\ c'.stream.tasks = c.stream.tasks
      <4>. DEFINE t == [r.stream EXCEPT !.reading = TRUE]
                  u == [r EXCEPT !.ready = "nothing", !.stream.reading = TRUE]
      <4>1. /\ t.closed = r.stream.closed /\ t.buffer = r.stream.buffer
            /\ t.writeBuffer = r.stream.writeBuffer /\ t.tasks = r.stream.tasks
        BY DEF Sound, Connection, IO!Stream
      <4>2. u.ready = "nothing" /\ u.finished = r.finished /\ u.writing = r.writing
            /\ u.stream = t /\ u.n = r.n
        BY DEF Sound, Connection
      <4>. HIDE DEF u, t
      <4>3. Like(u, c')
        BY <2>8 DEF Waits, u
      <4>. QED  BY <1>1, <2>8, <4>1, <4>2, <4>3 DEF Like, Waits
    <3>2. inbox' = inbox /\ Ahead' = Ahead
      BY <2>3, <2>8, <3>1 DEF Ahead
    <3>3. Expected' = IF at' = "body" THEN BodyOf(c.n) ELSE HeadOf(c.n + 1)
      BY <2>5, <3>1 DEF Expected
    <3>4. /\ c.n <= Len(requests) /\ inbox \in Seq(Unit)
          /\ \A i \in 1..Len(c.stream.buffer) : c.stream.buffer[i].n <= Len(requests)
          /\ \A i \in 1..Len(inbox) : inbox[i].n <= Len(requests)
      BY DEF HttpInv, Sane, TypeOK
    <3>5. ~c.stream.closed => Expected' = Expected
      BY <2>6, <3>3
    <3>. HIDE DEF Expected
    <3>6. c'.n # 0
      BY <1>1, <3>1
    <3>7. ~c.stream.closed =>
            /\ Len(Responses) = IF c'.ready = "result" \/ at' = "body" THEN c'.n - 1 ELSE c'.n
            /\ Runs(requests, Ahead', Expected')
            /\ EndOf(requests, Ahead', Expected') = EndOf(requests, Ahead, Expected)
      BY <2>6, <3>1, <3>2, <3>5
    <3>. QED  BY <1>1, <2>5, <3>1, <3>2, <3>4, <3>6, <3>7, LoopStep
  <2>. QED  BY <2>2, <2>4, <2>7, <2>8
<1>. QED  BY <1>2, <1>3 DEF ReadOrEnd

\* The connection is accepted, and its first request read, which is not there yet.
LEMMA AcceptStep ==
  ASSUME HttpInv, Accept  PROVE HttpInv'
<1>. DEFINE r == [c EXCEPT !.finished = FALSE, !.writing = FALSE]
<1>1. /\ at = "idle" /\ peer' = "open" /\ ReadOrEnd(r, "head")
      /\ UNCHANGED <<requests, tcp, handler, net, got>>
  BY DEF Accept, NextRequest
<1>2. /\ c.stream = IO!Fresh /\ c.n = 0 /\ c.ready = "nothing" /\ requests = <<>>
      /\ inbox = <<>> /\ peer = "absent" /\ tcp = "up"
  BY <1>1 DEF HttpInv, Sane, TypeOK
<1>3. /\ r \in Connection /\ r.stream = c.stream /\ r.n = 0 /\ r.ready = "nothing"
      /\ r.finished = FALSE /\ r.writing = FALSE
  BY <1>2, Types DEF Connection
<1>. HIDE DEF r
<1>4. Sound(r)
  BY <1>2, <1>3, Types, StaysSound
<1>5. PICK ch \in Chunks(r) : /\ at' = "head" /\ c' = Read(r, ch)
                              /\ inbox' = SubSeq(inbox, Len(ch.units) + 1, Len(inbox))
  <2>1. ~ReadRaises(r)
    BY <1>2, <1>3 DEF ReadRaises, IO!Fresh
  <2>. QED  BY <1>1, <2>1 DEF ReadOrEnd
<1>6. ch.units = <<>> /\ inbox' = <<>> /\ inbox' \in Seq(Unit)
  <2>1. ch = IO!NothingYet
    BY <1>2, <1>3, <1>5 DEF Chunks, IO!Fresh, IO!Received, Disconnected
  <2>2. ch.units = <<>>
    BY <2>1 DEF IO!NothingYet
  <2>3. inbox' = SubSeq(inbox, 1, Len(inbox)) /\ inbox \in Seq(Unit)
    BY <1>5, <2>2, Types
  <2>. QED  BY <1>2, <2>2, <2>3, SubSeqFull
<1>7. Waits(r, c')
  <2>1. ~ReadRaises(r) /\ inbox \in Seq(Unit) /\ ~Disconnected
    BY <1>2, <1>3, Types DEF ReadRaises, IO!Fresh, Disconnected
  <2>2. r.stream.buffer \o ch.units = <<>>
    BY <1>2, <1>3, <1>6 DEF IO!Fresh
  <2>. QED  BY <1>4, <1>5, <2>1, <2>2, ReadOutcome DEF Took
<1>8. /\ Sound(c') /\ c'.n = 0 /\ c'.ready = "nothing" /\ c'.finished = FALSE
      /\ c'.writing = FALSE /\ ~c'.stream.closed /\ c'.stream.buffer = <<>>
      /\ c'.stream.writeBuffer = <<>> /\ c'.stream.tasks = <<>>
  <2>. DEFINE t == [r.stream EXCEPT !.reading = TRUE]
              u == [r EXCEPT !.ready = "nothing", !.stream.reading = TRUE]
  <2>1. ~t.closed /\ t.buffer = <<>> /\ t.writeBuffer = <<>> /\ t.tasks = <<>>
    BY <1>2, <1>3 DEF IO!Fresh
  <2>2. u.ready = "nothing" /\ u.finished = FALSE /\ u.writing = FALSE
        /\ u.stream = t /\ u.n = 0
    BY <1>3 DEF Connection
  <2>. HIDE DEF u, t
  <2>3. Like(u, c')
    BY <1>7 DEF Waits, u
  <2>. QED  BY <2>1, <2>2, <2>3 DEF Like
<1>9. Responses' = Responses
  BY <1>1, <1>2, <1>8 DEF Responses, IO!Fresh
<1>10. Sane'
  <2>1. TypeOK'
    BY <1>1, <1>5, <1>6, <1>8 DEF HttpInv, Sane, TypeOK, Sound
  <2>. QED  BY <1>1, <1>2, <1>5, <1>6, <1>8, <2>1 DEF Sane
<1>11. Phase'
  <2>1. Phase
    BY <1>2 DEF HttpInv, IO!Fresh
  <2>2. ~Working' /\ ~Got' /\ Len(Responses') = 0 /\ NoneBusy'
    BY <1>1, <1>2, <1>5, <1>8, <1>9, <2>1 DEF Phase, Working, Got, Between, NoneBusy, Busy
  <2>3. Ahead' = <<>> /\ Expected' = HeadOf(1) /\ Len(requests') = 0
    <3>1. Ahead' = <<>> \o <<>>
      BY <1>6, <1>8 DEF Ahead
    <3>2. Ahead' = <<>>
      BY <3>1
    <3>3. Expected' = HeadOf(1)
      BY <1>5, <1>8 DEF Expected
    <3>. QED  BY <1>1, <1>2, <3>2, <3>3
  <2>4. Runs(requests', Ahead', Expected') /\ EndOf(requests', Ahead', Expected') = HeadOf(1)
    <3>. HIDE DEF Ahead, Expected
    <3>. QED  BY <2>3 DEF Runs, EndOf
  <2>. QED  BY <1>5, <1>8, <2>2, <2>3, <2>4 DEF Phase, Between, Working
<1>. QED  BY <1>8, <1>9, <1>10, <1>11 DEF HttpInv, ResponsesInOrder, NothingIsCutOff

\* Data or the end of it arrives, for a read or, watched for, ahead of one.
LEMMA ReadEventStep ==
  ASSUME HttpInv, ReadEvent  PROVE HttpInv'
<1>1. PICK ch \in IO!Received(inbox, Disconnected) :
        LET filled == [c EXCEPT !.stream = IO!ToBuffer(@, ch)] IN
        /\ c' = Relisten(IF filled.stream.reading /\ filled.stream.buffer # <<>>
                           THEN Consume(filled) ELSE MaybeRunCloseCallback(filled))
        /\ inbox' = Rest(inbox, ch)
  BY DEF ReadEvent, Rest
<1>2. /\ at # "detached" /\ ~c.stream.closed
      /\ UNCHANGED <<peer, requests, tcp, at, handler, net, got>>
  BY DEF ReadEvent, Listening
<1>. DEFINE filled == [c EXCEPT !.stream = IO!ToBuffer(@, ch)]
            b == c.stream.buffer \o ch.units
            q == IF filled.stream.reading /\ filled.stream.buffer # <<>>
                   THEN Consume(filled) ELSE MaybeRunCloseCallback(filled)
<1>3. /\ ch.units \in Seq(Unit) /\ ch.eof \in BOOLEAN /\ Rest(inbox, ch) \in Seq(Unit)
      /\ ch.units \o Rest(inbox, ch) = inbox
      /\ ch.eof => Disconnected /\ ch.units = <<>>
      /\ ~ch.eof => ch.units # <<>>
      /\ \A i \in 1..Len(ch.units) : \E j \in 1..Len(inbox) : ch.units[i] = inbox[j]
      /\ \A i \in 1..Len(Rest(inbox, ch)) : \E j \in 1..Len(inbox) : Rest(inbox, ch)[i] = inbox[j]
  <2>1. inbox \in Seq(Unit) /\ Disconnected \in BOOLEAN
    BY Types DEF Disconnected
  <2>2. ~ch.eof => ch.units # <<>>
    <3>1. CASE \E n \in 1..Len(inbox) : ch = [units |-> SubSeq(inbox, 1, n), eof |-> FALSE]
      <4>1. PICK n \in 1..Len(inbox) : ch = [units |-> SubSeq(inbox, 1, n), eof |-> FALSE]
        BY <3>1
      <4>2. Len(ch.units) = n
        BY <2>1, <4>1
      <4>. QED  BY <4>2
    <3>2. CASE ch = [units |-> <<>>, eof |-> TRUE]
      BY <3>2
    <3>. QED  BY <3>1, <3>2 DEF IO!Received
  <2>. QED  BY <2>1, <2>2, ChunkIsFront
<1>4. /\ at # "idle" /\ got' \in Seq(Number) /\ net' \in Seq(Number)
      /\ handler' \in [Number -> {"none", "running", "finished"}]
      /\ tcp # "up" => peer # "open"
      /\ at' \in {"head", "body", "response", "moment", "detached", "over"}
      /\ Phase
  <2>1. at # "idle"
    BY <1>1, <1>2 DEF HttpInv, Sane, ReadEvent, Listening, IO!Fresh
  <2>. QED  BY <1>2, <2>1 DEF HttpInv, Sane, TypeOK
<1>5. /\ c \in Connection /\ c.stream \in IO!Stream /\ Sound(c) /\ b \in Seq(Unit)
      /\ c' = Relisten(q) /\ inbox' = Rest(inbox, ch)
  <2>1. c.stream.buffer \in Seq(Unit)
    BY Types
  <2>2. b \in Seq(Unit)
    BY <1>3, <2>1
  <2>. QED  BY <1>1, <2>2, Types
\* The end of the connection.
<1>6. CASE ch.eof
  <2>1. filled = [c EXCEPT !.stream =
          [c.stream EXCEPT !.closed = TRUE, !.handler = FALSE, !.interest = {}]]
    BY <1>5, <1>6 DEF IO!ToBuffer, Connection
  <2>. HIDE DEF filled
  <2>2. /\ filled \in Connection /\ filled.ready = c.ready /\ filled.n = c.n
        /\ filled.stream.closed /\ filled.stream.buffer = c.stream.buffer
        /\ filled.stream.writeBuffer = c.stream.writeBuffer
        /\ filled.stream.tasks = c.stream.tasks
        /\ filled.stream.pending = c.stream.pending
        /\ filled.stream.closeCallback = c.stream.closeCallback
        /\ filled.stream.reading = c.stream.reading
    <3>. DEFINE t == [c.stream EXCEPT !.closed = TRUE, !.handler = FALSE, !.interest = {}]
    <3>1. /\ t \in IO!Stream /\ t.closed /\ t.buffer = c.stream.buffer
          /\ t.writeBuffer = c.stream.writeBuffer /\ t.tasks = c.stream.tasks
          /\ t.pending = c.stream.pending /\ t.closeCallback = c.stream.closeCallback
          /\ t.reading = c.stream.reading
      BY <1>5 DEF IO!Stream
    <3>. HIDE DEF t
    <3>2. filled \in Connection /\ filled.stream = t /\ filled.n = c.n /\ filled.ready = c.ready
      BY <1>5, <2>1, <3>1, WithStream DEF t
    <3>. QED  BY <3>1, <3>2
  <2>3. Sound(filled) /\ Keeps(c, filled)
    <3>1. Sound(filled)
      BY <1>2, <1>5, <2>2, StaysSound
    <3>. QED  BY <2>2, <3>1 DEF Keeps
  <2>4. q = MaybeRunCloseCallback(filled)
    BY <1>4, <2>2 DEF Phase
  <2>. HIDE DEF q
  <2>5. Keeps(c, q) /\ q.stream.closed
    BY <2>2, <2>3, <2>4, MaybeRunCloseCallbackKeeps, KeepsTransitive
  <2>6. Like(q, c')
    BY <1>5, <2>5, RelistenIsLike DEF Keeps
  <2>7. Keeps(c, c') /\ c'.stream.closed
    BY <2>5, <2>6, LikeKeeps DEF Like
  <2>8. inbox' = inbox /\ peer # "open"
    <3>1. inbox' = SubSeq(inbox, 1, Len(inbox)) /\ inbox \in Seq(Unit)
      <4>1. Len(ch.units) + 1 = 1
        BY <1>3, <1>6
      <4>. QED  BY <1>5, <4>1, Types DEF Rest
    <3>. QED  BY <1>3, <1>4, <1>6, <3>1, SubSeqFull DEF Disconnected
  <2>9. ResponsesInOrder' /\ NothingIsCutOff'
    BY <1>2, <2>7, <2>8 DEF HttpInv, ResponsesInOrder, Responses, NothingIsCutOff, Keeps
  <2>. QED  BY <1>2, <1>4, <2>7, <2>8, <2>9, ClosedStep
\* Data.
<1>7. CASE ~ch.eof
  <2>1. /\ Sound(filled) /\ filled.n = c.n /\ filled.ready = c.ready
        /\ filled.finished = c.finished /\ filled.writing = c.writing
        /\ ~filled.stream.closed /\ filled.stream.buffer = b
        /\ filled.stream.writeBuffer = c.stream.writeBuffer
        /\ filled.stream.tasks = c.stream.tasks
        /\ filled.stream.reading = c.stream.reading
    <3>. DEFINE t == [c.stream EXCEPT !.buffer = b]
    <3>1. filled = [c EXCEPT !.stream = t]
      BY <1>5, <1>7 DEF IO!ToBuffer, IO!Stream, Connection
    <3>. HIDE DEF filled, b
    <3>2. /\ t \in IO!Stream /\ ~t.closed /\ t.buffer = b
          /\ t.writeBuffer = c.stream.writeBuffer /\ t.tasks = c.stream.tasks
          /\ t.pending = c.stream.pending /\ t.closeCallback = c.stream.closeCallback
          /\ t.reading = c.stream.reading
      BY <1>2, <1>5 DEF IO!Stream
    <3>. HIDE DEF t
    <3>3. /\ filled \in Connection /\ filled.stream = t /\ filled.n = c.n
          /\ filled.ready = c.ready /\ filled.finished = c.finished
          /\ filled.writing = c.writing
      BY <1>5, <3>1, <3>2, WithStream
    <3>4. Sound(filled)
      BY <1>2, <1>5, <3>2, <3>3, StaysSound
    <3>. QED  BY <3>2, <3>3, <3>4
  <2>. HIDE DEF filled
  <2>2. b # <<>>
    <3>1. c.stream.buffer \in Seq(Unit) /\ ch.units # <<>>
      BY <1>3, <1>7, Types
    <3>. QED  BY <1>3, <3>1, ConcatEqualIffEmpty
  \* For the read that waits.
  <2>3. CASE c.stream.reading
    <3>1. /\ at \in {"head", "body"} /\ c.ready \in {"nothing", "timeout"} /\ ~Working
          /\ c.stream.buffer = <<>> /\ ~c.finished /\ ~c.writing
          /\ c.ready = "timeout" => at = "head"
      BY <1>4, <2>3 DEF Phase, Working, HttpInv, Sane
    <3>2. q = Consume(filled)
      BY <2>1, <2>2, <2>3
    <3>. HIDE DEF q
    <3>3. Took(filled, q, b)
      BY <2>1, <2>2, <3>2, ConsumeTakes
    <3>4. Like(q, c')
      BY <1>5, <3>3, RelistenIsLike DEF Took
    <3>5. /\ Sound(c') /\ c'.n = b[1].n /\ c'.stream.buffer = Tail(b) /\ ~c'.stream.reading
          /\ c'.ready = (IF c.ready = "nothing" THEN "result" ELSE c.ready)
          /\ c'.finished = c.finished /\ c'.writing = c.writing
          /\ c'.stream.closed = c.stream.closed
          /\ c'.stream.writeBuffer = c.stream.writeBuffer
          /\ c'.stream.tasks = c.stream.tasks
      <4>1. /\ Sound(q) /\ q.n = b[1].n /\ q.stream.buffer = Tail(b) /\ ~q.stream.reading
            /\ q.ready = (IF c.ready = "nothing" THEN "result" ELSE c.ready)
            /\ q.finished = c.finished /\ q.writing = c.writing
            /\ q.stream.closed = filled.stream.closed
            /\ q.stream.writeBuffer = c.stream.writeBuffer
            /\ q.stream.tasks = c.stream.tasks
        BY <2>1, <3>3 DEF Took
      <4>2. filled.stream.closed = c.stream.closed
        <5>1. filled.stream.closed \in BOOLEAN /\ c.stream.closed \in BOOLEAN
          BY <1>5, <2>1, SMTT(40) DEF Sound, Connection, IO!Stream
        <5>. QED  BY <1>2, <2>1, <5>1
      <4>. HIDE DEF b
      <4>. QED  BY <3>4, <4>1, <4>2 DEF Like
    <3>6. /\ Ahead # <<>> /\ Ahead' = Tail(Ahead) /\ c'.n = Ahead[1].n
          /\ c'.n \in Number /\ c'.n <= Len(requests) /\ inbox' \in Seq(Unit)
          /\ \A i \in 1..Len(c'.stream.buffer) : c'.stream.buffer[i].n <= Len(requests)
          /\ \A i \in 1..Len(inbox') : inbox'[i].n <= Len(requests)
      BY <1>5, <2>2, <3>5, OneLessAhead
    <3>7. ASSUME c.ready = "nothing"
          PROVE  /\ Len(Responses) = c'.n - 1
                 /\ Runs(requests, Ahead', Expected')
                 /\ EndOf(requests, Ahead', Expected') = EndOf(requests, Ahead, Expected)
      <4>1. /\ Expected = IF at' = "body" THEN BodyOf(c.n) ELSE HeadOf(c.n + 1)
            /\ at' \in {"head", "body"} /\ c'.ready = "result"
        BY <1>2, <3>1, <3>5, <3>7 DEF Expected
      <4>2. /\ c'.n = IF at' = "body" THEN c.n ELSE c.n + 1
            /\ Runs(requests, Ahead', Expected')
            /\ EndOf(requests, Ahead', Expected') = EndOf(requests, Ahead, Expected)
        BY <1>2, <3>6, <3>7, <4>1, UnitRead
      <4>3. c.n \in Nat /\ Len(Responses) = IF at' = "body" THEN c.n - 1 ELSE c.n
        BY <1>2, <1>4, <3>1, <3>7, Types DEF Phase, Between, Got
      <4>. QED  BY <4>2, <4>3
    <3>8. c'.n # 0
      BY <3>6 DEF Number
    <3>. HIDE DEF Expected
    <3>. QED  BY <1>2, <1>4, <3>1, <3>5, <3>6, <3>7, <3>8, LoopStep
  \* Ahead of a read.
  <2>4. CASE ~c.stream.reading
    <3>1. q = filled
      BY <2>1, <2>4, MaybeRunCloseCallbackKeeps
    <3>. HIDE DEF q
    <3>2. Like(filled, c')
      BY <1>5, <2>1, <3>1, RelistenIsLike
    <3>3. /\ Sound(c') /\ c'.n = c.n /\ c'.stream.buffer = b /\ ~c'.stream.reading
          /\ c'.ready = c.ready /\ c'.finished = c.finished /\ c'.writing = c.writing
          /\ ~c'.stream.closed /\ c'.stream.writeBuffer = c.stream.writeBuffer
          /\ c'.stream.tasks = c.stream.tasks
      BY <2>1, <2>4, <3>2 DEF Like
    <3>4. Ahead' = Ahead
      <4>. DEFINE x == c.stream.buffer
                  u == ch.units
                  v == Rest(inbox, ch)
      <4>1. x \in Seq(Unit) /\ u \in Seq(Unit) /\ v \in Seq(Unit)
        BY <1>3, Types
      <4>2. inbox = u \o v /\ Ahead = x \o inbox /\ Ahead' = (x \o u) \o v
        BY <1>3, <1>5, <3>3 DEF Ahead
      <4>. HIDE DEF x, u, v
      <4>. QED  BY <4>1, <4>2, ConcatAssociative
    <3>5. /\ inbox' \in Seq(Unit) /\ \A i \in 1..Len(inbox') : inbox'[i].n <= Len(requests)
          /\ \A i \in 1..Len(b) : b[i].n <= Len(requests)
      <4>. DEFINE x == c.stream.buffer
                  u == ch.units
                  v == Rest(inbox, ch)
      <4>1. /\ x \in Seq(Unit) /\ u \in Seq(Unit) /\ v \in Seq(Unit) /\ inbox' = v
            /\ \A i \in 1..Len(x) : x[i].n <= Len(requests)
            /\ \A i \in 1..Len(inbox) : inbox[i].n <= Len(requests)
        BY <1>3, <1>5, Types DEF HttpInv, Sane
      <4>2. /\ \A i \in 1..Len(u) : u[i].n <= Len(requests)
            /\ \A i \in 1..Len(v) : v[i].n <= Len(requests)
        BY <1>3, <4>1
      <4>3. b = x \o u
        OBVIOUS
      <4>. HIDE DEF x, u, v, b
      <4>4. \A i \in 1..Len(b) : \/ i \in 1..Len(x) /\ b[i] = x[i]
                                 \/ i - Len(x) \in 1..Len(u) /\ b[i] = u[i - Len(x)]
        BY <4>1, <4>3
      <4>. QED  BY <4>1, <4>2, <4>4
    <3>6. Sane'
      <4>1. TypeOK'
        BY <1>2, <3>3, <3>5 DEF HttpInv, Sane, TypeOK, Sound
      <4>. HIDE DEF b
      <4>. QED  BY <1>2, <1>4, <3>3, <3>5, <4>1 DEF HttpInv, Sane
    <3>7. Responses' = Responses /\ Expected' = Expected
      BY <1>2, <3>3 DEF Responses, Expected
    <3>8. Phase'
      <4>1. Between' = Between /\ Got' = Got /\ Working' = Working
        BY <1>2, <3>3 DEF Between, Got, Working
      <4>. HIDE DEF b
      <4>. QED  BY <1>2, <1>4, <3>3, <3>4, <3>7, <4>1 DEF Phase, Busy, NoneBusy
    <3>. QED  BY <3>3, <3>6, <3>7, <3>8 DEF HttpInv, ResponsesInOrder, NothingIsCutOff
  <2>. QED  BY <2>3, <2>4
<1>. QED  BY <1>6, <1>7

-----------------------------------------------------------------------------
(* A request is executed                                                   *)

\* set_close_callback on an open stream.
LEMMA SetCloseCallbackIsLike ==
  ASSUME NEW r, Sound(r), ~r.stream.closed, r.n # 0
  PROVE  Like(r, [r EXCEPT !.stream = IO!SetCloseCallback(@)])
<1>. DEFINE st == r.stream
            u == [st EXCEPT !.closeCallback = TRUE]
            t == IO!SetCloseCallback(st)
            q == [r EXCEPT !.stream = t]
<1>1. st \in IO!Stream /\ r \in Connection /\ ~st.closed
  BY DEF Sound, Connection
<1>2. t = u \/ t = IO!AddIoState(u, "READ")
  BY <1>1 DEF IO!SetCloseCallback, IO!MaybeAddErrorListener, IO!Stream
<1>3. [r EXCEPT !.stream = IO!SetCloseCallback(@)] = q
  BY <1>1 DEF Connection
<1>. HIDE DEF st, t
<1>4. /\ u \in IO!Stream /\ u.closed = st.closed /\ u.reading = st.reading
      /\ u.buffer = st.buffer /\ u.writeBuffer = st.writeBuffer /\ u.tasks = st.tasks
      /\ u.pending = st.pending
  BY <1>1 DEF IO!Stream
<1>. HIDE DEF u
<1>5. /\ t \in IO!Stream /\ t.closed = st.closed /\ t.reading = st.reading
      /\ t.buffer = st.buffer /\ t.writeBuffer = st.writeBuffer /\ t.tasks = st.tasks
      /\ t.pending = st.pending
  BY <1>2, <1>4, ZenonT(60) DEF IO!AddIoState, IO!Stream
<1>6. /\ q \in Connection /\ q.stream = t /\ q.n = r.n /\ q.ready = r.ready
      /\ q.finished = r.finished /\ q.writing = r.writing
  BY <1>1, <1>5, WithStream
<1>. HIDE DEF q
<1>7. Sound(q)
  BY <1>5, <1>6 DEF Sound, PendingOK, st
<1>. QED  BY <1>3, <1>5, <1>6, <1>7 DEF Like, st

\* The loop waits for the response, or sees that it need not.
LEMMA AwaitOutcome ==
  ASSUME NEW r, Sound(r), r.n # 0, AwaitResponse(r)
  PROVE  /\ Sound(c') /\ c'.n = r.n /\ c'.finished = r.finished /\ c'.writing = r.writing
         /\ c'.stream.closed = r.stream.closed /\ c'.stream.reading = r.stream.reading
         /\ c'.stream.buffer = r.stream.buffer
         /\ c'.stream.writeBuffer = r.stream.writeBuffer
         /\ c'.stream.tasks = r.stream.tasks
         /\ \/ (r.finished \/ r.stream.closed) /\ at' = "moment" /\ c'.ready = "result"
            \/ ~r.finished /\ ~r.stream.closed /\ at' = "response" /\ c'.ready = r.ready
<1>1. CASE r.finished \/ r.stream.closed
  <2>1. at' = "moment" /\ c' = [r EXCEPT !.ready = "result"]
    BY <1>1 DEF AwaitResponse
  <2>2. /\ c' \in Connection /\ c'.stream = r.stream /\ c'.n = r.n /\ c'.ready = "result"
        /\ c'.finished = r.finished /\ c'.writing = r.writing
    BY <2>1 DEF Sound, Connection
  <2>3. Sound(c')
    BY <2>2, StaysSound
  <2>. QED  BY <1>1, <2>1, <2>2, <2>3
<1>2. CASE ~(r.finished \/ r.stream.closed)
  <2>1. at' = "response" /\ c' = [r EXCEPT !.stream = IO!SetCloseCallback(@)]
    BY <1>2 DEF AwaitResponse
  <2>2. Like(r, c')
    BY <1>2, <2>1, SetCloseCallbackIsLike
  <2>. QED  BY <1>2, <2>1, <2>2 DEF Like
<1>. QED  BY <1>1, <1>2

\* On an open stream, what the three ways to execute a request have in common.
LEMMA ServedStep ==
  ASSUME HttpInv, ~c.stream.closed, Got, Expected = HeadOf(c.n + 1), c.n # 0,
         UNCHANGED <<peer, requests, tcp, inbox, got>>,
         Sound(c'), ~c'.stream.closed, c'.n = c.n, c'.stream.buffer = c.stream.buffer,
         c'.stream.reading = c.stream.reading, c'.ready # "error", c'.ready # "timeout",
         \A i \in 1..Len(c'.stream.tasks) : c'.stream.tasks[i].kind = "close" =>
           \E j \in 1..Len(c.stream.tasks) : c.stream.tasks[j].kind = "close",
         c.ready = "result",
         NEW how \in {"running", "finished"}, handler' = [handler EXCEPT ![c.n] = how],
         net' \in Seq(Number), ResponsesInOrder',
         how = "running" => /\ at' \in {"response", "detached"} /\ Len(Responses') = c.n - 1
                            /\ c'.stream.writeBuffer = <<>> /\ ~c'.writing,
         how = "finished" => /\ at' \in {"response", "moment"} /\ Len(Responses') = c.n
                             /\ at' = "moment" => c'.stream.writeBuffer = <<>>,
         at' = "moment" => c'.ready = "result",
         at' = "response" => /\ c'.ready = "nothing" /\ ~c'.finished
                             /\ how = "finished" => c'.writing
  PROVE  HttpInv'
<1>1. /\ c.n \in Number /\ handler \in [Number -> {"none", "running", "finished"}]
      /\ handler' \in [Number -> {"none", "running", "finished"}]
  BY Types DEF HttpInv, Sane, TypeOK, Number
<1>2. at # "idle" /\ at' \in {"response", "moment", "detached"}
  BY DEF Got
<1>3. /\ Sane /\ c.n <= Len(requests) /\ inbox' \in Seq(Unit) /\ got' \in Seq(Number)
      /\ \A i \in 1..Len(c.stream.buffer) : c.stream.buffer[i].n <= Len(requests)
      /\ \A i \in 1..Len(inbox') : inbox'[i].n <= Len(requests)
  BY DEF HttpInv, Sane, TypeOK
<1>4. Sane'
  BY <1>1, <1>2, <1>3, SaneStep
<1>5. \A m \in Number : Busy(m)' <=> m = c.n /\ how = "running"
  <2>1. NoneBusy
    BY DEF HttpInv, Phase, Got, Working
  <2>. QED  BY <1>1, <2>1 DEF NoneBusy, Busy
<1>6. Phase'
  <2>1. Phase /\ ~c.stream.reading
    BY DEF HttpInv, Phase
  <2>2. Ahead' = Ahead /\ Expected' = Expected
    BY <1>2 DEF Ahead, Expected
  <2>3. /\ ~Got' /\ (Between' <=> at' = "moment") /\ (Working' <=> at' # "moment")
    BY <1>2 DEF Between, Got, Working
  <2>4. /\ Busy(c.n)' <=> how = "running"
        /\ how = "finished" => NoneBusy'
    BY <1>1, <1>5 DEF NoneBusy
  <2>. HIDE DEF Expected
  <2>. QED  BY <1>1, <1>2, <1>5, <2>1, <2>2, <2>3, <2>4 DEF Phase
<1>. QED  BY <1>4, <1>6 DEF HttpInv, NothingIsCutOff

\* On a closed one.
LEMMA ServedClosed ==
  ASSUME HttpInv, c.n # 0, at # "idle",
         UNCHANGED <<peer, requests, tcp, inbox, got>>,
         Sound(c'), c'.stream.closed, c'.n = c.n, c'.stream.buffer = c.stream.buffer,
         \A i \in 1..Len(c'.stream.tasks) : c'.stream.tasks[i].kind = "close" =>
           \E j \in 1..Len(c.stream.tasks) : c.stream.tasks[j].kind = "close",
         c'.ready # "timeout",
         NEW how \in {"running", "finished"}, handler' = [handler EXCEPT ![c.n] = how],
         at' \in {"response", "moment", "detached"}, net' \in Seq(Number),
         ResponsesInOrder', NothingIsCutOff'
  PROVE  HttpInv'
<1>1. /\ handler' \in [Number -> {"none", "running", "finished"}]
      /\ Sane /\ c.n <= Len(requests) /\ inbox' \in Seq(Unit) /\ got' \in Seq(Number)
      /\ \A i \in 1..Len(c.stream.buffer) : c.stream.buffer[i].n <= Len(requests)
      /\ \A i \in 1..Len(inbox') : inbox'[i].n <= Len(requests)
  BY DEF HttpInv, Sane, TypeOK
<1>2. Sane'
  BY <1>1, SaneStep
<1>. QED  BY <1>2 DEF HttpInv

\* The invariant is kept when a request is given to its handler.
LEMMA ExecuteStep ==
  ASSUME HttpInv, c.ready = "result",
         \/ at = "head" /\ requests[c.n] # "post"
         \/ at = "body",
         Execute([c EXCEPT !.ready = "nothing"]),
         UNCHANGED <<peer, requests, tcp, inbox, got>>
  PROVE  HttpInv'
<1>. DEFINE r == [c EXCEPT !.ready = "nothing"]
            f == [r EXCEPT !.ready = "nothing"]
            n == c.n
<1>1. /\ r.n = n /\ f \in Connection /\ f.stream = c.stream /\ f.n = n /\ f.ready = "nothing"
      /\ f.finished = c.finished /\ f.writing = c.writing
  BY Types DEF Connection
<1>2. Sound(f)
  BY <1>1, Types, StaysSound
<1>3. \/ /\ handler' = [handler EXCEPT ![n] = "running"]
         /\ AwaitResponse(f) /\ net' = net
      \/ /\ handler' = [handler EXCEPT ![n] = "finished"]
         /\ \E h \in FinishOutcomes(f, n) : net' = net \o h.out /\ AwaitResponse(h.conn)
      \/ /\ handler' = [handler EXCEPT ![n] = "running"]
         /\ at' = "detached" /\ c' = ClearCallbacks([f EXCEPT !.finished = TRUE])
         /\ net' = net
  BY <1>1 DEF Execute
<1>. HIDE DEF f
<1>4. /\ at # "idle" /\ n # 0 /\ n \in Number /\ n <= Len(requests)
  BY Types DEF HttpInv, Sane, Number
<1>5. Got /\ Expected = HeadOf(n + 1)
  BY DEF Got, Expected
<1>6. ~c.stream.closed =>
        /\ Len(Responses) = n - 1 /\ c.stream.writeBuffer = <<>>
        /\ ~c.finished /\ ~c.writing
  BY <1>5 DEF HttpInv, Phase, Got, Working
<1>7. net \in Seq(Number) /\ got \in Seq(Number)
  BY Types
\* The handler is at work.
<1>8. CASE /\ handler' = [handler EXCEPT ![n] = "running"]
           /\ AwaitResponse(f) /\ net' = net
  <2>1. /\ Sound(c') /\ c'.n = n /\ c'.finished = c.finished /\ c'.writing = c.writing
        /\ c'.stream.closed = c.stream.closed /\ c'.stream.reading = c.stream.reading
        /\ c'.stream.buffer = c.stream.buffer
        /\ c'.stream.writeBuffer = c.stream.writeBuffer
        /\ c'.stream.tasks = c.stream.tasks
        /\ \/ (c.finished \/ c.stream.closed) /\ at' = "moment" /\ c'.ready = "result"
           \/ ~c.finished /\ ~c.stream.closed /\ at' = "response" /\ c'.ready = "nothing"
    BY <1>1, <1>2, <1>4, <1>8, AwaitOutcome
  <2>2. Responses' = Responses
    BY <1>8, <2>1 DEF Responses
  <2>3. ResponsesInOrder'
    BY <2>2 DEF HttpInv, ResponsesInOrder
  <2>4. CASE c.stream.closed
    <3>1. NothingIsCutOff'
      BY <2>1, <2>4 DEF HttpInv, NothingIsCutOff
    <3>. QED  BY <1>4, <1>7, <1>8, <2>1, <2>3, <2>4, <3>1, ServedClosed
  <2>5. CASE ~c.stream.closed
    BY <1>4, <1>5, <1>6, <1>7, <1>8, <2>1, <2>2, <2>3, <2>5, ServedStep
  <2>. QED  BY <2>4, <2>5
\* It is through with the request.
<1>9. CASE /\ handler' = [handler EXCEPT ![n] = "finished"]
           /\ \E h \in FinishOutcomes(f, n) : net' = net \o h.out /\ AwaitResponse(h.conn)
  <2>1. PICK h \in FinishOutcomes(f, n) : net' = net \o h.out /\ AwaitResponse(h.conn)
    BY <1>9
  <2>. DEFINE q == h.conn
              s == [f EXCEPT !.stream.writeBuffer = q.stream.writeBuffer]
  <2>2. CASE c.stream.closed
    <3>1. h.out = <<>> /\ Keeps(f, q) /\ q.stream.closed
      BY <1>1, <1>2, <1>4, <2>2, LateFinish
    <3>2. AwaitResponse(q)
      BY <2>1
    <3>. HIDE DEF q
    <3>3. /\ Sound(q) /\ q.n = n
      BY <1>1, <3>1 DEF Keeps
    <3>4. /\ Sound(c') /\ c'.n = q.n /\ c'.stream.closed
          /\ c'.stream.buffer = q.stream.buffer
          /\ c'.stream.writeBuffer = q.stream.writeBuffer
          /\ c'.stream.tasks = q.stream.tasks
          /\ at' = "moment" /\ c'.ready = "result"
      BY <1>4, <3>1, <3>2, <3>3, AwaitOutcome
    <3>5. net' = net
      BY <1>7, <2>1, <3>1, ConcatEmptySeq
    <3>6. ResponsesInOrder' /\ NothingIsCutOff'
      <4>1. c'.stream.writeBuffer = c.stream.writeBuffer
        BY <1>1, <3>1, <3>4 DEF Keeps
      <4>2. Responses' = Responses
        BY <3>5, <4>1 DEF Responses
      <4>. QED  BY <2>2, <4>1, <4>2 DEF HttpInv, ResponsesInOrder, NothingIsCutOff
    <3>7. /\ c'.stream.buffer = c.stream.buffer
          /\ \A i \in 1..Len(c'.stream.tasks) : c'.stream.tasks[i].kind = "close" =>
               \E j \in 1..Len(c.stream.tasks) : c.stream.tasks[j].kind = "close"
      BY <1>1, <3>1, <3>4 DEF Keeps
    <3>. QED  BY <1>4, <1>7, <1>9, <3>3, <3>4, <3>5, <3>6, <3>7, ServedClosed
  <2>3. CASE ~c.stream.closed
    <3>1. /\ h.out \in {<<>>, <<n>>} /\ Sound(s)
          /\ \/ /\ q.stream.closed /\ q.stream.writeBuffer = <<>> /\ Keeps(s, q)
                /\ h.out = <<>> => Disconnected \/ peer = "left"
             \/ /\ h.out = <<n>> /\ q.stream.writeBuffer = <<>>
                /\ q = SetFinished(ClearCallbacks(s))
             \/ /\ h.out = <<>> /\ q.stream.writeBuffer = <<n>>
                /\ Like([s EXCEPT !.writing = TRUE], q)
      <4>1. /\ Wants(n) \in BOOLEAN /\ ~f.stream.closed /\ f.stream.writeBuffer = <<>>
        BY <1>1, <1>6, <2>3 DEF Wants
      <4>. HIDE DEF Wants, n
      <4>. QED  BY <1>2, <1>4, <2>1, <4>1, FinishOutcome
    <3>2. q.stream.writeBuffer \in {<<>>, <<n>>} /\ (h.out = <<>> \/ q.stream.writeBuffer = <<>>)
      BY <3>1
    <3>3. AwaitResponse(q)
      BY <2>1
    <3>4. /\ s.n = n /\ s.ready = "nothing" /\ s.finished = FALSE /\ s.writing = c.writing
          /\ s.stream.closed = c.stream.closed
          /\ s.stream.reading = c.stream.reading /\ s.stream.buffer = c.stream.buffer
          /\ s.stream.writeBuffer = q.stream.writeBuffer /\ s.stream.tasks = c.stream.tasks
      <4>. DEFINE w == q.stream.writeBuffer
                  one == <<n>>
                  none == <<>>
      <4>1. w \in {none, one} /\ none \in Seq(Number) /\ one \in Seq(Number)
        BY <1>4, <3>2
      <4>. HIDE DEF one, none
      <4>2. w \in Seq(Number)
        BY <4>1
      <4>3. c.finished = FALSE
        BY <1>6, <2>3, Types DEF Connection
      <4>. HIDE DEF q, w
      <4>. DEFINE v == [f EXCEPT !.stream.writeBuffer = w]
      <4>4. /\ v.n = f.n /\ v.ready = f.ready /\ v.finished = f.finished
            /\ v.writing = f.writing /\ v.stream.closed = f.stream.closed
            /\ v.stream.reading = f.stream.reading /\ v.stream.buffer = f.stream.buffer
            /\ v.stream.writeBuffer = w /\ v.stream.tasks = f.stream.tasks
        BY <1>2, <4>2, Rewritten
      <4>5. s = v
        BY DEF w
      <4>. HIDE DEF v, s
      <4>. QED  BY <1>1, <4>3, <4>4, <4>5 DEF w
    <3>. HIDE DEF s, q
    <3>5. /\ Keeps(s, q) /\ Sound(q) /\ q.n = n /\ q.stream.buffer = c.stream.buffer
          /\ \A i \in 1..Len(q.stream.tasks) : q.stream.tasks[i].kind = "close" =>
               \E j \in 1..Len(c.stream.tasks) : c.stream.tasks[j].kind = "close"
          /\ \/ /\ q.stream.closed /\ q.stream.writeBuffer = <<>>
             \/ /\ h.out = <<n>> /\ q.stream.writeBuffer = <<>> /\ ~q.stream.closed
                /\ q.finished = TRUE /\ q.stream.reading = c.stream.reading
             \/ /\ q.stream.writeBuffer = <<n>> /\ ~q.stream.closed
                /\ q.finished = FALSE /\ q.writing = TRUE /\ q.ready = "nothing"
                /\ q.stream.reading = c.stream.reading
      <4>1. CASE q.stream.closed /\ q.stream.writeBuffer = <<>> /\ Keeps(s, q)
        BY <3>4, <4>1 DEF Keeps
      <4>2. CASE h.out = <<n>> /\ q.stream.writeBuffer = <<>> /\ q = SetFinished(ClearCallbacks(s))
        <5>1. /\ Keeps(s, q) /\ q.finished = TRUE /\ q.stream.reading = s.stream.reading
              /\ q.stream.closed = s.stream.closed
          BY <3>1, <4>2, FinishedOpen
        <5>. QED  BY <2>3, <3>4, <4>2, <5>1 DEF Keeps
      <4>3. CASE q.stream.writeBuffer = <<n>> /\ Like([s EXCEPT !.writing = TRUE], q)
        <5>. DEFINE u == [s EXCEPT !.writing = TRUE]
        <5>1. /\ u.n = s.n /\ u.ready = s.ready /\ u.finished = s.finished
              /\ u.writing = TRUE /\ u.stream = s.stream
          BY <3>1 DEF Sound, Connection
        <5>. HIDE DEF u
        <5>2. Like(u, q)
          BY <4>3 DEF u
        <5>3. Keeps(s, q)
          BY <5>1, <5>2 DEF Like, Keeps
        <5>. QED  BY <2>3, <3>4, <4>3, <5>1, <5>2, <5>3 DEF Like, Keeps
      <4>. QED  BY <3>1, <4>1, <4>2, <4>3
    <3>6. /\ Sound(c') /\ c'.n = n /\ c'.finished = q.finished /\ c'.writing = q.writing
          /\ c'.stream.closed = q.stream.closed /\ c'.stream.reading = q.stream.reading
          /\ c'.stream.buffer = q.stream.buffer
          /\ c'.stream.writeBuffer = q.stream.writeBuffer
          /\ c'.stream.tasks = q.stream.tasks
          /\ \/ (q.finished \/ q.stream.closed) /\ at' = "moment" /\ c'.ready = "result"
             \/ ~q.finished /\ ~q.stream.closed /\ at' = "response" /\ c'.ready = q.ready
      BY <1>4, <3>3, <3>5, AwaitOutcome
    <3>7. /\ net' \in Seq(Number) /\ ResponsesInOrder'
          /\ (h.out = <<n>> \/ q.stream.writeBuffer = <<n>> => Len(Responses') = n)
      BY <1>4, <1>6, <2>1, <2>3, <3>1, <3>2, <3>6, NextResponse
    <3>8. CASE q.stream.closed
      <4>1. q.stream.writeBuffer = <<>>
        BY <3>5, <3>8
      <4>2. NothingIsCutOff'
        BY <3>6, <4>1 DEF NothingIsCutOff
      <4>. QED  BY <1>4, <1>9, <3>5, <3>6, <3>7, <3>8, <4>2, ServedClosed
    <3>9. CASE ~q.stream.closed
      BY <1>4, <1>5, <1>9, <2>3, <3>5, <3>6, <3>7, <3>9, ServedStep
    <3>. QED  BY <3>8, <3>9
  <2>. QED  BY <2>2, <2>3
\* The handshake.
<1>10. CASE /\ handler' = [handler EXCEPT ![n] = "running"]
            /\ at' = "detached" /\ c' = ClearCallbacks([f EXCEPT !.finished = TRUE])
            /\ net' = net
  <2>. DEFINE g == [f EXCEPT !.finished = TRUE]
  <2>1. /\ g \in Connection /\ g.stream = f.stream /\ g.n = n /\ g.ready = "nothing"
        /\ g.writing = c.writing
    BY <1>1 DEF Connection
  <2>. HIDE DEF g
  <2>2. Sound(g)
    BY <1>2, <1>1, <2>1, StaysSound
  <2>3. Keeps(g, c') /\ c'.stream.closed = g.stream.closed
    BY <1>10, <2>2, ClearCallbacksKeeps DEF g
  <2>4. /\ c'.stream.reading = c.stream.reading /\ c'.ready = "nothing"
        /\ c'.writing = c.writing
    BY <1>1, <1>10, <2>1 DEF ClearCallbacks, Connection, IO!Stream, g
  <2>5. Responses' = Responses
    BY <1>10, <1>1, <2>1, <2>3 DEF Responses, Keeps
  <2>6. ResponsesInOrder'
    BY <2>5 DEF HttpInv, ResponsesInOrder
  <2>7. CASE c.stream.closed
    <3>1. NothingIsCutOff'
      BY <1>1, <2>1, <2>3, <2>7 DEF HttpInv, NothingIsCutOff, Keeps
    <3>. QED  BY <1>1, <1>4, <1>7, <1>10, <2>1, <2>3, <2>4, <2>6, <2>7, <3>1, ServedClosed, ZenonT(60) DEF Keeps
  <2>8. CASE ~c.stream.closed
    BY <1>1, <1>4, <1>5, <1>6, <1>7, <1>10, <2>1, <2>3, <2>4, <2>5, <2>6, <2>8, ServedStep, ZenonT(60) DEF Keeps
  <2>. QED  BY <2>7, <2>8
<1>. QED  BY <1>3, <1>8, <1>9, <1>10

-----------------------------------------------------------------------------
(* The request loop                                                        *)

\* conn.close, and the loop ends.
LEMMA EndLoopStep ==
  ASSUME HttpInv, at = "head", EndLoop([c EXCEPT !.ready = "nothing"]),
         UNCHANGED <<peer, requests, tcp, got>>
  PROVE  HttpInv'
<1>. DEFINE r == [c EXCEPT !.ready = "nothing"]
            p == CloseStream(r)
            q == ClearCallbacks(p)
<1>1. at' = "over" /\ c' = SetFinished(q) /\ UNCHANGED <<inbox, handler, net>>
  BY DEF EndLoop
<1>2. r \in Connection /\ r.stream = c.stream /\ r.n = c.n /\ r.ready = "nothing"
  BY Types DEF Connection
<1>. HIDE DEF r
<1>3. Sound(r)
  BY <1>2, Types, StaysSound
<1>4. Keeps(r, p) /\ p.stream.closed
  BY <1>3, CloseStreamKeeps
<1>. HIDE DEF p
<1>5. Keeps(p, q) /\ q.stream.closed
  BY <1>4, ClearCallbacksKeeps DEF Keeps
<1>. HIDE DEF q
<1>6. Keeps(q, c') /\ c'.stream.closed
  BY <1>1, <1>5, SetFinishedKeeps DEF Keeps
<1>7. Keeps(r, c')
  BY <1>4, <1>5, <1>6, KeepsTransitive
<1>8. c'.ready # "timeout"
  BY <1>2, <1>7 DEF Keeps
<1>9. c'.stream.writeBuffer = c.stream.writeBuffer
  BY <1>2, <1>7 DEF Keeps
<1>10. ResponsesInOrder' /\ NothingIsCutOff'
  <2>1. Responses' = Responses
    BY <1>1, <1>9 DEF Responses
  <2>2. ~c.stream.closed => c.stream.writeBuffer = <<>>
    BY DEF HttpInv, Phase, Working
  <2>. QED  BY <1>9, <2>1, <2>2 DEF HttpInv, ResponsesInOrder, NothingIsCutOff
<1>11. net' \in Seq(Number) /\ handler' \in [Number -> {"none", "running", "finished"}]
  BY <1>1 DEF HttpInv, Sane, TypeOK
<1>. QED  BY <1>1, <1>2, <1>6, <1>7, <1>8, <1>10, <1>11, ClosedStep

\* The invariant is kept when the connection's loop goes on.
LEMMA ResumeStep ==
  ASSUME HttpInv, Resume  PROVE HttpInv'
<1>. DEFINE r == [c EXCEPT !.ready = "nothing"]
<1>1. /\ c.ready # "nothing" /\ at \in {"head", "body", "response", "moment"}
      /\ UNCHANGED <<peer, requests, tcp, got>>
  BY DEF Resume
<1>2. /\ r \in Connection /\ r.stream = c.stream /\ r.n = c.n /\ r.ready = "nothing"
      /\ r.finished = c.finished /\ r.writing = c.writing
      /\ c.ready \in {"result", "error", "timeout"}
  BY <1>1, Types DEF Connection
<1>3. Sound(r)
  BY <1>2, Types, StaysSound
<1>4. /\ net \in Seq(Number) /\ handler \in [Number -> {"none", "running", "finished"}]
      /\ c.ready = "timeout" => at = "head"
      /\ c.ready = "error" => c.stream.closed
  BY DEF HttpInv, Sane, TypeOK
<1>5. CASE c.ready = "error"
  <2>1. at' = "over" /\ c' = r /\ UNCHANGED <<inbox, handler, net>>
    BY <1>5 DEF Resume
  <2>. HIDE DEF r
  <2>2. Keeps(r, c') /\ c'.stream.closed
    BY <1>2, <1>3, <1>4, <1>5, <2>1 DEF Keeps
  <2>3. ResponsesInOrder' /\ NothingIsCutOff'
    BY <1>1, <1>2, <2>1 DEF HttpInv, ResponsesInOrder, Responses, NothingIsCutOff
  <2>. QED  BY <1>1, <1>2, <1>4, <2>1, <2>2, <2>3, ClosedStep
<1>6. CASE c.ready = "timeout"
  <2>1. EndLoop(r)
    BY <1>6 DEF Resume
  <2>. QED  BY <1>1, <1>4, <1>6, <2>1, EndLoopStep
<1>7. CASE c.ready = "result" /\ at = "head"
  <2>1. requests[c.n] \in Kinds
    <3>1. c.n \in 1..Len(requests) /\ requests \in Seq(Kind)
      BY <1>7, Types DEF HttpInv, Sane
    <3>. QED  BY <3>1, KindAssumption
  <2>2. CASE requests[c.n] \in {"malformed", "badLength"}
    <3>1. EndLoop(r)
      BY <1>7, <2>2 DEF Resume
    <3>. QED  BY <1>1, <1>7, <3>1, EndLoopStep
  <2>3. CASE requests[c.n] = "post"
    <3>1. ReadOrEnd(r, "body") /\ UNCHANGED <<handler, net>>
      BY <1>7, <2>3 DEF Resume
    <3>. HIDE DEF r
    <3>. QED  BY <1>1, <1>2, <1>3, <1>7, <2>3, <3>1, ReadingOn
  <2>4. CASE requests[c.n] \in {"get", "last", "upgrade"}
    <3>1. Execute(r) /\ UNCHANGED inbox
      BY <1>7, <2>4 DEF Resume
    <3>. QED  BY <1>1, <1>7, <2>4, <3>1, ExecuteStep
  <2>. QED  BY <2>1, <2>2, <2>3, <2>4 DEF Kinds
<1>8. CASE c.ready = "result" /\ at = "body"
  <2>1. Execute(r) /\ UNCHANGED inbox
    BY <1>8 DEF Resume
  <2>. QED  BY <1>1, <1>8, <2>1, ExecuteStep
<1>9. CASE c.ready = "result" /\ at = "response"
  <2>1. at' = "moment" /\ c' = c /\ UNCHANGED <<inbox, handler, net>>
    BY <1>9 DEF Resume
  <2>2. Responses' = Responses /\ c.n # 0
    BY <1>1, <1>9, <2>1 DEF Responses, HttpInv, Sane
  <2>3. ResponsesInOrder' /\ NothingIsCutOff'
    BY <1>1, <2>1, <2>2 DEF HttpInv, ResponsesInOrder, NothingIsCutOff
  <2>4. CASE c.stream.closed
    <3>1. Keeps(c, c')
      BY <2>1, Types DEF Keeps
    <3>. QED  BY <1>1, <1>4, <1>9, <2>1, <2>2, <2>3, <2>4, <3>1, ClosedStep
  <2>5. CASE ~c.stream.closed
    <3>1. Phase /\ Working /\ c.finished /\ ~Busy(c.n) /\ c.stream.writeBuffer = <<>>
      BY <1>9, <2>5 DEF HttpInv, Phase, Working
    <3>2. NoneBusy /\ Len(Responses) = c.n
      BY <3>1 DEF Phase, NoneBusy
    <3>3. Sane'
      <4>1. TypeOK'
        BY <1>1, <2>1 DEF HttpInv, Sane, TypeOK
      <4>. QED  BY <1>1, <1>9, <2>1, <2>2, <4>1 DEF HttpInv, Sane
    <3>4. Ahead' = Ahead /\ Expected' = Expected
      BY <1>1, <1>9, <2>1 DEF Ahead, Expected
    <3>5. ~Working' /\ ~Got' /\ NoneBusy'
      BY <2>1, <3>2 DEF Working, Got, NoneBusy, Busy
    <3>6. ~c.stream.reading
      BY <1>9, <3>1 DEF Phase
    <3>. HIDE DEF Expected, NoneBusy
    <3>7. Phase'
      BY <1>1, <1>9, <2>1, <2>2, <3>1, <3>2, <3>4, <3>5, <3>6 DEF Phase, Working
    <3>. QED  BY <2>3, <3>3, <3>7 DEF HttpInv
  <2>. QED  BY <2>4, <2>5
<1>10. CASE c.ready = "result" /\ at = "moment"
  <2>. DEFINE f == [r EXCEPT !.finished = FALSE, !.writing = FALSE]
  <2>1. ReadOrEnd(f, "head") /\ UNCHANGED <<handler, net>>
    BY <1>10 DEF Resume, NextRequest
  <2>2. /\ f \in Connection /\ f.stream = c.stream /\ f.n = c.n /\ f.ready = "nothing"
        /\ f.finished = FALSE /\ f.writing = FALSE
    BY <1>2 DEF Connection
  <2>. HIDE DEF f
  <2>3. Sound(f)
    BY <2>2, Types, StaysSound
  <2>. QED  BY <1>1, <1>10, <2>1, <2>2, <2>3, ReadingOn
<1>. QED  BY <1>1, <1>2, <1>4, <1>5, <1>6, <1>7, <1>8, <1>9, <1>10

-----------------------------------------------------------------------------
(* The theorems                                                            *)

\* The invariant holds at the start.
LEMMA InitHttpInv ==
  Init => HttpInv
<1>. SUFFICES ASSUME Init  PROVE HttpInv
  OBVIOUS
<1>1. /\ peer = "absent" /\ requests = <<>> /\ inbox = <<>> /\ tcp = "up" /\ at = "idle"
      /\ c.stream = IO!Fresh /\ c.ready = "nothing" /\ c.n = 0 /\ c.finished = FALSE
      /\ c.writing = FALSE /\ net = <<>> /\ got = <<>>
      /\ handler = [n \in Number |-> "none"]
  BY DEF Init
<1>2. /\ IO!Fresh \in IO!Stream /\ IO!Fresh.buffer = <<>> /\ IO!Fresh.writeBuffer = <<>>
      /\ IO!Fresh.tasks = <<>> /\ IO!Fresh.pending = 0 /\ IO!Fresh.closed = FALSE
      /\ IO!Fresh.closeCallback = FALSE /\ IO!Fresh.reading = FALSE
  BY DEF IO!Fresh, IO!Stream
<1>3. c \in Connection
  BY <1>2, KindAssumption DEF Init, Connection
<1>4. Sound(c)
  BY <1>1, <1>2, <1>3 DEF Sound, PendingOK
<1>5. TypeOK
  BY <1>1, <1>3, KindAssumption DEF TypeOK
<1>6. Sane
  BY <1>1, <1>2, <1>4, <1>5, KindAssumption DEF Sane
<1>7. Responses = <<>> /\ Ahead = <<>>
  <2>1. Responses = <<>> \o <<>> \o <<>> /\ Ahead = <<>> \o <<>>
    BY <1>1, <1>2 DEF Responses, Ahead
  <2>. QED  BY <2>1
<1>8. ResponsesInOrder
  <2>1. Len(Responses) = 0
    BY <1>7
  <2>2. [i \in 1..0 |-> i] = <<>>
    OBVIOUS
  <2>. QED  BY <1>7, <2>1, <2>2 DEF ResponsesInOrder
<1>9. NothingIsCutOff
  BY <1>1, <1>2 DEF NothingIsCutOff
<1>10. Phase
  <2>1. Expected = HeadOf(1) /\ Len(requests) + 1 = 1 /\ Len(Responses) = 0
    BY <1>1, <1>7 DEF Expected
  <2>2. Runs(requests, Ahead, Expected) /\ EndOf(requests, Ahead, Expected) = HeadOf(1)
    <3>. HIDE DEF Ahead, Expected
    <3>. QED  BY <1>7, <2>1 DEF Runs, EndOf
  <2>3. NoneBusy /\ ~Working /\ ~Got
    BY <1>1 DEF NoneBusy, Busy, Working, Got
  <2>. QED  BY <1>1, <1>2, <2>1, <2>2, <2>3 DEF Phase, Working
<1>. QED  BY <1>6, <1>8, <1>9, <1>10 DEF HttpInv

\* The invariant is inductive.
LEMMA NextHttpInv ==
  HttpInv /\ [Next]_vars => HttpInv'
<1>. SUFFICES ASSUME HttpInv, [Next]_vars  PROVE HttpInv'
  OBVIOUS
<1>1. CASE SendRequest
  BY <1>1, SendRequestStep
<1>2. CASE PeerGoes
  BY <1>2, PeerGoesStep
<1>3. CASE ConnectionEnds
  BY <1>3, ConnectionEndsStep
<1>4. CASE Deliver
  BY <1>4, DeliverStep
<1>5. CASE Accept
  BY <1>5, AcceptStep
<1>6. CASE Resume
  BY <1>6, ResumeStep
<1>7. CASE HeaderTimeout
  BY <1>7, HeaderTimeoutStep
<1>8. CASE \E n \in Number : HandlerFinishes(n)
  BY <1>8, HandlerFinishesStep
<1>9. CASE RunTask
  BY <1>9, RunTaskStep
<1>10. CASE ReadEvent
  BY <1>10, ReadEventStep
<1>11. CASE WriteEvent
  BY <1>11, WriteEventStep
<1>12. CASE ErrorEvent
  BY <1>12, ErrorEventStep
<1>13. CASE UNCHANGED vars
  <2>1. UNCHANGED <<peer, requests, inbox, tcp, at, c, handler, net, got>>
    BY <1>13 DEF vars, clientVars
  <2>2. Responses' = Responses /\ Ahead' = Ahead /\ Expected' = Expected
    BY <2>1 DEF Responses, Ahead, Expected
  <2>3. Sane' = Sane /\ ResponsesInOrder' = ResponsesInOrder
        /\ NothingIsCutOff' = NothingIsCutOff
    BY <2>1, <2>2 DEF Sane, TypeOK, ResponsesInOrder, NothingIsCutOff
  <2>4. Phase' = Phase
    BY <2>1, <2>2 DEF Phase, Between, Got, Working, NoneBusy, Busy
  <2>. QED  BY <2>1, <2>3, <2>4 DEF HttpInv
<1>. QED  BY <1>1, <1>2, <1>3, <1>4, <1>5, <1>6, <1>7, <1>8, <1>9, <1>10, <1>11, <1>12, <1>13
          DEF Next

\* The invariant holds in every reachable state.
LEMMA AlwaysHttpInv ==
  Spec => []HttpInv
BY InitHttpInv, NextHttpInv, PTL DEF Spec

\* The client reads the responses in the order of its requests, none twice and none
\* missing (HTTP1Connection.finish, HTTP1ServerConnection._server_request_loop).
THEOREM ResponsesAreInOrder ==
  Spec => []ResponsesInOrder
<1>1. HttpInv => ResponsesInOrder
  BY DEF HttpInv
<1>. QED  BY <1>1, AlwaysHttpInv, PTL

\* Types; and two handlers of one connection are at work at once only after the stream was
\* closed under the first of them (HTTP1Connection._read_message waits for it).
THEOREM HandlersTakeTurns ==
  Spec => []OneHandlerAtATime
<1>1. HttpInv => OneHandlerAtATime
  BY DEF HttpInv, Sane, OneHandlerAtATime, Phase, NoneBusy, Busy
<1>. QED  BY <1>1, AlwaysHttpInv, PTL

\* The server closes the connection of a client that is still there only when everything
\* it had to say is with the kernel (HTTP1Connection._finish_request, IOStream.close).
THEOREM ResponsesAreWhole ==
  Spec => []NothingIsCutOff
<1>1. HttpInv => NothingIsCutOff
  BY DEF HttpInv
<1>. QED  BY <1>1, AlwaysHttpInv, PTL
=============================================================================
