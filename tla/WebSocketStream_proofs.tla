----------------------- MODULE WebSocketStream_proofs -----------------------
(***************************************************************************)
(* Proofs about WebSocketStream: for any number of frames and updates, the *)
(* stream counts its callbacks, an open connection listens, messages       *)
(* arrive whole and in order, nothing is written behind the close frame,   *)
(* a handler whose on_close ran is left alone, and the connection is what  *)
(* SocketRegistry takes it to be, so that its updates arrive in order.     *)
(***************************************************************************)
EXTENDS WebSocketStream, ListFilter_proofs, FiniteSetTheorems, SequenceTheorems, TLAPS

-----------------------------------------------------------------------------
(* The callbacks of a stream                                               *)

\* Whether one of a kind is on the IOLoop, not twice, and the units it brings.
Has(ts, kind) == \E i \in 1..Len(ts) : ts[i].kind = kind
Once(ts, kind) == \A i, j \in 1..Len(ts) : ts[i].kind = kind /\ ts[j].kind = kind => i = j
Index(ts) == CHOOSE i \in 1..Len(ts) : ts[i].kind = "data"
Waiting(ts) == IF Has(ts, "data") THEN ts[Index(ts)].data ELSE <<>>
Count(b) == IF b THEN 1 ELSE 0

\* The callbacks of ts and of us are those of ts and the one task.
Added(ts, us, task) ==
  /\ us \in Seq(IO!Task)
  /\ \A kind \in {"data", "onClose", "close"} :
       /\ Has(us, kind) <=> Has(ts, kind) \/ task.kind = kind
       /\ Once(ts, kind) /\ (task.kind = kind => ~Has(ts, kind)) => Once(us, kind)
  /\ Once(ts, "data") /\ ~(task.kind = "data" /\ Has(ts, "data")) =>
       Waiting(us) = IF task.kind = "data" THEN task.data ELSE Waiting(ts)

\* What the one data callback brings.
LEMMA WaitingIs ==
  ASSUME NEW ts, Once(ts, "data"), NEW i \in 1..Len(ts), ts[i].kind = "data"
  PROVE  Waiting(ts) = ts[i].data
<1>1. Index(ts) \in 1..Len(ts) /\ ts[Index(ts)].kind = "data"
  BY DEF Index
<1>2. Index(ts) = i
  BY <1>1 DEF Once
<1>. QED  BY <1>2 DEF Waiting, Has

\* A callback is put behind the others.
LEMMA AppendTask ==
  ASSUME NEW ts \in Seq(IO!Task), NEW task \in IO!Task
  PROVE  Added(ts, Append(ts, task), task)
<1>. DEFINE us == Append(ts, task)
<1>1. /\ us \in Seq(IO!Task) /\ Len(us) = Len(ts) + 1 /\ us[Len(us)] = task
      /\ \A i \in 1..Len(ts) : us[i] = ts[i]
      /\ \A i \in 1..Len(us) : i \in 1..Len(ts) \/ i = Len(us)
      /\ \A i \in 1..Len(ts) : i \in 1..Len(us)
      /\ Len(us) \in 1..Len(us) /\ Len(us) \notin 1..Len(ts)
  OBVIOUS
<1>. HIDE DEF us
<1>2. ASSUME NEW kind
      PROVE  Has(us, kind) <=> Has(ts, kind) \/ task.kind = kind
  BY <1>1 DEF Has
<1>3. ASSUME NEW kind, Once(ts, kind), task.kind = kind => ~Has(ts, kind)
      PROVE  Once(us, kind)
  <2>. SUFFICES ASSUME NEW i \in 1..Len(us), NEW j \in 1..Len(us),
                       us[i].kind = kind, us[j].kind = kind
                PROVE  i = j
    BY DEF Once
  <2>1. i \in 1..Len(ts) \/ i = Len(us)
    BY <1>1
  <2>2. j \in 1..Len(ts) \/ j = Len(us)
    BY <1>1
  <2>. QED  BY <1>1, <1>3, <2>1, <2>2 DEF Once, Has
<1>4. ASSUME Once(ts, "data"), ~(task.kind = "data" /\ Has(ts, "data"))
      PROVE  Waiting(us) = IF task.kind = "data" THEN task.data ELSE Waiting(ts)
  <2>1. Once(us, "data")
    BY <1>3, <1>4
  <2>2. CASE task.kind = "data"
    BY <1>1, <2>1, <2>2, WaitingIs
  <2>3. CASE task.kind # "data" /\ Has(ts, "data")
    <3>1. PICK i \in 1..Len(ts) : ts[i].kind = "data"
      BY <2>3 DEF Has
    <3>2. Waiting(ts) = ts[i].data
      BY <1>4, <3>1, WaitingIs
    <3>3. i \in 1..Len(us) /\ us[i] = ts[i]
      BY <1>1
    <3>4. Waiting(us) = us[i].data
      BY <2>1, <3>1, <3>3, WaitingIs
    <3>. QED  BY <2>3, <3>2, <3>3, <3>4
  <2>4. CASE task.kind # "data" /\ ~Has(ts, "data")
    BY <1>2, <2>4 DEF Waiting
  <2>. QED  BY <2>2, <2>3, <2>4
<1>. QED  BY <1>1, <1>2, <1>3, <1>4 DEF Added, us

\* The oldest callback leaves.
LEMMA DropTask ==
  ASSUME NEW ts \in Seq(IO!Task), ts # <<>>
  PROVE  /\ Tail(ts) \in Seq(IO!Task) /\ Head(ts) \in IO!Task
         /\ \A kind \in {"data", "onClose", "close"} :
              /\ Has(Tail(ts), kind) => Has(ts, kind)
              /\ Head(ts).kind = kind => Has(ts, kind)
              /\ Has(ts, kind) => Has(Tail(ts), kind) \/ Head(ts).kind = kind
              /\ Once(ts, kind) => Once(Tail(ts), kind)
              /\ Once(ts, kind) /\ Head(ts).kind = kind => ~Has(Tail(ts), kind)
         /\ Once(ts, "data") =>
              IF Head(ts).kind = "data" THEN Waiting(ts) = Head(ts).data
              ELSE Waiting(Tail(ts)) = Waiting(ts)
<1>. DEFINE us == Tail(ts)
<1>1. /\ us \in Seq(IO!Task) /\ Head(ts) \in IO!Task /\ Len(us) = Len(ts) - 1
      /\ Head(ts) = ts[1] /\ 1 \in 1..Len(ts)
      /\ \A i \in 1..Len(us) : us[i] = ts[i + 1] /\ i + 1 \in 1..Len(ts) /\ i + 1 # 1
      /\ \A i \in 1..Len(ts) : i # 1 => i - 1 \in 1..Len(us) /\ us[i - 1] = ts[i]
      /\ \A i, j \in 1..Len(us) : i + 1 = j + 1 => i = j
  OBVIOUS
<1>. HIDE DEF us
<1>2. ASSUME NEW kind
      PROVE  /\ Has(us, kind) => Has(ts, kind)
             /\ Head(ts).kind = kind => Has(ts, kind)
             /\ Has(ts, kind) => Has(us, kind) \/ Head(ts).kind = kind
  BY <1>1 DEF Has
<1>3. ASSUME NEW kind, Once(ts, kind)
      PROVE  Once(us, kind) /\ (Head(ts).kind = kind => ~Has(us, kind))
  BY <1>1, <1>3 DEF Has, Once
<1>4. ASSUME Once(ts, "data"), Head(ts).kind # "data"
      PROVE  Waiting(us) = Waiting(ts)
  <2>1. Once(us, "data")
    BY <1>3, <1>4
  <2>2. CASE Has(us, "data")
    <3>1. PICK i \in 1..Len(us) : us[i].kind = "data"
      BY <2>2 DEF Has
    <3>2. Waiting(us) = us[i].data
      BY <2>1, <3>1, WaitingIs
    <3>3. i + 1 \in 1..Len(ts) /\ ts[i + 1] = us[i]
      BY <1>1
    <3>4. Waiting(ts) = ts[i + 1].data
      BY <1>4, <3>1, <3>3, WaitingIs
    <3>. QED  BY <3>2, <3>3, <3>4
  <2>3. CASE ~Has(us, "data")
    BY <1>2, <1>4, <2>3 DEF Waiting
  <2>. QED  BY <2>2, <2>3
<1>5. ASSUME Once(ts, "data"), Head(ts).kind = "data"
      PROVE  Waiting(ts) = Head(ts).data
  BY <1>1, <1>5, WaitingIs
<1>. QED  BY <1>1, <1>2, <1>3, <1>4, <1>5 DEF us

-----------------------------------------------------------------------------
(* A stream between two of its operations                                  *)

\* pending counts the callbacks; one of each kind at most; a closed stream listens to
\* nothing; a read waits only while its callback is not on the IOLoop, and the stream
\* then listens.
Sound(st) ==
  /\ st \in IO!Stream
  /\ Once(st.tasks, "data") /\ Once(st.tasks, "onClose")
  /\ st.pending = Count(Has(st.tasks, "data")) + Count(Has(st.tasks, "onClose"))
  /\ st.closed => ~st.handler /\ st.interest = {}
  /\ ~st.handler => st.interest = {}
  /\ Has(st.tasks, "onClose") => st.closed /\ ~st.closeCallback
  /\ Has(st.tasks, "data") => ~st.reading
  /\ st.reading => ~st.closed /\ st.handler /\ "READ" \in st.interest /\ st.buffer = <<>>

\* The close callback is still to run.
Awaits(st) == st.closeCallback \/ Has(st.tasks, "onClose")

\* What an operation on a stream leaves alone, as a rule.
Alike(st, q) ==
  /\ Sound(q)
  /\ Has(q.tasks, "data") <=> Has(st.tasks, "data")
  /\ Waiting(q.tasks) = Waiting(st.tasks)
  /\ Has(q.tasks, "close") => Has(st.tasks, "close")
  /\ q.buffer = st.buffer /\ q.writeBuffer = st.writeBuffer

\* q is st, but for what it listens for; or st was closed; or a read of it is complete,
\* and left the units b; or it waits for one.
Listens(st, q) ==
  /\ Alike(st, q)
  /\ q.closed = st.closed /\ q.reading = st.reading /\ q.tasks = st.tasks
  /\ q.closeCallback = st.closeCallback

Shut(st, q) ==
  /\ Alike(st, q) /\ q.closed /\ ~q.reading
  /\ q.closeCallback => Has(q.tasks, "data")
  /\ Awaits(q) <=> Awaits(st)
  /\ Has(q.tasks, "onClose") => Has(st.tasks, "onClose") \/ ~Has(st.tasks, "data")

Took(st, q, data, b) ==
  /\ Sound(q)
  /\ Has(q.tasks, "data") /\ Waiting(q.tasks) = data
  /\ Has(q.tasks, "close") => Has(st.tasks, "close")
  /\ Has(q.tasks, "onClose") <=> Has(st.tasks, "onClose")
  /\ q.buffer = b /\ q.writeBuffer = st.writeBuffer /\ ~q.reading
  /\ q.closed = st.closed /\ q.closeCallback = st.closeCallback

Waits(st, q) ==
  /\ Alike(st, q) /\ ~q.closed /\ q.reading
  /\ q.closeCallback = st.closeCallback /\ q.tasks = st.tasks

\* The types of a stream's fields.
LEMMA TaskTypes ==
  ASSUME NEW st \in IO!Stream
  PROVE  /\ st.tasks \in Seq(IO!Task) /\ st.buffer \in Seq(Unit) /\ st.writeBuffer \in Seq(Out)
         /\ st.pending \in Nat /\ st.closed \in BOOLEAN /\ st.reading \in BOOLEAN
         /\ st.handler \in BOOLEAN /\ st.closeCallback \in BOOLEAN
         /\ st.interest \in SUBSET {"READ", "WRITE"}
BY DEF IO!Stream

\* _run_callback.
LEMMA Schedules ==
  ASSUME NEW st \in IO!Stream, NEW task \in IO!Task
  PROVE  LET q == IO!Schedule(st, task) IN
         /\ q \in IO!Stream /\ q.pending = st.pending + 1 /\ q.tasks = Append(st.tasks, task)
         /\ q.closed = st.closed /\ q.buffer = st.buffer /\ q.reading = st.reading
         /\ q.handler = st.handler /\ q.interest = st.interest
         /\ q.closeCallback = st.closeCallback /\ q.writeBuffer = st.writeBuffer
<1>. DEFINE ts == Append(st.tasks, task)
            n == st.pending + 1
<1>1. ts \in Seq(IO!Task) /\ n \in Nat
  BY TaskTypes
<1>2. IO!Schedule(st, task) = [st EXCEPT !.pending = n, !.tasks = ts]
  BY DEF IO!Schedule
<1>. HIDE DEF ts, n
<1>3. LET q == [st EXCEPT !.pending = n, !.tasks = ts] IN
         /\ q \in IO!Stream /\ q.pending = n /\ q.tasks = ts
         /\ q.closed = st.closed /\ q.buffer = st.buffer /\ q.reading = st.reading
         /\ q.handler = st.handler /\ q.interest = st.interest
         /\ q.closeCallback = st.closeCallback /\ q.writeBuffer = st.writeBuffer
  BY <1>1 DEF IO!Stream
<1>. QED  BY <1>2, <1>3 DEF ts, n

\* _maybe_run_close_callback, of a stream that has just been closed.
LEMMA CloseCallback ==
  ASSUME NEW st \in IO!Stream, Once(st.tasks, "data"), Once(st.tasks, "onClose"),
         st.pending = Count(Has(st.tasks, "data")) + Count(Has(st.tasks, "onClose")),
         st.closed, ~st.handler, st.interest = {},
         Has(st.tasks, "onClose") => ~st.closeCallback,
         st.pending # 0 => ~st.reading
  PROVE  Shut(st, IO!MaybeRunCloseCallback(st))
<1>1. CASE st.pending # 0
  <2>1. IO!MaybeRunCloseCallback(st) = st
    BY <1>1 DEF IO!MaybeRunCloseCallback
  <2>2. Has(st.tasks, "data") \/ Has(st.tasks, "onClose")
    BY <1>1 DEF Count
  <2>. QED  BY <1>1, <2>1, <2>2 DEF Shut, Alike, Sound, Awaits
<1>2. CASE st.pending = 0
  <2>1. ~Has(st.tasks, "data") /\ ~Has(st.tasks, "onClose")
    BY <1>2 DEF Count
  <2>. DEFINE task == IO!Plain("onClose")
              t == IF st.closeCallback THEN IO!Schedule(st, task) ELSE st
              q == [t EXCEPT !.closeCallback = FALSE, !.reading = FALSE]
  <2>2. IO!MaybeRunCloseCallback(st) = q
    BY <1>2 DEF IO!MaybeRunCloseCallback
  <2>3. task \in IO!Task /\ task.kind = "onClose"
    BY DEF IO!Plain, IO!Task
  <2>4. st.tasks \in Seq(IO!Task)
    BY TaskTypes
  <2>5. Added(st.tasks, Append(st.tasks, task), task)
    BY <2>3, <2>4, AppendTask
  <2>. HIDE DEF task
  <2>6. /\ t \in IO!Stream /\ t.closed = st.closed /\ t.buffer = st.buffer
        /\ t.handler = st.handler /\ t.interest = st.interest
        /\ t.writeBuffer = st.writeBuffer
        /\ st.closeCallback => t.pending = st.pending + 1 /\ t.tasks = Append(st.tasks, task)
        /\ ~st.closeCallback => t.pending = st.pending /\ t.tasks = st.tasks
    BY <2>3, Schedules
  <2>. HIDE DEF t
  <2>7. /\ q \in IO!Stream /\ q.closed = st.closed /\ q.buffer = st.buffer
        /\ q.handler = st.handler /\ q.interest = st.interest
        /\ q.writeBuffer = st.writeBuffer /\ q.pending = t.pending /\ q.tasks = t.tasks
        /\ q.closeCallback = FALSE /\ q.reading = FALSE
    BY <2>6 DEF IO!Stream
  <2>. HIDE DEF q
  <2>8. CASE st.closeCallback
    <3>1. /\ Has(q.tasks, "onClose") /\ ~Has(q.tasks, "data")
          /\ Once(q.tasks, "onClose") /\ Once(q.tasks, "data")
          /\ Has(q.tasks, "close") => Has(st.tasks, "close")
          /\ Waiting(q.tasks) = Waiting(st.tasks)
      BY <2>1, <2>3, <2>5, <2>6, <2>7, <2>8 DEF Added
    <3>2. q.pending = Count(Has(q.tasks, "data")) + Count(Has(q.tasks, "onClose"))
      BY <1>2, <2>6, <2>7, <2>8, <3>1 DEF Count
    <3>3. Sound(q)
      BY <2>7, <3>1, <3>2 DEF Sound
    <3>. QED  BY <2>1, <2>2, <2>7, <2>8, <3>1, <3>3 DEF Shut, Alike, Awaits
  <2>9. CASE ~st.closeCallback
    <3>1. q.tasks = st.tasks /\ q.pending = st.pending
      BY <2>6, <2>7, <2>9
    <3>2. Sound(q)
      BY <2>1, <2>7, <3>1 DEF Sound
    <3>. QED  BY <2>1, <2>2, <2>7, <2>9, <3>1, <3>2 DEF Shut, Alike, Awaits
  <2>. QED  BY <2>8, <2>9
<1>. QED  BY <1>1, <1>2, TaskTypes

\* close, which the streams that are closed all come from.
LEMMA CloseShuts ==
  ASSUME NEW st, Sound(st)  PROVE Shut(st, IO!Close(st))
<1>. DEFINE p == [st EXCEPT !.closed = TRUE, !.handler = FALSE, !.interest = {}]
<1>1. IO!Close(st) = IO!MaybeRunCloseCallback(p)
  BY DEF IO!Close
<1>2. /\ p \in IO!Stream /\ p.closed = TRUE /\ p.handler = FALSE /\ p.interest = {}
      /\ p.buffer = st.buffer /\ p.reading = st.reading /\ p.pending = st.pending
      /\ p.closeCallback = st.closeCallback /\ p.writeBuffer = st.writeBuffer
      /\ p.tasks = st.tasks
  BY DEF Sound, IO!Stream
<1>. HIDE DEF p
<1>3. st.pending # 0 => ~st.reading
  BY DEF Sound, Count
<1>4. Shut(p, IO!MaybeRunCloseCallback(p))
  BY <1>2, <1>3, CloseCallback DEF Sound
<1>. QED  BY <1>1, <1>2, <1>4 DEF Shut, Alike, Awaits

\* Closing in two operations is closing.
LEMMA ShutTwice ==
  ASSUME NEW p, NEW q, NEW r, Shut(p, q), Shut(q, r)  PROVE Shut(p, r)
BY DEF Shut, Alike

\* A closed stream waits for no read.
LEMMA ShutKeepsWaiting ==
  ASSUME NEW st, NEW q, Shut(st, q)
  PROVE  Sound(q) /\ q.closed /\ ~q.reading
BY DEF Shut, Alike

\* The stream listens for something else.
LEMMA ListensTo ==
  ASSUME NEW st, Sound(st), ~st.closed,
         NEW events \in SUBSET {"READ", "WRITE"}, st.reading => "READ" \in events,
         NEW q, q = [st EXCEPT !.handler = TRUE, !.interest = events]
  PROVE  Listens(st, q) /\ q.handler /\ q.interest = events
<1>1. /\ q \in IO!Stream /\ q.closed = st.closed /\ q.handler = TRUE /\ q.interest = events
      /\ q.buffer = st.buffer /\ q.reading = st.reading /\ q.pending = st.pending
      /\ q.closeCallback = st.closeCallback /\ q.writeBuffer = st.writeBuffer
      /\ q.tasks = st.tasks
  BY DEF Sound, IO!Stream
<1>. QED  BY <1>1 DEF Listens, Alike, Sound

\* _add_io_state.
LEMMA AddIoStateListens ==
  ASSUME NEW st, Sound(st), ~st.closed, NEW event \in {"READ", "WRITE"}
  PROVE  LET q == IO!AddIoState(st, event) IN
         Listens(st, q) /\ q.handler /\ event \in q.interest
<1>. DEFINE events == st.interest \cup {event}
            q == [st EXCEPT !.handler = TRUE, !.interest = events]
<1>1. IO!AddIoState(st, event) = q
  BY DEF IO!AddIoState
<1>2. events \in SUBSET {"READ", "WRITE"} /\ event \in events
  BY DEF Sound, IO!Stream
<1>3. st.reading => "READ" \in events
  BY DEF Sound
<1>. HIDE DEF events
<1>4. Listens(st, q) /\ q.handler /\ q.interest = events
  BY <1>2, <1>3, ListensTo
<1>. QED  BY <1>1, <1>2, <1>4

\* _maybe_add_error_listener.
LEMMA ErrorListener ==
  ASSUME NEW st, Sound(st)
  PROVE  LET q == IO!MaybeAddErrorListener(st) IN
         IF st.closed THEN Shut(st, q) ELSE Listens(st, q)
<1>. DEFINE q == IO!MaybeAddErrorListener(st)
<1>1. CASE st.closed /\ st.pending = 0
  <2>1. q = IO!MaybeRunCloseCallback(st)
    BY <1>1 DEF IO!MaybeAddErrorListener, Sound
  <2>2. Shut(st, IO!MaybeRunCloseCallback(st))
    BY <1>1, CloseCallback DEF Sound
  <2>. QED  BY <1>1, <2>1, <2>2
<1>2. CASE st.closed /\ st.pending # 0
  <2>1. q = st
    BY <1>2 DEF IO!MaybeAddErrorListener
  <2>2. Has(st.tasks, "data") \/ Has(st.tasks, "onClose")
    BY <1>2 DEF Sound, Count
  <2>. QED  BY <1>2, <2>1, <2>2 DEF Shut, Alike, Awaits, Sound
<1>3. CASE ~st.closed
  <2>1. q = st \/ q = IO!AddIoState(st, "READ")
    BY <1>3 DEF IO!MaybeAddErrorListener
  <2>2. Listens(st, st)
    BY DEF Listens, Alike
  <2>. QED  BY <1>3, <2>1, <2>2, AddIoStateListens
<1>4. st.closed \in BOOLEAN
  BY DEF Sound, IO!Stream
<1>. QED  BY <1>1, <1>2, <1>3, <1>4

\* A failed send closes the stream.
LEMMA WriteFailsShuts ==
  ASSUME NEW st, Sound(st)  PROVE Shut(st, IO!WriteFails(st))
<1>1. Shut(st, IO!Close(st))
  BY CloseShuts
<1>2. Sound(IO!Close(st)) /\ IO!Close(st).closed
  BY <1>1 DEF Shut, Alike
<1>3. Shut(IO!Close(st), IO!WriteFails(st))
  BY <1>2, ErrorListener DEF IO!WriteFails
<1>. QED  BY <1>1, <1>3, ShutTwice

\* q is st with another write buffer.
Wrote(st, q, left) ==
  /\ Sound(q) /\ q.writeBuffer = left
  /\ q.closed = st.closed /\ q.reading = st.reading /\ q.tasks = st.tasks
  /\ q.closeCallback = st.closeCallback /\ q.buffer = st.buffer

\* Only the write buffer changes.
LEMMA Rewritten ==
  ASSUME NEW st, Sound(st), NEW left \in Seq(Out),
         NEW q, q = [st EXCEPT !.writeBuffer = left]
  PROVE  Wrote(st, q, left) /\ q.handler = st.handler /\ q.interest = st.interest
<1>1. /\ q \in IO!Stream /\ q.closed = st.closed /\ q.handler = st.handler
      /\ q.interest = st.interest
      /\ q.buffer = st.buffer /\ q.reading = st.reading /\ q.pending = st.pending
      /\ q.closeCallback = st.closeCallback /\ q.writeBuffer = left
      /\ q.tasks = st.tasks
  BY DEF Sound, IO!Stream
<1>. QED  BY <1>1 DEF Wrote, Sound

\* write, to an open stream.
LEMMA WrittenWrote ==
  ASSUME NEW st, Sound(st), ~st.closed, NEW left \in Seq(Out)
  PROVE  Wrote(st, IO!Written(st, left), left)
<1>. DEFINE w == [st EXCEPT !.writeBuffer = left]
            v == IF left = <<>> THEN w ELSE IO!AddIoState(w, "WRITE")
<1>1. IO!Written(st, left) = IO!MaybeAddErrorListener(v)
  BY DEF IO!Written
<1>2. Wrote(st, w, left)
  BY Rewritten
<1>. HIDE DEF w
<1>3. Listens(w, v)
  <2>1. Sound(w) /\ ~w.closed /\ Listens(w, w)
    BY <1>2 DEF Wrote, Listens, Alike
  <2>2. Listens(w, IO!AddIoState(w, "WRITE"))
    BY <2>1, AddIoStateListens
  <2>. QED  BY <2>1, <2>2
<1>. HIDE DEF v
<1>4. Listens(v, IO!MaybeAddErrorListener(v))
  <2>1. Sound(v) /\ ~v.closed
    BY <1>2, <1>3 DEF Wrote, Listens, Alike
  <2>. QED  BY <2>1, ErrorListener
<1>. QED  BY <1>1, <1>2, <1>3, <1>4 DEF Wrote, Listens, Alike

\* The end of _handle_events.
LEMMA RelistenListens ==
  ASSUME NEW st, Sound(st), st.handler \/ st.closed
  PROVE  IF st.closed THEN IO!Relisten(st) = st ELSE Listens(st, IO!Relisten(st))
<1>. DEFINE wanted == (IF st.reading THEN {"READ"} ELSE {})
                        \cup (IF st.writeBuffer # <<>> THEN {"WRITE"} ELSE {})
            events == IF wanted = {} /\ st.buffer = <<>> THEN {"READ"} ELSE wanted
            q == [st EXCEPT !.handler = TRUE, !.interest = events]
<1>1. CASE ~st.closed
  <2>1. IO!Relisten(st) = [st EXCEPT !.interest = events]
    BY <1>1 DEF IO!Relisten
  <2>2. events \in SUBSET {"READ", "WRITE"} /\ (st.reading => "READ" \in events)
    OBVIOUS
  <2>. HIDE DEF events
  <2>3. [st EXCEPT !.interest = events] = q
    BY <1>1 DEF Sound, IO!Stream
  <2>4. Listens(st, q)
    BY <1>1, <2>2, ListensTo
  <2>. QED  BY <1>1, <2>1, <2>3, <2>4
<1>2. CASE st.closed
  BY <1>2 DEF IO!Relisten
<1>. QED  BY <1>1, <1>2

\* ERROR alone.
LEMMA HandleErrorAlike ==
  ASSUME NEW st, Sound(st)
  PROVE  LET q == IO!HandleError(st) IN
         /\ Sound(q) /\ Waiting(q.tasks) = Waiting(st.tasks)
         /\ Has(q.tasks, "data") <=> Has(st.tasks, "data")
         /\ Has(q.tasks, "onClose") <=> Has(st.tasks, "onClose")
         /\ q.closed = st.closed /\ q.reading = st.reading /\ q.buffer = st.buffer
         /\ q.closeCallback = st.closeCallback /\ q.writeBuffer = st.writeBuffer
<1>. DEFINE task == IO!Plain("close")
            ts == Append(st.tasks, task)
            q == [st EXCEPT !.tasks = ts]
<1>1. IO!HandleError(st) = q
  BY DEF IO!HandleError
<1>2. task \in IO!Task /\ task.kind = "close" /\ st.tasks \in Seq(IO!Task)
  BY DEF IO!Plain, IO!Task, Sound, IO!Stream
<1>3. Added(st.tasks, ts, task)
  BY <1>2, AppendTask
<1>. HIDE DEF task, ts
<1>4. ts \in Seq(IO!Task)
  BY <1>3 DEF Added
<1>5. /\ q \in IO!Stream /\ q.closed = st.closed /\ q.handler = st.handler
      /\ q.interest = st.interest
      /\ q.buffer = st.buffer /\ q.reading = st.reading /\ q.pending = st.pending
      /\ q.closeCallback = st.closeCallback /\ q.writeBuffer = st.writeBuffer
      /\ q.tasks = ts
  BY <1>4 DEF Sound, IO!Stream
<1>. HIDE DEF q
<1>6. /\ Has(ts, "data") <=> Has(st.tasks, "data")
      /\ Has(ts, "onClose") <=> Has(st.tasks, "onClose")
      /\ Once(ts, "data") /\ Once(ts, "onClose")
      /\ Waiting(ts) = Waiting(st.tasks)
  BY <1>2, <1>3 DEF Added, Sound
<1>7. st.pending = Count(Has(ts, "data")) + Count(Has(ts, "onClose"))
  BY <1>6 DEF Sound, Count
<1>8. Sound(q)
  BY <1>5, <1>6, <1>7 DEF Sound
<1>. QED  BY <1>1, <1>5, <1>6, <1>8

\* The next callback leaves the IOLoop.
LEMMA StartedIs ==
  ASSUME NEW st, Sound(st), st.tasks # <<>>
  PROVE  LET q == IO!Started(st)
             task == Head(st.tasks)
         IN  /\ Sound(q) /\ task \in IO!Task
             /\ Has(q.tasks, "close") => Has(st.tasks, "close")
             /\ task.kind = "close" => Has(st.tasks, "close")
             /\ q.closed = st.closed /\ q.reading = st.reading /\ q.buffer = st.buffer
             /\ q.closeCallback = st.closeCallback /\ q.writeBuffer = st.writeBuffer
             /\ IF task.kind = "data"
                  THEN /\ Has(st.tasks, "data") /\ ~Has(q.tasks, "data")
                       /\ Waiting(st.tasks) = task.data
                  ELSE /\ Has(q.tasks, "data") <=> Has(st.tasks, "data")
                       /\ Waiting(q.tasks) = Waiting(st.tasks)
             /\ IF task.kind = "onClose"
                  THEN Has(st.tasks, "onClose") /\ ~Has(q.tasks, "onClose")
                  ELSE Has(q.tasks, "onClose") <=> Has(st.tasks, "onClose")
<1>. DEFINE ts == st.tasks
            task == Head(ts)
            us == Tail(ts)
            n == IF task.kind = "close" THEN st.pending ELSE st.pending - 1
            q == [st EXCEPT !.tasks = us, !.pending = n]
<1>1. ts \in Seq(IO!Task) /\ ts # <<>> /\ st.pending \in Nat
  BY DEF Sound, IO!Stream
<1>2. IO!Started(st) = q
  BY DEF IO!Started
<1>. HIDE DEF ts
<1>3. /\ us \in Seq(IO!Task) /\ task \in IO!Task
      /\ \A kind \in {"data", "onClose", "close"} :
           /\ Has(us, kind) => Has(ts, kind)
           /\ task.kind = kind => Has(ts, kind)
           /\ Has(ts, kind) => Has(us, kind) \/ task.kind = kind
           /\ Once(ts, kind) => Once(us, kind)
           /\ Once(ts, kind) /\ task.kind = kind => ~Has(us, kind)
      /\ Once(ts, "data") =>
           IF task.kind = "data" THEN Waiting(ts) = task.data ELSE Waiting(us) = Waiting(ts)
  BY <1>1, DropTask
<1>. HIDE DEF us, task
<1>4. task.kind \in {"data", "onClose", "close"}
  BY <1>3 DEF IO!Task
<1>5. /\ Once(ts, "data") /\ Once(ts, "onClose")
      /\ st.pending = Count(Has(ts, "data")) + Count(Has(ts, "onClose"))
  BY DEF Sound, ts
<1>6. /\ Once(us, "data") /\ Once(us, "onClose")
      /\ IF task.kind = "data" THEN Has(ts, "data") /\ ~Has(us, "data")
         ELSE Has(us, "data") <=> Has(ts, "data")
      /\ IF task.kind = "onClose" THEN Has(ts, "onClose") /\ ~Has(us, "onClose")
         ELSE Has(us, "onClose") <=> Has(ts, "onClose")
  BY <1>3, <1>5
<1>7. n = Count(Has(us, "data")) + Count(Has(us, "onClose"))
  BY <1>4, <1>5, <1>6 DEF Count
<1>8. n \in Nat
  BY <1>7 DEF Count
<1>. HIDE DEF n
<1>9. /\ q \in IO!Stream /\ q.closed = st.closed /\ q.handler = st.handler
      /\ q.interest = st.interest
      /\ q.buffer = st.buffer /\ q.reading = st.reading /\ q.pending = n
      /\ q.closeCallback = st.closeCallback /\ q.writeBuffer = st.writeBuffer
      /\ q.tasks = us
  BY <1>3, <1>8 DEF Sound, IO!Stream
<1>. HIDE DEF q
<1>10. Sound(q)
  BY <1>6, <1>7, <1>9 DEF Sound, ts
<1>. QED  BY <1>2, <1>3, <1>5, <1>6, <1>9, <1>10 DEF ts, us, task

-----------------------------------------------------------------------------
(* Reading                                                                 *)

\* What a recv finds is taken from the front of what is under way.
Rest(q, ch) == SubSeq(q, Len(ch.units) + 1, Len(q))

\* What recv returns and what is left in the socket make up what was there.
LEMMA ChunkIsFront ==
  ASSUME NEW q \in Seq(Unit), NEW gone \in BOOLEAN,
         NEW ch \in IO!Received(q, gone) \cup {IO!NothingYet}
  PROVE  /\ ch.units \in Seq(Unit) /\ Rest(q, ch) \in Seq(Unit)
         /\ ch.units \o Rest(q, ch) = q
         /\ ch.eof \in BOOLEAN
         /\ ch.eof => gone /\ ch.units = <<>> /\ q = <<>>
         /\ ch \in IO!Received(q, gone) => (ch.units = <<>> <=> ch.eof)
<1>1. CASE ch \in {IO!NothingYet, [units |-> <<>>, eof |-> TRUE]}
  <2>1. ch.units = <<>> /\ ch.eof \in BOOLEAN
    <3>1. CASE ch = IO!NothingYet
      BY <3>1 DEF IO!NothingYet
    <3>2. CASE ch = [units |-> <<>>, eof |-> TRUE]
      BY <3>2
    <3>. QED  BY <1>1, <3>1, <3>2
  <2>2. Rest(q, ch) = q
    BY <2>1 DEF Rest
  <2>3. \A n \in 1..Len(q) : SubSeq(q, 1, n) # <<>>
    OBVIOUS
  <2>4. ch.eof => gone /\ q = <<>>
    BY <2>1, <2>3 DEF IO!Received, IO!NothingYet
  <2>5. ch \in IO!Received(q, gone) => ch.eof
    BY <2>1, <2>3 DEF IO!Received
  <2>. QED  BY <2>1, <2>2, <2>4, <2>5
<1>2. CASE \E n \in 1..Len(q) : ch = [units |-> SubSeq(q, 1, n), eof |-> FALSE]
  <2>1. PICK n \in 1..Len(q) : ch = [units |-> SubSeq(q, 1, n), eof |-> FALSE]
    BY <1>2
  <2>2. ch.units = SubSeq(q, 1, n) /\ ch.eof = FALSE
    BY <2>1
  <2>3. Len(ch.units) = n /\ ch.units \in Seq(Unit) /\ ch.units # <<>>
    BY <2>2
  <2>4. Rest(q, ch) = SubSeq(q, n + 1, Len(q))
    BY <2>3 DEF Rest
  <2>5. SubSeq(q, n + 1, Len(q)) \in Seq(Unit)
    OBVIOUS
  <2>6. SubSeq(q, 1, n) \o SubSeq(q, n + 1, Len(q)) = q
    <3>1. 1 \in 1..(Len(q) + 1) /\ n \in (1 - 1)..Len(q) /\ Len(q) \in n..Len(q)
      OBVIOUS
    <3>2. SubSeq(q, 1, n) \o SubSeq(q, n + 1, Len(q)) = SubSeq(q, 1, Len(q))
      BY <3>1, ConcatAdjacentSubSeq
    <3>. QED  BY <3>2, SubSeqFull
  <2>. QED  BY <2>2, <2>3, <2>4, <2>5, <2>6
<1>. QED  BY <1>1, <1>2 DEF IO!Received

\* A buffer is its first unit and the rest.
LEMMA FirstUnit ==
  ASSUME NEW x \in Seq(Unit), x # <<>>
  PROVE  /\ SubSeq(x, 1, 1) = <<x[1]>> /\ SubSeq(x, 1 + 1, Len(x)) = Tail(x)
         /\ 1 \in 0..Len(x) /\ x[1] \in Unit /\ Tail(x) \in Seq(Unit)
         /\ x = <<x[1]>> \o Tail(x)
<1>1. Len(x) \in Nat /\ Len(x) >= 1 /\ x[1] \in Unit /\ Tail(x) \in Seq(Unit)
  OBVIOUS
<1>2. SubSeq(x, 1, 1) = <<x[1]>>
  <2>1. Len(SubSeq(x, 1, 1)) = 1 /\ SubSeq(x, 1, 1)[1] = x[1] /\ SubSeq(x, 1, 1) \in Seq(Unit)
    BY <1>1
  <2>2. Len(<<x[1]>>) = 1 /\ <<x[1]>>[1] = x[1] /\ <<x[1]>> \in Seq(Unit)
    BY <1>1
  <2>. DEFINE a == SubSeq(x, 1, 1)
              b == <<x[1]>>
  <2>3. \A i \in 1..1 : i = 1
    OBVIOUS
  <2>. HIDE DEF a, b
  <2>4. a = b
    BY <2>1, <2>2, <2>3, SeqEqual DEF a, b
  <2>. QED  BY <2>4 DEF a, b
<1>3. SubSeq(x, 1 + 1, Len(x)) = Tail(x)
  BY <1>1, TailIsSubSeq
<1>4. x = <<x[1]>> \o Tail(x)
  BY <1>1
<1>. QED  BY <1>1, <1>2, <1>3, <1>4

\* _read_from_buffer: of n units in st, which is r but for its buffer.
LEMMA CompleteTakes ==
  ASSUME NEW r, Sound(r), ~Has(r.tasks, "data"),
         NEW st \in IO!Stream, st.tasks = r.tasks, st.pending = r.pending,
         st.closed = r.closed, st.handler = r.handler, st.interest = r.interest,
         st.closeCallback = r.closeCallback, st.writeBuffer = r.writeBuffer,
         NEW n \in 0..Len(st.buffer)
  PROVE  LET q == IO!Complete(st, n) IN
         /\ Took(r, q, SubSeq(st.buffer, 1, n), SubSeq(st.buffer, n + 1, Len(st.buffer)))
         /\ q.pending # 0
<1>. DEFINE front == SubSeq(st.buffer, 1, n)
            back == SubSeq(st.buffer, n + 1, Len(st.buffer))
            task == [kind |-> "data", data |-> front]
            t == [st EXCEPT !.reading = FALSE, !.buffer = back]
            q == IO!Schedule(t, task)
<1>1. IO!Complete(st, n) = q
  BY DEF IO!Complete
<1>2. /\ st.buffer \in Seq(Unit) /\ front \in Seq(Unit) /\ back \in Seq(Unit)
      /\ st.tasks \in Seq(IO!Task)
  <2>1. st.buffer \in Seq(Unit) /\ st.tasks \in Seq(IO!Task)
    BY TaskTypes
  <2>. QED  BY <2>1
<1>. HIDE DEF front, back
<1>3. task \in IO!Task /\ task.kind = "data" /\ task.data = front
  BY <1>2 DEF IO!Task
<1>. HIDE DEF task
<1>4. /\ t \in IO!Stream /\ t.closed = st.closed /\ t.handler = st.handler
      /\ t.interest = st.interest /\ t.buffer = back /\ t.reading = FALSE
      /\ t.pending = st.pending /\ t.closeCallback = st.closeCallback
      /\ t.writeBuffer = st.writeBuffer /\ t.tasks = st.tasks
  BY <1>2 DEF IO!Stream
<1>. HIDE DEF t
<1>5. /\ q \in IO!Stream /\ q.pending = r.pending + 1 /\ q.tasks = Append(r.tasks, task)
      /\ q.closed = r.closed /\ q.buffer = back /\ q.reading = FALSE
      /\ q.handler = r.handler /\ q.interest = r.interest
      /\ q.closeCallback = r.closeCallback /\ q.writeBuffer = r.writeBuffer
  BY <1>3, <1>4, Schedules
<1>6. Added(r.tasks, q.tasks, task)
  BY <1>2, <1>3, <1>5, AppendTask
<1>. HIDE DEF q
<1>7. /\ Has(q.tasks, "data") /\ Waiting(q.tasks) = front
      /\ Once(q.tasks, "data") /\ Once(q.tasks, "onClose")
      /\ Has(q.tasks, "onClose") <=> Has(r.tasks, "onClose")
      /\ Has(q.tasks, "close") <=> Has(r.tasks, "close")
  BY <1>3, <1>6 DEF Added, Sound
<1>8. /\ q.pending = Count(Has(q.tasks, "data")) + Count(Has(q.tasks, "onClose"))
      /\ q.pending # 0
  <2>1. r.pending = Count(Has(r.tasks, "onClose"))
    BY DEF Sound, Count
  <2>. QED  BY <1>5, <1>7, <2>1 DEF Count
<1>9. Sound(q)
  BY <1>5, <1>7, <1>8 DEF Sound
<1>. QED  BY <1>1, <1>5, <1>7, <1>8, <1>9 DEF Took, front, back

\* read_bytes, and the end of the callback it is called in.
LEMMA ReadOutcome ==
  ASSUME inbox \in Seq(Unit),
         NEW r, Sound(r), ~Has(r.tasks, "data"), ~r.reading,
         NEW n \in {0, 1}, ~IO!ReadRaises(r, n), NEW ch \in Chunks(r, n)
  PROVE  LET q == IO!MaybeAddErrorListener(IO!ReadBytes(r, n, ch))
             x == r.buffer \o ch.units
         IN  /\ ch.units \o Rest(inbox, ch) = inbox
             /\ ch.units \in Seq(Unit) /\ Rest(inbox, ch) \in Seq(Unit)
             /\ \/ n = 0 /\ Took(r, q, <<>>, r.buffer) /\ ch.units = <<>>
                \/ n = 1 /\ x # <<>> /\ Took(r, q, <<x[1]>>, Tail(x))
                \/ n = 1 /\ Shut(r, q) /\ Disconnected /\ x = <<>> /\ inbox = <<>>
                \/ n = 1 /\ Waits(r, q) /\ x = <<>>
<1>. DEFINE x == r.buffer \o ch.units
            q == IO!MaybeAddErrorListener(IO!ReadBytes(r, n, ch))
            reads == [r EXCEPT !.reading = TRUE]
<1>1. Disconnected \in BOOLEAN /\ ch \in IO!Received(inbox, Disconnected) \cup {IO!NothingYet}
  BY DEF Disconnected, Chunks
<1>2. /\ ch.units \in Seq(Unit) /\ Rest(inbox, ch) \in Seq(Unit) /\ ch.eof \in BOOLEAN
      /\ ch.units \o Rest(inbox, ch) = inbox
      /\ ch.eof => Disconnected /\ ch.units = <<>> /\ inbox = <<>>
  BY <1>1, ChunkIsFront
<1>3. /\ r \in IO!Stream /\ r.buffer \in Seq(Unit) /\ x \in Seq(Unit) /\ Len(r.buffer) \in Nat
  BY <1>2, TaskTypes DEF Sound
<1>4. /\ reads \in IO!Stream /\ reads.closed = r.closed /\ reads.handler = r.handler
      /\ reads.interest = r.interest /\ reads.buffer = r.buffer /\ reads.reading = TRUE
      /\ reads.pending = r.pending /\ reads.closeCallback = r.closeCallback
      /\ reads.writeBuffer = r.writeBuffer /\ reads.tasks = r.tasks
  BY <1>3 DEF IO!Stream
<1>. HIDE DEF reads
<1>5. CASE n <= Len(r.buffer)
  <2>1. ch.units = <<>> /\ x = r.buffer
    <3>1. ch.units = <<>>
      BY <1>5 DEF Chunks, IO!NothingYet
    <3>. QED  BY <1>3, <3>1
  <2>2. IO!ReadBytes(r, n, ch) = IO!Complete(reads, n)
    BY <1>5 DEF IO!ReadBytes, reads
  <2>. DEFINE v == IO!Complete(reads, n)
  <2>3. /\ Took(r, v, SubSeq(r.buffer, 1, n), SubSeq(r.buffer, n + 1, Len(r.buffer)))
        /\ v.pending # 0
    BY <1>3, <1>4, <1>5, CompleteTakes
  <2>4. q = v
    BY <2>2, <2>3 DEF IO!MaybeAddErrorListener
  <2>5. CASE n = 0
    <3>1. SubSeq(r.buffer, 1, n) = <<>> /\ SubSeq(r.buffer, n + 1, Len(r.buffer)) = r.buffer
      BY <1>3, <2>5
    <3>. QED  BY <1>2, <2>1, <2>3, <2>4, <2>5, <3>1
  <2>6. CASE n = 1
    <3>1. /\ SubSeq(r.buffer, 1, n) = <<x[1]>> /\ x # <<>>
          /\ SubSeq(r.buffer, n + 1, Len(r.buffer)) = Tail(x)
      <4>1. x # <<>>
        BY <1>3, <1>5, <2>1, <2>6
      <4>. QED  BY <1>3, <2>1, <2>6, <4>1, FirstUnit
    <3>. QED  BY <1>2, <2>3, <2>4, <2>6, <3>1
  <2>. QED  BY <2>5, <2>6
<1>6. CASE ~(n <= Len(r.buffer))
  <2>1. n = 1 /\ r.buffer = <<>> /\ ~r.closed /\ x = ch.units
    <3>1. n = 1 /\ r.buffer = <<>>
      BY <1>3, <1>6
    <3>. QED  BY <1>2, <1>6, <3>1 DEF IO!ReadRaises
  <2>. DEFINE t == IO!ToBuffer(reads, ch)
  <2>2. IO!ReadBytes(r, n, ch) = IF t.buffer # <<>> THEN IO!Complete(t, 1)
                                 ELSE IF t.closed THEN IO!MaybeRunCloseCallback(t)
                                 ELSE IO!AddIoState(t, "READ")
    BY <1>6 DEF IO!ReadBytes, reads
  <2>3. CASE x # <<>>
    <3>1. ~ch.eof
      BY <1>2, <2>1, <2>3
    <3>2. /\ t \in IO!Stream /\ t.closed = r.closed /\ t.handler = r.handler
          /\ t.interest = r.interest /\ t.buffer = x
          /\ t.pending = r.pending /\ t.closeCallback = r.closeCallback
          /\ t.writeBuffer = r.writeBuffer /\ t.tasks = r.tasks
      <4>1. t = [reads EXCEPT !.buffer = x]
        BY <1>4, <2>1, <3>1 DEF IO!ToBuffer
      <4>. HIDE DEF x, t
      <4>. QED  BY <1>3, <1>4, <4>1 DEF IO!Stream
    <3>. HIDE DEF t
    <3>. DEFINE v == IO!Complete(t, 1)
    <3>3. 1 \in 0..Len(t.buffer)
      BY <1>3, <2>3, <3>2, FirstUnit
    <3>4. /\ Took(r, v, SubSeq(t.buffer, 1, 1), SubSeq(t.buffer, 1 + 1, Len(t.buffer)))
          /\ v.pending # 0
      BY <3>2, <3>3, CompleteTakes
    <3>5. q = v
      BY <2>2, <2>3, <3>2, <3>4 DEF IO!MaybeAddErrorListener
    <3>6. SubSeq(x, 1, 1) = <<x[1]>> /\ SubSeq(x, 1 + 1, Len(x)) = Tail(x)
      BY <1>3, <2>3, FirstUnit
    <3>. QED  BY <1>2, <2>1, <2>3, <3>2, <3>4, <3>5, <3>6
  <2>4. CASE x = <<>> /\ ch.eof
    <3>1. t = [reads EXCEPT !.closed = TRUE, !.handler = FALSE, !.interest = {}]
      BY <2>4 DEF IO!ToBuffer
    <3>2. /\ t \in IO!Stream /\ t.closed = TRUE /\ t.handler = FALSE
          /\ t.interest = {} /\ t.buffer = r.buffer
          /\ t.pending = r.pending /\ t.closeCallback = r.closeCallback
          /\ t.writeBuffer = r.writeBuffer /\ t.tasks = r.tasks
      BY <1>4, <3>1 DEF IO!Stream
    <3>. HIDE DEF t
    <3>3. t.pending = 0
      BY <2>1, <3>2 DEF Sound, Count
    <3>. DEFINE v == IO!MaybeRunCloseCallback(t)
    <3>4. Shut(t, v)
      BY <2>1, <3>2, <3>3, CloseCallback DEF Sound
    <3>5. Shut(r, v)
      BY <3>2, <3>4 DEF Shut, Alike, Awaits
    <3>6. q = IO!MaybeAddErrorListener(v)
      BY <2>1, <2>2, <3>2
    <3>. HIDE DEF v
    <3>7. Shut(v, q)
      BY <3>5, <3>6, ErrorListener DEF Shut, Alike
    <3>8. Shut(r, q)
      BY <3>5, <3>7, ShutTwice
    <3>. QED  BY <1>2, <2>1, <2>4, <3>8
  <2>5. CASE x = <<>> /\ ~ch.eof
    <3>1. t = [reads EXCEPT !.buffer = r.buffer]
      BY <1>4, <2>1, <2>5 DEF IO!ToBuffer
    <3>. DEFINE events == r.interest \cup {"READ"}
                v == [t EXCEPT !.handler = TRUE, !.interest = events]
    <3>2. /\ t \in IO!Stream /\ t.closed = r.closed /\ t.handler = r.handler
          /\ t.interest = r.interest /\ t.buffer = r.buffer /\ t.reading = TRUE
          /\ t.pending = r.pending /\ t.closeCallback = r.closeCallback
          /\ t.writeBuffer = r.writeBuffer /\ t.tasks = r.tasks
      BY <1>3, <1>4, <3>1 DEF IO!Stream
    <3>. HIDE DEF t
    <3>3. events \in SUBSET {"READ", "WRITE"} /\ "READ" \in events /\ events # {}
      BY <1>3, TaskTypes
    <3>4. IO!AddIoState(t, "READ") = v
      BY <2>1, <3>2 DEF IO!AddIoState
    <3>. HIDE DEF events
    <3>5. /\ v \in IO!Stream /\ v.closed = r.closed /\ v.handler = TRUE
          /\ v.interest = events /\ v.buffer = r.buffer /\ v.reading = TRUE
          /\ v.pending = r.pending /\ v.closeCallback = r.closeCallback
          /\ v.writeBuffer = r.writeBuffer /\ v.tasks = r.tasks
      BY <3>2, <3>3 DEF IO!Stream
    <3>6. IO!ReadBytes(r, n, ch) = v
      BY <2>1, <2>2, <3>2, <3>4
    <3>. HIDE DEF v
    <3>7. q = v
      BY <3>3, <3>5, <3>6 DEF IO!MaybeAddErrorListener
    <3>8. Sound(v)
      BY <2>1, <3>3, <3>5 DEF Sound
    <3>9. Waits(r, v)
      BY <2>1, <3>5, <3>8 DEF Waits, Alike
    <3>. QED  BY <1>2, <2>1, <2>5, <3>7, <3>9
  <2>. QED  BY <1>2, <2>3, <2>4, <2>5
<1>. QED  BY <1>5, <1>6

\* q is st with the units us added to its buffer.
Grew(st, q, us) ==
  /\ Sound(q) /\ q.buffer = st.buffer \o us /\ ~q.reading /\ q.writeBuffer = st.writeBuffer
  /\ q.closed = st.closed /\ q.tasks = st.tasks /\ q.closeCallback = st.closeCallback

\* A READ event.
LEMMA HandleReadOutcome ==
  ASSUME inbox \in Seq(Unit), Sound(s), ~s.closed, s.handler,
         NEW ch \in IO!Received(inbox, Disconnected)
  PROVE  LET q == IO!Relisten(IO!HandleRead(s, ch)) IN
         /\ ch.units \o Rest(inbox, ch) = inbox
         /\ ch.units \in Seq(Unit) /\ Rest(inbox, ch) \in Seq(Unit)
         /\ \/ Shut(s, q) /\ Disconnected /\ inbox = <<>> /\ ch.units = <<>>
            \/ /\ s.reading /\ ch.units # <<>>
               /\ Took(s, q, <<ch.units[1]>>, Tail(ch.units))
            \/ ~s.reading /\ Grew(s, q, ch.units)
<1>. DEFINE us == ch.units
            r == IO!ToBuffer(s, ch)
            h == IO!HandleRead(s, ch)
            q == IO!Relisten(h)
<1>1. Disconnected \in BOOLEAN
  BY DEF Disconnected
<1>2. /\ us \in Seq(Unit) /\ Rest(inbox, ch) \in Seq(Unit) /\ ch.eof \in BOOLEAN
      /\ us \o Rest(inbox, ch) = inbox
      /\ ch.eof => Disconnected /\ us = <<>> /\ inbox = <<>>
      /\ us = <<>> <=> ch.eof
  BY <1>1, ChunkIsFront
<1>3. s \in IO!Stream /\ s.buffer \in Seq(Unit)
  BY TaskTypes DEF Sound
<1>4. h = IF r.reading /\ r.buffer # <<>> THEN IO!Complete(r, 1)
          ELSE IO!MaybeRunCloseCallback(r)
  BY DEF IO!HandleRead
<1>5. CASE ch.eof
  <2>1. r = [s EXCEPT !.closed = TRUE, !.handler = FALSE, !.interest = {}]
    BY <1>5 DEF IO!ToBuffer
  <2>2. /\ r.reading = s.reading /\ r.buffer = s.buffer
    BY <1>3, <2>1 DEF IO!Stream
  <2>3. ~(r.reading /\ r.buffer # <<>>)
    BY <2>2 DEF Sound
  <2>4. h = IO!Close(s)
    BY <1>4, <2>1, <2>3 DEF IO!Close
  <2>5. Shut(s, h)
    BY <2>4, CloseShuts
  <2>. HIDE DEF h
  <2>6. q = h
    BY <2>5 DEF Shut, IO!Relisten
  <2>. QED  BY <1>2, <1>5, <2>5, <2>6 DEF h
<1>6. CASE ~ch.eof
  <2>. DEFINE x == s.buffer \o us
  <2>1. r = [s EXCEPT !.buffer = x] /\ x \in Seq(Unit)
    BY <1>2, <1>3, <1>6 DEF IO!ToBuffer
  <2>. HIDE DEF x
  <2>2. /\ r \in IO!Stream /\ r.closed = s.closed /\ r.handler = s.handler
        /\ r.interest = s.interest /\ r.buffer = x /\ r.reading = s.reading
        /\ r.pending = s.pending /\ r.closeCallback = s.closeCallback
        /\ r.writeBuffer = s.writeBuffer /\ r.tasks = s.tasks
    BY <1>3, <2>1 DEF IO!Stream
  <2>. HIDE DEF r
  <2>3. us # <<>>
    BY <1>2, <1>6
  <2>4. CASE s.reading
    <3>1. x = us
      <4>1. s.buffer = <<>>
        BY <2>4 DEF Sound
      <4>. QED  BY <1>2, <4>1 DEF x
    <3>2. h = IO!Complete(r, 1) /\ 1 \in 0..Len(r.buffer)
      BY <1>2, <1>4, <2>2, <2>3, <2>4, <3>1
    <3>3. Took(s, h, SubSeq(r.buffer, 1, 1), SubSeq(r.buffer, 1 + 1, Len(r.buffer)))
      BY <2>2, <2>4, <3>2, CompleteTakes DEF Sound
    <3>4. SubSeq(us, 1, 1) = <<us[1]>> /\ SubSeq(us, 1 + 1, Len(us)) = Tail(us)
      BY <1>2, <2>3, FirstUnit
    <3>5. Took(s, h, <<us[1]>>, Tail(us))
      BY <2>2, <3>1, <3>3, <3>4
    <3>6. h.handler
      BY <2>2, <3>2 DEF IO!Complete, IO!Schedule, IO!Stream
    <3>. HIDE DEF h, us
    <3>7. Listens(h, q)
      BY <3>5, <3>6, RelistenListens DEF Took
    <3>8. Took(s, q, <<us[1]>>, Tail(us))
      BY <3>5, <3>7 DEF Took, Listens, Alike
    <3>. QED  BY <1>2, <2>3, <2>4, <3>8 DEF us, h
  <2>5. CASE ~s.reading
    <3>1. h = r
      BY <1>4, <2>2, <2>5 DEF IO!MaybeRunCloseCallback
    <3>2. Sound(r)
      BY <2>2, <2>5 DEF Sound
    <3>. HIDE DEF h, us
    <3>3. Listens(r, q)
      BY <2>2, <3>1, <3>2, RelistenListens
    <3>4. Grew(s, q, us)
      BY <2>2, <2>5, <3>3 DEF Grew, Listens, Alike, x
    <3>. QED  BY <1>2, <2>5, <3>4 DEF us, h
  <2>. QED  BY <2>4, <2>5
<1>. QED  BY <1>2, <1>5, <1>6

-----------------------------------------------------------------------------
(* What is on its way, read as frames                                      *)

\* The protocol object between two units: the part it waits for, the frame it is in, its
\* fragments, the messages told, and whether it has not aborted.
Message == Seq(1..MaxFrame)
Parser ==
  [part : {"start", "key", "data"}, op : Header, fragments : {NoDraft} \cup Message,
   told : Seq(Message), live : BOOLEAN]

IsControl(p) == p.op.op \in Control
GoesOn(p) == p.op.op = "continuation"
Misplaced(p) == ~IsControl(p) /\ (GoesOn(p) <=> p.fragments = NoDraft)
WellFormed(p) == ~Misplaced(p) /\ (IsControl(p) => p.op.fin)
Whole(p, payload) == IF GoesOn(p) THEN p.fragments \o payload ELSE payload

\* After the last unit of a frame, and after any unit.
FrameRead(p, payload) ==
  [part |-> "start", op |-> p.op,
   fragments |-> IF IsControl(p) \/ Misplaced(p) THEN p.fragments
                 ELSE IF p.op.fin THEN NoDraft ELSE Whole(p, payload),
   told |-> IF p.live /\ WellFormed(p) /\ ~IsControl(p) /\ p.op.fin
              THEN Append(p.told, Whole(p, payload)) ELSE p.told,
   live |-> p.live /\ WellFormed(p) /\ p.op.op \notin {"close", "junk"}]

UnitRead(p, u) ==
  IF u.part = "start"
    THEN [part |-> "key", op |-> u.header, fragments |-> p.fragments, told |-> p.told,
          live |-> p.live /\ u.header.op # "reserved"]
  ELSE IF u.part = "key" /\ p.op.size = 1
    THEN [part |-> "data", op |-> p.op, fragments |-> p.fragments, told |-> p.told,
          live |-> p.live]
  ELSE FrameRead(p, IF u.part = "key" THEN <<>> ELSE <<u.id>>)

\* The protocol object now; a frame without payload needs no more units.
EmptyFrame == part = "data" /\ opcode.size = 0
Current ==
  [part |-> part, op |-> opcode, fragments |-> fragments, told |-> told, live |-> TRUE]
Now == IF EmptyFrame THEN FrameRead(Current, <<>>) ELSE Current

SameShape(p, q) == p.part = q.part /\ p.op = q.op /\ p.fragments = q.fragments

\* What the client e knows of it.  What p told are messages of the client, and it aborts
\* only behind the last of them.
Client == [peer |-> peer, sent |-> sent, draft |-> draft, tcp |-> tcp]
Truthful(p, e) == IsPrefix(p.told, e.sent) /\ (~p.live => e.peer = "left" /\ p.told = e.sent)

\* The units us, read from p on, are frames; those of a client that stays open end where
\* the client is.  Once this end has terminated nothing is told.
Chain(run, us) ==
  /\ run \in [0..Len(us) -> Parser]
  /\ \A k \in 1..Len(us) : us[k].part = run[k - 1].part /\ run[k] = UnitRead(run[k - 1], us[k])
RunOf(run, us, p, e, terminated) ==
  /\ Chain(run, us) /\ SameShape(run[0], p)
  /\ ~terminated => /\ run[0] = p
                    /\ \A k \in 0..Len(us) : Truthful(run[k], e)
                    /\ e.tcp # "reset" => run[Len(us)].told = e.sent
  /\ e.peer = "open" => run[Len(us)].part = "start" /\ run[Len(us)].fragments = e.draft
Readable(us, p, e, terminated) == \E run : RunOf(run, us, p, e, terminated)

-----------------------------------------------------------------------------
(* The inductive invariant                                                 *)

Ahead == Waiting(s.tasks) \o (s.buffer \o inbox)
Active == Has(s.tasks, "data") \/ s.reading
Settled(st) == IF st.closed THEN st.closeCallback => Has(st.tasks, "data")
               ELSE Has(st.tasks, "data") \/ st.reading

\* The client has gone, in a way that the server can tell.
Lost == peer # "open" /\ (peer = "left" \/ tcp # "up")

\* How far the connection has come, what the close callback is doing, and why a stream
\* can be closed.
LifeCycle ==
  /\ stage \in {"none", "request"} => s = IO!Fresh
  /\ stage = "none" <=> peer = "absent"
  /\ stage \in {"none", "request", "refused"} => since = -1
  /\ stage = "refused" => s.closed /\ ~Awaits(s)
  /\ stage = "open" => Awaits(s) /\ Settled(s)
  /\ stage = "over" => s.closed /\ ~Awaits(s) /\ (clientTerminated \/ since = -1)
  /\ since = -1 => /\ told = <<>> /\ sent = <<>> /\ draft = NoDraft /\ fragments = NoDraft
                   /\ s.buffer = <<>> /\ part = "start" /\ ~Active
                   /\ stage \in {"open", "over"} => s.closed
                   /\ stage \in {"none", "request"} => inbox = <<>>
  /\ s.closed => peer # "open" /\ (since # -1 => Lost)
  /\ tcp # "up" => peer \notin {"open", "absent"}
  /\ clientTerminated => s.closed
  /\ Has(s.tasks, "close") => tcp = "reset"
  /\ post # "idle" => pushes > 0

\* Who reads on, reads frames; who does not, has told everything, unless the connection
\* was broken.
Parsing ==
  /\ IsPrefix(told, sent)
  /\ Active => Readable(Ahead, Now, Client, clientTerminated)
  /\ Active /\ (clientTerminated \/ Has(s.tasks, "onClose") \/ stage = "over") => broken
  /\ Active /\ s.closed /\ ~broken /\ tcp # "reset" => inbox = <<>>
  /\ Has(s.tasks, "data") => IF EmptyFrame THEN Waiting(s.tasks) = <<>>
                             ELSE Len(Waiting(s.tasks)) = 1
  /\ s.reading => ~EmptyFrame
  /\ Active /\ part # "start" => opcode.op # "reserved"
  /\ ~Active /\ since # -1 /\ ~broken /\ tcp # "reset" => told = sent

\* Behind a close frame there is nothing, and the stream is closed.
EndsWithClose(frames_, closed) ==
  \A i \in 1..Len(frames_) : frames_[i] = CloseFrame => closed /\ i = Len(frames_)
Closing == EndsWithClose(net \o s.writeBuffer, s.closed)

WsInv == TypeOK /\ Sound(s) /\ LifeCycle /\ Parsing /\ Closing

-----------------------------------------------------------------------------
(* The parser                                                              *)

\* No message looks like "no message begun".
LEMMA NoDraftIsNoMessage == NoDraft \notin Message
<1>. SUFFICES ASSUME NoDraft \in Message  PROVE FALSE
  OBVIOUS
<1>1. Len(NoDraft) = 1 /\ NoDraft[1] = 0
  BY DEF NoDraft
<1>2. NoDraft[1] \in 1..MaxFrame
  <2>1. NoDraft \in Seq(1..MaxFrame) /\ 1 \in 1..Len(NoDraft)
    BY <1>1 DEF Message
  <2>. QED  BY <2>1, ElementOfSeq
<1>. QED  BY <1>1, <1>2

\* A parser that has read a frame is a parser.
LEMMA FrameReadType ==
  ASSUME NEW p \in Parser, NEW payload \in Message
  PROVE  FrameRead(p, payload) \in Parser
<1>1. /\ p.op \in Header /\ p.fragments \in {NoDraft} \cup Message /\ p.told \in Seq(Message)
      /\ p.live \in BOOLEAN
  BY DEF Parser
<1>. DEFINE w == Whole(p, payload)
<1>2. ~Misplaced(p) /\ ~IsControl(p) => w \in Message
  <2>1. CASE GoesOn(p) /\ ~Misplaced(p) /\ ~IsControl(p)
    <3>1. p.fragments \in Message
      BY <1>1, <2>1 DEF Misplaced
    <3>2. p.fragments \o payload \in Message
      BY <3>1 DEF Message
    <3>. QED  BY <2>1, <3>2 DEF Whole
  <2>. QED  BY <2>1 DEF Whole
<1>. HIDE DEF w
<1>. DEFINE fs == IF IsControl(p) \/ Misplaced(p) THEN p.fragments
                  ELSE IF p.op.fin THEN NoDraft ELSE w
            ts == IF p.live /\ WellFormed(p) /\ ~IsControl(p) /\ p.op.fin
                    THEN Append(p.told, w) ELSE p.told
            l == p.live /\ WellFormed(p) /\ p.op.op \notin {"close", "junk"}
<1>3. fs \in {NoDraft} \cup Message
  BY <1>1, <1>2
<1>4. ts \in Seq(Message)
  <2>1. CASE p.live /\ WellFormed(p) /\ ~IsControl(p) /\ p.op.fin
    <3>1. w \in Message
      BY <1>2, <2>1 DEF WellFormed
    <3>. HIDE DEF Message
    <3>2. Append(p.told, w) \in Seq(Message)
      BY <1>1, <3>1
    <3>. QED  BY <2>1, <3>2
  <2>2. CASE ~(p.live /\ WellFormed(p) /\ ~IsControl(p) /\ p.op.fin)
    BY <1>1, <2>2
  <2>. QED  BY <2>1, <2>2
<1>5. l \in BOOLEAN
  OBVIOUS
<1>6. FrameRead(p, payload) = [part |-> "start", op |-> p.op, fragments |-> fs, told |-> ts,
                               live |-> l]
  BY DEF FrameRead, w
<1>. HIDE DEF fs, ts, l
<1>. QED  BY <1>1, <1>3, <1>4, <1>5, <1>6 DEF Parser

\* A parser that has read the unit it expects is a parser.
LEMMA UnitReadType ==
  ASSUME NEW p \in Parser, NEW u \in Unit, u.part = p.part
  PROVE  UnitRead(p, u) \in Parser
<1>1. CASE u.part = "start"
  <2>1. u.header \in Header
    BY <1>1 DEF Unit
  <2>. QED  BY <1>1, <2>1 DEF UnitRead, Parser
<1>2. CASE u.part = "key" /\ p.op.size = 1
  BY <1>2 DEF UnitRead, Parser
<1>3. CASE u.part # "start" /\ ~(u.part = "key" /\ p.op.size = 1)
  <2>1. (IF u.part = "key" THEN <<>> ELSE <<u.id>>) \in Message
    <3>1. u.part # "key" => u.id \in 1..MaxFrame
      BY <1>3 DEF Unit
    <3>. DEFINE ids == 1..MaxFrame
    <3>2. <<>> \in Seq(ids) /\ (u.id \in ids => <<u.id>> \in Seq(ids))
      OBVIOUS
    <3>. QED  BY <3>1, <3>2 DEF Message
  <2>2. UnitRead(p, u) = FrameRead(p, IF u.part = "key" THEN <<>> ELSE <<u.id>>)
    BY <1>3 DEF UnitRead
  <2>. QED  BY <2>1, <2>2, FrameReadType
<1>. QED  BY <1>1, <1>2, <1>3

\* The fragments do not depend on what was told.
LEMMA FrameKeepsShape ==
  ASSUME NEW p, NEW q, SameShape(p, q), NEW payload
  PROVE  SameShape(FrameRead(p, payload), FrameRead(q, payload))
BY DEF SameShape, FrameRead, IsControl, Misplaced, GoesOn, Whole

\* Parsers that differ in what they were told only expect the same units.
LEMMA UnitKeepsShape ==
  ASSUME NEW p, NEW q, SameShape(p, q), NEW u
  PROVE  SameShape(UnitRead(p, u), UnitRead(q, u))
<1>1. CASE u.part = "start"
  BY <1>1 DEF SameShape, UnitRead
<1>2. CASE u.part = "key" /\ p.op.size = 1
  BY <1>2 DEF SameShape, UnitRead
<1>3. CASE u.part # "start" /\ ~(u.part = "key" /\ p.op.size = 1)
  <2>. DEFINE payload == IF u.part = "key" THEN <<>> ELSE <<u.id>>
  <2>1. UnitRead(p, u) = FrameRead(p, payload) /\ UnitRead(q, u) = FrameRead(q, payload)
    BY <1>3 DEF UnitRead, SameShape
  <2>. HIDE DEF payload
  <2>. QED  BY <2>1, FrameKeepsShape
<1>. QED  BY <1>1, <1>2, <1>3

-----------------------------------------------------------------------------
(* Runs of the parser                                                      *)

\* The first unit is read.
LEMMA RunTail ==
  ASSUME NEW us \in Seq(Unit), us # <<>>, NEW p, NEW e, NEW t \in BOOLEAN, Readable(us, p, e, t)
  PROVE  /\ us[1].part = p.part
         /\ Readable(Tail(us), UnitRead(p, us[1]), e, t)
         /\ ~t => Truthful(UnitRead(p, us[1]), e)
<1>1. PICK run : RunOf(run, us, p, e, t)
  BY DEF Readable
<1>2. /\ run \in [0..Len(us) -> Parser] /\ SameShape(run[0], p)
      /\ \A k \in 1..Len(us) :
           us[k].part = run[k - 1].part /\ run[k] = UnitRead(run[k - 1], us[k])
  BY <1>1 DEF RunOf, Chain
<1>. DEFINE vs == Tail(us)
            next == [k \in 0..Len(vs) |-> run[k + 1]]
<1>3. /\ Len(vs) = Len(us) - 1 /\ Len(us) \in Nat /\ Len(us) >= 1 /\ 1 - 1 = 0
      /\ \A k \in 1..Len(vs) : vs[k] = us[k + 1]
  OBVIOUS
<1>4. us[1].part = p.part /\ run[1] = UnitRead(run[0], us[1])
  BY <1>2, <1>3 DEF SameShape
<1>. HIDE DEF vs
<1>5. /\ \A k \in 0..Len(vs) : next[k] = run[k + 1] /\ k + 1 \in 0..Len(us)
      /\ next[0] = run[1] /\ next[Len(vs)] = run[Len(us)]
  BY <1>3
<1>6. Chain(next, vs)
  <2>1. next \in [0..Len(vs) -> Parser]
    BY <1>2, <1>5
  <2>2. ASSUME NEW k \in 1..Len(vs)
        PROVE  vs[k].part = next[k - 1].part /\ next[k] = UnitRead(next[k - 1], vs[k])
    <3>1. /\ k + 1 \in 1..Len(us) /\ (k + 1) - 1 = k /\ next[k] = run[k + 1]
          /\ next[k - 1] = run[k] /\ vs[k] = us[k + 1]
      BY <1>3
    <3>. QED  BY <1>2, <3>1
  <2>. QED  BY <2>1, <2>2 DEF Chain
<1>. HIDE DEF next
<1>7. SameShape(next[0], UnitRead(p, us[1]))
  BY <1>2, <1>4, <1>5, UnitKeepsShape
<1>8. ASSUME ~t
      PROVE  /\ next[0] = UnitRead(p, us[1])
             /\ \A k \in 0..Len(vs) : Truthful(next[k], e)
             /\ e.tcp # "reset" => next[Len(vs)].told = e.sent
  BY <1>1, <1>4, <1>5, <1>8 DEF RunOf
<1>9. RunOf(next, vs, UnitRead(p, us[1]), e, t)
  BY <1>1, <1>5, <1>6, <1>7, <1>8 DEF RunOf
<1>10. ~t => Truthful(UnitRead(p, us[1]), e)
  BY <1>3, <1>8
<1>. QED  BY <1>4, <1>9, <1>10 DEF Readable, vs

\* What is known where it starts.
LEMMA RunHead ==
  ASSUME NEW us \in Seq(Unit), NEW p, NEW e, Readable(us, p, e, FALSE)
  PROVE  Truthful(p, e) /\ (us = <<>> /\ e.tcp # "reset" => p.told = e.sent)
<1>1. PICK run : RunOf(run, us, p, e, FALSE)
  BY DEF Readable
<1>2. 0 \in 0..Len(us) /\ (us = <<>> => Len(us) = 0)
  OBVIOUS
<1>. QED  BY <1>1, <1>2 DEF RunOf

\* Only the frames matter to an end that has terminated.
LEMMA RunShape ==
  ASSUME NEW us, NEW p, NEW q, NEW e, NEW t, Readable(us, p, e, t), SameShape(p, q)
  PROVE  Readable(us, q, e, TRUE)
BY DEF Readable, RunOf, SameShape

\* A reset takes the units behind.
LEMMA RunCut ==
  ASSUME NEW us \in Seq(Unit), NEW vs \in Seq(Unit), NEW p, NEW e, NEW t \in BOOLEAN,
         Readable(us \o vs, p, e, t),
         NEW f, f.sent = e.sent, f.peer = e.peer, f.peer # "open", f.tcp = "reset"
  PROVE  Readable(us, p, f, t)
<1>. DEFINE ws == us \o vs
<1>1. PICK run : RunOf(run, ws, p, e, t)
  BY DEF Readable
<1>. DEFINE cut == [k \in 0..Len(us) |-> run[k]]
<1>2. /\ Len(us) \in Nat /\ Len(ws) \in Nat /\ Len(us) <= Len(ws)
      /\ \A k \in 1..Len(us) : ws[k] = us[k]
  OBVIOUS
<1>. HIDE DEF ws
<1>3. /\ \A k \in 0..Len(us) : cut[k] = run[k] /\ k \in 0..Len(ws)
      /\ \A k \in 1..Len(us) : k - 1 \in 0..Len(us) /\ k \in 1..Len(ws) /\ k \in 0..Len(us)
      /\ 0 \in 0..Len(us)
  BY <1>2
<1>4. Chain(cut, us)
  <2>1. cut \in [0..Len(us) -> Parser]
    BY <1>1, <1>3 DEF RunOf, Chain
  <2>. HIDE DEF cut
  <2>. QED  BY <1>1, <1>2, <1>3, <2>1 DEF RunOf, Chain
<1>. HIDE DEF cut
<1>5. ~t => \A k \in 0..Len(us) : Truthful(cut[k], f)
  BY <1>1, <1>3 DEF RunOf, Truthful
<1>6. RunOf(cut, us, p, f, t)
  BY <1>1, <1>3, <1>4, <1>5 DEF RunOf
<1>. QED  BY <1>6 DEF Readable

-----------------------------------------------------------------------------
(* A frame is sent                                                         *)

\* One message more at the end does not spoil a prefix.
LEMMA PrefixOfLonger ==
  ASSUME NEW a \in Seq(Message), NEW b \in Seq(Message), NEW m \in Message, IsPrefix(a, b)
  PROVE  IsPrefix(a, Append(b, m))
<1>1. Len(a) \in Nat /\ Len(b) \in Nat /\ Len(a) <= Len(b) /\ Len(Append(b, m)) = Len(b) + 1
  BY DEF IsPrefix
<1>2. SubSeq(Append(b, m), 1, Len(a)) = SubSeq(b, 1, Len(a))
  <2>. DEFINE x == SubSeq(Append(b, m), 1, Len(a))
              y == SubSeq(b, 1, Len(a))
  <2>0. Append(b, m) \in Seq(Message)
    OBVIOUS
  <2>1. x \in Seq(Message) /\ Len(x) = Len(a) /\ \A i \in 1..Len(a) : x[i] = Append(b, m)[i]
    <3>. DEFINE c == Append(b, m)
    <3>. HIDE DEF c
    <3>. QED  BY <1>1, <2>0 DEF c
  <2>2. y \in Seq(Message) /\ Len(y) = Len(a) /\ \A i \in 1..Len(a) : y[i] = b[i]
    BY <1>1
  <2>3. \A i \in 1..Len(a) : Append(b, m)[i] = b[i]
    BY <1>1
  <2>. HIDE DEF x, y
  <2>. QED  BY <2>1, <2>2, <2>3, SeqEqual DEF x, y
<1>. QED  BY <1>1, <1>2 DEF IsPrefix

\* The longest and the shortest prefix.
LEMMA PrefixOfItself ==
  ASSUME NEW a \in Seq(Message)  PROVE IsPrefix(a, a) /\ IsPrefix(<<>>, a)
<1>1. SubSeq(<<>>, 1, 0) = <<>> /\ SubSeq(a, 1, 0) = <<>> /\ Len(<<>>) = 0
  OBVIOUS
<1>2. Len(a) \in Nat
  OBVIOUS
<1>. QED  BY <1>1, <1>2 DEF IsPrefix

\* A run from p over us ends with q.
Reaches(us, p, q, e) ==
  \E run : /\ Chain(run, us) /\ run[0] = p /\ run[Len(us)] = q
           /\ \A k \in 0..Len(us) : Truthful(run[k], e)

\* A run goes on with one more unit.
LEMMA OneMoreUnit ==
  ASSUME NEW us \in Seq(Unit), NEW u \in Unit, NEW p, NEW q, NEW e, Reaches(us, p, q, e),
         u.part = q.part, Truthful(UnitRead(q, u), e)
  PROVE  /\ Reaches(Append(us, u), p, UnitRead(q, u), e)
         /\ UnitRead(q, u) \in Parser
<1>1. PICK run : /\ Chain(run, us) /\ run[0] = p /\ run[Len(us)] = q
                 /\ \A k \in 0..Len(us) : Truthful(run[k], e)
  BY DEF Reaches
<1>. DEFINE vs == Append(us, u)
            last == UnitRead(q, u)
            next == [k \in 0..Len(vs) |-> IF k \in 0..Len(us) THEN run[k] ELSE last]
<1>2. /\ Len(us) \in Nat /\ Len(vs) = Len(us) + 1 /\ vs[Len(vs)] = u
      /\ \A k \in 1..Len(us) : vs[k] = us[k]
  OBVIOUS
<1>. HIDE DEF vs
<1>3. q \in Parser
  BY <1>1, <1>2 DEF Chain
<1>4. last \in Parser
  BY <1>3, UnitReadType
<1>. HIDE DEF last
<1>5. /\ \A k \in 0..Len(us) : next[k] = run[k]
      /\ next[Len(vs)] = last /\ next \in [0..Len(vs) -> Parser]
  <2>1. \A k \in 0..Len(vs) : (IF k \in 0..Len(us) THEN run[k] ELSE last) \in Parser
    BY <1>1, <1>4 DEF Chain
  <2>2. \A k \in 0..Len(us) : k \in 0..Len(vs)
    BY <1>2
  <2>3. Len(vs) \in 0..Len(vs) /\ Len(vs) \notin 0..Len(us)
    BY <1>2
  <2>. QED  BY <2>1, <2>2, <2>3
<1>. HIDE DEF next
<1>6. ASSUME NEW k \in 1..Len(vs)
      PROVE  vs[k].part = next[k - 1].part /\ next[k] = UnitRead(next[k - 1], vs[k])
  <2>1. CASE k \in 1..Len(us)
    <3>1. k - 1 \in 0..Len(us) /\ k \in 0..Len(us)
      BY <1>2, <2>1
    <3>. QED  BY <1>1, <1>2, <1>5, <2>1, <3>1 DEF Chain
  <2>2. CASE k = Len(vs)
    <3>1. k - 1 = Len(us) /\ Len(us) \in 0..Len(us)
      BY <1>2, <2>2
    <3>. QED  BY <1>1, <1>2, <1>5, <2>2, <3>1 DEF last
  <2>. QED  BY <1>2, <2>1, <2>2
<1>7. Chain(next, vs)
  BY <1>5, <1>6 DEF Chain
<1>8. next[0] = p
  BY <1>1, <1>2, <1>5
<1>9. \A k \in 0..Len(vs) : Truthful(next[k], e)
  <2>1. \A k \in 0..Len(vs) : k \in 0..Len(us) \/ k = Len(vs)
    BY <1>2
  <2>. QED  BY <1>1, <1>5, <2>1 DEF last
<1>. QED  BY <1>4, <1>5, <1>7, <1>8, <1>9 DEF Reaches, vs, last

\* A run that ends with all that was sent makes its units readable.
LEMMA ReachesReadable ==
  ASSUME NEW us \in Seq(Unit), NEW p, NEW q, NEW e, Reaches(us, p, q, e), q.told = e.sent,
         e.peer = "open" => q.part = "start" /\ q.fragments = e.draft
  PROVE  Readable(us, p, e, FALSE)
<1>1. PICK run : /\ Chain(run, us) /\ run[0] = p /\ run[Len(us)] = q
                 /\ \A k \in 0..Len(us) : Truthful(run[k], e)
  BY DEF Reaches
<1>2. SameShape(run[0], p)
  BY <1>1 DEF SameShape
<1>3. RunOf(run, us, p, e, FALSE)
  BY <1>1, <1>2 DEF RunOf
<1>. QED  BY <1>3 DEF Readable

\* Short sequences joined.
LEMMA TwoOrThree ==
  ASSUME NEW S, NEW a \in S, NEW b \in S, NEW d \in S
  PROVE  <<a, b>> \o <<d>> = <<a, b, d>> /\ <<a, b>> \o <<>> = <<a, b>>
<1>. DEFINE x == <<a, b>>
            y == <<d>>
            z == <<a, b, d>>
<1>1. x \in Seq(S) /\ Len(x) = 2 /\ x[1] = a /\ x[2] = b
  OBVIOUS
<1>2. y \in Seq(S) /\ Len(y) = 1 /\ y[1] = d
  OBVIOUS
<1>3. z \in Seq(S) /\ Len(z) = 3 /\ z[1] = a /\ z[2] = b /\ z[3] = d
  OBVIOUS
<1>. HIDE DEF x, y, z
<1>4. /\ x \o y \in Seq(S) /\ Len(x \o y) = 3
      /\ (x \o y)[1] = x[1] /\ (x \o y)[2] = x[2] /\ (x \o y)[3] = y[1]
  <2>1. /\ x \o y \in Seq(S) /\ Len(x \o y) = Len(x) + Len(y)
        /\ \A i \in 1..Len(x) + Len(y) : (x \o y)[i] = IF i <= Len(x) THEN x[i] ELSE y[i - Len(x)]
    BY <1>1, <1>2, ConcatProperties
  <2>2. 1 \in 1..Len(x) + Len(y) /\ 2 \in 1..Len(x) + Len(y) /\ 3 \in 1..Len(x) + Len(y)
        /\ 1 <= Len(x) /\ 2 <= Len(x) /\ ~(3 <= Len(x)) /\ 3 - Len(x) = 1 /\ Len(x) + Len(y) = 3
    BY <1>1, <1>2
  <2>. QED  BY <2>1, <2>2
<1>5. x \o y = z
  <2>1. \A i \in 1..3 : (x \o y)[i] = z[i]
    BY <1>1, <1>2, <1>3, <1>4
  <2>2. Len(x \o y) = Len(z) /\ \A i \in 1..Len(x \o y) : (x \o y)[i] = z[i]
    BY <1>3, <1>4, <2>1
  <2>. QED  BY <1>3, <1>4, <2>2, SeqEqual
<1>6. x \o <<>> = x
  BY <1>1, ConcatEmptySeq
<1>. QED  BY <1>5, <1>6 DEF x, y, z

\* What the other end makes of the frame h, if it comes between two frames.
LEMMA FrameMakes ==
  ASSUME TypeOK, NEW h \in Header, NEW payload \in Message,
         NEW z, z.op = h, z.fragments = draft, z.told = sent, z.live = (h.op # "reserved")
  PROVE  LET f == FrameRead(z, payload)
             message == IF draft = NoDraft THEN payload ELSE draft \o payload
         IN  /\ f.part = "start"
             /\ ~Allowed(h) => ~f.live /\ f.told = sent
             /\ Allowed(h) =>
                  /\ f.live
                  /\ h.op = "ping" => f.told = sent /\ f.fragments = draft
                  /\ h.op # "ping" => IF h.fin THEN f.told = Append(sent, message) /\ f.fragments = NoDraft
                                      ELSE f.told = sent /\ f.fragments = message
                  /\ message \in Message
<1>. DEFINE f == FrameRead(z, payload)
            message == IF draft = NoDraft THEN payload ELSE draft \o payload
<1>1. h.op \in Opcode /\ h.fin \in BOOLEAN
  BY DEF Header
<1>2. message \in Message
  <2>1. draft # NoDraft => draft \in Message
    BY DEF TypeOK, Message
  <2>2. draft \in Message => draft \o payload \in Message
    BY DEF Message
  <2>. QED  BY <2>1, <2>2
<1>3. f.part = "start"
  BY DEF FrameRead
<1>4. CASE h.op = "text"
  BY <1>1, <1>2, <1>3, <1>4
     DEF FrameRead, WellFormed, Misplaced, IsControl, GoesOn, Whole, Allowed, Control
<1>5. CASE h.op = "continuation"
  BY <1>1, <1>2, <1>3, <1>5
     DEF FrameRead, WellFormed, Misplaced, IsControl, GoesOn, Whole, Allowed, Control
<1>6. CASE h.op = "ping"
  BY <1>1, <1>2, <1>3, <1>6
     DEF FrameRead, WellFormed, Misplaced, IsControl, GoesOn, Whole, Allowed, Control
<1>7. CASE h.op \in {"close", "junk", "reserved"}
  BY <1>1, <1>2, <1>3, <1>7
     DEF FrameRead, WellFormed, Misplaced, IsControl, GoesOn, Whole, Allowed, Control
<1>. QED  BY <1>1, <1>4, <1>5, <1>6, <1>7 DEF Opcode

\* SendFrame, and the close frame of PeerGoes.
LEMMA FrameSent ==
  ASSUME TypeOK, peer = "open", tcp = "up",
         NEW us \in Seq(Unit), NEW p, Readable(us, p, Client, FALSE),
         NEW h \in Header, h.size = 1 => frames < MaxFrame, NEW e, e.tcp = "up",
         LET payload == IF h.size = 1 THEN <<frames + 1>> ELSE <<>>
             message == IF draft = NoDraft THEN payload ELSE draft \o payload
         IN  IF ~Allowed(h) THEN e.peer = "left" /\ e.sent = sent
             ELSE IF h.op = "ping" THEN e.sent = sent /\ e.draft = draft
             ELSE IF h.fin THEN e.sent = Append(sent, message) /\ e.draft = NoDraft
             ELSE e.sent = sent /\ e.draft = message
  PROVE  UnitsOf(h) \in Seq(Unit) /\ Readable(us \o UnitsOf(h), p, e, FALSE)
<1>. DEFINE payload == IF h.size = 1 THEN <<frames + 1>> ELSE <<>>
            message == IF draft = NoDraft THEN payload ELSE draft \o payload
            a == [part |-> "start", header |-> h]
            b == [part |-> "key"]
            d == [part |-> "data", id |-> frames + 1]
<1>1. PICK run : RunOf(run, us, p, Client, FALSE)
  BY DEF Readable
<1>. DEFINE q == run[Len(us)]
<1>2. /\ q \in Parser /\ q.part = "start" /\ q.fragments = draft /\ q.told = sent /\ q.live
      /\ Len(us) \in 0..Len(us) /\ run[0] = p /\ Chain(run, us)
      /\ \A k \in 0..Len(us) : run[k].live /\ IsPrefix(run[k].told, sent) /\ run[k] \in Parser
  <2>1. Len(us) \in 0..Len(us)
    OBVIOUS
  <2>2. /\ Client.peer = "open" /\ Client.sent = sent /\ Client.draft = draft
        /\ Client.tcp # "reset"
    BY DEF Client
  <2>. QED  BY <1>1, <2>1, <2>2 DEF RunOf, Chain, Truthful
<1>. HIDE DEF q
<1>3. /\ a \in Unit /\ a.part = "start" /\ a.header = h
      /\ b \in Unit /\ b.part = "key"
      /\ d.part = "data" /\ d.id = frames + 1
      /\ h.size = 1 => d \in Unit /\ frames + 1 \in 1..MaxFrame
  BY BoundsAssumption DEF Unit, TypeOK
<1>4. payload \in Message /\ sent \in Seq(Message)
  <2>. DEFINE ids == 1..MaxFrame
  <2>1. h.size = 1 => frames + 1 \in ids
    BY <1>3
  <2>. HIDE DEF ids
  <2>2. <<>> \in Seq(ids) /\ (h.size = 1 => <<frames + 1>> \in Seq(ids))
    BY <2>1
  <2>. QED  BY <2>2 DEF Message, ids, TypeOK
<1>5. IsPrefix(sent, sent) /\ (message \in Message => IsPrefix(sent, Append(sent, message))
                                                      /\ Append(sent, message) \in Seq(Message))
  <2>. HIDE DEF message, Message
  <2>. QED  BY <1>4, PrefixOfItself, PrefixOfLonger
<1>6. UnitsOf(h) = IF h.size = 1 THEN <<a, b, d>> ELSE <<a, b>>
  <2>1. UnitsOf(h) = <<a, b>> \o (IF h.size = 1 THEN <<d>> ELSE <<>>)
    BY DEF UnitsOf
  <2>. DEFINE some == {a, b, d}
  <2>. HIDE DEF a, b, d
  <2>2. a \in some /\ b \in some /\ d \in some
    OBVIOUS
  <2>. HIDE DEF some
  <2>3. <<a, b>> \o <<d>> = <<a, b, d>> /\ <<a, b>> \o <<>> = <<a, b>>
    BY <2>2, TwoOrThree
  <2>. QED  BY <2>1, <2>3
<1>. DEFINE q1 == UnitRead(q, a)
            z2 == [part |-> "data", op |-> h, fragments |-> draft, told |-> sent,
                   live |-> h.op # "reserved"]
            q2 == UnitRead(q1, b)
            q3 == UnitRead(z2, d)
<1>7. q1 = [part |-> "key", op |-> h, fragments |-> draft, told |-> sent,
            live |-> h.op # "reserved"]
  BY <1>2, <1>3 DEF UnitRead
<1>8. h.size \in {0, 1} /\ (h.size = 1 => q2 = z2 /\ q3 = FrameRead(z2, payload))
      /\ (h.size = 0 => q2 = FrameRead(q1, payload))
  BY <1>3, <1>7 DEF UnitRead, Header
<1>. DEFINE good(f) ==
       /\ f.part = "start"
       /\ ~Allowed(h) => ~f.live /\ f.told = sent
       /\ Allowed(h) =>
            /\ f.live
            /\ h.op = "ping" => f.told = sent /\ f.fragments = draft
            /\ h.op # "ping" => IF h.fin THEN f.told = Append(sent, message) /\ f.fragments = NoDraft
                                ELSE f.told = sent /\ f.fragments = message
            /\ message \in Message
<1>9. good(FrameRead(q1, payload)) /\ good(FrameRead(z2, payload))
  <2>1. q1.op = h /\ q1.fragments = draft /\ q1.told = sent /\ q1.live = (h.op # "reserved")
    BY <1>7
  <2>2. z2.op = h /\ z2.fragments = draft /\ z2.told = sent /\ z2.live = (h.op # "reserved")
    OBVIOUS
  <2>. HIDE DEF q1, z2, payload
  <2>. QED  BY <1>4, <2>1, <2>2, FrameMakes
<1>10. /\ IsPrefix(sent, e.sent)
       /\ h.op = "reserved" => e.peer = "left" /\ e.sent = sent
       /\ \A f : good(f) => /\ Truthful(f, e) /\ f.told = e.sent
                            /\ e.peer = "open" => f.part = "start" /\ f.fragments = e.draft
  <2>1. h.op = "reserved" => ~Allowed(h)
    BY DEF Allowed
  <2>2. Allowed(h) => message \in Message
    BY <1>9
  <2>. HIDE DEF message
  <2>3. IsPrefix(e.sent, e.sent) /\ IsPrefix(sent, e.sent)
    <3>1. e.sent = sent \/ (message \in Message /\ e.sent = Append(sent, message))
      BY <2>2 DEF message
    <3>. HIDE DEF Message
    <3>2. e.sent \in Seq(Message)
      BY <1>4, <1>5, <3>1
    <3>. QED  BY <1>5, <3>1, <3>2, PrefixOfItself
  <2>4. IF ~Allowed(h) THEN e.peer = "left" /\ e.sent = sent
        ELSE IF h.op = "ping" THEN e.sent = sent /\ e.draft = draft
        ELSE IF h.fin THEN e.sent = Append(sent, message) /\ e.draft = NoDraft
        ELSE e.sent = sent /\ e.draft = message
    BY DEF message
  <2>5. ASSUME NEW f, good(f)
        PROVE  /\ Truthful(f, e) /\ f.told = e.sent
               /\ e.peer = "open" => f.part = "start" /\ f.fragments = e.draft
    BY <2>3, <2>4, <2>5 DEF Truthful
  <2>. QED  BY <2>1, <2>3, <2>4, <2>5
<1>. HIDE DEF good
<1>11. Reaches(us, p, q, e)
  <2>1. ASSUME NEW k \in 0..Len(us)
        PROVE  Truthful(run[k], e)
    <3>1. run[k].told \in Seq(Message) /\ IsPrefix(run[k].told, sent) /\ run[k].live
      BY <1>2 DEF Parser
    <3>2. IsPrefix(run[k].told, e.sent)
      <4>1. e.sent = sent \/ (message \in Message /\ e.sent = Append(sent, message))
        BY <1>9 DEF good
      <4>. HIDE DEF message, Message
      <4>. QED  BY <1>4, <3>1, <4>1, PrefixOfLonger
    <3>. QED  BY <3>1, <3>2 DEF Truthful
  <2>. QED  BY <1>2, <2>1 DEF Reaches, q
<1>12. Truthful(q1, e) /\ Truthful(z2, e)
  <2>1. q1.told = sent /\ q1.live = (h.op # "reserved")
    BY <1>7
  <2>2. z2.told = sent /\ z2.live = (h.op # "reserved")
    OBVIOUS
  <2>. HIDE DEF q1, z2
  <2>. QED  BY <1>10, <2>1, <2>2 DEF Truthful
<1>. HIDE DEF a, b, d
<1>13. Reaches(Append(us, a), p, q1, e)
  BY <1>2, <1>3, <1>11, <1>12, OneMoreUnit
<1>14. Append(us, a) \in Seq(Unit) /\ Append(Append(us, a), b) \in Seq(Unit)
  BY <1>3
<1>15. q1.part = "key"
  BY <1>7
<1>16. CASE h.size = 0
  <2>1. Truthful(q2, e) /\ q2.told = e.sent
        /\ (e.peer = "open" => q2.part = "start" /\ q2.fragments = e.draft)
    BY <1>8, <1>9, <1>10, <1>16
  <2>. HIDE DEF q1
  <2>2. Reaches(Append(Append(us, a), b), p, q2, e)
    BY <1>3, <1>13, <1>14, <1>15, <2>1, OneMoreUnit
  <2>3. Append(Append(us, a), b) = us \o <<a, b>> /\ UnitsOf(h) = <<a, b>>
    BY <1>3, <1>6, <1>16
  <2>. HIDE DEF q2
  <2>4. Readable(us \o <<a, b>>, p, e, FALSE)
    <3>1. us \o <<a, b>> \in Seq(Unit)
      BY <1>14, <2>3
    <3>2. Reaches(us \o <<a, b>>, p, q2, e)
      BY <2>2, <2>3
    <3>3. q2.told = e.sent /\ (e.peer = "open" => q2.part = "start" /\ q2.fragments = e.draft)
      BY <2>1
    <3>. DEFINE x == us \o <<a, b>>
    <3>4. x \in Seq(Unit) /\ Reaches(x, p, q2, e)
      BY <3>1, <3>2
    <3>. HIDE DEF x
    <3>5. Readable(x, p, e, FALSE)
      BY <3>3, <3>4, ReachesReadable
    <3>. QED  BY <3>5 DEF x
  <2>5. <<a, b>> \in Seq(Unit)
    BY <1>3
  <2>6. UnitsOf(h) = <<a, b>>
    BY <2>3
  <2>. QED  BY <2>4, <2>5, <2>6
<1>17. CASE h.size = 1
  <2>1. q2 = z2
    BY <1>8, <1>17
  <2>2. Truthful(q2, e) /\ q2.part = "data"
    BY <1>12, <2>1
  <2>3. Truthful(q3, e) /\ q3.told = e.sent
        /\ (e.peer = "open" => q3.part = "start" /\ q3.fragments = e.draft)
    BY <1>8, <1>9, <1>10, <1>17
  <2>. HIDE DEF q1
  <2>4. Reaches(Append(Append(us, a), b), p, q2, e)
    BY <1>3, <1>13, <1>14, <1>15, <2>2, OneMoreUnit
  <2>5. q3 = UnitRead(q2, d)
    BY <2>1
  <2>. HIDE DEF q2, z2, q3
  <2>6. Reaches(Append(Append(Append(us, a), b), d), p, q3, e)
    BY <1>3, <1>14, <1>17, <2>2, <2>3, <2>4, <2>5, OneMoreUnit
  <2>7. Append(Append(Append(us, a), b), d) = us \o <<a, b, d>> /\ UnitsOf(h) = <<a, b, d>>
    BY <1>3, <1>6, <1>17
  <2>8. Readable(us \o <<a, b, d>>, p, e, FALSE)
    <3>1. us \o <<a, b, d>> \in Seq(Unit)
      BY <1>3, <1>17
    <3>2. Reaches(us \o <<a, b, d>>, p, q3, e)
      BY <2>6, <2>7
    <3>3. q3.told = e.sent /\ (e.peer = "open" => q3.part = "start" /\ q3.fragments = e.draft)
      BY <2>3
    <3>. DEFINE x == us \o <<a, b, d>>
    <3>4. x \in Seq(Unit) /\ Reaches(x, p, q3, e)
      BY <3>1, <3>2
    <3>. HIDE DEF x
    <3>5. Readable(x, p, e, FALSE)
      BY <3>3, <3>4, ReachesReadable
    <3>. QED  BY <3>5 DEF x
  <2>9. <<a, b, d>> \in Seq(Unit)
    BY <1>3, <1>17
  <2>10. UnitsOf(h) = <<a, b, d>>
    BY <2>7
  <2>. QED  BY <2>8, <2>9, <2>10
<1>. QED  BY <1>8, <1>16, <1>17
-----------------------------------------------------------------------------
(* The steps of the client and of the Announcer                            *)

\* A client that has gone may break off anywhere.
LEMMA RunGone ==
  ASSUME NEW us, NEW p, NEW e, NEW t, Readable(us, p, e, t),
         NEW f, f.sent = e.sent, f.peer # "open", f.peer = e.peer \/ e.peer = "open",
         f.tcp # "reset" => e.tcp # "reset"
  PROVE  Readable(us, p, f, t)
<1>1. PICK run : RunOf(run, us, p, e, t)
  BY DEF Readable
<1>2. ~t => \A k \in 0..Len(us) : Truthful(run[k], f)
  BY <1>1 DEF RunOf, Truthful
<1>3. RunOf(run, us, p, f, t)
  BY <1>1, <1>2 DEF RunOf
<1>. QED  BY <1>3 DEF Readable

\* Without callbacks nothing is waiting.
LEMMA NoTasks == \A kind : ~Has(<<>>, kind) /\ Once(<<>>, kind) /\ Waiting(<<>>) = <<>>
<1>1. \A i \in 1..Len(<<>>) : FALSE
  OBVIOUS
<1>. QED  BY <1>1 DEF Has, Once, Waiting

\* The stream of a connection that has just been accepted.
LEMMA FreshIs ==
  /\ Sound(IO!Fresh) /\ IO!Fresh.tasks = <<>> /\ ~IO!Fresh.closed /\ ~IO!Fresh.reading
  /\ ~IO!Fresh.closeCallback /\ IO!Fresh.buffer = <<>> /\ IO!Fresh.writeBuffer = <<>>
  /\ IO!Fresh.pending = 0 /\ ~IO!Fresh.handler /\ IO!Fresh.interest = {}
<1>. DEFINE r == IO!Fresh
<1>1. /\ r.tasks = <<>> /\ r.closed = FALSE /\ r.reading = FALSE /\ r.closeCallback = FALSE
      /\ r.buffer = <<>> /\ r.writeBuffer = <<>> /\ r.pending = 0 /\ r.handler = FALSE
      /\ r.interest = {}
  BY DEF IO!Fresh
<1>2. r \in IO!Stream
  BY DEF IO!Fresh, IO!Stream
<1>. HIDE DEF r
<1>3. Sound(r)
  <2>1. ~Has(r.tasks, "data") /\ ~Has(r.tasks, "onClose")
        /\ Once(r.tasks, "data") /\ Once(r.tasks, "onClose")
    BY <1>1, NoTasks
  <2>2. r.pending = Count(Has(r.tasks, "data")) + Count(Has(r.tasks, "onClose"))
    BY <1>1, <2>1 DEF Count
  <2>. QED  BY <1>1, <1>2, <2>1, <2>2 DEF Sound
<1>. QED  BY <1>1, <1>3 DEF r

\* The invariant holds at the start.
LEMMA InitWsInv == Init => WsInv
<1>. SUFFICES ASSUME Init  PROVE WsInv
  OBVIOUS
<1>1. s = IO!Fresh /\ Sound(s) /\ s.tasks = <<>> /\ ~s.closed /\ ~s.reading /\ s.buffer = <<>>
      /\ s.writeBuffer = <<>>
  BY FreshIs DEF Init
<1>2. ~Has(s.tasks, "data") /\ ~Has(s.tasks, "onClose") /\ ~Has(s.tasks, "close")
  BY <1>1, NoTasks
<1>3. ~Active
  BY <1>1, <1>2 DEF Active
<1>4. TypeOK
  <2>1. s \in IO!Stream
    BY <1>1 DEF Sound
  <2>2. frames \in 0..MaxFrame /\ pushes \in 0..MaxPush /\ since \in -1..MaxPush
    BY BoundsAssumption DEF Init
  <2>. DEFINE ids == 1..MaxFrame
              ps == 1..MaxPush
  <2>3. NoFrame \in Header
    BY DEF NoFrame, Header, Opcode
  <2>. HIDE DEF ids, ps
  <2>4. sent \in Seq(Seq(ids)) /\ told \in Seq(Seq(ids)) /\ inbox \in Seq(Unit)
        /\ net \in Seq(Out) /\ got \in Seq(ps)
    BY DEF Init
  <2>. QED  BY <2>1, <2>2, <2>3, <2>4 DEF Init, TypeOK, ids, ps
<1>5. LifeCycle
  BY <1>1, <1>2, <1>3 DEF LifeCycle, Init
<1>6. Parsing
  <2>1. IsPrefix(told, sent)
    <3>1. <<>> \in Seq(Message)
      OBVIOUS
    <3>. QED  BY <3>1, PrefixOfItself DEF Init
  <2>. QED  BY <1>1, <1>2, <1>3, <2>1 DEF Parsing, Init
<1>7. Closing
  <2>1. net \o s.writeBuffer = <<>>
    BY <1>1 DEF Init
  <2>. QED  BY <2>1 DEF Closing, EndsWithClose
<1>. QED  BY <1>1, <1>4, <1>5, <1>6, <1>7 DEF WsInv

\* Neither the stream nor what is under way to it is touched.
LEMMA Untouched ==
  ASSUME WsInv, UNCHANGED <<clientVars, stage, s, protocolVars, broken, since>>,
         post' # "idle" => pushes' > 0
  PROVE  Sound(s') /\ LifeCycle' /\ Parsing'
<1>1. Sound(s')
  BY DEF WsInv
<1>2. LifeCycle'
  BY DEF WsInv, LifeCycle, Active, clientVars, protocolVars, Lost
<1>3. /\ Ahead' = Ahead /\ Now' = Now /\ Client' = Client /\ EmptyFrame' = EmptyFrame
      /\ Active' = Active
  BY DEF Ahead, Now, Current, Client, EmptyFrame, Active, clientVars, protocolVars
<1>4. Parsing'
  BY <1>3 DEF WsInv, Parsing, clientVars, protocolVars
<1>. QED  BY <1>1, <1>2, <1>4

\* The invariant is kept when a client connects.
LEMMA ConnectKeeps ==
  ASSUME WsInv, Connect  PROVE WsInv'
<1>1. TypeOK' /\ Sound(s')
  BY DEF WsInv, TypeOK, Connect, protocolVars, postVars
<1>2. stage = "none" /\ since = -1 /\ ~Active
  BY DEF WsInv, LifeCycle, Connect
<1>3. ~s.closed
  BY <1>2, FreshIs DEF WsInv, LifeCycle
<1>4. ~Has(s.tasks, "data") /\ ~Has(s.tasks, "onClose") /\ ~s.reading
  BY <1>2, FreshIs, NoTasks DEF WsInv, LifeCycle
<1>5. LifeCycle'
  BY <1>2, <1>3, <1>4 DEF WsInv, LifeCycle, Connect, Active, protocolVars, postVars
<1>6. Parsing'
  BY <1>2, <1>4 DEF WsInv, Parsing, Connect, Active, protocolVars, postVars
<1>7. Closing'
  BY DEF WsInv, Closing, Connect
<1>. QED  BY <1>1, <1>5, <1>6, <1>7 DEF WsInv

\* The message a client is sending is one.
LEMMA PayloadType ==
  ASSUME TypeOK, NEW h, h.size = 1 => frames < MaxFrame
  PROVE  LET payload == IF h.size = 1 THEN <<frames + 1>> ELSE <<>> IN
         payload \in Message /\ (IF draft = NoDraft THEN payload ELSE draft \o payload) \in Message
<1>. DEFINE ids == 1..MaxFrame
            payload == IF h.size = 1 THEN <<frames + 1>> ELSE <<>>
<1>1. h.size = 1 => frames + 1 \in ids
  BY BoundsAssumption DEF TypeOK
<1>2. draft = NoDraft \/ draft \in Seq(ids)
  BY DEF TypeOK
<1>. HIDE DEF ids
<1>3. payload \in Seq(ids)
  BY <1>1
<1>. HIDE DEF payload
<1>4. (IF draft = NoDraft THEN payload ELSE draft \o payload) \in Seq(ids)
  BY <1>2, <1>3
<1>. QED  BY <1>3, <1>4 DEF Message, ids, payload

\* What is ahead of the protocol object is a sequence of units.
LEMMA AheadType ==
  ASSUME WsInv
  PROVE  /\ Waiting(s.tasks) \in Seq(Unit) /\ s.buffer \in Seq(Unit) /\ inbox \in Seq(Unit)
         /\ s.writeBuffer \in Seq(Out) /\ net \in Seq(Out) /\ Ahead \in Seq(Unit)
<1>1. /\ s.tasks \in Seq(IO!Task) /\ s.buffer \in Seq(Unit) /\ inbox \in Seq(Unit)
      /\ s.writeBuffer \in Seq(Out) /\ net \in Seq(Out) /\ Once(s.tasks, "data")
  BY TaskTypes DEF WsInv, TypeOK, Sound
<1>2. Waiting(s.tasks) \in Seq(Unit)
  <2>1. CASE Has(s.tasks, "data")
    <3>1. PICK i \in 1..Len(s.tasks) : s.tasks[i].kind = "data"
      BY <2>1 DEF Has
    <3>2. s.tasks[i] \in IO!Task
      BY <1>1, <3>1, ElementOfSeq
    <3>3. Waiting(s.tasks) = s.tasks[i].data
      BY <1>1, <3>1, WaitingIs
    <3>. QED  BY <3>2, <3>3 DEF IO!Task
  <2>2. CASE ~Has(s.tasks, "data")
    BY <2>2 DEF Waiting
  <2>. QED  BY <2>1, <2>2
<1>. HIDE DEF Waiting
<1>3. Ahead \in Seq(Unit)
  <2>. DEFINE w == Waiting(s.tasks)
  <2>1. w \in Seq(Unit)
    BY <1>2
  <2>. HIDE DEF w
  <2>2. w \o (s.buffer \o inbox) \in Seq(Unit)
    BY <1>1, <2>1
  <2>. QED  BY <2>2 DEF Ahead, w
<1>. QED  BY <1>1, <1>2, <1>3

\* Where the client is a browser that can still write, its units are read.
LEMMA OpenIsRead ==
  ASSUME WsInv, peer = "open", stage = "open"
  PROVE  /\ Active /\ ~s.closed /\ since # -1 /\ tcp = "up" /\ ~clientTerminated
         /\ Readable(Ahead, Now, Client, FALSE) /\ Ahead \in Seq(Unit)
         /\ Waiting(s.tasks) \in Seq(Unit) /\ s.buffer \in Seq(Unit) /\ inbox \in Seq(Unit)
<1>1. ~s.closed /\ tcp = "up"
  BY DEF WsInv, LifeCycle, TypeOK
<1>2. ~clientTerminated /\ since # -1
  BY <1>1 DEF WsInv, LifeCycle
<1>3. Active
  BY <1>1 DEF WsInv, LifeCycle, Settled, Active
<1>4. clientTerminated = FALSE
  BY <1>2 DEF WsInv, TypeOK
<1>5. Readable(Ahead, Now, Client, FALSE)
  BY <1>3, <1>4 DEF WsInv, Parsing
<1>. QED  BY <1>1, <1>2, <1>3, <1>5, AheadType
\* What is sent joins the end of what is under way.
LEMMA AheadGrows ==
  ASSUME WsInv, NEW us \in Seq(Unit), s' = s, inbox' = inbox \o us  PROVE Ahead' = Ahead \o us
<1>. DEFINE w == Waiting(s.tasks)
            b == s.buffer
            i == inbox
<1>1. w \in Seq(Unit) /\ b \in Seq(Unit) /\ i \in Seq(Unit)
  BY AheadType
<1>2. Ahead = w \o (b \o i) /\ Ahead' = w \o (b \o (i \o us))
  BY DEF Ahead
<1>. HIDE DEF w, b, i
<1>3. w \o (b \o (i \o us)) = (w \o (b \o i)) \o us
  BY <1>1, SMTT(40)
<1>. QED  BY <1>2, <1>3

\* The invariant is kept when the client sends a frame, allowed or not.
LEMMA SendFrameKeeps ==
  ASSUME WsInv, SendFrame  PROVE WsInv'
<1>1. PICK h \in Header :
       LET payload == IF h.size = 1 THEN <<frames + 1>> ELSE <<>>
           message == IF draft = NoDraft THEN payload ELSE draft \o payload
       IN  /\ h.op # "close"
           /\ inbox' = inbox \o UnitsOf(h)
           /\ frames' = frames + 1
           /\ IF ~Allowed(h)
                THEN peer' = "left" /\ UNCHANGED <<draft, sent>>
                ELSE /\ UNCHANGED peer
                     /\ IF h.op = "ping" THEN UNCHANGED <<draft, sent>>
                        ELSE IF h.fin THEN sent' = Append(sent, message) /\ draft' = NoDraft
                        ELSE draft' = message /\ UNCHANGED sent
  BY DEF SendFrame
<1>2. /\ peer = "open" /\ stage = "open" /\ frames < MaxFrame /\ TypeOK
      /\ UNCHANGED <<tcp, stage, s, protocolVars, broken, postVars, net, got>>
  BY DEF SendFrame, WsInv
<1>. DEFINE payload == IF h.size = 1 THEN <<frames + 1>> ELSE <<>>
            message == IF draft = NoDraft THEN payload ELSE draft \o payload
            us == UnitsOf(h)
<1>3. message \in Message
  BY <1>2, PayloadType
<1>4. /\ Active /\ ~s.closed /\ since # -1 /\ tcp = "up" /\ ~clientTerminated
      /\ Readable(Ahead, Now, Client, FALSE) /\ Ahead \in Seq(Unit)
      /\ Waiting(s.tasks) \in Seq(Unit) /\ s.buffer \in Seq(Unit) /\ inbox \in Seq(Unit)
  BY <1>2, OpenIsRead
<1>5. /\ Client'.tcp = "up" /\ Client'.peer = peer' /\ Client'.sent = sent'
      /\ Client'.draft = draft'
  BY <1>2, <1>4 DEF Client
<1>6. IF ~Allowed(h) THEN Client'.peer = "left" /\ Client'.sent = sent
      ELSE IF h.op = "ping" THEN Client'.sent = sent /\ Client'.draft = draft
      ELSE IF h.fin THEN Client'.sent = Append(sent, message) /\ Client'.draft = NoDraft
      ELSE Client'.sent = sent /\ Client'.draft = message
  BY <1>1, <1>5
<1>. DEFINE e == Client'
<1>. HIDE DEF e
<1>7. us \in Seq(Unit) /\ Readable(Ahead \o us, Now, e, FALSE)
  BY <1>2, <1>4, <1>5, <1>6, FrameSent DEF e
<1>. HIDE DEF us, message
<1>8. peer' \in {"open", "left"} /\ inbox' = inbox \o us
      /\ (sent' = sent \/ sent' = Append(sent, message))
      /\ (draft' = draft \/ draft' = NoDraft \/ draft' = message) /\ frames' = frames + 1
  BY <1>1, <1>2 DEF message, us
<1>9. TypeOK'
  <2>. DEFINE ids == 1..MaxFrame
  <2>1. inbox' \in Seq(Unit)
    BY <1>4, <1>7, <1>8
  <2>2. frames' \in 0..MaxFrame
    BY <1>2, <1>8, BoundsAssumption DEF TypeOK
  <2>. HIDE DEF Message
  <2>3. sent \in Seq(Message) /\ (draft = NoDraft \/ draft \in Message)
    BY <1>2 DEF TypeOK, Message
  <2>4. sent' \in Seq(Message) /\ (draft' = NoDraft \/ draft' \in Message)
    BY <1>3, <1>8, <2>3, SMTT(40)
  <2>. QED  BY <1>2, <1>8, <2>1, <2>2, <2>4
            DEF TypeOK, Message, protocolVars, postVars
<1>10. Sound(s')
  BY <1>2 DEF WsInv
<1>11. LifeCycle'
  BY <1>2, <1>4, <1>8 DEF WsInv, LifeCycle, Active, protocolVars, postVars
<1>12. Parsing'
  <2>1. Ahead' = Ahead \o us
    BY <1>2, <1>7, <1>8, AheadGrows
  <2>2. Now' = Now /\ EmptyFrame' = EmptyFrame /\ Active' = Active
    BY <1>2 DEF Now, Current, EmptyFrame, Active, protocolVars
  <2>3. Readable(Ahead', Now', Client', clientTerminated')
    <3>1. clientTerminated' = FALSE
      BY <1>2, <1>4 DEF TypeOK, protocolVars
    <3>. QED  BY <1>7, <2>1, <2>2, <3>1 DEF e
  <2>4. IsPrefix(told', sent')
    <3>. HIDE DEF Message
    <3>1. IsPrefix(told, sent) /\ told \in Seq(Message) /\ sent \in Seq(Message) /\ told' = told
      BY <1>2 DEF WsInv, Parsing, TypeOK, Message, protocolVars
    <3>. QED  BY <1>3, <1>8, <3>1, PrefixOfLonger
  <2>5. ~(clientTerminated' \/ Has(s'.tasks, "onClose") \/ stage' = "over")
    BY <1>2, <1>4 DEF WsInv, Sound, protocolVars
  <2>. QED  BY <1>2, <1>4, <2>2, <2>3, <2>4, <2>5 DEF WsInv, Parsing, protocolVars
<1>13. Closing'
  BY <1>2 DEF WsInv, Closing
<1>. QED  BY <1>9, <1>10, <1>11, <1>12, <1>13 DEF WsInv

\* The units of the close frame.
LEMMA CloseUnits ==
  LET us == UnitsOf([op |-> "close", fin |-> TRUE, size |-> 0]) IN SubSeq(us, 1, 2) = us
<1>. DEFINE h == [op |-> "close", fin |-> TRUE, size |-> 0]
            a == [part |-> "start", header |-> h]
            b == [part |-> "key"]
<1>1. UnitsOf(h) = <<a, b>> \o <<>>
  <2>1. h.size = 0
    OBVIOUS
  <2>. HIDE DEF h
  <2>. QED  BY <2>1 DEF UnitsOf
<1>. HIDE DEF a, b
<1>2. <<a, b>> \in Seq({a, b}) /\ Len(<<a, b>>) = 2 /\ <<a, b>> \o <<>> = <<a, b>>
  OBVIOUS
<1>. DEFINE x == <<a, b>>
<1>. HIDE DEF x
<1>3. SubSeq(x, 1, 2) = x
  BY <1>2, SubSeqFull DEF x
<1>. QED  BY <1>1, <1>2, <1>3 DEF x

\* The client is no longer what it was, and what it had sent is under way.
LEMMA GoneKeeps ==
  ASSUME WsInv, peer = "open", peer' \in {"left", "vanished"},
         UNCHANGED <<frames, draft, sent, tcp, stage, s, protocolVars, broken, postVars, net, got>>,
         inbox' \in Seq(Unit), stage = "request" => inbox' = inbox,
         Active => Readable(Ahead', Now, Client', clientTerminated)
  PROVE  WsInv'
<1>1. ~s.closed /\ tcp = "up"
  BY DEF WsInv, LifeCycle, TypeOK
<1>2. TypeOK' /\ Sound(s')
  BY DEF WsInv, TypeOK, protocolVars, postVars
<1>3. stage # "none"
  BY DEF WsInv, LifeCycle
<1>4. since = -1 => stage = "request"
  BY <1>1, <1>3 DEF WsInv, LifeCycle, TypeOK
<1>5. LifeCycle'
  BY <1>1, <1>3, <1>4 DEF WsInv, LifeCycle, Active, protocolVars, postVars
<1>6. Now' = Now /\ EmptyFrame' = EmptyFrame /\ Active' = Active
  BY DEF Now, Current, EmptyFrame, Active, protocolVars
<1>7. Parsing'
  <2>1. /\ clientTerminated' = clientTerminated /\ told' = told /\ part' = part
        /\ opcode' = opcode
    BY DEF protocolVars
  <2>2. Active' => Readable(Ahead', Now', Client', clientTerminated')
    BY <1>6, <2>1
  <2>3. ~(Active' /\ s'.closed)
    BY <1>1
  <2>. QED  BY <1>6, <2>1, <2>2, <2>3 DEF WsInv, Parsing, postVars
<1>8. Closing'
  BY DEF WsInv, Closing
<1>. QED  BY <1>2, <1>5, <1>7, <1>8 DEF WsInv

\* The invariant is kept when the client closes its socket or vanishes.
LEMMA PeerGoesKeeps ==
  ASSUME WsInv, PeerGoes  PROVE WsInv'
<1>. DEFINE h == [op |-> "close", fin |-> TRUE, size |-> 0]
            us == UnitsOf(h)
<1>1. /\ peer = "open" /\ TypeOK
      /\ UNCHANGED <<frames, draft, sent, tcp, stage, s, protocolVars, broken, postVars, net, got>>
  BY DEF PeerGoes, WsInv
<1>2. Client'.peer = peer' /\ Client'.sent = Client.sent /\ Client'.tcp = Client.tcp
      /\ Client.tcp = "up" /\ Client.sent = sent /\ Client.peer = "open"
  <2>1. tcp = "up"
    BY <1>1 DEF WsInv, LifeCycle, TypeOK
  <2>. QED  BY <1>1, <2>1 DEF Client
<1>. DEFINE e == Client'
<1>. HIDE DEF e
<1>3. CASE peer' \in {"left", "vanished"} /\ UNCHANGED inbox
  <2>1. Ahead' = Ahead
    BY <1>1, <1>3 DEF Ahead
  <2>2. Active => Readable(Ahead, Now, e, clientTerminated)
    BY <1>2, <1>3, RunGone DEF WsInv, Parsing, e
  <2>3. inbox' \in Seq(Unit)
    BY <1>1, <1>3 DEF TypeOK
  <2>. QED  BY <1>1, <1>3, <2>1, <2>2, <2>3, GoneKeeps DEF e
<1>4. CASE peer' = "left" /\ stage = "open" /\ inbox' = inbox \o SubSeq(us, 1, 2)
  <2>1. SubSeq(us, 1, 2) = us
    BY CloseUnits
  <2>2. h \in Header /\ h.size = 0 /\ ~Allowed(h)
    BY DEF Header, Opcode, Allowed
  <2>3. /\ Active /\ ~s.closed /\ since # -1 /\ tcp = "up" /\ ~clientTerminated
        /\ Readable(Ahead, Now, Client, FALSE) /\ Ahead \in Seq(Unit)
        /\ Waiting(s.tasks) \in Seq(Unit) /\ s.buffer \in Seq(Unit) /\ inbox \in Seq(Unit)
    BY <1>1, <1>4, OpenIsRead
  <2>4. e.tcp = "up" /\ e.peer = "left" /\ e.sent = sent
    BY <1>2, <1>4 DEF e
  <2>10. h.size = 1 => frames < MaxFrame
    BY <2>2
  <2>. HIDE DEF h
  <2>5. us \in Seq(Unit) /\ Readable(Ahead \o us, Now, e, FALSE)
    <3>. DEFINE x == Ahead
                p == Now
    <3>. HIDE DEF x, p
    <3>1. x \in Seq(Unit) /\ Readable(x, p, Client, FALSE)
      BY <2>3 DEF x, p
    <3>2. UnitsOf(h) \in Seq(Unit) /\ Readable(x \o UnitsOf(h), p, e, FALSE)
      BY <1>1, <2>2, <2>10, <2>3, <2>4, <3>1, FrameSent
    <3>. QED  BY <3>2 DEF x, p
  <2>. HIDE DEF us
  <2>6. inbox' = inbox \o us
    BY <1>4, <2>1
  <2>7. Ahead' = Ahead \o us
    BY <1>1, <2>5, <2>6, AheadGrows
  <2>8. Readable(Ahead', Now, Client', clientTerminated)
    <3>1. clientTerminated = FALSE
      BY <1>1, <2>3 DEF TypeOK
    <3>. QED  BY <2>5, <2>7, <3>1 DEF e
  <2>9. inbox' \in Seq(Unit)
    BY <2>3, <2>5, <2>6
  <2>. QED  BY <1>1, <1>4, <2>8, <2>9, GoneKeeps
<1>. QED  BY <1>3, <1>4 DEF PeerGoes

\* The invariant is kept when the connection ends, even with a reset that loses units.
LEMMA ConnectionEndsKeeps ==
  ASSUME WsInv, ConnectionEnds  PROVE WsInv'
<1>1. /\ tcp = "up" /\ peer \in {"left", "vanished"} /\ TypeOK
      /\ UNCHANGED <<peer, frames, draft, sent, stage, s, protocolVars, broken, postVars, net, got>>
  BY DEF ConnectionEnds, WsInv
<1>2. \/ tcp' = "fin" /\ inbox' = inbox
      \/ tcp' = "reset" /\ inbox' = <<>>
  BY DEF ConnectionEnds
<1>3. TypeOK' /\ Sound(s')
  <2>1. inbox \in Seq(Unit) /\ <<>> \in Seq(Unit)
    BY <1>1 DEF TypeOK
  <2>2. inbox' \in Seq(Unit)
    BY <1>2, <2>1
  <2>. QED  BY <1>1, <1>2, <2>2 DEF WsInv, TypeOK, protocolVars, postVars
<1>4. LifeCycle'
  BY <1>1, <1>2 DEF WsInv, LifeCycle, Active, protocolVars, postVars, Lost
<1>5. Now' = Now /\ EmptyFrame' = EmptyFrame /\ Active' = Active
  BY <1>1 DEF Now, Current, EmptyFrame, Active, protocolVars
<1>6. Active => Readable(Ahead', Now, Client', clientTerminated)
  <2>. DEFINE e == Client'
  <2>1. /\ e.peer = Client.peer /\ e.peer # "open"
        /\ e.sent = Client.sent /\ e.tcp = tcp' /\ Client.tcp = "up"
    BY <1>1 DEF Client
  <2>. HIDE DEF e
  <2>. SUFFICES ASSUME Active  PROVE Readable(Ahead', Now, e, clientTerminated)
    BY DEF e
  <2>2. Readable(Ahead, Now, Client, clientTerminated)
    BY DEF WsInv, Parsing
  <2>3. CASE tcp' = "fin" /\ inbox' = inbox
    <3>1. Ahead' = Ahead
      BY <1>1, <2>3 DEF Ahead
    <3>. QED  BY <2>1, <2>2, <3>1, RunGone
  <2>4. CASE tcp' = "reset" /\ inbox' = <<>>
    <3>. DEFINE w == Waiting(s.tasks)
                b == s.buffer
    <3>1. w \in Seq(Unit) /\ b \in Seq(Unit) /\ inbox \in Seq(Unit)
      BY AheadType
    <3>2. Ahead = w \o (b \o inbox) /\ Ahead' = w \o (b \o <<>>)
      BY <1>1, <2>4 DEF Ahead
    <3>. HIDE DEF w, b
    <3>3. /\ w \o (b \o inbox) = (w \o b) \o inbox /\ w \o (b \o <<>>) = w \o b
          /\ w \o b \in Seq(Unit)
      BY <3>1
    <3>. DEFINE us == w \o b
    <3>4. Readable(us \o inbox, Now, Client, clientTerminated) /\ us \in Seq(Unit)
      BY <2>2, <3>2, <3>3
    <3>. HIDE DEF us
    <3>5. clientTerminated \in BOOLEAN
      BY <1>1 DEF TypeOK
    <3>6. Readable(us, Now, e, clientTerminated)
      BY <2>1, <2>4, <3>1, <3>4, <3>5, RunCut
    <3>. QED  BY <3>2, <3>3, <3>6 DEF us
  <2>. QED  BY <1>2, <2>3, <2>4
<1>7. Parsing'
  <2>1. /\ clientTerminated' = clientTerminated /\ told' = told /\ part' = part
        /\ opcode' = opcode
    BY <1>1 DEF protocolVars
  <2>2. Active' => Readable(Ahead', Now', Client', clientTerminated')
    BY <1>5, <1>6, <2>1
  <2>3. tcp' # "reset" => inbox' = inbox /\ tcp # "reset"
    BY <1>1, <1>2
  <2>. QED  BY <1>1, <1>5, <2>1, <2>2, <2>3 DEF WsInv, Parsing, postVars
<1>8. Closing'
  BY <1>1 DEF WsInv, Closing
<1>. QED  BY <1>3, <1>4, <1>7, <1>8 DEF WsInv

\* The invariant is kept when the client reads a frame.
LEMMA DeliverKeeps ==
  ASSUME WsInv, Deliver  PROVE WsInv'
<1>1. /\ peer = "open" /\ net # <<>> /\ net' = Tail(net)
      /\ got' = IF Head(net) \in 1..MaxPush THEN Append(got, Head(net)) ELSE got
      /\ UNCHANGED <<clientVars, stage, s, protocolVars, broken, postVars>>
  BY DEF Deliver
<1>2. TypeOK'
  <2>. DEFINE ps == 1..MaxPush
  <2>1. net' \in Seq(Out)
    BY <1>1 DEF WsInv, TypeOK
  <2>2. got \in Seq(ps)
    BY DEF WsInv, TypeOK
  <2>. HIDE DEF ps
  <2>3. (IF Head(net) \in ps THEN Append(got, Head(net)) ELSE got) \in Seq(ps)
    BY <2>2
  <2>. QED  BY <1>1, <2>1, <2>3 DEF WsInv, TypeOK, clientVars, protocolVars, postVars, ps
<1>3. Sound(s') /\ LifeCycle' /\ Parsing'
  <2>1. /\ UNCHANGED <<clientVars, stage, s, protocolVars, broken, since>>
        /\ post' # "idle" => pushes' > 0
    BY <1>1 DEF WsInv, LifeCycle, postVars
  <2>. QED  BY <2>1, Untouched
<1>4. Closing'
  <2>. DEFINE wb == s.writeBuffer
  <2>1. ~s.closed /\ net \in Seq(Out) /\ wb \in Seq(Out)
    BY <1>1, AheadType DEF WsInv, LifeCycle
  <2>2. EndsWithClose(net \o wb, s.closed)
    BY DEF WsInv, Closing
  <2>. HIDE DEF wb
  <2>3. Tail(net) \o wb = Tail(net \o wb) /\ net \o wb \in Seq(Out) /\ net \o wb # <<>>
    BY <1>1, <2>1
  <2>4. EndsWithClose(Tail(net \o wb), s.closed)
    <3>. DEFINE all == net \o wb
    <3>1. all \in Seq(Out) /\ all # <<>> /\ \A i \in 1..Len(all) : all[i] # CloseFrame
      BY <2>1, <2>2, <2>3 DEF EndsWithClose
    <3>. HIDE DEF all
    <3>2. \A i \in 1..Len(Tail(all)) : i + 1 \in 1..Len(all) /\ Tail(all)[i] = all[i + 1]
      BY <3>1
    <3>3. \A i \in 1..Len(Tail(all)) : Tail(all)[i] # CloseFrame
      BY <3>1, <3>2
    <3>. QED  BY <3>3 DEF EndsWithClose, all
  <2>. QED  BY <1>1, <2>3, <2>4 DEF Closing, wb
<1>. QED  BY <1>2, <1>3, <1>4 DEF WsInv

\* The invariant is kept when a broadcast begins or ends.
LEMMA PostKeeps ==
  ASSUME WsInv, PostBegins \/ PostEnds  PROVE WsInv'
<1>1. /\ UNCHANGED <<clientVars, stage, s, protocolVars, broken, since, net, got>>
      /\ pushes' \in 0..MaxPush /\ post' \in {"idle", "writing"}
      /\ post' # "idle" => pushes' > 0
  BY BoundsAssumption, SMTT(40) DEF WsInv, TypeOK, LifeCycle, PostBegins, PostEnds
<1>2. TypeOK'
  BY <1>1 DEF WsInv, TypeOK, clientVars, protocolVars
<1>3. Sound(s') /\ LifeCycle' /\ Parsing'
  BY <1>1, Untouched
<1>4. Closing'
  BY <1>1 DEF WsInv, Closing
<1>. QED  BY <1>2, <1>3, <1>4 DEF WsInv
-----------------------------------------------------------------------------
(* Steps that do not read                                                  *)

\* Everything but the stream, what was sent on it and whether it broke.
Elsewhere == <<peer, frames, draft, sent, tcp, inbox, stage, part, opcode, fragments, told,
               since>>

\* A stream that has begun is not the fresh one, which nothing has happened to.
LEMMA NotFresh ==
  ASSUME WsInv, s.tasks # <<>> \/ s.handler \/ s.closed
  PROVE  stage \notin {"none", "request"}
BY FreshIs DEF WsInv, LifeCycle

\* The stream is the same but for its write buffer, what it listens for, or a close that
\* was scheduled after a reset.
SameReading(st, q) ==
  /\ Sound(q) /\ q.closed = st.closed /\ q.reading = st.reading /\ q.buffer = st.buffer
  /\ q.closeCallback = st.closeCallback /\ Waiting(q.tasks) = Waiting(st.tasks)
  /\ Has(q.tasks, "data") <=> Has(st.tasks, "data")
  /\ Has(q.tasks, "onClose") <=> Has(st.tasks, "onClose")

\* A step that changes nothing about what is read keeps the invariant.
LEMMA ReadsTheSame ==
  ASSUME WsInv, stage \notin {"none", "request"}, SameReading(s, s'),
         UNCHANGED Elsewhere, UNCHANGED clientTerminated, broken => broken',
         Has(s'.tasks, "close") => tcp = "reset", post' # "idle" => pushes' > 0
  PROVE  Sound(s') /\ LifeCycle' /\ Parsing'
<1>1. Sound(s')
  BY DEF SameReading
<1>2. Active' = Active
  BY DEF Active, SameReading
<1>3. Awaits(s') = Awaits(s) /\ Settled(s') = Settled(s)
  BY DEF Awaits, Settled, SameReading
<1>4. LifeCycle'
  BY <1>2, <1>3 DEF WsInv, LifeCycle, SameReading, Elsewhere, Lost
<1>5. /\ Ahead' = Ahead /\ Now' = Now /\ Client' = Client /\ EmptyFrame' = EmptyFrame
  BY DEF Ahead, Now, Current, Client, EmptyFrame, SameReading, Elsewhere
<1>6. Parsing'
  <2>1. Active' => Readable(Ahead', Now', Client', clientTerminated')
    BY <1>2, <1>5 DEF WsInv, Parsing
  <2>. QED  BY <1>2, <1>5, <2>1 DEF WsInv, Parsing, SameReading, Elsewhere
<1>. QED  BY <1>1, <1>4, <1>6

\* The stream is closed.
LEMMA ClosesIt ==
  ASSUME WsInv, stage \notin {"none", "request"}, Shut(s, s'),
         peer # "open", since # -1 => Lost,
         UNCHANGED Elsewhere, broken => broken',
         clientTerminated' \in BOOLEAN, clientTerminated => clientTerminated',
         clientTerminated' => clientTerminated \/ broken',
         s.closed \/ broken' \/ tcp = "reset" \/ inbox = <<>>,
         post' # "idle" => pushes' > 0
  PROVE  Sound(s') /\ LifeCycle' /\ Parsing'
<1>1. /\ Sound(s') /\ s'.closed /\ ~s'.reading /\ s'.buffer = s.buffer
      /\ Waiting(s'.tasks) = Waiting(s.tasks)
      /\ Has(s'.tasks, "data") <=> Has(s.tasks, "data")
      /\ Has(s'.tasks, "close") => Has(s.tasks, "close")
      /\ s'.closeCallback => Has(s'.tasks, "data")
      /\ Awaits(s') <=> Awaits(s)
      /\ Has(s'.tasks, "onClose") => Has(s.tasks, "onClose") \/ ~Has(s.tasks, "data")
  BY DEF Shut, Alike
<1>2. Active' <=> Has(s.tasks, "data")
  BY <1>1 DEF Active
<1>3. LifeCycle'
  <2>1. stage = "open" => Settled(s')
    BY <1>1 DEF Settled
  <2>2. since = -1 => ~Active'
    BY <1>2 DEF WsInv, LifeCycle, Active
  <2>. QED  BY <1>1, <2>1, <2>2 DEF WsInv, LifeCycle, Elsewhere, Lost
<1>4. /\ Ahead' = Ahead /\ Now' = Now /\ Client' = Client /\ EmptyFrame' = EmptyFrame
  BY <1>1 DEF Ahead, Now, Current, Client, EmptyFrame, Elsewhere
<1>5. Active' => Active
  BY <1>2 DEF Active
<1>6. Active' => Readable(Ahead', Now', Client', clientTerminated')
  <2>. SUFFICES ASSUME Active'  PROVE Readable(Ahead, Now, Client, clientTerminated')
    BY <1>4
  <2>1. Readable(Ahead, Now, Client, clientTerminated) /\ clientTerminated \in BOOLEAN
    BY <1>5 DEF WsInv, Parsing, TypeOK
  <2>2. CASE clientTerminated' = clientTerminated
    BY <2>1, <2>2
  <2>3. CASE clientTerminated' = TRUE
    <3>1. SameShape(Now, Now)
      BY DEF SameShape
    <3>2. Readable(Ahead, Now, Client, TRUE)
      BY <2>1, <3>1, RunShape
    <3>. QED  BY <2>3, <3>2
  <2>. QED  BY <2>1, <2>2, <2>3
<1>7. Active' /\ (clientTerminated' \/ Has(s'.tasks, "onClose") \/ stage' = "over") => broken'
  BY <1>1, <1>2, <1>5 DEF WsInv, Parsing, Elsewhere
<1>8. Active' /\ s'.closed /\ ~broken' /\ tcp' # "reset" => inbox' = <<>>
  BY <1>5 DEF WsInv, Parsing, Elsewhere
<1>9. ~Active' /\ since' # -1 /\ ~broken' /\ tcp' # "reset" => told' = sent'
  <2>. SUFFICES ASSUME ~Active', since # -1, ~broken', tcp # "reset"  PROVE told = sent
    BY DEF Elsewhere
  <2>1. CASE ~Active
    BY <2>1 DEF WsInv, Parsing
  <2>2. CASE Active
    <3>1. s.reading /\ ~Has(s.tasks, "data")
      BY <1>2, <2>2 DEF Active
    <3>2. ~s.closed /\ s.buffer = <<>>
      BY <3>1 DEF WsInv, Sound
    <3>3. Ahead = <<>>
      BY <3>1, <3>2 DEF Ahead, Waiting
    <3>4. ~EmptyFrame
      BY <3>1 DEF WsInv, Parsing
    <3>5. clientTerminated = FALSE
      BY <3>2 DEF WsInv, LifeCycle, TypeOK
    <3>6. Readable(<<>>, Now, Client, FALSE)
      BY <2>2, <3>3, <3>5 DEF WsInv, Parsing
    <3>7. Now.told = Client.sent
      <4>1. Client.tcp # "reset" /\ <<>> \in Seq(Unit)
        BY DEF Client
      <4>. QED  BY <3>6, <4>1, RunHead
    <3>8. Now.told = told /\ Client.sent = sent
      BY <3>4 DEF Now, Current, Client
    <3>. QED  BY <3>7, <3>8
  <2>. QED  BY <2>1, <2>2
<1>10. Parsing'
  <2>1. Has(s'.tasks, "data") => IF EmptyFrame' THEN Waiting(s'.tasks) = <<>>
                                 ELSE Len(Waiting(s'.tasks)) = 1
    BY <1>1, <1>4 DEF WsInv, Parsing
  <2>2. Active' /\ part' # "start" => opcode'.op # "reserved"
    BY <1>5 DEF WsInv, Parsing, Elsewhere
  <2>3. IsPrefix(told', sent')
    BY DEF WsInv, Parsing, Elsewhere
  <2>. QED  BY <1>1, <1>6, <1>7, <1>8, <1>9, <2>1, <2>2, <2>3 DEF Parsing
<1>. QED  BY <1>1, <1>3, <1>10

\* Frames move from the buffer to the kernel.
LEMMA Passes ==
  ASSUME NEW x \in Seq(Out), NEW w \in Seq(Out), NEW n \in 0..Len(w)
  PROVE  /\ SubSeq(w, 1, n) \in Seq(Out) /\ SubSeq(w, n + 1, Len(w)) \in Seq(Out)
         /\ (x \o SubSeq(w, 1, n)) \o SubSeq(w, n + 1, Len(w)) = x \o w
<1>. DEFINE a == SubSeq(w, 1, n)
            b == SubSeq(w, n + 1, Len(w))
<1>1. a \in Seq(Out) /\ b \in Seq(Out)
  OBVIOUS
<1>2. a \o b = w
  <2>1. 1 \in 1..(Len(w) + 1) /\ n \in (1 - 1)..Len(w) /\ Len(w) \in n..Len(w)
    OBVIOUS
  <2>2. SubSeq(w, 1, n) \o SubSeq(w, n + 1, Len(w)) = SubSeq(w, 1, Len(w))
    BY <2>1, ConcatAdjacentSubSeq
  <2>. QED  BY <2>2, SubSeqFull
<1>. HIDE DEF a, b
<1>3. (x \o a) \o b = x \o (a \o b)
  BY <1>1
<1>. QED  BY <1>1, <1>2, <1>3 DEF a, b

\* Nothing was sent after a close frame, and a frame is.
LEMMA OneMoreFrame ==
  ASSUME NEW x \in Seq(Out), EndsWithClose(x, FALSE), NEW frame \in Out, NEW c,
         frame = CloseFrame => c
  PROVE  EndsWithClose(Append(x, frame), c)
<1>. DEFINE y == Append(x, frame)
<1>1. /\ Len(y) = Len(x) + 1 /\ Len(x) \in Nat /\ y[Len(y)] = frame
      /\ \A i \in 1..Len(x) : y[i] = x[i]
      /\ \A i \in 1..Len(y) : i \in 1..Len(x) \/ i = Len(y)
  OBVIOUS
<1>. HIDE DEF y
<1>2. \A i \in 1..Len(x) : x[i] # CloseFrame
  BY DEF EndsWithClose
<1>. QED  BY <1>1, <1>2 DEF EndsWithClose, y

\* A stream that closes may end with a close frame.
LEMMA StillEnds ==
  ASSUME NEW x, NEW c, EndsWithClose(x, c), NEW d, c => d  PROVE EndsWithClose(x, d)
BY DEF EndsWithClose

\* A close frame is neither a pong nor an update.
LEMMA CloseFrameIs == CloseFrame \in Out /\ Pong \in Out /\ Pong # CloseFrame
                      /\ \A i \in 1..MaxPush : i \in Out /\ i # CloseFrame
BY BoundsAssumption DEF CloseFrame, Pong, Out

\* A step of the stream by itself: a closed stream stays closed, and what it holds with the
\* kernel grows by answers only, the one to a close frame being the last.
OwnStep ==
  /\ s.closed => s'.closed
  /\ \/ (net \o s.writeBuffer)' = net \o s.writeBuffer
     \/ ~s.closed /\ (net \o s.writeBuffer)' = Append(net \o s.writeBuffer, Pong)
     \/ /\ ~s.closed /\ s'.closed
        /\ (net \o s.writeBuffer)' = Append(net \o s.writeBuffer, CloseFrame)

\* Behind a close frame still nothing.
LEMMA OwnStepEnds ==
  ASSUME WsInv, OwnStep  PROVE EndsWithClose(net' \o s'.writeBuffer, s'.closed)
<1>1. EndsWithClose(net \o s.writeBuffer, s.closed) /\ net \o s.writeBuffer \in Seq(Out)
  <2>1. s.writeBuffer \in Seq(Out) /\ net \in Seq(Out)
    BY AheadType
  <2>. QED  BY <2>1, ConcatProperties DEF WsInv, Closing
<1>2. ~s.closed => EndsWithClose(net \o s.writeBuffer, FALSE)
  BY <1>1 DEF EndsWithClose
<1>3. CASE net' \o s'.writeBuffer = net \o s.writeBuffer
  BY <1>1, <1>3, StillEnds DEF OwnStep
<1>4. CASE ~s.closed /\ net' \o s'.writeBuffer = Append(net \o s.writeBuffer, Pong)
  BY <1>1, <1>2, <1>4, OneMoreFrame, CloseFrameIs
<1>5. CASE /\ ~s.closed /\ s'.closed
           /\ net' \o s'.writeBuffer = Append(net \o s.writeBuffer, CloseFrame)
  BY <1>1, <1>2, <1>5, OneMoreFrame, CloseFrameIs
<1>. QED  BY <1>3, <1>4, <1>5 DEF OwnStep

\* What becomes of a write to an open stream.
LEMMA WriteIs ==
  ASSUME NEW r, Sound(r), ~r.closed, NEW frame \in Out, NEW w \in WriteOutcomes(r, frame)
  PROVE  /\ w.out \in Seq(Out) /\ w.failed \in BOOLEAN
         /\ w.failed => Shut(r, w.s) /\ w.out = <<>> /\ (tcp # "up" \/ peer = "left")
         /\ ~w.failed => /\ Wrote(r, w.s, w.s.writeBuffer) /\ w.s.writeBuffer \in Seq(Out)
                         /\ \A x \in Seq(Out) : (x \o w.out) \o w.s.writeBuffer
                                                  = Append(x \o r.writeBuffer, frame)
<1>. DEFINE all == Append(r.writeBuffer, frame)
<1>1. r.writeBuffer \in Seq(Out) /\ all \in Seq(Out)
  BY TaskTypes DEF Sound
<1>2. CASE \E n \in 0..Len(all) :
             w = [s |-> IO!Written(r, SubSeq(all, n + 1, Len(all))), out |-> SubSeq(all, 1, n),
                  failed |-> FALSE]
  <2>1. PICK n \in 0..Len(all) :
               w = [s |-> IO!Written(r, SubSeq(all, n + 1, Len(all))),
                    out |-> SubSeq(all, 1, n), failed |-> FALSE]
    BY <1>2
  <2>. DEFINE left == SubSeq(all, n + 1, Len(all))
              front == SubSeq(all, 1, n)
  <2>. HIDE DEF all
  <2>2. /\ front \in Seq(Out) /\ left \in Seq(Out)
        /\ \A x \in Seq(Out) : (x \o front) \o left = x \o all
    BY <1>1, Passes
  <2>3. w.s = IO!Written(r, left) /\ w.out = front /\ w.failed = FALSE
    BY <2>1
  <2>. HIDE DEF left, front
  <2>4. Wrote(r, w.s, left) /\ w.s.writeBuffer = left
    BY <2>2, <2>3, WrittenWrote DEF Wrote
  <2>5. \A x \in Seq(Out) : x \o all = Append(x \o r.writeBuffer, frame)
    BY <1>1 DEF all
  <2>. QED  BY <2>2, <2>3, <2>4, <2>5
<1>3. CASE /\ Disconnected \/ peer = "left"
           /\ w = [s |-> IO!WriteFails(r), out |-> <<>>, failed |-> TRUE]
  <2>1. w.s = IO!WriteFails(r) /\ w.out = <<>> /\ w.failed = TRUE
    BY <1>3
  <2>2. Shut(r, w.s)
    BY <2>1, WriteFailsShuts
  <2>3. <<>> \in Seq(Out)
    OBVIOUS
  <2>. QED  BY <1>3, <2>1, <2>2, <2>3 DEF Disconnected
<1>. QED  BY <1>2, <1>3 DEF WriteOutcomes

\* Only a client that has gone ends the connection.
LEMMA EndsIfGone == ASSUME WsInv, tcp # "up" \/ peer = "left"  PROVE Lost
BY DEF WsInv, LifeCycle, Lost

\* The invariant is kept when the Announcer writes, to an open stream or a closed one.
LEMMA PostWritesKeeps ==
  ASSUME WsInv, PostWrites
  PROVE  /\ WsInv'
         /\ \/ /\ s'.closed = s.closed /\ ~s.closed
               /\ net' \o s'.writeBuffer = Append(net \o s.writeBuffer, pushes)
            \/ s'.closed /\ net' \o s'.writeBuffer = net \o s.writeBuffer
<1>1. /\ stage = "open" /\ since # -1 /\ TypeOK /\ Sound(s) /\ post' = "written"
      /\ WriteFrame(s, pushes)
      /\ UNCHANGED <<clientVars, stage, part, opcode, fragments, told, pushes, since, got>>
  BY DEF WsInv, PostWrites, Registered
<1>2. UNCHANGED Elsewhere /\ pushes' > 0 /\ stage \notin {"none", "request"}
  BY <1>1 DEF WsInv, LifeCycle, Elsewhere, clientVars, PostWrites
<1>3. pushes \in Out /\ pushes # CloseFrame
  BY <1>1, <1>2, CloseFrameIs DEF TypeOK
<1>4. ASSUME Sound(s'), LifeCycle', Parsing', net' \in Seq(Out), clientTerminated' \in BOOLEAN,
             broken' \in BOOLEAN, EndsWithClose(net' \o s'.writeBuffer, s'.closed)
      PROVE  WsInv'
  <2>1. TypeOK'
    BY <1>1, <1>4 DEF TypeOK, clientVars, Sound
  <2>. QED  BY <1>4, <2>1 DEF WsInv, Closing
<1>5. s.writeBuffer \in Seq(Out) /\ net \in Seq(Out)
  BY AheadType
<1>6. CASE s.closed
  <2>1. s' = IO!Close(s) /\ clientTerminated' = TRUE /\ broken' = TRUE /\ net' = net
    BY <1>1, <1>6 DEF WriteFrame, Abort
  <2>2. Shut(s, s')
    BY <1>1, <2>1, CloseShuts
  <2>3. Lost
    BY <1>1, <1>6 DEF WsInv, LifeCycle, Lost
  <2>4. Sound(s') /\ LifeCycle' /\ Parsing'
    BY <1>2, <2>1, <2>2, <2>3, ClosesIt DEF Lost
  <2>5. EndsWithClose(net' \o s'.writeBuffer, s'.closed)
    BY <1>6, <2>1, <2>2, StillEnds DEF WsInv, Closing, Shut, Alike
  <2>6. s'.closed /\ net' \o s'.writeBuffer = net \o s.writeBuffer
    BY <2>1, <2>2 DEF Shut, Alike
  <2>. QED  BY <1>1, <1>4, <1>5, <2>1, <2>4, <2>5, <2>6 DEF TypeOK
<1>7. CASE ~s.closed
  <2>1. PICK w \in WriteOutcomes(s, pushes) :
               /\ s' = w.s /\ net' = net \o w.out /\ broken' = (broken \/ w.failed)
               /\ UNCHANGED clientTerminated
    BY <1>1, <1>7 DEF WriteFrame
  <2>2. /\ w.out \in Seq(Out) /\ w.failed \in BOOLEAN
        /\ w.failed => Shut(s, s') /\ w.out = <<>> /\ (tcp # "up" \/ peer = "left")
        /\ ~w.failed => /\ Wrote(s, s', s'.writeBuffer) /\ s'.writeBuffer \in Seq(Out)
                        /\ \A x \in Seq(Out) : (x \o w.out) \o s'.writeBuffer
                                                 = Append(x \o s.writeBuffer, pushes)
    BY <1>1, <1>3, <1>7, <2>1, WriteIs
  <2>3. net' \in Seq(Out) /\ broken' \in BOOLEAN /\ clientTerminated' \in BOOLEAN
    BY <1>1, <1>5, <2>1, <2>2 DEF TypeOK
  <2>4. EndsWithClose(net \o s.writeBuffer, FALSE) /\ net \o s.writeBuffer \in Seq(Out)
    BY <1>5, <1>7 DEF WsInv, Closing, EndsWithClose
  <2>5. CASE w.failed
    <3>1. Lost /\ broken' /\ net' = net
      <4>1. Lost
        BY <2>2, <2>5, EndsIfGone
      <4>2. broken'
        BY <2>1, <2>5
      <4>3. net \o <<>> = net
        BY <1>5
      <4>4. w.out = <<>>
        BY <2>2, <2>5
      <4>. QED  BY <2>1, <4>1, <4>2, <4>3, <4>4
    <3>2. Sound(s') /\ LifeCycle' /\ Parsing'
      BY <1>2, <2>1, <2>2, <2>3, <2>5, <3>1, ClosesIt DEF Lost
    <3>3. EndsWithClose(net' \o s'.writeBuffer, s'.closed)
      <4>1. s'.writeBuffer = s.writeBuffer
        BY <2>2, <2>5 DEF Shut, Alike
      <4>. QED  BY <2>4, <3>1, <4>1, StillEnds
    <3>4. s'.closed /\ net' \o s'.writeBuffer = net \o s.writeBuffer
      BY <2>2, <2>5, <3>1 DEF Shut, Alike
    <3>. QED  BY <1>4, <2>3, <3>2, <3>3, <3>4
  <2>6. CASE ~w.failed
    <3>1. SameReading(s, s') /\ s'.tasks = s.tasks
      BY <2>2, <2>6 DEF Wrote, SameReading
    <3>2. Has(s'.tasks, "close") => tcp = "reset"
      BY <3>1 DEF WsInv, LifeCycle
    <3>3. Sound(s') /\ LifeCycle' /\ Parsing'
      BY <1>2, <2>1, <3>1, <3>2, ReadsTheSame
    <3>4. net' \o s'.writeBuffer = Append(net \o s.writeBuffer, pushes)
      BY <1>5, <2>1, <2>2, <2>6
    <3>5. EndsWithClose(net' \o s'.writeBuffer, s'.closed)
      BY <1>3, <2>4, <3>4, OneMoreFrame
    <3>6. s'.closed = s.closed
      BY <2>2, <2>6 DEF Wrote
    <3>. QED  BY <1>4, <1>7, <2>3, <3>3, <3>4, <3>5, <3>6
  <2>. QED  BY <2>2, <2>5, <2>6
<1>. QED  BY <1>6, <1>7

\* The invariant is kept by a WRITE event.
LEMMA WriteEventKeeps ==
  ASSUME WsInv, WriteEvent  PROVE WsInv' /\ OwnStep
<1>1. /\ s.handler /\ ~s.closed /\ TypeOK /\ Sound(s)
      /\ UNCHANGED <<clientVars, stage, protocolVars, postVars, got>>
  BY DEF WsInv, WriteEvent, Listening
<1>2. UNCHANGED Elsewhere /\ UNCHANGED clientTerminated /\ (post' # "idle" => pushes' > 0)
      /\ stage \notin {"none", "request"}
  BY <1>1, NotFresh DEF WsInv, LifeCycle, Elsewhere, clientVars, protocolVars, postVars
<1>3. ASSUME Sound(s'), LifeCycle', Parsing', net' \in Seq(Out), broken' \in BOOLEAN,
             net' \o s'.writeBuffer = net \o s.writeBuffer
      PROVE  WsInv' /\ OwnStep
  <2>1. TypeOK'
    BY <1>1, <1>3 DEF TypeOK, clientVars, protocolVars, postVars, Sound
  <2>2. OwnStep
    BY <1>1, <1>3 DEF OwnStep
  <2>3. Closing'
    BY <2>2, OwnStepEnds DEF Closing
  <2>. QED  BY <1>3, <2>1, <2>2, <2>3 DEF WsInv
<1>4. s.writeBuffer \in Seq(Out) /\ net \in Seq(Out)
  BY AheadType
<1>6. ASSUME NEW n \in 1..Len(s.writeBuffer),
             net' = net \o SubSeq(s.writeBuffer, 1, n),
             s' = IO!Relisten([s EXCEPT !.writeBuffer = SubSeq(@, n + 1, Len(@))]),
             broken' = broken
      PROVE  WsInv' /\ OwnStep
  <2>. DEFINE left == SubSeq(s.writeBuffer, n + 1, Len(s.writeBuffer))
              front == SubSeq(s.writeBuffer, 1, n)
              q == [s EXCEPT !.writeBuffer = left]
  <2>1. n \in 0..Len(s.writeBuffer)
    BY <1>4
  <2>2. /\ front \in Seq(Out) /\ left \in Seq(Out)
        /\ (net \o front) \o left = net \o s.writeBuffer
    BY <1>4, <2>1, Passes
  <2>. HIDE DEF left, front
  <2>3. Wrote(s, q, left) /\ q.handler = s.handler
    BY <1>1, <2>2, Rewritten
  <2>4. s' = IO!Relisten(q)
    BY <1>6 DEF left
  <2>. HIDE DEF q
  <2>5. Listens(q, s')
    BY <1>1, <2>3, <2>4, RelistenListens DEF Wrote
  <2>6. SameReading(s, s') /\ s'.tasks = s.tasks /\ s'.writeBuffer = left
    BY <2>3, <2>5 DEF Wrote, Listens, Alike, SameReading
  <2>7. Has(s'.tasks, "close") => tcp = "reset"
    BY <2>6 DEF WsInv, LifeCycle
  <2>8. Sound(s') /\ LifeCycle' /\ Parsing'
    BY <1>2, <1>6, <2>6, <2>7, ReadsTheSame
  <2>9. net' \o s'.writeBuffer = net \o s.writeBuffer /\ net' \in Seq(Out)
    <3>1. net' = net \o front
      BY <1>6 DEF front
    <3>2. net \o front \in Seq(Out)
      BY <1>4, <2>2
    <3>. QED  BY <2>2, <2>6, <3>1, <3>2
  <2>11. broken' \in BOOLEAN
    BY <1>1, <1>6 DEF TypeOK
  <2>. QED  BY <1>3, <2>8, <2>9, <2>11
<1>7. ASSUME Disconnected \/ peer = "left", s' = IO!Close(s), broken' = TRUE, net' = net
      PROVE  WsInv' /\ OwnStep
  <2>1. Shut(s, s')
    BY <1>1, <1>7, CloseShuts
  <2>2. Lost
    BY <1>7, EndsIfGone DEF Disconnected
  <2>3. clientTerminated' \in BOOLEAN
    BY <1>1, <1>2 DEF TypeOK
  <2>4. Sound(s') /\ LifeCycle' /\ Parsing'
    BY <1>2, <1>7, <2>1, <2>2, <2>3, ClosesIt DEF Lost
  <2>5. s'.writeBuffer = s.writeBuffer
    BY <2>1 DEF Shut, Alike
  <2>6. net' \o s'.writeBuffer = net \o s.writeBuffer
    BY <1>7, <2>5
  <2>. QED  BY <1>3, <1>4, <1>7, <2>4, <2>6
<1>. QED  BY <1>6, <1>7 DEF WriteEvent

\* The invariant is kept by an ERROR event.
LEMMA ErrorEventKeeps ==
  ASSUME WsInv, ErrorEvent  PROVE WsInv'
<1>1. /\ s.handler /\ ~s.closed /\ TypeOK /\ Sound(s) /\ tcp = "reset" /\ s' = IO!HandleError(s)
      /\ UNCHANGED <<clientVars, stage, protocolVars, broken, postVars, net, got>>
  BY DEF WsInv, ErrorEvent, Listening
<1>2. UNCHANGED Elsewhere /\ UNCHANGED clientTerminated /\ (post' # "idle" => pushes' > 0)
      /\ stage \notin {"none", "request"}
  BY <1>1, NotFresh DEF WsInv, LifeCycle, Elsewhere, clientVars, protocolVars, postVars
<1>3. SameReading(s, s') /\ s'.writeBuffer = s.writeBuffer
  BY <1>1, HandleErrorAlike DEF SameReading
<1>4. Sound(s') /\ LifeCycle' /\ Parsing'
  BY <1>1, <1>2, <1>3, ReadsTheSame
<1>5. TypeOK'
  BY <1>1, <1>4 DEF TypeOK, clientVars, protocolVars, postVars, Sound
<1>6. Closing'
  BY <1>1, <1>3 DEF WsInv, Closing, SameReading
<1>. QED  BY <1>4, <1>5, <1>6 DEF WsInv
\* The stream with its close callback, before anything else happens to it.
LEMMA CallbackSet ==
  LET r == IO!SetCloseCallback(IO!Fresh) IN
  /\ Sound(r) /\ ~r.closed /\ r.closeCallback /\ r.tasks = <<>> /\ ~r.reading
  /\ r.buffer = <<>> /\ r.writeBuffer = <<>>
<1>. DEFINE f == IO!Fresh
            q == [f EXCEPT !.closeCallback = TRUE]
            r == IO!SetCloseCallback(f)
<1>1. /\ Sound(f) /\ f.tasks = <<>> /\ ~f.closed /\ ~f.reading
      /\ f.buffer = <<>> /\ f.writeBuffer = <<>> /\ f.pending = 0 /\ ~f.handler
      /\ f.interest = {}
  BY FreshIs
<1>2. r = IO!MaybeAddErrorListener(q)
  BY DEF IO!SetCloseCallback
<1>. HIDE DEF f
<1>3. /\ q \in IO!Stream /\ q.closed = f.closed /\ q.buffer = f.buffer
      /\ q.reading = f.reading /\ q.pending = f.pending /\ q.handler = f.handler
      /\ q.interest = f.interest /\ q.writeBuffer = f.writeBuffer /\ q.tasks = f.tasks
      /\ q.closeCallback = TRUE
  BY <1>1 DEF Sound, IO!Stream
<1>. HIDE DEF q
<1>4. Sound(q)
  <2>1. ~Has(f.tasks, "onClose")
    BY <1>1, NoTasks
  <2>. QED  BY <1>1, <1>3, <2>1 DEF Sound
<1>5. Listens(q, r)
  BY <1>1, <1>2, <1>3, <1>4, ErrorListener
<1>. QED  BY <1>1, <1>3, <1>5 DEF Listens, Alike, f

\* The invariant is kept when the handshake is refused or aborted.
LEMMA RefuseKeeps ==
  ASSUME WsInv, Refuse  PROVE WsInv' /\ s'.closed /\ s'.writeBuffer = <<>>
<1>1. /\ stage = "request" /\ TypeOK /\ Sound(s) /\ s = IO!Fresh /\ since = -1
      /\ peer' = (IF peer = "open" THEN "left" ELSE peer)
      /\ UNCHANGED <<frames, draft, sent, inbox, tcp, part, opcode, fragments, told, broken,
                     postVars, net, got>>
  BY DEF WsInv, Refuse, LifeCycle
<1>2. /\ peer # "absent" /\ peer' \notin {"open", "absent"}
      /\ peer' \in {"absent", "open", "left", "vanished"}
  BY <1>1 DEF WsInv, LifeCycle, TypeOK
<1>3. /\ told = <<>> /\ sent = <<>> /\ draft = NoDraft /\ fragments = NoDraft
      /\ part = "start" /\ (post # "idle" => pushes > 0) /\ IsPrefix(told, sent)
  BY <1>1 DEF WsInv, LifeCycle, Parsing
<1>4. ~clientTerminated /\ net \o s.writeBuffer \in Seq(Out) /\ EndsWithClose(net, FALSE)
  <2>1. ~s.closed /\ s.writeBuffer = <<>> /\ net \in Seq(Out)
    BY <1>1, FreshIs DEF TypeOK
  <2>2. net \o <<>> = net
    BY <2>1
  <2>. QED  BY <2>1, <2>2 DEF WsInv, LifeCycle, Closing, EndsWithClose
<1>5. ASSUME Sound(s'), s'.closed, ~s'.reading, s'.buffer = <<>>, s'.writeBuffer = <<>>,
             ~Has(s'.tasks, "data"), ~Has(s'.tasks, "close"),
             \/ stage' = "refused" /\ ~Awaits(s')
             \/ stage' = "open" /\ Awaits(s') /\ ~s'.closeCallback,
             clientTerminated' \in BOOLEAN
      PROVE  WsInv' /\ s'.closed /\ s'.writeBuffer = <<>>
  <2>1. ~Active'
    BY <1>5 DEF Active
  <2>2. TypeOK'
    BY <1>1, <1>2, <1>5 DEF TypeOK, postVars, Sound
  <2>3. LifeCycle'
    <3>1. stage' = "open" => Settled(s')
      BY <1>5 DEF Settled
    <3>. QED  BY <1>1, <1>2, <1>3, <1>5, <2>1, <3>1 DEF LifeCycle, postVars
  <2>4. Parsing'
    BY <1>1, <1>3, <1>5, <2>1 DEF Parsing, postVars
  <2>5. Closing'
    <3>1. net' \o s'.writeBuffer = net
      BY <1>1, <1>5 DEF TypeOK
    <3>. QED  BY <1>4, <3>1, StillEnds DEF Closing
  <2>. QED  BY <1>5, <2>2, <2>3, <2>4, <2>5 DEF WsInv
<1>6. CASE stage' = "refused" /\ s' = [s EXCEPT !.closed = TRUE] /\ UNCHANGED clientTerminated
  <2>1. /\ s.tasks = <<>> /\ ~s.closed /\ ~s.reading
        /\ s.buffer = <<>> /\ s.writeBuffer = <<>> /\ s.pending = 0 /\ ~s.handler
        /\ s.interest = {} /\ ~s.closeCallback
    BY <1>1, FreshIs
  <2>2. /\ s' \in IO!Stream /\ s'.closed = TRUE /\ s'.buffer = s.buffer
        /\ s'.reading = s.reading /\ s'.pending = s.pending /\ s'.handler = s.handler
        /\ s'.interest = s.interest /\ s'.writeBuffer = s.writeBuffer /\ s'.tasks = s.tasks
        /\ s'.closeCallback = s.closeCallback
    BY <1>1, <1>6 DEF Sound, IO!Stream
  <2>3. ~Has(s'.tasks, "data") /\ ~Has(s'.tasks, "onClose") /\ ~Has(s'.tasks, "close")
    BY <2>1, <2>2, NoTasks
  <2>4. Sound(s')
    BY <1>1, <2>1, <2>2, <2>3 DEF Sound
  <2>5. ~Awaits(s')
    BY <2>1, <2>2, <2>3 DEF Awaits
  <2>6. clientTerminated' \in BOOLEAN
    BY <1>1, <1>6 DEF TypeOK
  <2>. QED  BY <1>5, <1>6, <2>1, <2>2, <2>3, <2>4, <2>5, <2>6
<1>7. CASE /\ stage' = "open" /\ s' = IO!Close(IO!SetCloseCallback(s))
           /\ clientTerminated' \in BOOLEAN
  <2>. DEFINE r == IO!SetCloseCallback(s)
  <2>1. /\ Sound(r) /\ ~r.closed /\ r.closeCallback /\ r.tasks = <<>> /\ ~r.reading
        /\ r.buffer = <<>> /\ r.writeBuffer = <<>>
    BY <1>1, CallbackSet
  <2>2. s' = IO!Close(r)
    BY <1>7
  <2>. HIDE DEF r
  <2>3. Shut(r, s')
    BY <2>1, <2>2, CloseShuts
  <2>4. ~Has(r.tasks, "data") /\ ~Has(r.tasks, "close") /\ Awaits(r)
    BY <2>1, NoTasks DEF Awaits
  <2>. QED  BY <1>5, <1>7, <2>1, <2>3, <2>4 DEF Shut, Alike
<1>8. \/ stage' = "refused" /\ s' = [s EXCEPT !.closed = TRUE] /\ UNCHANGED clientTerminated
      \/ /\ stage' = "open" /\ s' = IO!Close(IO!SetCloseCallback(s))
         /\ clientTerminated' \in BOOLEAN
  BY <1>1 DEF Refuse, Abort, TypeOK
<1>. QED  BY <1>6, <1>7, <1>8

\* close, which an ERROR put on the IOLoop.
LEMMA CloseTaskKeeps ==
  ASSUME WsInv, s.tasks # <<>>, Head(s.tasks).kind = "close", s' = IO!Close(IO!Started(s)),
         UNCHANGED <<inbox, stage, protocolVars, broken, net, peer, frames, draft, sent, tcp,
                     postVars, got>>
  PROVE  WsInv' /\ OwnStep
<1>. DEFINE r == IO!Started(s)
<1>1. TypeOK /\ Sound(s)
  BY DEF WsInv
<1>2. /\ Sound(r) /\ (Has(r.tasks, "close") => Has(s.tasks, "close")) /\ Has(s.tasks, "close")
      /\ r.closed = s.closed /\ r.reading = s.reading /\ r.buffer = s.buffer
      /\ r.closeCallback = s.closeCallback /\ r.writeBuffer = s.writeBuffer
      /\ Has(r.tasks, "data") <=> Has(s.tasks, "data")
      /\ Waiting(r.tasks) = Waiting(s.tasks)
      /\ Has(r.tasks, "onClose") <=> Has(s.tasks, "onClose")
  BY <1>1, StartedIs
<1>. HIDE DEF r
<1>3. Shut(r, s')
  BY <1>2, CloseShuts DEF r
<1>4. Shut(s, s')
  BY <1>2, <1>3 DEF Shut, Alike, Awaits
<1>5. /\ tcp = "reset" /\ Lost /\ stage \notin {"none", "request"}
      /\ UNCHANGED Elsewhere /\ (post' # "idle" => pushes' > 0) /\ clientTerminated' \in BOOLEAN
      /\ clientTerminated' = clientTerminated
  BY <1>1, <1>2, NotFresh DEF WsInv, LifeCycle, Elsewhere, protocolVars, postVars, TypeOK, Lost
<1>6. Sound(s') /\ LifeCycle' /\ Parsing'
  BY <1>4, <1>5, ClosesIt DEF Lost
<1>7. TypeOK'
  BY <1>1, <1>6 DEF TypeOK, protocolVars, postVars, Sound
<1>8. Closing'
  BY <1>4, StillEnds DEF WsInv, Closing, Shut, Alike
<1>9. OwnStep
  BY <1>4 DEF Shut, Alike, OwnStep
<1>. QED  BY <1>6, <1>7, <1>8, <1>9 DEF WsInv

\* on_connection_close.
LEMMA OnCloseKeeps ==
  ASSUME WsInv, s.tasks # <<>>, Head(s.tasks).kind = "onClose",
         OnConnectionClose(IO!Started(s)),
         UNCHANGED <<inbox, part, opcode, fragments, told, broken, net, peer, frames, draft, sent,
                     tcp, postVars, got>>
  PROVE  WsInv' /\ OwnStep /\ stage = "open" /\ s.closed
<1>. DEFINE r == IO!Started(s)
<1>1. TypeOK /\ Sound(s)
  BY DEF WsInv
<1>2. /\ Sound(r) /\ (Has(r.tasks, "close") => Has(s.tasks, "close"))
      /\ r.closed = s.closed /\ r.reading = s.reading /\ r.buffer = s.buffer
      /\ r.closeCallback = s.closeCallback /\ r.writeBuffer = s.writeBuffer
      /\ Has(r.tasks, "data") <=> Has(s.tasks, "data")
      /\ Waiting(r.tasks) = Waiting(s.tasks)
      /\ Has(s.tasks, "onClose") /\ ~Has(r.tasks, "onClose")
  BY <1>1, StartedIs
<1>. HIDE DEF r
<1>3. s.closed /\ ~s.closeCallback /\ ~s.reading /\ stage = "open"
  <2>1. s.closed /\ ~s.closeCallback /\ Awaits(s)
    BY <1>2 DEF WsInv, Sound, Awaits
  <2>2. ~s.reading
    BY <2>1 DEF WsInv, Sound
  <2>3. stage \notin {"none", "request"}
    BY <2>1, NotFresh
  <2>. QED  BY <1>1, <2>1, <2>2, <2>3 DEF WsInv, LifeCycle, TypeOK
<1>4. /\ Sound(s') /\ s'.closed /\ ~s'.reading /\ s'.buffer = s.buffer
      /\ s'.writeBuffer = s.writeBuffer
      /\ Waiting(s'.tasks) = Waiting(s.tasks)
      /\ Has(s'.tasks, "data") <=> Has(s.tasks, "data")
      /\ Has(s'.tasks, "close") => Has(s.tasks, "close")
      /\ ~Awaits(s')
      /\ clientTerminated' \in BOOLEAN
      /\ clientTerminated' = TRUE \/ (clientTerminated' = clientTerminated /\ since = -1)
  <2>1. CASE s' = IO!Close(r) /\ clientTerminated' = TRUE
    <3>1. Shut(r, s')
      BY <1>2, <2>1, CloseShuts
    <3>2. ~Awaits(r)
      BY <1>2, <1>3 DEF Awaits
    <3>. QED  BY <1>2, <2>1, <3>1, <3>2 DEF Shut, Alike
  <2>2. CASE s' = r /\ clientTerminated' = clientTerminated /\ since = -1
    BY <1>1, <1>2, <1>3, <2>2 DEF Awaits, TypeOK
  <2>3. \/ s' = IO!Close(r) /\ clientTerminated' = TRUE
        \/ s' = r /\ clientTerminated' = clientTerminated /\ since = -1
    BY DEF OnConnectionClose, Abort, r
  <2>. QED  BY <2>1, <2>2, <2>3
<1>5. Active' = Active /\ (Active => broken) /\ stage' = "over"
  <2>1. Active' <=> Active
    BY <1>3, <1>4 DEF Active
  <2>2. Active => broken
    BY <1>2 DEF WsInv, Parsing
  <2>. QED  BY <2>1, <2>2 DEF OnConnectionClose, Active
<1>6. TypeOK'
  BY <1>1, <1>4, <1>5 DEF TypeOK, postVars, Sound
<1>7. LifeCycle'
  BY <1>3, <1>4, <1>5 DEF WsInv, LifeCycle, postVars, Lost
<1>8. /\ Ahead' = Ahead /\ Now' = Now /\ Client' = Client /\ EmptyFrame' = EmptyFrame
  BY <1>4 DEF Ahead, Now, Current, Client, EmptyFrame
<1>9. Active => Readable(Ahead, Now, Client, clientTerminated')
  <2>. SUFFICES ASSUME Active  PROVE Readable(Ahead, Now, Client, clientTerminated')
    OBVIOUS
  <2>1. Readable(Ahead, Now, Client, clientTerminated)
    BY DEF WsInv, Parsing
  <2>2. SameShape(Now, Now)
    BY DEF SameShape
  <2>3. Readable(Ahead, Now, Client, TRUE)
    BY <2>1, <2>2, RunShape
  <2>. QED  BY <1>4, <2>1, <2>3
<1>10. Parsing'
  <2>1. Active' => Readable(Ahead', Now', Client', clientTerminated')
    BY <1>5, <1>8, <1>9
  <2>2. Has(s'.tasks, "data") => IF EmptyFrame' THEN Waiting(s'.tasks) = <<>>
                                 ELSE Len(Waiting(s'.tasks)) = 1
    BY <1>4, <1>8 DEF WsInv, Parsing
  <2>. QED  BY <1>4, <1>5, <2>1, <2>2 DEF WsInv, Parsing, postVars
<1>11. Closing'
  BY <1>3, <1>4 DEF WsInv, Closing
<1>12. OwnStep
  BY <1>3, <1>4 DEF OwnStep
<1>. QED  BY <1>3, <1>4, <1>6, <1>7, <1>10, <1>11, <1>12 DEF WsInv
-----------------------------------------------------------------------------
(* Steps that read                                                         *)

\* One unit goes to the callback, or all to the buffer: as much is ahead as before.
LEMMA AheadMoves ==
  ASSUME NEW us \in Seq(Unit), NEW rest \in Seq(Unit), NEW b \in Seq(Unit), NEW w \in Seq(Unit)
  PROVE  /\ w \o ((b \o us) \o rest) = w \o (b \o (us \o rest))
         /\ us # <<>> => <<us[1]>> \o (Tail(us) \o rest) = us \o rest
<1>1. w \o ((b \o us) \o rest) = w \o (b \o (us \o rest))
  BY SMTT(40)
<1>2. ASSUME us # <<>>
      PROVE  <<us[1]>> \o (Tail(us) \o rest) = us \o rest
  <2>. DEFINE a == <<us[1]>>
              t == Tail(us)
  <2>1. us = a \o t /\ a \in Seq(Unit) /\ t \in Seq(Unit)
    BY <1>2, FirstUnit
  <2>. HIDE DEF a, t
  <2>2. a \o (t \o rest) = (a \o t) \o rest
    BY <2>1, SMTT(40)
  <2>. QED  BY <2>1, <2>2 DEF a, t
<1>. QED  BY <1>1, <1>2

\* The invariant is kept by a READ event.
LEMMA ReadEventKeeps ==
  ASSUME WsInv, ReadEvent  PROVE WsInv' /\ OwnStep
<1>1. /\ s.handler /\ ~s.closed /\ TypeOK /\ Sound(s)
      /\ UNCHANGED <<peer, frames, draft, sent, tcp, stage, protocolVars, broken, postVars, net,
                     got>>
  BY DEF WsInv, ReadEvent, Listening
<1>2. PICK ch \in IO!Received(inbox, Disconnected) :
              /\ s' = IO!Relisten(IO!HandleRead(s, ch))
              /\ inbox' = Rest(inbox, ch)
  BY DEF ReadEvent, Rest
<1>. DEFINE us == ch.units
<1>3. inbox \in Seq(Unit)
  BY <1>1 DEF TypeOK
<1>4. /\ us \o inbox' = inbox /\ us \in Seq(Unit) /\ inbox' \in Seq(Unit)
      /\ \/ Shut(s, s') /\ Disconnected /\ inbox = <<>> /\ us = <<>>
         \/ s.reading /\ us # <<>> /\ Took(s, s', <<us[1]>>, Tail(us))
         \/ ~s.reading /\ Grew(s, s', us)
  BY <1>1, <1>2, <1>3, HandleReadOutcome
<1>. HIDE DEF us
<1>5. /\ stage = "open" /\ since # -1 /\ Active /\ ~clientTerminated /\ Awaits(s)
      /\ ~Has(s.tasks, "onClose")
  <2>1. stage \notin {"none", "request"}
    BY <1>1, NotFresh
  <2>2. stage = "open"
    BY <1>1, <2>1 DEF WsInv, LifeCycle, TypeOK
  <2>. QED  BY <1>1, <2>2 DEF WsInv, LifeCycle, Settled, Active, Sound
<1>6. TypeOK' /\ Closing' /\ OwnStep
  <2>1. Sound(s') /\ s'.writeBuffer = s.writeBuffer
    BY <1>4 DEF Shut, Alike, Took, Grew
  <2>2. TypeOK'
    BY <1>1, <1>4, <2>1 DEF TypeOK, protocolVars, postVars, Sound
  <2>3. Closing'
    BY <1>1, <2>1, StillEnds DEF WsInv, Closing
  <2>4. OwnStep
    BY <1>1, <2>1 DEF OwnStep
  <2>. QED  BY <2>2, <2>3, <2>4
<1>7. CASE Shut(s, s') /\ Disconnected /\ inbox = <<>> /\ us = <<>>
  <2>1. Lost
    BY <1>7, EndsIfGone DEF Disconnected
  <2>2. inbox' = inbox
    BY <1>4, <1>7
  <2>3. /\ UNCHANGED Elsewhere /\ (post' # "idle" => pushes' > 0) /\ clientTerminated' \in BOOLEAN
        /\ clientTerminated' = clientTerminated
    BY <1>1, <2>2 DEF WsInv, LifeCycle, Elsewhere, protocolVars, postVars, TypeOK
  <2>4. Sound(s') /\ LifeCycle' /\ Parsing'
    BY <1>1, <1>5, <1>7, <2>1, <2>3, ClosesIt DEF Lost
  <2>. QED  BY <1>6, <2>4 DEF WsInv
<1>8. CASE \/ s.reading /\ us # <<>> /\ Took(s, s', <<us[1]>>, Tail(us))
           \/ ~s.reading /\ Grew(s, s', us)
  <2>1. /\ Sound(s') /\ ~s'.closed /\ s'.closeCallback = s.closeCallback
        /\ ~Has(s'.tasks, "onClose") /\ (Has(s'.tasks, "close") => Has(s.tasks, "close"))
        /\ Has(s'.tasks, "data") /\ ~s'.reading
        /\ Has(s'.tasks, "data")
    BY <1>1, <1>5, <1>8 DEF Took, Grew, Active
  <2>2. Ahead' = Ahead
    <3>. DEFINE w == Waiting(s.tasks)
                b == s.buffer
    <3>1. w \in Seq(Unit) /\ b \in Seq(Unit) /\ Ahead = w \o (b \o inbox)
      BY AheadType DEF Ahead
    <3>2. CASE s.reading /\ us # <<>> /\ Took(s, s', <<us[1]>>, Tail(us))
      <4>1. ~Has(s.tasks, "data") /\ b = <<>>
        BY <1>1, <3>2 DEF Sound
      <4>2. w = <<>>
        BY <4>1 DEF Waiting
      <4>3. Ahead = inbox
        BY <1>3, <3>1, <4>1, <4>2
      <4>4. Ahead' = <<us[1]>> \o (Tail(us) \o inbox')
        BY <3>2 DEF Ahead, Took
      <4>5. <<us[1]>> \o (Tail(us) \o inbox') = us \o inbox'
        BY <1>4, <3>1, <3>2, AheadMoves
      <4>. QED  BY <1>4, <4>3, <4>4, <4>5
    <3>3. CASE ~s.reading /\ Grew(s, s', us)
      <4>1. Ahead' = w \o ((b \o us) \o inbox')
        BY <3>3 DEF Ahead, Grew
      <4>. HIDE DEF w, b
      <4>2. w \o ((b \o us) \o inbox') = w \o (b \o (us \o inbox'))
        <5>1. us \in Seq(Unit) /\ inbox' \in Seq(Unit) /\ w \in Seq(Unit) /\ b \in Seq(Unit)
          BY <1>4, <3>1
        <5>. QED  BY <5>1, AheadMoves, SMTT(40)
      <4>. QED  BY <1>4, <3>1, <4>1, <4>2
    <3>. QED  BY <1>8, <3>2, <3>3
  <2>3. /\ Now' = Now /\ Client' = Client /\ EmptyFrame' = EmptyFrame /\ Active'
        /\ clientTerminated' = clientTerminated
    BY <1>1, <2>1 DEF Now, Current, Client, EmptyFrame, Active, protocolVars
  <2>4. LifeCycle'
    <3>1. Awaits(s') /\ Settled(s')
      BY <1>5, <2>1 DEF Awaits, Settled
    <3>. QED  BY <1>1, <1>5, <2>1, <2>3, <3>1 DEF WsInv, LifeCycle, protocolVars, postVars
  <2>5. Parsing'
    <3>1. Active' => Readable(Ahead', Now', Client', clientTerminated')
      BY <1>5, <2>2, <2>3 DEF WsInv, Parsing
    <3>2. IF EmptyFrame' THEN Waiting(s'.tasks) = <<>> ELSE Len(Waiting(s'.tasks)) = 1
      <4>1. CASE s.reading
        <5>1. ~EmptyFrame /\ Waiting(s'.tasks) = <<us[1]>>
          BY <1>8, <4>1 DEF WsInv, Parsing, Took
        <5>2. Len(<<us[1]>>) = 1
          OBVIOUS
        <5>. QED  BY <2>3, <5>1, <5>2
      <4>2. CASE ~s.reading
        <5>1. Has(s.tasks, "data") /\ s'.tasks = s.tasks
          BY <1>5, <1>8, <4>2 DEF Active, Grew
        <5>. QED  BY <2>3, <5>1 DEF WsInv, Parsing
      <4>. QED  BY <4>1, <4>2
    <3>3. IsPrefix(told', sent') /\ (part' # "start" => opcode'.op # "reserved")
      BY <1>1, <1>5 DEF WsInv, Parsing, protocolVars
    <3>. QED  BY <1>1, <1>5, <2>1, <2>3, <3>1, <3>2, <3>3 DEF Parsing
  <2>. QED  BY <1>6, <2>1, <2>4, <2>5 DEF WsInv
<1>. QED  BY <1>4, <1>7, <1>8

\* The stream is closed for good as far as reading goes.
Halted(r, q) ==
  /\ Sound(q) /\ q.closed /\ ~q.reading /\ ~q.closeCallback /\ ~Has(q.tasks, "data")
  /\ Awaits(q) <=> Awaits(r)
  /\ Has(q.tasks, "close") => Has(r.tasks, "close")

\* Closed with no data callback due: the close callback is on the IOLoop.
LEMMA ShutHalts ==
  ASSUME NEW r, NEW q, Shut(r, q), ~Has(r.tasks, "data")
  PROVE  Halted(r, q) /\ q.writeBuffer = r.writeBuffer
BY DEF Shut, Alike, Halted

\* A registered connection, when the stream that a callback was run with is r.
Reached(r) ==
  /\ Sound(r) /\ ~Has(r.tasks, "data") /\ ~r.reading
  /\ stage' \in {"open", "over"} /\ since' # -1 /\ peer # "absent"
  /\ stage' = "open" => Awaits(r)
  /\ stage' = "over" => ~Awaits(r) /\ r.closed /\ clientTerminated /\ broken'
  /\ clientTerminated => r.closed /\ broken'
  /\ r.closed => Lost /\ (broken' \/ tcp = "reset" \/ inbox = <<>>)
  /\ Has(r.tasks, "onClose") => broken'
  /\ Has(r.tasks, "close") => tcp = "reset"
  /\ tcp # "up" => peer # "open"
  /\ clientTerminated \in BOOLEAN /\ inbox \in Seq(Unit)
  /\ post' # "idle" => pushes' > 0
  /\ IsPrefix(told', sent)
  /\ UNCHANGED <<peer, frames, draft, sent, tcp>>

\* It reads no more.
LEMMA Stops ==
  ASSUME NEW r, Reached(r), Halted(r, s'), Lost, clientTerminated => clientTerminated',
         broken' \/ tcp = "reset" \/ told' = sent
  PROVE  LifeCycle' /\ Parsing'
<1>1. ~Active' /\ ~Has(s'.tasks, "data") /\ ~s'.reading
  BY DEF Halted, Active
<1>2. Settled(s')
  BY DEF Halted, Settled
<1>3. LifeCycle'
  BY <1>1, <1>2 DEF LifeCycle, Reached, Halted, Lost
<1>4. Parsing'
  BY <1>1 DEF Parsing, Reached
<1>. QED  BY <1>3, <1>4

\* It waits for n more units, which the parser p reads.
LEMMA ReadsOn ==
  ASSUME NEW r, Reached(r), NEW n \in {0, 1}, ~IO!ReadRaises(r, n), NEW next, Read(r, n, next),
         clientTerminated' = clientTerminated,
         EmptyFrame' <=> n = 0, part' # "start" => opcode'.op # "reserved",
         Readable(r.buffer \o inbox, Now', Client, clientTerminated)
  PROVE  /\ Sound(s') /\ s'.writeBuffer = r.writeBuffer /\ inbox' \in Seq(Unit)
         /\ r.closed => s'.closed
         /\ LifeCycle' /\ Parsing'
<1>1. PICK ch \in Chunks(r, n) :
              /\ s' = IO!MaybeAddErrorListener(IO!ReadBytes(r, n, ch))
              /\ inbox' = Rest(inbox, ch)
  BY DEF Read, Rest
<1>. DEFINE us == ch.units
            b == r.buffer
            x == b \o us
<1>2. /\ us \o inbox' = inbox /\ us \in Seq(Unit) /\ inbox' \in Seq(Unit)
      /\ \/ n = 0 /\ Took(r, s', <<>>, b) /\ us = <<>>
         \/ n = 1 /\ x # <<>> /\ Took(r, s', <<x[1]>>, Tail(x))
         \/ n = 1 /\ Shut(r, s') /\ Disconnected /\ x = <<>> /\ inbox = <<>>
         \/ n = 1 /\ Waits(r, s') /\ x = <<>>
  BY <1>1, ReadOutcome DEF Reached
<1>3. b \in Seq(Unit) /\ x \in Seq(Unit) /\ inbox \in Seq(Unit)
  BY <1>2, TaskTypes DEF Reached, Sound
<1>9. n = 1 /\ x = <<>> => ~r.closed
  <2>1. x = <<>> => Len(b) = 0
    <3>1. Len(b) \in Nat /\ Len(us) \in Nat /\ Len(x) = Len(b) + Len(us)
      BY <1>2, <1>3
    <3>. HIDE DEF x, b
    <3>. QED  BY <3>1
  <2>. QED  BY <2>1 DEF IO!ReadRaises, Reached, Sound, IO!Stream
<1>. HIDE DEF us, b
<1>5. x \o inbox' = b \o inbox
  <2>1. us \in Seq(Unit) /\ inbox' \in Seq(Unit)
    BY <1>2
  <2>2. b \in Seq(Unit)
    BY <1>3
  <2>3. (b \o us) \o inbox' = b \o (us \o inbox')
    BY <2>1, <2>2
  <2>. QED  BY <1>2, <2>3
<1>. HIDE DEF x
<1>4. /\ Sound(s') /\ s'.writeBuffer = r.writeBuffer
      /\ r.closed => s'.closed
  BY <1>2, <1>9 DEF Took, Shut, Waits, Alike
<1>6. Client' = Client
  BY DEF Client, Reached
<1>7. CASE n = 1 /\ Shut(r, s') /\ Disconnected /\ x = <<>> /\ inbox = <<>>
  <2>1. Halted(r, s')
    BY <1>7, ShutHalts DEF Reached
  <2>2. Lost
    BY <1>7 DEF Reached, Disconnected, Lost
  <2>3. b \o inbox = <<>>
    <3>1. <<>> \o inbox' = <<>>
      BY <1>2, <1>7
    <3>. QED  BY <1>5, <1>7, <3>1
  <2>4. broken' \/ tcp = "reset" \/ told' = sent
    <3>. SUFFICES ASSUME tcp # "reset", ~clientTerminated  PROVE told' = sent
      BY DEF Reached
    <3>1. Readable(<<>>, Now', Client, FALSE)
      BY <2>3 DEF Reached, b
    <3>2. Client.tcp # "reset" /\ Client.sent = sent /\ <<>> \in Seq(Unit)
      BY DEF Client
    <3>3. Now'.told = sent
      BY <3>1, <3>2, RunHead
    <3>4. Now'.told = told'
      BY <1>7 DEF Now, Current
    <3>. QED  BY <3>3, <3>4
  <2>. QED  BY <1>2, <1>4, <2>1, <2>2, <2>4, Stops
<1>8. CASE \/ n = 0 /\ Took(r, s', <<>>, b) /\ us = <<>>
           \/ n = 1 /\ x # <<>> /\ Took(r, s', <<x[1]>>, Tail(x))
           \/ n = 1 /\ Waits(r, s') /\ x = <<>>
  <2>1. /\ s'.closed <=> r.closed
        /\ s'.closeCallback = r.closeCallback
        /\ Has(s'.tasks, "onClose") <=> Has(r.tasks, "onClose")
        /\ Has(s'.tasks, "close") => Has(r.tasks, "close")
        /\ Has(s'.tasks, "data") \/ s'.reading
        /\ s'.reading => n = 1
        /\ s'.closed => Has(s'.tasks, "data")
    <3>1. CASE Took(r, s', <<>>, b) \/ Took(r, s', <<x[1]>>, Tail(x))
      BY <3>1 DEF Took
    <3>2. CASE n = 1 /\ Waits(r, s') /\ x = <<>>
      BY <1>9, <3>2 DEF Waits, Alike
    <3>. QED  BY <1>8, <3>1, <3>2
  <2>2. Ahead' = b \o inbox
    <3>1. CASE n = 0 /\ Took(r, s', <<>>, b) /\ us = <<>>
      <4>1. Ahead' = <<>> \o (b \o inbox')
        BY <3>1 DEF Ahead, Took
      <4>2. <<>> \o (b \o inbox') = b \o inbox' /\ inbox' = inbox
        BY <1>2, <1>3, <3>1
      <4>. QED  BY <4>1, <4>2
    <3>2. CASE n = 1 /\ x # <<>> /\ Took(r, s', <<x[1]>>, Tail(x))
      <4>1. Ahead' = <<x[1]>> \o (Tail(x) \o inbox')
        BY <3>2 DEF Ahead, Took
      <4>2. <<x[1]>> \o (Tail(x) \o inbox') = x \o inbox'
        BY <1>2, <1>3, <3>2, AheadMoves
      <4>. QED  BY <1>5, <4>1, <4>2
    <3>3. CASE n = 1 /\ Waits(r, s') /\ x = <<>>
      <4>1. ~Has(s'.tasks, "data") /\ s'.buffer = b /\ s'.reading
        BY <3>3 DEF Waits, Alike, Reached, b
      <4>2. s'.buffer = <<>>
        BY <1>4, <4>1 DEF Sound
      <4>3. Ahead' = <<>> \o (<<>> \o inbox')
        BY <4>1, <4>2 DEF Ahead, Waiting
      <4>4. <<>> \o (<<>> \o inbox') = inbox' /\ <<>> \o inbox' = inbox'
        BY <1>2
      <4>. QED  BY <1>5, <3>3, <4>3, <4>4
    <3>. QED  BY <1>8, <3>1, <3>2, <3>3
  <2>3. Active'
    BY <2>1 DEF Active
  <2>4. LifeCycle'
    <3>1. Awaits(s') <=> Awaits(r)
      BY <2>1 DEF Awaits
    <3>2. Settled(s')
      BY <2>1 DEF Settled
    <3>. QED  BY <2>1, <3>1, <3>2 DEF LifeCycle, Reached, Lost
  <2>5. Parsing'
    <3>1. Readable(Ahead', Now', Client', clientTerminated')
      BY <1>6, <2>2 DEF b
    <3>2. Has(s'.tasks, "data") => IF EmptyFrame' THEN Waiting(s'.tasks) = <<>>
                                   ELSE Len(Waiting(s'.tasks)) = 1
      <4>1. \A u : Len(<<u>>) = 1
        OBVIOUS
      <4>. QED  BY <1>8, <4>1 DEF Took, Waits, Reached
    <3>3. clientTerminated' \/ Has(s'.tasks, "onClose") \/ stage' = "over" => broken'
      BY <2>1 DEF Reached
    <3>4. s'.closed /\ ~broken' /\ tcp' # "reset" => inbox' = <<>>
      <4>. SUFFICES ASSUME s'.closed, ~broken', tcp' # "reset"  PROVE inbox' = <<>>
        OBVIOUS
      <4>1. inbox = <<>>
        BY <2>1 DEF Reached
      <4>2. Len(us \o inbox') = 0 /\ Len(us \o inbox') = Len(us) + Len(inbox')
        BY <1>2, <4>1
      <4>. QED  BY <1>2, <4>2
    <3>5. IsPrefix(told', sent') /\ (s'.reading => ~EmptyFrame')
      BY <2>1 DEF Reached
    <3>. QED  BY <2>3, <3>1, <3>2, <3>3, <3>4, <3>5 DEF Parsing
  <2>. QED  BY <1>2, <1>4, <2>4, <2>5
<1>. QED  BY <1>2, <1>7, <1>8
\* A callback that reads on.
LEMMA ReadsOnOrStops ==
  ASSUME NEW r, Reached(r), NEW n \in {0, 1}, NEW next, ReadOn(r, n, next), NEW p,
         part' = next => Now' = p /\ (EmptyFrame' <=> n = 0),
         part' = next /\ next # "start" => opcode'.op # "reserved",
         n = 1 => p.told = told',
         Readable(r.buffer \o inbox, p, Client, clientTerminated)
  PROVE  /\ Sound(s') /\ s'.writeBuffer = r.writeBuffer /\ inbox' \in Seq(Unit)
         /\ r.closed => s'.closed
         /\ clientTerminated' \in BOOLEAN /\ part' \in {part, next}
         /\ LifeCycle' /\ Parsing'
<1>1. CASE IO!ReadRaises(r, n)
  <2>1. /\ s' = IO!MaybeAddErrorListener(IO!Close(r)) /\ clientTerminated' = TRUE
        /\ part' = part /\ inbox' = inbox
    BY <1>1 DEF ReadOn
  <2>2. r.closed /\ n = 1 /\ r.buffer = <<>>
    <3>1. r.buffer \in Seq(Unit)
      BY TaskTypes DEF Reached, Sound
    <3>2. r.closed /\ n > Len(r.buffer)
      BY <1>1 DEF IO!ReadRaises
    <3>3. Len(r.buffer) \in Nat /\ (Len(r.buffer) = 0 => r.buffer = <<>>)
      BY <3>1
    <3>. QED  BY <3>2, <3>3
  <2>3. Shut(r, IO!Close(r))
    BY CloseShuts DEF Reached
  <2>4. Shut(IO!Close(r), s')
    BY <2>1, <2>3, ErrorListener DEF Shut, Alike
  <2>5. Shut(r, s')
    BY <2>3, <2>4, ShutTwice
  <2>6. Halted(r, s') /\ s'.writeBuffer = r.writeBuffer
    BY <2>5, ShutHalts DEF Reached
  <2>7. broken' \/ tcp = "reset" \/ told' = sent
    <3>. SUFFICES ASSUME ~broken', tcp # "reset"  PROVE told' = sent
      OBVIOUS
    <3>1. inbox = <<>> /\ clientTerminated = FALSE
      BY <2>2 DEF Reached
    <3>2. r.buffer \o inbox = <<>> /\ <<>> \in Seq(Unit)
      BY <2>2, <3>1
    <3>3. Readable(<<>>, p, Client, FALSE)
      BY <3>1, <3>2
    <3>4. Client.tcp # "reset" /\ Client.sent = sent
      BY DEF Client
    <3>5. p.told = sent
      BY <3>2, <3>3, <3>4, RunHead
    <3>. QED  BY <2>2, <3>5
  <2>8. LifeCycle' /\ Parsing'
    BY <2>1, <2>2, <2>6, <2>7, Stops DEF Reached
  <2>. QED  BY <2>1, <2>6, <2>8 DEF Halted, Reached
<1>2. CASE ~IO!ReadRaises(r, n)
  <2>1. Read(r, n, next) /\ clientTerminated' = clientTerminated
    BY <1>2 DEF ReadOn
  <2>2. part' = next
    BY <2>1 DEF Read
  <2>3. EmptyFrame' <=> n = 0
    BY <2>2
  <2>4. Readable(r.buffer \o inbox, Now', Client, clientTerminated)
    BY <2>2
  <2>5. /\ Sound(s') /\ s'.writeBuffer = r.writeBuffer /\ inbox' \in Seq(Unit)
        /\ r.closed => s'.closed
        /\ LifeCycle' /\ Parsing'
    BY <1>2, <2>1, <2>2, <2>3, <2>4, ReadsOn
  <2>. QED  BY <2>1, <2>2, <2>5 DEF Reached
<1>. QED  BY <1>1, <1>2

\* A callback that brings what was read: the stream it runs on, and the frames behind it.
LEMMA DataTask ==
  ASSUME WsInv, s.tasks # <<>>, Head(s.tasks).kind = "data"
  PROVE  LET r == IO!Started(s)
             data == Head(s.tasks).data
         IN  /\ Sound(r) /\ ~Has(r.tasks, "data") /\ ~r.reading
             /\ r.writeBuffer = s.writeBuffer /\ r.closed = s.closed
             /\ Awaits(r) <=> Awaits(s)
             /\ Has(r.tasks, "onClose") => broken
             /\ Has(r.tasks, "close") => tcp = "reset"
             /\ stage \in {"open", "over"} /\ since # -1 /\ clientTerminated \in BOOLEAN
             /\ clientTerminated => broken
             /\ r.closed => broken \/ tcp = "reset" \/ inbox = <<>>
             /\ stage = "over" => broken /\ clientTerminated
             /\ part # "start" => opcode.op # "reserved"
             /\ EmptyFrame => /\ data = <<>>
                              /\ Readable(r.buffer \o inbox, Now, Client, clientTerminated)
             /\ ~EmptyFrame =>
                  /\ Len(data) = 1 /\ data[1] \in Unit /\ data[1].part = part
                  /\ Readable(r.buffer \o inbox, UnitRead(Current, data[1]), Client,
                              clientTerminated)
                  /\ ~clientTerminated => Truthful(UnitRead(Current, data[1]), Client)
<1>. DEFINE r == IO!Started(s)
            task == Head(s.tasks)
            data == task.data
<1>1. TypeOK /\ Sound(s)
  BY DEF WsInv
<1>2. /\ Sound(r) /\ task \in IO!Task /\ (Has(r.tasks, "close") => Has(s.tasks, "close"))
      /\ r.closed = s.closed /\ r.reading = s.reading /\ r.buffer = s.buffer
      /\ r.closeCallback = s.closeCallback /\ r.writeBuffer = s.writeBuffer
      /\ Has(s.tasks, "data") /\ ~Has(r.tasks, "data") /\ Waiting(s.tasks) = data
      /\ Has(r.tasks, "onClose") <=> Has(s.tasks, "onClose")
  BY <1>1, StartedIs
<1>3. data \in Seq(Unit)
  BY <1>2 DEF IO!Task
<1>. HIDE DEF r, task
<1>4. Active /\ stage \in {"open", "over"} /\ since # -1 /\ clientTerminated \in BOOLEAN
  <2>1. Active
    BY <1>2 DEF Active
  <2>2. stage \notin {"none", "request"}
    BY NotFresh
  <2>3. stage # "refused" /\ since # -1
    BY <2>1 DEF WsInv, LifeCycle
  <2>. QED  BY <1>1, <2>1, <2>2, <2>3 DEF TypeOK
<1>5. /\ Awaits(r) <=> Awaits(s)
      /\ Has(r.tasks, "onClose") => broken
      /\ Has(r.tasks, "close") => tcp = "reset"
      /\ clientTerminated => broken
      /\ r.closed => broken \/ tcp = "reset" \/ inbox = <<>>
      /\ stage = "over" => broken /\ clientTerminated
      /\ part # "start" => opcode.op # "reserved"
      /\ ~r.reading
  BY <1>1, <1>2, <1>4 DEF WsInv, Parsing, LifeCycle, Awaits, Sound
<1>6. /\ Readable(data \o (r.buffer \o inbox), Now, Client, clientTerminated)
      /\ IF EmptyFrame THEN data = <<>> ELSE Len(data) = 1
  BY <1>2, <1>4 DEF WsInv, Parsing, Ahead
<1>7. r.buffer \in Seq(Unit) /\ inbox \in Seq(Unit) /\ r.buffer \o inbox \in Seq(Unit)
  <2>1. r.buffer \in Seq(Unit) /\ inbox \in Seq(Unit)
    BY <1>1, <1>2, TaskTypes DEF Sound, TypeOK
  <2>. QED  BY <2>1
<1>. DEFINE rest == r.buffer \o inbox
<1>. HIDE DEF data, rest
<1>8. CASE EmptyFrame
  <2>1. data = <<>>
    BY <1>6, <1>8
  <2>2. <<>> \o rest = rest
    BY <1>7 DEF rest
  <2>3. Readable(rest, Now, Client, clientTerminated)
    BY <1>6, <2>1, <2>2 DEF rest
  <2>. QED  BY <1>2, <1>4, <1>5, <1>8, <2>1, <2>3 DEF r, rest, data, task
<1>9. CASE ~EmptyFrame
  <2>1. Len(data) = 1
    BY <1>6, <1>9
  <2>2. data = <<data[1]>> /\ data[1] \in Unit
    <3>1. data # <<>>
      BY <1>3, <2>1
    <3>2. SubSeq(data, 1, 1) = data
      BY <1>3, <2>1, SubSeqFull
    <3>. QED  BY <1>3, <3>1, <3>2, FirstUnit
  <2>. DEFINE u == data[1]
              all == data \o rest
  <2>3. /\ all \in Seq(Unit) /\ all # <<>> /\ all[1] = u /\ Tail(all) = rest
    <3>1. u \in Unit /\ rest \in Seq(Unit) /\ data = <<u>>
      BY <1>7, <2>2 DEF rest
    <3>. HIDE DEF u
    <3>2. /\ <<u>> \o rest \in Seq(Unit) /\ <<u>> \o rest # <<>>
          /\ (<<u>> \o rest)[1] = u /\ Tail(<<u>> \o rest) = rest
      <4>1. u \in Unit /\ rest \in Seq(Unit)
        BY <3>1
      <4>. QED  BY <4>1
    <3>. QED  BY <3>1, <3>2
  <2>. HIDE DEF all, u
  <2>4. Readable(all, Now, Client, clientTerminated)
    BY <1>6 DEF all, rest
  <2>5. /\ u.part = Now.part /\ Readable(rest, UnitRead(Now, u), Client, clientTerminated)
        /\ ~clientTerminated => Truthful(UnitRead(Now, u), Client)
    <3>1. clientTerminated \in BOOLEAN
      BY <1>4
    <3>2. /\ all[1].part = Now.part
          /\ Readable(Tail(all), UnitRead(Now, all[1]), Client, clientTerminated)
          /\ ~clientTerminated => Truthful(UnitRead(Now, all[1]), Client)
      BY <2>3, <2>4, <3>1, RunTail, Zenon
    <3>. QED  BY <2>3, <3>2
  <2>6. Now = Current /\ Now.part = part
    BY <1>9 DEF Now, Current
  <2>. QED  BY <1>2, <1>4, <1>5, <1>9, <2>1, <2>2, <2>5, <2>6 DEF r, rest, data, task, u
<1>. QED  BY <1>8, <1>9

\* The stream of such a callback, if it does not break anything itself.
LEMMA DataReached ==
  ASSUME WsInv, s.tasks # <<>>, Head(s.tasks).kind = "data",
         UNCHANGED <<peer, frames, draft, sent, tcp, postVars, stage>>,
         broken => broken', IsPrefix(told', sent)
  PROVE  Reached(IO!Started(s))
<1>. DEFINE r == IO!Started(s)
<1>1. /\ Sound(r) /\ ~Has(r.tasks, "data") /\ ~r.reading
      /\ r.closed = s.closed
      /\ Awaits(r) <=> Awaits(s)
      /\ Has(r.tasks, "onClose") => broken
      /\ Has(r.tasks, "close") => tcp = "reset"
      /\ stage \in {"open", "over"} /\ since # -1 /\ clientTerminated \in BOOLEAN
      /\ clientTerminated => broken
      /\ r.closed => broken \/ tcp = "reset" \/ inbox = <<>>
      /\ stage = "over" => broken /\ clientTerminated
  BY DataTask
<1>. HIDE DEF r
<1>2. inbox \in Seq(Unit)
  BY DEF WsInv, TypeOK
<1>3. Reached(r)
  BY <1>1, <1>2 DEF Reached, WsInv, LifeCycle, postVars
<1>. QED  BY <1>3 DEF r
\* What is left to show of such a callback.
LEMMA DataKeeps ==
  ASSUME WsInv, UNCHANGED <<peer, frames, draft, sent, tcp, postVars, got, stage>>,
         Sound(s'), inbox' \in Seq(Unit), clientTerminated' \in BOOLEAN,
         part' \in {"start", "key", "data"}, opcode' \in Header,
         fragments' \in {NoDraft} \cup Message, told' \in Seq(Message),
         broken' \in BOOLEAN, net' \in Seq(Out), LifeCycle', Parsing', OwnStep
  PROVE  WsInv' /\ OwnStep
<1>1. TypeOK'
  BY DEF WsInv, TypeOK, Message, postVars, Sound
<1>2. Closing'
  BY OwnStepEnds DEF Closing
<1>. QED  BY <1>1, <1>2 DEF WsInv

\* The types of the protocol object's variables.
LEMMA ProtocolType ==
  ASSUME WsInv
  PROVE  /\ part \in {"start", "key", "data"} /\ opcode \in Header
         /\ fragments \in {NoDraft} \cup Message /\ told \in Seq(Message) /\ broken \in BOOLEAN
         /\ net \in Seq(Out) /\ inbox \in Seq(Unit) /\ sent \in Seq(Message)
         /\ clientTerminated \in BOOLEAN /\ Current \in Parser
BY DEF WsInv, TypeOK, Message, Parser, Current

\* The write buffer is as it was, and a stream that was closed still is.
LEMMA NothingWritten ==
  ASSUME WsInv, net' = net, s'.writeBuffer = s.writeBuffer, s.closed => s'.closed
  PROVE  OwnStep
BY DEF OwnStep

\* The invariant is kept by _on_frame_start.
LEMMA OnFrameStartKeeps ==
  ASSUME WsInv, s.tasks # <<>>, Head(s.tasks).kind = "data", part = "start",
         OnFrameStart(IO!Started(s), Head(s.tasks).data[1]),
         UNCHANGED <<peer, frames, draft, sent, tcp, postVars, got, stage>>
  PROVE  WsInv' /\ OwnStep
<1>. DEFINE r == IO!Started(s)
            u == Head(s.tasks).data[1]
            p == UnitRead(Current, u)
<1>1. ~EmptyFrame
  BY DEF EmptyFrame
<1>2. /\ Sound(r) /\ ~Has(r.tasks, "data") /\ r.writeBuffer = s.writeBuffer
      /\ r.closed = s.closed /\ clientTerminated \in BOOLEAN
      /\ clientTerminated => broken
      /\ u \in Unit /\ u.part = "start"
      /\ Readable(r.buffer \o inbox, p, Client, clientTerminated)
      /\ ~clientTerminated => Truthful(p, Client)
  BY <1>1, DataTask
<1>3. /\ fragments' = fragments /\ told' = told /\ broken' = broken /\ net' = net
      /\ opcode' = u.header
  BY DEF OnFrameStart
<1>4. u.header \in Header
  BY <1>2 DEF Unit
<1>5. Reached(r)
  BY <1>3, DataReached DEF WsInv, Parsing
<1>6. /\ p.part = "key" /\ p.told = told /\ p.live = (u.header.op # "reserved")
      /\ p = [part |-> "key", op |-> u.header, fragments |-> fragments, told |-> told,
              live |-> u.header.op # "reserved"]
  BY <1>2 DEF UnitRead, Current
<1>. HIDE DEF r, u, p
<1>7. /\ part \in {"start", "key", "data"}
      /\ fragments \in {NoDraft} \cup Message /\ told \in Seq(Message) /\ broken \in BOOLEAN
      /\ net \in Seq(Out) /\ inbox \in Seq(Unit)
  BY ProtocolType
<1>8. ASSUME Sound(s'), s'.writeBuffer = r.writeBuffer, inbox' \in Seq(Unit),
             r.closed => s'.closed, clientTerminated' \in BOOLEAN, part' \in {part, "key"},
             LifeCycle', Parsing'
      PROVE  WsInv' /\ OwnStep
  <2>1. OwnStep
    BY <1>2, <1>3, <1>8, NothingWritten
  <2>2. part' \in {"start", "key", "data"}
    BY <1>7, <1>8
  <2>3. opcode' \in Header /\ fragments' \in {NoDraft} \cup Message /\ told' \in Seq(Message)
        /\ broken' \in BOOLEAN /\ net' \in Seq(Out)
    BY <1>3, <1>4, <1>7
  <2>. QED  BY <1>8, <2>1, <2>2, <2>3, DataKeeps
<1>9. CASE u.header.op = "reserved"
  <2>1. /\ s' = IO!Close(r) /\ clientTerminated' = TRUE /\ part' = part /\ inbox' = inbox
    BY <1>9 DEF OnFrameStart, Abort, r, u
  <2>2. Halted(r, s') /\ s'.writeBuffer = r.writeBuffer
    BY <1>2, <2>1, CloseShuts, ShutHalts
  <2>3. Lost /\ (broken' \/ told' = sent)
    <3>1. CASE clientTerminated
      BY <1>2, <1>3, <1>5, <3>1 DEF WsInv, LifeCycle, Reached, Lost
    <3>2. CASE ~clientTerminated
      <4>1. ~p.live
        BY <1>6, <1>9
      <4>. QED  BY <1>2, <1>3, <1>6, <3>2, <4>1 DEF Truthful, Client, Lost
    <3>. QED  BY <3>1, <3>2
  <2>4. LifeCycle' /\ Parsing'
    BY <1>5, <2>1, <2>2, <2>3, Stops
  <2>. QED  BY <1>7, <1>8, <2>1, <2>2, <2>4 DEF Halted
<1>10. CASE u.header.op # "reserved"
  <2>1. ReadOn(r, 1, "key")
    BY <1>10 DEF OnFrameStart, r, u
  <2>2. ASSUME part' = "key"
        PROVE  Now' = p /\ (EmptyFrame' <=> 1 = 0) /\ opcode'.op # "reserved"
    <3>1. ~EmptyFrame'
      BY <2>2 DEF EmptyFrame
    <3>2. Now' = [part |-> "key", op |-> u.header, fragments |-> fragments, told |-> told,
                  live |-> TRUE]
      BY <1>3, <2>2, <3>1 DEF Now, Current
    <3>3. (u.header.op # "reserved") = TRUE
      BY <1>10
    <3>4. p = [part |-> "key", op |-> u.header, fragments |-> fragments, told |-> told,
               live |-> TRUE]
      BY <1>6, <3>3
    <3>5. opcode'.op # "reserved"
      BY <1>3, <1>10
    <3>6. EmptyFrame' <=> 1 = 0
      BY <3>1
    <3>. QED  BY <3>2, <3>4, <3>5, <3>6
  <2>3. p.told = told'
    BY <1>3, <1>6
  <2>4. /\ Sound(s') /\ s'.writeBuffer = r.writeBuffer /\ inbox' \in Seq(Unit)
        /\ r.closed => s'.closed
        /\ clientTerminated' \in BOOLEAN /\ part' \in {part, "key"}
        /\ LifeCycle' /\ Parsing'
    BY <1>2, <1>5, <2>1, <2>2, <2>3, ReadsOnOrStops
  <2>. QED  BY <1>8, <2>4
<1>. QED  BY <1>9, <1>10

\* What a frame comes to does not depend on which part was read last.
LEMMA FrameReadSame ==
  ASSUME NEW p, NEW q, p.op = q.op, p.fragments = q.fragments, p.told = q.told,
         p.live = q.live, NEW payload
  PROVE  FrameRead(p, payload) = FrameRead(q, payload)
BY DEF FrameRead, IsControl, Misplaced, GoesOn, Whole, WellFormed

\* The invariant is kept by _on_masking_key.
LEMMA OnMaskingKeyKeeps ==
  ASSUME WsInv, s.tasks # <<>>, Head(s.tasks).kind = "data", part = "key",
         OnMaskingKey(IO!Started(s)),
         UNCHANGED <<peer, frames, draft, sent, tcp, postVars, got, stage>>
  PROVE  WsInv' /\ OwnStep
<1>. DEFINE r == IO!Started(s)
            u == Head(s.tasks).data[1]
            p == UnitRead(Current, u)
            n == opcode.size
<1>1. ~EmptyFrame
  BY DEF EmptyFrame
<1>2. /\ Sound(r) /\ ~Has(r.tasks, "data") /\ r.writeBuffer = s.writeBuffer
      /\ r.closed = s.closed /\ clientTerminated \in BOOLEAN
      /\ u \in Unit /\ u.part = "key" /\ opcode.op # "reserved"
      /\ Readable(r.buffer \o inbox, p, Client, clientTerminated)
  BY <1>1, DataTask
<1>3. /\ fragments' = fragments /\ told' = told /\ broken' = broken /\ net' = net
      /\ opcode' = opcode /\ ReadOn(r, n, "data")
  BY DEF OnMaskingKey
<1>4. Reached(r)
  BY <1>3, DataReached DEF WsInv, Parsing
<1>. HIDE DEF r, u
<1>5. /\ part \in {"start", "key", "data"} /\ opcode \in Header
      /\ fragments \in {NoDraft} \cup Message /\ told \in Seq(Message) /\ broken \in BOOLEAN
      /\ net \in Seq(Out) /\ inbox \in Seq(Unit)
  BY ProtocolType
<1>6. n \in {0, 1}
  BY <1>5 DEF Header
<1>7. ASSUME part' = "data"
      PROVE  Now' = p /\ (EmptyFrame' <=> n = 0) /\ opcode'.op # "reserved"
  <2>1. EmptyFrame' <=> n = 0
    BY <1>3, <1>7 DEF EmptyFrame
  <2>. DEFINE q == [part |-> "data", op |-> opcode, fragments |-> fragments, told |-> told,
                    live |-> TRUE]
  <2>2. Current' = q
    BY <1>3, <1>7 DEF Current
  <2>3. CASE n = 1
    <3>1. Now' = q
      BY <2>1, <2>2, <2>3 DEF Now
    <3>2. p = q
      BY <1>2, <2>3 DEF UnitRead, Current
    <3>. QED  BY <1>2, <1>3, <2>1, <3>1, <3>2
  <2>4. CASE n = 0
    <3>1. Now' = FrameRead(q, <<>>)
      BY <2>1, <2>2, <2>4 DEF Now
    <3>2. p = FrameRead(Current, <<>>)
      BY <1>2, <2>4 DEF UnitRead, Current
    <3>3. FrameRead(q, <<>>) = FrameRead(Current, <<>>)
      <4>1. /\ q.op = Current.op /\ q.fragments = Current.fragments /\ q.told = Current.told
            /\ q.live = Current.live
        BY DEF Current
      <4>. HIDE DEF q
      <4>. QED  BY <4>1, FrameReadSame
    <3>. QED  BY <1>2, <1>3, <2>1, <3>1, <3>2, <3>3
  <2>. QED  BY <1>6, <2>3, <2>4
<1>8. n = 1 => p.told = told'
  BY <1>2, <1>3 DEF UnitRead, Current
<1>. HIDE DEF p, n
<1>9. /\ Sound(s') /\ s'.writeBuffer = r.writeBuffer /\ inbox' \in Seq(Unit)
      /\ r.closed => s'.closed
      /\ clientTerminated' \in BOOLEAN /\ part' \in {part, "data"}
      /\ LifeCycle' /\ Parsing'
  BY <1>2, <1>3, <1>4, <1>6, <1>7, <1>8, ReadsOnOrStops
<1>10. OwnStep
  BY <1>2, <1>3, <1>9, NothingWritten
<1>11. part' \in {"start", "key", "data"} /\ opcode' \in Header
       /\ fragments' \in {NoDraft} \cup Message /\ told' \in Seq(Message)
       /\ broken' \in BOOLEAN /\ net' \in Seq(Out)
  BY <1>3, <1>5, <1>9
<1>. QED  BY <1>9, <1>10, <1>11, DataKeeps

\* The frame whose data the callback brings is the one that what follows was read after.
LEMMA FrameDataTask ==
  ASSUME WsInv, s.tasks # <<>>, Head(s.tasks).kind = "data", part = "data"
  PROVE  LET data == Head(s.tasks).data
             payload == [i \in 1..Len(data) |-> data[i].id]
             r == IO!Started(s)
             p == FrameRead(Current, payload)
         IN  /\ payload \in Message
             /\ Readable(r.buffer \o inbox, p, Client, clientTerminated)
             /\ ~clientTerminated => Truthful(p, Client)
<1>. DEFINE data == Head(s.tasks).data
            payload == [i \in 1..Len(data) |-> data[i].id]
            r == IO!Started(s)
            p == FrameRead(Current, payload)
<1>1. /\ Sound(r)
      /\ EmptyFrame => /\ data = <<>>
                       /\ Readable(r.buffer \o inbox, Now, Client, clientTerminated)
      /\ ~EmptyFrame =>
           /\ Len(data) = 1 /\ data[1] \in Unit /\ data[1].part = part
           /\ Readable(r.buffer \o inbox, UnitRead(Current, data[1]), Client,
                       clientTerminated)
           /\ ~clientTerminated => Truthful(UnitRead(Current, data[1]), Client)
  BY DataTask
<1>2. r.buffer \o inbox \in Seq(Unit)
  <2>1. r.buffer \in Seq(Unit)
    BY <1>1, TaskTypes DEF Sound
  <2>2. inbox \in Seq(Unit)
    BY ProtocolType
  <2>. QED  BY <2>1, <2>2, ConcatProperties
<1>. HIDE DEF data, r
<1>3. CASE EmptyFrame
  <2>1. payload = <<>>
    BY <1>1, <1>3
  <2>. HIDE DEF payload
  <2>2. payload \in Message
    BY <2>1 DEF Message
  <2>3. Now = p
    BY <1>3, <2>1 DEF Now
  <2>. HIDE DEF p
  <2>4. Readable(r.buffer \o inbox, p, Client, clientTerminated)
    BY <1>1, <1>3, <2>3
  <2>5. ASSUME ~clientTerminated  PROVE Truthful(p, Client)
    <3>1. clientTerminated = FALSE
      BY <2>5, ProtocolType
    <3>2. Readable(r.buffer \o inbox, p, Client, FALSE)
      BY <2>4, <3>1
    <3>. QED  BY <1>2, <3>2, RunHead
  <2>. QED  BY <2>2, <2>4, <2>5 DEF payload, p, r, data
<1>4. CASE ~EmptyFrame
  <2>. DEFINE u == data[1]
  <2>1. u \in Unit /\ u.part = "data" /\ Len(data) = 1
    BY <1>1, <1>4
  <2>2. u.id \in 1..MaxFrame
    BY <2>1 DEF Unit
  <2>3. payload = <<u.id>>
    BY <2>1
  <2>. HIDE DEF payload
  <2>4. payload \in Message
    BY <2>2, <2>3 DEF Message
  <2>5. UnitRead(Current, u) = p
    BY <2>1, <2>3 DEF UnitRead
  <2>. HIDE DEF p
  <2>. QED  BY <1>1, <1>4, <2>4, <2>5 DEF payload, p, r, data
<1>. QED  BY <1>3, <1>4

\* _on_frame_data makes of it what the other end meant.
LEMMA AssembledIs ==
  ASSUME opcode \in Header, NEW payload \in Message
  PROVE  LET a == Assembled(payload)
             p == FrameRead(Current, payload)
             isMessage == a.ok /\ opcode.fin /\ opcode.op \notin Control
         IN  /\ a.ok \in BOOLEAN /\ a.fragments = p.fragments
             /\ p.told = IF isMessage THEN Append(told, a.message) ELSE told
             /\ p.part = "start" /\ p.op = opcode
             /\ p.live = (a.ok /\ opcode.op \notin {"close", "junk"})
             /\ a.ok /\ opcode.op \in Control => opcode.fin
<1>. DEFINE goesOn == opcode.op = "continuation"
            whole == IF goesOn THEN fragments \o payload ELSE payload
            a == Assembled(payload)
            p == FrameRead(Current, payload)
<1>1. /\ Current.op = opcode /\ Current.fragments = fragments /\ Current.told = told
      /\ Current.live = TRUE
  BY DEF Current
<1>2. /\ IsControl(Current) <=> opcode.op \in Control
      /\ Misplaced(Current) <=> opcode.op \notin Control /\ goesOn = (fragments = NoDraft)
      /\ Whole(Current, payload) = whole
  BY <1>1 DEF IsControl, Misplaced, GoesOn, Whole
<1>3. opcode.fin \in BOOLEAN
  BY DEF Header
<1>4. /\ p.part = "start" /\ p.op = opcode
      /\ p.fragments = IF IsControl(Current) \/ Misplaced(Current) THEN fragments
                       ELSE IF opcode.fin THEN NoDraft ELSE Whole(Current, payload)
      /\ p.told = IF WellFormed(Current) /\ ~IsControl(Current) /\ opcode.fin
                    THEN Append(told, Whole(Current, payload)) ELSE told
      /\ p.live = (WellFormed(Current) /\ opcode.op \notin {"close", "junk"})
  BY <1>1 DEF FrameRead
<1>5. WellFormed(Current) <=> ~Misplaced(Current) /\ (IsControl(Current) => opcode.fin)
  BY <1>1 DEF WellFormed
<1>. HIDE DEF p
<1>6. CASE opcode.op \in Control
  <2>1. a = [ok |-> opcode.op \in Control /\ opcode.fin, message |-> payload,
             fragments |-> fragments]
    BY <1>6 DEF Assembled
  <2>2. (a.ok <=> opcode.fin) /\ a.ok \in BOOLEAN /\ a.fragments = fragments
    BY <1>3, <1>6, <2>1
  <2>. HIDE DEF a
  <2>3. WellFormed(Current) <=> a.ok
    BY <1>2, <1>5, <1>6, <2>2
  <2>4. p.fragments = a.fragments /\ p.told = told
    BY <1>2, <1>4, <1>6, <2>2
  <2>5. p.live = (a.ok /\ opcode.op \notin {"close", "junk"})
    BY <1>4, <2>3
  <2>. QED  BY <1>4, <1>6, <2>2, <2>4, <2>5 DEF a, p
<1>7. CASE opcode.op \notin Control /\ goesOn = (fragments = NoDraft)
  <2>1. a = [ok |-> opcode.op \in Control /\ opcode.fin, message |-> payload,
             fragments |-> fragments]
    BY <1>7 DEF Assembled
  <2>2. ~a.ok /\ a.ok \in BOOLEAN /\ a.fragments = fragments
    <3>1. (opcode.op \in Control /\ opcode.fin) = FALSE
      BY <1>7
    <3>2. a = [ok |-> FALSE, message |-> payload, fragments |-> fragments]
      BY <2>1, <3>1
    <3>. HIDE DEF a
    <3>. QED  BY <3>2
  <2>. HIDE DEF a
  <2>3. WellFormed(Current) <=> a.ok
    BY <1>2, <1>5, <1>7, <2>2
  <2>4. p.fragments = a.fragments /\ p.told = told
    BY <1>2, <1>4, <1>7, <2>2, <2>3
  <2>5. p.live = (a.ok /\ opcode.op \notin {"close", "junk"})
    BY <1>4, <2>3
  <2>. QED  BY <1>4, <1>7, <2>2, <2>4, <2>5 DEF a, p
<1>8. CASE opcode.op \notin Control /\ goesOn # (fragments = NoDraft)
  <2>1. a = [ok |-> TRUE, message |-> whole,
             fragments |-> IF opcode.fin THEN NoDraft ELSE whole]
    BY <1>8 DEF Assembled
  <2>2. /\ a.ok = TRUE /\ a.message = whole
        /\ a.fragments = IF opcode.fin THEN NoDraft ELSE whole
    BY <2>1
  <2>. HIDE DEF a
  <2>3. WellFormed(Current) <=> a.ok
    BY <1>2, <1>5, <1>8, <2>2
  <2>4. p.fragments = a.fragments
    BY <1>2, <1>4, <1>8, <2>2
  <2>5. p.told = IF opcode.fin THEN Append(told, a.message) ELSE told
    BY <1>2, <1>4, <1>8, <2>2, <2>3
  <2>6. p.live = (a.ok /\ opcode.op \notin {"close", "junk"})
    BY <1>4, <2>3
  <2>. QED  BY <1>4, <1>8, <2>2, <2>4, <2>5, <2>6 DEF a, p
<1>. QED  BY <1>6, <1>7, <1>8

\* What a frame comes to: the stream is closed and the protocol object done with it, or
\* the next frame is read.  A close frame that is answered is the last one written.
Finishes(r, h) ==
  LET q == IO!Ended(h.s) IN
  /\ h.over /\ Halted(r, q) /\ h.failed \in BOOLEAN /\ h.out \in Seq(Out)
  /\ \/ h.out = <<>> /\ q.writeBuffer = r.writeBuffer
     \/ /\ ~r.closed
        /\ \A x \in Seq(Out) : (x \o h.out) \o q.writeBuffer
                                 = Append(x \o r.writeBuffer, CloseFrame)

Continues(r, h) ==
  /\ ~h.over /\ h.failed \in BOOLEAN /\ h.out \in Seq(Out)
  /\ \/ h.s = r /\ h.out = <<>> /\ ~h.failed
     \/ /\ ~r.closed /\ h.failed /\ h.out = <<>> /\ Shut(r, h.s)
        /\ tcp # "up" \/ peer = "left"
     \/ /\ ~r.closed /\ ~h.failed /\ Wrote(r, h.s, h.s.writeBuffer)
        /\ \A x \in Seq(Out) : (x \o h.out) \o h.s.writeBuffer
                                 = Append(x \o r.writeBuffer, Pong)

\* An abort, or a closed stream left as it is, ends the reading.
LEMMA AbortFinishes ==
  ASSUME NEW r, Sound(r), ~Has(r.tasks, "data"), NEW h,
         h = Aborted(r) \/ h = [Aborted(r) EXCEPT !.failed = TRUE]
         \/ (r.closed /\ h = [Quiet(r) EXCEPT !.over = TRUE])
  PROVE  Finishes(r, h)
<1>1. h.over = TRUE /\ h.out = <<>> /\ h.failed \in BOOLEAN
      /\ (h.s = IO!Close(r) \/ (r.closed /\ h.s = r))
  <2>1. CASE h = Aborted(r)
    BY <2>1 DEF Aborted
  <2>2. CASE h = [Aborted(r) EXCEPT !.failed = TRUE]
    BY <2>2 DEF Aborted
  <2>3. CASE r.closed /\ h = [Quiet(r) EXCEPT !.over = TRUE]
    BY <2>3 DEF Quiet
  <2>. QED  BY <2>1, <2>2, <2>3
<1>2. Shut(r, IO!Ended(h.s))
  <2>1. CASE h.s = IO!Close(r)
    <3>1. Shut(r, h.s)
      BY <2>1, CloseShuts
    <3>2. Sound(h.s) /\ h.s.closed
      BY <3>1, ShutKeepsWaiting
    <3>3. Shut(h.s, IO!Ended(h.s))
      BY <3>2, ErrorListener DEF IO!Ended
    <3>. QED  BY <3>1, <3>3, ShutTwice
  <2>2. CASE r.closed /\ h.s = r
    BY <2>2, ErrorListener DEF IO!Ended
  <2>. QED  BY <1>1, <2>1, <2>2
<1>3. Halted(r, IO!Ended(h.s)) /\ IO!Ended(h.s).writeBuffer = r.writeBuffer
  BY <1>2, ShutHalts
<1>4. h.out \in Seq(Out)
  BY <1>1
<1>. QED  BY <1>1, <1>3, <1>4 DEF Finishes

\* A close frame is answered and the stream closed.
LEMMA CloseFinishes ==
  ASSUME NEW r, Sound(r), ~r.closed, ~Has(r.tasks, "data"),
         NEW h \in {[a EXCEPT !.s = IO!Close(a.s), !.over = TRUE] : a \in Answered(r, CloseFrame)}
  PROVE  Finishes(r, h)
<1>1. PICK a \in Answered(r, CloseFrame) : h = [a EXCEPT !.s = IO!Close(a.s), !.over = TRUE]
  OBVIOUS
<1>2. PICK w \in WriteOutcomes(r, CloseFrame) :
        a = [s |-> w.s, out |-> w.out, failed |-> w.failed, over |-> FALSE]
  BY <1>1 DEF Answered
<1>3. h.s = IO!Close(w.s) /\ h.out = w.out /\ h.failed = w.failed /\ h.over = TRUE
  BY <1>1, <1>2, ZenonT(60)
<1>4. /\ w.out \in Seq(Out) /\ w.failed \in BOOLEAN
      /\ w.failed => Shut(r, w.s) /\ w.out = <<>>
      /\ ~w.failed => /\ Wrote(r, w.s, w.s.writeBuffer)
                      /\ \A x \in Seq(Out) : (x \o w.out) \o w.s.writeBuffer
                                               = Append(x \o r.writeBuffer, CloseFrame)
  BY CloseFrameIs, WriteIs
<1>. DEFINE q == IO!Ended(h.s)
<1>5. Sound(w.s)
  BY <1>4, ShutKeepsWaiting DEF Wrote
<1>6. Shut(w.s, h.s)
  BY <1>3, <1>5, CloseShuts
<1>7. Shut(h.s, q)
  BY <1>6, ShutKeepsWaiting, ErrorListener DEF IO!Ended
<1>8. Shut(w.s, q)
  BY <1>6, <1>7, ShutTwice
<1>. HIDE DEF q
<1>9. CASE w.failed
  <2>1. Shut(r, q)
    BY <1>4, <1>8, <1>9, ShutTwice
  <2>2. Halted(r, q) /\ q.writeBuffer = r.writeBuffer
    BY <2>1, ShutHalts, ZenonT(60)
  <2>. QED  BY <1>3, <1>4, <1>9, <2>2 DEF Finishes, q
<1>10. CASE ~w.failed
  <2>1. w.s.tasks = r.tasks /\ w.s.closeCallback = r.closeCallback
    BY <1>4, <1>10 DEF Wrote
  <2>2. Halted(w.s, q) /\ q.writeBuffer = w.s.writeBuffer
    BY <1>8, <2>1, ShutHalts
  <2>3. Halted(r, q)
    BY <2>1, <2>2 DEF Halted, Awaits
  <2>4. \A x \in Seq(Out) : (x \o h.out) \o q.writeBuffer = Append(x \o r.writeBuffer, CloseFrame)
    BY <1>3, <1>4, <1>10, <2>2
  <2>. QED  BY <1>3, <1>4, <2>3, <2>4 DEF Finishes, q
<1>. QED  BY <1>4, <1>9, <1>10

\* A ping is answered and the reading goes on, unless the stream is closed.
LEMMA AnswerContinues ==
  ASSUME NEW r, Sound(r), ~Has(r.tasks, "data"), NEW h \in Answered(r, Pong)
  PROVE  IF r.closed THEN Finishes(r, h) /\ h.failed ELSE Continues(r, h)
<1>1. CASE r.closed
  <2>1. h = [Aborted(r) EXCEPT !.failed = TRUE]
    BY <1>1 DEF Answered
  <2>2. h.failed
    BY <2>1 DEF Aborted
  <2>. QED  BY <1>1, <2>1, <2>2, AbortFinishes
<1>2. CASE ~r.closed
  <2>1. PICK w \in WriteOutcomes(r, Pong) :
          h = [s |-> w.s, out |-> w.out, failed |-> w.failed, over |-> FALSE]
    BY <1>2 DEF Answered
  <2>2. h.s = w.s /\ h.out = w.out /\ h.failed = w.failed /\ h.over = FALSE
    BY <2>1
  <2>3. /\ w.out \in Seq(Out) /\ w.failed \in BOOLEAN
        /\ w.failed => Shut(r, w.s) /\ w.out = <<>> /\ (tcp # "up" \/ peer = "left")
        /\ ~w.failed => /\ Wrote(r, w.s, w.s.writeBuffer)
                        /\ \A x \in Seq(Out) : (x \o w.out) \o w.s.writeBuffer
                                                 = Append(x \o r.writeBuffer, Pong)
    BY <1>2, CloseFrameIs, WriteIs
  <2>. QED  BY <1>2, <2>2, <2>3 DEF Continues
<1>. QED  BY <1>1, <1>2

Outcomes(r, ok) ==
  IF ~ok THEN {Aborted(r)}
  ELSE IF opcode.fin THEN Handled(r)
  ELSE {[Quiet(r) EXCEPT !.over = clientTerminated]}

\* _handle_message ends the reading or goes on, and ends it only for a reason.
LEMMA OutcomeIs ==
  ASSUME NEW r, Sound(r), ~Has(r.tasks, "data"), opcode \in Header, opcode.op # "reserved",
         clientTerminated \in BOOLEAN, clientTerminated => r.closed, r.closed \in BOOLEAN,
         NEW ok, ok \in BOOLEAN, ok /\ opcode.op \in Control => opcode.fin,
         NEW h \in Outcomes(r, ok)
  PROVE  \/ /\ Finishes(r, h)
            /\ clientTerminated \/ ~ok \/ opcode.op \in {"close", "junk"} \/ (r.closed /\ h.failed)
         \/ /\ Continues(r, h) /\ ok /\ ~clientTerminated /\ opcode.op \notin {"close", "junk"}
<1>1. CASE ~ok
  <2>1. h = Aborted(r)
    BY <1>1 DEF Outcomes
  <2>. QED  BY <1>1, <2>1, AbortFinishes
<1>2. CASE ok /\ clientTerminated
  <2>1. h = [Quiet(r) EXCEPT !.over = TRUE]
    <3>1. CASE opcode.fin
      <4>1. h \in Handled(r)
        BY <1>2, <3>1 DEF Outcomes
      <4>. QED  BY <1>2, <4>1 DEF Handled
    <3>2. CASE ~opcode.fin
      <4>1. h = [Quiet(r) EXCEPT !.over = clientTerminated]
        BY <1>2, <3>2 DEF Outcomes
      <4>2. clientTerminated = TRUE
        BY <1>2
      <4>. QED  BY <4>1, <4>2
    <3>. QED  BY <3>1, <3>2
  <2>. QED  BY <1>2, <2>1, AbortFinishes
<1>3. ASSUME h = Quiet(r)  PROVE Continues(r, h)
  <2>1. h.s = r /\ h.out = <<>> /\ h.failed = FALSE /\ h.over = FALSE
    BY <1>3 DEF Quiet
  <2>2. h.out \in Seq(Out)
    BY <2>1
  <2>. QED  BY <2>1, <2>2 DEF Continues
<1>4. CASE ok /\ ~clientTerminated /\ ~opcode.fin
  <2>1. h = [Quiet(r) EXCEPT !.over = clientTerminated]
    BY <1>4 DEF Outcomes
  <2>2. clientTerminated = FALSE
    BY <1>4
  <2>3. h = Quiet(r)
    BY <2>1, <2>2 DEF Quiet
  <2>4. opcode.op \notin {"close", "junk"}
    BY <1>4 DEF Control
  <2>. QED  BY <1>3, <1>4, <2>3, <2>4
<1>5. CASE ok /\ ~clientTerminated /\ opcode.fin
  <2>1. h \in Handled(r)
    BY <1>5 DEF Outcomes
  <2>2. opcode.op \in {"text", "continuation", "ping", "close", "junk"}
    BY DEF Header, Opcode
  <2>3. CASE opcode.op \in {"text", "continuation"}
    <3>1. h = Quiet(r)
      BY <1>5, <2>1, <2>3 DEF Handled
    <3>. QED  BY <1>3, <1>5, <2>3, <3>1
  <2>4. CASE opcode.op = "ping"
    <3>1. h \in Answered(r, Pong)
      BY <1>5, <2>1, <2>4 DEF Handled
    <3>2. IF r.closed THEN Finishes(r, h) /\ h.failed ELSE Continues(r, h)
      BY <3>1, AnswerContinues
    <3>. QED  BY <1>5, <2>4, <3>2
  <2>5. CASE opcode.op = "close" /\ ~r.closed
    <3>1. h \in {[a EXCEPT !.s = IO!Close(a.s), !.over = TRUE] : a \in Answered(r, CloseFrame)}
      BY <1>5, <2>1, <2>5 DEF Handled
    <3>2. Finishes(r, h)
      BY <2>5, <3>1, CloseFinishes
    <3>. QED  BY <2>5, <3>2
  <2>6. CASE opcode.op = "junk" \/ (opcode.op = "close" /\ r.closed)
    <3>1. h = Aborted(r)
      BY <1>5, <2>1, <2>6 DEF Handled
    <3>. QED  BY <2>6, <3>1, AbortFinishes
  <2>. QED  BY <2>2, <2>3, <2>4, <2>5, <2>6
<1>. QED  BY <1>1, <1>2, <1>4, <1>5

\* The stream with which the next frame is read.
LEMMA ContinuesReached ==
  ASSUME NEW r, Reached(r), NEW h, Continues(r, h), ~clientTerminated, h.failed => broken',
         tcp # "up" \/ peer = "left" => peer # "open"
  PROVE  Reached(h.s) /\ h.s.buffer = r.buffer /\ (r.closed => h.s.closed)
<1>1. CASE h.s = r
  BY <1>1
<1>2. CASE ~r.closed /\ h.failed /\ Shut(r, h.s) /\ (tcp # "up" \/ peer = "left")
  <2>. DEFINE q == h.s
  <2>1. /\ Sound(q) /\ q.closed /\ ~q.reading /\ q.buffer = r.buffer /\ ~Has(q.tasks, "data")
        /\ Awaits(q) <=> Awaits(r)
        /\ Has(q.tasks, "close") => Has(r.tasks, "close")
    BY <1>2 DEF Shut, Alike, Reached
  <2>2. stage' = "open" /\ broken' /\ Lost
    BY <1>2 DEF Reached, Lost
  <2>. HIDE DEF q
  <2>3. Reached(q)
    BY <2>1, <2>2 DEF Reached
  <2>. QED  BY <1>2, <2>1, <2>3 DEF q
<1>3. CASE ~r.closed /\ Wrote(r, h.s, h.s.writeBuffer)
  <2>. DEFINE q == h.s
  <2>1. /\ Sound(q) /\ q.closed = r.closed /\ q.reading = r.reading /\ q.tasks = r.tasks
        /\ q.closeCallback = r.closeCallback /\ q.buffer = r.buffer
    BY <1>3 DEF Wrote
  <2>. HIDE DEF q
  <2>2. Awaits(q) <=> Awaits(r)
    BY <2>1 DEF Awaits
  <2>3. Reached(q)
    BY <2>1, <2>2 DEF Reached
  <2>. QED  BY <2>1, <2>3 DEF q
<1>. QED  BY <1>1, <1>2, <1>3 DEF Continues

\* The invariant is kept by _on_frame_data, whatever _handle_message does.
LEMMA OnFrameDataKeeps ==
  ASSUME WsInv, s.tasks # <<>>, Head(s.tasks).kind = "data", part = "data",
         OnFrameData(IO!Started(s),
                     [i \in 1..Len(Head(s.tasks).data) |-> Head(s.tasks).data[i].id]),
         UNCHANGED <<peer, frames, draft, sent, tcp, postVars, got, stage>>
  PROVE  WsInv' /\ OwnStep
<1>. DEFINE r == IO!Started(s)
            data == Head(s.tasks).data
            payload == [i \in 1..Len(data) |-> data[i].id]
            p == FrameRead(Current, payload)
            a == Assembled(payload)
            isMessage == a.ok /\ opcode.fin /\ opcode.op \notin Control
<1>1. /\ Sound(r) /\ ~Has(r.tasks, "data") /\ r.writeBuffer = s.writeBuffer
      /\ r.closed = s.closed /\ clientTerminated \in BOOLEAN
      /\ clientTerminated => broken
      /\ opcode.op # "reserved"
  BY DataTask
<1>2. /\ payload \in Message
      /\ Readable(r.buffer \o inbox, p, Client, clientTerminated)
      /\ ~clientTerminated => Truthful(p, Client)
  BY FrameDataTask
<1>3. /\ part \in {"start", "key", "data"} /\ opcode \in Header
      /\ fragments \in {NoDraft} \cup Message /\ told \in Seq(Message) /\ broken \in BOOLEAN
      /\ net \in Seq(Out) /\ inbox \in Seq(Unit) /\ sent \in Seq(Message) /\ Current \in Parser
  BY ProtocolType, SMTT(40)
<1>5. /\ a.ok \in BOOLEAN /\ a.fragments = p.fragments
      /\ p.told = IF isMessage THEN Append(told, a.message) ELSE told
      /\ p.part = "start" /\ p.op = opcode
      /\ p.live = (a.ok /\ opcode.op \notin {"close", "junk"})
      /\ a.ok /\ opcode.op \in Control => opcode.fin
  BY <1>2, <1>3, AssembledIs
<1>6. PICK h \in Outcomes(r, a.ok) :
           /\ net' = net \o h.out
           /\ broken' = (broken \/ h.failed)
           /\ IF h.over
                THEN /\ s' = IO!Ended(h.s) /\ clientTerminated' = TRUE
                     /\ UNCHANGED <<part, inbox>>
                ELSE ReadOn(h.s, 1, "start")
  BY DEF OnFrameData, Outcomes
<1>7. /\ fragments' = a.fragments /\ opcode' = opcode
      /\ told' = IF isMessage /\ ~clientTerminated THEN Append(told, a.message) ELSE told
  BY DEF OnFrameData
<1>. HIDE DEF r, payload, a, isMessage
<1>4. p \in Parser
  BY <1>2, <1>3, FrameReadType
<1>. HIDE DEF p
<1>8. /\ ~clientTerminated => told' = p.told
      /\ clientTerminated => told' = told
      /\ fragments' = p.fragments
  BY <1>5, <1>7
<1>9. fragments' \in {NoDraft} \cup Message /\ told' \in Seq(Message) /\ opcode' \in Header
      /\ IsPrefix(told', sent)
  <2>1. p.fragments \in {NoDraft} \cup Message /\ p.told \in Seq(Message)
    BY <1>4 DEF Parser
  <2>2. CASE clientTerminated
    BY <1>3, <1>7, <1>8, <2>1, <2>2 DEF WsInv, Parsing
  <2>3. CASE ~clientTerminated
    BY <1>2, <1>3, <1>7, <1>8, <2>1, <2>3 DEF Truthful, Client
  <2>. QED  BY <2>2, <2>3
<1>10. s.closed \in BOOLEAN /\ (clientTerminated => s.closed)
  BY TaskTypes DEF WsInv, LifeCycle, Sound
<1>11. \/ /\ Finishes(r, h)
          /\ clientTerminated \/ ~a.ok \/ opcode.op \in {"close", "junk"} \/ (r.closed /\ h.failed)
       \/ Continues(r, h) /\ a.ok /\ ~clientTerminated /\ opcode.op \notin {"close", "junk"}
  BY <1>1, <1>3, <1>5, <1>10, OutcomeIs
<1>12. h.failed \in BOOLEAN /\ h.out \in Seq(Out)
  BY <1>11 DEF Finishes, Continues
<1>13. broken' \in BOOLEAN /\ net' \in Seq(Out) /\ (broken => broken') /\ (h.failed => broken')
  <2>1. net' \in Seq(Out)
    BY <1>3, <1>6, <1>12, ConcatProperties
  <2>. QED  BY <1>3, <1>6, <1>12, <2>1
<1>14. Reached(r)
  BY <1>9, <1>13, DataReached DEF r
<1>15. EndsWithClose(net \o s.writeBuffer, s.closed) /\ s.writeBuffer \in Seq(Out)
       /\ net \o s.writeBuffer \in Seq(Out)
  <2>1. s.writeBuffer \in Seq(Out)
    BY AheadType
  <2>. QED  BY <1>3, <2>1, ConcatProperties DEF WsInv, Closing
<1>16. ASSUME h.out = <<>>, s'.writeBuffer = r.writeBuffer, r.closed => s'.closed
       PROVE  OwnStep
  <2>1. net' = net
    BY <1>3, <1>6, <1>16, ConcatEmptySeq
  <2>. QED  BY <1>1, <1>16, <2>1, NothingWritten
<1>17. ASSUME NEW frame \in {Pong, CloseFrame}, ~r.closed, frame = CloseFrame => s'.closed,
              \A x \in Seq(Out) : (x \o h.out) \o s'.writeBuffer = Append(x \o r.writeBuffer, frame)
       PROVE  OwnStep
  <2>1. net' \o s'.writeBuffer = Append(net \o s.writeBuffer, frame)
    BY <1>1, <1>3, <1>6, <1>17
  <2>. QED  BY <1>1, <1>10, <1>17, <2>1 DEF OwnStep
<1>18. CASE /\ Finishes(r, h)
            /\ clientTerminated \/ ~a.ok \/ opcode.op \in {"close", "junk"} \/ (r.closed /\ h.failed)
  <2>1. s' = IO!Ended(h.s) /\ clientTerminated' = TRUE /\ part' = part /\ inbox' = inbox
    BY <1>6, <1>18 DEF Finishes
  <2>2. Halted(r, s') /\ s'.closed
    BY <1>18, <2>1 DEF Finishes, Halted
  <2>3. Lost /\ (broken' \/ told' = sent)
    <3>1. CASE clientTerminated \/ (r.closed /\ h.failed)
      BY <1>1, <1>10, <1>13, <3>1 DEF WsInv, LifeCycle
    <3>2. CASE ~clientTerminated /\ (~a.ok \/ opcode.op \in {"close", "junk"})
      <4>1. ~p.live
        BY <1>5, <3>2
      <4>. QED  BY <1>2, <1>8, <3>2, <4>1 DEF Truthful, Client, Lost
    <3>. QED  BY <1>18, <3>1, <3>2
  <2>4. LifeCycle' /\ Parsing'
    BY <1>14, <2>1, <2>2, <2>3, Stops
  <2>5. OwnStep
    <3>1. CASE h.out = <<>> /\ s'.writeBuffer = r.writeBuffer
      BY <1>16, <2>2, <3>1
    <3>2. CASE /\ ~r.closed
               /\ \A x \in Seq(Out) : (x \o h.out) \o s'.writeBuffer
                                        = Append(x \o r.writeBuffer, CloseFrame)
      BY <1>17, <2>2, <3>2, CloseFrameIs
    <3>. QED  BY <1>18, <2>1, <3>1, <3>2 DEF Finishes
  <2>6. Sound(s') /\ inbox' \in Seq(Unit) /\ clientTerminated' \in BOOLEAN
        /\ part' \in {"start", "key", "data"}
    BY <1>3, <2>1, <2>2 DEF Halted
  <2>. QED  BY <1>9, <1>13, <2>4, <2>5, <2>6, DataKeeps
<1>19. CASE Continues(r, h) /\ a.ok /\ ~clientTerminated /\ opcode.op \notin {"close", "junk"}
  <2>1. ReadOn(h.s, 1, "start")
    BY <1>6, <1>19 DEF Continues
  <2>2. Reached(h.s) /\ h.s.buffer = r.buffer /\ (r.closed => h.s.closed)
    BY <1>13, <1>14, <1>19, EndsIfGone, ContinuesReached DEF Lost
  <2>3. ASSUME part' = "start"  PROVE Now' = p /\ (EmptyFrame' <=> 1 = 0)
    <3>1. ~EmptyFrame'
      BY <2>3 DEF EmptyFrame
    <3>2. Now' = [part |-> "start", op |-> opcode, fragments |-> p.fragments, told |-> p.told,
                  live |-> TRUE]
      BY <1>7, <1>8, <1>19, <2>3, <3>1 DEF Now, Current
    <3>3. (a.ok /\ opcode.op \notin {"close", "junk"}) = TRUE
      BY <1>5, <1>19
    <3>4. p.live = TRUE
      BY <1>5, <3>3
    <3>5. p = [part |-> p.part, op |-> p.op, fragments |-> p.fragments, told |-> p.told,
               live |-> p.live]
      BY <1>4 DEF Parser
    <3>6. Now' = p
      BY <1>5, <3>2, <3>4, <3>5
    <3>7. EmptyFrame' <=> 1 = 0
      BY <3>1
    <3>. QED  BY <3>6, <3>7
  <2>4. Readable(h.s.buffer \o inbox, p, Client, clientTerminated)
    BY <1>2, <2>2
  <2>5. /\ Sound(s') /\ s'.writeBuffer = h.s.writeBuffer /\ inbox' \in Seq(Unit)
        /\ h.s.closed => s'.closed
        /\ clientTerminated' \in BOOLEAN /\ part' \in {part, "start"}
        /\ LifeCycle' /\ Parsing'
    <3>1. p.told = told'
      BY <1>8, <1>19
    <3>. QED  BY <2>1, <2>2, <2>3, <2>4, <3>1, ReadsOnOrStops
  <2>6. OwnStep
    <3>1. CASE h.out = <<>> /\ h.s.writeBuffer = r.writeBuffer
      BY <1>16, <2>2, <2>5, <3>1
    <3>2. CASE /\ ~r.closed
               /\ \A x \in Seq(Out) : (x \o h.out) \o h.s.writeBuffer
                                        = Append(x \o r.writeBuffer, Pong)
      BY <1>17, <2>5, <3>2, CloseFrameIs
    <3>. QED  BY <1>19, <3>1, <3>2 DEF Continues, Shut, Alike
  <2>7. part' \in {"start", "key", "data"}
    BY <1>3, <2>5
  <2>. QED  BY <1>9, <1>13, <2>5, <2>6, <2>7, DataKeeps
<1>. QED  BY <1>11, <1>18, <1>19

-----------------------------------------------------------------------------
(* The handshake succeeds                                                  *)

\* A parser between frames, and nothing sent.
LEMMA NothingAhead ==
  ASSUME NEW p, NEW e, Truthful(p, e), p \in Parser, p.told = e.sent,
         e.peer = "open" => p.part = "start" /\ p.fragments = e.draft
  PROVE  Readable(<<>>, p, e, FALSE)
<1>. DEFINE us == <<>>
            run == [k \in 0..Len(us) |-> p]
<1>1. us \in Seq(Unit) /\ Len(us) = 0
  OBVIOUS
<1>. HIDE DEF us
<1>2. /\ run \in [0..Len(us) -> Parser] /\ 0 \in 0..Len(us)
      /\ \A k \in 0..Len(us) : run[k] = p
      /\ 1..Len(us) = {}
  BY <1>1
<1>. HIDE DEF run
<1>3. Chain(run, us)
  BY <1>2 DEF Chain
<1>4. run[0] = p /\ run[Len(us)] = p
  BY <1>1, <1>2
<1>5. Reaches(us, p, p, e)
  BY <1>2, <1>3, <1>4 DEF Reaches
<1>. QED  BY <1>1, <1>5, ReachesReadable DEF us

\* The invariant is kept when the handshake is answered.
LEMMA AcceptKeeps ==
  ASSUME WsInv, Accept  PROVE WsInv' /\ s'.writeBuffer = <<>>
<1>. DEFINE r == IO!SetCloseCallback(s)
<1>1. /\ stage = "request" /\ TypeOK /\ s = IO!Fresh /\ since = -1 /\ post = "idle"
      /\ stage' = "open" /\ since' = pushes
      /\ UNCHANGED <<peer, frames, draft, sent, tcp, opcode, fragments, told, post, pushes,
                     net, got>>
  BY DEF WsInv, Accept, LifeCycle
<1>2. /\ \/ /\ Read(IO!Written(r, <<>>), 1, "start")
            /\ UNCHANGED <<clientTerminated, broken>>
         \/ /\ Disconnected \/ peer = "left"
            /\ s' = IO!Close(IO!WriteFails(r)) /\ clientTerminated' = TRUE /\ broken' = TRUE
            /\ UNCHANGED <<part, inbox>>
  BY DEF Accept, Abort
<1>3. /\ told = <<>> /\ sent = <<>> /\ draft = NoDraft /\ fragments = NoDraft /\ inbox = <<>>
      /\ part = "start" /\ peer # "absent" /\ IsPrefix(told, sent)
      /\ tcp # "up" => peer # "open"
      /\ clientTerminated => s.closed
  BY <1>1 DEF WsInv, LifeCycle, Parsing
<1>4. ~s.closed /\ s.writeBuffer = <<>>
  BY <1>1, FreshIs
<1>5. clientTerminated = FALSE /\ pushes \in 0..MaxPush /\ pushes # -1
  BY <1>1, <1>3, <1>4, BoundsAssumption DEF TypeOK
<1>6. /\ Sound(r) /\ ~r.closed /\ r.closeCallback /\ r.tasks = <<>> /\ ~r.reading
      /\ r.buffer = <<>> /\ r.writeBuffer = <<>>
  BY <1>1, CallbackSet
<1>. HIDE DEF r
<1>7. ASSUME NEW q, Sound(q), ~q.closed, q.closeCallback, q.tasks = <<>>, ~q.reading
      PROVE  Reached(q)
  <2>1. ~Has(q.tasks, "data") /\ ~Has(q.tasks, "onClose") /\ ~Has(q.tasks, "close")
    BY <1>7, NoTasks
  <2>2. clientTerminated \in BOOLEAN /\ inbox \in Seq(Unit)
    BY ProtocolType
  <2>3. /\ IsPrefix(told', sent) /\ stage' = "open" /\ since' # -1
        /\ UNCHANGED <<peer, frames, draft, sent, tcp>> /\ post' = "idle"
    BY <1>1, <1>3, <1>5
  <2>. QED  BY <1>3, <1>5, <1>7, <2>1, <2>2, <2>3 DEF Reached, Awaits
<1>8. ASSUME Sound(s'), s'.writeBuffer = <<>>, inbox' \in Seq(Unit), clientTerminated' \in BOOLEAN,
             broken' \in BOOLEAN, part' \in {"start", "key", "data"}, LifeCycle', Parsing'
      PROVE  WsInv' /\ s'.writeBuffer = <<>>
  <2>1. since' \in -1..MaxPush
    BY <1>1, <1>5, BoundsAssumption
  <2>2. TypeOK'
    BY <1>1, <1>8, <2>1 DEF TypeOK, Sound
  <2>3. Closing'
    BY <1>1, <1>4, <1>8, StillEnds DEF WsInv, Closing
  <2>. QED  BY <1>8, <2>2, <2>3 DEF WsInv
<1>9. part \in {"start", "key", "data"} /\ broken \in BOOLEAN /\ inbox \in Seq(Unit)
  BY ProtocolType
<1>10. CASE /\ Read(IO!Written(r, <<>>), 1, "start")
            /\ UNCHANGED <<clientTerminated, broken>>
  <2>. DEFINE q == IO!Written(r, <<>>)
  <2>1. <<>> \in Seq(Out)
    OBVIOUS
  <2>2. Wrote(r, q, <<>>)
    BY <1>6, <2>1, WrittenWrote
  <2>. HIDE DEF q
  <2>3. /\ Sound(q) /\ ~q.closed /\ q.closeCallback /\ q.tasks = <<>> /\ ~q.reading
        /\ q.buffer = <<>> /\ q.writeBuffer = <<>>
    BY <1>6, <2>2 DEF Wrote
  <2>4. Reached(q)
    BY <1>7, <2>3
  <2>5. ~IO!ReadRaises(q, 1)
    BY <2>3 DEF IO!ReadRaises
  <2>6. Read(q, 1, "start") /\ clientTerminated' = clientTerminated /\ broken' = broken
    BY <1>10 DEF q
  <2>7. part' = "start" /\ ~EmptyFrame'
    BY <2>6 DEF Read, EmptyFrame
  <2>. DEFINE p == [part |-> "start", op |-> opcode, fragments |-> NoDraft, told |-> <<>>,
                    live |-> TRUE]
  <2>8. Now' = p
    BY <1>1, <1>3, <2>7 DEF Now, Current
  <2>9. Client.sent = <<>> /\ Client.draft = NoDraft
    BY <1>3 DEF Client
  <2>10. p.part = "start" /\ p.fragments = NoDraft /\ p.told = <<>> /\ p.live = TRUE
    OBVIOUS
  <2>11. p \in Parser
    <3>1. opcode \in Header /\ <<>> \in Seq(Message)
      BY <1>1 DEF TypeOK
    <3>. QED  BY <3>1 DEF Parser
  <2>12. Truthful(p, Client)
    BY <1>3, <2>9, <2>10 DEF Truthful
  <2>. HIDE DEF p
  <2>13. Readable(<<>>, p, Client, FALSE)
    BY <2>9, <2>10, <2>11, <2>12, NothingAhead
  <2>14. q.buffer \o inbox = <<>>
    BY <1>3, <2>3
  <2>15. Readable(q.buffer \o inbox, Now', Client, clientTerminated)
    BY <1>5, <2>8, <2>13, <2>14
  <2>16. EmptyFrame' <=> 1 = 0
    BY <2>7
  <2>17. /\ Sound(s') /\ s'.writeBuffer = q.writeBuffer /\ inbox' \in Seq(Unit)
         /\ LifeCycle' /\ Parsing'
    BY <2>4, <2>5, <2>6, <2>7, <2>15, <2>16, ReadsOn
  <2>. QED  BY <1>5, <1>8, <1>9, <2>3, <2>6, <2>7, <2>17
<1>11. CASE /\ Disconnected \/ peer = "left"
            /\ s' = IO!Close(IO!WriteFails(r)) /\ clientTerminated' = TRUE /\ broken' = TRUE
            /\ UNCHANGED <<part, inbox>>
  <2>1. Shut(r, IO!WriteFails(r))
    BY <1>6, WriteFailsShuts
  <2>2. Shut(IO!WriteFails(r), s')
    BY <1>11, <2>1, ShutKeepsWaiting, CloseShuts
  <2>3. Shut(r, s')
    BY <2>1, <2>2, ShutTwice
  <2>4. Halted(r, s') /\ s'.writeBuffer = <<>>
    BY <1>6, <2>3, NoTasks, ShutHalts
  <2>5. Lost
    BY <1>11, EndsIfGone DEF Disconnected
  <2>6. LifeCycle' /\ Parsing'
    BY <1>6, <1>7, <1>11, <2>4, <2>5, Stops
  <2>. QED  BY <1>8, <1>9, <1>11, <2>4, <2>6 DEF Halted
<1>. QED  BY <1>2, <1>10, <1>11 DEF r

-----------------------------------------------------------------------------
(* Every step                                                              *)

\* The invariant is kept by every callback of the stream.
LEMMA RunTaskKeeps ==
  ASSUME WsInv, RunTask  PROVE WsInv' /\ OwnStep
<1>. DEFINE r == IO!Started(s)
            data == Head(s.tasks).data
            payload == [i \in 1..Len(data) |-> data[i].id]
<1>1. s.tasks # <<>> /\ UNCHANGED <<peer, frames, draft, sent, tcp, postVars, got>>
  BY DEF RunTask
<1>2. CASE /\ Head(s.tasks).kind = "close" /\ s' = IO!Close(r)
           /\ UNCHANGED <<inbox, stage, protocolVars, broken, net>>
  BY <1>1, <1>2, CloseTaskKeeps
<1>3. CASE /\ Head(s.tasks).kind = "onClose" /\ OnConnectionClose(r)
           /\ UNCHANGED <<inbox, part, opcode, fragments, told, broken, net>>
  BY <1>1, <1>3, OnCloseKeeps
<1>4. CASE /\ Head(s.tasks).kind = "data" /\ stage' = stage
           /\ CASE part = "start" -> OnFrameStart(r, data[1])
                [] part = "key" -> OnMaskingKey(r)
                [] part = "data" -> OnFrameData(r, payload)
  <2>1. CASE part = "start"
    <3>1. OnFrameStart(r, data[1])
      BY <1>4, <2>1
    <3>. QED  BY <1>1, <1>4, <2>1, <3>1, OnFrameStartKeeps
  <2>2. CASE part = "key"
    <3>1. OnMaskingKey(r)
      BY <1>4, <2>2
    <3>. QED  BY <1>1, <1>4, <2>2, <3>1, OnMaskingKeyKeeps
  <2>3. CASE part = "data"
    <3>1. OnFrameData(r, payload)
      BY <1>4, <2>3
    <3>. QED  BY <1>1, <1>4, <2>3, <3>1, OnFrameDataKeeps
  <2>. QED  BY <2>1, <2>2, <2>3, ProtocolType
<1>. QED  BY <1>2, <1>3, <1>4 DEF RunTask

\* The invariant is inductive.
LEMMA NextKeeps ==
  ASSUME WsInv, [Next]_vars  PROVE WsInv'
<1>1. CASE Connect
  BY <1>1, ConnectKeeps
<1>2. CASE SendFrame
  BY <1>2, SendFrameKeeps
<1>3. CASE PeerGoes
  BY <1>3, PeerGoesKeeps
<1>4. CASE ConnectionEnds
  BY <1>4, ConnectionEndsKeeps
<1>5. CASE Deliver
  BY <1>5, DeliverKeeps
<1>6. CASE Refuse
  BY <1>6, RefuseKeeps
<1>7. CASE Accept
  BY <1>7, AcceptKeeps
<1>8. CASE RunTask
  BY <1>8, RunTaskKeeps
<1>9. CASE ReadEvent
  BY <1>9, ReadEventKeeps
<1>10. CASE WriteEvent
  BY <1>10, WriteEventKeeps
<1>11. CASE ErrorEvent
  BY <1>11, ErrorEventKeeps
<1>12. CASE PostBegins \/ PostEnds
  BY <1>12, PostKeeps
<1>13. CASE PostWrites
  BY <1>13, PostWritesKeeps
<1>14. CASE UNCHANGED vars
  <2>1. post' # "idle" => pushes' > 0
    BY <1>14 DEF WsInv, LifeCycle, vars, postVars
  <2>2. Sound(s') /\ LifeCycle' /\ Parsing'
    BY <1>14, <2>1, Untouched DEF vars, postVars
  <2>3. TypeOK'
    BY <1>14 DEF WsInv, TypeOK, vars, clientVars, protocolVars, postVars
  <2>4. Closing'
    BY <1>14 DEF WsInv, Closing, EndsWithClose, vars
  <2>. QED  BY <2>2, <2>3, <2>4 DEF WsInv
<1>. QED  BY <1>1, <1>2, <1>3, <1>4, <1>5, <1>6, <1>7, <1>8, <1>9, <1>10, <1>11, <1>12, <1>13, <1>14
          DEF Next

\* The invariant holds in every reachable state.
LEMMA Invariant == Spec => []WsInv
<1>1. Init => WsInv
  BY InitWsInv
<1>2. WsInv /\ [Next]_vars => WsInv'
  BY NextKeeps
<1>. QED  BY <1>1, <1>2, PTL DEF Spec

-----------------------------------------------------------------------------
(* What follows                                                            *)

\* The callbacks that count are those of the two kinds.
LEMMA Counted ==
  ASSUME NEW st, Sound(st)
  PROVE  st.pending = Cardinality({i \in 1..Len(st.tasks) : st.tasks[i].kind # "close"})
<1>. DEFINE ts == st.tasks
            S(kind) == {i \in 1..Len(ts) : ts[i].kind = kind}
            counting == {i \in 1..Len(ts) : ts[i].kind # "close"}
<1>1. \A i \in 1..Len(ts) : ts[i].kind \in {"data", "onClose", "close"}
  <2>1. ts \in Seq(IO!Task)
    BY TaskTypes DEF Sound
  <2>. HIDE DEF ts
  <2>2. \A i \in 1..Len(ts) : ts[i] \in IO!Task
    BY <2>1
  <2>. QED  BY <2>2 DEF IO!Task
<1>2. /\ st.pending = Count(Has(ts, "data")) + Count(Has(ts, "onClose"))
      /\ Once(ts, "data") /\ Once(ts, "onClose")
  BY DEF Sound
<1>. HIDE DEF ts
<1>3. counting = S("data") \cup S("onClose") /\ S("data") \cap S("onClose") = {}
  BY <1>1
<1>4. ASSUME NEW kind, Once(ts, kind)
      PROVE  IsFiniteSet(S(kind)) /\ Cardinality(S(kind)) = Count(Has(ts, kind))
  <2>1. CASE Has(ts, kind)
    <3>1. PICK k \in 1..Len(ts) : ts[k].kind = kind
      BY <2>1 DEF Has
    <3>2. S(kind) = {k}
      BY <1>4, <3>1 DEF Once
    <3>3. Count(Has(ts, kind)) = 1
      BY <2>1 DEF Count
    <3>. HIDE DEF S
    <3>. QED  BY <3>2, <3>3, FS_Singleton
  <2>2. CASE ~Has(ts, kind)
    <3>1. S(kind) = {}
      BY <2>2 DEF Has
    <3>2. Count(Has(ts, kind)) = 0
      BY <2>2 DEF Count
    <3>. HIDE DEF S
    <3>. QED  BY <3>1, <3>2, FS_EmptySet
  <2>. QED  BY <2>1, <2>2
<1>. HIDE DEF S, counting
<1>5. /\ IsFiniteSet(S("data")) /\ Cardinality(S("data")) = Count(Has(ts, "data"))
      /\ IsFiniteSet(S("onClose")) /\ Cardinality(S("onClose")) = Count(Has(ts, "onClose"))
  BY <1>2, <1>4
<1>6. Cardinality(S("data") \cap S("onClose")) = 0
  BY <1>3, FS_EmptySet
<1>7. Cardinality(counting) = Cardinality(S("data")) + Cardinality(S("onClose"))
  <2>1. /\ Cardinality(S("data") \cup S("onClose"))
             = Cardinality(S("data")) + Cardinality(S("onClose"))
                 - Cardinality(S("data") \cap S("onClose"))
        /\ Cardinality(S("data")) \in Nat /\ Cardinality(S("onClose")) \in Nat
    BY <1>5, FS_Union, FS_CardinalityType
  <2>. QED  BY <1>3, <1>6, <2>1
<1>. QED  BY <1>2, <1>5, <1>7 DEF counting, ts

\* A callback of some kind is a callback.
LEMMA HasOne ==
  ASSUME NEW st, Sound(st), NEW kind, Has(st.tasks, kind)  PROVE st.tasks # <<>>
BY NoTasks

\* What NeverDeaf asks follows from the life cycle and from what a reading stream does.
LEMMA SomebodyListens == WsInv => NeverDeaf
<1>. SUFFICES ASSUME WsInv, stage = "open"
              PROVE  s.tasks # <<>> \/ (~s.closed /\ s.handler /\ "READ" \in s.interest)
  BY DEF NeverDeaf
<1>1. Sound(s) /\ Awaits(s) /\ Settled(s)
  BY DEF WsInv, LifeCycle
<1>2. CASE Has(s.tasks, "data") \/ Has(s.tasks, "onClose")
  BY <1>1, <1>2, HasOne
<1>3. CASE ~Has(s.tasks, "data") /\ ~Has(s.tasks, "onClose")
  <2>1. ~s.closed /\ s.reading
    BY <1>1, <1>3 DEF Awaits, Settled
  <2>. QED  BY <1>1, <2>1 DEF Sound
<1>. QED  BY <1>2, <1>3

\* What a connection that is over is told.
LEMMA NothingToldOver ==
  ASSUME WsInv, stage = "over", [Next]_vars  PROVE stage' = "over" /\ told' = told
<1>1. peer # "absent" /\ (clientTerminated \/ since = -1)
  BY DEF WsInv, LifeCycle
<1>2. since = -1 => ~Has(s.tasks, "data")
  BY DEF WsInv, LifeCycle, Active
<1>3. CASE RunTask
  <2>1. s.tasks # <<>>
    BY <1>3 DEF RunTask
  <2>2. CASE Head(s.tasks).kind = "data"
    <3>1. Has(s.tasks, "data")
      BY <2>1, <2>2, StartedIs DEF WsInv
    <3>2. clientTerminated
      BY <1>1, <1>2, <3>1
    <3>3. stage' = stage
      BY <1>3, <2>2 DEF RunTask
    <3>4. told' = told
      <4>1. CASE part = "start"
        BY <1>3, <2>2, <4>1 DEF RunTask, OnFrameStart
      <4>2. CASE part = "key"
        BY <1>3, <2>2, <4>2 DEF RunTask, OnMaskingKey
      <4>3. CASE part = "data"
        <5>1. OnFrameData(IO!Started(s),
                 [i \in 1..Len(Head(s.tasks).data) |-> Head(s.tasks).data[i].id])
          BY <1>3, <2>2, <4>3 DEF RunTask
        <5>. QED  BY <3>2, <5>1 DEF OnFrameData
      <4>. QED  BY <4>1, <4>2, <4>3, ProtocolType
    <3>. QED  BY <3>3, <3>4
  <2>3. CASE Head(s.tasks).kind # "data"
    BY <1>3, <2>3 DEF RunTask, OnConnectionClose, protocolVars
  <2>. QED  BY <2>2, <2>3
<1>4. CASE ~RunTask
  <2>1. ~Connect /\ ~Refuse /\ ~Accept
    BY <1>1 DEF Connect, Refuse, Accept
  <2>2. CASE UNCHANGED vars
    BY <2>2 DEF vars, protocolVars
  <2>3. CASE SendFrame \/ PeerGoes \/ ConnectionEnds \/ Deliver
    BY <2>3 DEF SendFrame, PeerGoes, ConnectionEnds, Deliver, protocolVars
  <2>4. CASE ReadEvent \/ WriteEvent \/ ErrorEvent
    BY <2>4 DEF ReadEvent, WriteEvent, ErrorEvent, protocolVars
  <2>5. CASE PostBegins \/ PostWrites \/ PostEnds
    BY <2>5 DEF PostBegins, PostWrites, PostEnds, protocolVars
  <2>. QED  BY <1>4, <2>1, <2>2, <2>3, <2>4, <2>5 DEF Next
<1>. QED  BY <1>3, <1>4

-----------------------------------------------------------------------------
(* The connection as SocketRegistry sees it                                *)

\* The updates the client has not read, with the kernel or in the write buffer; and a
\* client that NoticePeerGone may find gone.
Channel == Keep(net \o s.writeBuffer, 1..MaxPush)
Gone == peer = "left" \/ (peer = "vanished" /\ Channel # <<>>)

\* TCP gives up on a machine that vanished only when an update is not acknowledged.
RegInv ==
  /\ WsInv
  /\ tcp # "up" => Gone
  /\ stage \in {"none", "request"} => net = <<>>

\* What stands for a variable of SocketRegistry.
StreamSeen ==
  CASE stage \in {"none", "request"} -> stage
    [] OTHER -> IF s.closed THEN "closed" ELSE "open"
CallbackSeen ==
  CASE stage = "over" -> "ran"
    [] stage = "open" -> IF s.closed THEN "scheduled" ELSE "set"
    [] OTHER -> "unset"
WsSeen == stage = "open" /\ (since # -1 \/ clientTerminated)
PostSeen ==
  [running |-> post # "idle", i |-> IF post = "written" THEN 2 ELSE 1,
   targets |-> IF post # "idle" /\ Registered THEN <<Me>> ELSE <<>>]
Seen == <<peer, StreamSeen, CallbackSeen, WsSeen, Registered, PostSeen, pushes, Channel, got,
          since>>

\* A step that SocketRegistry does not see.
LEMMA Unseen == ASSUME UNCHANGED Seen  PROVE UNCHANGED Registry!vars
BY DEF Seen, StreamSeen, CallbackSeen, WsSeen, PostSeen, Channel, Registry!vars

\* Updates are kept; pongs and close frames are not.
LEMMA ChannelIs ==
  ASSUME RegInv
  PROVE  /\ net \in Seq(Out) /\ s.writeBuffer \in Seq(Out) /\ net \o s.writeBuffer \in Seq(Out)
         /\ Channel \in Seq(1..MaxPush)
         /\ \A x \in Out : Keep(Append(net \o s.writeBuffer, x), 1..MaxPush)
                             = IF x \in 1..MaxPush THEN Append(Channel, x) ELSE Channel
         /\ Pong \notin 1..MaxPush /\ CloseFrame \notin 1..MaxPush
<1>1. net \in Seq(Out) /\ s.writeBuffer \in Seq(Out)
  BY AheadType DEF RegInv
<1>11. net \o s.writeBuffer \in Seq(Out)
  BY <1>1
<1>2. PICK all \in Seq(Out) : all = net \o s.writeBuffer
  BY <1>11
<1>3. Out \cap (1..MaxPush) = 1..MaxPush
  BY DEF Out
<1>4. Keep(all, 1..MaxPush) \in Seq(Out \cap (1..MaxPush))
  BY KeepType
<1>5. ASSUME NEW x \in Out
      PROVE  Keep(Append(all, x), 1..MaxPush)
               = IF x \in 1..MaxPush THEN Append(Keep(all, 1..MaxPush), x)
                 ELSE Keep(all, 1..MaxPush)
  BY KeepAppend
<1>6. Pong \notin 1..MaxPush /\ CloseFrame \notin 1..MaxPush
  BY BoundsAssumption DEF Pong, CloseFrame
<1>. QED  BY <1>1, <1>2, <1>3, <1>4, <1>5, <1>6 DEF Channel

\* The stream's own answers are no updates.
LEMMA OwnStepUnseen ==
  ASSUME RegInv, OwnStep  PROVE Channel' = Channel
<1>1. Channel' = Keep(net' \o s'.writeBuffer, 1..MaxPush)
  BY DEF Channel
<1>2. Pong \in Out /\ CloseFrame \in Out
  BY CloseFrameIs
<1>3. /\ Keep(Append(net \o s.writeBuffer, Pong), 1..MaxPush) = Channel
      /\ Keep(Append(net \o s.writeBuffer, CloseFrame), 1..MaxPush) = Channel
  BY <1>2, ChannelIs
<1>4. \/ net' \o s'.writeBuffer = net \o s.writeBuffer
      \/ net' \o s'.writeBuffer = Append(net \o s.writeBuffer, Pong)
      \/ net' \o s'.writeBuffer = Append(net \o s.writeBuffer, CloseFrame)
  BY DEF OwnStep
<1>5. Keep(net \o s.writeBuffer, 1..MaxPush) = Channel
  BY DEF Channel
<1>6. CASE net' \o s'.writeBuffer = net \o s.writeBuffer
  BY <1>1, <1>5, <1>6
<1>7. CASE net' \o s'.writeBuffer = Append(net \o s.writeBuffer, Pong)
  BY <1>1, <1>3, <1>7
<1>8. CASE net' \o s'.writeBuffer = Append(net \o s.writeBuffer, CloseFrame)
  BY <1>1, <1>3, <1>8
<1>. QED  BY <1>4, <1>6, <1>7, <1>8

\* The handshake finds nothing written.
LEMMA NothingWrittenYet ==
  ASSUME RegInv, stage \in {"none", "request"}
  PROVE  /\ Channel = <<>> /\ net \o <<>> = <<>> /\ s = IO!Fresh /\ ~s.closed
         /\ s.writeBuffer = <<>> /\ ~clientTerminated /\ since = -1
<1>1. net = <<>> /\ s = IO!Fresh /\ since = -1 /\ (clientTerminated => s.closed)
  BY DEF RegInv, WsInv, LifeCycle
<1>2. s.writeBuffer = <<>> /\ ~s.closed
  BY <1>1, FreshIs
<1>3. net \o <<>> = <<>>
  BY <1>1
<1>. QED  BY <1>1, <1>2, <1>3, KeepEmpty DEF Channel

\* The steps that a stream takes by itself.
LEMMA OwnSteps ==
  ASSUME RegInv, (RunTask /\ Head(s.tasks).kind # "onClose") \/ ReadEvent \/ WriteEvent
  PROVE  /\ WsInv' /\ OwnStep /\ post = "idle"
         /\ UNCHANGED <<peer, tcp, stage, post, pushes, since, got>>
         /\ since = -1 => UNCHANGED clientTerminated
<1>0. WsInv
  BY DEF RegInv
<1>1. CASE RunTask /\ Head(s.tasks).kind # "onClose"
  <2>1. WsInv' /\ OwnStep
    BY <1>0, <1>1, RunTaskKeeps
  <2>2. s.tasks # <<>> /\ post = "idle"
        /\ UNCHANGED <<peer, tcp, stage, post, pushes, since, got>>
    BY <1>1 DEF RunTask, postVars
  <2>3. ASSUME since = -1  PROVE UNCHANGED clientTerminated
    <3>1. ~Has(s.tasks, "data")
      BY <1>0, <2>3 DEF WsInv, LifeCycle, Active
    <3>2. Head(s.tasks).kind # "data"
      BY <1>0, <2>2, <3>1, StartedIs DEF WsInv
    <3>. QED  BY <1>1, <3>2 DEF RunTask, protocolVars
  <2>. QED  BY <2>1, <2>2, <2>3
<1>2. CASE ReadEvent
  BY <1>0, <1>2, ReadEventKeeps DEF ReadEvent, Listening, protocolVars, postVars
<1>3. CASE WriteEvent
  BY <1>0, <1>3, WriteEventKeeps DEF WriteEvent, Listening, clientVars, protocolVars, postVars
<1>. QED  BY <1>1, <1>2, <1>3

\* on_connection_close is one too, but for the connection being over.
LEMMA OnCloseStep ==
  ASSUME RegInv, RunTask, Head(s.tasks).kind = "onClose"
  PROVE  /\ WsInv' /\ OwnStep /\ stage = "open" /\ s.closed /\ stage' = "over"
         /\ post = "idle" /\ UNCHANGED <<peer, tcp, post, pushes, since, got>>
<1>1. /\ s.tasks # <<>> /\ post = "idle" /\ OnConnectionClose(IO!Started(s))
      /\ UNCHANGED <<inbox, part, opcode, fragments, told, broken, net>>
      /\ UNCHANGED <<peer, frames, draft, sent, tcp, postVars, got>>
  BY DEF RunTask
<1>2. WsInv' /\ OwnStep /\ stage = "open" /\ s.closed
  BY <1>1, OnCloseKeeps DEF RegInv
<1>. QED  BY <1>1, <1>2 DEF OnConnectionClose, postVars

\* The invariant of the refinement is inductive.
LEMMA RegInvKeeps ==
  ASSUME RegInv, [Next]_vars  PROVE RegInv'
<1>0. WsInv'
  BY NextKeeps DEF RegInv
<1>1. ASSUME tcp' = tcp, peer' = peer, Channel' = Channel, stage' = stage,
             stage \in {"none", "request"} => net' = net
      PROVE  RegInv'
  BY <1>0, <1>1 DEF RegInv, Gone
<1>2. tcp # "up" => peer \notin {"open", "absent"}
  BY DEF RegInv, WsInv, LifeCycle
<1>3. CASE Connect \/ SendFrame \/ PeerGoes
  <2>1. tcp = "up" /\ tcp' = tcp
    <3>1. peer \in {"absent", "open"} /\ tcp' = tcp
      BY <1>3 DEF Connect, SendFrame, PeerGoes
    <3>. QED  BY <1>2, <3>1
  <2>2. net' = net /\ (stage' \in {"none", "request"} => stage \in {"none", "request"})
    <3>1. CASE Connect
      <4>1. stage = "none"
        BY <3>1 DEF Connect, RegInv, WsInv, LifeCycle
      <4>. QED  BY <3>1, <4>1 DEF Connect
    <3>2. CASE SendFrame \/ PeerGoes
      BY <3>2 DEF SendFrame, PeerGoes
    <3>. QED  BY <1>3, <3>1, <3>2
  <2>. QED  BY <1>0, <2>1, <2>2 DEF RegInv
<1>4. CASE ConnectionEnds
  <2>1. tcp = "up" /\ UNCHANGED <<peer, stage, s, net>>
        /\ (peer = "left" \/ (peer = "vanished" /\ Keep(net, 1..MaxPush) # <<>>))
    BY <1>4 DEF ConnectionEnds
  <2>2. Channel = Keep(net, 1..MaxPush) \o Keep(s.writeBuffer, 1..MaxPush)
    BY ChannelIs, KeepConcat DEF Channel
  <2>3. Channel' = Channel
    BY <2>1 DEF Channel
  <2>4. PICK a \in Seq(Out), b \in Seq(Out) :
               a = Keep(net, 1..MaxPush) /\ b = Keep(s.writeBuffer, 1..MaxPush)
    BY ChannelIs, KeepIn
  <2>5. a # <<>> => a \o b # <<>>
    OBVIOUS
  <2>. QED  BY <1>0, <2>1, <2>2, <2>3, <2>4, <2>5 DEF RegInv, Gone
<1>5. CASE Deliver
  BY <1>0, <1>2, <1>5 DEF Deliver, RegInv, clientVars
<1>6. CASE Refuse \/ Accept
  <2>1. /\ stage = "request" /\ UNCHANGED <<tcp, net>> /\ (peer # "open" => peer' = peer)
        /\ stage' \notin {"none", "request"}
    BY <1>6 DEF Refuse, Accept
  <2>2. Channel = <<>>
    BY <2>1, NothingWrittenYet
  <2>. QED  BY <1>0, <1>2, <2>1, <2>2 DEF RegInv, Gone
<1>7. CASE (RunTask /\ Head(s.tasks).kind # "onClose") \/ ReadEvent \/ WriteEvent
  <2>1. OwnStep /\ UNCHANGED <<peer, tcp, stage>>
    BY <1>7, OwnSteps
  <2>2. Channel' = Channel
    BY <2>1, OwnStepUnseen
  <2>3. stage \notin {"none", "request"}
    BY <1>7, NotFresh DEF RunTask, ReadEvent, WriteEvent, Listening, RegInv
  <2>. QED  BY <1>1, <2>1, <2>2, <2>3
<1>8. CASE RunTask /\ Head(s.tasks).kind = "onClose"
  <2>1. OwnStep /\ UNCHANGED <<peer, tcp>> /\ stage' = "over"
    BY <1>8, OnCloseStep
  <2>2. Channel' = Channel
    BY <2>1, OwnStepUnseen
  <2>. QED  BY <1>0, <2>1, <2>2 DEF RegInv, Gone
<1>9. CASE ErrorEvent
  <2>1. s' = IO!HandleError(s) /\ UNCHANGED <<peer, tcp, stage, net>>
    BY <1>9 DEF ErrorEvent, clientVars
  <2>2. s'.writeBuffer = s.writeBuffer
    BY <2>1, HandleErrorAlike DEF RegInv, WsInv
  <2>. QED  BY <1>1, <2>1, <2>2 DEF Channel
<1>10. CASE PostBegins \/ PostEnds
  BY <1>1, <1>10 DEF PostBegins, PostEnds, clientVars, Channel
<1>11. CASE PostWrites
  <2>1. UNCHANGED <<peer, tcp, stage>> /\ stage = "open" /\ pushes > 0 /\ pushes \in Out
    BY <1>11, CloseFrameIs DEF PostWrites, clientVars, Registered, RegInv, WsInv, LifeCycle, TypeOK
  <2>2. net' \o s'.writeBuffer \in {net \o s.writeBuffer, Append(net \o s.writeBuffer, pushes)}
    BY <1>11, PostWritesKeeps DEF RegInv
  <2>3. Channel' \in {Channel, Append(Channel, pushes)}
    BY <2>1, <2>2, ChannelIs DEF Channel
  <2>4. Channel # <<>> => Channel' # <<>>
    BY <2>3, ChannelIs
  <2>. QED  BY <1>0, <2>1, <2>4 DEF RegInv, Gone
<1>12. CASE UNCHANGED vars
  BY <1>1, <1>12 DEF vars, clientVars, Channel
<1>. QED  BY <1>3, <1>4, <1>5, <1>6, <1>7, <1>8, <1>9, <1>10, <1>11, <1>12 DEF Next

\* A table with one row.
LEMMA OneRow ==
  \A a, b : /\ [[x \in {Me} |-> a] EXCEPT ![Me] = b] = [x \in {Me} |-> b]
            /\ [x \in {Me} |-> a][Me] = a
OBVIOUS

\* The list of one handler, without it.
LEMMA OneLess == Registry!ListRemove(<<Me>>, Me) = <<>>
<1>1. \A f : f = [j \in 1..0 |-> f[j]] => f = <<>>
  OBVIOUS
<1>2. Len(<<Me>>) - 1 = 0
  OBVIOUS
<1>. QED  BY <1>1, <1>2 DEF Registry!ListRemove

\* The browser connects.
LEMMA ConnectMaps == ASSUME RegInv, Connect  PROVE Registry!Connect(Me)
<1>1. /\ peer = "absent" /\ stage = "none" /\ peer' = "open" /\ stage' = "request"
      /\ UNCHANGED <<s, clientTerminated, postVars, net, got>>
  BY DEF Connect, RegInv, WsInv, LifeCycle, protocolVars
<1>2. StreamSeen' = "request"
  BY <1>1 DEF StreamSeen
<1>3. UNCHANGED <<CallbackSeen, WsSeen, Registered, PostSeen, pushes, Channel, got, since>>
  BY <1>1 DEF CallbackSeen, WsSeen, Registered, PostSeen, Channel, postVars
<1>. QED
  BY <1>1, <1>2, <1>3, OneRow
     DEF Registry!Connect, StreamSeen, CallbackSeen, WsSeen, PostSeen, Channel

\* It goes, by itself or for a frame that no browser sends.
LEMMA PeerGoesMaps ==
  ASSUME RegInv, SendFrame \/ PeerGoes
  PROVE  Registry!PeerGoes(Me) \/ UNCHANGED Registry!vars
<1>1. /\ peer = "open" /\ peer' \in {"open", "left", "vanished"}
      /\ UNCHANGED <<stage, s, clientTerminated, postVars, net, got>>
  BY DEF SendFrame, PeerGoes, protocolVars
<1>2. UNCHANGED <<StreamSeen, CallbackSeen, WsSeen, Registered, PostSeen, pushes, Channel, got,
                  since>>
  BY <1>1 DEF StreamSeen, CallbackSeen, WsSeen, Registered, PostSeen, Channel, postVars
<1>3. CASE peer' = "open"
  BY <1>1, <1>2, <1>3, Unseen DEF Seen
<1>4. CASE peer' # "open"
  BY <1>1, <1>2, <1>4, OneRow
     DEF Registry!PeerGoes, StreamSeen, CallbackSeen, WsSeen, PostSeen, Channel
<1>. QED  BY <1>3, <1>4

\* It reads an update, or an answer.
LEMMA DeliverMaps ==
  ASSUME RegInv, Deliver
  PROVE  Registry!Deliver(Me) \/ UNCHANGED Registry!vars
<1>1. /\ peer = "open" /\ net # <<>> /\ net' = Tail(net)
      /\ got' = (IF Head(net) \in 1..MaxPush THEN Append(got, Head(net)) ELSE got)
      /\ UNCHANGED <<peer, stage, s, clientTerminated, postVars>>
  BY DEF Deliver, clientVars, protocolVars
<1>2. UNCHANGED <<StreamSeen, CallbackSeen, WsSeen, Registered, PostSeen, pushes, since>>
  BY <1>1 DEF StreamSeen, CallbackSeen, WsSeen, Registered, PostSeen, postVars
<1>3. net \in Seq(Out) /\ s.writeBuffer \in Seq(Out)
  BY ChannelIs
<1>4. net \o s.writeBuffer \in Seq(Out)
  BY <1>3
<1>5. PICK all \in Seq(Out) : all = net \o s.writeBuffer
  BY <1>4
<1>6. all # <<>> /\ Head(all) = Head(net) /\ Tail(all) = Tail(net) \o s.writeBuffer
  BY <1>1, <1>3, <1>5
<1>7. Channel = Keep(all, 1..MaxPush) /\ Channel' = Keep(Tail(all), 1..MaxPush)
  BY <1>1, <1>5, <1>6 DEF Channel
<1>8. CASE Head(net) \in 1..MaxPush
  <2>1. Channel # <<>> /\ Head(Channel) = Head(net) /\ Channel' = Tail(Channel)
    BY <1>6, <1>7, <1>8, KeepTail
  <2>. QED
    BY <1>1, <1>2, <1>8, <2>1, OneRow
       DEF Registry!Deliver, StreamSeen, CallbackSeen, WsSeen, PostSeen, Channel
<1>9. CASE Head(net) \notin 1..MaxPush
  <2>1. Channel' = Channel
    BY <1>6, <1>7, <1>9, KeepTail
  <2>. QED  BY <1>1, <1>2, <1>9, <2>1, Unseen DEF Seen
<1>. QED  BY <1>8, <1>9

\* The handshake fails: the stream is HTTP's, or on_close is due.
LEMMA RefuseMaps ==
  ASSUME RegInv, Refuse
  PROVE  Registry!RefuseHandshake(Me) \/ Registry!AbortHandshake(Me)
<1>1. /\ post = "idle" /\ stage = "request"
      /\ peer' = (IF peer = "open" THEN "left" ELSE peer)
      /\ UNCHANGED <<postVars, net, got>>
      /\ \/ stage' = "refused" /\ UNCHANGED clientTerminated
         \/ stage' = "open" /\ UNCHANGED clientTerminated
         \/ stage' = "open" /\ clientTerminated' = TRUE
  BY DEF Refuse, Abort
<1>2. s'.closed /\ s'.writeBuffer = <<>>
  BY RefuseKeeps DEF RegInv
<1>3. ~clientTerminated /\ since = -1 /\ Channel' = Channel
  <2>1. ~clientTerminated /\ since = -1 /\ s.writeBuffer = <<>>
    BY <1>1, NothingWrittenYet
  <2>. QED  BY <1>1, <1>2, <2>1 DEF Channel
<1>4. /\ StreamSeen = "request" /\ StreamSeen' = "closed" /\ ~Registered /\ ~Registered'
      /\ CallbackSeen = "unset" /\ ~WsSeen /\ UNCHANGED <<PostSeen, pushes, got, since>>
  BY <1>1, <1>2, <1>3 DEF StreamSeen, CallbackSeen, WsSeen, Registered, PostSeen, postVars
<1>5. CASE stage' = "refused"
  <2>1. CallbackSeen' = "unset" /\ ~WsSeen'
    BY <1>5 DEF CallbackSeen, WsSeen
  <2>2. Registry!RefuseHandshake(Me)
    BY <1>1, <1>3, <1>4, <2>1, OneRow
       DEF Registry!RefuseHandshake, StreamSeen, CallbackSeen, WsSeen, PostSeen, Channel
  <2>. QED  BY <2>2
<1>6. CASE stage' = "open" /\ clientTerminated' = clientTerminated
  <2>1. CallbackSeen' = "scheduled" /\ ~WsSeen'
    BY <1>1, <1>2, <1>3, <1>6 DEF CallbackSeen, WsSeen, postVars
  <2>2. Registry!RefuseHandshake(Me)
    BY <1>1, <1>3, <1>4, <2>1, OneRow
       DEF Registry!RefuseHandshake, Registry!CloseStream, StreamSeen, CallbackSeen, WsSeen,
           PostSeen, Channel
  <2>. QED  BY <2>2
<1>7. CASE stage' = "open" /\ clientTerminated' = TRUE
  <2>1. CallbackSeen' = "scheduled" /\ WsSeen' = TRUE
    BY <1>1, <1>2, <1>3, <1>7 DEF CallbackSeen, WsSeen, postVars
  <2>2. Registry!AbortHandshake(Me)
    BY <1>1, <1>3, <1>4, <2>1, OneRow
       DEF Registry!AbortHandshake, Registry!CloseStream, StreamSeen, CallbackSeen, WsSeen,
           PostSeen, Channel
  <2>. QED  BY <2>2
<1>. QED  BY <1>1, <1>5, <1>6, <1>7

\* The handshake is answered and the handler registered; the stream is closed at once only
\* if the browser has left.
LEMMA AcceptMaps == ASSUME RegInv, Accept  PROVE Registry!Open(Me)
<1>1. /\ post = "idle" /\ stage = "request" /\ stage' = "open" /\ since' = pushes
      /\ UNCHANGED <<peer, tcp, post, pushes, net, got>>
  BY DEF Accept
<1>2. WsInv' /\ s'.writeBuffer = <<>> /\ pushes # -1
  <2>1. pushes # -1
    BY BoundsAssumption DEF RegInv, WsInv, TypeOK
  <2>. QED  BY <2>1, AcceptKeeps DEF RegInv
<1>3. Channel = <<>> /\ s.writeBuffer = <<>> /\ ~clientTerminated /\ since = -1
  BY <1>1, NothingWrittenYet
<1>4. Channel' = Channel
  BY <1>1, <1>2, <1>3 DEF Channel
<1>5. s'.closed => peer = "left"
  <2>1. s'.closed => peer' = "left" \/ tcp' # "up"
    BY <1>1, <1>2 DEF WsInv, LifeCycle, Lost
  <2>. QED  BY <1>1, <1>3, <2>1 DEF RegInv, Gone
<1>6. /\ StreamSeen = "request" /\ WsSeen' = TRUE /\ ~Registered /\ Registered' = TRUE
      /\ UNCHANGED <<PostSeen, pushes, got>>
  BY <1>1, <1>2, <1>3 DEF StreamSeen, WsSeen, Registered, PostSeen
<1>7. Append(<<>>, Me) = <<Me>>
  OBVIOUS
<1>8. CASE s'.closed
  <2>1. StreamSeen' = "closed" /\ CallbackSeen' = "scheduled"
    BY <1>1, <1>8 DEF StreamSeen, CallbackSeen
  <2>. QED
    BY <1>1, <1>4, <1>5, <1>6, <1>7, <1>8, <2>1, OneRow
       DEF Registry!Open, Registry!CloseStream, StreamSeen, CallbackSeen, WsSeen, PostSeen, Channel
<1>9. CASE ~s'.closed
  <2>1. StreamSeen' = "open" /\ CallbackSeen' = "set"
    BY <1>1, <1>9 DEF StreamSeen, CallbackSeen
  <2>. QED
    BY <1>1, <1>4, <1>6, <1>7, <2>1, OneRow
       DEF Registry!Open, StreamSeen, CallbackSeen, WsSeen, PostSeen, Channel
<1>. QED  BY <1>8, <1>9

\* The stream closes itself only when the client has gone.
LEMMA OwnStepMaps ==
  ASSUME RegInv, (RunTask /\ Head(s.tasks).kind # "onClose") \/ ReadEvent \/ WriteEvent
  PROVE  Registry!NoticePeerGone(Me) \/ UNCHANGED Registry!vars
<1>1. /\ WsInv' /\ OwnStep /\ post = "idle"
      /\ UNCHANGED <<peer, tcp, stage, post, pushes, since, got>>
      /\ since = -1 => UNCHANGED clientTerminated
  BY OwnSteps
<1>2. Channel' = Channel
  BY <1>1, OwnStepUnseen
<1>3. stage \notin {"none", "request"}
  BY NotFresh DEF RunTask, ReadEvent, WriteEvent, Listening, RegInv
<1>4. UNCHANGED <<WsSeen, Registered, PostSeen>>
  BY <1>1 DEF WsSeen, Registered, PostSeen
<1>5. CASE ~s.closed /\ s'.closed
  <2>1. stage = "open" /\ since # -1
    BY <1>3, <1>5 DEF RegInv, WsInv, LifeCycle, TypeOK
  <2>2. peer = "left" \/ tcp # "up"
    BY <1>1, <1>5, <2>1 DEF WsInv, LifeCycle, Lost
  <2>3. peer = "left" \/ (peer = "vanished" /\ Channel # <<>>)
    BY <2>2 DEF RegInv, Gone
  <2>4. /\ StreamSeen = "open" /\ StreamSeen' = "closed"
        /\ CallbackSeen' = "scheduled"
    BY <1>1, <1>5, <2>1 DEF StreamSeen, CallbackSeen
  <2>5. Registry!NoticePeerGone(Me)
    BY <1>1, <1>2, <1>4, <2>3, <2>4, OneRow
       DEF Registry!NoticePeerGone, Registry!CloseStream, StreamSeen, CallbackSeen, WsSeen,
           PostSeen, Channel
  <2>. QED  BY <2>5
<1>6. CASE s'.closed = s.closed
  <2>1. UNCHANGED <<StreamSeen, CallbackSeen>>
    BY <1>1, <1>6 DEF StreamSeen, CallbackSeen
  <2>. QED  BY <1>1, <1>2, <1>4, <2>1, Unseen DEF Seen
<1>7. s.closed \in BOOLEAN /\ s'.closed \in BOOLEAN
  BY <1>1, TaskTypes DEF RegInv, WsInv, TypeOK
<1>8. s'.closed = s.closed \/ (~s.closed /\ s'.closed)
  BY <1>1, <1>7 DEF OwnStep
<1>. QED  BY <1>5, <1>6, <1>8

\* on_close takes the handler from the list.
LEMMA OnCloseMaps ==
  ASSUME RegInv, RunTask, Head(s.tasks).kind = "onClose"
  PROVE  Registry!OnConnectionClose(Me)
<1>1. /\ OwnStep /\ stage = "open" /\ s.closed /\ stage' = "over"
      /\ post = "idle" /\ UNCHANGED <<peer, tcp, post, pushes, since, got>>
  BY OnCloseStep
<1>2. Channel' = Channel /\ s'.closed
  BY <1>1, OwnStepUnseen DEF OwnStep
<1>3. /\ CallbackSeen = "scheduled" /\ CallbackSeen' = "ran" /\ WsSeen' = FALSE /\ ~Registered'
      /\ UNCHANGED <<StreamSeen, PostSeen>>
  BY <1>1, <1>2 DEF StreamSeen, CallbackSeen, WsSeen, Registered, PostSeen
<1>. DEFINE list == IF Registered THEN <<Me>> ELSE <<>>
            remaining == IF \E i \in 1..Len(list) : list[i] = Me
                           THEN Registry!ListRemove(list, Me) ELSE list
<1>4. remaining = <<>>
  <2>1. CASE Registered
    <3>1. list = <<Me>>
      BY <2>1
    <3>. QED  BY <3>1, OneLess
  <2>2. CASE ~Registered
    <3>1. list = <<>>
      BY <2>2
    <3>. QED  BY <3>1
  <2>. QED  BY <2>1, <2>2
<1>5. Registry!DropConnection(Me, remaining)
  <2>. HIDE DEF remaining
  <2>. QED
    BY <1>1, <1>2, <1>3, <1>4, OneRow
       DEF Registry!DropConnection, StreamSeen, CallbackSeen, WsSeen, PostSeen, Channel
<1>. QED  BY <1>5 DEF Registry!OnConnectionClose, Registry!Registered

\* The Announcer takes an update, and is done with it.
LEMMA PostMaps ==
  ASSUME RegInv, PostBegins \/ PostEnds  PROVE Registry!PostBegins \/ Registry!PostEnds
<1>1. UNCHANGED <<peer, stage, s, clientTerminated, since, net, got>>
  BY DEF PostBegins, PostEnds, clientVars, protocolVars
<1>2. UNCHANGED <<StreamSeen, CallbackSeen, WsSeen, Registered, Channel>>
  BY <1>1 DEF StreamSeen, CallbackSeen, WsSeen, Registered, Channel
<1>3. CASE PostBegins
  <2>1. post = "idle" /\ pushes < MaxPush /\ pushes' = pushes + 1 /\ post' = "writing"
    BY <1>3 DEF PostBegins
  <2>2. PostSeen' = [running |-> TRUE, i |-> 1, targets |-> IF Registered THEN <<Me>> ELSE <<>>]
    BY <1>2, <2>1 DEF PostSeen
  <2>3. Registry!PostBegins
    BY <1>1, <1>2, <2>1, <2>2, OneRow
       DEF Registry!PostBegins, StreamSeen, CallbackSeen, WsSeen, PostSeen, Channel
  <2>. QED  BY <2>3
<1>4. CASE PostEnds
  <2>1. (post = "written" \/ (post = "writing" /\ ~Registered)) /\ post' = "idle"
        /\ pushes' = pushes
    BY <1>4 DEF PostEnds
  <2>2. PostSeen' = Registry!NoPost
    BY <2>1 DEF PostSeen, Registry!NoPost
  <2>. DEFINE list == IF Registered THEN <<Me>> ELSE <<>>
  <2>3. PostSeen.running /\ PostSeen.i > Len(list)
    <3>1. Len(<<Me>>) = 1 /\ Len(<<>>) = 0
      OBVIOUS
    <3>2. PostSeen.running /\ PostSeen.i = IF post = "written" THEN 2 ELSE 1
      BY <2>1 DEF PostSeen
    <3>3. Len(list) = IF Registered THEN 1 ELSE 0
      BY <3>1
    <3>. QED  BY <2>1, <3>2, <3>3
  <2>4. Registry!PostEnds
    BY <1>1, <1>2, <2>1, <2>2, <2>3, OneRow
       DEF Registry!PostEnds, StreamSeen, CallbackSeen, WsSeen, PostSeen, Channel
  <2>. QED  BY <2>4
<1>. QED  BY <1>3, <1>4

\* It writes to the connection, which may be closed, or break.
LEMMA PostWritesMaps == ASSUME RegInv, PostWrites  PROVE Registry!PostToNext
<1>1. /\ post = "writing" /\ Registered /\ stage = "open" /\ since # -1 /\ post' = "written"
      /\ UNCHANGED <<peer, stage, pushes, since, got>>
  BY DEF PostWrites, Registered, clientVars
<1>2. WsInv' /\ pushes \in 1..MaxPush
  BY <1>1, PostWritesKeeps DEF RegInv, WsInv, LifeCycle, TypeOK
<1>3. \/ /\ s'.closed = s.closed /\ ~s.closed
         /\ net' \o s'.writeBuffer = Append(net \o s.writeBuffer, pushes)
      \/ s'.closed /\ net' \o s'.writeBuffer = net \o s.writeBuffer
  BY PostWritesKeeps DEF RegInv
<1>4. /\ WsSeen = TRUE /\ WsSeen' = TRUE /\ Registered = TRUE /\ Registered' = TRUE
      /\ PostSeen = [running |-> TRUE, i |-> 1, targets |-> <<Me>>]
      /\ PostSeen' = [running |-> TRUE, i |-> 2, targets |-> <<Me>>]
  BY <1>1 DEF WsSeen, Registered, PostSeen
<1>5. Len(<<Me>>) = 1 /\ <<Me>>[1] = Me
  OBVIOUS
<1>6. Registry!WriteFrame(Me)
  <2>1. CASE /\ s'.closed = s.closed /\ ~s.closed
             /\ net' \o s'.writeBuffer = Append(net \o s.writeBuffer, pushes)
    <3>1. Channel' = Append(Channel, pushes)
      BY <1>2, <2>1, ChannelIs DEF Channel, Out
    <3>2. StreamSeen = "open" /\ UNCHANGED <<StreamSeen, CallbackSeen>>
      BY <1>1, <2>1 DEF StreamSeen, CallbackSeen
    <3>. QED
      BY <1>1, <3>1, <3>2, OneRow DEF Registry!WriteFrame, StreamSeen, CallbackSeen, Channel
  <2>2. CASE s'.closed /\ net' \o s'.writeBuffer = net \o s.writeBuffer
    <3>1. Channel' = Channel
      BY <2>2 DEF Channel
    <3>2. StreamSeen' = "closed" /\ CallbackSeen' = "scheduled"
      BY <1>1, <2>2 DEF StreamSeen, CallbackSeen
    <3>3. CASE s.closed
      <4>1. StreamSeen = "closed" /\ CallbackSeen = "scheduled"
        BY <1>1, <3>3 DEF StreamSeen, CallbackSeen
      <4>. QED
        BY <3>1, <3>2, <4>1, OneRow DEF Registry!WriteFrame, StreamSeen, CallbackSeen, Channel
    <3>4. CASE ~s.closed
      <4>1. StreamSeen = "open"
        BY <1>1, <3>4 DEF StreamSeen
      <4>2. peer # "open"
        BY <1>1, <1>2, <2>2 DEF WsInv, LifeCycle
      <4>. QED
        BY <3>1, <3>2, <4>1, <4>2, OneRow
           DEF Registry!WriteFrame, Registry!CloseStream, StreamSeen, CallbackSeen, Channel
    <3>. QED  BY <3>3, <3>4
  <2>. QED  BY <1>3, <2>1, <2>2
<1>. QED
  BY <1>1, <1>4, <1>5, <1>6, OneRow
     DEF Registry!PostToNext, WsSeen, PostSeen

\* Each step of the connection is one that SocketRegistry knows, or none to it.
LEMMA RegistryStep ==
  RegInv /\ [Next]_vars => [Registry!Next]_(Registry!vars)
<1>. SUFFICES ASSUME RegInv, [Next]_vars
              PROVE  Registry!Next \/ UNCHANGED Registry!vars
  OBVIOUS
<1>1. ASSUME \/ Registry!Connect(Me) \/ Registry!PeerGoes(Me) \/ Registry!Deliver(Me)
             \/ Registry!RefuseHandshake(Me) \/ Registry!AbortHandshake(Me) \/ Registry!Open(Me)
             \/ Registry!NoticePeerGone(Me) \/ Registry!OnConnectionClose(Me)
             \/ Registry!PostBegins \/ Registry!PostToNext \/ Registry!PostEnds
      PROVE  Registry!Next
  BY <1>1 DEF Registry!Next
<1>2. CASE Connect
  BY <1>1, <1>2, ConnectMaps
<1>3. CASE SendFrame \/ PeerGoes
  BY <1>1, <1>3, PeerGoesMaps
<1>4. CASE Deliver
  BY <1>1, <1>4, DeliverMaps
<1>5. CASE Refuse
  BY <1>1, <1>5, RefuseMaps
<1>6. CASE Accept
  BY <1>1, <1>6, AcceptMaps
<1>7. CASE (RunTask /\ Head(s.tasks).kind # "onClose") \/ ReadEvent \/ WriteEvent
  BY <1>1, <1>7, OwnStepMaps
<1>8. CASE RunTask /\ Head(s.tasks).kind = "onClose"
  BY <1>1, <1>8, OnCloseMaps
<1>9. CASE PostBegins \/ PostEnds
  BY <1>1, <1>9, PostMaps
<1>10. CASE PostWrites
  BY <1>1, <1>10, PostWritesMaps
<1>11. CASE ConnectionEnds
  <2>1. UNCHANGED Seen
    BY <1>11 DEF ConnectionEnds, Seen, StreamSeen, CallbackSeen, WsSeen, Registered, PostSeen,
                 Channel, postVars, protocolVars
  <2>. QED  BY <2>1, Unseen
<1>12. CASE ErrorEvent
  <2>1. s' = IO!HandleError(s)
        /\ UNCHANGED <<clientVars, stage, protocolVars, broken, postVars, net, got>>
    BY <1>12 DEF ErrorEvent
  <2>2. s'.writeBuffer = s.writeBuffer /\ s'.closed = s.closed
    BY <2>1, HandleErrorAlike DEF RegInv, WsInv
  <2>3. UNCHANGED Seen
    BY <2>1, <2>2 DEF Seen, StreamSeen, CallbackSeen, WsSeen, Registered, PostSeen, Channel,
                      postVars, protocolVars, clientVars
  <2>. QED  BY <2>3, Unseen
<1>13. CASE UNCHANGED vars
  <2>1. UNCHANGED Seen
    BY <1>13 DEF vars, Seen, StreamSeen, CallbackSeen, WsSeen, Registered, PostSeen, Channel,
                 postVars, protocolVars, clientVars
  <2>. QED  BY <2>1, Unseen
<1>. QED  BY <1>2, <1>3, <1>4, <1>5, <1>6, <1>7, <1>8, <1>9, <1>10, <1>11, <1>12, <1>13 DEF Next

\* It starts as SocketRegistry does.
LEMMA RegistryInit == Init => RegInv /\ Registry!Init
<1>. SUFFICES ASSUME Init  PROVE RegInv /\ Registry!Init
  OBVIOUS
<1>1. WsInv /\ tcp = "up" /\ net = <<>> /\ s.writeBuffer = <<>>
  BY InitWsInv, FreshIs DEF Init
<1>2. RegInv
  BY <1>1 DEF RegInv
<1>3. Channel = <<>>
  BY <1>2, NothingWrittenYet DEF Init
<1>4. /\ StreamSeen = "none" /\ CallbackSeen = "unset" /\ WsSeen = FALSE /\ ~Registered
      /\ PostSeen = Registry!NoPost
  BY DEF Init, StreamSeen, CallbackSeen, WsSeen, Registered, PostSeen, Registry!NoPost
<1>5. peer = "absent" /\ pushes = 0 /\ got = <<>> /\ since = Registry!Never
  BY DEF Init, Registry!Never
<1>6. Registry!Init
  BY <1>3, <1>4, <1>5 DEF Registry!Init, StreamSeen, CallbackSeen, WsSeen, PostSeen, Channel
<1>. QED  BY <1>2, <1>6

-----------------------------------------------------------------------------
(* What SocketRegistry shows of the connection                             *)

SP == INSTANCE SocketRegistry_proofs WITH
  Socket <- {Me}, Feed <- {}, MaxRestart <- 0, restarts <- 0,
  peer <- [x \in {Me} |-> peer], stream <- [x \in {Me} |-> StreamSeen],
  callback <- [x \in {Me} |-> CallbackSeen], ws <- [x \in {Me} |-> WsSeen],
  ALL_SOCKETS <- IF Registered THEN <<Me>> ELSE <<>>, wanted_feeds <- [x \in {Me} |-> {}],
  post <- PostSeen, net <- [x \in {Me} |-> Channel], got <- [x \in {Me} |-> got],
  since <- [x \in {Me} |-> since]

\* The module that proves it takes the same steps.
LEMMA SameSteps == Registry!Next => SP!Next
<1>. SUFFICES ASSUME Registry!Next  PROVE SP!Next
  OBVIOUS
<1>. USE DEF StreamSeen, CallbackSeen, WsSeen, PostSeen, Channel
<1>1. Registry!Connect(Me) => SP!Connect(Me)
  BY DEF Registry!Connect, SP!Connect
<1>2. Registry!PeerGoes(Me) => SP!PeerGoes(Me)
  BY DEF Registry!PeerGoes, SP!PeerGoes
<1>3. Registry!Deliver(Me) => SP!Deliver(Me)
  BY DEF Registry!Deliver, SP!Deliver
<1>4. Registry!RefuseHandshake(Me) => SP!RefuseHandshake(Me)
  BY DEF Registry!RefuseHandshake, SP!RefuseHandshake, Registry!CloseStream, SP!CloseStream
<1>5. Registry!AbortHandshake(Me) => SP!AbortHandshake(Me)
  BY DEF Registry!AbortHandshake, SP!AbortHandshake, Registry!CloseStream, SP!CloseStream
<1>6. Registry!Open(Me) => SP!Open(Me)
  BY DEF Registry!Open, SP!Open, Registry!CloseStream, SP!CloseStream
<1>7. Registry!NoticePeerGone(Me) => SP!NoticePeerGone(Me)
  BY DEF Registry!NoticePeerGone, SP!NoticePeerGone, Registry!CloseStream, SP!CloseStream
<1>8. Registry!OnConnectionClose(Me) => SP!OnConnectionClose(Me)
  BY DEF Registry!OnConnectionClose, SP!OnConnectionClose, Registry!DropConnection,
         SP!DropConnection, Registry!Registered, SP!Registered, Registry!ListRemove,
         SP!ListRemove
<1>9. Registry!OnMessage(Me) => SP!OnMessage(Me)
  BY DEF Registry!OnMessage, SP!OnMessage, Registry!Registered, SP!Registered
<1>10. Registry!PostBegins => SP!PostBegins
  BY DEF Registry!PostBegins, SP!PostBegins
<1>11. Registry!PostToNext => SP!PostToNext
  BY DEF Registry!PostToNext, SP!PostToNext, Registry!WriteFrame, SP!WriteFrame,
         Registry!CloseStream, SP!CloseStream, Registry!ListRemove, SP!ListRemove
<1>12. Registry!PostEnds => SP!PostEnds
  BY DEF Registry!PostEnds, SP!PostEnds, Registry!NoPost, SP!NoPost
<1>13. ~Registry!Restart
  BY DEF Registry!Restart
<1>. QED
  BY <1>1, <1>2, <1>3, <1>4, <1>5, <1>6, <1>7, <1>8, <1>9, <1>10, <1>11, <1>12, <1>13
     DEF Registry!Next, SP!Next

\* The connection keeps the account of its feed.
LEMMA FeedIsExact == Spec => []SP!FeedInv
<1>1. SP!BoundsAssumption
  BY BoundsAssumption DEF SP!BoundsAssumption
<1>2. Registry!Init => SP!Init
  BY DEF Registry!Init, SP!Init, Registry!NoPost, SP!NoPost, Registry!Never, SP!Never,
         StreamSeen, CallbackSeen, WsSeen, PostSeen, Channel
<1>3. UNCHANGED Registry!vars => UNCHANGED SP!vars
  BY DEF Registry!vars, SP!vars, StreamSeen, CallbackSeen, WsSeen, PostSeen, Channel
<1>4. RegInv /\ [Next]_vars => [SP!Next]_(SP!vars)
  BY <1>3, RegistryStep, SameSteps
<1>5. RegInv /\ [Next]_vars => RegInv'
  BY RegInvKeeps
<1>6. SP!Spec => []SP!FeedInv
  BY <1>1, SP!FeedInvariant
<1>. QED  BY <1>2, <1>4, <1>5, <1>6, RegistryInit, PTL DEF Spec, SP!Spec

\* What the client has read, what the kernel holds for it and what waits in the write
\* buffer are the updates since the handshake, in order and each once; of an open
\* connection, all of them.  One that closes loses the end of what was not read.
UpdatesArriveInOrder ==
  LET all == got \o Channel
  IN  /\ since = -1 => all = <<>>
      /\ \A i \in 1..Len(all) : all[i] = since + i
      /\ stage = "open" /\ ~s.closed =>
           since + Len(all) = IF post = "writing" THEN pushes - 1 ELSE pushes

\* What the account says.
LEMMA AccountTells ==
  ASSUME WsInv, SP!FeedInv  PROVE UpdatesArriveInOrder
<1>. DEFINE all == got \o Channel
<1>1. got \in Seq(1..MaxPush) /\ Channel \in Seq(1..MaxPush)
  <2>1. SP!TypeOK
    BY DEF SP!FeedInv, SP!WalkInv, SP!RegistryInv, SP!Typing
  <2>. QED  BY <2>1, OneRow DEF SP!TypeOK
<1>2. /\ since = -1 => got = <<>> /\ Channel = <<>>
      /\ \A i \in 1..Len(got) : got[i] = since + i
      /\ \A i \in 1..Len(Channel) : Channel[i] = since + Len(got) + i
      /\ StreamSeen = "open" => since + Len(got) + Len(Channel) = SP!Owed(Me)
  <2>1. SP!FeedOf(Me)
    BY DEF SP!FeedInv
  <2>. QED  BY <2>1, OneRow DEF SP!FeedOf, SP!Never
<1>3. \A i \in 1..Len(all) : all[i] = since + i
  <2>. SUFFICES ASSUME NEW i \in 1..Len(all)  PROVE all[i] = since + i
    OBVIOUS
  <2>1. since \in Int
    BY BoundsAssumption DEF WsInv, TypeOK
  <2>2. PICK m \in Nat, n \in Nat : m = Len(got) /\ n = Len(Channel)
    BY <1>1
  <2>3. i \in 1..(m + n)
    BY <1>1, <2>2
  <2>4. CASE i \in 1..m
    BY <1>1, <1>2, <2>2, <2>4
  <2>5. CASE i \in (m + 1)..(m + n)
    <3>1. all[i] = Channel[i - m]
      BY <1>1, <2>2, <2>5
    <3>2. i - m \in 1..n /\ since + m + (i - m) = since + i
      BY <2>1, <2>2, <2>5
    <3>3. Channel[i - m] = since + m + (i - m)
      BY <1>2, <2>2, <3>2
    <3>. QED  BY <3>1, <3>2, <3>3
  <2>. QED  BY <2>2, <2>3, <2>4, <2>5
<1>4. ASSUME stage = "open", ~s.closed
      PROVE  since + Len(all) = IF post = "writing" THEN pushes - 1 ELSE pushes
  <2>1. StreamSeen = "open" /\ Registered
    BY <1>4 DEF StreamSeen, Registered, WsInv, LifeCycle
  <2>2. since \in Int /\ Len(all) = Len(got) + Len(Channel)
        /\ Len(got) \in Nat /\ Len(Channel) \in Nat
    BY <1>1, BoundsAssumption DEF WsInv, TypeOK
  <2>3. post \in {"idle", "writing", "written"}
    BY DEF WsInv, TypeOK
  <2>4. SP!Owed(Me) = IF post = "writing" THEN pushes - 1 ELSE pushes
    <3>1. PostSeen.targets = IF post # "idle" THEN <<Me>> ELSE <<>>
      BY <2>1 DEF PostSeen
    <3>2. PostSeen.running = (post # "idle") /\ PostSeen.i = IF post = "written" THEN 2 ELSE 1
      BY DEF PostSeen
    <3>3. post = "written" => SP!Passed(Me)
      <4>1. <<Me>>[1] = Me /\ 1 \in 1..(2 - 1)
        OBVIOUS
      <4>. QED  BY <3>1, <3>2, <4>1 DEF SP!Passed
    <3>4. post = "writing" => ~SP!Passed(Me)
      BY <3>2 DEF SP!Passed
    <3>. QED  BY <2>3, <3>2, <3>3, <3>4 DEF SP!Owed
  <2>. QED  BY <1>2, <2>1, <2>2, <2>4
<1>5. since = -1 => all = <<>>
  BY <1>2
<1>. QED  BY <1>3, <1>4, <1>5 DEF UpdatesArriveInOrder

-----------------------------------------------------------------------------
(* The theorems                                                            *)

\* Every variable keeps its type, and _pending_callbacks, which holds the close callback
\* back, counts exactly the callbacks that are on the IOLoop.
THEOREM PendingCorrect == Spec => []PendingIsExact
<1>1. WsInv => PendingIsExact
  BY Counted DEF PendingIsExact, WsInv
<1>. QED  BY <1>1, Invariant, PTL

\* An open connection always has a callback due or listens for data, so that nothing that
\* happens to it is missed.
THEOREM ListeningCorrect == Spec => []NeverDeaf
BY SomebodyListens, Invariant, PTL

\* ClientSocket.on_message is called with the client's messages, whole and in order, and
\* with all of them if the connection ends without a reset or a failed write.
THEOREM MessagesCorrect == Spec => []MessagesArriveWhole
<1>1. WsInv => MessagesArriveWhole
  BY DEF WsInv, Parsing, MessagesArriveWhole
<1>. QED  BY <1>1, Invariant, PTL

\* The answer to a close frame is the last frame written to a connection.
THEOREM CloseFrameIsLast == Spec => []NothingAfterClose
<1>1. WsInv => NothingAfterClose
  BY DEF WsInv, Closing, EndsWithClose, NothingAfterClose
<1>. QED  BY <1>1, Invariant, PTL

\* After on_close the handler is left alone: no message, no second on_close.
THEOREM OverCorrect == Spec => OverIsOver
<1>1. ASSUME WsInv, WsInv', [Next]_vars, stage = "over"
      PROVE  /\ stage' = "over" /\ told' = told /\ s'.closed /\ ~s'.handler
             /\ \A i \in 1..Len(s'.tasks) : s'.tasks[i].kind # "onClose"
  <2>1. stage' = "over" /\ told' = told
    BY <1>1, NothingToldOver
  <2>2. Sound(s') /\ s'.closed /\ ~Awaits(s')
    BY <1>1, <2>1 DEF WsInv, LifeCycle
  <2>3. ~Has(s'.tasks, "onClose")
    BY <2>2 DEF Awaits
  <2>. QED  BY <2>1, <2>2, <2>3 DEF Sound, Has
<1>2. WsInv /\ WsInv' /\ [Next]_vars =>
        [stage = "over" =>
           /\ stage' = "over" /\ told' = told /\ s'.closed /\ ~s'.handler
           /\ \A i \in 1..Len(s'.tasks) : s'.tasks[i].kind # "onClose"]_vars
  BY <1>1
<1>. QED  BY <1>2, Invariant, PTL DEF Spec, OverIsOver

\* What SocketRegistry assumes of a connection is what tornado's does, with any number of
\* frames and updates: each step is one of its actions, or changes nothing it speaks of.
THEOREM RegistryRefinement == Spec => RegistrySpec
<1>1. RegInv /\ [Next]_vars => RegInv'
  BY RegInvKeeps
<1>. QED
  BY <1>1, RegistryInit, RegistryStep, PTL DEF Spec, RegistrySpec, Registry!Spec

\* From the Announcer to the page's onmessage no update is lost, doubled or overtaken, through
\* write buffer, kernel and network, while the connection is open: the promise of the server
\* to its sockets, kept by the connection that is one.
THEOREM UpdatesCorrect == Spec => []UpdatesArriveInOrder
<1>1. WsInv /\ SP!FeedInv => UpdatesArriveInOrder
  BY AccountTells
<1>. QED  BY <1>1, Invariant, FeedIsExact, PTL
=============================================================================
