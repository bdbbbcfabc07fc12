------------------------------ MODULE IOStream ------------------------------
(***************************************************************************)
(* tornado's IOStream, as a record and the operations on it: the buffer a  *)
(* pending read waits on, the callbacks it has put on the IOLoop, the      *)
(* events it listens for, and the close callback, which is held back until *)
(* the other callbacks have run.  Data comes in units: a unit is what one  *)
(* read asks for, however many segments it arrives in.                     *)
(***************************************************************************)
EXTENDS Integers, Sequences

CONSTANTS
  Unit,     \* what the other end sends
  Frame     \* what is written to it

\* reading: _read_callback is set; pending: _pending_callbacks; interest: the events in
\* _state besides ERROR, with handler FALSE when _state is None; closeCallback: it is
\* set; tasks: callbacks of this stream that are on the IOLoop, oldest first.
Task == [kind : {"data", "onClose", "close"}, data : Seq(Unit)]
Plain(kind) == [kind |-> kind, data |-> <<>>]

Stream ==
  [closed : BOOLEAN, buffer : Seq(Unit), reading : BOOLEAN, pending : Nat,
   handler : BOOLEAN, interest : SUBSET {"READ", "WRITE"}, closeCallback : BOOLEAN,
   writeBuffer : Seq(Frame), tasks : Seq(Task)]

Fresh ==
  [closed |-> FALSE, buffer |-> <<>>, reading |-> FALSE, pending |-> 0,
   handler |-> FALSE, interest |-> {}, closeCallback |-> FALSE,
   writeBuffer |-> <<>>, tasks |-> <<>>]

-----------------------------------------------------------------------------
\* Operators ending in Bug, here and below, are the mistakes the properties are tried
\* against; nothing in the specification uses them.
\* A callback that is not counted.
UncountedBug(s, task) == [s EXCEPT !.tasks = Append(@, task)]

\* _run_callback: on the IOLoop, never at once.
Schedule(s, task) ==
  [s EXCEPT !.pending = @ + 1, !.tasks = Append(@, task)]

\* The close callback does not wait for the others.
ImpatientBug(s) ==
  IF s.closed /\ s.closeCallback
    THEN [Schedule(s, Plain("onClose")) EXCEPT !.closeCallback = FALSE, !.reading = FALSE]
    ELSE s

\* _maybe_run_close_callback.  The write buffer goes too; nothing looks at it then.
MaybeRunCloseCallback(s) ==
  IF ~s.closed \/ s.pending # 0 THEN s
  ELSE [(IF s.closeCallback THEN Schedule(s, Plain("onClose")) ELSE s)
          EXCEPT !.closeCallback = FALSE, !.reading = FALSE]

\* close: the descriptor leaves the IOLoop at once.
Close(s) ==
  MaybeRunCloseCallback(
    [s EXCEPT !.closed = TRUE, !.handler = FALSE, !.interest = {}])

AddIoState(s, event) ==
  IF s.closed THEN s ELSE [s EXCEPT !.handler = TRUE, !.interest = @ \cup {event}]

\* A callback that ends leaves the listening to the next read.
NoListenerBug(s) == s

\* _maybe_add_error_listener: a stream that is idle listens for the end of the other
\* side, and one that was closed meanwhile runs its close callback now.
MaybeAddErrorListener(s) ==
  IF s.pending # 0 \/ s.interest # {} THEN s
  ELSE IF s.closed THEN MaybeRunCloseCallback(s)
  ELSE IF s.buffer = <<>> /\ s.closeCallback THEN AddIoState(s, "READ")
  ELSE s

\* set_close_callback.
SetCloseCallback(s) == MaybeAddErrorListener([s EXCEPT !.closeCallback = TRUE])

\* The next callback leaves the IOLoop: wrapper's "_pending_callbacks -= 1", and, once it
\* has run, its "finally".  add_callback(self.close) is not counted.
Started(s) ==
  [s EXCEPT !.tasks = Tail(@), !.pending = IF Head(s.tasks).kind = "close" THEN @ ELSE @ - 1]
Ended(s) == MaybeAddErrorListener(s)

-----------------------------------------------------------------------------
(* Reading                                                                 *)

\* What one recv may find: units, the end of file (or a reset), or nothing yet.
\* "inbox" are the units sent and not received, "over" that nothing comes after them.
Received(inbox, over) ==
  {[units |-> SubSeq(inbox, 1, n), eof |-> FALSE] : n \in 1..Len(inbox)}
    \cup (IF inbox = <<>> /\ over THEN {[units |-> <<>>, eof |-> TRUE]} ELSE {})
NothingYet == [units |-> <<>>, eof |-> FALSE]

\* _read_from_buffer: the read that was pending is complete.
Complete(s, n) ==
  Schedule([s EXCEPT !.reading = FALSE, !.buffer = SubSeq(@, n + 1, Len(@))],
           [kind |-> "data", data |-> SubSeq(s.buffer, 1, n)])

\* _read_to_buffer: at an end of file close, whose callback waits for the others, for
\* this one counts as pending.
ToBuffer(s, chunk) ==
  IF chunk.eof
    THEN [s EXCEPT !.closed = TRUE, !.handler = FALSE, !.interest = {}]
    ELSE [s EXCEPT !.buffer = @ \o chunk.units]

\* _handle_read: the loop of recv calls ends with the first one that returned something,
\* since a unit satisfies any read.
HandleRead(s, chunk) ==
  LET r == ToBuffer(s, chunk)
  IN  IF r.reading /\ r.buffer # <<>> THEN Complete(r, 1) ELSE MaybeRunCloseCallback(r)

\* read_bytes(callback), of one unit or of none, inline if it can be; "chunk" is what recv
\* finds if the buffer is empty.  It raises StreamClosedError when ReadRaises.
ReadRaises(s, n) == s.closed /\ n > Len(s.buffer)
ReadBytes(s, n, chunk) ==
  IF n <= Len(s.buffer) THEN Complete([s EXCEPT !.reading = TRUE], n)
  ELSE LET r == ToBuffer([s EXCEPT !.reading = TRUE], chunk)
       IN  IF r.buffer # <<>> THEN Complete(r, 1)
           ELSE IF r.closed THEN MaybeRunCloseCallback(r)
           ELSE AddIoState(r, "READ")

-----------------------------------------------------------------------------
(* Writing                                                                 *)

\* write to an open stream; the kernel has taken all but "left" of the buffered frames.
Written(s, left) ==
  LET w == [s EXCEPT !.writeBuffer = left]
  IN  MaybeAddErrorListener(IF left = <<>> THEN w ELSE AddIoState(w, "WRITE"))

\* send fails, with a broken pipe or a reset.
WriteFails(s) == MaybeAddErrorListener(Close(s))

-----------------------------------------------------------------------------
(* Events                                                                  *)

\* With something to write, reads can wait.
WriteFirstBug(s) ==
  IF s.closed THEN s
  ELSE [s EXCEPT !.interest = IF s.writeBuffer # <<>> THEN {"WRITE"} ELSE {"READ"}]

\* At the end of _handle_events: listen for what is wanted; when that is nothing and no
\* data is buffered, for the end of the connection.
Relisten(s) ==
  LET wanted == (IF s.reading THEN {"READ"} ELSE {})
                  \cup (IF s.writeBuffer # <<>> THEN {"WRITE"} ELSE {})
  IN  IF s.closed THEN s
      ELSE [s EXCEPT !.interest =
              IF wanted = {} /\ s.buffer = <<>> THEN {"READ"} ELSE wanted]

\* _handle_events with ERROR alone: close is put behind the callbacks already there.
HandleError(s) == [s EXCEPT !.tasks = Append(@, Plain("close"))]
=============================================================================
