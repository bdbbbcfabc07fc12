-------------------------- MODULE WebSocketStream ---------------------------
(***************************************************************************)
(* One connection of the live feed in detail: WebSocketHandler and         *)
(* WebSocketProtocol13 on an IOStream, from the handshake to on_close.     *)
(* Frames arrive in pieces and fragments, control frames in between; the   *)
(* other end may break the protocol, close, reset or vanish at any point;  *)
(* meanwhile the Announcer writes to the stream.  SocketRegistry, which    *)
(* knows a stream only as open or closed, is refined by this.              *)
(***************************************************************************)
EXTENDS Integers, Sequences, FiniteSets, SequencesExt, ListFilter

CONSTANTS
  Me,          \* the ClientSocket handler of this connection
  MaxFrame,    \* bound: frames the client sends
  MaxPush      \* bound: updates broadcast

ASSUME BoundsAssumption == MaxFrame \in Nat /\ MaxPush \in Nat

VARIABLES
  peer,        \* the client: "absent", "open", "left" or "vanished"
  frames,      \* number of frames the client has sent
  draft,       \* fragments of the message the client is sending, NoDraft if it is not
  sent,        \* messages the client has sent whole
  inbox,       \* units sent and not received yet
  tcp,         \* "up", or the "fin" or "reset" that ends what the client sends
  stage,       \* "none", "request", "refused", "open", "over": on_close has run
  s,           \* handler.stream
  part,        \* the part of a frame the pending read is for
  opcode,      \* _frame_opcode and _final_frame of the frame being read
  fragments,   \* _fragmented_message_buffer
  clientTerminated,  \* and server_terminated: the ClientSocket itself never closes
  told,        \* messages on_message was called with
  broken,      \* history: a write has failed
  post,        \* where Announcer.post is: "idle", "writing" or "written"
  pushes,      \* updates accepted for broadcast
  since,       \* history: pushes at the handshake
  net,         \* frames the kernel took and the client has not read
  got          \* updates the client has read

clientVars == <<peer, frames, draft, sent, inbox, tcp>>
protocolVars == <<part, opcode, fragments, clientTerminated, told>>
postVars == <<post, pushes, since>>
vars == <<clientVars, stage, s, protocolVars, broken, postVars, net, got>>

NoDraft == <<0>>
Pong == 0
CloseFrame == -1
Opcode == {"text", "continuation", "ping", "close", "junk", "reserved"}
Control == {"ping", "close", "junk"}
Header == [op : Opcode, fin : BOOLEAN, size : {0, 1}]
Unit == [part : {"start"}, header : Header] \cup [part : {"key"}] \cup [part : {"data"}, id : 1..MaxFrame]
Out == (1..MaxPush) \cup {Pong, CloseFrame}
NoFrame == [op |-> "text", fin |-> FALSE, size |-> 0]

IO == INSTANCE IOStream WITH Frame <- Out

TypeOK ==
  /\ peer \in {"absent", "open", "left", "vanished"}
  /\ frames \in 0..MaxFrame
  /\ draft = NoDraft \/ draft \in Seq(1..MaxFrame)
  /\ sent \in Seq(Seq(1..MaxFrame)) /\ told \in Seq(Seq(1..MaxFrame))
  /\ inbox \in Seq(Unit)
  /\ tcp \in {"up", "fin", "reset"}
  /\ stage \in {"none", "request", "refused", "open", "over"}
  /\ s \in IO!Stream
  /\ part \in {"start", "key", "data"}
  /\ opcode \in Header
  /\ fragments = NoDraft \/ fragments \in Seq(1..MaxFrame)
  /\ clientTerminated \in BOOLEAN /\ broken \in BOOLEAN
  /\ post \in {"idle", "writing", "written"}
  /\ pushes \in 0..MaxPush /\ since \in -1..MaxPush
  /\ net \in Seq(Out) /\ got \in Seq(1..MaxPush)

Init ==
  /\ peer = "absent" /\ frames = 0 /\ draft = NoDraft /\ sent = <<>>
  /\ inbox = <<>> /\ tcp = "up"
  /\ stage = "none" /\ s = IO!Fresh
  /\ part = "start" /\ opcode = NoFrame /\ fragments = NoDraft
  /\ clientTerminated = FALSE
  /\ told = <<>> /\ broken = FALSE
  /\ post = "idle" /\ pushes = 0 /\ since = -1
  /\ net = <<>> /\ got = <<>>

-----------------------------------------------------------------------------
(* The client                                                              *)

Connect ==
  /\ peer = "absent"
  /\ peer' = "open" /\ stage' = "request"
  /\ UNCHANGED <<frames, draft, sent, inbox, tcp, s, protocolVars, broken, postVars, net,
                 got>>

UnitsOf(h) ==
  <<[part |-> "start", header |-> h], [part |-> "key"]>>
    \o (IF h.size = 1 THEN <<[part |-> "data", id |-> frames + 1]>> ELSE <<>>)

\* A frame that RFC 6455 allows at this point, or one that it does not: then the client
\* is no browser, and counts as gone.
Allowed(h) ==
  CASE h.op = "text" -> draft = NoDraft
    [] h.op = "continuation" -> draft # NoDraft
    [] h.op = "ping" -> h.fin
    [] OTHER -> FALSE

SendFrame ==
  /\ peer = "open" /\ stage = "open" /\ frames < MaxFrame
  /\ \E h \in Header :
       LET payload == IF h.size = 1 THEN <<frames + 1>> ELSE <<>>
           message == IF draft = NoDraft THEN payload ELSE draft \o payload
       IN  /\ h.op # "close"
           /\ inbox' = inbox \o UnitsOf(h)
           /\ frames' = frames + 1
           /\ IF ~Allowed(h)
                THEN peer' = "left" /\ UNCHANGED <<draft, sent>>
                ELSE /\ UNCHANGED peer
                     /\ IF h.op = "ping" THEN UNCHANGED <<draft, sent>>
                        ELSE IF h.fin THEN sent' = Append(sent, message) /\ draft' = NoDraft
                        ELSE draft' = message /\ UNCHANGED sent
  /\ UNCHANGED <<tcp, stage, s, protocolVars, broken, postVars, net, got>>

\* The page closes its socket, with or without a close frame, or its machine disappears.
PeerGoes ==
  /\ peer = "open"
  /\ \/ peer' = "left" /\ UNCHANGED inbox
     \/ /\ peer' = "left" /\ stage = "open"
        /\ inbox' = inbox \o SubSeq(UnitsOf([op |-> "close", fin |-> TRUE, size |-> 0]), 1, 2)
     \/ peer' = "vanished" /\ UNCHANGED inbox
  /\ UNCHANGED <<frames, draft, sent, tcp, stage, s, protocolVars, broken, postVars, net,
                 got>>

\* Its FIN, or a reset that throws away what was not received.  TCP also gives up on
\* updates that a machine that vanished does not acknowledge (and on a pong: left out).
ConnectionEnds ==
  /\ tcp = "up"
  /\ \/ peer = "left" /\ tcp' = "fin" /\ UNCHANGED inbox
     \/ /\ peer = "left" \/ (peer = "vanished" /\ Keep(net, 1..MaxPush) # <<>>)
        /\ tcp' = "reset" /\ inbox' = <<>>
  /\ UNCHANGED <<peer, frames, draft, sent, stage, s, protocolVars, broken, postVars, net,
                 got>>

\* The client reads a frame.
Deliver ==
  /\ peer = "open" /\ net # <<>>
  /\ net' = Tail(net)
  /\ got' = IF Head(net) \in 1..MaxPush THEN Append(got, Head(net)) ELSE got
  /\ UNCHANGED <<clientVars, stage, s, protocolVars, broken, postVars>>

-----------------------------------------------------------------------------
(* Writing a frame, and closing                                            *)

Disconnected == tcp # "up"

\* Operators ending in Bug, here and below, are the mistakes the properties are tried
\* against; nothing in the specification uses them.
\* A frame for a client that is slow to read is dropped.
DropWhenSlowBug(r, frame) ==
  LET left == IF r.writeBuffer = <<>> THEN <<frame>> ELSE r.writeBuffer
  IN  {[s |-> IO!Written(r, left), out |-> <<>>, failed |-> FALSE]}

\* The frames the kernel takes go to net; or the send fails, when the client has gone.
\* Result: stream, what was sent, whether the write failed.
WriteOutcomes(r, frame) ==
  LET all == Append(r.writeBuffer, frame)
  IN  {[s |-> IO!Written(r, SubSeq(all, n + 1, Len(all))), out |-> SubSeq(all, 1, n),
        failed |-> FALSE] : n \in 0..Len(all)}
      \cup (IF Disconnected \/ peer = "left"
              THEN {[s |-> IO!WriteFails(r), out |-> <<>>, failed |-> TRUE]} ELSE {})

\* _abort: both ends count as terminated, the stream is closed.
Abort(r) ==
  /\ s' = IO!Close(r)
  /\ clientTerminated' = TRUE

\* _write_frame on a stream that may be closed: StreamClosedError ends in _abort.
WriteFrame(r, frame) ==
  IF r.closed THEN Abort(r) /\ broken' = TRUE /\ UNCHANGED net
  ELSE \E w \in WriteOutcomes(r, frame) :
         /\ s' = w.s /\ net' = net \o w.out /\ broken' = (broken \/ w.failed)
         /\ UNCHANGED clientTerminated

-----------------------------------------------------------------------------
(* The handshake                                                           *)

\* get answers 400 or 403 and leaves the connection to HTTP, or 426 on the detached
\* stream; or accept_connection aborts, a header missing or the client gone already.
Refuse ==
  /\ post = "idle" /\ stage = "request"
  /\ peer' = IF peer = "open" THEN "left" ELSE peer
  /\ \/ /\ stage' = "refused" /\ s' = [s EXCEPT !.closed = TRUE]
        /\ UNCHANGED clientTerminated
     \/ /\ stage' = "open"
        /\ s' = IO!Close(IO!SetCloseCallback(s))
        /\ UNCHANGED clientTerminated
     \/ stage' = "open" /\ Abort(IO!SetCloseCallback(s))
  /\ UNCHANGED <<frames, draft, sent, inbox, tcp, part, opcode, fragments, told, broken,
                 postVars, net, got>>

\* What a recv on the stream finds, when its buffer holds fewer than n units.
Chunks(r, n) ==
  IF n <= Len(r.buffer) THEN {IO!NothingYet}
  ELSE IO!Received(inbox, Disconnected) \cup {IO!NothingYet}

\* read_bytes for the next part of a frame, at the end of a callback.
Read(r, n, next) ==
  /\ part' = next
  /\ \E chunk \in Chunks(r, n) :
       /\ s' = IO!MaybeAddErrorListener(IO!ReadBytes(r, n, chunk))
       /\ inbox' = SubSeq(inbox, Len(chunk.units) + 1, Len(inbox))

\* The answer 101 is written, which may fail; ClientSocket.open registers the handler all
\* the same; the first frame is waited for, or the stream found to be closed.
Accept ==
  /\ post = "idle" /\ stage = "request"
  /\ stage' = "open" /\ since' = pushes
  /\ LET r == IO!SetCloseCallback(s) IN
       \/ /\ Read(IO!Written(r, <<>>), 1, "start")
          /\ UNCHANGED <<clientTerminated, broken>>
       \/ /\ Disconnected \/ peer = "left"
          /\ Abort(IO!WriteFails(r)) /\ broken' = TRUE
          /\ UNCHANGED <<part, inbox>>
  /\ UNCHANGED <<peer, frames, draft, sent, tcp, opcode, fragments, told, post, pushes,
                 net, got>>

-----------------------------------------------------------------------------
(* The callbacks of the stream, on the IOLoop                              *)

\* A callback that reads on, unless the stream is closed.
ReadOn(r, n, next) ==
  IF IO!ReadRaises(r, n)
    THEN /\ s' = IO!MaybeAddErrorListener(IO!Close(r))
         /\ clientTerminated' = TRUE
         /\ UNCHANGED <<part, inbox>>
    ELSE Read(r, n, next) /\ UNCHANGED clientTerminated

\* _on_frame_start.  Reserved bits, and a long control frame, abort at once.  A length
\* of 16 or 64 bits would be one more read like that of the key.
OnFrameStart(r, unit) ==
  /\ opcode' = unit.header
  /\ IF unit.header.op = "reserved"
       THEN Abort(r) /\ UNCHANGED <<part, inbox>>
       ELSE ReadOn(r, 1, "key")
  /\ UNCHANGED <<fragments, told, broken, net>>

\* _on_masking_key.  A frame without payload is a read of nothing.
OnMaskingKey(r) ==
  /\ ReadOn(r, opcode.size, "data")
  /\ UNCHANGED <<opcode, fragments, told, broken, net>>

\* A control frame takes the place of the message it interrupts.
ControlClearsBug(payload) ==
  IF opcode.op \in Control
    THEN [ok |-> opcode.fin, message |-> payload, fragments |-> NoDraft]
    ELSE [ok |-> TRUE, message |-> payload,
          fragments |-> IF opcode.fin THEN NoDraft ELSE payload]

\* What _on_frame_data makes of the frame: [ok, message, fragments]; it aborts if not ok.
Assembled(payload) ==
  LET goesOn == opcode.op = "continuation"
      whole == IF goesOn THEN fragments \o payload ELSE payload
  IN  IF opcode.op \in Control \/ goesOn = (fragments = NoDraft)
        THEN [ok |-> opcode.op \in Control /\ opcode.fin,
              message |-> payload, fragments |-> fragments]
        ELSE [ok |-> TRUE, message |-> whole,
              fragments |-> IF opcode.fin THEN NoDraft ELSE whole]

\* _handle_message: the stream, frames sent, and what became of the protocol.  A message
\* goes to on_message, which does not write.  The close frame is answered, and the stream
\* closed whether or not the answer has left.
Quiet(r) == [s |-> r, out |-> <<>>, failed |-> FALSE, over |-> FALSE]
Aborted(r) == [s |-> IO!Close(r), out |-> <<>>, failed |-> FALSE, over |-> TRUE]
Answered(r, frame) ==
  IF r.closed THEN {[Aborted(r) EXCEPT !.failed = TRUE]}
  ELSE {[s |-> w.s, out |-> w.out, failed |-> w.failed, over |-> FALSE] :
          w \in WriteOutcomes(r, frame)}
\* The answer to a close frame is written and the closing left to the client.
HalfCloseBug(r) ==
  IF opcode.op = "close" /\ ~clientTerminated THEN Answered(r, CloseFrame) ELSE {Quiet(r)}

Handled(r) ==
  CASE clientTerminated -> {[Quiet(r) EXCEPT !.over = TRUE]}
    [] ~clientTerminated /\ opcode.op \in {"text", "continuation"} -> {Quiet(r)}
    [] ~clientTerminated /\ opcode.op = "ping" -> Answered(r, Pong)
    [] ~clientTerminated /\ opcode.op = "close" /\ ~r.closed ->
         {[h EXCEPT !.s = IO!Close(h.s), !.over = TRUE] : h \in Answered(r, CloseFrame)}
    [] OTHER -> {Aborted(r)}

\* _on_frame_data.
OnFrameData(r, payload) ==
  LET a == Assembled(payload)
      outcomes == IF ~a.ok THEN {Aborted(r)}
                  ELSE IF opcode.fin THEN Handled(r)
                  ELSE {[Quiet(r) EXCEPT !.over = clientTerminated]}
      isMessage == a.ok /\ opcode.fin /\ opcode.op \notin Control
  IN  /\ fragments' = a.fragments
      /\ told' = IF isMessage /\ ~clientTerminated THEN Append(told, a.message) ELSE told
      /\ \E h \in outcomes :
           /\ net' = net \o h.out
           /\ broken' = (broken \/ h.failed)
           /\ IF h.over
                THEN /\ s' = IO!Ended(h.s) /\ clientTerminated' = TRUE
                     /\ UNCHANGED <<part, inbox>>
                ELSE ReadOn(h.s, 1, "start")
      /\ UNCHANGED opcode

\* on_close runs, and the protocol object is not told.
NoAbortBug(r) == stage' = "over" /\ s' = r /\ UNCHANGED clientTerminated

\* on_connection_close: the connection is dropped and ClientSocket.on_close runs.
OnConnectionClose(r) ==
  /\ stage' = "over"
  /\ IF since # -1 \/ clientTerminated
       THEN Abort(r)
       ELSE s' = r /\ UNCHANGED clientTerminated

\* The IOLoop runs the oldest callback of the stream.
RunTask ==
  /\ post = "idle" /\ s.tasks # <<>>
  /\ LET task == Head(s.tasks)
         r == IO!Started(s)
     IN  \/ /\ task.kind = "close"
            /\ s' = IO!Close(r)
            /\ UNCHANGED <<inbox, stage, protocolVars, broken, net>>
         \/ /\ task.kind = "onClose"
            /\ OnConnectionClose(r)
            /\ UNCHANGED <<inbox, part, opcode, fragments, told, broken, net>>
         \/ /\ task.kind = "data"
            /\ CASE part = "start" -> OnFrameStart(r, task.data[1])
                 [] part = "key" -> OnMaskingKey(r)
                 [] part = "data" ->
                      OnFrameData(r, [i \in 1..Len(task.data) |-> task.data[i].id])
            /\ UNCHANGED stage
  /\ UNCHANGED <<peer, frames, draft, sent, tcp, postVars, got>>

-----------------------------------------------------------------------------
(* The events of the descriptor                                            *)

Listening == post = "idle" /\ s.handler /\ ~s.closed

\* READ: recv finds something, or the end of the connection.
ReadEvent ==
  /\ Listening /\ "READ" \in s.interest
  /\ \E chunk \in IO!Received(inbox, Disconnected) :
       /\ s' = IO!Relisten(IO!HandleRead(s, chunk))
       /\ inbox' = SubSeq(inbox, Len(chunk.units) + 1, Len(inbox))
  /\ UNCHANGED <<peer, frames, draft, sent, tcp, stage, protocolVars, broken, postVars, net,
                 got>>

\* WRITE: the kernel takes more of the buffer, or the send fails.
WriteEvent ==
  /\ Listening /\ "WRITE" \in s.interest
  /\ \/ \E n \in 1..Len(s.writeBuffer) :
          /\ net' = net \o SubSeq(s.writeBuffer, 1, n)
          /\ s' = IO!Relisten([s EXCEPT !.writeBuffer = SubSeq(@, n + 1, Len(@))])
          /\ UNCHANGED broken
     \/ /\ Disconnected \/ peer = "left"
        /\ s' = IO!Close(s) /\ broken' = TRUE
        /\ UNCHANGED net
  /\ UNCHANGED <<clientVars, stage, protocolVars, postVars, got>>

\* ERROR, after a reset; the close it schedules runs before the next poll.
ErrorEvent ==
  /\ Listening /\ tcp = "reset"
  /\ \A i \in 1..Len(s.tasks) : s.tasks[i].kind # "close"
  /\ s' = IO!HandleError(s)
  /\ UNCHANGED <<clientVars, stage, protocolVars, broken, postVars, net, got>>

-----------------------------------------------------------------------------
(* Announcer.post, seen from this connection                               *)

Registered == stage = "open" /\ since # -1

PostBegins ==
  /\ post = "idle" /\ pushes < MaxPush
  /\ pushes' = pushes + 1 /\ post' = "writing"
  /\ UNCHANGED <<clientVars, stage, s, protocolVars, broken, since, net, got>>

PostWrites ==
  /\ post = "writing" /\ Registered
  /\ WriteFrame(s, pushes)
  /\ post' = "written"
  /\ UNCHANGED <<clientVars, stage, part, opcode, fragments, told, pushes, since, got>>

PostEnds ==
  /\ post = "written" \/ (post = "writing" /\ ~Registered)
  /\ post' = "idle"
  /\ UNCHANGED <<clientVars, stage, s, protocolVars, broken, pushes, since, net, got>>

Next ==
  \/ Connect \/ SendFrame \/ PeerGoes \/ ConnectionEnds \/ Deliver
  \/ Refuse \/ Accept
  \/ RunTask \/ ReadEvent \/ WriteEvent \/ ErrorEvent
  \/ PostBegins \/ PostWrites \/ PostEnds

Spec == Init /\ [][Next]_vars

\* The IOLoop runs what is due and hears of what happens to a descriptor it watches; TCP
\* reports the end of a connection, or gives up on it.
Fairness ==
  /\ WF_vars(Refuse \/ Accept)
  /\ WF_vars(RunTask) /\ WF_vars(ReadEvent) /\ WF_vars(PostWrites) /\ WF_vars(PostEnds)
  /\ WF_vars(ConnectionEnds)

FairSpec == Spec /\ Fairness

-----------------------------------------------------------------------------
(* Properties                                                              *)

\* However frames are cut into segments, fragmented and mixed with control frames,
\* on_message is called with the client's messages, whole and in order; and with all of
\* them, when the connection ends without a reset or a failed write: what was received
\* before the end of file is handled before on_close.
MessagesArriveWhole ==
  /\ IsPrefix(told, sent)
  /\ stage = "over" /\ since # -1 /\ tcp # "reset" /\ ~broken => told = sent

\* After on_close the handler is left alone: on_message is not called again and on_close
\* does not run twice, although callbacks of the stream may still be due then (a pong that
\* could not be written closes the stream, and the frames behind the ping are in its buffer).
OverIsOver ==
  [][stage = "over" =>
       /\ stage' = "over" /\ told' = told /\ s'.closed /\ ~s'.handler
       /\ \A i \in 1..Len(s'.tasks) : s'.tasks[i].kind # "onClose"]_vars

\* Types, and: the count that holds the close callback back is the number of callbacks on
\* the IOLoop.
PendingIsExact ==
  TypeOK /\ s.pending = Cardinality({i \in 1..Len(s.tasks) : s.tasks[i].kind # "close"})

\* A connection is never left without anybody to hear of it: open, it waits for data or
\* has a callback that will; closed, its on_close is on the way.
NeverDeaf ==
  stage = "open" =>
    s.tasks # <<>> \/ (~s.closed /\ s.handler /\ "READ" \in s.interest)

\* RFC 6455, 5.5.1: nothing is sent after a close frame, whatever the Announcer does.
NothingAfterClose ==
  LET all == net \o s.writeBuffer
  IN  \A i \in 1..Len(all) : all[i] = CloseFrame => i = Len(all)

\* This connection, told in the terms of SocketRegistry.
Registry == INSTANCE SocketRegistry WITH
  Socket <- {Me}, Feed <- {}, MaxRestart <- 0, restarts <- 0,
  peer <- [x \in {Me} |-> peer],
  stream <- [x \in {Me} |-> CASE stage \in {"none", "request"} -> stage
                              [] OTHER -> IF s.closed THEN "closed" ELSE "open"],
  callback <- [x \in {Me} |-> CASE stage = "over" -> "ran"
                                [] stage = "open" -> IF s.closed THEN "scheduled" ELSE "set"
                                [] OTHER -> "unset"],
  ws <- [x \in {Me} |-> stage = "open" /\ (since # -1 \/ clientTerminated)],
  ALL_SOCKETS <- IF Registered THEN <<Me>> ELSE <<>>,
  wanted_feeds <- [x \in {Me} |-> {}],
  post <- [running |-> post # "idle", i |-> IF post = "written" THEN 2 ELSE 1,
           targets |-> IF post # "idle" /\ Registered THEN <<Me>> ELSE <<>>],
  net <- [x \in {Me} |-> Keep(net \o s.writeBuffer, 1..MaxPush)],
  got <- [x \in {Me} |-> got],
  since <- [x \in {Me} |-> since]

\* What SocketRegistry assumes of a connection is what tornado's does.
RegistrySpec == Registry!Spec

\* When the connection has ended, on_close runs, and the handler leaves ALL_SOCKETS.
ConnectionIsReleased == (stage = "open" /\ Disconnected) ~> stage = "over"

\* A message the client has sent whole is handled, unless the connection ends.
MessageIsHandled ==
  \A n \in 1..MaxFrame :
    (Len(sent) >= n /\ Registered) ~> (Len(told) >= n \/ Disconnected \/ stage = "over")
=============================================================================
