--------------------------- MODULE HttpConnection ---------------------------
(***************************************************************************)
(* One HTTP/1.1 connection: the request loop of HTTP1ServerConnection and  *)
(* HTTP1Connection on an IOStream, with the RequestHandlers it starts.     *)
(* The client may send requests before the earlier ones are answered, a    *)
(* handler may finish long after the client has gone, and both write to    *)
(* the same stream.  A handshake for /socket/ takes the stream away:       *)
(* WebSocketStream goes on from there.                                     *)
(***************************************************************************)
EXTENDS Integers, Sequences, SequencesExt

CONSTANTS
  Kind,          \* the requests that are sent, see Kinds
  MaxRequest     \* bound: requests sent on the connection

\* A request without body, one with, one after which the client wants the connection
\* closed, a handshake, one that cannot be parsed, one with impossible Content-Length.
Kinds == {"get", "post", "last", "upgrade", "malformed", "badLength"}

ASSUME KindAssumption == Kind \subseteq Kinds /\ MaxRequest \in Nat

VARIABLES
  peer,          \* the client: "absent", "open", "left" or "vanished"
  requests,      \* the requests it has sent
  inbox,         \* units sent and not received yet
  tcp,           \* "up", or the "fin" or "reset" that ends what the client sends
  at,            \* what the loop is at; "over": HTTPServer.on_close was called
  c,             \* the IOStream, and the HTTP1Connection of the request in hand
  handler,       \* handler[n]: "none", "running" or "finished"
  net,           \* responses the kernel took and the client has not read
  got            \* responses the client has read

clientVars == <<peer, requests, inbox, tcp>>
vars == <<clientVars, at, c, handler, net, got>>

Number == 1..MaxRequest
Unit == [part : {"head", "body"}, n : Number]
IO == INSTANCE IOStream WITH Frame <- Number

\* ready: what the loop's coroutine will be resumed with; n: the request in hand;
\* finished: its _finish_future is done; writing: finish() waits for _pending_write.  Its
\* _close_callback, on_connection_close of the handler, does nothing in this program.
Connection ==
  [stream : IO!Stream, ready : {"nothing", "result", "error", "timeout"}, n : 0..MaxRequest,
   finished : BOOLEAN, writing : BOOLEAN]

TypeOK ==
  /\ peer \in {"absent", "open", "left", "vanished"}
  /\ requests \in Seq(Kind) /\ Len(requests) <= MaxRequest
  /\ inbox \in Seq(Unit)
  /\ tcp \in {"up", "fin", "reset"}
  /\ at \in {"idle", "head", "body", "response", "moment", "detached", "over"}
  /\ c \in Connection
  /\ handler \in [Number -> {"none", "running", "finished"}]
  /\ net \in Seq(Number) /\ got \in Seq(Number)

Init ==
  /\ peer = "absent" /\ requests = <<>> /\ inbox = <<>> /\ tcp = "up"
  /\ at = "idle"
  /\ c = [stream |-> IO!Fresh, ready |-> "nothing", n |-> 0,
          finished |-> FALSE, writing |-> FALSE]
  /\ handler = [n \in Number |-> "none"]
  /\ net = <<>> /\ got = <<>>

-----------------------------------------------------------------------------
(* The client                                                              *)

UnitsOf(kind, n) ==
  <<[part |-> "head", n |-> n]>>
    \o (IF kind = "post" THEN <<[part |-> "body", n |-> n]>> ELSE <<>>)

\* A client that asked for an upgrade waits for the answer.
SendRequest ==
  /\ peer = "open" /\ Len(requests) < MaxRequest
  /\ \A i \in 1..Len(requests) : requests[i] # "upgrade"
  /\ \E kind \in Kind :
       /\ requests' = Append(requests, kind)
       /\ inbox' = inbox \o UnitsOf(kind, Len(requests) + 1)
  /\ UNCHANGED <<peer, tcp, at, c, handler, net, got>>

\* The client closes the connection or its machine disappears, perhaps in the middle of a
\* request.
PeerGoes ==
  /\ peer = "open"
  /\ \E how \in {"left", "vanished"} : peer' = how
  /\ \/ UNCHANGED inbox
     \/ inbox # <<>> /\ inbox' = Front(inbox)
  /\ UNCHANGED <<requests, tcp, at, c, handler, net, got>>

ConnectionEnds ==
  /\ tcp = "up"
  /\ \/ peer = "left" /\ tcp' = "fin" /\ UNCHANGED inbox
     \/ /\ peer = "left" \/ (peer = "vanished" /\ net # <<>>)
        /\ tcp' = "reset" /\ inbox' = <<>>
  /\ UNCHANGED <<peer, requests, at, c, handler, net, got>>

Deliver ==
  /\ peer = "open" /\ net # <<>>
  /\ got' = Append(got, Head(net)) /\ net' = Tail(net)
  /\ UNCHANGED <<clientVars, at, c, handler>>

Disconnected == tcp # "up"

-----------------------------------------------------------------------------
(* HTTP1Connection on its stream                                           *)

\* The coroutine waits for a future that is done with "what"; an answer that comes after
\* the timeout is ignored.
Resolve(r, what) == IF r.ready = "nothing" THEN [r EXCEPT !.ready = what] ELSE r

\* _clear_callbacks.
ClearCallbacks(r) == [r EXCEPT !.stream.closeCallback = FALSE]

\* _finish_future.set_result, which resumes the loop if it waits for that.
SetFinished(r) ==
  LET f == [r EXCEPT !.finished = TRUE, !.writing = FALSE]
  IN  IF at = "response" /\ ~r.finished THEN Resolve(f, "result") ELSE f

\* _maybe_run_close_callback: the futures fail first, and with a write the response was
\* waiting for _finish_request runs, which takes the close callback back.
MaybeRunCloseCallback(r) ==
  LET read == IF r.stream.reading THEN Resolve(r, "error") ELSE r
      write == IF r.writing THEN SetFinished(ClearCallbacks(read)) ELSE read
      st == [write.stream EXCEPT !.reading = FALSE, !.closeCallback = FALSE]
  IN  IF ~r.stream.closed \/ r.stream.pending # 0 THEN r
      ELSE [write EXCEPT !.stream =
              IF write.stream.closeCallback
                THEN IO!Schedule(st, [kind |-> "onClose",
                                      data |-> <<[part |-> "head", n |-> r.n]>>])
                ELSE st]

\* IOStream.close.  What is in the write buffer then is lost.
CloseStream(r) ==
  MaybeRunCloseCallback(
    [r EXCEPT !.stream.closed = TRUE, !.stream.handler = FALSE, !.stream.interest = {}])

\* _finish_request: close after the last response, or let the loop go on.
FinishRequest(r, disconnect) ==
  LET cleared == ClearCallbacks(r)
  IN  SetFinished(IF disconnect THEN CloseStream(cleared) ELSE cleared)

\* A read on the stream: of the buffer, or inline of what recv finds, or listening; it
\* raises when the stream is closed and the buffer is empty.
ReadRaises(r) == r.stream.closed /\ r.stream.buffer = <<>>
Consume(r) ==
  [Resolve(r, "result") EXCEPT !.stream.reading = FALSE, !.n = r.stream.buffer[1].n,
                               !.stream.buffer = Tail(@)]
Read(r, chunk) ==
  LET waiting == [r EXCEPT !.ready = "nothing", !.stream.reading = TRUE]
      filled == IF r.stream.buffer # <<>> THEN waiting
                ELSE [waiting EXCEPT !.stream = IO!ToBuffer(@, chunk)]
  IN  IF filled.stream.buffer # <<>> THEN Consume(filled)
      ELSE IF filled.stream.closed THEN MaybeRunCloseCallback(filled)
      ELSE [filled EXCEPT !.stream = IO!AddIoState(@, "READ")]

Chunks(r) ==
  IF r.stream.buffer # <<>> THEN {IO!NothingYet}
  ELSE IO!Received(inbox, Disconnected) \cup {IO!NothingYet}

ReadOrEnd(r, where) ==
  IF ReadRaises(r)
    THEN at' = "over" /\ c' = r /\ UNCHANGED inbox
    ELSE \E chunk \in Chunks(r) :
           /\ at' = where
           /\ c' = Read(r, chunk)
           /\ inbox' = SubSeq(inbox, Len(chunk.units) + 1, Len(inbox))

-----------------------------------------------------------------------------
(* The handlers                                                            *)

Wants(n) == requests[n] = "last"

\* Operators ending in Bug, here and below, are the mistakes the properties are tried
\* against; nothing in the specification uses them.
\* The loop is not told of a write that took some time; or it does not wait for it.
LostWriteBug(r, n) ==
  LET all == r.stream.writeBuffer \o <<n>>
  IN  {[conn |-> [r EXCEPT !.stream.writeBuffer = SubSeq(all, k + 1, Len(all)),
                           !.stream = IO!AddIoState(@, "WRITE")],
        out |-> SubSeq(all, 1, k)] : k \in 0..Len(all)}
CloseEarlyBug(r, n) ==
  LET all == r.stream.writeBuffer \o <<n>>
  IN  {[conn |-> FinishRequest([r EXCEPT !.stream.writeBuffer = SubSeq(all, k + 1, Len(all))],
                               Wants(n)),
        out |-> SubSeq(all, 1, k)] : k \in 0..Len(all)}

\* RequestHandler.finish: one write of the whole response with
\* its Content-Length, and _finish_request when the kernel has taken it.
\* Result: connection and what was sent.  The handler of an earlier request, which finds
\* the stream closed (OneHandlerAtATime), only takes the callbacks back.
FinishOutcomes(r, n) ==
  LET all == r.stream.writeBuffer \o <<n>>
      rest(k) == SubSeq(all, k + 1, Len(all))
      sent(k) == [r EXCEPT !.stream.writeBuffer = rest(k)]
  IN  IF r.stream.closed
        THEN {[conn |-> IF n = r.n THEN FinishRequest(r, Wants(n)) ELSE ClearCallbacks(r),
               out |-> <<>>]}
        ELSE {[conn |-> IF rest(k) = <<>> THEN FinishRequest(sent(k), Wants(n))
                        ELSE [sent(k) EXCEPT !.writing = TRUE,
                                             !.stream = IO!AddIoState(@, "WRITE")],
               out |-> SubSeq(all, 1, k)] : k \in 0..Len(all)}
             \cup (IF Disconnected \/ peer = "left"
                     THEN {[conn |-> FinishRequest(CloseStream(r), Wants(n)), out |-> <<>>]}
                     ELSE {})

\* An asynchronous handler comes to its end: its query's answer is there, or it raised.
HandlerFinishes(n) ==
  /\ handler[n] = "running"
  /\ handler' = [handler EXCEPT ![n] = "finished"]
  /\ \E h \in FinishOutcomes(c, n) : c' = h.conn /\ net' = net \o h.out
  /\ UNCHANGED <<clientVars, at, got>>

\* The loop goes on with the next request without waiting for this one's response.
DontWaitBug(r) ==
  at' = "moment" /\ c' = [r EXCEPT !.ready = "result"]

\* The end of _read_message: wait for the response, watching the stream, unless the
\* handler is through with it already, or the stream is closed.
AwaitResponse(r) ==
  IF r.finished \/ r.stream.closed
    THEN at' = "moment" /\ c' = [r EXCEPT !.ready = "result"]
    ELSE at' = "response" /\ c' = [r EXCEPT !.stream = IO!SetCloseCallback(@)]

\* The request is whole: its handler is made and runs, to the end (a page, a broadcast, an
\* error) or to its first yield (a query); or the handshake detaches the stream.
Execute(r) ==
  LET n == r.n
      fresh == [r EXCEPT !.ready = "nothing"]
  IN  \/ /\ handler' = [handler EXCEPT ![n] = "running"]
         /\ AwaitResponse(fresh)
         /\ UNCHANGED net
      \/ /\ handler' = [handler EXCEPT ![n] = "finished"]
         /\ \E h \in FinishOutcomes(fresh, n) : net' = net \o h.out /\ AwaitResponse(h.conn)
      \/ /\ requests[n] = "upgrade"
         /\ handler' = [handler EXCEPT ![n] = "running"]
         /\ at' = "detached" /\ c' = ClearCallbacks([fresh EXCEPT !.finished = TRUE])
         /\ UNCHANGED net

-----------------------------------------------------------------------------
(* The request loop                                                        *)

\* A new HTTP1Connection for the next request.
NextRequest(r) ==
  ReadOrEnd([r EXCEPT !.finished = FALSE, !.writing = FALSE], "head")

\* HTTPServer.handle_stream.
Accept ==
  /\ at = "idle"
  /\ peer' = "open" /\ NextRequest(c)
  /\ UNCHANGED <<requests, tcp, handler, net, got>>

\* conn.close, and the loop ends.
EndLoop(r) ==
  /\ at' = "over"
  /\ c' = SetFinished(ClearCallbacks(CloseStream(r)))
  /\ UNCHANGED <<inbox, handler, net>>

Resume ==
  /\ c.ready # "nothing" /\ at \in {"head", "body", "response", "moment"}
  /\ LET r == [c EXCEPT !.ready = "nothing"] IN
       CASE c.ready = "error" ->
              at' = "over" /\ c' = r /\ UNCHANGED <<inbox, handler, net>>
         [] c.ready = "timeout" -> EndLoop(r)
         [] c.ready = "result" /\ at = "head" /\ requests[c.n] \in {"malformed", "badLength"} ->
              EndLoop(r)
         [] c.ready = "result" /\ at = "head" /\ requests[c.n] = "post" ->
              ReadOrEnd(r, "body") /\ UNCHANGED <<handler, net>>
         [] c.ready = "result" /\ at = "head"
                /\ requests[c.n] \in {"get", "last", "upgrade"} ->
              Execute(r) /\ UNCHANGED inbox
         [] c.ready = "result" /\ at = "body" -> Execute(r) /\ UNCHANGED inbox
         [] c.ready = "result" /\ at = "response" ->
              at' = "moment" /\ c' = c /\ UNCHANGED <<inbox, handler, net>>
         [] c.ready = "result" /\ at = "moment" ->
              NextRequest(r) /\ UNCHANGED <<handler, net>>
  /\ UNCHANGED <<peer, requests, tcp, got>>

\* idle_connection_timeout, an hour: it races with the request it waits for.
HeaderTimeout ==
  /\ at = "head" /\ c.ready = "nothing"
  /\ c' = [c EXCEPT !.ready = "timeout"]
  /\ UNCHANGED <<clientVars, at, handler, net, got>>

-----------------------------------------------------------------------------
(* The stream's callbacks and events                                       *)

\* _on_connection_close, of the connection that set it; or the close that ERROR puts off.
RunTask ==
  /\ c.stream.tasks # <<>> /\ at # "detached"
  /\ LET task == Head(c.stream.tasks)
         r == [c EXCEPT !.stream = IO!Started(@)]
     IN  c' = IF task.kind = "close" THEN CloseStream(r)
              ELSE IF at = "response" /\ task.data[1].n = c.n
                THEN ClearCallbacks(SetFinished(r))
              ELSE r
  /\ UNCHANGED <<clientVars, at, handler, net, got>>

Listening == at # "detached" /\ c.stream.handler /\ ~c.stream.closed

Relisten(r) == [r EXCEPT !.stream = IO!Relisten(@)]

ReadEvent ==
  /\ Listening /\ "READ" \in c.stream.interest
  /\ \E chunk \in IO!Received(inbox, Disconnected) :
       LET filled == [c EXCEPT !.stream = IO!ToBuffer(@, chunk)] IN
       /\ c' = Relisten(IF filled.stream.reading /\ filled.stream.buffer # <<>>
                          THEN Consume(filled) ELSE MaybeRunCloseCallback(filled))
       /\ inbox' = SubSeq(inbox, Len(chunk.units) + 1, Len(inbox))
  /\ UNCHANGED <<peer, requests, tcp, at, handler, net, got>>

WriteEvent ==
  /\ Listening /\ "WRITE" \in c.stream.interest
  /\ \/ \E k \in 1..Len(c.stream.writeBuffer) :
          LET left == SubSeq(c.stream.writeBuffer, k + 1, Len(c.stream.writeBuffer))
              r == [c EXCEPT !.stream.writeBuffer = left]
          IN  /\ net' = net \o SubSeq(c.stream.writeBuffer, 1, k)
              /\ c' = Relisten(IF left = <<>> /\ r.writing THEN FinishRequest(r, Wants(r.n))
                               ELSE r)
     \/ /\ Disconnected \/ peer = "left"
        /\ c' = CloseStream(c) /\ UNCHANGED net
  /\ UNCHANGED <<clientVars, at, handler, got>>

ErrorEvent ==
  /\ Listening /\ tcp = "reset"
  /\ \A i \in 1..Len(c.stream.tasks) : c.stream.tasks[i].kind # "close"
  /\ c' = [c EXCEPT !.stream = IO!HandleError(@)]
  /\ UNCHANGED <<clientVars, at, handler, net, got>>

Next ==
  \/ SendRequest \/ PeerGoes \/ ConnectionEnds \/ Deliver
  \/ Accept \/ Resume \/ HeaderTimeout
  \/ \E n \in Number : HandlerFinishes(n)
  \/ RunTask \/ ReadEvent \/ WriteEvent \/ ErrorEvent

Spec == Init /\ [][Next]_vars

\* The IOLoop resumes what is due and hears of the descriptors it watches; TCP delivers,
\* or reports the end.  Handlers may hang for ever, and clients wait.
Fairness ==
  /\ WF_vars(Resume) /\ WF_vars(RunTask) /\ WF_vars(ReadEvent) /\ WF_vars(WriteEvent)
  /\ WF_vars(ConnectionEnds) /\ WF_vars(Deliver)

FairSpec == Spec /\ Fairness

-----------------------------------------------------------------------------
(* Properties                                                              *)

\* What is on its way to the client, or has reached it.
Responses == got \o net \o c.stream.writeBuffer

\* The client reads the responses in the order of its requests, none twice and none
\* missing, however many requests it sends ahead and however the handlers finish.
ResponsesInOrder == Responses = [i \in 1..Len(Responses) |-> i]

\* Types, and: two handlers of one connection are at work at once only after the stream
\* was closed under the first of them, so that what a late one does to it has no effect.
OneHandlerAtATime ==
  /\ TypeOK
  /\ \A n \in Number : handler[n] = "running" /\ n # c.n => c.stream.closed

\* The server closes the connection of a client that is still there only when everything
\* it had to say is with the kernel.
NothingIsCutOff == c.stream.closed /\ peer = "open" => c.stream.writeBuffer = <<>>

\* A connection that has ended leaves HTTPServer._connections, even if its handler hangs,
\* unless a request read ahead keeps the stream from listening.
ConnectionIsReleased ==
  Disconnected ~> \/ at \in {"over", "detached"}
                  \/ at = "response" /\ handler[c.n] = "running" /\ c.stream.buffer # <<>>

\* Every request of a client that stays is answered in the end, unless it waits behind
\* one that hangs, or the connection was closed.
RequestIsAnswered ==
  \A n \in Number :
    (Len(requests) >= n /\ peer = "open") ~>
      \/ Contains(got, n) \/ peer # "open" \/ c.stream.closed \/ at = "detached"
      \/ \E m \in 1..n : handler[m] = "running"
=============================================================================
