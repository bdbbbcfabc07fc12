--------------------------- MODULE SocketRegistry ---------------------------
(***************************************************************************)
(* The push half of tornadoserver.py: ClientSocket keeps the global list   *)
(* ALL_SOCKETS, Announcer walks it for every POST to /pushdata/.  The      *)
(* handlers run one at a time on the IOLoop thread; a handler that is not  *)
(* finished (post.running) keeps every other handler waiting, while the    *)
(* network and the browsers go on by themselves.  Tornado's websocket and  *)
(* iostream code decide when a handler's connection is dead and when       *)
(* on_close runs, so that code is part of the model.                       *)
(***************************************************************************)
EXTENDS Integers, Sequences, SequencesExt

CONSTANTS
  Socket,       \* one ClientSocket handler, with the browser socket it serves
  Feed,         \* feed names a client may ask for with a FEED message
  MaxPush,      \* bound: updates accepted for broadcast
  MaxRestart    \* bound: restarts of the server process

ASSUME BoundsAssumption == MaxPush \in Nat /\ MaxRestart \in Nat

VARIABLES
  peer,         \* the browser's end of the connection
  stream,       \* the server's IOStream
  callback,     \* the stream's close callback, on_connection_close
  ws,           \* ws[s]: handler.ws_connection is not None
  ALL_SOCKETS,  \* the global list of registered handlers
  wanted_feeds, \* handler.wanted_feeds
  post,         \* the Announcer.post being executed
  pushes,       \* updates accepted for broadcast; the n-th one is the number n
  net,          \* net[s]: frames written to s and not yet read by the browser
  got,          \* got[s]: frames s's onmessage has been called with
  since,        \* history: pushes when s was registered
  restarts

vars == <<peer, stream, callback, ws, ALL_SOCKETS, wanted_feeds, post, pushes,
          net, got, since, restarts>>

Never == -1
\* targets is a history variable: the list as it was when post began.
NoPost == [running |-> FALSE, i |-> 1, targets |-> <<>>]

TypeOK ==
  /\ peer \in [Socket -> {"absent", "open", "left", "vanished"}]
  /\ stream \in [Socket -> {"none", "request", "open", "closed"}]
  /\ callback \in [Socket -> {"unset", "set", "scheduled", "ran"}]
  /\ ws \in [Socket -> BOOLEAN]
  /\ ALL_SOCKETS \in Seq(Socket)
  /\ wanted_feeds \in [Socket -> SUBSET Feed]
  /\ post \in [running : BOOLEAN, i : Nat \ {0}, targets : Seq(Socket)]
  /\ pushes \in 0..MaxPush
  /\ net \in [Socket -> Seq(1..MaxPush)]
  /\ got \in [Socket -> Seq(1..MaxPush)]
  /\ since \in [Socket -> {Never} \cup 0..MaxPush]
  /\ restarts \in 0..MaxRestart

Init ==
  /\ peer = [s \in Socket |-> "absent"]
  /\ stream = [s \in Socket |-> "none"]
  /\ callback = [s \in Socket |-> "unset"]
  /\ ws = [s \in Socket |-> FALSE]
  /\ ALL_SOCKETS = <<>>
  /\ wanted_feeds = [s \in Socket |-> {}]
  /\ post = NoPost
  /\ pushes = 0
  /\ net = [s \in Socket |-> <<>>]
  /\ got = [s \in Socket |-> <<>>]
  /\ since = [s \in Socket |-> Never]
  /\ restarts = 0

-----------------------------------------------------------------------------
(* The browser and the network                                             *)

\* submit_query: new WebSocket("ws://.../socket/").
Connect(s) ==
  /\ peer[s] = "absent"
  /\ peer' = [peer EXCEPT ![s] = "open"]
  /\ stream' = [stream EXCEPT ![s] = "request"]
  /\ UNCHANGED <<callback, ws, ALL_SOCKETS, wanted_feeds, post, pushes, net, got,
                 since, restarts>>

\* The page closes its socket, or its machine disappears without a FIN.  What
\* was under way to it is never handed to onmessage.
PeerGoes(s) ==
  /\ peer[s] = "open"
  /\ \E how \in {"left", "vanished"} : peer' = [peer EXCEPT ![s] = how]
  /\ UNCHANGED <<stream, callback, ws, ALL_SOCKETS, wanted_feeds, post, pushes,
                 net, got, since, restarts>>

\* TCP hands the frames over in the order they were written.
Deliver(s) ==
  /\ peer[s] = "open" /\ net[s] # <<>>
  /\ got' = [got EXCEPT ![s] = Append(@, Head(net[s]))]
  /\ net' = [net EXCEPT ![s] = Tail(@)]
  /\ UNCHANGED <<peer, stream, callback, ws, ALL_SOCKETS, wanted_feeds, post,
                 pushes, since, restarts>>

-----------------------------------------------------------------------------
(* IOStream and list operations the handlers are built from                *)

\* IOStream.close: the close callback is not called, it is put on the IOLoop.
CloseStream(s) ==
  /\ stream' = [stream EXCEPT ![s] = "closed"]
  /\ callback' = [callback EXCEPT ![s] = "scheduled"]

\* list.remove(x) where x is in the list: its first occurrence goes.
ListRemove(list, x) ==
  LET first == CHOOSE i \in 1..Len(list) :
                 list[i] = x /\ \A j \in 1..(i - 1) : list[j] # x
  IN  [j \in 1..(Len(list) - 1) |-> IF j < first THEN list[j] ELSE list[j + 1]]

Registered(s) == \E i \in 1..Len(ALL_SOCKETS) : ALL_SOCKETS[i] = s

-----------------------------------------------------------------------------
(* ClientSocket                                                            *)

\* WebSocketHandler.get answers 400 or 426: the handler is never registered.
\* After a 426 on_connection_close is due, and on_close with it.
RefuseHandshake(s) ==
  /\ ~post.running /\ stream[s] = "request"
  /\ peer' = [peer EXCEPT ![s] = IF @ = "open" THEN "left" ELSE @]
  /\ \/ CloseStream(s)
     \/ stream' = [stream EXCEPT ![s] = "closed"] /\ UNCHANGED callback
  /\ UNCHANGED <<ws, ALL_SOCKETS, wanted_feeds, post, pushes, net, got, since,
                 restarts>>

\* accept_connection aborts: a handshake header is missing, or the browser closed
\* before it was answered.  There is a ws_connection, but open is not called.
AbortHandshake(s) ==
  /\ ~post.running /\ stream[s] = "request"
  /\ peer' = [peer EXCEPT ![s] = IF @ = "open" THEN "left" ELSE @]
  /\ ws' = [ws EXCEPT ![s] = TRUE]
  /\ CloseStream(s)
  /\ UNCHANGED <<ALL_SOCKETS, wanted_feeds, post, pushes, net, got, since,
                 restarts>>

\* The handshake is answered and ClientSocket.open runs in the same callback, even if the
\* answer could not be written, or the read after it finds that the browser has left.
Open(s) ==
  /\ ~post.running /\ stream[s] = "request"
  /\ \/ /\ stream' = [stream EXCEPT ![s] = "open"]
        /\ callback' = [callback EXCEPT ![s] = "set"]
     \/ peer[s] = "left" /\ CloseStream(s)
  /\ ws' = [ws EXCEPT ![s] = TRUE]
  /\ ALL_SOCKETS' = Append(ALL_SOCKETS, s)
  /\ wanted_feeds' = [wanted_feeds EXCEPT ![s] = {}]
  /\ since' = [since EXCEPT ![s] = pushes]
  /\ UNCHANGED <<peer, post, pushes, net, got, restarts>>

\* The server learns that the browser is gone: it reads the close frame or the
\* FIN, or TCP gives up on frames nobody acknowledges.  A machine that vanished
\* is not missed as long as nothing is written to it.
NoticePeerGone(s) ==
  /\ ~post.running /\ stream[s] = "open"
  /\ \/ peer[s] = "left"
     \/ peer[s] = "vanished" /\ net[s] # <<>>
  /\ CloseStream(s)
  /\ UNCHANGED <<peer, ws, ALL_SOCKETS, wanted_feeds, post, pushes, net, got,
                 since, restarts>>

\* The scheduled on_connection_close drops ws_connection; what on_close leaves of
\* the list is "remaining".
DropConnection(s, remaining) ==
  /\ ~post.running /\ callback[s] = "scheduled"
  /\ callback' = [callback EXCEPT ![s] = "ran"]
  /\ ws' = [ws EXCEPT ![s] = FALSE]
  /\ ALL_SOCKETS' = remaining
  /\ UNCHANGED <<peer, stream, wanted_feeds, post, pushes, net, got, since,
                 restarts>>

\* Operators ending in Bug, here and below, are the mistakes the properties are
\* tried against; nothing in the specification uses them.
\* ClientSocket defines close but not on_close; or on_close empties the slot; or
\* it pops the last handler instead of itself.
NoOnCloseBug(s) == DropConnection(s, ALL_SOCKETS)
EmptySlotBug(s) ==
  DropConnection(s, [i \in 1..Len(ALL_SOCKETS) |->
                       IF ALL_SOCKETS[i] = s THEN Never ELSE ALL_SOCKETS[i]])
PopBug(s) ==
  DropConnection(s, IF Registered(s) THEN Front(ALL_SOCKETS) ELSE ALL_SOCKETS)

\* on_close removes the handler from the list.  When open never ran the removal
\* raises ValueError, which the IOLoop logs.
OnConnectionClose(s) ==
  DropConnection(s, IF Registered(s) THEN ListRemove(ALL_SOCKETS, s) ELSE ALL_SOCKETS)

\* on_message with a FEED line, which may have been received before the stream closed.
\* The feeds are remembered and never looked at.
OnMessage(s) ==
  /\ ~post.running /\ Registered(s)
  /\ \E feeds \in SUBSET Feed :
       wanted_feeds' = [wanted_feeds EXCEPT ![s] = @ \cup feeds]
  /\ UNCHANGED <<peer, stream, callback, ws, ALL_SOCKETS, post, pushes, net, got,
                 since, restarts>>

-----------------------------------------------------------------------------
(* Announcer                                                               *)

\* A POST that prepare rejects (no Content-Type, a body that is not JSON), or that has
\* no "data" in it, is answered 500 before the loop and changes nothing.
PostBegins ==
  /\ ~post.running /\ pushes < MaxPush
  /\ pushes' = pushes + 1
  /\ post' = [running |-> TRUE, i |-> 1, targets |-> ALL_SOCKETS]
  /\ UNCHANGED <<peer, stream, callback, ws, ALL_SOCKETS, wanted_feeds, net, got,
                 since, restarts>>

\* A client that still has frames under way is passed over.
PassOverSlowBug(s) ==
  \/ /\ stream[s] = "open"
     /\ net' = [net EXCEPT ![s] = IF @ = <<>> THEN <<pushes>> ELSE @]
     /\ UNCHANGED <<stream, callback>>
  \/ /\ stream[s] = "closed"
     /\ UNCHANGED <<stream, callback, net>>

\* The newest frame goes to the front of the write buffer.
NewestFirstBug(s) ==
  \/ /\ stream[s] = "open"
     /\ net' = [net EXCEPT ![s] = <<pushes>> \o @]
     /\ UNCHANGED <<stream, callback>>
  \/ /\ stream[s] = "closed"
     /\ UNCHANGED <<stream, callback, net>>

\* ws_connection.write_message: the frame is buffered, or the kernel reports that
\* the connection is broken and the stream is closed on the spot, or the stream
\* was closed already and StreamClosedError is swallowed by _write_frame.
WriteFrame(s) ==
  \/ /\ stream[s] = "open"
     /\ net' = [net EXCEPT ![s] = Append(@, pushes)]
     /\ UNCHANGED <<stream, callback>>
  \/ /\ stream[s] = "open" /\ peer[s] # "open"
     /\ CloseStream(s)
     /\ UNCHANGED net
  \/ /\ stream[s] = "closed"
     /\ UNCHANGED <<stream, callback, net>>

\* write_message raises WebSocketClosedError on a closed stream, and the loop
\* removes the handler from the list it is walking.
RemoveWhileWalkingBug ==
  /\ post.running /\ post.i <= Len(ALL_SOCKETS)
  /\ LET s == ALL_SOCKETS[post.i] IN
       IF stream[s] # "closed"
         THEN WriteFrame(s) /\ UNCHANGED ALL_SOCKETS
         ELSE /\ ALL_SOCKETS' = ListRemove(ALL_SOCKETS, s)
              /\ UNCHANGED <<stream, callback, net>>
  /\ post' = [running |-> TRUE, i |-> post.i + 1, targets |-> post.targets]
  /\ UNCHANGED <<peer, ws, wanted_feeds, pushes, got, since, restarts>>

\* One turn of "for socket in ALL_SOCKETS".  The list iterator is an index into
\* the list, so removing the current element makes it skip the next one.
PostToNext ==
  /\ post.running /\ post.i <= Len(ALL_SOCKETS)
  /\ LET s == ALL_SOCKETS[post.i] IN
       IF ws[s]
         THEN WriteFrame(s) /\ UNCHANGED ALL_SOCKETS
         ELSE /\ ALL_SOCKETS' = ListRemove(ALL_SOCKETS, s)  \* WebSocketClosedError
              /\ UNCHANGED <<stream, callback, net>>
  /\ post' = [running |-> TRUE, i |-> post.i + 1, targets |-> post.targets]
  /\ UNCHANGED <<peer, ws, wanted_feeds, pushes, got, since, restarts>>

PostEnds ==
  /\ post.running /\ post.i > Len(ALL_SOCKETS)
  /\ post' = NoPost
  /\ UNCHANGED <<peer, stream, callback, ws, ALL_SOCKETS, wanted_feeds, pushes,
                 net, got, since, restarts>>

-----------------------------------------------------------------------------
\* The process ends, at any point, and starts again: autoreload (debug=True) after
\* a source file was saved, or an operator.  The list and every handler are gone;
\* a browser can still read what the kernel had sent before.
Restart ==
  /\ restarts < MaxRestart
  /\ restarts' = restarts + 1
  /\ stream' = [s \in Socket |-> IF stream[s] = "none" THEN "none" ELSE "closed"]
  /\ callback' = [s \in Socket |-> "unset"]
  /\ ws' = [s \in Socket |-> FALSE]
  /\ ALL_SOCKETS' = <<>>
  /\ wanted_feeds' = [s \in Socket |-> {}]
  /\ post' = NoPost
  /\ UNCHANGED <<peer, pushes, net, got, since>>

Next ==
  \/ \E s \in Socket :
       \/ Connect(s) \/ PeerGoes(s) \/ Deliver(s)
       \/ RefuseHandshake(s) \/ AbortHandshake(s) \/ Open(s)
       \/ NoticePeerGone(s) \/ OnConnectionClose(s) \/ OnMessage(s)
  \/ PostBegins \/ PostToNext \/ PostEnds
  \/ Restart

Spec == Init /\ [][Next]_vars

\* The IOLoop runs what is ready and TCP delivers or gives up; browsers,
\* producers and restarts are under no obligation.
Fairness ==
  /\ WF_vars(PostToNext) /\ WF_vars(PostEnds)
  /\ \A s \in Socket :
       /\ WF_vars(RefuseHandshake(s) \/ AbortHandshake(s) \/ Open(s))
       /\ WF_vars(NoticePeerGone(s))
       /\ WF_vars(OnConnectionClose(s))
       /\ WF_vars(Deliver(s))

FairSpec == Spec /\ Fairness

-----------------------------------------------------------------------------
(* Properties                                                              *)

\* A handler is in ALL_SOCKETS at most once: list.remove(self) takes out all of it.
RegisteredOnce == IsInjective(ALL_SOCKETS)

\* A handler in ALL_SOCKETS has a ws_connection: the Announcer's
\* "except WebSocketClosedError" branch, which removes from the list being walked
\* and would skip a client, is never taken.
RegisteredIsLive == \A i \in 1..Len(ALL_SOCKETS) : ws[ALL_SOCKETS[i]]

\* A handler whose stream is open and whose open() ran is in ALL_SOCKETS.
LiveIsRegistered == \A s \in Socket : stream[s] = "open" => Registered(s)

\* ALL_SOCKETS is exact: the three together, across handshakes, closes seen late,
\* broadcasts and restarts.
RegistryExact == RegisteredOnce /\ RegisteredIsLive /\ LiveIsRegistered

\* The loop has been at s, and s needs nothing more of it.
Passed(s) == \E j \in 1..(post.i - 1) : post.targets[j] = s
Reached(s) == peer[s] # "open" \/ Contains(got[s] \o net[s], pushes)

\* No client is skipped: whatever happens to the connections while Announcer.post
\* walks the list, every client it has passed has the update under way, or is gone.
BroadcastReachesEveryone ==
  post.running =>
    /\ ALL_SOCKETS = post.targets
    /\ \A s \in Socket : Passed(s) => Reached(s)

\* A handler leaves ALL_SOCKETS only when its stream is closed, or with the process.
LeavesOnlyWhenClosed ==
  [][\A s \in Socket : Registered(s) /\ ~Registered(s)' =>
       stream[s] = "closed" \/ restarts' # restarts]_vars

\* Each client sees a gap-free, in-order, duplicate-free run of the updates from
\* the moment it is registered until it goes away (refinement of LiveFeed).
AbstractFeed == INSTANCE LiveFeed WITH
  Client <- Socket, published <- pushes, received <- got,
  present <- [s \in Socket |-> peer[s] \in {"absent", "open"}]

FeedSpec == AbstractFeed!Spec

\* An update accepted while a client is registered gets to that client, unless the
\* client goes away or the process is restarted.
PushArrives ==
  \A s \in Socket : \A n \in 1..MaxPush :
    (Registered(s) /\ post.running /\ pushes = n)
      ~> (Contains(got[s], n) \/ peer[s] # "open" \/ ~Registered(s))

\* The handler of a browser that closed its socket, or vanished with frames
\* unacknowledged, is removed from ALL_SOCKETS in the end.
DeadHandlerLeaves ==
  \A s \in Socket :
    (Registered(s) /\ (peer[s] = "left" \/ (peer[s] = "vanished" /\ net[s] # <<>>)))
      ~> ~Registered(s)

\* tornadoserver.py:340-341 says of the broadcast loop: "if one of our sockets is
\* closed, but still in the list remove it from our list".
BroadcastRemovesClosed ==
  [][post.running /\ ~post'.running /\ restarts' = restarts =>
       \A j \in 1..Len(ALL_SOCKETS) : stream[ALL_SOCKETS[j]] # "closed"]_vars
=============================================================================
