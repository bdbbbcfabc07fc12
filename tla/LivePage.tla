------------------------------ MODULE LivePage ------------------------------
(***************************************************************************)
(* A page of GraphPage in front of the server of SocketRegistry: the       *)
(* WebSocket of click c is the ClientSocket handler c, what is posted to   *)
(* /pushdata/ is walked over ALL_SOCKETS, and the frame the network hands  *)
(* over is what onmessage draws.  GraphPage takes for granted that each    *)
(* socket hears every later update once and in order; here the server, the *)
(* network and the restarts decide what it hears.                          *)
(***************************************************************************)
EXTENDS Integers, Sequences, SequencesExt

CONSTANTS
  Page, Key,                        \* see GraphPage
  Filter,                           \* the choices a click is made with
  Table,                            \* the tables the posted updates name
  MaxUpdate, MaxClick, MaxRestart,  \* bounds: updates, clicks, server restarts
  MaxInput                          \* bound: updates and clicks together

ASSUME LivePageAssumption ==
  /\ Page \subseteq {"dec", "tst", "mrg", "sql", "ver"}
  /\ "ALL" \notin Key /\ "none" \notin Key
  /\ Filter \subseteq Key \cup {"ALL"}
  /\ MaxUpdate \in Nat /\ MaxClick \in Nat /\ MaxRestart \in Nat /\ MaxInput \in Nat

VARIABLES
  page, updates, asked, answer, chart, order, left,   \* see GraphPage
  joined,                           \* joined[c]: updates posted before c's socket opened
  peer, stream, callback, ws, ALL_SOCKETS, wanted_feeds, post, pushes, net, got,
  since, restarts                   \* see SocketRegistry

serverVars == <<stream, callback, ws, ALL_SOCKETS, wanted_feeds, post, pushes, net,
                since, restarts>>
pageVars == <<page, updates, asked, answer, chart, order, left>>
vars == <<pageVars, joined, peer, got, serverVars>>

Socket == 1..MaxClick
Click == 1..Len(asked)

Server == INSTANCE SocketRegistry WITH Feed <- {}, MaxPush <- MaxUpdate

\* What the page knows of its sockets.
SocketState(c) ==
  CASE peer[c] = "absent" -> "none"
    [] peer[c] \in {"left", "vanished"} -> "closed"
    [] peer[c] = "open" /\ joined[c] = Server!Never -> "connecting"
    [] OTHER -> "open"

Browser == INSTANCE GraphPage WITH
  socket <- [c \in Click |-> SocketState(c)],
  since <- [c \in Click |-> IF joined[c] = Server!Never THEN 0 ELSE joined[c]],
  received <- [c \in Click |-> Len(got[c])]

Init ==
  /\ Server!Init
  /\ page \in Page
  /\ updates = <<>> /\ asked = <<>> /\ answer = <<>>
  /\ chart = <<Browser!Line(0, 1)>>
  /\ order = <<>>
  /\ left = FALSE
  /\ joined = [c \in Socket |-> Server!Never]

-----------------------------------------------------------------------------
(* The page                                                                *)

Clicked(adding) ==
  /\ ~left /\ Len(asked) < MaxClick /\ Len(asked) + pushes < MaxInput
  /\ \E f \in Filter, k \in Browser!LinesOf(page) :
       asked' = Append(asked, [adding |-> adding, filter |-> f, lines |-> k])
  /\ answer' = Append(answer, "waiting")
  /\ UNCHANGED <<page, updates, chart, order, left, joined>>

\* "New graph": a query, and one more WebSocket where the page streams.
submit_query ==
  /\ Clicked(FALSE)
  /\ IF page \in Browser!Streaming
       THEN Server!Connect(Len(asked) + 1)
       ELSE UNCHANGED <<peer, got, serverVars>>

submit_query_add == Clicked(TRUE) /\ UNCHANGED <<peer, got, serverVars>>

Answer(c) ==
  /\ ~left /\ answer[c] = "waiting"
  /\ answer' = [answer EXCEPT ![c] = "drawn"]
  /\ order' = Append(order, c)
  /\ IF asked[c].adding THEN chart' \in Browser!AddedTo(chart, c)
                        ELSE chart' = Browser!NewGraph(c)
  /\ UNCHANGED <<page, updates, asked, left, joined, peer, got, serverVars>>

AnswerFails(c) ==
  /\ ~left /\ answer[c] = "waiting"
  /\ answer' = [answer EXCEPT ![c] = "failed"]
  /\ UNCHANGED <<page, updates, asked, chart, order, left, joined, peer, got, serverVars>>

\* onmessage is called with the frame that arrives, whichever it is.
OnMessage(c) ==
  /\ Server!Deliver(c)
  /\ LET n == Head(net[c]) IN
       IF Browser!Matches(c, updates[n])
         THEN \E found \in BOOLEAN : chart' = Browser!DrawUpdate(chart, c, n, found)
         ELSE chart' = chart
  /\ UNCHANGED <<page, updates, asked, answer, order, left, joined>>

\* The listener was added for the last socket only.
CloseLastBug ==
  /\ ~left
  /\ left' = TRUE
  /\ peer' = [c \in Socket |-> IF peer[c] = "open" /\ c = Len(asked) THEN "left" ELSE peer[c]]
  /\ UNCHANGED <<page, updates, asked, answer, chart, order, joined, got, serverVars>>

\* beforeunload closes every socket the page has opened.
Unload ==
  /\ ~left
  /\ left' = TRUE
  /\ peer' = [c \in Socket |-> IF peer[c] = "open" THEN "left" ELSE peer[c]]
  /\ UNCHANGED <<page, updates, asked, answer, chart, order, joined, got, serverVars>>

-----------------------------------------------------------------------------
(* The server, and the network between the two                             *)

\* The handshake is answered while the browser is there: its socket opens.
Open(c) ==
  /\ Server!Open(c)
  /\ joined' = IF peer[c] = "open" THEN [joined EXCEPT ![c] = pushes] ELSE joined
  /\ UNCHANGED pageVars

HandlerRuns(c) ==
  /\ \/ Server!RefuseHandshake(c) \/ Server!AbortHandshake(c)
     \/ Server!NoticePeerGone(c) \/ Server!OnConnectionClose(c)
  /\ UNCHANGED <<pageVars, joined>>

\* A connection is lost; no page sets onclose, so that it stays lost.
ConnectionLost(c) == Server!PeerGoes(c) /\ UNCHANGED <<pageVars, joined>>

\* A producer posts an update.
PostBegins ==
  /\ Server!PostBegins /\ Len(asked) + pushes < MaxInput
  /\ \E u \in {v \in Browser!Update : v.table \in Table} : updates' = Append(updates, u)
  /\ UNCHANGED <<page, asked, answer, chart, order, left, joined>>

PostGoesOn ==
  /\ Server!PostToNext \/ Server!PostEnds
  /\ UNCHANGED <<pageVars, joined>>

Restart == Server!Restart /\ UNCHANGED <<pageVars, joined>>

Next ==
  \/ submit_query \/ submit_query_add
  \/ \E c \in Click : Answer(c) \/ AnswerFails(c)
  \/ Unload
  \/ \E c \in Socket : \/ Open(c) \/ OnMessage(c)
                       \/ HandlerRuns(c) \/ ConnectionLost(c)
  \/ PostBegins \/ PostGoesOn
  \/ Restart

Spec == Init /\ [][Next]_vars

\* As in SocketRegistry: the IOLoop runs what is ready, TCP delivers or gives up.
Fairness ==
  /\ WF_vars(PostGoesOn)
  /\ \A c \in Socket : WF_vars(Open(c)) /\ WF_vars(HandlerRuns(c)) /\ WF_vars(OnMessage(c))

FairSpec == Spec /\ Fairness

-----------------------------------------------------------------------------
(* Properties                                                              *)

\* The page in front of this server is the page of GraphPage: whatever restarts, lost
\* connections and unfinished broadcasts do, the frame a socket hears next is the update
\* GraphPage says it is.  (tornadoserver.py:331-343 against the onmessage of each page)
PageSpec == Browser!Spec

\* A page that was left leaves ALL_SOCKETS, for good, unless its machine had vanished
\* from the net.  (dec.js:338, tornadoserver.py:283)
LeavingEmptiesTheList ==
  left ~> [](\A c \in Socket : Server!Registered(c) => peer[c] = "vanished")

\* An update that is posted while the socket of the graph being shown is in ALL_SOCKETS,
\* and that its filter lets through, is drawn, unless the page or the connection goes,
\* another answer is drawn, or the server is restarted.  (tornadoserver.py:331-343,
\* dec.js:321-337, streaming.js:51-70)
Drawn(n) == \E k \in 1..Len(chart[1].drawn) : chart[1].drawn[k].n = n
Posting(c, n) ==
  /\ order = <<c>> /\ Browser!Streams(c)
  /\ Server!Registered(c) /\ stream[c] = "open" /\ peer[c] = "open"
  /\ post.running /\ pushes = n /\ ~Contains(got[c], n) /\ restarts = 0
  /\ Browser!Matches(c, updates[n])
UpdatesAreDrawn ==
  \A c \in Socket, n \in 1..MaxUpdate :
    Posting(c, n) ~> Drawn(n) \/ peer[c] # "open" \/ order # <<c>> \/ restarts > 0
=============================================================================
