--------------------------- MODULE LivePage_proofs ---------------------------
(***************************************************************************)
(* Proofs about LivePage, from those about its two parts: the accounts of  *)
(* the feeds that hold of SocketRegistry still hold with a page in front   *)
(* of it, so that the page is the page of GraphPage, and what was proved   *)
(* of that page holds end to end, from the posted update to the chart.     *)
(***************************************************************************)
EXTENDS LivePage, TLAPS

SP == INSTANCE SocketRegistry_proofs WITH Feed <- {}, MaxPush <- MaxUpdate

\* What the page of GraphPage is told of the sockets.
Sock == [c \in Click |-> SocketState(c)]
From == [c \in Click |-> IF joined[c] = Server!Never THEN 0 ELSE joined[c]]
Heard == [c \in Click |-> Len(got[c])]

BP == INSTANCE GraphPage_proofs WITH socket <- Sock, since <- From, received <- Heard

\* The bounds are those SocketRegistry asks for.
LEMMA ServerBounds == SP!BoundsAssumption
  BY LivePageAssumption DEF SP!BoundsAssumption

-----------------------------------------------------------------------------
(* The server                                                              *)

\* The steps of the server that LivePage takes are steps of SocketRegistry.
LEMMA ServerActs ==
  ASSUME NEW c \in Socket
  PROVE  /\ Server!Connect(c) => SP!Connect(c)
         /\ Server!PeerGoes(c) => SP!PeerGoes(c)
         /\ Server!Deliver(c) => SP!Deliver(c)
         /\ Server!RefuseHandshake(c) => SP!RefuseHandshake(c)
         /\ Server!AbortHandshake(c) => SP!AbortHandshake(c)
         /\ Server!Open(c) => SP!Open(c)
         /\ Server!NoticePeerGone(c) => SP!NoticePeerGone(c)
         /\ Server!OnConnectionClose(c) => SP!OnConnectionClose(c)
<1>1. Server!Connect(c) => SP!Connect(c)
  BY DEF Server!Connect, SP!Connect
<1>2. Server!PeerGoes(c) => SP!PeerGoes(c)
  BY DEF Server!PeerGoes, SP!PeerGoes
<1>3. Server!Deliver(c) => SP!Deliver(c)
  BY DEF Server!Deliver, SP!Deliver
<1>4. Server!RefuseHandshake(c) => SP!RefuseHandshake(c)
  BY DEF Server!RefuseHandshake, SP!RefuseHandshake, Server!CloseStream, SP!CloseStream
<1>5. Server!AbortHandshake(c) => SP!AbortHandshake(c)
  BY DEF Server!AbortHandshake, SP!AbortHandshake, Server!CloseStream, SP!CloseStream
<1>6. Server!Open(c) => SP!Open(c)
  BY DEF Server!Open, SP!Open, Server!CloseStream, SP!CloseStream
<1>7. Server!NoticePeerGone(c) => SP!NoticePeerGone(c)
  BY DEF Server!NoticePeerGone, SP!NoticePeerGone, Server!CloseStream, SP!CloseStream
<1>8. Server!OnConnectionClose(c) => SP!OnConnectionClose(c)
  BY DEF Server!OnConnectionClose, SP!OnConnectionClose, Server!DropConnection,
         SP!DropConnection, Server!Registered, SP!Registered, Server!ListRemove,
         SP!ListRemove
<1>. QED  BY <1>1, <1>2, <1>3, <1>4, <1>5, <1>6, <1>7, <1>8

\* So are those of a broadcast, and a restart.
LEMMA ServerBroadcasts ==
  /\ Server!PostBegins => SP!PostBegins
  /\ Server!PostToNext => SP!PostToNext
  /\ Server!PostEnds => SP!PostEnds
  /\ Server!Restart => SP!Restart
<1>1. Server!PostBegins => SP!PostBegins
  BY DEF Server!PostBegins, SP!PostBegins
<1>2. Server!PostToNext => SP!PostToNext
  BY DEF Server!PostToNext, SP!PostToNext, Server!WriteFrame, SP!WriteFrame,
         Server!CloseStream, SP!CloseStream, Server!ListRemove, SP!ListRemove
<1>3. Server!PostEnds => SP!PostEnds
  BY DEF Server!PostEnds, SP!PostEnds, Server!NoPost, SP!NoPost
<1>4. Server!Restart => SP!Restart
  BY DEF Server!Restart, SP!Restart, Server!NoPost, SP!NoPost
<1>. QED  BY <1>1, <1>2, <1>3, <1>4

\* A step is one of SocketRegistry, or beforeunload, which closes several sockets at once,
\* or one the server has no part in.
LEMMA StepOfServer ==
  ASSUME [Next]_vars
  PROVE  SP!Next \/ Unload \/ UNCHANGED SP!vars
<1>0. MaxClick \in Nat
  BY LivePageAssumption
<1>1. CASE submit_query
  <2>1. Len(asked) + 1 \in Socket \/ page \notin Browser!Streaming
    BY <1>0, <1>1 DEF submit_query, Clicked, Socket
  <2>. QED  BY <1>1, <2>1, ServerActs
            DEF submit_query, SP!Next, SP!vars, serverVars, SP!Connect, Server!Connect
<1>2. CASE submit_query_add \/ \E c \in Click : Answer(c) \/ AnswerFails(c)
  BY <1>2 DEF submit_query_add, Answer, AnswerFails, SP!vars, serverVars
<1>3. ASSUME NEW c \in Socket,
             Open(c) \/ OnMessage(c) \/ HandlerRuns(c) \/ ConnectionLost(c)
      PROVE  SP!Next
  BY <1>3, ServerActs DEF Open, OnMessage, HandlerRuns, ConnectionLost, SP!Next
<1>4. CASE PostBegins \/ PostGoesOn \/ Restart
  BY <1>4, ServerBroadcasts DEF PostBegins, PostGoesOn, Restart, SP!Next
<1>5. CASE UNCHANGED vars
  BY <1>5 DEF vars, serverVars, SP!vars
<1>. QED  BY <1>1, <1>2, <1>3, <1>4, <1>5 DEF Next

\* What holds of the feeds holds with a page in front of them.
LEMMA FeedKept ==
  ASSUME SP!FeedInv, [Next]_vars
  PROVE  SP!FeedInv'
<1>1. CASE Unload
  BY <1>1, ServerBounds, SP!BrowsersLeave DEF Unload, serverVars
<1>2. CASE SP!Next \/ UNCHANGED SP!vars
  <2>1. SP!RegistryInv'
    BY <1>2, ServerBounds, SP!RegistryStep DEF SP!FeedInv, SP!WalkInv
  <2>2. SP!WalkInv'
    BY <1>2, <2>1, ServerBounds, SP!WalkStep DEF SP!FeedInv
  <2>. QED  BY <1>2, <2>2, ServerBounds, SP!FeedInductive
<1>. QED  BY <1>1, <1>2, StepOfServer

\* The server's and the network's part of the initial state is that of SocketRegistry.
LEMMA FeedInit == Init => SP!FeedInv
<1>1. Init => SP!Init
  BY DEF Init, Server!Init, SP!Init, Server!NoPost, SP!NoPost, Server!Never, SP!Never
<1>. QED  BY <1>1, ServerBounds, SP!FeedInit

-----------------------------------------------------------------------------
(* The page and its sockets                                                *)

\* The page has a socket for the clicks that opened one, and its sockets start to hear
\* where their feeds start: with the first update after the server registered them.
SocketOf(c) ==
  /\ c > Len(asked) => peer[c] = "absent"
  /\ peer[c] = "absent" => joined[c] = SP!Never
  /\ joined[c] \in {SP!Never, since[c]}
  /\ peer[c] = "open" => joined[c] = since[c]

PageInv ==
  /\ page \in Page
  /\ asked \in Seq(Browser!Question) /\ Len(asked) <= MaxClick
  /\ updates \in Seq(Browser!Update) /\ Len(updates) = pushes
  /\ joined \in [Socket -> {SP!Never} \cup 0..MaxUpdate]
  /\ \A c \in Socket : SocketOf(c)

LiveInv == SP!FeedInv /\ PageInv

\* What LiveInv says of the server's variables that the page depends on.
LEMMA ServerFacts ==
  ASSUME LiveInv
  PROVE  /\ peer \in [Socket -> {"absent", "open", "left", "vanished"}]
         /\ stream \in [Socket -> {"none", "request", "open", "closed"}]
         /\ pushes \in 0..MaxUpdate
         /\ net \in [Socket -> Seq(1..MaxUpdate)]
         /\ got \in [Socket -> Seq(1..MaxUpdate)]
         /\ since \in [Socket -> {SP!Never} \cup 0..MaxUpdate]
         /\ \A c \in Socket : /\ stream[c] # "none" => peer[c] # "absent"
                              /\ SP!FeedOf(c)
BY DEF LiveInv, SP!FeedInv, SP!WalkInv, SP!RegistryInv, SP!LifeCycle, SP!Typing, SP!TypeOK

\* The initial state satisfies LiveInv.
LEMMA LiveInit == Init => LiveInv
<1>1. Init => PageInv
  <2>. SUFFICES ASSUME Init PROVE PageInv
    OBVIOUS
  <2>1. /\ peer = [s \in Socket |-> "absent"] /\ since = [s \in Socket |-> SP!Never]
        /\ pushes = 0
    BY DEF Init, Server!Init, Server!Never, SP!Never
  <2>2. joined = [c \in Socket |-> SP!Never]
    BY DEF Init, Server!Never, SP!Never
  <2>. QED  BY <2>1, <2>2, LivePageAssumption DEF Init, PageInv, SocketOf
<1>. QED  BY <1>1, FeedInit DEF LiveInv

\* A step that opens no socket and answers no handshake leaves the sockets as they were,
\* but those that go.
LEMMA SocketsKept ==
  ASSUME \A c \in Socket : SocketOf(c), UNCHANGED <<asked, joined, since>>,
         NEW c \in Socket, peer'[c] \in {peer[c], "left", "vanished"},
         peer[c] = "absent" => peer'[c] = "absent"
  PROVE  SocketOf(c)'
BY DEF SocketOf

\* A click keeps PageInv.
LEMMA ClickKeeps ==
  ASSUME LiveInv, submit_query \/ submit_query_add
  PROVE  PageInv'
<1>. USE LivePageAssumption
<1>0. MaxClick \in Nat /\ Len(asked) \in Nat /\ Len(asked) < MaxClick
  BY DEF LiveInv, PageInv, submit_query, submit_query_add, Clicked
<1>1. PICK q : asked' = Append(asked, q) /\ q \in Browser!Question
  <2>1. \A p : Browser!LinesOf(p) \subseteq {1, 2}
    BY DEF Browser!LinesOf
  <2>2. PICK a \in BOOLEAN, f \in Filter, k \in Browser!LinesOf(page) :
          asked' = Append(asked, [adding |-> a, filter |-> f, lines |-> k])
    BY DEF submit_query, submit_query_add, Clicked
  <2>. QED  BY <2>1, <2>2 DEF Browser!Question, Browser!All
<1>2. asked' \in Seq(Browser!Question) /\ Len(asked') = Len(asked) + 1
  BY <1>1 DEF LiveInv, PageInv
<1>3. UNCHANGED <<page, updates, joined, pushes, since>>
  BY DEF submit_query, submit_query_add, Clicked, serverVars, Server!Connect
<1>4. \/ UNCHANGED peer
      \/ /\ Len(asked) + 1 \in Socket /\ peer[Len(asked) + 1] = "absent"
         /\ peer' = [peer EXCEPT ![Len(asked) + 1] = "open"]
         /\ stream[Len(asked) + 1] = "none"
  <2>1. Len(asked) + 1 \in Socket
    BY <1>0 DEF Socket
  <2>. QED  BY <2>1, ServerFacts DEF submit_query, submit_query_add, Server!Connect
<1>5. ASSUME NEW c \in Socket  PROVE SocketOf(c)'
  <2>1. SocketOf(c) /\ c \in Nat
    BY <1>0 DEF LiveInv, PageInv, Socket
  <2>2. CASE peer'[c] = peer[c]
    BY <1>0, <1>2, <1>3, <2>1, <2>2 DEF SocketOf
  <2>3. CASE c = Len(asked) + 1 /\ peer'[c] = "open" /\ stream[c] = "none"
             /\ peer[c] = "absent"
    <3>1. since[c] = SP!Never /\ joined[c] = SP!Never
      BY <2>1, <2>3, ServerFacts DEF SP!FeedOf, SocketOf
    <3>. QED  BY <1>0, <1>2, <1>3, <2>3, <3>1 DEF SocketOf
  <2>. QED  BY <1>4, <2>2, <2>3, ServerFacts
<1>6. Len(asked') <= MaxClick
  BY <1>0, <1>2
<1>7. PageInv /\ Browser!Update' = Browser!Update
  BY <1>3 DEF LiveInv, Browser!Update
<1>. QED  BY <1>2, <1>3, <1>5, <1>6, <1>7 DEF PageInv

\* An answered handshake keeps PageInv.
LEMMA OpenKeeps ==
  ASSUME LiveInv, NEW c \in Socket, Open(c)
  PROVE  PageInv'
<1>1. /\ UNCHANGED <<page, asked, updates, peer, pushes>> /\ stream[c] = "request"
      /\ since' = [since EXCEPT ![c] = pushes]
      /\ joined' = IF peer[c] = "open" THEN [joined EXCEPT ![c] = pushes] ELSE joined
  BY DEF Open, pageVars, Server!Open
<1>2. joined \in [Socket -> {SP!Never} \cup 0..MaxUpdate] /\ SocketOf(c)
  BY DEF LiveInv, PageInv
<1>3. since[c] = SP!Never /\ peer[c] # "absent"
  BY <1>1, ServerFacts DEF SP!FeedOf
<1>4. joined' \in [Socket -> {SP!Never} \cup 0..MaxUpdate]
  BY <1>1, <1>2, ServerFacts
<1>5. joined[c] = SP!Never
  BY <1>2, <1>3 DEF SocketOf
<1>6. SocketOf(c)'
  BY <1>1, <1>2, <1>3, <1>5, ServerFacts DEF SocketOf
<1>7. ASSUME NEW d \in Socket, d # c  PROVE SocketOf(d)'
  <2>1. joined'[d] = joined[d] /\ since'[d] = since[d]
    BY <1>1, <1>2, <1>7, ServerFacts
  <2>2. SocketOf(d)
    BY DEF LiveInv, PageInv
  <2>. QED  BY <1>1, <2>1, <2>2 DEF SocketOf
<1>8. PageInv /\ Browser!Update' = Browser!Update
  BY <1>1 DEF LiveInv, Browser!Update
<1>. QED  BY <1>1, <1>4, <1>6, <1>7, <1>8 DEF PageInv

\* A posted update keeps PageInv.
LEMMA PostKeeps ==
  ASSUME LiveInv, PostBegins
  PROVE  PageInv'
<1>1. PICK u \in Browser!Update : updates' = Append(updates, u)
  BY DEF PostBegins
<1>2. /\ UNCHANGED <<page, asked, joined, peer, since>> /\ pushes' = pushes + 1
  BY DEF PostBegins, Server!PostBegins
<1>3. Browser!Update' = Browser!Update
  BY <1>2 DEF Browser!Update
<1>4. updates' \in Seq(Browser!Update') /\ Len(updates') = pushes'
  BY <1>1, <1>2, <1>3 DEF LiveInv, PageInv
<1>. QED  BY <1>2, <1>4 DEF LiveInv, PageInv, SocketOf

\* Every step keeps LiveInv.
LEMMA LiveKept == LiveInv /\ [Next]_vars => LiveInv'
<1>. SUFFICES ASSUME LiveInv, [Next]_vars  PROVE PageInv'
  BY FeedKept DEF LiveInv
<1>0. /\ PageInv /\ \A c \in Socket : SocketOf(c)
      /\ peer \in [Socket -> {"absent", "open", "left", "vanished"}]
  BY ServerFacts DEF LiveInv, PageInv
\* The other steps open no socket and answer no handshake.
<1>1. ASSUME UNCHANGED <<page, asked, updates, joined, pushes, since>>,
             \A c \in Socket : /\ peer'[c] \in {peer[c], "left", "vanished"}
                               /\ peer[c] = "absent" => peer'[c] = "absent"
      PROVE  PageInv'
  <2>1. \A c \in Socket : SocketOf(c)'
    BY <1>0, <1>1, SocketsKept
  <2>2. Browser!Update' = Browser!Update
    BY <1>1 DEF Browser!Update
  <2>. QED  BY <1>0, <1>1, <2>1, <2>2 DEF PageInv
<1>2. CASE \E c \in Click : Answer(c) \/ AnswerFails(c)
  BY <1>1, <1>2 DEF Answer, AnswerFails, serverVars
<1>3. CASE Unload
  BY <1>0, <1>1, <1>3 DEF Unload, serverVars
<1>4. ASSUME NEW c \in Socket, OnMessage(c)  PROVE PageInv'
  BY <1>1, <1>4 DEF OnMessage, Server!Deliver
<1>5. ASSUME NEW c \in Socket, HandlerRuns(c) \/ ConnectionLost(c)  PROVE PageInv'
  <2>1. /\ UNCHANGED <<page, asked, updates, joined, pushes, since>>
        /\ \/ UNCHANGED peer
           \/ peer[c] = "open" /\ \E how \in {"left", "vanished"} :
                                     peer' = [peer EXCEPT ![c] = how]
           \/ peer' = [peer EXCEPT ![c] = IF peer[c] = "open" THEN "left" ELSE peer[c]]
    BY <1>5 DEF HandlerRuns, ConnectionLost, pageVars, Server!RefuseHandshake,
                Server!AbortHandshake, Server!NoticePeerGone, Server!OnConnectionClose,
                Server!DropConnection, Server!PeerGoes
  <2>. QED  BY <1>0, <1>1, <2>1
<1>6. CASE PostGoesOn \/ Restart
  BY <1>1, <1>6 DEF PostGoesOn, Restart, pageVars, Server!PostToNext, Server!PostEnds,
                    Server!Restart
<1>7. CASE UNCHANGED vars
  BY <1>1, <1>7 DEF vars, pageVars, serverVars
<1>. QED  BY <1>2, <1>3, <1>4, <1>5, <1>6, <1>7, ClickKeeps, OpenKeeps, PostKeeps DEF Next

\* LiveInv holds in every reachable state.
LEMMA LiveInvariant == Spec => []LiveInv
  BY LiveInit, LiveKept, PTL DEF Spec

-----------------------------------------------------------------------------
(* LivePage implements GraphPage                                           *)

\* What the page is told does not change while its sockets and what they heard do not.
LEMMA ToldTheSame ==
  ASSUME UNCHANGED asked,
         \A c \in Click : peer'[c] = peer[c] /\ joined'[c] = joined[c] /\ got'[c] = got[c]
  PROVE  UNCHANGED <<Sock, From, Heard>>
<1>1. Click' = Click
  BY DEF Click
<1>2. \A c \in Click : SocketState(c)' = SocketState(c)
  BY DEF SocketState
<1>3. Sock' = Sock
  BY <1>1, <1>2 DEF Sock
<1>4. From' = From
  BY <1>1 DEF From, Server!Never
<1>5. Heard' = Heard
  BY <1>1 DEF Heard
<1>. QED  BY <1>3, <1>4, <1>5

\* A socket of the page that goes is dropped in GraphPage's words.
LEMMA SocketGoes ==
  ASSUME LiveInv, NEW c \in Click, c \in Socket, UNCHANGED <<pageVars, joined, got>>,
         peer[c] = "open", NEW how \in {"left", "vanished"},
         peer' = [peer EXCEPT ![c] = how]
  PROVE  Browser!SocketDrops(c)
<1>1. UNCHANGED <<page, updates, asked, answer, chart, order, left>> /\ Click' = Click
  BY DEF pageVars, Click
<1>2. peer'[c] = how /\ \A d \in Click : d # c => peer'[d] = peer[d]
  BY ServerFacts
<1>3. SocketState(c) \in {"connecting", "open"} /\ SocketState(c)' = "closed"
  BY <1>2 DEF SocketState
<1>4. \A d \in Click : d # c => SocketState(d)' = SocketState(d)
  BY <1>2 DEF SocketState
<1>5. Sock' = [Sock EXCEPT ![c] = "closed"]
  BY <1>1, <1>3, <1>4 DEF Sock
<1>6. UNCHANGED <<From, Heard>>
  BY <1>1 DEF From, Heard, Server!Never
<1>7. Sock[c] \in {"connecting", "open"}
  BY <1>3 DEF Sock
<1>. QED  BY <1>1, <1>5, <1>6, <1>7 DEF Browser!SocketDrops, Sock, From, Heard

\* The socket of an answered handshake opens, if the browser is still there.
LEMMA SocketIsOpen ==
  ASSUME LiveInv, NEW c \in Socket, Open(c)
  PROVE  (c \in Click /\ Browser!SocketOpens(c)) \/ UNCHANGED Browser!vars
<1>1. /\ UNCHANGED <<page, updates, asked, answer, chart, order, left, peer, got>>
      /\ stream[c] = "request" /\ Click' = Click
      /\ joined' = IF peer[c] = "open" THEN [joined EXCEPT ![c] = pushes] ELSE joined
  BY DEF Open, pageVars, Server!Open, Click
<1>2. CASE peer[c] # "open"
  <2>1. UNCHANGED <<Sock, From, Heard>>
    BY <1>1, <1>2, ToldTheSame
  <2>. QED  BY <1>1, <2>1 DEF Browser!vars, Sock, From, Heard
<1>3. CASE peer[c] = "open"
  <2>0. /\ joined \in [Socket -> {SP!Never} \cup 0..MaxUpdate] /\ SocketOf(c)
        /\ Len(updates) = pushes
    BY DEF LiveInv, PageInv
  <2>1. c \in Click
    BY <1>3, <2>0 DEF SocketOf, Click, Socket, LiveInv, PageInv
  <2>2. joined[c] = SP!Never
    BY <1>1, <1>3, <2>0, ServerFacts DEF SP!FeedOf, SocketOf
  <2>3. pushes # SP!Never /\ joined' = [joined EXCEPT ![c] = pushes]
    BY <1>1, <1>3, ServerFacts, LivePageAssumption DEF SP!Never
  <2>4. joined'[c] = pushes /\ \A d \in Click : d # c => joined'[d] = joined[d]
    BY <2>0, <2>3
  <2>5. SocketState(c) = "connecting" /\ SocketState(c)' = "open"
    BY <1>1, <1>3, <2>2, <2>3, <2>4 DEF SocketState, Server!Never, SP!Never
  <2>6. \A d \in Click : d # c => SocketState(d)' = SocketState(d)
    BY <1>1, <2>4 DEF SocketState
  <2>7. Sock' = [Sock EXCEPT ![c] = "open"] /\ Sock[c] = "connecting"
    BY <1>1, <2>1, <2>5, <2>6 DEF Sock
  <2>8. From' = [From EXCEPT ![c] = Len(updates)]
    BY <1>1, <2>0, <2>1, <2>3, <2>4 DEF From, Server!Never, SP!Never
  <2>9. Heard' = Heard
    BY <1>1 DEF Heard
  <2>. QED  BY <1>1, <2>1, <2>7, <2>8, <2>9 DEF Browser!SocketOpens, Sock, From, Heard
<1>. QED  BY <1>2, <1>3

\* The first of a sequence is one of its elements.
LEMMA HeadIn ==
  ASSUME NEW S, NEW s \in Seq(S), s # <<>>
  PROVE  Head(s) \in S
OBVIOUS

\* The frame that arrives is the update GraphPage says the socket hears next.
LEMMA NextIsHeard ==
  ASSUME LiveInv, NEW c \in Socket, OnMessage(c)
  PROVE  c \in Click /\ Browser!OnMessage(c)
<1>. DEFINE n == Head(net[c])
<1>1. /\ UNCHANGED <<page, updates, asked, answer, order, left, joined, peer>>
      /\ Click' = Click /\ peer[c] = "open" /\ net[c] # <<>>
      /\ got' = [got EXCEPT ![c] = Append(got[c], n)]
  BY DEF OnMessage, Server!Deliver, Click
<1>2. /\ SocketOf(c) /\ Len(updates) = pushes /\ pushes \in Nat
      /\ net[c] \in Seq(1..MaxUpdate) /\ got[c] \in Seq(1..MaxUpdate)
      /\ since[c] \in Int
  BY ServerFacts, LivePageAssumption DEF LiveInv, PageInv, SP!Never
<1>3. c \in Click
  BY <1>1, <1>2 DEF SocketOf, Click, Socket, LiveInv, PageInv
<1>4. since[c] # SP!Never /\ joined[c] = since[c]
  BY <1>1, <1>2, ServerFacts DEF SP!FeedOf, SocketOf
<1>5. n = net[c][1] /\ 1 \in 1..Len(net[c]) /\ Len(net[c]) \in Nat /\ Len(got[c]) \in Nat
  BY <1>1, <1>2
<1>6. n = joined[c] + Len(got[c]) + 1 /\ n <= Len(updates)
  <2>1. net[c][1] = since[c] + Len(got[c]) + 1
    BY <1>5, ServerFacts DEF SP!FeedOf
  <2>2. since[c] + Len(got[c]) + Len(net[c]) <= pushes
    BY <1>4, ServerFacts DEF SP!FeedOf
  <2>. QED  BY <1>2, <1>4, <1>5, <2>1, <2>2
<1>. HIDE DEF n
<1>7. Sock[c] = "open" /\ From[c] = joined[c] /\ Heard[c] = Len(got[c])
  BY <1>1, <1>3, <1>4 DEF Sock, From, Heard, SocketState, Server!Never, SP!Never
<1>8. n = From[c] + Heard[c] + 1
  BY <1>6, <1>7
<1>9. Heard' = [Heard EXCEPT ![c] = Heard[c] + 1]
  <2>1. Len(got'[c]) = Len(got[c]) + 1 /\ \A d \in Click : d # c => got'[d] = got[d]
    <3>1. got \in [Socket -> Seq(1..MaxUpdate)]
      BY ServerFacts
    <3>2. n \in 1..MaxUpdate
      BY <1>1, <1>2, HeadIn DEF n
    <3>3. Len(Append(got[c], n)) = Len(got[c]) + 1
      BY <1>2, <1>5, <3>2
    <3>4. got'[c] = Append(got[c], n) /\ \A d \in Socket : d # c => got'[d] = got[d]
      BY <1>1, <3>1
    <3>5. Click \subseteq Socket
      BY LivePageAssumption DEF Click, Socket, LiveInv, PageInv
    <3>. QED  BY <3>3, <3>4, <3>5
  <2>2. Heard' = [d \in Click |-> IF d = c THEN Heard[c] + 1 ELSE Heard[d]]
    BY <1>1, <1>3, <2>1 DEF Heard
  <2>3. Heard = [d \in Click |-> Heard[d]]
    BY DEF Heard
  <2>. QED  BY <2>2, <2>3
<1>10. UNCHANGED <<Sock, From>>
  BY <1>1 DEF Sock, From, SocketState, Server!Never
<1>11. IF Browser!Matches(c, updates[n])
         THEN \E found \in BOOLEAN : chart' = Browser!DrawUpdate(chart, c, n, found)
         ELSE chart' = chart
  BY DEF OnMessage, n
<1>. QED  BY <1>1, <1>3, <1>6, <1>7, <1>8, <1>9, <1>10, <1>11
          DEF Browser!OnMessage, Sock, From, Heard

\* A click is the same click for GraphPage, which counts its socket as one more.
LEMMA ClickIsClick ==
  ASSUME LiveInv, submit_query \/ submit_query_add
  PROVE  Browser!submit_query \/ Browser!submit_query_add
<1>. PICK new \in Socket : new = Len(asked) + 1
  BY LivePageAssumption
  DEF LiveInv, PageInv, submit_query, submit_query_add, Clicked, Socket
<1>0. /\ Len(asked) \in Nat /\ Len(updates) = pushes
      /\ asked \in Seq(Browser!Question) /\ Click \subseteq Socket
  BY LivePageAssumption DEF LiveInv, PageInv, Socket, Click
<1>1. PICK adding \in BOOLEAN :
        /\ Clicked(adding)
        /\ IF ~adding /\ page \in Browser!Streaming
             THEN Server!Connect(new)
             ELSE UNCHANGED <<peer, got>>
        /\ adding => submit_query_add
        /\ ~adding => submit_query
  BY DEF submit_query, submit_query_add
<1>2. PICK f \in Filter, k \in Browser!LinesOf(page) :
        asked' = Append(asked, [adding |-> adding, filter |-> f, lines |-> k])
  BY <1>1 DEF Clicked
<1>. DEFINE q == [adding |-> adding, filter |-> f, lines |-> k]
<1>3. Click' = 1..new /\ new \notin Click /\ Click = 1..Len(asked)
  <2>1. k \in {1, 2} /\ f \in Key \cup {"ALL"}
    BY LivePageAssumption DEF Browser!LinesOf
  <2>2. q \in Browser!Question
    BY <2>1 DEF Browser!Question, Browser!All
  <2>. HIDE DEF q
  <2>3. Len(Append(asked, q)) = Len(asked) + 1
    BY <1>0, <2>2
  <2>. QED  BY <1>0, <1>2, <2>3 DEF Click, q
<1>4. UNCHANGED joined /\ UNCHANGED got
  BY <1>1 DEF Clicked, Server!Connect
<1>5. /\ \A c \in Click : peer'[c] = peer[c]
      /\ peer'[new] = IF ~adding /\ page \in Browser!Streaming THEN "open" ELSE "absent"
  <2>1. SocketOf(new) /\ peer \in [Socket -> {"absent", "open", "left", "vanished"}]
    BY <1>0, ServerFacts DEF LiveInv, PageInv
  <2>2. peer[new] = "absent"
    BY <1>0, <2>1 DEF SocketOf
  <2>. QED  BY <1>0, <1>1, <1>3, <2>1, <2>2 DEF Server!Connect
<1>6. joined[new] = SP!Never /\ got[new] = <<>>
  <2>1. SocketOf(new) /\ new > Len(asked)
    BY <1>0 DEF LiveInv, PageInv
  <2>2. stream[new] = "none"
    BY <1>0, <2>1, ServerFacts DEF SocketOf
  <2>. QED  BY <1>0, <2>1, <2>2, ServerFacts DEF SocketOf, SP!FeedOf
<1>. PICK sock \in {"connecting", "none"} :
       sock = IF ~adding /\ page \in Browser!Streaming THEN "connecting" ELSE "none"
  OBVIOUS
<1>7. \A c \in Click : SocketState(c)' = SocketState(c)
  BY <1>4, <1>5 DEF SocketState
<1>8. SocketState(new)' = sock
  <2>1. CASE ~adding /\ page \in Browser!Streaming
    BY <1>4, <1>5, <1>6, <2>1 DEF SocketState, Server!Never, SP!Never
  <2>2. CASE ~(~adding /\ page \in Browser!Streaming)
    BY <1>5, <2>2 DEF SocketState
  <2>. QED  BY <2>1, <2>2
<1>9. Sock' = Append(Sock, sock)
  <2>1. Sock' = [c \in 1..new |-> IF c \in Click THEN Sock[c] ELSE sock]
    BY <1>0, <1>3, <1>7, <1>8 DEF Sock
  <2>2. Sock = [c \in 1..Len(asked) |-> Sock[c]]
    BY <1>3 DEF Sock
  <2>. QED  BY <1>0, <1>3, <2>1, <2>2
<1>10. From' = Append(From, 0)
  BY <1>0, <1>3, <1>4, <1>6 DEF From, Server!Never, SP!Never
<1>11. Heard' = Append(Heard, 0)
  BY <1>0, <1>3, <1>4, <1>6 DEF Heard
<1>12. \E g \in Key \cup {Browser!All}, l \in Browser!LinesOf(page) :
         asked' = Append(asked, [adding |-> adding, filter |-> g, lines |-> l])
  <2>1. f \in Key \cup {Browser!All}
    BY LivePageAssumption DEF Browser!All
  <2>. QED  BY <1>2, <2>1
<1>13. /\ ~left /\ Len(asked) < MaxClick /\ Len(updates) + Len(asked) < MaxInput
       /\ answer' = Append(answer, "waiting")
       /\ UNCHANGED <<page, updates, chart, order, left>>
  BY <1>0, <1>1, ServerFacts, LivePageAssumption DEF Clicked
<1>14. Browser!Clicked(adding, sock)
  BY <1>9, <1>10, <1>11, <1>12, <1>13 DEF Browser!Clicked, Sock, From, Heard
<1>15. CASE adding
  <2>1. adding = TRUE /\ sock = "none"
    BY <1>15
  <2>. QED  BY <1>14, <2>1 DEF Browser!submit_query_add
<1>16. CASE ~adding
  <2>1. adding = FALSE /\ sock = IF page \in Browser!Streaming THEN "connecting" ELSE "none"
    BY <1>16
  <2>. QED  BY <1>14, <2>1 DEF Browser!submit_query, Browser!Clicked
<1>. QED  BY <1>15, <1>16

\* Leaving the page closes every socket it has opened.
LEMMA UnloadIsUnload ==
  ASSUME LiveInv, Unload
  PROVE  Browser!Unload
<1>1. /\ UNCHANGED <<page, updates, asked, answer, chart, order, joined, got>>
      /\ ~left /\ left' = TRUE /\ Click' = Click
      /\ peer' = [c \in Socket |-> IF peer[c] = "open" THEN "left" ELSE peer[c]]
  BY DEF Unload, Click
<1>2. Click \subseteq Socket
  BY LivePageAssumption DEF Click, Socket, LiveInv, PageInv
<1>3. ASSUME NEW c \in Click
      PROVE  SocketState(c)' = IF Sock[c] = "none" THEN "none" ELSE "closed"
  <2>1. peer[c] \in {"absent", "open", "left", "vanished"}
    BY <1>2, ServerFacts
  <2>2. Sock[c] = SocketState(c)
    BY DEF Sock
  <2>3. peer'[c] = IF peer[c] = "open" THEN "left" ELSE peer[c]
    BY <1>1, <1>2
  <2>. QED  BY <2>1, <2>2, <2>3 DEF SocketState
<1>4. Sock' = [c \in Click |-> IF Sock[c] = "none" THEN "none" ELSE "closed"]
  BY <1>1, <1>3 DEF Sock
<1>5. UNCHANGED <<From, Heard>>
  BY <1>1 DEF From, Heard, Server!Never
<1>. QED  BY <1>1, <1>4, <1>5 DEF Browser!Unload, Sock, From, Heard, Browser!Click, Click

\* Every step of LivePage is a step of GraphPage, or one the page does not notice.
LEMMA PageStep ==
  ASSUME LiveInv, [Next]_vars
  PROVE  Browser!Next \/ UNCHANGED Browser!vars
<1>0. Click \subseteq Socket /\ Browser!Click = Click
  BY LivePageAssumption DEF Click, Socket, LiveInv, PageInv, Browser!Click
\* Most steps leave the page alone.
<1>1. ASSUME UNCHANGED <<pageVars, joined, peer, got>>  PROVE UNCHANGED Browser!vars
  <2>1. UNCHANGED <<Sock, From, Heard>>
    BY <1>1, ToldTheSame DEF pageVars
  <2>. QED  BY <1>1, <2>1 DEF Browser!vars, Sock, From, Heard, pageVars
<1>2. CASE submit_query \/ submit_query_add
  BY <1>2, ClickIsClick DEF Browser!Next
<1>3. ASSUME NEW c \in Click, Answer(c) \/ AnswerFails(c)  PROVE Browser!Next
  <2>1. UNCHANGED <<Sock, From, Heard>>
    BY <1>3, ToldTheSame DEF Answer, AnswerFails
  <2>2. Browser!Answer(c) \/ Browser!AnswerFails(c)
    BY <1>3, <2>1 DEF Answer, AnswerFails, Browser!Answer, Browser!AnswerFails, Sock,
                      From, Heard
  <2>. QED  BY <1>0, <2>2 DEF Browser!Next
<1>4. CASE Unload
  BY <1>4, UnloadIsUnload DEF Browser!Next
<1>5. ASSUME NEW c \in Socket, Open(c) \/ OnMessage(c)
      PROVE  Browser!Next \/ UNCHANGED Browser!vars
  BY <1>0, <1>5, SocketIsOpen, NextIsHeard DEF Browser!Next
<1>6. ASSUME NEW c \in Socket, HandlerRuns(c) \/ ConnectionLost(c)
      PROVE  Browser!Next \/ UNCHANGED Browser!vars
  <2>1. /\ UNCHANGED <<pageVars, joined, got>>
        /\ \/ UNCHANGED peer
           \/ peer[c] = "open" /\ \E how \in {"left", "vanished"} :
                                     peer' = [peer EXCEPT ![c] = how]
           \/ peer' = [peer EXCEPT ![c] = IF peer[c] = "open" THEN "left" ELSE peer[c]]
    BY <1>6 DEF HandlerRuns, ConnectionLost, Server!RefuseHandshake,
                Server!AbortHandshake, Server!NoticePeerGone, Server!OnConnectionClose,
                Server!DropConnection, Server!PeerGoes
  <2>2. CASE peer[c] = "open" /\ ~UNCHANGED peer
    <3>1. PICK how \in {"left", "vanished"} : peer' = [peer EXCEPT ![c] = how]
      BY <2>1, <2>2
    <3>2. c \in Click
      BY <2>2, LivePageAssumption DEF SocketOf, Click, Socket, LiveInv, PageInv
    <3>3. Browser!SocketDrops(c)
      BY <2>1, <2>2, <3>1, <3>2, SocketGoes
    <3>. QED  BY <1>0, <3>2, <3>3 DEF Browser!Next
  <2>3. CASE UNCHANGED peer
    BY <1>1, <2>1, <2>3
  <2>4. CASE peer[c] # "open"
    <3>1. UNCHANGED peer
      BY <2>1, <2>4, ServerFacts
    <3>. QED  BY <1>1, <2>1, <3>1
  <2>. QED  BY <2>2, <2>3, <2>4
<1>7. CASE PostBegins
  <2>1. UNCHANGED <<Sock, From, Heard>>
    BY <1>7, ToldTheSame DEF PostBegins, Server!PostBegins
  <2>2. Browser!Broadcast
    <3>1. Len(updates) < MaxUpdate /\ Len(updates) + Len(asked) < MaxInput
      BY <1>7, ServerFacts, LivePageAssumption
      DEF PostBegins, Server!PostBegins, LiveInv, PageInv
    <3>. QED  BY <1>7, <2>1, <3>1 DEF PostBegins, Browser!Broadcast, Sock, From, Heard
  <2>. QED  BY <2>2 DEF Browser!Next
<1>8. CASE PostGoesOn \/ Restart
  BY <1>1, <1>8 DEF PostGoesOn, Restart, Server!PostToNext, Server!PostEnds,
                    Server!Restart
<1>9. CASE UNCHANGED vars
  BY <1>1, <1>9 DEF vars
<1>. QED  BY <1>2, <1>3, <1>4, <1>5, <1>6, <1>7, <1>8, <1>9 DEF Next

\* A page starts as GraphPage says.
LEMMA PageInit == Init => Browser!Init
<1>. SUFFICES ASSUME Init PROVE Browser!Init
  OBVIOUS
<1>1. Click = {}
  BY DEF Init, Click
<1>2. Sock = <<>> /\ From = <<>> /\ Heard = <<>>
  BY <1>1 DEF Sock, From, Heard
<1>. QED  BY <1>2 DEF Init, Browser!Init, Sock, From, Heard

\* Whatever restarts, lost connections and unfinished broadcasts do, the page in front of
\* the server is the page of GraphPage: for any page, filters, updates and bounds.
\* (tornadoserver.py:331-343 against the onmessage of each page)
THEOREM PageCorrect == Spec => PageSpec
  BY LiveInvariant, PageStep, PageInit, PTL DEF Spec, PageSpec, Browser!Spec

-----------------------------------------------------------------------------
(* What was proved of the page holds end to end                            *)

\* The handlers of the page are those of the proofs about GraphPage.
LEMMA SameHandlers ==
  ASSUME NEW c
  PROVE  /\ Browser!Answer(c) => BP!Answer(c)
         /\ Browser!AnswerFails(c) => BP!AnswerFails(c)
         /\ Browser!OnMessage(c) => BP!OnMessage(c)
         /\ Browser!SocketOpens(c) => BP!SocketOpens(c)
         /\ Browser!SocketDrops(c) => BP!SocketDrops(c)
<1>. USE DEF Sock, From, Heard
<1>1. Browser!Answer(c) => BP!Answer(c)
  BY DEF Browser!Answer, BP!Answer, Browser!AddedTo, BP!AddedTo, Browser!NewGraph,
         BP!NewGraph, Browser!LinesFrom, BP!LinesFrom, Browser!Line, BP!Line
<1>2. Browser!AnswerFails(c) => BP!AnswerFails(c)
  BY DEF Browser!AnswerFails, BP!AnswerFails
<1>3. Browser!OnMessage(c) => BP!OnMessage(c)
  BY DEF Browser!OnMessage, BP!OnMessage, Browser!Matches, BP!Matches, Browser!NoKey,
         BP!NoKey, Browser!All, BP!All, Browser!DrawUpdate, BP!DrawUpdate,
         Browser!DrawOn, BP!DrawOn
<1>4. Browser!SocketOpens(c) => BP!SocketOpens(c)
  BY DEF Browser!SocketOpens, BP!SocketOpens
<1>5. Browser!SocketDrops(c) => BP!SocketDrops(c)
  BY DEF Browser!SocketDrops, BP!SocketDrops
<1>. QED  BY <1>1, <1>2, <1>3, <1>4, <1>5

\* So is every step of the page.
LEMMA SamePage == [Browser!Next]_(Browser!vars) => [BP!Next]_(BP!vars)
<1>1. Browser!Broadcast => BP!Broadcast
  BY DEF Browser!Broadcast, BP!Broadcast, Browser!Update, BP!Update, Browser!Streaming,
         BP!Streaming, Browser!Other, BP!Other, Browser!NoKey, BP!NoKey, Sock, From, Heard
<1>2. ASSUME NEW a, NEW s \in {"connecting", "none"}
      PROVE  Browser!Clicked(a, s) => BP!Clicked(a, s)
  BY DEF Browser!Clicked, BP!Clicked, Browser!All, BP!All, Browser!LinesOf, BP!LinesOf,
         Sock, From, Heard
<1>3. Browser!submit_query => BP!submit_query
  BY DEF Browser!submit_query, BP!submit_query, Browser!Streaming, BP!Streaming,
         Browser!Clicked, BP!Clicked, Browser!All, BP!All, Browser!LinesOf, BP!LinesOf,
         Sock, From, Heard
<1>4. Browser!submit_query_add => BP!submit_query_add
  BY <1>2 DEF Browser!submit_query_add, BP!submit_query_add
<1>5. Browser!Unload => BP!Unload
  BY DEF Browser!Unload, BP!Unload, Browser!Click, BP!Click, Sock, From, Heard
<1>6. Browser!Next => BP!Next
  BY <1>1, <1>3, <1>4, <1>5, SameHandlers DEF Browser!Next, BP!Next, Browser!Click, BP!Click
<1>7. UNCHANGED Browser!vars => UNCHANGED BP!vars
  BY DEF Browser!vars, BP!vars, Sock, From, Heard
<1>. QED  BY <1>6, <1>7

\* A run of LivePage is a run of the page the proofs about GraphPage are about.
LEMMA PageOfProofs == Spec => BP!Spec
<1>1. Browser!Init => BP!Init
  BY DEF Browser!Init, BP!Init, Browser!Line, BP!Line, Sock, From, Heard
<1>. QED  BY <1>1, PageCorrect, SamePage, PTL DEF PageSpec, Browser!Spec, BP!Spec

\* The page's assumption on its constants.
LEMMA PageBounds == BP!PageAssumption
  BY LivePageAssumption
  DEF BP!PageAssumption, BP!Pages, BP!Streaming, BP!All, BP!NoKey

\* With the server, the network and restarts in between, the chart still shows one graph.
\* (dec.js:304-369, tst.js:223-310, mrg.js:238-303, sql.js:267-317, ver.js:207-243)
THEOREM LiveGraphCorrect == Spec => []Browser!ChartIsOneGraph
<1>1. BP!TypeOK => Browser!TypeOK
  BY Zenon DEF BP!TypeOK, Browser!TypeOK, BP!Update, Browser!Update, BP!Streaming,
         Browser!Streaming, BP!Other, Browser!Other, BP!NoKey, Browser!NoKey, BP!Question,
         Browser!Question, BP!All, Browser!All, BP!Click, Browser!Click, BP!Series,
         Browser!Series, BP!Item, Browser!Item, Sock, From, Heard
<1>2. BP!ChartIsOneGraph => Browser!ChartIsOneGraph
  BY <1>1, Zenon DEF BP!ChartIsOneGraph, Browser!ChartIsOneGraph, BP!IsNew, Browser!IsNew,
              BP!GraphOf, Browser!GraphOf, BP!LinesFrom, Browser!LinesFrom, BP!Line,
              Browser!Line, BP!FlattenSeq, Browser!FlattenSeq
<1>. QED  BY <1>2, PageBounds, PageOfProofs, BP!GraphCorrect, PTL

\* From the posted update to the chart: the first line of the one graph a user asked for
\* shows the feed as it was posted, from the first update drawn to the last, each one the
\* filter lets through, once and in order, whichever sockets are lost and however often
\* the server restarts.  (tornadoserver.py:322-343, streaming.js:51-70, onmessage)
THEOREM LiveStreamCorrect == Spec => []Browser!StreamIsFaithful
<1>1. BP!StreamIsFaithful => Browser!StreamIsFaithful
  BY DEF BP!StreamIsFaithful, Browser!StreamIsFaithful, BP!Graphs, Browser!Graphs,
         BP!Click, Browser!Click, BP!Streams, Browser!Streams, BP!IsAbout,
         Browser!IsAbout, BP!All, Browser!All
<1>. QED  BY <1>1, PageBounds, PageOfProofs, BP!StreamCorrect, PTL

\* The server behind the page keeps ALL_SOCKETS exact, and its broadcasts skip no socket
\* of the page, also when the page closes all of them at once.
\* (tornadoserver.py:268-285, :331-343)
THEOREM LiveServerCorrect ==
  Spec => [](Server!RegistryExact /\ Server!BroadcastReachesEveryone)
<1>1. LiveInv => Server!RegistryExact /\ Server!BroadcastReachesEveryone
  <2>. SUFFICES ASSUME LiveInv
               PROVE  Server!RegistryExact /\ Server!BroadcastReachesEveryone
    OBVIOUS
  <2>1. SP!RegistryInv /\ SP!BroadcastReachesEveryone
    BY DEF LiveInv, SP!FeedInv, SP!WalkInv
  <2>2. /\ ALL_SOCKETS \in Seq(Socket) /\ SP!RegisteredOnce
        /\ \A c \in Socket : SP!LifeCycle(c)
    BY <2>1 DEF SP!RegistryInv, SP!Typing, SP!TypeOK
  <2>3. \A i \in 1..Len(ALL_SOCKETS) : /\ ALL_SOCKETS[i] \in Socket
                                       /\ SP!Registered(ALL_SOCKETS[i])
    BY <2>2 DEF SP!Registered
  <2>4. Server!RegisteredIsLive
    BY <2>2, <2>3 DEF SP!LifeCycle, Server!RegisteredIsLive
  <2>5. Server!LiveIsRegistered
    BY <2>2 DEF SP!LifeCycle, Server!LiveIsRegistered, SP!Registered, Server!Registered
  <2>6. Server!RegisteredOnce
    BY <2>2 DEF SP!RegisteredOnce, Server!RegisteredOnce, SP!IsInjective,
                Server!IsInjective
  <2>7. Server!BroadcastReachesEveryone
    BY <2>1 DEF SP!BroadcastReachesEveryone, Server!BroadcastReachesEveryone, SP!Passed,
                Server!Passed, SP!Reached, Server!Reached, SP!Contains, Server!Contains
  <2>. QED  BY <2>4, <2>5, <2>6, <2>7 DEF Server!RegistryExact
<1>. QED  BY <1>1, LiveInvariant, PTL
=============================================================================
