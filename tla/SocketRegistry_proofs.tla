------------------------ MODULE SocketRegistry_proofs ------------------------
(***************************************************************************)
(* Proofs about SocketRegistry: for any set of sockets and any bounds, its *)
(* variables keep their types, ALL_SOCKETS is exact, no broadcast skips a  *)
(* client, and each client receives what LiveFeed promises.                *)
(***************************************************************************)
EXTENDS SocketRegistry, TLAPS

-----------------------------------------------------------------------------
(* list.remove                                                             *)

\* Removing an element of a list of handlers leaves a list of handlers.
LEMMA ListRemoveType ==
  ASSUME NEW S, NEW list \in Seq(S), NEW x, \E i \in 1..Len(list) : list[i] = x
  PROVE  /\ ListRemove(list, x) \in Seq(S)
         /\ Len(ListRemove(list, x)) = Len(list) - 1
<1>. DEFINE first == CHOOSE i \in 1..Len(list) :
                       list[i] = x /\ \A j \in 1..(i - 1) : list[j] # x
            n == Len(list) - 1
            r == [j \in 1..n |-> IF j < first THEN list[j] ELSE list[j + 1]]
<1>1. n \in Nat
  OBVIOUS
<1>2. \A j \in 1..n : list[j] \in S /\ list[j + 1] \in S
  OBVIOUS
<1>3. r \in [1..n -> S]
  <2>. HIDE DEF first
  <2>. QED  BY <1>2
<1>4. r \in Seq(S) /\ Len(r) = n
  <2>. HIDE DEF r
  <2>. QED  BY <1>1, <1>3
<1>. QED  BY <1>4 DEF ListRemove

\* In a list without duplicates, removing x takes out x, keeps everything else,
\* and introduces no duplicate.
LEMMA ListRemoveOnce ==
  ASSUME NEW S, NEW list \in Seq(S), NEW x,
         IsInjective(list), \E i \in 1..Len(list) : list[i] = x
  PROVE  LET r == ListRemove(list, x) IN
         /\ IsInjective(r)
         /\ \A k \in 1..Len(r) : r[k] # x /\ \E j \in 1..Len(list) : r[k] = list[j]
         /\ \A j \in 1..Len(list) : list[j] # x => \E k \in 1..Len(r) : r[k] = list[j]
<1>. DEFINE P(i) == list[i] = x /\ \A j \in 1..(i - 1) : list[j] # x
            first == CHOOSE i \in 1..Len(list) : P(i)
            n == Len(list) - 1
            r == [j \in 1..n |-> IF j < first THEN list[j] ELSE list[j + 1]]
<1>1. PICK at \in 1..Len(list) : list[at] = x
  OBVIOUS
<1>2. \A i, j \in 1..Len(list) : list[i] = list[j] => i = j
  BY DEF IsInjective
<1>3. P(at)
  BY <1>1, <1>2
<1>4. first = at
  <2>1. first \in 1..Len(list) /\ P(first)
    <3>. HIDE DEF P
    <3>. QED  BY <1>3
  <2>. QED  BY <1>1, <1>2, <2>1
<1>5. ListRemove(list, x) = r
  BY DEF ListRemove
<1>6. Len(r) = n /\ DOMAIN r = 1..n
  BY <1>5, ListRemoveType
<1>7. \A k \in 1..n : r[k] = IF k < at THEN list[k] ELSE list[k + 1]
  BY <1>4
<1>. HIDE DEF r, first, P
<1>8. IsInjective(r)
  <2>. SUFFICES ASSUME NEW a \in 1..n, NEW b \in 1..n, r[a] = r[b]
               PROVE  a = b
    BY <1>6 DEF IsInjective
  <2>. QED  BY <1>2, <1>7
<1>9. \A k \in 1..n : r[k] # x /\ \E j \in 1..Len(list) : r[k] = list[j]
  <2>. TAKE k \in 1..n
  <2>1. CASE k < at
    BY <1>1, <1>2, <1>7, <2>1
  <2>2. CASE ~(k < at)
    BY <1>1, <1>2, <1>7, <2>2
  <2>. QED  BY <2>1, <2>2
<1>10. \A j \in 1..Len(list) : list[j] # x => \E k \in 1..n : r[k] = list[j]
  <2>. SUFFICES ASSUME NEW j \in 1..Len(list), list[j] # x
               PROVE  \E k \in 1..n : r[k] = list[j]
    OBVIOUS
  <2>1. CASE j < at
    <3>1. j \in 1..n /\ r[j] = list[j]
      BY <1>1, <1>7, <2>1
    <3>. QED  BY <3>1
  <2>2. CASE j > at
    <3>1. j - 1 \in 1..n /\ r[j - 1] = list[j]
      BY <1>1, <1>7, <2>2
    <3>. QED  BY <3>1
  <2>. QED  BY <1>1, <2>1, <2>2
<1>. QED  BY <1>5, <1>6, <1>8, <1>9, <1>10

-----------------------------------------------------------------------------
(* Types                                                                   *)

\* TypeOK is not inductive by itself: the frame the loop writes is the number of
\* an update, so there must have been one.
Typing ==
  /\ TypeOK
  /\ post.running => pushes > 0

\* The initial state satisfies Typing.
LEMMA TypingInit == Init => Typing
  BY BoundsAssumption DEF Init, Typing, TypeOK, NoPost, Never

\* Every step keeps Typing.
LEMMA TypingStep == Typing /\ [Next]_vars => Typing'
<1>. USE BoundsAssumption
<1>. SUFFICES ASSUME Typing, [Next]_vars
             PROVE  Typing'
  OBVIOUS
<1>. USE DEF Typing, TypeOK
<1>1. ASSUME NEW s \in Socket, Connect(s) PROVE Typing'
  BY <1>1 DEF Connect
<1>2. ASSUME NEW s \in Socket, PeerGoes(s) PROVE Typing'
  BY <1>2 DEF PeerGoes
<1>3. ASSUME NEW s \in Socket, Deliver(s) PROVE Typing'
  BY <1>3 DEF Deliver
<1>4. ASSUME NEW s \in Socket, RefuseHandshake(s) PROVE Typing'
  <2>1. peer' \in [Socket -> {"absent", "open", "left", "vanished"}]
    BY <1>4 DEF RefuseHandshake
  <2>2. /\ stream' \in [Socket -> {"none", "request", "open", "closed"}]
        /\ callback' \in [Socket -> {"unset", "set", "scheduled", "ran"}]
    <3>1. CASE CloseStream(s)
      BY <3>1 DEF CloseStream
    <3>2. CASE stream' = [stream EXCEPT ![s] = "closed"] /\ UNCHANGED callback
      BY <3>2
    <3>. QED  BY <1>4, <3>1, <3>2 DEF RefuseHandshake
  <2>. QED  BY <1>4, <2>1, <2>2 DEF RefuseHandshake
<1>5. ASSUME NEW s \in Socket, AbortHandshake(s) PROVE Typing'
  BY <1>5 DEF AbortHandshake, CloseStream
<1>6. ASSUME NEW s \in Socket, Open(s) PROVE Typing'
  <2>1. /\ stream' \in [Socket -> {"none", "request", "open", "closed"}]
        /\ callback' \in [Socket -> {"unset", "set", "scheduled", "ran"}]
    <3>1. CASE CloseStream(s)
      BY <3>1 DEF CloseStream
    <3>2. CASE /\ stream' = [stream EXCEPT ![s] = "open"]
               /\ callback' = [callback EXCEPT ![s] = "set"]
      BY <3>2
    <3>. QED  BY <1>6, <3>1, <3>2 DEF Open
  <2>2. /\ ALL_SOCKETS' \in Seq(Socket)
        /\ wanted_feeds' \in [Socket -> SUBSET Feed]
    BY <1>6 DEF Open
  <2>. QED  BY <1>6, <2>1, <2>2 DEF Open
<1>7. ASSUME NEW s \in Socket, NoticePeerGone(s) PROVE Typing'
  BY <1>7 DEF NoticePeerGone, CloseStream
<1>8. ASSUME NEW s \in Socket, OnConnectionClose(s) PROVE Typing'
  <2>1. ALL_SOCKETS' \in Seq(Socket)
    BY <1>8, ListRemoveType DEF OnConnectionClose, DropConnection, Registered
  <2>. QED  BY <1>8, <2>1 DEF OnConnectionClose, DropConnection
<1>9. ASSUME NEW s \in Socket, OnMessage(s) PROVE Typing'
  BY <1>9 DEF OnMessage
<1>10. ASSUME PostBegins PROVE Typing'
  BY <1>10 DEF PostBegins
<1>11. ASSUME PostToNext PROVE Typing'
  <2>. DEFINE s == ALL_SOCKETS[post.i]
  <2>1. s \in Socket /\ \E i \in 1..Len(ALL_SOCKETS) : ALL_SOCKETS[i] = s
    BY <1>11 DEF PostToNext
  <2>2. post' \in [running : BOOLEAN, i : Nat \ {0}, targets : Seq(Socket)]
    BY <1>11 DEF PostToNext
  <2>3. CASE ws[s] /\ WriteFrame(s) /\ UNCHANGED ALL_SOCKETS
    <3>1. CASE stream[s] = "open" /\ net' = [net EXCEPT ![s] = Append(@, pushes)]
               /\ UNCHANGED <<stream, callback>>
      <4>1. net' \in [Socket -> Seq(1..MaxPush)]
        <5>1. pushes \in 1..MaxPush
          BY <1>11 DEF PostToNext
        <5>2. Append(net[s], pushes) \in Seq(1..MaxPush)
          BY <2>1, <5>1
        <5>. HIDE DEF s
        <5>. QED  BY <3>1, <5>2
      <4>. QED  BY <1>11, <2>2, <2>3, <3>1, <4>1 DEF PostToNext
    <3>2. CASE CloseStream(s) /\ UNCHANGED net
      BY <1>11, <2>1, <2>2, <2>3, <3>2 DEF PostToNext, CloseStream
    <3>3. CASE UNCHANGED <<stream, callback, net>>
      BY <1>11, <2>2, <2>3, <3>3 DEF PostToNext
    <3>. QED  BY <2>3, <3>1, <3>2, <3>3 DEF WriteFrame
  <2>4. CASE ~ws[s]
    <3>1. ALL_SOCKETS' = ListRemove(ALL_SOCKETS, s) /\ UNCHANGED <<stream, callback, net>>
      <4>. HIDE DEF Typing, TypeOK
      <4>. QED  BY <1>11, <2>4 DEF PostToNext
    <3>2. ALL_SOCKETS' \in Seq(Socket)
      BY <2>1, <3>1, ListRemoveType
    <3>. QED  BY <1>11, <2>2, <3>1, <3>2 DEF PostToNext
  <2>5. \/ ws[s] /\ WriteFrame(s) /\ UNCHANGED ALL_SOCKETS
        \/ ~ws[s]
    <3>. HIDE DEF Typing, TypeOK
    <3>. QED  BY <1>11 DEF PostToNext
  <2>. QED  BY <2>3, <2>4, <2>5
<1>12. ASSUME PostEnds PROVE Typing'
  BY <1>12 DEF PostEnds, NoPost
<1>13. ASSUME Restart PROVE Typing'
  BY <1>13 DEF Restart, NoPost
<1>14. CASE UNCHANGED vars
  BY <1>14 DEF vars
<1>. HIDE DEF Typing, TypeOK
<1>. QED  BY <1>1, <1>2, <1>3, <1>4, <1>5, <1>6, <1>7, <1>8, <1>9, <1>10,
            <1>11, <1>12, <1>13, <1>14 DEF Next

\* Typing holds in every reachable state.
LEMMA TypingInvariant == Spec => []Typing
  BY TypingInit, TypingStep, PTL DEF Spec

\* The variables keep their types, for any sockets, feeds and bounds.
THEOREM TypeCorrect == Spec => []TypeOK
<1>1. Typing => TypeOK
  BY DEF Typing
<1>. QED  BY <1>1, TypingInvariant, PTL

-----------------------------------------------------------------------------
(* ALL_SOCKETS is exact                                                    *)

\* What makes RegistryExact inductive: where the handler of a registered socket
\* can be in its life, and that a stream closes only on a browser that has gone.
LifeCycle(s) ==
  /\ stream[s] # "none" => peer[s] # "absent"
  /\ Registered(s) =>
       /\ ws[s]
       /\ \/ stream[s] = "open" /\ callback[s] = "set"
          \/ stream[s] = "closed" /\ callback[s] = "scheduled" /\ peer[s] # "open"
  /\ stream[s] = "open" => Registered(s)

RegistryInv ==
  /\ Typing
  /\ RegisteredOnce
  /\ \A s \in Socket : LifeCycle(s)

\* Handlers other than s stay in the list or out of it when list.remove(s) runs.
LEMMA RemoveSocket ==
  ASSUME ALL_SOCKETS \in Seq(Socket), RegisteredOnce, NEW s \in Socket, Registered(s),
         ALL_SOCKETS' = ListRemove(ALL_SOCKETS, s)
  PROVE  /\ RegisteredOnce'
         /\ \A t \in Socket : Registered(t)' <=> Registered(t) /\ t # s
<1>. USE DEF RegisteredOnce, Registered
<1>1. \E i \in 1..Len(ALL_SOCKETS) : ALL_SOCKETS[i] = s
  OBVIOUS
<1>2. IsInjective(ListRemove(ALL_SOCKETS, s))
  BY <1>1, ListRemoveOnce
<1>3. \A k \in 1..Len(ALL_SOCKETS') :
        /\ ALL_SOCKETS'[k] # s
        /\ \E j \in 1..Len(ALL_SOCKETS) : ALL_SOCKETS'[k] = ALL_SOCKETS[j]
  BY <1>1, ListRemoveOnce
<1>4. \A j \in 1..Len(ALL_SOCKETS) :
        ALL_SOCKETS[j] # s =>
          \E k \in 1..Len(ALL_SOCKETS') : ALL_SOCKETS'[k] = ALL_SOCKETS[j]
  BY <1>1, ListRemoveOnce
<1>5. RegisteredOnce'
  BY <1>2
<1>6. \A t \in Socket : Registered(t)' <=> Registered(t) /\ t # s
  <2>. TAKE t \in Socket
  <2>1. Registered(t)' => Registered(t) /\ t # s
    BY <1>3
  <2>2. Registered(t) /\ t # s => Registered(t)'
    BY <1>4
  <2>. QED  BY <2>1, <2>2
<1>. QED  BY <1>5, <1>6

\* open() of a handler that is not in the list adds it, once.
LEMMA AppendSocket ==
  ASSUME ALL_SOCKETS \in Seq(Socket), RegisteredOnce, NEW s \in Socket, ~Registered(s),
         ALL_SOCKETS' = Append(ALL_SOCKETS, s)
  PROVE  /\ RegisteredOnce'
         /\ \A t \in Socket : Registered(t)' <=> Registered(t) \/ t = s
<1>. DEFINE n == Len(ALL_SOCKETS)
<1>1. n \in Nat /\ Len(ALL_SOCKETS') = n + 1 /\ DOMAIN ALL_SOCKETS' = 1..(n + 1)
  OBVIOUS
<1>2. ALL_SOCKETS'[n + 1] = s /\ \A i \in 1..n : ALL_SOCKETS'[i] = ALL_SOCKETS[i]
  OBVIOUS
<1>3. \A i \in 1..n : ALL_SOCKETS[i] # s
  BY DEF Registered
<1>4. RegisteredOnce'
  <2>. SUFFICES ASSUME NEW a \in 1..(n + 1), NEW b \in 1..(n + 1),
                      ALL_SOCKETS'[a] = ALL_SOCKETS'[b]
               PROVE  a = b
    BY <1>1 DEF RegisteredOnce, IsInjective
  <2>. HIDE DEF n
  <2>1. CASE a \in 1..n /\ b \in 1..n
    BY <1>2, <2>1 DEF RegisteredOnce, IsInjective, n
  <2>2. CASE a = n + 1 \/ b = n + 1
    BY <1>1, <1>2, <1>3, <2>2
  <2>. QED  BY <1>1, <2>1, <2>2
<1>5. \A t \in Socket : Registered(t)' <=> Registered(t) \/ t = s
  BY <1>1, <1>2 DEF Registered
<1>. QED  BY <1>4, <1>5

\* Every step keeps RegistryInv.
LEMMA RegistryStep == RegistryInv /\ [Next]_vars => RegistryInv'
<1>. SUFFICES ASSUME RegistryInv, [Next]_vars
             PROVE  RegisteredOnce' /\ \A t \in Socket : LifeCycle(t)'
  BY TypingStep DEF RegistryInv
<1>. DEFINE Goal == RegisteredOnce' /\ \A t \in Socket : LifeCycle(t)'
<1>0. /\ TypeOK /\ RegisteredOnce
      /\ \A t \in Socket : LifeCycle(t)
      /\ UNCHANGED ALL_SOCKETS => /\ RegisteredOnce'
                                 /\ \A t \in Socket : Registered(t)' <=> Registered(t)
  BY DEF RegistryInv, Typing, RegisteredOnce, Registered
<1>. USE DEF LifeCycle
<1>1. ASSUME NEW s \in Socket, Connect(s) PROVE Goal
  BY <1>0, <1>1 DEF Connect, TypeOK
<1>2. ASSUME NEW s \in Socket, PeerGoes(s) PROVE Goal
  BY <1>0, <1>2 DEF PeerGoes, TypeOK
<1>3. ASSUME NEW s \in Socket, Deliver(s) PROVE Goal
  BY <1>0, <1>3 DEF Deliver
<1>4. ASSUME NEW s \in Socket, RefuseHandshake(s) PROVE Goal
  BY <1>0, <1>4 DEF RefuseHandshake, CloseStream, TypeOK
<1>5. ASSUME NEW s \in Socket, AbortHandshake(s) PROVE Goal
  BY <1>0, <1>5 DEF AbortHandshake, CloseStream, TypeOK
<1>6. ASSUME NEW s \in Socket, Open(s) PROVE Goal
  <2>1. ~Registered(s)
    BY <1>0, <1>6 DEF Open
  <2>2. /\ RegisteredOnce'
        /\ \A t \in Socket : Registered(t)' <=> Registered(t) \/ t = s
    BY <1>0, <1>6, <2>1, AppendSocket DEF Open, TypeOK
  <2>. QED  BY <1>0, <1>6, <2>2 DEF Open, CloseStream, TypeOK
<1>7. ASSUME NEW s \in Socket, NoticePeerGone(s) PROVE Goal
  BY <1>0, <1>7 DEF NoticePeerGone, CloseStream, TypeOK
<1>8. ASSUME NEW s \in Socket, OnConnectionClose(s) PROVE Goal
  <2>1. /\ RegisteredOnce'
        /\ \A t \in Socket : Registered(t)' <=> Registered(t) /\ t # s
    <3>1. CASE Registered(s)
      BY <1>0, <1>8, <3>1, RemoveSocket DEF OnConnectionClose, DropConnection, TypeOK
    <3>2. CASE ~Registered(s)
      BY <1>0, <1>8, <3>2 DEF OnConnectionClose, DropConnection
    <3>. QED  BY <3>1, <3>2
  <2>. QED  BY <1>0, <1>8, <2>1 DEF OnConnectionClose, DropConnection, TypeOK
<1>9. ASSUME NEW s \in Socket, OnMessage(s) PROVE Goal
  BY <1>0, <1>9 DEF OnMessage
<1>10. ASSUME PostBegins PROVE Goal
  BY <1>0, <1>10 DEF PostBegins
<1>11. ASSUME PostToNext PROVE Goal
  <2>. DEFINE s == ALL_SOCKETS[post.i]
  <2>1. s \in Socket /\ Registered(s)
    BY <1>0, <1>11 DEF PostToNext, TypeOK, Registered
  <2>2. WriteFrame(s) /\ UNCHANGED <<ALL_SOCKETS, peer, ws>>
    BY <1>0, <1>11, <2>1 DEF PostToNext
  <2>. HIDE DEF s
  <2>. QED  BY <1>0, <2>1, <2>2 DEF WriteFrame, CloseStream, TypeOK
<1>12. ASSUME PostEnds PROVE Goal
  BY <1>0, <1>12 DEF PostEnds
<1>13. ASSUME Restart PROVE Goal
  BY <1>0, <1>13 DEF Restart, RegisteredOnce, IsInjective, Registered, TypeOK
<1>14. CASE UNCHANGED vars
  BY <1>0, <1>14 DEF vars
<1>. HIDE DEF LifeCycle
<1>. QED  BY <1>1, <1>2, <1>3, <1>4, <1>5, <1>6, <1>7, <1>8, <1>9, <1>10,
            <1>11, <1>12, <1>13, <1>14 DEF Next

\* The initial state satisfies RegistryInv.
LEMMA RegistryInit == Init => RegistryInv
<1>. SUFFICES ASSUME Init PROVE RegisteredOnce /\ \A s \in Socket : LifeCycle(s)
  BY TypingInit DEF RegistryInv
<1>. QED  BY DEF Init, RegisteredOnce, IsInjective, LifeCycle, Registered

\* RegistryInv holds in every reachable state.
LEMMA RegistryInvariant == Spec => []RegistryInv
  BY RegistryInit, RegistryStep, PTL DEF Spec

\* ALL_SOCKETS is exact in every reachable state: no duplicates, no handler without
\* a connection, no open connection left out.
THEOREM RegistryCorrect == Spec => []RegistryExact
<1>1. RegistryInv => RegistryExact
  <2>. SUFFICES ASSUME RegistryInv PROVE RegistryExact
    OBVIOUS
  <2>1. \A i \in 1..Len(ALL_SOCKETS) : /\ ALL_SOCKETS[i] \in Socket
                                       /\ Registered(ALL_SOCKETS[i])
    BY DEF RegistryInv, Typing, TypeOK, Registered
  <2>. QED  BY <2>1 DEF RegistryInv, LifeCycle, RegistryExact, RegisteredIsLive,
                     LiveIsRegistered
<1>. QED  BY <1>1, RegistryInvariant, PTL

\* A handler leaves the list only once its stream is closed, or with the process.
THEOREM NobodyIsDropped == Spec => LeavesOnlyWhenClosed
<1>. DEFINE A == \A s \in Socket : Registered(s) /\ ~Registered(s)' =>
                   stream[s] = "closed" \/ restarts' # restarts
<1>1. RegistryInv /\ RegistryInv' /\ [Next]_vars => [A]_vars
  <2>. SUFFICES ASSUME RegistryInv, Next,
                      NEW s \in Socket, Registered(s), ~Registered(s)'
               PROVE  stream[s] = "closed" \/ restarts' # restarts
    OBVIOUS
  <2>0. /\ TypeOK /\ RegisteredOnce
        /\ \A t \in Socket : LifeCycle(t)
        /\ ALL_SOCKETS' # ALL_SOCKETS
    BY DEF RegistryInv, Typing, Registered
  <2>1. CASE \E t \in Socket : Open(t)
    <3>. PICK t \in Socket : Open(t)
      BY <2>1
    <3>1. ~Registered(t)
      BY <2>0 DEF LifeCycle, Open
    <3>. QED  BY <2>0, <3>1, AppendSocket DEF Open, TypeOK
  <2>2. CASE \E t \in Socket : OnConnectionClose(t)
    <3>. PICK t \in Socket : OnConnectionClose(t)
      BY <2>2
    <3>1. Registered(t) /\ ALL_SOCKETS' = ListRemove(ALL_SOCKETS, t)
      BY <2>0 DEF OnConnectionClose, DropConnection
    <3>2. s = t
      BY <2>0, <3>1, RemoveSocket DEF TypeOK
    <3>. QED  BY <2>0, <3>1, <3>2 DEF LifeCycle, OnConnectionClose, DropConnection
  <2>3. CASE PostToNext
    <3>. DEFINE u == ALL_SOCKETS[post.i]
    <3>1. u \in Socket /\ Registered(u)
      BY <2>0, <2>3, SMTT(40) DEF PostToNext, TypeOK, Registered
    <3>. QED  BY <2>0, <2>3, <3>1 DEF PostToNext, LifeCycle
  <2>4. CASE Restart
    BY <2>0, <2>4 DEF Restart, TypeOK
  <2>. QED  BY <2>0, <2>1, <2>2, <2>3, <2>4
            DEF Next, Connect, PeerGoes, Deliver, RefuseHandshake, AbortHandshake,
                NoticePeerGone, OnMessage, PostBegins, PostEnds
<1>. QED  BY <1>1, RegistryInvariant, PTL DEF Spec, LeavesOnlyWhenClosed

-----------------------------------------------------------------------------
(* No broadcast skips a client                                             *)

\* The frame at the head of the channel moves to what was received; the two in a
\* row stay the same.
LEMMA HandOver ==
  ASSUME NEW S, NEW g \in Seq(S), NEW n \in Seq(S), n # <<>>
  PROVE  /\ Head(n) \in S /\ Tail(n) \in Seq(S)
         /\ Append(g, Head(n)) \o Tail(n) = g \o n
  OBVIOUS

\* The position of the loop, and BroadcastReachesEveryone on top of RegistryInv.
WalkInv ==
  /\ RegistryInv
  /\ post.running => post.i <= Len(ALL_SOCKETS) + 1
  /\ BroadcastReachesEveryone

\* Every step keeps WalkInv.
LEMMA WalkStep == WalkInv /\ RegistryInv' /\ [Next]_vars => WalkInv'
<1>. DEFINE Goal == /\ post'.i <= Len(ALL_SOCKETS') + 1
                    /\ ALL_SOCKETS' = post'.targets
                    /\ \A t \in Socket : Passed(t)' => Reached(t)'
<1>. SUFFICES ASSUME WalkInv, RegistryInv', [Next]_vars, post'.running
             PROVE  Goal
  BY DEF WalkInv, BroadcastReachesEveryone
<1>0. TypeOK /\ TypeOK' /\ \A s \in Socket : LifeCycle(s)
  BY DEF WalkInv, RegistryInv, Typing
<1>00. post.running => /\ post.i <= Len(ALL_SOCKETS) + 1
                       /\ ALL_SOCKETS = post.targets
                       /\ \A t \in Socket : Passed(t) => Reached(t)
  BY DEF WalkInv, BroadcastReachesEveryone
<1>01. ASSUME UNCHANGED <<post, ALL_SOCKETS>>,
             \A t \in Socket : Passed(t) /\ Reached(t) => Reached(t)'
      PROVE  Goal
  BY <1>00, <1>01 DEF Passed
<1>. HIDE DEF Goal
<1>1. ASSUME NEW s \in Socket, Connect(s) PROVE Goal
  <2>1. ~Registered(s) /\ post.running
    BY <1>0, <1>1 DEF LifeCycle, Connect
  <2>2. ~Passed(s)
    <3>1. post.i \in Nat /\ Len(ALL_SOCKETS) \in Nat
      BY <1>0 DEF TypeOK
    <3>2. post.i <= Len(ALL_SOCKETS) + 1 /\ ALL_SOCKETS = post.targets
      BY <1>00, <2>1
    <3>. QED  BY <2>1, <3>1, <3>2 DEF Passed, Registered
  <2>3. \A t \in Socket \ {s} : peer'[t] = peer[t] /\ got' = got /\ net' = net
    BY <1>0, <1>1 DEF Connect, TypeOK
  <2>4. UNCHANGED <<post, ALL_SOCKETS, pushes>>
    BY <1>1 DEF Connect
  <2>. QED  BY <1>01, <2>2, <2>3, <2>4 DEF Reached
<1>2. ASSUME NEW s \in Socket, PeerGoes(s) PROVE Goal
  <2>1. \A t \in Socket : peer'[t] = "open" => peer[t] = "open"
    BY <1>0, <1>2 DEF PeerGoes, TypeOK
  <2>2. UNCHANGED <<post, ALL_SOCKETS, pushes, got, net>>
    BY <1>2 DEF PeerGoes
  <2>. QED  BY <1>01, <2>1, <2>2 DEF Reached
<1>3. ASSUME NEW s \in Socket, Deliver(s) PROVE Goal
  <2>1. got[s] \in Seq(1..MaxPush) /\ net[s] \in Seq(1..MaxPush) /\ net[s] # <<>>
    BY <1>0, <1>3 DEF Deliver, TypeOK
  <2>2. Append(got[s], Head(net[s])) \o Tail(net[s]) = got[s] \o net[s]
    BY <2>1, HandOver
  <2>3. /\ got' = [got EXCEPT ![s] = Append(got[s], Head(net[s]))]
        /\ net' = [net EXCEPT ![s] = Tail(net[s])]
    BY <1>3 DEF Deliver
  <2>4. \A t \in Socket : got'[t] \o net'[t] = got[t] \o net[t]
    <3>. TAKE t \in Socket
    <3>1. CASE t = s
      <4>1. got'[s] = Append(got[s], Head(net[s])) /\ net'[s] = Tail(net[s])
        BY <1>0, <2>3 DEF TypeOK
      <4>. QED  BY <2>2, <3>1, <4>1
    <3>2. CASE t # s
      <4>1. got'[t] = got[t] /\ net'[t] = net[t]
        BY <1>0, <2>3, <3>2 DEF TypeOK
      <4>. QED  BY <4>1
    <3>. QED  BY <3>1, <3>2
  <2>5. UNCHANGED <<post, ALL_SOCKETS, pushes, peer>>
    BY <1>3 DEF Deliver
  <2>. QED  BY <1>01, <2>4, <2>5 DEF Reached
<1>4. ASSUME PostBegins PROVE Goal
  <2>1. post'.i = 1 /\ post'.targets = ALL_SOCKETS /\ ALL_SOCKETS' = ALL_SOCKETS
    BY <1>4 DEF PostBegins
  <2>. QED  BY <1>0, <2>1 DEF Goal, TypeOK, Passed
<1>5. ASSUME PostToNext PROVE Goal
  <2>. DEFINE s == ALL_SOCKETS[post.i]
  <2>1. s \in Socket /\ Registered(s)
    BY <1>0, <1>5, SMTT(40) DEF PostToNext, TypeOK, Registered
  <2>2. /\ WriteFrame(s)
        /\ UNCHANGED <<ALL_SOCKETS, peer, got, pushes>>
        /\ post' = [running |-> TRUE, i |-> post.i + 1, targets |-> post.targets]
    BY <1>0, <1>5, <2>1 DEF PostToNext, LifeCycle
  <2>3. /\ ALL_SOCKETS = post.targets /\ post.i \in 1..Len(ALL_SOCKETS)
        /\ \A t \in Socket : Passed(t) => Reached(t)
    BY <1>0, <1>00, <1>5 DEF PostToNext, TypeOK
  <2>4. pushes \in 1..MaxPush
    BY <1>0, <1>5 DEF PostToNext, WalkInv, RegistryInv, Typing, TypeOK
  <2>5. \A t \in Socket : Passed(t)' => Passed(t) \/ t = s
    BY <1>0, <2>2, <2>3 DEF Passed
  <2>. HIDE DEF s
  <2>6. ASSUME NEW t \in Socket, t = s PROVE Reached(t)'
    <3>1. CASE peer[t] # "open"
      BY <2>2, <3>1 DEF Reached
    <3>2. CASE stream[s] = "open" /\ net' = [net EXCEPT ![s] = Append(@, pushes)]
      <4>. DEFINE g == got[t]
                  n == net[t]
                  all == g \o Append(n, pushes)
      <4>1. g \in Seq(1..MaxPush) /\ n \in Seq(1..MaxPush)
        BY <1>0 DEF TypeOK
      <4>2. got'[t] = g /\ net'[t] = Append(n, pushes)
        BY <1>0, <2>2, <2>6, <3>2 DEF TypeOK
      <4>. HIDE DEF g, n
      <4>3. all[Len(all)] = pushes /\ Len(all) \in 1..Len(all)
        BY <2>4, <4>1
      <4>. HIDE DEF all
      <4>4. Contains(all, pushes)
        BY <4>3 DEF Contains
      <4>. QED  BY <2>2, <4>2, <4>4 DEF Reached, all
    <3>3. CASE stream[s] = "closed"
      BY <1>0, <2>1, <2>6, <3>1, <3>3 DEF LifeCycle
    <3>. QED  BY <2>2, <2>6, <3>1, <3>2, <3>3 DEF WriteFrame
  <2>7. ASSUME NEW t \in Socket, t # s, Reached(t) PROVE Reached(t)'
    <3>1. net'[t] = net[t]
      BY <1>0, <2>2, <2>7 DEF WriteFrame, TypeOK
    <3>. QED  BY <2>2, <2>7, <3>1 DEF Reached
  <2>8. \A t \in Socket : Passed(t)' => Reached(t)'
    BY <2>3, <2>5, <2>6, <2>7
  <2>. QED  BY <1>0, <2>2, <2>3, <2>8 DEF Goal, TypeOK
<1>6. CASE UNCHANGED vars
  BY <1>01, <1>6 DEF vars, Reached
<1>. QED  BY <1>1, <1>2, <1>3, <1>4, <1>5, <1>6
          DEF Next, RefuseHandshake, AbortHandshake, Open, NoticePeerGone,
              OnConnectionClose, DropConnection, OnMessage, PostEnds,
              Restart, NoPost

\* The initial state satisfies WalkInv.
LEMMA WalkInit == Init => WalkInv
<1>1. Init => ~post.running
  BY DEF Init, NoPost
<1>. QED  BY <1>1, RegistryInit DEF WalkInv, BroadcastReachesEveryone

\* WalkInv holds in every reachable state.
LEMMA WalkInvariant == Spec => []WalkInv
  BY WalkInit, WalkStep, RegistryInvariant, PTL DEF Spec, WalkInv

\* Whatever happens to connections while the Announcer walks ALL_SOCKETS, every
\* client it has passed has the update under way, or has gone.
THEOREM BroadcastCorrect == Spec => []BroadcastReachesEveryone
<1>1. WalkInv => BroadcastReachesEveryone
  BY DEF WalkInv
<1>. QED  BY <1>1, WalkInvariant, PTL
-----------------------------------------------------------------------------
(* SocketRegistry implements LiveFeed                                      *)

\* Where the feed of s stands: what it has received and what is under way are the updates
\* since it was registered, and while its stream is open none is missing but the one the
\* loop has not come to s with.
Owed(s) == IF post.running /\ ~Passed(s) THEN pushes - 1 ELSE pushes

FeedOf(s) ==
  /\ since[s] = Never => got[s] = <<>> /\ net[s] = <<>>
  /\ \A i \in 1..Len(got[s]) : got[s][i] = since[s] + i
  /\ \A i \in 1..Len(net[s]) : net[s][i] = since[s] + Len(got[s]) + i
  /\ since[s] # Never => since[s] + Len(got[s]) + Len(net[s]) <= pushes
  /\ stream[s] \in {"none", "request"} => since[s] = Never
  /\ stream[s] = "open" => since[s] # Never /\ since[s] + Len(got[s]) + Len(net[s]) = Owed(s)

FeedInv == WalkInv /\ \A s \in Socket : FeedOf(s)

\* What a step leaves alone, it leaves as it was.
LEMMA FeedKept ==
  ASSUME NEW s \in Socket, FeedOf(s), UNCHANGED <<pushes>>,
         since'[s] = since[s], got'[s] = got[s], net'[s] = net[s],
         stream'[s] \in {"none", "request"} => stream[s] \in {"none", "request"},
         stream'[s] = "open" => stream[s] = "open" /\ Owed(s)' = Owed(s)
  PROVE  FeedOf(s)'
BY DEF FeedOf

\* A run of consecutive numbers stays one when its successor is appended.
LEMMA RunGrows ==
  ASSUME NEW S, NEW run \in Seq(S), NEW b \in Int, \A i \in 1..Len(run) : run[i] = b + i,
         NEW x \in S, x = b + Len(run) + 1
  PROVE  \A i \in 1..(Len(run) + 1) : Append(run, x)[i] = b + i
<1>. TAKE i \in 1..(Len(run) + 1)
<1>1. CASE i \in 1..Len(run)
  <2>1. Append(run, x)[i] = run[i]
    BY <1>1
  <2>. QED  BY <1>1, <2>1
<1>2. CASE i = Len(run) + 1
  <2>1. Append(run, x)[i] = x
    BY <1>2
  <2>. QED  BY <1>2, <2>1
<1>. QED  BY <1>1, <1>2

\* Without its first number it starts one later.
LEMMA RunShrinks ==
  ASSUME NEW S, NEW run \in Seq(S), run # <<>>, NEW b \in Int,
         \A i \in 1..Len(run) : run[i] = b + i
  PROVE  /\ Head(run) = b + 1 /\ Head(run) \in S
         /\ \A i \in 1..(Len(run) - 1) : Tail(run)[i] = b + 1 + i
<1>1. 1 \in 1..Len(run) /\ Head(run) = run[1]
  OBVIOUS
<1>2. \A i \in 1..(Len(run) - 1) : Tail(run)[i] = run[i + 1] /\ i + 1 \in 1..Len(run)
  OBVIOUS
<1>3. \A i \in 1..(Len(run) - 1) : run[i + 1] = b + (i + 1)
  BY <1>2
<1>4. run[1] = b + 1
  BY <1>1
<1>. QED  BY <1>1, <1>2, <1>3, <1>4

\* Every step of the server, the network or a browser keeps FeedInv.
LEMMA FeedInductive == FeedInv /\ WalkInv' /\ [Next]_vars => FeedInv'
<1>. SUFFICES ASSUME FeedInv, WalkInv', [Next]_vars, NEW t \in Socket
             PROVE  FeedOf(t)'
  BY DEF FeedInv
<1>0. /\ TypeOK /\ TypeOK' /\ RegisteredOnce /\ \A s \in Socket : LifeCycle(s)
      /\ FeedOf(t)
  BY DEF FeedInv, WalkInv, RegistryInv, Typing
<1>00. post.running => post.i <= Len(ALL_SOCKETS) + 1 /\ ALL_SOCKETS = post.targets
  BY DEF FeedInv, WalkInv, BroadcastReachesEveryone
<1>01. UNCHANGED post => (Passed(t)' <=> Passed(t))
  BY DEF Passed
<1>1. ASSUME NEW s \in Socket, Connect(s)  PROVE FeedOf(t)'
  <2>1. stream[s] \in {"none", "request"}
    BY <1>0, <1>1 DEF Connect, LifeCycle, TypeOK
  <2>. QED  BY <1>0, <1>01, <1>1, <2>1, FeedKept DEF Connect, TypeOK, Owed
<1>2. ASSUME NEW s \in Socket, PeerGoes(s) \/ OnMessage(s)  PROVE FeedOf(t)'
  BY <1>0, <1>01, <1>2, FeedKept DEF PeerGoes, OnMessage, Owed
\* The first of what is under way becomes the last of what is received.
<1>3. ASSUME NEW s \in Socket, Deliver(s)  PROVE FeedOf(t)'
  <2>1. UNCHANGED <<stream, post, pushes, since>> /\ Owed(t)' = Owed(t)
    BY <1>01, <1>3 DEF Deliver, Owed
  <2>2. CASE t # s
    BY <1>0, <1>3, <2>1, <2>2, FeedKept DEF Deliver, TypeOK
  <2>3. CASE t = s
    <3>. DEFINE g == got[t]  n == net[t]
    <3>1. g \in Seq(1..MaxPush) /\ n \in Seq(1..MaxPush) /\ n # <<>> /\ since[t] # Never
      BY <1>0, <1>3, <2>3 DEF Deliver, TypeOK, FeedOf
    <3>2. got'[t] = Append(g, Head(n)) /\ net'[t] = Tail(n)
      BY <1>0, <1>3, <2>3 DEF Deliver, TypeOK
    <3>3. since[t] \in Int /\ pushes \in Int
      BY <1>0, BoundsAssumption DEF TypeOK, Never
    <3>4. /\ \A i \in 1..Len(g) : g[i] = since[t] + i
          /\ \A i \in 1..Len(n) : n[i] = since[t] + Len(g) + i
      BY <1>0 DEF FeedOf
    <3>. HIDE DEF g, n
    <3>5. /\ Len(Append(g, Head(n))) = Len(g) + 1 /\ Len(Tail(n)) = Len(n) - 1
          /\ Len(g) \in Nat /\ Len(n) \in Nat \ {0}
      BY <3>1
    <3>6. since[t] + Len(g) \in Int
      BY <3>3, <3>5
    <3>7. /\ Head(n) = since[t] + Len(g) + 1 /\ Head(n) \in 1..MaxPush
          /\ \A i \in 1..(Len(n) - 1) : Tail(n)[i] = since[t] + Len(g) + 1 + i
      <4>. DEFINE b == since[t] + Len(g)
      <4>1. b \in Int /\ \A i \in 1..Len(n) : n[i] = b + i
        BY <3>4, <3>6
      <4>. HIDE DEF b
      <4>2. /\ Head(n) = b + 1 /\ Head(n) \in 1..MaxPush
            /\ \A i \in 1..(Len(n) - 1) : Tail(n)[i] = b + 1 + i
        BY <3>1, <4>1, RunShrinks
      <4>. QED  BY <4>2 DEF b
    <3>8. \A i \in 1..(Len(g) + 1) : Append(g, Head(n))[i] = since[t] + i
      BY <3>1, <3>3, <3>4, <3>7, RunGrows, SMTT(40)
    <3>9. /\ since[t] + Len(g) + Len(n) <= pushes
          /\ stream[t] \notin {"none", "request"}
          /\ stream[t] = "open" => since[t] + Len(g) + Len(n) = Owed(t)
      BY <1>0, <3>1 DEF FeedOf, g, n
    <3>10. since[t] + (Len(g) + 1) + (Len(n) - 1) = since[t] + Len(g) + Len(n)
      BY <3>3, <3>5
    <3>11. \A i \in 1..(Len(n) - 1) : Tail(n)[i] = since[t] + (Len(g) + 1) + i
      <4>. TAKE i \in 1..(Len(n) - 1)
      <4>1. i \in Int /\ Tail(n)[i] = since[t] + Len(g) + 1 + i
        BY <3>5, <3>7
      <4>. QED  BY <3>3, <3>5, <4>1
    <3>12. /\ since'[t] = since[t] /\ stream'[t] = stream[t] /\ pushes' = pushes
           /\ Len(got'[t]) = Len(g) + 1 /\ Len(net'[t]) = Len(n) - 1
      BY <2>1, <3>2, <3>5
    <3>13. \A i \in 1..Len(got'[t]) : got'[t][i] = since'[t] + i
      BY <3>2, <3>8, <3>12
    <3>14. \A i \in 1..Len(net'[t]) : net'[t][i] = since'[t] + Len(got'[t]) + i
      BY <3>2, <3>11, <3>12
    <3>15. since'[t] + Len(got'[t]) + Len(net'[t]) = since[t] + Len(g) + Len(n)
      BY <3>10, <3>12
    <3>. QED  BY <2>1, <3>1, <3>9, <3>12, <3>13, <3>14, <3>15 DEF FeedOf
  <2>. QED  BY <2>2, <2>3
<1>4. ASSUME NEW s \in Socket, RefuseHandshake(s) \/ AbortHandshake(s)  PROVE FeedOf(t)'
  BY <1>0, <1>01, <1>4, FeedKept, ZenonT(60)
  DEF RefuseHandshake, AbortHandshake, CloseStream, TypeOK, Owed
\* Nothing was sent before open, and nothing is owed yet.
<1>5. ASSUME NEW s \in Socket, Open(s)  PROVE FeedOf(t)'
  <2>1. CASE t # s
    BY <1>0, <1>01, <1>5, <2>1, FeedKept, ZenonT(60) DEF Open, CloseStream, TypeOK, Owed
  <2>2. CASE t = s
    <3>1. since'[t] = pushes /\ stream'[t] \in {"open", "closed"} /\ ~post.running
          /\ UNCHANGED <<got, net, post, pushes>>
      BY <1>0, <1>5, <2>2 DEF Open, CloseStream, TypeOK
    <3>2. got[t] = <<>> /\ net[t] = <<>>
      BY <1>0, <1>5, <2>2 DEF Open, FeedOf
    <3>3. pushes \in Nat /\ pushes # Never
      BY <1>0, BoundsAssumption DEF TypeOK, Never
    <3>. QED  BY <3>1, <3>2, <3>3 DEF FeedOf, Owed
  <2>. QED  BY <2>1, <2>2
<1>6. ASSUME NEW s \in Socket, NoticePeerGone(s)  PROVE FeedOf(t)'
  BY <1>0, <1>01, <1>6, FeedKept DEF NoticePeerGone, CloseStream, TypeOK, Owed
<1>7. ASSUME NEW s \in Socket, OnConnectionClose(s)  PROVE FeedOf(t)'
  BY <1>0, <1>01, <1>7, FeedKept DEF OnConnectionClose, DropConnection, Owed
\* The new update is owed to everyone, and the loop has been to nobody.
<1>8. CASE PostBegins
  <2>1. /\ pushes' = pushes + 1 /\ pushes \in Nat /\ ~post.running
        /\ UNCHANGED <<stream, since, got, net>>
    BY <1>0, <1>8, BoundsAssumption DEF PostBegins, TypeOK
  <2>2. post'.running /\ ~Passed(t)'
    BY <1>8 DEF PostBegins, Passed
  <2>3. since[t] \in Int /\ Len(got[t]) \in Nat /\ Len(net[t]) \in Nat
    BY <1>0, BoundsAssumption DEF TypeOK, Never
  <2>. QED  BY <1>0, <2>1, <2>2, <2>3 DEF FeedOf, Owed
\* One turn of the loop: the frame is the next one of its socket.
<1>9. CASE PostToNext
  <2>0. /\ post.running /\ post.i \in 1..Len(ALL_SOCKETS)
        /\ ALL_SOCKETS \in Seq(Socket) /\ ALL_SOCKETS = post.targets
    BY <1>0, <1>00, <1>9 DEF PostToNext, TypeOK
  <2>. PICK s \in Socket : s = ALL_SOCKETS[post.i]
    BY <2>0
  <2>1. Registered(s)
    BY <2>0 DEF Registered
  <2>2. /\ WriteFrame(s)
        /\ UNCHANGED <<ALL_SOCKETS, peer, got, pushes, since>>
        /\ post' = [running |-> TRUE, i |-> post.i + 1, targets |-> post.targets]
    BY <1>0, <1>9, <2>1 DEF PostToNext, LifeCycle
  <2>3. Passed(t)' <=> Passed(t) \/ t = s
    <3>1. post'.i - 1 = post.i /\ post'.targets = post.targets /\ post.i \in Nat \ {0}
      BY <1>0, <2>0, <2>2
    <3>2. 1..post.i = 1..(post.i - 1) \cup {post.i}
      BY <3>1
    <3>3. Passed(t)' <=> \E j \in 1..post.i : post.targets[j] = t
      BY <3>1 DEF Passed
    <3>. QED  BY <2>0, <3>2, <3>3 DEF Passed
  <2>4. ~Passed(s)
    <3>1. \A j \in 1..Len(ALL_SOCKETS) : ALL_SOCKETS[j] = s => j = post.i
      BY <1>0, <2>0 DEF RegisteredOnce, IsInjective
    <3>2. \A j \in 1..(post.i - 1) : j \in 1..Len(ALL_SOCKETS) /\ j # post.i
      BY <2>0
    <3>. QED  BY <2>0, <3>1, <3>2 DEF Passed
  <2>5. CASE t # s
    <3>1. /\ since'[t] = since[t] /\ got'[t] = got[t] /\ net'[t] = net[t]
          /\ stream'[t] = stream[t] /\ pushes' = pushes
      BY <1>0, <2>2, <2>5 DEF WriteFrame, CloseStream, TypeOK
    <3>2. Owed(t)' = Owed(t)
      BY <2>0, <2>2, <2>3, <2>5 DEF Owed
    <3>. QED  BY <1>0, <3>1, <3>2, FeedKept
  <2>6. CASE t = s /\ stream'[t] = "open"
    <3>. DEFINE n == net[t]
    <3>1. net'[t] = Append(n, pushes) /\ stream[t] = "open"
      BY <1>0, <2>2, <2>6, SMTT(40) DEF WriteFrame, CloseStream, TypeOK
    <3>2. /\ since[t] # Never /\ since[t] + Len(got[t]) + Len(n) = pushes - 1
          /\ \A i \in 1..Len(n) : n[i] = since[t] + Len(got[t]) + i
      BY <1>0, <2>0, <2>4, <2>6, <3>1 DEF FeedOf, Owed
    <3>3. since[t] \in Int /\ got[t] \in Seq(1..MaxPush) /\ n \in Seq(1..MaxPush)
      BY <1>0, BoundsAssumption DEF TypeOK, Never
    <3>31. pushes \in 1..MaxPush
      BY <1>0, <2>0, BoundsAssumption DEF FeedInv, WalkInv, RegistryInv, Typing, TypeOK
    <3>. HIDE DEF n
    <3>32. /\ Len(Append(n, pushes)) = Len(n) + 1
           /\ Len(n) \in Nat /\ Len(got[t]) \in Nat
      BY <3>3, <3>31
    <3>33. since[t] + Len(got[t]) \in Int /\ pushes = since[t] + Len(got[t]) + Len(n) + 1
      BY <3>2, <3>3, <3>31, <3>32
    <3>4. \A i \in 1..(Len(n) + 1) : Append(n, pushes)[i] = since[t] + Len(got[t]) + i
      <4>. DEFINE b == since[t] + Len(got[t])
      <4>1. b \in Int /\ pushes = b + Len(n) + 1 /\ \A i \in 1..Len(n) : n[i] = b + i
        BY <3>2, <3>33
      <4>. HIDE DEF b
      <4>2. \A i \in 1..(Len(n) + 1) : Append(n, pushes)[i] = b + i
        BY <3>3, <3>31, <4>1, RunGrows
      <4>. QED  BY <4>2 DEF b
    <3>5. Owed(t)' = pushes
      BY <2>2, <2>3, <2>6 DEF Owed
    <3>6. since[t] + Len(got[t]) + (Len(n) + 1) = pushes
      BY <3>3, <3>32, <3>33
    <3>7. \A i \in 1..Len(got[t]) : got[t][i] = since[t] + i
      BY <1>0 DEF FeedOf
    <3>8. /\ since'[t] = since[t] /\ got'[t] = got[t] /\ pushes' = pushes
          /\ net'[t] = Append(n, pushes) /\ stream'[t] = "open"
      BY <2>2, <2>6, <3>1
    <3>9. pushes \in Int
      BY <3>31
    <3>. QED  BY <3>2, <3>32, <3>4, <3>5, <3>6, <3>7, <3>8, <3>9 DEF FeedOf
  <2>7. CASE t = s /\ stream'[t] # "open"
    <3>1. net' = net /\ stream'[t] = "closed"
      BY <1>0, <2>2, <2>7, SMTT(40) DEF WriteFrame, CloseStream, TypeOK
    <3>. QED  BY <1>0, <2>2, <2>7, <3>1, FeedKept
  <2>. QED  BY <2>5, <2>6, <2>7
\* The loop ends when it has been everywhere.
<1>10. CASE PostEnds
  <2>1. /\ post.running /\ post.i > Len(ALL_SOCKETS) /\ ~post'.running
        /\ UNCHANGED <<stream, since, got, net, pushes>>
    BY <1>10 DEF PostEnds, NoPost
  <2>2. Registered(t) => Passed(t)
    BY <1>0, <1>00, <2>1, SMTT(40) DEF Registered, Passed, TypeOK
  <2>3. stream[t] = "open" => Owed(t)' = Owed(t)
    BY <1>0, <2>1, <2>2 DEF LifeCycle, Owed
  <2>. QED  BY <1>0, <2>1, <2>3, FeedKept
<1>11. CASE Restart
  BY <1>0, <1>11, FeedKept DEF Restart, TypeOK
<1>12. CASE UNCHANGED vars
  BY <1>0, <1>01, <1>12, FeedKept DEF vars, Owed
<1>. QED  BY <1>1, <1>2, <1>3, <1>4, <1>5, <1>6, <1>7, <1>8, <1>9, <1>10, <1>11, <1>12
          DEF Next

\* The initial state satisfies FeedInv.
LEMMA FeedInit == Init => FeedInv
<1>1. Init => \A s \in Socket : FeedOf(s)
  BY DEF Init, FeedOf
<1>. QED  BY <1>1, WalkInit DEF FeedInv

\* The account of every feed holds in every reachable state.
LEMMA FeedInvariant == Spec => []FeedInv
  BY FeedInit, FeedInductive, WalkInvariant, PTL DEF Spec, FeedInv

\* Browsers may leave several at a time, too.
LEMMA BrowsersLeave ==
  ASSUME FeedInv,
         peer' = [s \in Socket |-> IF peer[s] = "open" THEN "left" ELSE peer[s]],
         UNCHANGED <<stream, callback, ws, ALL_SOCKETS, wanted_feeds, post, pushes, net,
                     got, since, restarts>>
  PROVE  FeedInv'
<1>0. /\ TypeOK /\ Typing /\ RegisteredOnce
      /\ \A s \in Socket : LifeCycle(s) /\ FeedOf(s)
      /\ WalkInv
  BY DEF FeedInv, WalkInv, RegistryInv, Typing
<1>1. Typing'
  BY <1>0 DEF Typing, TypeOK
<1>2. \A s \in Socket : Registered(s)' <=> Registered(s)
  BY DEF Registered
<1>3. \A s \in Socket : LifeCycle(s)'
  BY <1>0, <1>2 DEF LifeCycle, TypeOK
<1>4. RegisteredOnce'
  BY <1>0 DEF RegisteredOnce, IsInjective
<1>5. \A s \in Socket : (Passed(s)' <=> Passed(s)) /\ (Reached(s) => Reached(s)')
  BY <1>0 DEF Passed, Reached, TypeOK
<1>6. BroadcastReachesEveryone'
  BY <1>0, <1>5 DEF WalkInv, BroadcastReachesEveryone
<1>7. \A s \in Socket : FeedOf(s)'
  BY <1>0, <1>5 DEF FeedOf, Owed
<1>. QED  BY <1>0, <1>1, <1>3, <1>4, <1>6, <1>7 DEF FeedInv, WalkInv, RegistryInv

\* Two tables of flags that differ in one place.
LEMMA SwitchedOff ==
  ASSUME NEW S, NEW f \in [S -> BOOLEAN], NEW g \in [S -> BOOLEAN], NEW s \in S,
         ~g[s], \A c \in S : c # s => g[c] = f[c]
  PROVE  g = [f EXCEPT ![s] = FALSE]
<1>1. \A c \in S : g[c] = [f EXCEPT ![s] = FALSE][c]
  OBVIOUS
<1>. QED  BY <1>1

\* Each step of the server, the network or a browser is one of LiveFeed, or none.
LEMMA FeedStep == FeedInv /\ [Next]_vars => [AbstractFeed!Next]_(AbstractFeed!feedVars)
<1>. SUFFICES ASSUME FeedInv, [Next]_vars
             PROVE  AbstractFeed!Next \/ UNCHANGED AbstractFeed!feedVars
  OBVIOUS
<1>. DEFINE here == [s \in Socket |-> peer[s] \in {"absent", "open"}]
<1>0. TypeOK /\ \A s \in Socket : LifeCycle(s) /\ FeedOf(s)
  BY DEF FeedInv, WalkInv, RegistryInv, Typing
<1>1. ASSUME UNCHANGED <<pushes, since, got, peer>>  PROVE UNCHANGED AbstractFeed!feedVars
  BY <1>1 DEF AbstractFeed!feedVars
\* A browser that goes, by itself or with the refusal of its handshake.
<1>2. ASSUME NEW s \in Socket, UNCHANGED <<pushes, since, got>>, peer[s] = "open",
             \E how \in {"left", "vanished"} : peer' = [peer EXCEPT ![s] = how]
      PROVE  AbstractFeed!Next
  <2>1. here[s] /\ ~(peer'[s] \in {"absent", "open"})
        /\ \A c \in Socket : c # s => peer'[c] = peer[c]
    BY <1>0, <1>2 DEF TypeOK
  <2>0. /\ here \in [Socket -> BOOLEAN] /\ here' \in [Socket -> BOOLEAN] /\ ~here'[s]
        /\ \A c \in Socket : c # s => here'[c] = here[c]
    <3>1. here \in [Socket -> BOOLEAN] /\ here' \in [Socket -> BOOLEAN]
      OBVIOUS
    <3>2. ~here'[s]
      BY <2>1
    <3>3. ASSUME NEW c \in Socket, c # s  PROVE here'[c] = here[c]
      <4>1. peer'[c] = peer[c]
        BY <2>1, <3>3
      <4>2. (peer'[c] \in {"absent", "open"}) = (peer[c] \in {"absent", "open"})
        BY <4>1
      <4>. QED  BY <4>2
    <3>. QED  BY <3>1, <3>2, <3>3
  <2>2. here' = [here EXCEPT ![s] = FALSE]
    <3>. HIDE DEF here
    <3>. QED  BY <2>0, SwitchedOff
  <2>3. AbstractFeed!Leave(s)
    BY <1>2, <2>1, <2>2 DEF AbstractFeed!Leave
  <2>. QED  BY <2>3 DEF AbstractFeed!Next
<1>3. ASSUME NEW s \in Socket, Connect(s)  PROVE UNCHANGED AbstractFeed!feedVars
  <2>1. here' = here
    BY <1>0, <1>3 DEF Connect, TypeOK
  <2>. QED  BY <1>3, <2>1 DEF Connect, AbstractFeed!feedVars
<1>4. ASSUME NEW s \in Socket, PeerGoes(s)  PROVE AbstractFeed!Next
  BY <1>2, <1>4 DEF PeerGoes
<1>5. ASSUME NEW s \in Socket, Deliver(s)  PROVE AbstractFeed!Next
  <2>. DEFINE next == since[s] + Len(got[s]) + 1
  <2>1. /\ peer[s] = "open" /\ net[s] # <<>> /\ UNCHANGED <<pushes, since, peer>>
        /\ got' = [got EXCEPT ![s] = Append(got[s], Head(net[s]))]
    BY <1>5 DEF Deliver
  <2>2. /\ since[s] # Never /\ since[s] \in Int /\ pushes \in Int
        /\ net[s] \in Seq(1..MaxPush) /\ got[s] \in Seq(1..MaxPush)
    BY <1>0, <2>1, BoundsAssumption DEF FeedOf, TypeOK, Never
  <2>3. Head(net[s]) = net[s][1] /\ 1 \in 1..Len(net[s]) /\ Len(net[s]) \in Nat
    BY <2>1, <2>2
  <2>31. /\ since[s] + Len(got[s]) \in Int /\ Len(got[s]) \in Nat
         /\ since[s] + Len(got[s]) + Len(net[s]) <= pushes
    BY <1>0, <2>2 DEF FeedOf
  <2>32. net[s][1] = since[s] + Len(got[s]) + 1
    BY <1>0, <2>3 DEF FeedOf
  <2>4. Head(net[s]) = next /\ next <= pushes
    BY <2>1, <2>2, <2>3, <2>31, <2>32
  <2>5. AbstractFeed!Receive(s)
    BY <2>1, <2>2, <2>4 DEF AbstractFeed!Receive, AbstractFeed!Never, Never
  <2>. QED  BY <2>5 DEF AbstractFeed!Next
<1>6. ASSUME NEW s \in Socket, RefuseHandshake(s) \/ AbortHandshake(s)
      PROVE  AbstractFeed!Next \/ UNCHANGED AbstractFeed!feedVars
  <2>1. UNCHANGED <<pushes, since, got>>
        /\ peer' = [peer EXCEPT ![s] = IF peer[s] = "open" THEN "left" ELSE peer[s]]
    BY <1>6 DEF RefuseHandshake, AbortHandshake
  <2>2. CASE peer[s] = "open"
    BY <1>2, <2>1, <2>2
  <2>3. CASE peer[s] # "open"
    BY <1>0, <1>1, <2>1, <2>3 DEF TypeOK
  <2>. QED  BY <2>2, <2>3
<1>7. ASSUME NEW s \in Socket, Open(s)  PROVE AbstractFeed!Next
  <2>1. since[s] = Never
    BY <1>0, <1>7 DEF Open, FeedOf
  <2>2. AbstractFeed!Join(s)
    BY <1>7, <2>1 DEF Open, AbstractFeed!Join, AbstractFeed!Never, Never
  <2>. QED  BY <2>2 DEF AbstractFeed!Next
<1>8. ASSUME NEW s \in Socket, NoticePeerGone(s) \/ OnConnectionClose(s) \/ OnMessage(s)
      PROVE  UNCHANGED AbstractFeed!feedVars
  BY <1>1, <1>8 DEF NoticePeerGone, OnConnectionClose, DropConnection, OnMessage
<1>9. CASE PostBegins
  BY <1>9 DEF PostBegins, AbstractFeed!Next, AbstractFeed!Publish
<1>10. CASE PostToNext \/ PostEnds \/ Restart
  BY <1>1, <1>10 DEF PostToNext, PostEnds, Restart
<1>11. CASE UNCHANGED vars
  BY <1>1, <1>11 DEF vars
<1>. QED  BY <1>3, <1>4, <1>5, <1>6, <1>7, <1>8, <1>9, <1>10, <1>11 DEF Next

\* Each client sees a gap-free, in-order, duplicate-free run of the updates, for any
\* number of clients and whatever connections and restarts do: SocketRegistry
\* implements LiveFeed.
THEOREM FeedCorrect == Spec => FeedSpec
<1>1. Init => AbstractFeed!Init
  BY DEF Init, AbstractFeed!Init, AbstractFeed!Never, Never
<1>. QED
  BY FeedInvariant, FeedStep, <1>1, PTL DEF Spec, FeedSpec, AbstractFeed!Spec
=============================================================================
