------------------------- MODULE QueryService_proofs -------------------------
(***************************************************************************)
(* Proofs about QueryService: for any set of requests, any mix of kinds,   *)
(* any number of workers and any number of restarts, its variables keep    *)
(* their types, a reply tells how its query ended, queries start in the    *)
(* order they were submitted, the pool is exact, and the whole implements  *)
(* RequestReply.                                                           *)
(***************************************************************************)
EXTENDS QueryService, FiniteSetTheorems, SequenceTheorems,
        TLAPS

\* What is known of a request at each stage.  Until its work has ended, nothing is in
\* its buffer and nothing was sent; when it has ended, the buffer is what finish()
\* must send for that outcome; the reply of a finished handler is that of its outcome.
Phase(r) ==
  /\ client[r] = "idle" => stage[r] = "none"
  /\ stage[r] \in {"none", "arrived", "queued"} \cup InWorker =>
       buffer[r] = <<>> /\ outcome[r] = None
  /\ stage[r] = "execute" => todo[r] \in 1..3
  /\ stage[r] = "resolved" =>
       \/ outcome[r] = "json" /\ buffer[r] = <<"json">>
       \/ outcome[r] = "empty" /\ buffer[r] = <<>>
  /\ stage[r] = "failed" => outcome[r] = "error" /\ buffer[r] = <<>>
  /\ stage[r] = "finished" => outcome[r] \in Outcome /\ reply[r] = Expected(outcome[r])
  /\ stage[r] # "finished" => reply[r] = None

\* The work queue holds queued requests, each once: a worker that takes one finds it
\* untouched, and nothing takes it a second time.
QueueExact ==
  /\ \A i \in 1..Len(queue) : stage[queue[i]] = "queued"
  /\ \A i, j \in 1..Len(queue) : queue[i] = queue[j] => i = j

\* The inductive invariant.  TypeOK is not inductive alone: todo is counted down, and
\* needs to be positive while statements are executed.  Phase is not inductive without
\* QueueExact: an item queued twice would be executed again after its reply was sent.
Progress == TypeOK /\ QueueExact /\ \A r \in Request : Phase(r)

-----------------------------------------------------------------------------
\* What each outcome is told, with the CASE of Expected resolved.
LEMMA ExpectedValues ==
  /\ Expected("json") = [status |-> 200, body |-> <<"json">>]
  /\ Expected("page") = [status |-> 200, body |-> <<"page">>]
  /\ Expected("empty") = [status |-> 200, body |-> <<>>]
  /\ Expected("error") = [status |-> 500, body |-> <<"problem", "databaseError">>]
BY DEF Expected

\* Only the request a step is about can leave its phase.
LEMMA OthersKeepPhase ==
  ASSUME NEW r \in Request, Phase(r),
         UNCHANGED <<client[r], stage[r], buffer[r], outcome[r], todo[r], reply[r]>>
  PROVE  Phase(r)'
BY ZenonT(60) DEF Phase, Expected

\* Finishing a request with what its outcome is told ends it well.
LEMMA FinishPhase ==
  ASSUME TypeOK, NEW r \in Request, client[r] # "idle",
         NEW o \in Outcome, outcome'[r] = o, NEW status, NEW body,
         Expected(o) = [status |-> status, body |-> body], Finish(r, status, body)
  PROVE  Phase(r)'
<1>1. stage'[r] = "finished" /\ reply'[r] = Expected(o) /\ client'[r] # "idle"
  BY DEF TypeOK, Finish
<1>2. Expected(outcome[r])' = Expected(o)
  BY DEF Expected
<1>. QED  BY <1>1, <1>2 DEF Phase, InWorker

\* The initial state satisfies Progress.
LEMMA ProgressInit == Init => Progress
<1>. SUFFICES ASSUME Init  PROVE Progress
  OBVIOUS
<1>1. TypeOK
  BY ConstantsAssumption DEF Init, TypeOK, Stage, InWorker
<1>2. \A r \in Request : Phase(r)
  BY DEF Init, Phase, InWorker
<1>3. QueueExact
  BY DEF Init, QueueExact
<1>. QED  BY <1>1, <1>2, <1>3 DEF Progress

\* Ending or moving on a request keeps the types.
LEMMA EndTypes ==
  ASSUME TypeOK, NEW r \in Request, NEW o \in Outcome, EndWith(r, o)
  PROVE  outcome' \in [Request -> Outcome \cup {None}]
BY DEF TypeOK, EndWith

\* A request that moves on keeps the types.
LEMMA MoveTypes ==
  ASSUME TypeOK, NEW r \in Request, NEW next \in Stage, MoveTo(r, next)
  PROVE  stage' \in [Request -> Stage]
BY DEF TypeOK, MoveTo

\* A query that fails keeps the types.
LEMMA RaiseTypes ==
  ASSUME TypeOK, NEW r \in Request, Raise(r)
  PROVE  /\ stage' \in [Request -> Stage]
         /\ outcome' \in [Request -> Outcome \cup {None}]
<1>1. "failed" \in Stage /\ "error" \in Outcome
  BY DEF Stage, Outcome
<1>. QED  BY <1>1, EndTypes, MoveTypes DEF Raise

\* Finishing a request keeps the types.
LEMMA FinishTypes ==
  ASSUME TypeOK, NEW r \in Request, NEW status \in {200, 500}, NEW body \in Seq(Chunk),
         Finish(r, status, body)
  PROVE  /\ client' \in [Request -> {"idle", "waiting", "answered", "gone"}]
         /\ stage' \in [Request -> Stage]
         /\ buffer' \in [Request -> Seq(Chunk)]
         /\ reply' \in [Request -> Reply \cup {None}]
<1>1. [status |-> status, body |-> body] \in Reply
  BY DEF Reply
<1>2. "finished" \in Stage
  BY DEF Stage
<1>3. client' \in [Request -> {"idle", "waiting", "answered", "gone"}]
  BY DEF TypeOK, Finish
<1>4. reply' \in [Request -> Reply \cup {None}]
  BY <1>1 DEF TypeOK, Finish
<1>5. buffer' \in [Request -> Seq(Chunk)]
  BY DEF TypeOK, Finish
<1>. QED  BY <1>2, <1>3, <1>4, <1>5 DEF TypeOK, Finish

\* Every step keeps the types.
LEMMA ProgressTypes == Progress /\ [Next]_vars => TypeOK'
<1>. SUFFICES ASSUME Progress, [Next]_vars  PROVE TypeOK'
  OBVIOUS
<1>. TypeOK /\ \A r \in Request : Phase(r)
  BY DEF Progress
<1>. USE ConstantsAssumption DEF TypeOK
<1>0. /\ InWorker \subseteq Stage
      /\ {"arrived", "queued", "resolved", "lost"} \subseteq Stage
      /\ {"json", "page", "empty", "error"} \subseteq Outcome
  BY DEF Stage, InWorker, Outcome
<1>1. ASSUME NEW r \in Request, Ask(r)  PROVE TypeOK'
  BY <1>0, <1>1 DEF Ask
<1>2. ASSUME NEW r \in Request, GiveUp(r)  PROVE TypeOK'
  BY <1>2 DEF GiveUp
<1>3. ASSUME NEW r \in Request, ServePage(r)  PROVE TypeOK'
  <2>1. <<"page">> \in Seq(Chunk)
    BY DEF Chunk
  <2>. QED  BY <1>0, <1>3, <2>1, FinishTypes, ZenonT(60) DEF ServePage
<1>4. ASSUME NEW r \in Request, Submit(r)  PROVE TypeOK'
  BY <1>0, <1>4 DEF Submit, Enqueue, OneMoreThread
<1>5. ASSUME NEW r \in Request, Resume(r)  PROVE TypeOK'
  <2>1. <<"problem", "databaseError">> \in Seq(Chunk)
    BY DEF Chunk
  <2>2. buffer[r] \in Seq(Chunk) /\ buffer[r] \o <<"problem", "databaseError">> \in Seq(Chunk)
    BY <2>1
  <2>3. CASE stage[r] = "resolved" /\ Finish(r, 200, buffer[r])
    BY <1>5, <2>2, <2>3, FinishTypes DEF Resume
  <2>. DEFINE body == buffer[r] \o <<"problem", "databaseError">>
  <2>4. CASE stage[r] = "failed" /\ Finish(r, 500, body)
    <3>. HIDE DEF body
    <3>1. body \in Seq(Chunk)
      BY <2>2 DEF body
    <3>2. UNCHANGED <<kind, todo, queue, threads, outcome, order, restarts>>
      BY <1>5 DEF Resume
    <3>. QED  BY <2>4, <3>1, <3>2, FinishTypes
  <2>. QED  BY <1>5, <2>3, <2>4 DEF Resume
<1>6. ASSUME NEW r \in Request, Connected(r)  PROVE TypeOK'
  <2>1. CASE kind[r] \in {"stats", "free"}
    BY <1>0, <1>6, <2>1, MoveTypes DEF Connected, InWorker
  <2>2. CASE kind[r] = "drop"
    BY <1>0, <1>6, <2>2, MoveTypes, EndTypes DEF Connected
  <2>3. CASE kind[r] = "bad"
    BY <1>6, <2>3, RaiseTypes DEF Connected
  <2>. QED  BY <1>6, <2>1, <2>2, <2>3 DEF Connected
<1>7. ASSUME NEW r \in Request, Executed(r)  PROVE TypeOK'
  <2>1. todo[r] \in 1..3
    BY <1>7 DEF Executed, Phase
  <2>2. stage' \in [Request -> Stage]
    BY <1>0, <1>7, MoveTypes DEF Executed, InWorker
  <2>3. todo[r] - 1 \in 0..3
    BY <2>1
  <2>4. todo' \in [Request -> 0..3]
    BY <1>7, <2>3 DEF Executed
  <2>. QED  BY <1>7, <2>2, <2>4 DEF Executed
<1>8. ASSUME NEW r \in Request, ImpalaFails(r)  PROVE TypeOK'
  BY <1>8, RaiseTypes DEF ImpalaFails
<1>9. ASSUME NEW r \in Request, Write(r)  PROVE TypeOK'
  <2>1. Append(buffer[r], "json") \in Seq(Chunk)
    BY DEF Chunk
  <2>2. stage' \in [Request -> Stage] /\ outcome' \in [Request -> Outcome \cup {None}]
    BY <1>0, <1>9, MoveTypes, EndTypes, RaiseTypes DEF Write
  <2>. QED  BY <1>9, <2>1, <2>2, ZenonT(60) DEF Write
<1>10. CASE Take
  BY <1>0, <1>10 DEF Take, InWorker
<1>11. CASE Restart
  BY <1>0, <1>11 DEF Restart
<1>12. CASE UNCHANGED vars
  BY <1>12 DEF vars
<1>. QED
  BY <1>1, <1>2, <1>3, <1>4, <1>5, <1>6, <1>7, <1>8, <1>9, <1>10, <1>11, <1>12 DEF Next

\* Every step keeps every request in the phase of its stage.
LEMMA ProgressPhases == Progress /\ [Next]_vars => \A q \in Request : Phase(q)'
<1>. SUFFICES ASSUME Progress, [Next]_vars, NEW q \in Request
             PROVE  Phase(q)'
  OBVIOUS
<1>. USE DEF TypeOK
<1>0. TypeOK /\ QueueExact /\ Phase(q)
  BY DEF Progress
<1>1. ASSUME NEW r \in Request, Ask(r)  PROVE Phase(q)'
  <2>1. CASE q # r
    BY <1>0, <1>1, <2>1, OthersKeepPhase DEF Ask
  <2>2. CASE q = r
    BY <1>0, <1>1, <2>2 DEF Ask, Phase, InWorker
  <2>. QED  BY <2>1, <2>2
<1>2. ASSUME NEW r \in Request, GiveUp(r)  PROVE Phase(q)'
  <2>1. CASE q # r
    BY <1>0, <1>2, <2>1, OthersKeepPhase DEF GiveUp
  <2>2. CASE q = r
    BY <1>0, <1>2, <2>2 DEF GiveUp, Phase, InWorker
  <2>. QED  BY <2>1, <2>2
<1>3. ASSUME NEW r \in Request, ServePage(r)  PROVE Phase(q)'
  <2>1. CASE q = r
    <3>1. client[r] # "idle" /\ "page" \in Outcome /\ outcome'[r] = "page"
      BY <1>0, <1>3, <2>1 DEF ServePage, Phase, Outcome
    <3>2. Finish(r, 200, <<"page">>)
      BY <1>3 DEF ServePage
    <3>3. Phase(r)'
      <4>. HIDE DEF TypeOK
      <4>. QED  BY <1>0, <3>1, <3>2, ExpectedValues, FinishPhase
    <3>. QED  BY <2>1, <3>3
  <2>2. CASE q # r
    BY <1>0, <1>3, <2>2, OthersKeepPhase DEF ServePage, Finish
  <2>. QED  BY <2>1, <2>2
<1>4. ASSUME NEW r \in Request, Submit(r)  PROVE Phase(q)'
  BY <1>0, <1>4 DEF Submit, Enqueue, Phase, InWorker
<1>5. ASSUME NEW r \in Request, Resume(r)  PROVE Phase(q)'
  <2>1. CASE q # r
    BY <1>0, <1>5, <2>1, OthersKeepPhase DEF Resume, Finish
  <2>2. CASE q = r /\ stage[r] = "resolved"
    <3>1. client[r] # "idle" /\ outcome'[r] = outcome[r] /\ Finish(r, 200, buffer[r])
      BY <1>0, <1>5, <2>2 DEF Resume, Phase
    <3>2. outcome[r] \in Outcome /\ Expected(outcome[r]) = [status |-> 200, body |-> buffer[r]]
      BY <1>0, <2>2, ExpectedValues DEF Phase, Outcome
    <3>. QED  BY <1>0, <2>2, <3>1, <3>2, FinishPhase
  <2>3. CASE q = r /\ stage[r] = "failed"
    <3>1. buffer[r] \o <<"problem", "databaseError">> = <<"problem", "databaseError">>
      BY <1>0, <2>3 DEF Phase
    <3>2. client[r] # "idle" /\ "error" \in Outcome /\ outcome'[r] = "error"
      BY <1>0, <1>5, <2>3 DEF Resume, Phase, Outcome
    <3>3. Finish(r, 500, <<"problem", "databaseError">>)
      BY <1>5, <2>3, <3>1 DEF Resume
    <3>4. Phase(r)'
      <4>. HIDE DEF TypeOK
      <4>. QED  BY <1>0, <3>2, <3>3, ExpectedValues, FinishPhase
    <3>. QED  BY <2>3, <3>4
  <2>. QED  BY <1>5, <2>1, <2>2, <2>3 DEF Resume
<1>6. ASSUME NEW r \in Request, Connected(r)  PROVE Phase(q)'
  <2>1. CASE q # r
    BY <1>0, <1>6, <2>1, OthersKeepPhase DEF Connected, MoveTo, EndWith, Raise
  <2>2. CASE q = r
    BY <1>0, <1>6, <2>2 DEF Connected, MoveTo, EndWith, Raise, Phase, InWorker
  <2>. QED  BY <2>1, <2>2
<1>7. ASSUME NEW r \in Request, Executed(r)  PROVE Phase(q)'
  BY <1>0, <1>7 DEF Executed, MoveTo, Phase, InWorker
<1>8. ASSUME NEW r \in Request, ImpalaFails(r)  PROVE Phase(q)'
  <2>1. CASE q # r
    BY <1>0, <1>8, <2>1, OthersKeepPhase DEF ImpalaFails, MoveTo, EndWith, Raise
  <2>2. CASE q = r
    BY <1>0, <1>8, <2>2 DEF ImpalaFails, MoveTo, EndWith, Raise, Phase, InWorker
  <2>. QED  BY <2>1, <2>2
<1>9. ASSUME NEW r \in Request, Write(r)  PROVE Phase(q)'
  <2>1. CASE q # r
    BY <1>0, <1>9, <2>1, OthersKeepPhase DEF Write, MoveTo, EndWith, Raise
  <2>2. CASE q = r
    BY <1>0, <1>9, <2>2 DEF Write, MoveTo, EndWith, Raise, Phase, InWorker
  <2>. QED  BY <2>1, <2>2
<1>10. CASE Take
  <2>1. Head(queue) \in Request
    <3>1. queue \in Seq(Request) /\ queue # <<>>
      BY <1>0, <1>10 DEF Take
    <3>. QED  BY <3>1
  <2>2. CASE q # Head(queue)
    BY <1>0, <1>10, <2>2, OthersKeepPhase DEF Take
  <2>3. CASE q = Head(queue)
    <3>1. client' = client /\ stage'[q] = "connect" /\ UNCHANGED <<buffer, outcome, reply>>
      BY <1>0, <1>10, <2>1, <2>3 DEF Take
    <3>2. stage[q] = "queued"
      BY <1>0, <1>10, <2>3 DEF Take, QueueExact
    <3>. QED  BY <1>0, <3>1, <3>2 DEF Phase, InWorker
  <2>. QED  BY <2>2, <2>3
<1>11. CASE Restart
  BY <1>0, <1>11, ZenonT(60) DEF Restart, Phase, InWorker, Expected
<1>12. CASE UNCHANGED vars
  BY <1>0, <1>12, OthersKeepPhase DEF vars
<1>. QED
  BY <1>1, <1>2, <1>3, <1>4, <1>5, <1>6, <1>7, <1>8, <1>9, <1>10, <1>11, <1>12 DEF Next

\* A queue of queued requests, each once, stays one when a request that was not
\* queued is queued at its end ...
LEMMA AppendExact ==
  ASSUME NEW S, NEW q \in Seq(S), NEW r \in S, NEW old, NEW new,
         \A i \in 1..Len(q) : old[q[i]] = "queued",
         \A i, j \in 1..Len(q) : q[i] = q[j] => i = j,
         old[r] # "queued", new[r] = "queued", \A x \in S \ {r} : new[x] = old[x]
  PROVE  /\ \A i \in 1..Len(Append(q, r)) : new[Append(q, r)[i]] = "queued"
         /\ \A i, j \in 1..Len(Append(q, r)) :
              Append(q, r)[i] = Append(q, r)[j] => i = j
<1>. DEFINE p == Append(q, r)
<1>1. Len(p) = Len(q) + 1 /\ p[Len(q) + 1] = r /\ \A i \in 1..Len(q) : p[i] = q[i]
  OBVIOUS
<1>2. \A i \in 1..Len(q) : q[i] \in S /\ q[i] # r
  OBVIOUS
<1>. HIDE DEF p
<1>3. ASSUME NEW i \in 1..Len(p)  PROVE i \in 1..Len(q) \/ i = Len(q) + 1
  BY <1>1
<1>4. \A i \in 1..Len(p) : new[p[i]] = "queued"
  BY <1>1, <1>2, <1>3
<1>5. \A i, j \in 1..Len(p) : p[i] = p[j] => i = j
  BY <1>1, <1>2, <1>3
<1>. QED  BY <1>4, <1>5 DEF p

\* ... and when its first request is taken.
LEMMA TailExact ==
  ASSUME NEW S, NEW q \in Seq(S), q # <<>>, NEW old, NEW new,
         \A i \in 1..Len(q) : old[q[i]] = "queued",
         \A i, j \in 1..Len(q) : q[i] = q[j] => i = j,
         \A x \in S \ {Head(q)} : new[x] = old[x]
  PROVE  /\ \A i \in 1..Len(Tail(q)) : new[Tail(q)[i]] = "queued"
         /\ \A i, j \in 1..Len(Tail(q)) : Tail(q)[i] = Tail(q)[j] => i = j
<1>. DEFINE p == Tail(q)
<1>1. Len(p) = Len(q) - 1 /\ Head(q) = q[1] /\ Len(q) \in Nat \ {0}
  OBVIOUS
<1>2. \A i \in 1..Len(p) : p[i] = q[i + 1] /\ i + 1 \in 1..Len(q)
  OBVIOUS
<1>3. \A i \in 1..Len(p) : q[i + 1] \in S /\ q[i + 1] # q[1]
  BY <1>1, <1>2
<1>. HIDE DEF p
<1>4. \A i \in 1..Len(p) : new[p[i]] = "queued"
  BY <1>1, <1>2, <1>3
<1>5. \A i, j \in 1..Len(p) : p[i] = p[j] => i = j
  BY <1>1, <1>2
<1>. QED  BY <1>4, <1>5 DEF p

\* Every step keeps the queue exact.
LEMMA ProgressQueue == Progress /\ [Next]_vars => QueueExact'
<1>. SUFFICES ASSUME TypeOK, QueueExact, \A r \in Request : Phase(r), [Next]_vars
             PROVE  QueueExact'
  BY DEF Progress
<1>. USE DEF TypeOK, QueueExact
<1>1. ASSUME NEW r \in Request, stage[r] # "queued", queue' = queue,
             \A q \in Request \ {r} : stage'[q] = stage[q]
      PROVE  QueueExact'
  BY <1>1
<1>2. ASSUME NEW r \in Request, Ask(r) \/ GiveUp(r) \/ ServePage(r) \/ Resume(r)
      PROVE  QueueExact'
  <2>1. CASE Ask(r)
    BY <1>1, <2>1 DEF Ask, Phase
  <2>2. CASE GiveUp(r)
    BY <2>2 DEF GiveUp
  <2>3. CASE ServePage(r) \/ Resume(r)
    BY <1>1, <2>3 DEF ServePage, Resume, Finish
  <2>. QED  BY <1>2, <2>1, <2>2, <2>3
<1>3. ASSUME NEW r \in Request, Connected(r) \/ Executed(r) \/ ImpalaFails(r) \/ Write(r)
      PROVE  QueueExact'
  BY <1>1, <1>3 DEF Connected, Executed, ImpalaFails, Write, MoveTo, Raise
<1>4. ASSUME NEW r \in Request, Submit(r)  PROVE QueueExact'
  <2>1. /\ stage[r] # "queued" /\ stage'[r] = "queued" /\ queue' = Append(queue, r)
        /\ \A q \in Request \ {r} : stage'[q] = stage[q]
    BY <1>4 DEF Submit, Enqueue
  <2>. HIDE DEF TypeOK
  <2>. QED  BY <2>1, AppendExact DEF TypeOK
<1>5. CASE Take
  <2>1. /\ queue # <<>> /\ queue' = Tail(queue)
        /\ \A q \in Request \ {Head(queue)} : stage'[q] = stage[q]
    BY <1>5 DEF Take
  <2>2. queue \in Seq(Request)
    OBVIOUS
  <2>. HIDE DEF TypeOK
  <2>3. /\ \A i \in 1..Len(Tail(queue)) : stage'[Tail(queue)[i]] = "queued"
        /\ \A i, j \in 1..Len(Tail(queue)) :
             Tail(queue)[i] = Tail(queue)[j] => i = j
    BY <2>1, <2>2, TailExact
  <2>. QED  BY <2>1, <2>3
<1>6. CASE Restart
  BY <1>6 DEF Restart
<1>7. CASE UNCHANGED vars
  BY <1>7 DEF vars
<1>. QED  BY <1>2, <1>3, <1>4, <1>5, <1>6, <1>7 DEF Next

\* Progress holds in every reachable state.
LEMMA ProgressInvariant == Spec => []Progress
<1>1. Progress /\ [Next]_vars => Progress'
  BY ProgressTypes, ProgressQueue, ProgressPhases DEF Progress
<1>. QED  BY ProgressInit, <1>1, PTL DEF Spec

-----------------------------------------------------------------------------
\* Every variable of the query service keeps its type.
THEOREM TypeCorrect == Spec => []TypeOK
<1>1. Progress => TypeOK
  BY DEF Progress
<1>. QED  BY ProgressInvariant, <1>1, PTL

\* A reply is sent only when the query has ended, and is the one of its outcome: the
\* whole JSON answer with 200, or the error text with 500, never a mixture.
THEOREM ReplyCorrect == Spec => []ReplyTellsOutcome
<1>1. Progress => ReplyTellsOutcome
  BY ConstantsAssumption DEF Progress, Phase, ReplyTellsOutcome, Outcome
<1>. QED  BY ProgressInvariant, <1>1, PTL
-----------------------------------------------------------------------------
(* The work queue in order                                                 *)

\* FirstComeFirstServed is not inductive: a request that is submitted must not be among
\* those submitted before, nor one that is taken among those that wait behind it.
NoneSubmittedYet ==
  \A i \in 1..Len(order) : stage[order[i]] \notin {"none", "arrived"}

OrderExact == FirstComeFirstServed /\ NoneSubmittedYet

\* A request that is neither queued nor about to be goes on: the order is not touched.
LEMMA OrderUntouched ==
  ASSUME TypeOK, OrderExact, NEW r \in Request,
         UNCHANGED <<queue, order>>, \A q \in Request \ {r} : stage'[q] = stage[q],
         stage[r] # "queued", stage'[r] # "queued",
         stage[r] \in {"none", "arrived"} \/ stage'[r] \notin {"none", "arrived"}
  PROVE  OrderExact'
<1>1. \A i \in 1..Len(order) : order[i] \in Request
  BY DEF TypeOK
<1>. QED  BY <1>1 DEF OrderExact, FirstComeFirstServed, NoneSubmittedYet

\* To be the last items of a sequence, item by item.
LEMMA EndItems ==
  ASSUME NEW S, NEW s \in Seq(S), NEW q \in Seq(S), Len(q) <= Len(s)
  PROVE  (q = SubSeq(s, Len(s) - Len(q) + 1, Len(s)))
           <=> \A i \in 1..Len(q) : q[i] = s[Len(s) - Len(q) + i]
<1>. DEFINE k == Len(s) - Len(q)
            t == SubSeq(s, k + 1, Len(s))
<1>1. k \in Nat /\ k + 1 \in Int /\ Len(s) \in Nat /\ Len(q) \in Nat /\ k + Len(q) = Len(s)
  OBVIOUS
<1>2. \A i \in (k + 1)..Len(s) : s[i] \in S
  BY <1>1
<1>. HIDE DEF k
<1>3. /\ t \in Seq(S)
      /\ Len(t) = IF k + 1 <= Len(s) THEN Len(s) - (k + 1) + 1 ELSE 0
      /\ \A i \in 1..(Len(s) - (k + 1) + 1) : t[i] = s[k + 1 + i - 1]
  BY <1>1, <1>2, SubSeqProperties
<1>. HIDE DEF t
<1>4. Len(t) = Len(q) /\ \A i \in 1..Len(q) : t[i] = s[k + i]
  <2>1. Len(s) - (k + 1) + 1 = Len(q) /\ (k + 1 <= Len(s) <=> Len(q) # 0)
    BY <1>1
  <2>2. Len(t) = Len(q)
    BY <1>1, <1>3, <2>1
  <2>3. ASSUME NEW i \in 1..Len(q)  PROVE t[i] = s[k + i]
    <3>1. t[i] = s[k + 1 + i - 1]
      BY <1>3, <2>1
    <3>2. k + 1 + i - 1 = k + i
      BY <1>1
    <3>. QED  BY <3>1, <3>2
  <2>. QED  BY <2>2, <2>3
<1>5. (\A i \in 1..Len(q) : q[i] = t[i]) => q = t
  BY <1>3, <1>4, SeqEqual
<1>6. (q = t) <=> \A i \in 1..Len(q) : q[i] = s[k + i]
  BY <1>4, <1>5
<1>. QED  BY <1>6 DEF k, t

\* The last items of a sequence to which one more is appended.
LEMMA AppendToEnd ==
  ASSUME NEW S, NEW s \in Seq(S), NEW q \in Seq(S), NEW r \in S,
         Len(q) <= Len(s), q = SubSeq(s, Len(s) - Len(q) + 1, Len(s))
  PROVE  LET s1 == Append(s, r)  q1 == Append(q, r) IN
         /\ Len(s1) - Len(q1) = Len(s) - Len(q)
         /\ q1 = SubSeq(s1, Len(s1) - Len(q1) + 1, Len(s1))
<1>. DEFINE s1 == Append(s, r)
            q1 == Append(q, r)
<1>1. \A i \in 1..Len(q) : q[i] = s[Len(s) - Len(q) + i]
  BY EndItems
<1>2. /\ s1 \in Seq(S) /\ Len(s1) = Len(s) + 1 /\ s1[Len(s) + 1] = r
      /\ \A i \in 1..Len(s) : s1[i] = s[i]
  BY AppendProperties
<1>3. /\ q1 \in Seq(S) /\ Len(q1) = Len(q) + 1 /\ q1[Len(q) + 1] = r
      /\ \A i \in 1..Len(q) : q1[i] = q[i]
  BY AppendProperties
<1>. HIDE DEF s1, q1
<1>4. ASSUME NEW i \in 1..Len(q1)  PROVE q1[i] = s1[Len(s1) - Len(q1) + i]
  <2>1. CASE i = Len(q) + 1
    BY <1>2, <1>3, <2>1
  <2>2. CASE i \in 1..Len(q)
    <3>1. Len(s) - Len(q) + i \in 1..Len(s)
      BY <2>2
    <3>. QED  BY <1>1, <1>2, <1>3, <2>2, <3>1
  <2>. QED  BY <1>3, <2>1, <2>2
<1>5. Len(q1) <= Len(s1) /\ Len(s1) - Len(q1) = Len(s) - Len(q)
  BY <1>2, <1>3
<1>6. q1 = SubSeq(s1, Len(s1) - Len(q1) + 1, Len(s1))
  BY <1>2, <1>3, <1>4, <1>5, EndItems
<1>. QED  BY <1>5, <1>6 DEF s1, q1

\* The last items of a sequence without the first of them.
LEMMA TailOfEnd ==
  ASSUME NEW S, NEW s \in Seq(S), NEW q \in Seq(S), q # <<>>,
         Len(q) <= Len(s), q = SubSeq(s, Len(s) - Len(q) + 1, Len(s))
  PROVE  /\ Len(Tail(q)) = Len(q) - 1
         /\ Head(q) = s[Len(s) - Len(q) + 1]
         /\ Tail(q) = SubSeq(s, Len(s) - Len(Tail(q)) + 1, Len(s))
<1>. DEFINE p == Tail(q)
<1>1. \A i \in 1..Len(q) : q[i] = s[Len(s) - Len(q) + i]
  BY EndItems
<1>2. /\ p \in Seq(S) /\ Len(p) = Len(q) - 1 /\ \A i \in 1..Len(p) : p[i] = q[i + 1]
      /\ Head(q) = q[1] /\ Len(q) >= 1
  BY HeadTailProperties
<1>. HIDE DEF p
<1>3. \A i \in 1..Len(p) : p[i] = s[Len(s) - Len(p) + i]
  BY <1>1, <1>2
<1>4. p = SubSeq(s, Len(s) - Len(p) + 1, Len(s))
  BY <1>2, <1>3, EndItems
<1>5. Head(q) = s[Len(s) - Len(q) + 1]
  BY <1>1, <1>2
<1>. QED  BY <1>2, <1>4, <1>5 DEF p

\* The order in which queries start is inductive.
LEMMA OrderInductive == Progress /\ OrderExact /\ [Next]_vars => OrderExact'
<1>. SUFFICES ASSUME Progress, OrderExact, [Next]_vars  PROVE OrderExact'
  OBVIOUS
<1>0. TypeOK /\ QueueExact /\ \A r \in Request : Phase(r)
  BY DEF Progress
<1>1. ASSUME NEW r \in Request, Ask(r)  PROVE OrderExact'
  <2>1. stage[r] = "none"
    BY <1>0, <1>1 DEF Ask, Phase
  <2>. QED  BY <1>0, <1>1, <2>1, OrderUntouched DEF Ask, TypeOK
<1>2. ASSUME NEW r \in Request, GiveUp(r)  PROVE OrderExact'
  BY <1>2 DEF GiveUp, OrderExact, FirstComeFirstServed, NoneSubmittedYet
<1>3. ASSUME NEW r \in Request, ServePage(r) \/ Resume(r)  PROVE OrderExact'
  <2>1. /\ UNCHANGED <<queue, order>> /\ \A q \in Request \ {r} : stage'[q] = stage[q]
        /\ stage[r] # "queued" /\ stage'[r] = "finished"
    BY <1>0, <1>3 DEF ServePage, Resume, Finish, TypeOK
  <2>. QED  BY <1>0, <2>1, OrderUntouched
<1>4. ASSUME NEW r \in Request, Submit(r)  PROVE OrderExact'
  <2>1. /\ stage[r] = "arrived" /\ queue' = Append(queue, r) /\ order' = Append(order, r)
        /\ stage' = [stage EXCEPT ![r] = "queued"]
    BY <1>4 DEF Submit, Enqueue
  <2>2. queue \in Seq(Request) /\ order \in Seq(Request) /\ stage \in [Request -> Stage]
    BY <1>0 DEF TypeOK
  <2>3. Len(queue) <= Len(order)
        /\ queue = SubSeq(order, Len(order) - Len(queue) + 1, Len(order))
    BY <2>2 DEF OrderExact, FirstComeFirstServed
  <2>4. /\ Len(order') - Len(queue') = Len(order) - Len(queue)
        /\ queue' = SubSeq(order', Len(order') - Len(queue') + 1, Len(order'))
    BY <2>1, <2>2, <2>3, AppendToEnd, ZenonT(60)
  <2>5. \A i \in 1..Len(order) : order[i] \in Request /\ order[i] # r /\ order'[i] = order[i]
    BY <2>1, <2>2 DEF OrderExact, NoneSubmittedYet
  <2>6. Len(order') = Len(order) + 1 /\ order'[Len(order) + 1] = r
    BY <2>1, <2>2
  <2>7. \A i \in 1..Len(order') : i \in 1..Len(order) \/ i = Len(order) + 1
    BY <2>2, <2>6
  <2>8. \A i \in 1..Len(order') : (stage'[order'[i]] = "queued") <=> i > Len(order) - Len(queue)
    BY <2>1, <2>2, <2>3, <2>5, <2>6, <2>7 DEF OrderExact, FirstComeFirstServed
  <2>9. NoneSubmittedYet'
    BY <2>1, <2>2, <2>5, <2>6, <2>7 DEF OrderExact, NoneSubmittedYet
  <2>10. FirstComeFirstServed'
    BY <2>2, <2>3, <2>4, <2>8 DEF FirstComeFirstServed
  <2>. QED  BY <2>9, <2>10 DEF OrderExact
<1>5. ASSUME NEW r \in Request, Connected(r) \/ Executed(r) \/ ImpalaFails(r) \/ Write(r)
      PROVE  OrderExact'
  <2>1. /\ UNCHANGED <<queue, order>> /\ \A q \in Request \ {r} : stage'[q] = stage[q]
        /\ stage[r] # "queued" /\ stage'[r] \notin {"none", "arrived", "queued"}
    BY <1>0, <1>5 DEF Connected, Executed, ImpalaFails, Write, MoveTo, Raise, TypeOK
  <2>. QED  BY <1>0, <2>1, OrderUntouched
<1>6. CASE Take
  <2>1. /\ queue # <<>> /\ queue' = Tail(queue) /\ order' = order
        /\ stage' = [stage EXCEPT ![Head(queue)] = "connect"]
    BY <1>6 DEF Take
  <2>2. queue \in Seq(Request) /\ order \in Seq(Request) /\ stage \in [Request -> Stage]
    BY <1>0 DEF TypeOK
  <2>. DEFINE k == Len(order) - Len(queue)
  <2>3. k \in Nat /\ queue = SubSeq(order, k + 1, Len(order)) /\ Len(queue) <= Len(order)
    BY <2>2 DEF OrderExact, FirstComeFirstServed
  <2>4. /\ Len(queue') = Len(queue) - 1
        /\ Head(queue) = order[k + 1]
        /\ queue' = SubSeq(order, Len(order) - Len(queue') + 1, Len(order))
    BY <2>1, <2>2, <2>3, TailOfEnd
  <2>5. Len(order) - Len(queue') = k + 1 /\ k + 1 \in 1..Len(order)
    BY <2>1, <2>2, <2>3, <2>4
  <2>6. ASSUME NEW i \in 1..Len(order), i > k + 1  PROVE order[i] # Head(queue)
    <3>1. i - k \in 1..Len(queue) /\ 1 \in 1..Len(queue) /\ i - k # 1
      BY <2>2, <2>3, <2>6
    <3>2. \A n \in 1..Len(queue) : queue[n] = order[k + n]
      BY <2>2, <2>3, EndItems
    <3>3. queue[i - k] = order[i] /\ queue[1] = order[k + 1]
      BY <2>3, <3>1, <3>2
    <3>. QED  BY <1>0, <2>4, <3>1, <3>3 DEF QueueExact
  <2>7. \A i \in 1..Len(order) : order[i] \in Request
    BY <2>2
  <2>8. \A i \in 1..Len(order) : (stage[order[i]] = "queued") <=> i > k
    BY DEF OrderExact, FirstComeFirstServed
  <2>9. \A i \in 1..Len(order) : (stage'[order[i]] = "queued") <=> i > k + 1
    <3>1. ASSUME NEW i \in 1..Len(order), i > k + 1  PROVE stage'[order[i]] = "queued"
      BY <2>1, <2>2, <2>3, <2>6, <2>7, <2>8, <3>1
    <3>2. ASSUME NEW i \in 1..Len(order), ~(i > k + 1)  PROVE stage'[order[i]] # "queued"
      <4>1. CASE i = k + 1
        BY <2>1, <2>2, <2>4, <2>7, <4>1
      <4>2. CASE i <= k
        BY <2>1, <2>2, <2>3, <2>7, <2>8, <4>2
      <4>. QED  BY <2>3, <3>2, <4>1, <4>2
    <3>. QED  BY <3>1, <3>2
  <2>10. NoneSubmittedYet'
    BY <2>1, <2>2, <2>7 DEF OrderExact, NoneSubmittedYet
  <2>. HIDE DEF k
  <2>11. FirstComeFirstServed'
    BY <2>1, <2>3, <2>4, <2>5, <2>9 DEF FirstComeFirstServed
  <2>. QED  BY <2>10, <2>11 DEF OrderExact
<1>7. CASE Restart
  BY <1>7 DEF Restart, OrderExact, FirstComeFirstServed, NoneSubmittedYet
<1>8. CASE UNCHANGED vars
  BY <1>8 DEF vars, OrderExact, FirstComeFirstServed, NoneSubmittedYet
<1>. QED
  BY <1>1, <1>2, <1>3, <1>4, <1>5, <1>6, <1>7, <1>8 DEF Next

\* Queries are taken in the order in which they were submitted, for any number of
\* requests and workers.
THEOREM OrderCorrect == Spec => []FirstComeFirstServed
<1>1. Init => OrderExact
  BY DEF Init, OrderExact, FirstComeFirstServed, NoneSubmittedYet
<1>2. OrderExact => FirstComeFirstServed
  BY DEF OrderExact
<1>. QED  BY ProgressInvariant, OrderInductive, <1>1, <1>2, PTL DEF Spec

-----------------------------------------------------------------------------
(* The pool                                                                *)

\* The workers that are busy are finitely many, whatever the set of requests.
PoolBounded == IsFiniteSet(Running) /\ PoolExact

\* A request that does not enter a worker leaves the pool as it is, or gives one free.
LEMMA PoolUntouched ==
  ASSUME TypeOK, PoolBounded, UNCHANGED <<queue, threads>>,
         \A q \in Request : stage'[q] \in InWorker => stage[q] \in InWorker
  PROVE  PoolBounded'
<1>1. Running' \subseteq Running /\ IsFiniteSet(Running)
  BY DEF Running, PoolBounded
<1>2. /\ IsFiniteSet(Running') /\ Cardinality(Running') <= Cardinality(Running)
      /\ Cardinality(Running') \in Nat /\ Cardinality(Running) \in Nat
  BY <1>1, FS_Subset, FS_CardinalityType
<1>3. queue \in Seq(Request) /\ threads \in 0..MaxWorkers
  BY DEF TypeOK
<1>. HIDE DEF Running
<1>. QED  BY <1>2, <1>3, ConstantsAssumption DEF PoolBounded, PoolExact

\* The bounds of the pool are inductive.
LEMMA PoolInductive == Progress /\ PoolBounded /\ [Next]_vars => PoolBounded'
<1>. SUFFICES ASSUME Progress, PoolBounded, [Next]_vars  PROVE PoolBounded'
  OBVIOUS
<1>. USE ConstantsAssumption
<1>0. /\ TypeOK /\ QueueExact /\ \A r \in Request : Phase(r)
      /\ queue \in Seq(Request) /\ stage \in [Request -> Stage] /\ threads \in 0..MaxWorkers
      /\ Cardinality(Running) \in Nat
  BY FS_CardinalityType DEF Progress, TypeOK, PoolBounded
<1>1. ASSUME NEW r \in Request, Ask(r) \/ GiveUp(r) \/ ServePage(r) \/ Resume(r)
      PROVE  PoolBounded'
  <2>1. UNCHANGED <<queue, threads>>
    BY <1>1 DEF Ask, GiveUp, ServePage, Resume, Finish
  <2>2. \A q \in Request : stage'[q] \in InWorker => stage[q] \in InWorker
    BY <1>0, <1>1 DEF Ask, GiveUp, ServePage, Resume, Finish, InWorker
  <2>. QED  BY <1>0, <2>1, <2>2, PoolUntouched
<1>2. ASSUME NEW r \in Request, Connected(r) \/ Executed(r) \/ ImpalaFails(r) \/ Write(r)
      PROVE  PoolBounded'
  <2>1. UNCHANGED <<queue, threads>>
    BY <1>2 DEF Connected, Executed, ImpalaFails, Write
  <2>2. stage[r] \in InWorker /\ \A q \in Request \ {r} : stage'[q] = stage[q]
    BY <1>0, <1>2 DEF Connected, Executed, ImpalaFails, Write, MoveTo, Raise, InWorker
  <2>. QED  BY <1>0, <2>1, <2>2, PoolUntouched
<1>3. ASSUME NEW r \in Request, Submit(r)  PROVE PoolBounded'
  <2>1. /\ stage[r] = "arrived" /\ stage' = [stage EXCEPT ![r] = "queued"]
        /\ queue' = Append(queue, r) /\ threads' = OneMoreThread
    BY <1>3 DEF Submit, Enqueue
  <2>2. Running' = Running
    BY <1>0, <2>1 DEF Running, InWorker
  <2>3. Len(queue') = Len(queue) + 1 /\ Len(queue) \in Nat
    BY <1>0, <2>1
  <2>. HIDE DEF Running
  <2>. QED  BY <1>0, <2>1, <2>2, <2>3 DEF PoolBounded, PoolExact, OneMoreThread
<1>4. CASE Take
  <2>1. /\ queue # <<>> /\ Cardinality(Running) < threads /\ threads' = threads
        /\ queue' = Tail(queue) /\ stage' = [stage EXCEPT ![Head(queue)] = "connect"]
    BY <1>4 DEF Take
  <2>2. Len(queue') = Len(queue) - 1 /\ Len(queue) \in Nat /\ Head(queue) \in Request
    BY <1>0, <2>1
  <2>3. stage[Head(queue)] = "queued"
    BY <1>0, <2>1 DEF QueueExact
  <2>4. Running' = Running \cup {Head(queue)} /\ Head(queue) \notin Running
    BY <1>0, <2>1, <2>2, <2>3 DEF Running, InWorker
  <2>5. IsFiniteSet(Running') /\ Cardinality(Running') = Cardinality(Running) + 1
    BY <2>4, FS_AddElement DEF PoolBounded
  <2>. HIDE DEF Running
  <2>. QED  BY <1>0, <2>1, <2>2, <2>5 DEF PoolBounded, PoolExact
<1>5. CASE Restart
  <2>1. Running' = {} /\ threads' = 0 /\ Len(queue') = 0
    BY <1>5 DEF Restart, Running, InWorker
  <2>. QED  BY <2>1, FS_EmptySet DEF PoolBounded, PoolExact
<1>6. CASE UNCHANGED vars
  BY <1>0, <1>6, PoolUntouched DEF vars
<1>. QED  BY <1>1, <1>2, <1>3, <1>4, <1>5, <1>6 DEF Next

\* The pool is never larger than it may be, and no query waits while there is a thread
\* for it or room for one more, for any number of requests and workers.
THEOREM PoolCorrect == Spec => []PoolExact
<1>1. Init => PoolBounded
  <2>1. Init => Running = {} /\ threads = 0 /\ Len(queue) = 0
    BY DEF Init, Running, InWorker
  <2>. QED  BY <2>1, FS_EmptySet, ConstantsAssumption DEF PoolBounded, PoolExact
<1>2. PoolBounded => PoolExact
  BY DEF PoolBounded
<1>. QED  BY ProgressInvariant, PoolInductive, <1>1, <1>2, PTL DEF Spec
-----------------------------------------------------------------------------
(* QueryService implements RequestReply                                    *)

\* Who was answered was answered by the end of its handler.
AnsweredAtTheEnd ==
  \A r \in Request : client[r] = "answered" => stage[r] = "finished"

\* What is known of an answered request is inductive.
LEMMA AnsweredInductive ==
  Progress /\ AnsweredAtTheEnd /\ [Next]_vars => AnsweredAtTheEnd'
<1>. SUFFICES ASSUME Progress, AnsweredAtTheEnd, [Next]_vars, NEW q \in Request,
                     client'[q] = "answered"
             PROVE  stage'[q] = "finished"
  BY DEF AnsweredAtTheEnd
<1>. USE DEF TypeOK, AnsweredAtTheEnd
<1>0. TypeOK /\ QueueExact /\ Phase(q)
  BY DEF Progress
<1>1. ASSUME NEW r \in Request, Ask(r) \/ GiveUp(r) \/ ServePage(r) \/ Submit(r) \/ Resume(r)
      PROVE  stage'[q] = "finished"
  BY <1>0, <1>1 DEF Ask, GiveUp, ServePage, Submit, Enqueue, Resume, Finish
<1>2. ASSUME NEW r \in Request, Connected(r) \/ Executed(r) \/ ImpalaFails(r) \/ Write(r)
      PROVE  stage'[q] = "finished"
  BY <1>0, <1>2 DEF Connected, Executed, ImpalaFails, Write, MoveTo, Raise
<1>3. CASE Take
  <2>1. stage[Head(queue)] = "queued"
    BY <1>0, <1>3 DEF Take, QueueExact
  <2>. QED  BY <1>0, <1>3, <2>1 DEF Take
<1>4. CASE Restart
  BY <1>0, <1>4 DEF Restart
<1>5. CASE UNCHANGED vars
  BY <1>0, <1>5 DEF vars
<1>. QED  BY <1>1, <1>2, <1>3, <1>4, <1>5 DEF Next

\* From the reply one can tell the outcome ...
LEMMA ExpectedDiffers ==
  ASSUME NEW o \in Outcome, NEW p \in Outcome, Expected(o) = Expected(p)
  PROVE  o = p
<1>. DEFINE Body(x) == CASE x = "json" -> <<"json">> [] x = "page" -> <<"page">>
                         [] x = "empty" -> <<>> [] x = "error" -> <<"problem", "databaseError">>
<1>1. \A x \in Outcome : Expected(x).body = Body(x)
  BY ExpectedValues DEF Outcome
<1>2. /\ <<"json">>[1] = "json" /\ Len(<<"json">>) = 1
      /\ <<"page">>[1] = "page" /\ Len(<<"page">>) = 1
      /\ Len(<<>>) = 0 /\ Len(<<"problem", "databaseError">>) = 2
  OBVIOUS
<1>3. /\ <<"json">> # <<"page">> /\ <<"json">> # <<>> /\ <<"page">> # <<>>
      /\ <<"problem", "databaseError">> \notin {<<"json">>, <<"page">>, <<>>}
  BY <1>2
<1>4. Body(o) = Body(p)
  BY <1>1, ZenonT(60)
<1>. QED  BY <1>3, <1>4 DEF Outcome

\* ... so that what a client was told is the outcome of its query.
LEMMA ToldIsOutcome ==
  Progress /\ AnsweredAtTheEnd =>
    \A r \in Request :
      /\ Told(r) = IF client[r] = "answered" THEN outcome[r] ELSE None
      /\ client[r] = "answered" => outcome[r] \in Outcome
<1>. SUFFICES ASSUME Progress, AnsweredAtTheEnd, NEW r \in Request
             PROVE  /\ Told(r) = IF client[r] = "answered" THEN outcome[r] ELSE None
                    /\ client[r] = "answered" => outcome[r] \in Outcome
  OBVIOUS
<1>1. CASE client[r] = "answered"
  <2>1. outcome[r] \in Outcome /\ reply[r] = Expected(outcome[r])
    BY <1>1 DEF Progress, AnsweredAtTheEnd, Phase
  <2>2. \A o \in Outcome : reply[r] = Expected(o) => o = outcome[r]
    BY <2>1, ExpectedDiffers
  <2>. QED  BY <1>1, <2>1, <2>2 DEF Told
<1>. QED  BY <1>1 DEF Told

\* What clients are told is inductive.
LEMMA ToldIsOutcomeNext ==
  (Progress /\ AnsweredAtTheEnd =>
    \A r \in Request :
      /\ Told(r) = IF client[r] = "answered" THEN outcome[r] ELSE None
      /\ client[r] = "answered" => outcome[r] \in Outcome)'
BY ToldIsOutcome, PTL

\* A step that changes neither what clients know nor an outcome is a stutter.
LEMMA Stutters ==
  ASSUME UNCHANGED <<client, reply, outcome>>
  PROVE  UNCHANGED AbstractReply!replyVars
BY DEF AbstractReply!replyVars, Told, Expected

\* Clients are told nothing new by a step that answers none of them and leaves the
\* outcomes of the answered ones alone.
LEMMA ToldKept ==
  ASSUME Progress, AnsweredAtTheEnd, Progress', AnsweredAtTheEnd',
         \A q \in Request : /\ client'[q] = "answered" <=> client[q] = "answered"
                            /\ client[q] = "answered" => outcome'[q] = outcome[q]
  PROVE  [q \in Request |-> Told(q)]' = [q \in Request |-> Told(q)]
<1>1. \A q \in Request : Told(q) = IF client[q] = "answered" THEN outcome[q] ELSE None
  BY ToldIsOutcome
<1>2. \A q \in Request : Told(q)' = IF client'[q] = "answered" THEN outcome'[q] ELSE None
  BY ToldIsOutcomeNext
<1>. QED  BY <1>1, <1>2

\* Work that ends is what the client will be told, should it wait.
LEMMA EndsWork ==
  ASSUME Progress, AnsweredAtTheEnd, Progress', AnsweredAtTheEnd',
         NEW r \in Request, stage[r] \in {"arrived"} \cup InWorker,
         NEW o \in Outcome, EndWith(r, o), client' = client
  PROVE  AbstractReply!Finish(r)
<1>1. client[r] \notin {"idle", "answered"} /\ outcome[r] = None
  BY DEF Progress, AnsweredAtTheEnd, Phase, InWorker
<1>2. outcome' = [outcome EXCEPT ![r] = o] /\ outcome \in [Request -> Outcome \cup {None}]
  BY DEF EndWith, Progress, TypeOK
<1>3. [q \in Request |-> Told(q)]' = [q \in Request |-> Told(q)]
  BY <1>1, <1>2, ToldKept
<1>. QED  BY <1>1, <1>2, <1>3 DEF AbstractReply!Finish

\* Finishing a handler tells the client, if it is still there.
LEMMA FinishTells ==
  ASSUME Progress, AnsweredAtTheEnd, Progress', AnsweredAtTheEnd',
         NEW r \in Request, NEW status, NEW body, Finish(r, status, body),
         NEW o \in Outcome, outcome[r] \in {None, o},
         outcome' = [outcome EXCEPT ![r] = o], client[r] = "waiting"
  PROVE  AbstractReply!Tell(r)
<1>. DEFINE told == [q \in Request |-> Told(q)]
<1>1. client' = [client EXCEPT ![r] = "answered"] /\ client \in [Request -> {"idle", "waiting", "answered", "gone"}]
      /\ outcome \in [Request -> Outcome \cup {None}]
  BY DEF Progress, TypeOK, Finish
<1>2. \A q \in Request : Told(q) = IF client[q] = "answered" THEN outcome[q] ELSE None
  BY ToldIsOutcome
<1>3. \A q \in Request : Told(q)' = IF client'[q] = "answered" THEN outcome'[q] ELSE None
  BY ToldIsOutcomeNext
<1>4. told' = [told EXCEPT ![r] = o]
  BY <1>1, <1>2, <1>3
<1>. QED  BY <1>1, <1>4 DEF AbstractReply!Tell

\* Every step tells a request at most once, and what its query came to.
LEMMA StepTells ==
  Progress /\ AnsweredAtTheEnd /\ [Next]_vars /\ Progress' /\ AnsweredAtTheEnd'
    => [AbstractReply!Next]_(AbstractReply!replyVars)
<1>. SUFFICES ASSUME Progress, AnsweredAtTheEnd, [Next]_vars, Progress', AnsweredAtTheEnd'
             PROVE  AbstractReply!Next \/ UNCHANGED AbstractReply!replyVars
  OBVIOUS
<1>. DEFINE told == [q \in Request |-> Told(q)]
<1>0. /\ TypeOK /\ \A r \in Request : Phase(r)
      /\ client \in [Request -> {"idle", "waiting", "answered", "gone"}]
      /\ outcome \in [Request -> Outcome \cup {None}]
  BY DEF Progress, TypeOK
<1>1. ASSUME NEW r \in Request, Ask(r)  PROVE AbstractReply!Next
  <2>1. told' = told
    BY <1>0, <1>1, ToldKept DEF Ask
  <2>. QED  BY <1>1, <2>1 DEF Ask, AbstractReply!Next, AbstractReply!Ask
<1>2. ASSUME NEW r \in Request, GiveUp(r)  PROVE AbstractReply!Next
  <2>1. told' = told
    BY <1>0, <1>2, ToldKept DEF GiveUp
  <2>2. client' = [q \in Request |-> IF q \in {r} THEN "gone" ELSE client[q]]
    BY <1>0, <1>2 DEF GiveUp
  <2>3. AbstractReply!Lose({r})
    BY <1>2, <2>1, <2>2 DEF GiveUp, AbstractReply!Lose
  <2>. QED  BY <2>3 DEF AbstractReply!Next
<1>3. ASSUME NEW r \in Request, ServePage(r)  PROVE AbstractReply!Next
  <2>1. /\ stage[r] = "arrived" /\ Finish(r, 200, <<"page">>) /\ EndWith(r, "page")
        /\ "page" \in Outcome /\ outcome[r] = None /\ client[r] # "idle"
    BY <1>0, <1>3 DEF ServePage, EndWith, Outcome, Phase
  <2>2. CASE client[r] = "waiting"
    BY <2>1, <2>2, FinishTells DEF EndWith, AbstractReply!Next
  <2>3. CASE client[r] # "waiting"
    <3>1. client' = client /\ client[r] # "answered"
      BY <1>0, <2>1, <2>3 DEF Finish, AnsweredAtTheEnd
    <3>. QED  BY <2>1, <3>1, EndsWork DEF AbstractReply!Next
  <2>. QED  BY <2>2, <2>3
<1>4. ASSUME NEW r \in Request, Submit(r)  PROVE UNCHANGED AbstractReply!replyVars
  BY <1>4, Stutters DEF Submit, Enqueue
<1>5. ASSUME NEW r \in Request, Resume(r)
      PROVE  AbstractReply!Next \/ UNCHANGED AbstractReply!replyVars
  <2>1. /\ stage[r] \in {"resolved", "failed"} /\ outcome' = outcome
        /\ \E status, body : Finish(r, status, body)
    BY <1>5 DEF Resume
  <2>2. outcome[r] \in Outcome /\ outcome' = [outcome EXCEPT ![r] = outcome[r]]
    BY <1>0, <2>1 DEF Phase, Outcome
  <2>3. CASE client[r] = "waiting"
    BY <2>1, <2>2, <2>3, FinishTells DEF AbstractReply!Next
  <2>4. CASE client[r] # "waiting"
    <3>1. client' = client /\ client[r] # "answered"
      BY <1>0, <2>1, <2>4 DEF Finish, AnsweredAtTheEnd
    <3>2. told' = told
      BY <2>1, <3>1, ToldKept
    <3>. QED  BY <2>1, <3>1, <3>2 DEF AbstractReply!replyVars
  <2>. QED  BY <2>3, <2>4
<1>6. ASSUME NEW r \in Request, Connected(r) \/ Executed(r) \/ ImpalaFails(r) \/ Write(r)
      PROVE  AbstractReply!Next \/ UNCHANGED AbstractReply!replyVars
  <2>1. /\ stage[r] \in InWorker /\ UNCHANGED <<client, reply>>
        /\ outcome' = outcome \/ \E o \in Outcome : EndWith(r, o)
    BY <1>6 DEF Connected, Executed, ImpalaFails, Write, Raise, InWorker, Outcome
  <2>2. CASE outcome' = outcome
    BY <2>1, <2>2, Stutters
  <2>3. CASE \E o \in Outcome : EndWith(r, o)
    BY <2>1, <2>3, EndsWork DEF AbstractReply!Next
  <2>. QED  BY <2>1, <2>2, <2>3
<1>7. CASE Take
  BY <1>7, Stutters DEF Take
<1>8. CASE Restart
  <2>. DEFINE R == {r \in Request : client[r] = "waiting"}
  <2>1. told' = told
    BY <1>0, <1>8, ToldKept DEF Restart
  <2>2. client' = [q \in Request |-> IF q \in R THEN "gone" ELSE client[q]]
    BY <1>8 DEF Restart
  <2>3. AbstractReply!Lose(R)
    BY <1>8, <2>1, <2>2 DEF Restart, AbstractReply!Lose
  <2>. QED  BY <2>3 DEF AbstractReply!Next
<1>9. CASE UNCHANGED vars
  BY <1>9, Stutters DEF vars
<1>. QED
  BY <1>1, <1>2, <1>3, <1>4, <1>5, <1>6, <1>7, <1>8, <1>9 DEF Next

\* Every request is told at most once, and what its own query came to: for any requests,
\* workers and restarts, QueryService implements RequestReply.
THEOREM ReplyRefinement == Spec => ReplySpec
<1>1. Init => AbstractReply!Init
  BY DEF Init, AbstractReply!Init, Told
<1>2. Init => AnsweredAtTheEnd
  BY DEF Init, AnsweredAtTheEnd
<1>. QED
  BY ProgressInvariant, AnsweredInductive, StepTells, <1>1, <1>2, PTL
     DEF Spec, ReplySpec, AbstractReply!Spec
=============================================================================
