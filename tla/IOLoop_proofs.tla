---------------------------- MODULE IOLoop_proofs ----------------------------
(***************************************************************************)
(* Proofs about the loop and the threads that hand it their results, for   *)
(* any jobs, timers, descriptors and bounds.                               *)
(***************************************************************************)
EXTENDS IOLoop, ListFilter_proofs, FiniteSetTheorems, TLAPS

\* The variables the two threads share, and those of the job in hand.
HandoffTypeOK ==
  /\ pc \in {"swap", "collect", "run", "user", "yield", "register", "decide", "poll",
             "dispatch"}
  /\ back \in {"run", "dispatch"}
  /\ callbacks \in Seq(Job \cup {Plain}) /\ batch \in Seq(Job \cup {Plain})
  /\ future \in [Job -> {"none", "pending", "finished"}]
  /\ listed \subseteq Job
  /\ worker \in [Job -> {"none", "work", "invoke", "wake", "over"}]
  /\ resumed \in [Job -> 0..1]
  /\ now \in Nat

\* The job being yielded is a job, and only then is there one.
CurrentIsJob == IF pc \in {"yield", "register"} THEN current \in Job ELSE current = None

\* Types are kept: the timers are left out, every other variable is the threads' own.
LEMMA TypesInductive ==
  HandoffTypeOK /\ CurrentIsJob /\ [Next]_vars => HandoffTypeOK' /\ CurrentIsJob'
<1>. SUFFICES ASSUME HandoffTypeOK, CurrentIsJob, [Next]_vars
             PROVE  HandoffTypeOK' /\ CurrentIsJob'
  OBVIOUS
<1>. USE DEF HandoffTypeOK, CurrentIsJob
<1>1. CASE Tick
  BY <1>1, ConstantsAssumption DEF Tick, threadVars
<1>2. CASE Swap
  BY <1>2 DEF Swap, threadVars
<1>3. CASE Collect
  BY <1>3 DEF Collect, Collected, threadVars
<1>4. CASE RunCallback
  BY <1>4, SMTT(40) DEF RunCallback, RunFrom, GoesOn
<1>5. CASE RunTimeout
  BY <1>5 DEF RunTimeout, threadVars
<1>6. CASE Decide
  BY <1>6 DEF Decide, SleepUntil, threadVars
<1>7. CASE Poll \/ Dispatch \/ EndIteration \/ Return
  BY <1>7 DEF Poll, Dispatch, EndIteration, Return, threadVars
<1>8. CASE Yield
  BY <1>8 DEF Yield, GoesOn
<1>9. CASE Register
  <2>1. current \in Job /\ Append(callbacks, current) \in Seq(Job \cup {Plain})
    BY <1>9 DEF Register
  <2>2. callbacks' \in Seq(Job \cup {Plain}) /\ listed' \subseteq Job
    BY <1>9, <2>1 DEF Register
  <2>. QED  BY <1>9, <2>2 DEF Register
<1>10. CASE AddCallback
  BY <1>10 DEF AddCallback, threadVars
<1>11. ASSUME NEW f \in Fd, Arrive(f) \/ AddHandler(f) \/ RemoveHandler(f)
       PROVE  HandoffTypeOK' /\ CurrentIsJob'
  BY <1>11 DEF Arrive, AddHandler, RemoveHandler, threadVars
<1>12. ASSUME NEW j \in Job, Submit(j) \/ SetResult(j) \/ Wake(j)
       PROVE  HandoffTypeOK' /\ CurrentIsJob'
  BY <1>12 DEF Submit, SetResult, Wake
<1>13. ASSUME NEW j \in Job, InvokeCallbacks(j)
       PROVE  HandoffTypeOK' /\ CurrentIsJob'
  <2>1. Append(callbacks, j) \in Seq(Job \cup {Plain})
    OBVIOUS
  <2>2. /\ callbacks' \in Seq(Job \cup {Plain})
        /\ worker' \in [Job -> {"none", "work", "invoke", "wake", "over"}]
    BY <1>13, <2>1 DEF InvokeCallbacks, Invoke
  <2>. QED  BY <1>13, <2>2 DEF InvokeCallbacks, Invoke
<1>14. ASSUME NEW t \in Timer, CallAt(t) \/ RemoveTimeout(t)
       PROVE  HandoffTypeOK' /\ CurrentIsJob'
  BY <1>14 DEF CallAt, RemoveTimeout, threadVars
<1>15. CASE UNCHANGED vars
  BY <1>15 DEF vars, threadVars
<1>. QED
  BY <1>1, <1>2, <1>3, <1>4, <1>5, <1>6, <1>7, <1>8, <1>9, <1>10, <1>11, <1>12, <1>13,
     <1>14, <1>15 DEF Next, Loop

\* Types, in every reachable state.
LEMMA TypesInvariant == Spec => [](HandoffTypeOK /\ CurrentIsJob)
<1>1. Init => HandoffTypeOK /\ CurrentIsJob
  BY DEF Init, HandoffTypeOK, CurrentIsJob
<1>. QED  BY TypesInductive, <1>1, PTL DEF Spec
-----------------------------------------------------------------------------
(* The loop does not sleep on a callback                                   *)

\* NoLostWakeup with the time of waking a number, so that the clock may go on.
Awake ==
  pc = "poll" /\ callbacks # <<>> => wakeAt \in 0..now \/ pipe \/ lock # None

\* That a sleeping loop is being woken is inductive.
LEMMA AwakeInductive == HandoffTypeOK /\ Awake /\ [Next]_vars => Awake'
<1>. SUFFICES ASSUME HandoffTypeOK, Awake, [Next]_vars
             PROVE  Awake'
  OBVIOUS
<1>. USE DEF Awake
<1>1. CASE Tick
  BY <1>1 DEF Tick, threadVars, HandoffTypeOK
\* Decide saw the callbacks, and a timeout of zero.
<1>2. CASE Decide
  <2>1. now' = now /\ now \in Nat /\ callbacks' = callbacks
    BY <1>2 DEF Decide, SleepUntil, HandoffTypeOK
  <2>2. callbacks # <<>> => wakeAt' = now
    BY <1>2 DEF Decide, SleepUntil
  <2>. QED  BY <2>1, <2>2
<1>3. CASE Swap \/ Collect \/ RunCallback \/ RunTimeout \/ Yield \/ Register
  BY <1>3 DEF Swap, Collect, Collected, RunCallback, RunFrom, RunTimeout, Yield, Register
<1>4. CASE Poll \/ Dispatch \/ EndIteration \/ Return
  BY <1>4 DEF Poll, Dispatch, EndIteration, Return, HandoffTypeOK
<1>5. CASE AddCallback
  BY <1>5 DEF AddCallback
<1>6. ASSUME NEW f \in Fd, Arrive(f) \/ AddHandler(f) \/ RemoveHandler(f)  PROVE Awake'
  BY <1>6 DEF Arrive, AddHandler, RemoveHandler, threadVars
<1>7. ASSUME NEW j \in Job, Submit(j) \/ SetResult(j)  PROVE Awake'
  BY <1>7 DEF Submit, SetResult
\* The first callback comes with a wake-up that is still owed, the lock being held ...
<1>8. ASSUME NEW j \in Job, InvokeCallbacks(j)  PROVE Awake'
  <2>1. j # None
    BY ConstantsAssumption
  <2>. QED  BY <1>8, <2>1 DEF InvokeCallbacks, Invoke
\* ... until it is paid.
<1>9. ASSUME NEW j \in Job, Wake(j)  PROVE Awake'
  BY <1>9 DEF Wake
<1>10. ASSUME NEW t \in Timer, CallAt(t) \/ RemoveTimeout(t)  PROVE Awake'
  BY <1>10 DEF CallAt, RemoveTimeout, threadVars
<1>11. CASE UNCHANGED vars
  BY <1>11 DEF vars, threadVars
<1>. QED
  BY <1>1, <1>2, <1>3, <1>4, <1>5, <1>6, <1>7, <1>8, <1>9, <1>10, <1>11 DEF Next, Loop

\* The loop never polls for longer than nothing while a callback is waiting, unless it
\* is being woken.
THEOREM WakeupCorrect == Spec => []NoLostWakeup
<1>1. Init => Awake
  BY DEF Init, Awake
<1>2. HandoffTypeOK /\ Awake => NoLostWakeup
  BY DEF HandoffTypeOK, Awake, NoLostWakeup
<1>. QED  BY TypesInvariant, AwakeInductive, <1>1, <1>2, PTL DEF Spec
-----------------------------------------------------------------------------
(* Events belong to handlers that are there                                *)

\* EventsHaveHandlers, and what poll can return.
HandlersExact == EventsHaveHandlers /\ ready \subseteq registered

\* That events belong to handlers is inductive.
LEMMA HandlersInductive == HandlersExact /\ [Next]_vars => HandlersExact'
<1>. SUFFICES ASSUME HandlersExact, [Next]_vars
             PROVE  HandlersExact'
  OBVIOUS
<1>. USE DEF HandlersExact, EventsHaveHandlers
<1>1. CASE Tick \/ Swap \/ Collect \/ RunCallback \/ RunTimeout \/ Decide
  BY <1>1 DEF Tick, Swap, Collect, Collected, RunCallback, RunFrom, RunTimeout, Decide,
              SleepUntil, fdVars
<1>2. CASE Poll
  BY <1>2 DEF Poll
<1>3. CASE Dispatch
  BY <1>3 DEF Dispatch
<1>4. CASE EndIteration \/ Return \/ Yield \/ Register \/ AddCallback
  BY <1>4 DEF EndIteration, Return, Yield, Register, AddCallback, fdVars
<1>5. ASSUME NEW f \in Fd, Arrive(f) \/ AddHandler(f)  PROVE HandlersExact'
  BY <1>5 DEF Arrive, AddHandler
<1>6. ASSUME NEW f \in Fd, RemoveHandler(f)  PROVE HandlersExact'
  BY <1>6 DEF RemoveHandler
<1>7. ASSUME NEW j \in Job, Submit(j) \/ SetResult(j) \/ InvokeCallbacks(j) \/ Wake(j)
      PROVE  HandlersExact'
  BY <1>7 DEF Submit, SetResult, InvokeCallbacks, Invoke, Wake, fdVars
<1>8. ASSUME NEW t \in Timer, CallAt(t) \/ RemoveTimeout(t)  PROVE HandlersExact'
  BY <1>8 DEF CallAt, RemoveTimeout, fdVars
<1>9. CASE UNCHANGED vars
  BY <1>9 DEF vars, fdVars
<1>. QED
  BY <1>1, <1>2, <1>3, <1>4, <1>5, <1>6, <1>7, <1>8, <1>9 DEF Next, Loop

\* No event is handed to a stream that was closed meanwhile, nor to its successor.
THEOREM EventsCorrect == Spec => []EventsHaveHandlers
<1>1. Init => HandlersExact
  BY DEF Init, HandlersExact, EventsHaveHandlers
<1>2. HandlersExact => EventsHaveHandlers
  BY DEF HandlersExact
<1>. QED  BY HandlersInductive, <1>1, <1>2, PTL DEF Spec
-----------------------------------------------------------------------------
(* Nothing a worker hands over is dropped, and each coroutine goes on once *)

\* The batch is empty where the next one is fetched.
BatchIsRun ==
  /\ pc \in {"swap", "poll", "dispatch"} \/ back = "dispatch" => batch = <<>>
  /\ pc \notin {"user", "yield", "register"} => back = "run"

Held(q, x) == \E i \in 1..Len(q) : q[i] = x

\* The future and its worker agree; a callback that waits to be run has a result.
JobExact(j) ==
  /\ future[j] = "none" <=> worker[j] = "none"
  /\ future[j] = "pending" <=> worker[j] = "work"
  /\ resumed[j] = 1 => future[j] = "finished"
  /\ j \in listed \/ current = j => future[j] # "none"
  /\ Held(callbacks, j) \/ Held(batch, j) => future[j] = "finished"

\* Someone will make the coroutine of j go on: it is about to look at the future itself,
\* or the worker will add the callback, or that is waiting its turn.
Carried(j) ==
  \/ current = j
  \/ j \in listed /\ worker[j] \in {"work", "invoke"}
  \/ Held(callbacks, j) \/ Held(batch, j)

\* A coroutine that has yielded and has not gone on is never forgotten.
NoResultIsDropped ==
  \A j \in Job : future[j] # "none" /\ resumed[j] = 0 => Carried(j)

HandoffExact ==
  /\ HandoffTypeOK /\ CurrentIsJob
  /\ BatchIsRun
  /\ \A j \in Job : JobExact(j)
  /\ NoResultIsDropped

\* The order of the timeouts of one iteration is inductive.
LEMMA BatchInductive ==
  HandoffTypeOK /\ BatchIsRun /\ [Next]_vars => BatchIsRun'
<1>. SUFFICES ASSUME HandoffTypeOK, BatchIsRun, [Next]_vars
             PROVE  BatchIsRun'
  OBVIOUS
<1>. USE DEF BatchIsRun
<1>1. CASE Tick \/ Swap \/ Collect \/ RunTimeout \/ Decide \/ Poll \/ Dispatch \/ EndIteration
  BY <1>1 DEF Tick, Swap, Collect, Collected, RunTimeout, Decide, SleepUntil, Poll,
              Dispatch, EndIteration
<1>2. CASE RunCallback
  BY <1>2 DEF RunCallback, RunFrom
<1>3. CASE Yield \/ Register \/ AddCallback
  BY <1>3 DEF Yield, Register, AddCallback
<1>4. CASE Return
  BY <1>4 DEF Return, HandoffTypeOK
<1>5. ASSUME NEW f \in Fd, Arrive(f) \/ AddHandler(f) \/ RemoveHandler(f)
      PROVE  BatchIsRun'
  BY <1>5 DEF Arrive, AddHandler, RemoveHandler
<1>6. ASSUME NEW j \in Job, Submit(j) \/ SetResult(j) \/ InvokeCallbacks(j) \/ Wake(j)
      PROVE  BatchIsRun'
  BY <1>6 DEF Submit, SetResult, InvokeCallbacks, Invoke, Wake
<1>7. ASSUME NEW t \in Timer, CallAt(t) \/ RemoveTimeout(t)  PROVE BatchIsRun'
  BY <1>7 DEF CallAt, RemoveTimeout
<1>8. CASE UNCHANGED vars
  BY <1>8 DEF vars
<1>. QED
  BY <1>1, <1>2, <1>3, <1>4, <1>5, <1>6, <1>7, <1>8 DEF Next, Loop

\* A step that touches nothing of the jobs.
LEMMA Quiet ==
  ASSUME [Next]_vars
  PROVE  \/ UNCHANGED <<future, worker, resumed, listed, callbacks, batch, current>>
         \/ Swap \/ RunCallback \/ Yield \/ Register \/ AddCallback
         \/ \E j \in Job : Submit(j) \/ SetResult(j) \/ InvokeCallbacks(j) \/ Wake(j)
<1>. DEFINE same == UNCHANGED <<future, worker, resumed, listed, callbacks, batch, current>>
<1>1. CASE Tick \/ Collect \/ RunTimeout \/ Decide
  BY <1>1 DEF Tick, Collect, Collected, RunTimeout, Decide, SleepUntil, threadVars
<1>2. CASE Poll \/ Dispatch \/ EndIteration \/ Return
  BY <1>2 DEF Poll, Dispatch, EndIteration, Return, threadVars
<1>3. ASSUME NEW f \in Fd, Arrive(f) \/ AddHandler(f) \/ RemoveHandler(f)  PROVE same
  BY <1>3 DEF Arrive, AddHandler, RemoveHandler, threadVars
<1>4. ASSUME NEW t \in Timer, CallAt(t) \/ RemoveTimeout(t)  PROVE same
  BY <1>4 DEF CallAt, RemoveTimeout, threadVars
<1>5. CASE UNCHANGED vars
  BY <1>5 DEF vars, threadVars
<1>. QED  BY <1>1, <1>2, <1>3, <1>4, <1>5 DEF Next, Loop

\* What a sequence holds after an append, without its head, and when it is empty.
LEMMA HeldAfterAppend ==
  ASSUME NEW S, NEW q \in Seq(S), NEW x \in S
  PROVE  \A y : Held(Append(q, x), y) <=> Held(q, y) \/ y = x
<1>1. Len(Append(q, x)) = Len(q) + 1 /\ Len(q) \in Nat /\ Append(q, x)[Len(q) + 1] = x
  OBVIOUS
<1>2. \A i \in 1..Len(q) : Append(q, x)[i] = q[i]
  OBVIOUS
<1>. QED  BY <1>1, <1>2 DEF Held

\* A callback leaves the front of a queue.
LEMMA HeldInTail ==
  ASSUME NEW S, NEW q \in Seq(S), q # <<>>
  PROVE  Head(q) \in S /\ \A y : Held(q, y) <=> Held(Tail(q), y) \/ y = Head(q)
<1>1. Len(Tail(q)) = Len(q) - 1 /\ Len(q) \in Nat \ {0} /\ Head(q) = q[1] /\ q[1] \in S
  OBVIOUS
<1>2. \A i \in 1..Len(Tail(q)) : Tail(q)[i] = q[i + 1] /\ i + 1 \in 1..Len(q)
  BY <1>1
<1>3. \A i \in 1..Len(q) : i = 1 \/ i - 1 \in 1..Len(Tail(q))
  BY <1>1
<1>4. \A i \in 1..Len(q) : i # 1 => Tail(q)[i - 1] = q[i]
  BY <1>1, <1>2, <1>3
<1>5. ASSUME NEW y, Held(q, y), y # Head(q)  PROVE Held(Tail(q), y)
  <2>1. PICK i \in 1..Len(q) : q[i] = y
    BY <1>5 DEF Held
  <2>2. i # 1 /\ i - 1 \in 1..Len(Tail(q)) /\ Tail(q)[i - 1] = y
    BY <1>1, <1>3, <1>4, <1>5, <2>1
  <2>. QED  BY <2>2 DEF Held
<1>6. ASSUME NEW y, Held(Tail(q), y)  PROVE Held(q, y)
  <2>1. PICK i \in 1..Len(Tail(q)) : Tail(q)[i] = y
    BY <1>6 DEF Held
  <2>. QED  BY <1>2, <2>1 DEF Held
<1>7. Held(q, Head(q)) /\ Head(q) \in S
  <2>1. 1 \in 1..Len(q)
    BY <1>1
  <2>. QED  BY <1>1, <2>1 DEF Held
<1>. QED  BY <1>5, <1>6, <1>7

\* An empty queue carries nobody.
LEMMA HeldNowhere == \A y : ~Held(<<>>, y)
BY DEF Held

\* Each action keeps what is known of every job, and leaves none behind.
LEMMA HandoffInductive == HandoffExact /\ [Next]_vars => HandoffExact'
<1>. SUFFICES ASSUME HandoffExact, [Next]_vars, HandoffTypeOK', CurrentIsJob', BatchIsRun'
             PROVE  \A j \in Job : JobExact(j)' /\ (future'[j] # "none" /\ resumed'[j] = 0 => Carried(j)')
  BY TypesInductive, BatchInductive DEF HandoffExact, NoResultIsDropped
<1>. TAKE j \in Job
<1>. DEFINE Goal == JobExact(j)' /\ (future'[j] # "none" /\ resumed'[j] = 0 => Carried(j)')
<1>0. /\ HandoffTypeOK /\ CurrentIsJob /\ BatchIsRun
      /\ JobExact(j) /\ (future[j] # "none" /\ resumed[j] = 0 => Carried(j))
      /\ j # None /\ j # Plain
  BY ConstantsAssumption DEF HandoffExact, NoResultIsDropped
<1>. USE DEF HandoffTypeOK, JobExact, Carried
<1>1. CASE UNCHANGED <<future, worker, resumed, listed, callbacks, batch, current>>
  BY <1>0, <1>1 DEF Held
\* The batch is empty when it is replaced.
<1>2. CASE Swap
  <2>1. ~Held(batch, j) /\ ~Held(callbacks', j) /\ (Held(batch', j) <=> Held(callbacks, j))
    BY <1>0, <1>2, HeldNowhere DEF Swap, BatchIsRun, Held
  <2>. QED  BY <1>0, <1>2, <2>1 DEF Swap, threadVars
\* The coroutine whose turn it is has its result, and goes on.
<1>3. CASE RunCallback
  <2>1. Held(batch, j) <=> Held(batch', j) \/ j = Head(batch)
    BY <1>0, <1>3, HeldInTail DEF RunCallback, RunFrom
  <2>2. callbacks' = callbacks /\ (Held(callbacks', j) <=> Held(callbacks, j))
    BY <1>3 DEF RunCallback, RunFrom, Held
  <2>3. CASE Head(batch) = j
    <3>1. future[j] = "finished" /\ GoesOn(j)
      BY <1>0, <1>3, <2>1, <2>3 DEF RunCallback, RunFrom
    <3>. QED  BY <1>0, <1>3, <2>1, <2>2, <3>1 DEF RunCallback, RunFrom, GoesOn
  <2>4. CASE Head(batch) # j
    <3>1. resumed'[j] = resumed[j]
      BY <1>0, <1>3, <2>4 DEF RunCallback, RunFrom, GoesOn
    <3>. QED  BY <1>0, <1>3, <2>1, <2>2, <2>4, <3>1 DEF RunCallback, RunFrom
  <2>. QED  BY <2>3, <2>4
<1>4. CASE Yield
  <2>1. UNCHANGED <<callbacks, batch, future, worker, listed>>
        /\ (Held(callbacks', j) <=> Held(callbacks, j)) /\ (Held(batch', j) <=> Held(batch, j))
    BY <1>4 DEF Yield, Held
  <2>2. current \in Job
    BY <1>0, <1>4 DEF Yield, CurrentIsJob
  <2>3. IF current = j /\ future[j] = "finished" THEN resumed'[j] = 1 /\ current' # j
        ELSE resumed'[j] = resumed[j] /\ (current' = j <=> current = j)
    BY <1>0, <1>4, <2>2 DEF Yield, GoesOn
  <2>. QED  BY <1>0, <2>1, <2>3
\* The job is listed with a worker that has still to look, or its callback is added.
<1>5. CASE Register
  <2>1. current \in Job /\ future[current] # "none"
    BY <1>5 DEF Register, HandoffExact, CurrentIsJob
  <2>2. UNCHANGED <<batch, future, worker, resumed>> /\ current' # j
        /\ (Held(batch', j) <=> Held(batch, j))
    BY <1>0, <1>5 DEF Register, Held
  <2>3. CASE future[current] = "finished"
    <3>1. callbacks' = Append(callbacks, current) /\ listed' = listed
      BY <1>5, <2>3 DEF Register
    <3>2. \A y : Held(Append(callbacks, current), y) <=> Held(callbacks, y) \/ y = current
      BY <1>0, <2>1, HeldAfterAppend
    <3>3. Held(callbacks', j) <=> Held(callbacks, j) \/ j = current
      BY <3>1, <3>2
    <3>. QED  BY <1>0, <2>2, <2>3, <3>1, <3>3
  <2>4. CASE future[current] # "finished"
    <3>1. callbacks' = callbacks /\ listed' = listed \cup {current}
          /\ (Held(callbacks', j) <=> Held(callbacks, j))
      BY <1>5, <2>4 DEF Register, Held
    <3>2. future[current] = "pending"
      BY <1>0, <2>1, <2>4
    <3>. QED  BY <1>0, <2>2, <3>1, <3>2
  <2>. QED  BY <2>3, <2>4
<1>6. CASE AddCallback
  <2>1. Held(callbacks', j) <=> Held(callbacks, j)
    BY <1>0, <1>6, HeldAfterAppend DEF AddCallback
  <2>2. Held(batch', j) <=> Held(batch, j)
    BY <1>6 DEF AddCallback, Held
  <2>. QED  BY <1>0, <1>6, <2>1, <2>2 DEF AddCallback, threadVars
<1>7. ASSUME NEW k \in Job, Submit(k) \/ SetResult(k) \/ Wake(k)  PROVE Goal
  <2>1. UNCHANGED <<callbacks, batch>>
        /\ (Held(callbacks', j) <=> Held(callbacks, j)) /\ (Held(batch', j) <=> Held(batch, j))
    BY <1>7 DEF Submit, SetResult, Wake, Held
  <2>2. CASE Submit(k)
    BY <1>0, <2>1, <2>2 DEF Submit, CurrentIsJob
  <2>3. CASE SetResult(k)
    BY <1>0, <2>1, <2>3 DEF SetResult
  <2>4. CASE Wake(k)
    BY <1>0, <2>1, <2>4 DEF Wake
  <2>. QED  BY <1>7, <2>2, <2>3, <2>4
<1>8. ASSUME NEW k \in Job, InvokeCallbacks(k)  PROVE Goal
  <2>1. /\ UNCHANGED <<batch, future, listed, resumed, current>>
        /\ worker[k] = "invoke" /\ (Held(batch', j) <=> Held(batch, j))
        /\ worker'[k] \in {"wake", "over"} /\ (k # j => worker'[j] = worker[j])
    BY <1>0, <1>8 DEF InvokeCallbacks, Invoke, Held
  <2>2. Held(callbacks', j) <=> Held(callbacks, j) \/ (k \in listed /\ j = k)
    <3>1. CASE k \in listed
      <4>1. \A y : Held(Append(callbacks, k), y) <=> Held(callbacks, y) \/ y = k
        BY <1>0, HeldAfterAppend, SMTT(40)
      <4>. QED  BY <1>8, <3>1, <4>1 DEF InvokeCallbacks, Invoke
    <3>2. CASE k \notin listed
      BY <1>8, <3>2 DEF InvokeCallbacks, Invoke, Held
    <3>. QED  BY <3>1, <3>2
  <2>. QED  BY <1>0, <2>1, <2>2
<1>. QED  BY <1>1, <1>2, <1>3, <1>4, <1>5, <1>6, <1>7, <1>8, Quiet

\* Who carries a waiting coroutine, in every reachable state.
LEMMA HandoffInvariant == Spec => []HandoffExact
<1>1. Init => HandoffExact
  BY HeldNowhere, ConstantsAssumption
     DEF Init, HandoffExact, HandoffTypeOK, CurrentIsJob, BatchIsRun, JobExact,
         NoResultIsDropped
<1>. QED  BY HandoffInductive, <1>1, PTL DEF Spec

\* No result is dropped between the worker thread and the loop, in whatever order the
\* future is finished, looked at and registered with.
THEOREM NothingDropped == Spec => []NoResultIsDropped
<1>1. HandoffExact => NoResultIsDropped
  BY DEF HandoffExact
<1>. QED  BY HandoffInvariant, <1>1, PTL
-----------------------------------------------------------------------------
(* The safety of Handoff: its liveness is checked by TLC                   *)

handoffState == [j \in Job |-> HandoffState(j)]
HandoffSafety == AbstractHandoff!Init /\ [][AbstractHandoff!Next]_handoffState

\* No coroutine has gone on twice, so one of four states is left.
LEMMA FourStates ==
  HandoffExact =>
    \A j \in Job : HandoffState(j) = IF resumed[j] = 1 THEN "resumed"
                                     ELSE IF future[j] = "finished" THEN "done"
                                     ELSE IF future[j] = "pending" THEN "working" ELSE "new"
<1>. SUFFICES ASSUME HandoffExact, NEW j \in Job
             PROVE  HandoffState(j) = IF resumed[j] = 1 THEN "resumed"
                                     ELSE IF future[j] = "finished" THEN "done"
                                     ELSE IF future[j] = "pending" THEN "working" ELSE "new"
  OBVIOUS
<1>1. /\ resumed[j] \in 0..1 /\ future[j] \in {"none", "pending", "finished"}
  BY DEF HandoffExact, HandoffTypeOK
<1>2. CASE resumed[j] = 1
  BY <1>2 DEF HandoffState
<1>3. CASE resumed[j] = 0
  BY <1>1, <1>3 DEF HandoffState
<1>. QED  BY <1>1, <1>2, <1>3

\* A coroutine's state changes as in Handoff.
LEMMA FourStatesNext ==
  (HandoffExact =>
    \A j \in Job : HandoffState(j) = IF resumed[j] = 1 THEN "resumed"
                                     ELSE IF future[j] = "finished" THEN "done"
                                     ELSE IF future[j] = "pending" THEN "working" ELSE "new")'
BY FourStates, PTL

\* A step in which only k goes from one state to another, or none does.
LEMMA OneMoves ==
  ASSUME NEW k \in Job, \A j \in Job \ {k} : HandoffState(j)' = HandoffState(j),
         \/ HandoffState(k)' = HandoffState(k)
         \/ HandoffState(k) = "new" /\ HandoffState(k)' = "working"
         \/ HandoffState(k) = "working" /\ HandoffState(k)' = "done"
         \/ HandoffState(k) = "done" /\ HandoffState(k)' = "resumed"
  PROVE  AbstractHandoff!Next \/ handoffState' = handoffState
<1>1. handoffState' = [handoffState EXCEPT ![k] = HandoffState(k)']
      /\ handoffState[k] = HandoffState(k)
  BY DEF handoffState
<1>2. CASE HandoffState(k)' = HandoffState(k)
  BY <1>1, <1>2 DEF handoffState
<1>3. CASE HandoffState(k) = "new" /\ HandoffState(k)' = "working"
  BY <1>1, <1>3 DEF handoffState, AbstractHandoff!Next, AbstractHandoff!Submit, AbstractHandoff!Move
<1>4. CASE HandoffState(k) = "working" /\ HandoffState(k)' = "done"
  BY <1>1, <1>4 DEF handoffState, AbstractHandoff!Next, AbstractHandoff!Complete, AbstractHandoff!Move
<1>5. CASE HandoffState(k) = "done" /\ HandoffState(k)' = "resumed"
  BY <1>1, <1>5 DEF handoffState, AbstractHandoff!Next, AbstractHandoff!Resume, AbstractHandoff!Move
<1>. QED  BY <1>2, <1>3, <1>4, <1>5

\* Every step hands over as in Handoff.
LEMMA StepHandsOver ==
  HandoffExact /\ HandoffExact' /\ [Next]_vars
    => AbstractHandoff!Next \/ handoffState' = handoffState
<1>. SUFFICES ASSUME HandoffExact, HandoffExact', [Next]_vars
             PROVE  AbstractHandoff!Next \/ handoffState' = handoffState
  OBVIOUS
<1>. DEFINE Same(j) == future'[j] = future[j] /\ resumed'[j] = resumed[j]
<1>0. /\ HandoffTypeOK /\ CurrentIsJob /\ \A j \in Job : JobExact(j)
  BY DEF HandoffExact
<1>s. \A j \in Job : Same(j) => HandoffState(j)' = HandoffState(j)
  BY FourStates, FourStatesNext DEF HandoffExact, HandoffTypeOK
<1>. USE DEF HandoffTypeOK, JobExact
<1>1. CASE UNCHANGED <<future, resumed>>
  BY <1>s, <1>1 DEF handoffState
\* The first coroutine in the batch has its result.
<1>2. CASE RunCallback
  <2>1. batch \in Seq(Job \cup {Plain}) /\ batch # <<>> /\ future' = future
    BY <1>0, <1>2 DEF RunCallback, RunFrom
  <2>2. Head(batch) \in Job \cup {Plain} /\ Held(batch, Head(batch))
    BY <2>1, HeldInTail
  <2>3. CASE Head(batch) = Plain
    BY <1>1, <1>2, <2>1, <2>3 DEF RunCallback, RunFrom
  <2>4. CASE Head(batch) # Plain
    <3>0. PICK k \in Job : k = Head(batch)
      BY <2>2, <2>4
    <3>1. future[k] = "finished" /\ GoesOn(k)
      BY <1>0, <1>2, <2>2, <2>4, <3>0 DEF RunCallback, RunFrom
    <3>2. \A j \in Job \ {k} : Same(j)
      BY <1>0, <2>1, <3>1 DEF GoesOn
    <3>3. \/ HandoffState(k)' = HandoffState(k)
          \/ HandoffState(k) = "done" /\ HandoffState(k)' = "resumed"
      BY <1>0, <2>1, <3>1, <1>s, FourStates, FourStatesNext DEF GoesOn
    <3>. QED  BY <1>s, <3>2, <3>3, OneMoves
  <2>. QED  BY <2>3, <2>4
\* The future was finished before it was looked at.
<1>3. CASE Yield
  <2>1. PICK k \in Job : k = current /\ future' = future
    BY <1>0, <1>3 DEF Yield, CurrentIsJob
  <2>2. \A j \in Job \ {k} : Same(j)
    BY <1>0, <1>3, <2>1 DEF Yield, GoesOn
  <2>3. \/ HandoffState(k)' = HandoffState(k)
        \/ HandoffState(k) = "done" /\ HandoffState(k)' = "resumed"
    <3>1. Same(k) \/ (future[k] = "finished" /\ resumed[k] = 0 /\ resumed'[k] = 1)
      BY <1>0, <1>3, <2>1 DEF Yield, GoesOn
    <3>2. CASE Same(k)
      BY <1>s, <3>2
    <3>3. CASE future[k] = "finished" /\ resumed[k] = 0 /\ resumed'[k] = 1
      BY <2>1, <3>3, FourStates, FourStatesNext
    <3>. QED  BY <3>1, <3>2, <3>3
  <2>. QED  BY <1>s, <2>2, <2>3, OneMoves
<1>4. ASSUME NEW k \in Job, Submit(k)
      PROVE  AbstractHandoff!Next \/ handoffState' = handoffState
  <2>1. \A j \in Job \ {k} : Same(j)
    BY <1>0, <1>4 DEF Submit
  <2>2. HandoffState(k) = "new" /\ HandoffState(k)' = "working"
    BY <1>0, <1>4, FourStates, FourStatesNext DEF Submit
  <2>. QED  BY <1>s, <2>1, <2>2, OneMoves
<1>5. ASSUME NEW k \in Job, SetResult(k)
      PROVE  AbstractHandoff!Next \/ handoffState' = handoffState
  <2>1. \A j \in Job \ {k} : Same(j)
    BY <1>0, <1>5 DEF SetResult
  <2>2. HandoffState(k) = "working" /\ HandoffState(k)' = "done"
    BY <1>0, <1>5, FourStates, FourStatesNext DEF SetResult
  <2>. QED  BY <1>s, <2>1, <2>2, OneMoves
<1>6. CASE Swap \/ Register \/ AddCallback
  BY <1>1, <1>6 DEF Swap, Register, AddCallback, threadVars
<1>7. ASSUME NEW k \in Job, InvokeCallbacks(k) \/ Wake(k)
      PROVE  AbstractHandoff!Next \/ handoffState' = handoffState
  BY <1>1, <1>7 DEF InvokeCallbacks, Invoke, Wake
<1>. QED  BY <1>1, <1>2, <1>3, <1>4, <1>5, <1>6, <1>7, Quiet

\* Each coroutine goes on at most once, and never before its result is there: IOLoop
\* implements the steps of Handoff.
THEOREM HandoffCorrect == Spec => HandoffSafety
<1>1. Init => AbstractHandoff!Init
  BY DEF Init, AbstractHandoff!Init, HandoffState
<1>2. HandoffExact /\ HandoffExact' /\ [Next]_vars => [AbstractHandoff!Next]_handoffState
  BY StepHandsOver
<1>. QED
  BY HandoffInvariant, <1>1, <1>2, PTL DEF Spec, HandoffSafety
-----------------------------------------------------------------------------
(* Sequences of timers                                                     *)

Sorted(q, d) == \A i, j \in 1..Len(q) : i < j => d[q[i]] <= d[q[j]]
Distinct(q) == \A i, j \in 1..Len(q) : q[i] = q[j] => i = j

\* The elements of q that are not in A, as Dead counts them.
Missing(q, A) == Cardinality({i \in 1..Len(q) : q[i] \notin A})

\* What is counted is finite.
LEMMA MissingSet ==
  ASSUME NEW T, NEW q \in Seq(T), NEW A
  PROVE  IsFiniteSet({i \in 1..Len(q) : q[i] \notin A}) /\ Missing(q, A) \in Nat
<1>1. IsFiniteSet(1..Len(q))
  BY FS_Interval
<1>2. {i \in 1..Len(q) : q[i] \notin A} \in SUBSET (1..Len(q))
  OBVIOUS
<1>3. IsFiniteSet({i \in 1..Len(q) : q[i] \notin A})
  BY <1>1, <1>2, FS_Subset
<1>. QED  BY <1>3, FS_CardinalityType DEF Missing

\* An empty sequence misses nothing, and neither does one whose elements are in A.
LEMMA NothingMissing ==
  ASSUME NEW T, NEW q \in Seq(T), NEW A, \A i \in 1..Len(q) : q[i] \in A
  PROVE  Missing(q, A) = 0
<1>1. {i \in 1..Len(q) : q[i] \notin A} = {}
  OBVIOUS
<1>. QED  BY <1>1, FS_EmptySet DEF Missing

\* One more element is one more to count, or none.
LEMMA MissingAppend ==
  ASSUME NEW T, NEW q \in Seq(T), NEW x \in T, NEW A
  PROVE  Missing(Append(q, x), A) = Missing(q, A) + (IF x \in A THEN 0 ELSE 1)
<1>1. PICK r \in Seq(T) : r = Append(q, x)
  BY AppendIn
<1>2. PICK n \in Nat : n = Len(q)
  OBVIOUS
<1>3. Len(r) = n + 1 /\ r[n + 1] = x /\ \A i \in 1..n : r[i] = q[i]
  BY <1>1, <1>2
<1>4. PICK N : N = {i \in 1..Len(q) : q[i] \notin A}
  OBVIOUS
<1>5. PICK M : M = {i \in 1..Len(r) : r[i] \notin A}
  OBVIOUS
<1>6. IsFiniteSet(N) /\ Cardinality(N) \in Nat
  BY <1>4, MissingSet DEF Missing
<1>7. Cardinality(N) = Missing(q, A) /\ Cardinality(M) = Missing(r, A)
  BY <1>4, <1>5 DEF Missing
<1>8. CASE x \in A
  <2>1. M = N
    <3>1. ASSUME NEW i \in M  PROVE i \in N
      <4>1. i \in 1..(n + 1) /\ r[i] \notin A
        BY <1>3, <1>5
      <4>2. i # n + 1
        BY <1>3, <1>8, <4>1
      <4>. QED  BY <1>2, <1>3, <1>4, <4>1, <4>2
    <3>2. ASSUME NEW i \in N  PROVE i \in M
      BY <1>2, <1>3, <1>4, <1>5
    <3>. QED  BY <3>1, <3>2
  <2>. QED  BY <1>1, <1>6, <1>7, <1>8, <2>1
<1>9. CASE x \notin A
  <2>1. M = N \cup {n + 1}
    <3>1. ASSUME NEW i \in M  PROVE i \in N \cup {n + 1}
      <4>1. i \in 1..(n + 1) /\ r[i] \notin A
        BY <1>3, <1>5
      <4>. QED  BY <1>2, <1>3, <1>4, <4>1
    <3>2. ASSUME NEW i \in N  PROVE i \in M
      BY <1>2, <1>3, <1>4, <1>5
    <3>3. n + 1 \in M
      BY <1>3, <1>5, <1>9
    <3>. QED  BY <3>1, <3>2, <3>3
  <2>2. n + 1 \notin N
    BY <1>2, <1>4
  <2>3. Cardinality(M) = Cardinality(N) + 1
    BY <1>6, <2>1, <2>2, FS_AddElement
  <2>. QED  BY <1>1, <1>7, <1>9, <2>3
<1>. QED  BY <1>8, <1>9

\* To count a concatenation is to add.
LEMMA MissingConcat ==
  ASSUME NEW T, NEW p \in Seq(T), NEW q \in Seq(T), NEW A
  PROVE  Missing(p \o q, A) = Missing(p, A) + Missing(q, A)
<1>. DEFINE U == {r \in Seq(T) : Missing(p \o r, A) = Missing(p, A) + Missing(r, A)}
<1>1. <<>> \in U
  <2>1. p \o <<>> = p /\ <<>> \in Seq(T)
    OBVIOUS
  <2>2. Missing(<<>>, A) = 0
    <3>1. \A i \in 1..Len(<<>>) : <<>>[i] \in A
      OBVIOUS
    <3>. QED  BY <2>1, <3>1, NothingMissing
  <2>3. Missing(p, A) \in Nat
    BY MissingSet
  <2>4. Missing(p \o <<>>, A) = Missing(p, A) + Missing(<<>>, A)
    BY <2>1, <2>2, <2>3
  <2>. QED  BY <2>1, <2>4
<1>2. ASSUME NEW r \in Seq(T), NEW x \in T, r \in U  PROVE Append(r, x) \in U
  <2>. p \o r \in Seq(T)
    OBVIOUS
  <2>0. PICK s \in Seq(T) : s = p \o r
    OBVIOUS
  <2>1. p \o Append(r, x) = Append(s, x) /\ Append(r, x) \in Seq(T)
    BY <2>0
  <2>2. Missing(Append(r, x), A) = Missing(r, A) + (IF x \in A THEN 0 ELSE 1)
    BY MissingAppend
  <2>3. Missing(Append(s, x), A) = Missing(s, A) + (IF x \in A THEN 0 ELSE 1)
    BY MissingAppend
  <2>4. Missing(p, A) \in Nat /\ Missing(r, A) \in Nat
    BY MissingSet
  <2>5. Missing(s, A) = Missing(p, A) + Missing(r, A)
    BY <1>2, <2>0
  <2>6. Missing(p \o Append(r, x), A) = Missing(p, A) + Missing(Append(r, x), A)
    BY <2>1, <2>2, <2>3, <2>4, <2>5
  <2>. QED  BY <2>1, <2>6
<1>3. Seq(T) \subseteq U
  <2>. HIDE DEF U
  <2>. QED  BY <1>1, <1>2, SeqInSet
<1>. QED  BY <1>3

\* To lose one element of A is to miss one more place at most.
LEMMA MissingOneMore ==
  ASSUME NEW T, NEW q \in Seq(T), Distinct(q), NEW A, NEW B, NEW t, A \ {t} \subseteq B
  PROVE  Missing(q, B) <= Missing(q, A) + 1
<1>1. PICK N : N = {i \in 1..Len(q) : q[i] \notin A}
  OBVIOUS
<1>2. PICK M : M = {i \in 1..Len(q) : q[i] \notin B}
  OBVIOUS
<1>3. IsFiniteSet(N) /\ Cardinality(N) \in Nat
  BY <1>1, MissingSet DEF Missing
<1>4. IsFiniteSet(M) /\ Cardinality(M) \in Nat
  BY <1>2, MissingSet DEF Missing
<1>5. \E k : M \subseteq N \cup {k}
  <2>1. CASE \E k \in 1..Len(q) : q[k] = t
    <3>1. PICK k \in 1..Len(q) : q[k] = t
      BY <2>1
    <3>2. ASSUME NEW i \in M  PROVE i \in N \cup {k}
      BY <1>1, <1>2, <3>1 DEF Distinct
    <3>. QED  BY <3>2
  <2>2. CASE \A k \in 1..Len(q) : q[k] # t
    <3>1. M \subseteq N
      BY <1>1, <1>2, <2>2
    <3>. QED  BY <3>1
  <2>. QED  BY <2>1, <2>2
<1>6. PICK k : M \subseteq N \cup {k}
  BY <1>5
<1>7. IsFiniteSet(N \cup {k}) /\ Cardinality(N \cup {k}) <= Cardinality(N) + 1
      /\ Cardinality(N \cup {k}) \in Nat
  <2>1. IsFiniteSet(N \cup {k}) /\ (\/ Cardinality(N \cup {k}) = Cardinality(N)
                                   \/ Cardinality(N \cup {k}) = Cardinality(N) + 1)
    BY <1>3, FS_AddElement
  <2>. QED  BY <1>3, <2>1
<1>8. M \in SUBSET (N \cup {k})
  BY <1>6
<1>9. Cardinality(M) <= Cardinality(N \cup {k})
  BY <1>7, <1>8, FS_Subset
<1>10. Missing(q, B) = Cardinality(M) /\ Missing(q, A) = Cardinality(N)
  BY <1>1, <1>2 DEF Missing
<1>. QED  BY <1>3, <1>4, <1>7, <1>9, <1>10

\* Only what is in the sequence matters.
LEMMA MissingAlike ==
  ASSUME NEW q, NEW A, NEW B, \A i \in 1..Len(q) : q[i] \in A <=> q[i] \in B
  PROVE  Missing(q, A) = Missing(q, B)
<1>1. {i \in 1..Len(q) : q[i] \notin A} = {i \in 1..Len(q) : q[i] \notin B}
  OBVIOUS
<1>. QED  BY <1>1 DEF Missing

\* A sequence is cut in two without losing a place.
LEMMA CutInTwo ==
  ASSUME NEW T, NEW q \in Seq(T), NEW n \in 0..Len(q)
  PROVE  /\ SubSeq(q, 1, n) \in Seq(T) /\ SubSeq(q, n + 1, Len(q)) \in Seq(T)
         /\ Len(SubSeq(q, 1, n)) = n /\ Len(SubSeq(q, n + 1, Len(q))) = Len(q) - n
         /\ \A i \in 1..n : SubSeq(q, 1, n)[i] = q[i]
         /\ \A i \in 1..(Len(q) - n) : SubSeq(q, n + 1, Len(q))[i] = q[n + i]
         /\ q = SubSeq(q, 1, n) \o SubSeq(q, n + 1, Len(q))
<1>1. /\ SubSeq(q, 1, n) \in Seq(T) /\ SubSeq(q, n + 1, Len(q)) \in Seq(T)
      /\ Len(SubSeq(q, 1, n)) = n /\ Len(SubSeq(q, n + 1, Len(q))) = Len(q) - n
      /\ \A i \in 1..n : SubSeq(q, 1, n)[i] = q[i]
      /\ \A i \in 1..(Len(q) - n) : SubSeq(q, n + 1, Len(q))[i] = q[n + i]
  OBVIOUS
<1>2. q = SubSeq(q, 1, n) \o SubSeq(q, n + 1, Len(q))
  <2>1. PICK r \in Seq(T) : r = SubSeq(q, 1, n)
    BY <1>1
  <2>2. PICK s \in Seq(T) : s = SubSeq(q, n + 1, Len(q))
    BY <1>1
  <2>3. Len(r \o s) = Len(q) /\ r \o s \in Seq(T)
    <3>1. Len(r) = n /\ Len(s) = Len(q) - n
      BY <1>1, <2>1, <2>2
    <3>2. r \o s \in Seq(T) /\ Len(r \o s) = Len(r) + Len(s)
      BY ConcatProperties
    <3>. QED  BY <3>1, <3>2
  <2>4. ASSUME NEW i \in 1..Len(q)  PROVE (r \o s)[i] = q[i]
    <3>1. Len(r) = n /\ Len(s) = Len(q) - n
      BY <1>1, <2>1, <2>2
    <3>2. (r \o s)[i] = IF i <= n THEN r[i] ELSE s[i - n]
      BY <3>1, ConcatProperties
    <3>3. CASE i <= n
      <4>1. i \in 1..n
        BY <3>3
      <4>. QED  BY <1>1, <2>1, <3>2, <4>1
    <3>4. CASE ~(i <= n)
      <4>1. i - n \in 1..(Len(q) - n) /\ n + (i - n) = i
        BY <3>4
      <4>. QED  BY <1>1, <2>2, <3>2, <3>4, <4>1
    <3>. QED  BY <3>3, <3>4
  <2>5. r \o s = q
    BY <2>3, <2>4, SeqEqual
  <2>. QED  BY <2>1, <2>2, <2>5
<1>. QED  BY <1>1, <1>2

\* Something that holds of some natural has a least one.
LEMMA Least ==
  ASSUME NEW W \in SUBSET Nat, W # {}
  PROVE  \E m \in W : \A k \in W : m <= k
<1>. DEFINE V == {n \in Nat : \A k \in W : n <= k}
<1>1. ASSUME \A m \in W : \E k \in W : ~(m <= k)  PROVE FALSE
  <2>1. 0 \in V
    OBVIOUS
  <2>2. ASSUME NEW n \in Nat, n \in V  PROVE n + 1 \in V
    <3>1. n \notin W
      BY <1>1, <2>2
    <3>. QED  BY <2>2, <3>1
  <2>3. Nat \subseteq V
    <3>. HIDE DEF V
    <3>. QED  BY <2>1, <2>2, NatInSet
  <2>4. PICK k \in W : TRUE
    OBVIOUS
  <2>5. k + 1 \in V
    BY <2>3
  <2>. QED  BY <2>4, <2>5
<1>. QED  BY <1>1

\* A set of places without a gap is as long as it has elements.
LEMMA FrontCount ==
  ASSUME NEW n \in Nat, NEW W \in SUBSET (1..n),
         \A i \in W, j \in 1..n : j < i => j \in W
  PROVE  Cardinality(W) \in 0..n /\ W = 1..Cardinality(W)
<1>. DEFINE V == {m \in Nat : m = n \/ (m < n /\ m + 1 \notin W)}
<1>1. n \in V /\ V \in SUBSET Nat
  OBVIOUS
<1>2. PICK m \in V : \A k \in V : m <= k
  <2>. HIDE DEF V
  <2>. QED  BY <1>1, Least
<1>3. m \in 0..n
  OBVIOUS
<1>4. ASSUME NEW i \in 1..m  PROVE i \in W
  <2>1. i - 1 \in Nat /\ i - 1 < n /\ ~(m <= i - 1)
    BY <1>3
  <2>2. i - 1 \notin V
    BY <1>2, <2>1
  <2>. QED  BY <2>1, <2>2
<1>5. ASSUME NEW i \in W  PROVE i \in 1..m
  <2>1. CASE m = n
    BY <2>1
  <2>2. CASE m < n /\ m + 1 \notin W
    BY <1>3, <2>2
  <2>. QED  BY <2>1, <2>2
<1>6. W = 1..m
  BY <1>4, <1>5
<1>7. Cardinality(1..m) = m
  BY <1>3, FS_Interval
<1>. QED  BY <1>3, <1>6, <1>7
\* What is kept of a sorted sequence without repetitions is one.
LEMMA KeepOfSorted ==
  ASSUME NEW T, NEW q \in Seq(T), NEW d, Sorted(q, d), Distinct(q), NEW S
  PROVE  /\ Keep(q, S) \in Seq(T) /\ Sorted(Keep(q, S), d) /\ Distinct(Keep(q, S))
         /\ \A i \in 1..Len(Keep(q, S)) :
              Keep(q, S)[i] \in S /\ \E j \in 1..Len(q) : Keep(q, S)[i] = q[j]
<1>1. PICK k \in Seq(T) : k = Keep(q, S)
  BY KeepIn
<1>2. PICK m \in [1..Len(k) -> 1..Len(q)] :
        /\ \A i, j \in 1..Len(k) : i < j => m[i] < m[j]
        /\ \A i \in 1..Len(k) : k[i] = q[m[i]]
  BY <1>1, KeepOrder
<1>3. Sorted(k, d)
  BY <1>2, ZenonT(60) DEF Sorted
<1>4. ASSUME NEW i \in 1..Len(k), NEW j \in 1..Len(k), k[i] = k[j]  PROVE i = j
  <2>1. m[i] = m[j]
    BY <1>2, <1>4, SMTT(40) DEF Distinct
  <2>2. ~(i < j) /\ ~(j < i)
    BY <1>2, <2>1
  <2>. QED  BY <2>2
<1>5. k \in Seq(T \cap S)
  BY <1>1, KeepType
<1>6. \A i \in 1..Len(k) : k[i] \in T \cap S
  BY <1>5, ElementOfSeq
<1>. QED  BY <1>1, <1>2, <1>3, <1>4, <1>6 DEF Distinct

\* A timer goes behind those that are not later, and the order is kept.
LEMMA InsertSorted ==
  ASSUME NEW T, NEW q \in Seq(T), NEW x \in T, NEW n \in 0..Len(q), NEW d \in [T -> Int],
         Sorted(q, d), Distinct(q), \A i \in 1..Len(q) : q[i] # x,
         \A i \in 1..Len(q) : i <= n <=> d[q[i]] <= d[x],
         NEW u, u = InsertAt(q, n + 1, x)
  PROVE  /\ u \in Seq(T) /\ Sorted(u, d) /\ Distinct(u)
         /\ \A i \in 1..Len(u) : u[i] = x \/ \E j \in 1..Len(q) : u[i] = q[j]
         /\ \A A : x \in A => Missing(u, A) = Missing(q, A)
<1>1. PICK p \in Seq(T), r \in Seq(T) :
        /\ p = SubSeq(q, 1, n) /\ r = SubSeq(q, n + 1, Len(q)) /\ q = p \o r
        /\ Len(p) = n /\ Len(r) = Len(q) - n
        /\ \A i \in 1..n : p[i] = q[i]
        /\ \A i \in 1..(Len(q) - n) : r[i] = q[n + i]
  <2>1. SubSeq(q, 1, n) \in Seq(T) /\ SubSeq(q, n + 1, Len(q)) \in Seq(T)
    BY CutInTwo
  <2>2. PICK p \in Seq(T), r \in Seq(T) : p = SubSeq(q, 1, n) /\ r = SubSeq(q, n + 1, Len(q))
    BY <2>1
  <2>. QED  BY <2>2, CutInTwo, ZenonT(60)
<1>2. PICK px \in Seq(T) : px = Append(p, x)
  BY AppendIn
<1>3. p \o <<x>> = px
  BY <1>2
<1>5. u = px \o r
  <2>1. (n + 1) - 1 = n
    OBVIOUS
  <2>. QED  BY <1>1, <1>3, <2>1 DEF InsertAt
<1>6. PICK l \in Nat : l = Len(q)
  OBVIOUS
<1>7. Len(px) = n + 1 /\ px[n + 1] = x /\ \A i \in 1..n : px[i] = p[i]
  <2>1. Len(px) = Len(p) + 1 /\ px[Len(p) + 1] = x /\ \A i \in 1..Len(p) : px[i] = p[i]
    BY <1>2
  <2>2. Len(p) = n
    BY <1>1
  <2>. QED  BY <2>1, <2>2
<1>8. /\ u \in Seq(T) /\ Len(u) = l + 1
      /\ \A i \in 1..(l + 1) : u[i] = IF i <= n + 1 THEN px[i] ELSE r[i - (n + 1)]
  <2>1. px \o r \in Seq(T) /\ Len(px \o r) = Len(px) + Len(r)
    BY ConcatProperties
  <2>2. Len(px) + Len(r) = l + 1
    <3>1. Len(px) = n + 1 /\ Len(r) = l - n /\ n \in 0..l
      BY <1>1, <1>6, <1>7
    <3>. QED  BY <3>1
  <2>3. \A i \in 1..Len(px) + Len(r) :
          (px \o r)[i] = IF i <= Len(px) THEN px[i] ELSE r[i - Len(px)]
    BY ConcatProperties
  <2>. QED  BY <1>5, <1>7, <2>1, <2>2, <2>3
<1>9. PICK at : at = [i \in 1..(l + 1) |-> IF i <= n THEN i ELSE i - 1]
  OBVIOUS
<1>10. ASSUME NEW i \in 1..(l + 1), i # n + 1
       PROVE  at[i] \in 1..l /\ u[i] = q[at[i]] /\ (at[i] <= n <=> i <= n)
  <2>1. CASE i <= n
    <3>1. i \in 1..n /\ at[i] = i
      BY <1>9, <2>1
    <3>2. u[i] = px[i]
      BY <1>8, <3>1, SMTT(40)
    <3>3. px[i] = q[i]
      BY <1>1, <1>7, <3>1
    <3>. QED  BY <1>6, <3>1, <3>2, <3>3
  <2>2. CASE ~(i <= n)
    <3>1. ~(i <= n + 1) /\ at[i] = i - 1 /\ i - (n + 1) \in 1..(l - n)
          /\ n + (i - (n + 1)) = i - 1
      BY <1>6, <1>9, <1>10, <2>2
    <3>2. u[i] = r[i - (n + 1)] /\ r[i - (n + 1)] = q[i - 1]
      BY <1>1, <1>6, <1>8, <3>1
    <3>. QED  BY <1>6, <2>2, <3>1, <3>2
  <2>. QED  BY <2>1, <2>2
<1>11. u[n + 1] = x
  <2>1. n + 1 \in 1..(l + 1) /\ n + 1 <= n + 1
    BY <1>6
  <2>. QED  BY <1>7, <1>8, <2>1
<1>12. ASSUME NEW i \in 1..(l + 1), NEW j \in 1..(l + 1), i < j
       PROVE  d[u[i]] <= d[u[j]]
  <2>1. CASE i = n + 1
    <3>1. j # n + 1 /\ ~(j <= n)
      BY <1>12, <2>1
    <3>2. at[j] \in 1..l /\ u[j] = q[at[j]] /\ ~(at[j] <= n)
      BY <1>10, <3>1
    <3>3. ~(d[q[at[j]]] <= d[x]) /\ q[at[j]] \in T
      BY <1>6, <3>2
    <3>. QED  BY <1>11, <2>1, <3>2, <3>3, SMTT(40)
  <2>2. CASE j = n + 1
    <3>1. i # n + 1 /\ i <= n
      BY <1>12, <2>2
    <3>2. at[i] \in 1..l /\ u[i] = q[at[i]] /\ at[i] <= n
      BY <1>10, <3>1
    <3>3. d[q[at[i]]] <= d[x]
      BY <1>6, <3>2
    <3>. QED  BY <1>11, <2>2, <3>2, <3>3
  <2>3. CASE i # n + 1 /\ j # n + 1
    <3>1. at[i] \in 1..l /\ u[i] = q[at[i]] /\ at[j] \in 1..l /\ u[j] = q[at[j]]
      BY <1>10, <2>3
    <3>2. at[i] < at[j]
      BY <1>9, <1>12, <2>3
    <3>. QED  BY <1>6, <3>1, <3>2 DEF Sorted
  <2>. QED  BY <2>1, <2>2, <2>3
<1>13. ASSUME NEW i \in 1..(l + 1), NEW j \in 1..(l + 1), u[i] = u[j]
       PROVE  i = j
  <2>1. CASE i = n + 1 /\ j # n + 1
    <3>1. at[j] \in 1..l /\ u[j] = q[at[j]]
      BY <1>10, <2>1
    <3>. QED  BY <1>6, <1>11, <1>13, <2>1, <3>1
  <2>2. CASE i # n + 1 /\ j = n + 1
    <3>1. at[i] \in 1..l /\ u[i] = q[at[i]]
      BY <1>10, <2>2
    <3>. QED  BY <1>6, <1>11, <1>13, <2>2, <3>1
  <2>3. CASE i # n + 1 /\ j # n + 1
    <3>1. at[i] \in 1..l /\ u[i] = q[at[i]] /\ at[j] \in 1..l /\ u[j] = q[at[j]]
      BY <1>10, <2>3
    <3>2. at[i] = at[j]
      BY <1>6, <1>13, <3>1 DEF Distinct
    <3>3. /\ at[i] = IF i <= n THEN i ELSE i - 1
          /\ at[j] = IF j <= n THEN j ELSE j - 1
      BY <1>9
    <3>4. i \in Int /\ j \in Int /\ n \in Int
      OBVIOUS
    <3>5. (IF i <= n THEN i ELSE i - 1) = (IF j <= n THEN j ELSE j - 1)
      BY <3>2, <3>3
    <3>6. CASE i <= n
      <4>1. i = IF j <= n THEN j ELSE j - 1
        BY <3>5, <3>6
      <4>. QED  BY <2>3, <3>4, <3>6, <4>1
    <3>7. CASE ~(i <= n)
      <4>1. i - 1 = IF j <= n THEN j ELSE j - 1
        BY <3>5, <3>7
      <4>. QED  BY <2>3, <3>4, <3>7, <4>1
    <3>. QED  BY <3>6, <3>7
  <2>. QED  BY <2>1, <2>2, <2>3
<1>14. ASSUME NEW i \in 1..(l + 1)  PROVE u[i] = x \/ \E j \in 1..Len(q) : u[i] = q[j]
  BY <1>6, <1>10, <1>11
<1>15. ASSUME NEW A, x \in A  PROVE Missing(u, A) = Missing(q, A)
  <2>1. Missing(u, A) = Missing(px, A) + Missing(r, A)
    BY <1>5, MissingConcat, ZenonT(60)
  <2>2. Missing(q, A) = Missing(p, A) + Missing(r, A)
    <3>1. Missing(p \o r, A) = Missing(p, A) + Missing(r, A)
      BY MissingConcat
    <3>. QED  BY <1>1, <3>1
  <2>3. Missing(px, A) = Missing(p, A) + 0
    BY <1>2, <1>15, MissingAppend
  <2>4. Missing(p, A) \in Nat
    BY MissingSet
  <2>. QED  BY <2>1, <2>2, <2>3, <2>4
<1>. QED  BY <1>8, <1>12, <1>13, <1>14, <1>15 DEF Sorted, Distinct
-----------------------------------------------------------------------------
(* The timers                                                              *)

\* The types of what call_at, remove_timeout and start share.
TimerTypeOK ==
  /\ timeouts \in Seq(Timer) /\ due \in Seq(Timer)
  /\ cancellations \in Nat
  /\ deadline \in [Timer -> 0..MaxTime]
  /\ timer \in [Timer -> {"unset", "live", "cancelled", "ran"}]
  /\ now \in 0..MaxTime /\ wakeAt \in 0..Forever

\* A timer that waits, in the heap or among those that are due: it was set, and not run.
Waits(t) == timer[t] \in {"live", "cancelled"}

\* The heap is in order, no timer is in it twice, and no more of it was cancelled than
\* _cancellations says.
HeapExact ==
  /\ Sorted(timeouts, deadline) /\ Distinct(timeouts)
  /\ \A i \in 1..Len(timeouts) : Waits(timeouts[i])
  /\ Missing(timeouts, Alive) <= cancellations

\* Those that are due are in order as well, their time has come, and they left the heap.
DueExact ==
  /\ Sorted(due, deadline) /\ Distinct(due)
  /\ \A i \in 1..Len(due) : Waits(due[i]) /\ deadline[due[i]] <= now
  /\ \A i \in 1..Len(timeouts), j \in 1..Len(due) : timeouts[i] # due[j]

\* The loop sleeps no longer than until the first timeout.
SleepsShort ==
  pc = "poll" => wakeAt <= now \/ timeouts = <<>> \/ wakeAt <= deadline[timeouts[1]]

TimerInv == TimerTypeOK /\ HeapExact /\ DueExact /\ SleepsShort

\* Dead counts what Missing counts.
LEMMA DeadIs ==
  ASSUME NEW q \in Seq(Timer)  PROVE Dead(q) = Missing(q, Alive)
<1>1. \A i \in 1..Len(q) : q[i] \in Timer
  OBVIOUS
<1>2. {i \in 1..Len(q) : ~Live(q[i])} = {i \in 1..Len(q) : q[i] \notin Alive}
  BY <1>1 DEF Alive
<1>. QED  BY <1>2 DEF Dead, Missing

\* The timeouts popped are the first ones, up to one that stays.
LEMMA PoppedIs ==
  ASSUME TimerTypeOK
  PROVE  /\ Popped \in 0..Len(timeouts)
         /\ \A i \in 1..Popped : ~(Live(timeouts[i]) /\ deadline[timeouts[i]] > now)
<1>. DEFINE Stays(i) == Live(timeouts[i]) /\ deadline[timeouts[i]] > now
            W == {n \in Nat : n = Len(timeouts) \/ (n < Len(timeouts) /\ Stays(n + 1))}
<1>0. Len(timeouts) \in Nat
  BY DEF TimerTypeOK
<1>1. PICK m \in W : \A k \in W : m <= k
  <2>1. Len(timeouts) \in W /\ W \in SUBSET Nat
    BY <1>0
  <2>. HIDE DEF W
  <2>. QED  BY <2>1, Least
<1>2. m \in 0..Len(timeouts) /\ (m = Len(timeouts) \/ Stays(m + 1))
  BY <1>0, <1>1
<1>3. ASSUME NEW i \in 1..m  PROVE ~Stays(i)
  <2>1. i - 1 \in Nat /\ i - 1 < Len(timeouts) /\ ~(m <= i - 1) /\ (i - 1) + 1 = i
    BY <1>0, <1>2
  <2>2. i - 1 \notin W
    BY <1>1, <2>1
  <2>. HIDE DEF Stays
  <2>. QED  BY <2>1, <2>2
<1>. HIDE DEF W
<1>. QED  BY <1>2, <1>3 DEF Popped

\* What a step that leaves the timers alone must not do to the rest.
LEMMA TimersUntouched ==
  ASSUME TimerInv, UNCHANGED timerVars, now' \in 0..MaxTime, now <= now',
         wakeAt' \in 0..Forever,
         pc' = "poll" => pc = "poll" /\ wakeAt' = wakeAt
  PROVE  TimerInv'
<1>. USE DEF TimerInv, timerVars
<1>1. TimerTypeOK'
  BY DEF TimerTypeOK
<1>2. Alive' = Alive
  BY DEF Alive, Live
<1>3. HeapExact'
  BY <1>2 DEF HeapExact, Waits
<1>4. ASSUME NEW i \in 1..Len(due)  PROVE deadline[due[i]] <= now'
  <2>1. due[i] \in Timer /\ deadline[due[i]] \in Nat /\ now \in Nat /\ now' \in Nat
    BY DEF TimerTypeOK
  <2>2. deadline[due[i]] <= now
    BY DEF DueExact
  <2>. QED  BY <2>1, <2>2
<1>5. DueExact'
  BY <1>4 DEF DueExact, Waits
<1>6. SleepsShort'
  <2>1. now \in Nat /\ now' \in Nat /\ wakeAt \in Nat
    BY DEF TimerTypeOK
  <2>. QED  BY <2>1 DEF SleepsShort
<1>. QED  BY <1>1, <1>3, <1>5, <1>6

\* Collect pops what is due and what was cancelled, and cleans the heap.
LEMMA CollectKeeps ==
  ASSUME TimerInv, Collect
  PROVE  /\ TimerInv'
         /\ Missing(timeouts', Alive) <= CompactAt
            \/ Missing(timeouts', Alive) <= Len(timeouts') \div 2
<1>. USE DEF TimerInv
<1>1. PICK n \in 0..Len(timeouts) :
        /\ n = Popped
        /\ \A i \in 1..n : ~(Live(timeouts[i]) /\ deadline[timeouts[i]] > now)
  BY PoppedIs
<1>2. timeouts \in Seq(Timer) /\ cancellations \in Nat /\ deadline \in [Timer -> 0..MaxTime]
      /\ now \in 0..MaxTime
  BY DEF TimerTypeOK
<1>3. PICK first \in Seq(Timer), rest \in Seq(Timer) :
        /\ first = SubSeq(timeouts, 1, n) /\ rest = SubSeq(timeouts, n + 1, Len(timeouts))
        /\ timeouts = first \o rest
        /\ Len(first) = n /\ Len(rest) = Len(timeouts) - n
        /\ \A i \in 1..n : first[i] = timeouts[i]
        /\ \A i \in 1..(Len(timeouts) - n) : rest[i] = timeouts[n + i]
  <2>1. /\ SubSeq(timeouts, 1, n) \in Seq(Timer)
        /\ SubSeq(timeouts, n + 1, Len(timeouts)) \in Seq(Timer)
    BY <1>2, CutInTwo
  <2>2. PICK p \in Seq(Timer), r \in Seq(Timer) :
          p = SubSeq(timeouts, 1, n) /\ r = SubSeq(timeouts, n + 1, Len(timeouts))
    BY <2>1
  <2>. QED  BY <1>2, <2>2, CutInTwo, ZenonT(60)
<1>29. PICK l \in Nat : l = Len(timeouts) /\ n \in 0..l
  <2>1. Len(timeouts) \in Nat
    BY <1>2
  <2>. QED  BY <2>1
<1>30. ASSUME NEW i \in 1..Len(first)
       PROVE  i \in 1..n /\ i \in 1..Len(timeouts) /\ first[i] = timeouts[i] /\ first[i] \in Timer
  <2>1. i \in 1..n
    BY <1>3
  <2>2. i \in 1..l /\ first[i] = timeouts[i]
    <3>1. i \in 1..l
      BY <1>29, <2>1
    <3>. QED  BY <1>3, <2>1, <3>1
  <2>3. timeouts[i] \in Timer
    BY <1>2, <1>29, <2>2
  <2>. QED  BY <1>29, <2>1, <2>2, <2>3
<1>31. ASSUME NEW i \in 1..Len(rest)
       PROVE  n + i \in 1..Len(timeouts) /\ rest[i] = timeouts[n + i]
  <2>1. i \in 1..(l - n)
    BY <1>3, <1>29
  <2>2. n + i \in 1..l
    BY <1>29, <2>1
  <2>. QED  BY <1>3, <1>29, <2>1, <2>2
<1>4. PICK left \in Int : left = cancellations - Missing(first, Alive)
  <2>1. Missing(first, Alive) \in Nat
    BY MissingSet
  <2>. QED  BY <1>2, <2>1
<1>5. /\ pc = "collect" /\ pc' = "run" /\ due' = Keep(first, Alive)
      /\ IF timeouts # <<>> /\ left > CompactAt /\ left > Len(rest) \div 2
           THEN cancellations' = 0 /\ timeouts' = Keep(rest, Alive)
           ELSE cancellations' = left /\ timeouts' = rest
      /\ UNCHANGED <<deadline, timer, wakeAt, now>>
  <2>1. Dead(first) = Missing(first, Alive)
    BY DeadIs
  <2>2. First = first /\ Rest = rest
    BY <1>1, <1>3 DEF First, Rest
  <2>. QED  BY <1>4, <2>1, <2>2 DEF Collect, Collected
<1>6. Alive' = Alive
  BY <1>5 DEF Alive, Live
<1>7. Sorted(timeouts, deadline) /\ Distinct(timeouts)
  BY DEF HeapExact
<1>8. Sorted(first, deadline) /\ Distinct(first)
  <2>1. \A i \in 1..Len(first) : i \in 1..Len(timeouts) /\ first[i] = timeouts[i]
    BY <1>30
  <2>2. \A i, j \in 1..Len(first) : i < j => deadline[first[i]] <= deadline[first[j]]
    BY <1>7, <2>1 DEF Sorted
  <2>3. \A i, j \in 1..Len(first) : first[i] = first[j] => i = j
    BY <1>7, <2>1 DEF Distinct
  <2>. QED  BY <2>2, <2>3 DEF Sorted, Distinct
<1>9. Sorted(rest, deadline) /\ Distinct(rest)
  <2>1. \A i \in 1..Len(rest) : n + i \in 1..Len(timeouts) /\ rest[i] = timeouts[n + i]
    BY <1>31
  <2>2. Sorted(rest, deadline)
    <3>1. ASSUME NEW i \in 1..Len(rest), NEW j \in 1..Len(rest), i < j
          PROVE  deadline[rest[i]] <= deadline[rest[j]]
      <4>1. n + i < n + j
        BY <3>1
      <4>. QED  BY <1>7, <2>1, <4>1 DEF Sorted
    <3>. QED  BY <3>1 DEF Sorted
  <2>3. Distinct(rest)
    <3>1. ASSUME NEW i \in 1..Len(rest), NEW j \in 1..Len(rest), rest[i] = rest[j]
          PROVE  i = j
      <4>1. n + i = n + j
        BY <1>7, <2>1, <3>1 DEF Distinct
      <4>. QED  BY <4>1
    <3>. QED  BY <3>1 DEF Distinct
  <2>. QED  BY <2>2, <2>3
<1>10. \A i \in 1..Len(first), j \in 1..Len(rest) : first[i] # rest[j]
  <2>1. ASSUME NEW i \in 1..Len(first), NEW j \in 1..Len(rest)  PROVE first[i] # rest[j]
    <3>1. /\ i \in 1..Len(timeouts) /\ first[i] = timeouts[i]
          /\ n + j \in 1..Len(timeouts) /\ rest[j] = timeouts[n + j] /\ i # n + j
      <4>0. Len(rest) \in Nat
        OBVIOUS
      <4>1. i \in 1..n /\ j \in Nat \ {0}
        BY <1>30, <4>0
      <4>. QED  BY <1>30, <1>31, <4>1
    <3>. QED  BY <1>7, <3>1 DEF Distinct
  <2>. QED  BY <2>1
<1>11. PICK k \in Seq(Timer) :
         /\ k = Keep(first, Alive) /\ Sorted(k, deadline) /\ Distinct(k)
         /\ \A i \in 1..Len(k) : k[i] \in Alive /\ \E j \in 1..Len(first) : k[i] = first[j]
  <2>1. PICK k \in Seq(Timer) : k = Keep(first, Alive)
    BY KeepIn
  <2>. QED  BY <1>8, <2>1, KeepOfSorted
<1>12. PICK h \in Seq(Timer) :
         /\ h = Keep(rest, Alive) /\ Sorted(h, deadline) /\ Distinct(h)
         /\ \A i \in 1..Len(h) : h[i] \in Alive /\ \E j \in 1..Len(rest) : h[i] = rest[j]
  <2>1. PICK h \in Seq(Timer) : h = Keep(rest, Alive)
    BY KeepIn
  <2>. QED  BY <1>9, <2>1, KeepOfSorted
<1>13. Missing(h, Alive) = 0
  BY <1>12, NothingMissing
<1>14. Missing(rest, Alive) <= left /\ Missing(rest, Alive) \in Nat
  <2>1. Missing(first \o rest, Alive) = Missing(first, Alive) + Missing(rest, Alive)
    BY MissingConcat
  <2>2. Missing(first, Alive) \in Nat /\ Missing(rest, Alive) \in Nat
    BY MissingSet
  <2>3. Missing(first \o rest, Alive) <= cancellations
    BY <1>3 DEF HeapExact
  <2>. QED  BY <1>2, <1>4, <2>1, <2>2, <2>3
<1>15. ASSUME NEW i \in 1..Len(due')  
       PROVE  timer'[due'[i]] \in {"live", "cancelled"} /\ deadline[due'[i]] <= now
  <2>1. due'[i] \in Alive
    BY <1>5, <1>11
  <2>2. PICK j \in 1..Len(first) : due'[i] = first[j]
    BY <1>5, <1>11
  <2>3. j \in 1..n /\ first[j] = timeouts[j] /\ first[j] \in Timer
    BY <1>30
  <2>4. ~(deadline[first[j]] > now)
    BY <1>1, <2>1, <2>2, <2>3 DEF Alive
  <2>5. deadline[first[j]] \in Nat /\ now \in Nat
    BY <1>2, <2>3
  <2>. QED  BY <1>5, <2>1, <2>2, <2>4, <2>5 DEF Waits, Alive, Live
<1>16. CASE timeouts # <<>> /\ left > CompactAt /\ left > Len(rest) \div 2
  <2>1. timeouts' = h /\ cancellations' = 0
    BY <1>5, <1>12, <1>16
  <2>2. TimerTypeOK'
    BY <1>5, <1>11, <2>1 DEF TimerTypeOK
  <2>3. \A i \in 1..Len(h) : Waits(h[i])'
    BY <1>5, <1>12 DEF Waits, Alive, Live
  <2>4. HeapExact'
    BY <1>5, <1>6, <1>12, <1>13, <2>1, <2>3 DEF HeapExact
  <2>5. \A i \in 1..Len(h), j \in 1..Len(k) : h[i] # k[j]
    BY <1>10, <1>11, <1>12
  <2>6. DueExact'
    BY <1>5, <1>11, <1>15, <2>1, <2>5 DEF DueExact, Waits
  <2>7. SleepsShort'
    BY <1>5 DEF SleepsShort
  <2>. QED  BY <1>13, <2>1, <2>2, <2>4, <2>6, <2>7, ConstantsAssumption
<1>17. CASE ~(timeouts # <<>> /\ left > CompactAt /\ left > Len(rest) \div 2)
  <2>1. timeouts' = rest /\ cancellations' = left
    BY <1>5, <1>17
  <2>2. left \in Nat
    BY <1>14
  <2>3. TimerTypeOK'
    BY <1>5, <1>11, <2>1, <2>2 DEF TimerTypeOK
  <2>4. \A i \in 1..Len(rest) : Waits(rest[i])'
    <3>1. \A i \in 1..Len(rest) : n + i \in 1..Len(timeouts) /\ rest[i] = timeouts[n + i]
      BY <1>31
    <3>. QED  BY <1>5, <3>1 DEF HeapExact, Waits
  <2>5. HeapExact'
    BY <1>5, <1>6, <1>9, <1>14, <2>1, <2>4 DEF HeapExact
  <2>6. \A i \in 1..Len(rest), j \in 1..Len(k) : rest[i] # k[j]
    BY <1>10, <1>11
  <2>7. DueExact'
    BY <1>5, <1>11, <1>15, <2>1, <2>6 DEF DueExact, Waits
  <2>8. SleepsShort'
    BY <1>5 DEF SleepsShort
  <2>9. Missing(rest, Alive) <= CompactAt \/ Missing(rest, Alive) <= Len(rest) \div 2
    <3>1. CompactAt \in Nat /\ Len(rest) \div 2 \in Int
      BY ConstantsAssumption
    \* An empty heap is not looked at.
    <3>2. CASE timeouts = <<>>
      <4>1. Len(rest) = 0
        BY <1>3, <3>2
      <4>2. Missing(rest, Alive) = 0
        <5>1. \A i \in 1..Len(rest) : rest[i] \in Alive
          BY <4>1
        <5>. QED  BY <5>1, NothingMissing
      <4>. QED  BY <3>1, <4>2
    <3>. QED  BY <1>14, <1>17, <2>2, <3>1, <3>2
  <2>. QED  BY <2>1, <2>3, <2>5, <2>7, <2>8, <2>9
<1>. QED  BY <1>16, <1>17

\* RunTimeout takes the first that is due.
LEMMA RunTimeoutKeeps ==
  ASSUME TimerInv, RunTimeout
  PROVE  /\ TimerInv'
         /\ \A t \in Timer : timer[t] # "ran" /\ timer'[t] = "ran" =>
              /\ timer[t] = "live" /\ deadline[t] <= now
              /\ \A i \in 1..Len(due') : deadline[t] <= deadline[due'[i]]
<1>. USE DEF TimerInv
<1>1. PICK q \in Seq(Timer) : q = due
  BY DEF TimerTypeOK
<1>2. q # <<>> /\ due' = Tail(q) /\ pc = "run" /\ pc' # "poll"
      /\ UNCHANGED <<timeouts, cancellations, deadline, wakeAt, now>>
  BY <1>1 DEF RunTimeout
<1>3. PICK t \in Timer : t = Head(q) /\ t = q[1] /\ 1 \in 1..Len(q)
  BY <1>2
<1>4. Tail(q) \in Seq(Timer) /\ Len(Tail(q)) = Len(q) - 1
      /\ \A i \in 1..Len(Tail(q)) : i + 1 \in 1..Len(q) /\ Tail(q)[i] = q[i + 1]
  BY <1>2
<1>5. timer' = IF Live(t) THEN [timer EXCEPT ![t] = "ran"] ELSE timer
  BY <1>1, <1>3 DEF RunTimeout
<1>6. timer \in [Timer -> {"unset", "live", "cancelled", "ran"}]
  BY DEF TimerTypeOK
<1>7. \A u \in Timer : u # t => timer'[u] = timer[u]
  BY <1>5, <1>6
<1>8. /\ Sorted(q, deadline) /\ Distinct(q)
      /\ \A i \in 1..Len(q) : Waits(q[i]) /\ deadline[q[i]] <= now
      /\ \A i \in 1..Len(timeouts), j \in 1..Len(q) : timeouts[i] # q[j]
  BY <1>1 DEF DueExact
<1>9. TimerTypeOK'
  <2>1. timer' \in [Timer -> {"unset", "live", "cancelled", "ran"}]
    BY <1>5, <1>6
  <2>. QED  BY <1>2, <1>4, <2>1 DEF TimerTypeOK
<1>10. \A i \in 1..Len(timeouts) : timeouts[i] \in Timer /\ timeouts[i] # t
  BY <1>3, <1>8 DEF TimerTypeOK
<1>11. HeapExact'
  <2>1. \A i \in 1..Len(timeouts) : timer'[timeouts[i]] = timer[timeouts[i]]
    BY <1>7, <1>10
  <2>2. \A i \in 1..Len(timeouts) : timeouts[i] \in Alive <=> timeouts[i] \in Alive'
    BY <1>10, <2>1 DEF Alive, Live
  <2>3. PICK A : A = Alive'
    OBVIOUS
  <2>4. Missing(timeouts, Alive) = Missing(timeouts, A)
    BY <2>2, <2>3, MissingAlike
  <2>. QED  BY <1>2, <2>1, <2>3, <2>4 DEF HeapExact, Waits
<1>12. DueExact'
  <2>1. ASSUME NEW i \in 1..Len(Tail(q))  PROVE Tail(q)[i] \in Timer /\ Tail(q)[i] # t
    <3>1. i + 1 \in 1..Len(q) /\ i + 1 # 1 /\ Tail(q)[i] = q[i + 1]
      BY <1>4
    <3>. QED  BY <1>3, <1>8, <3>1 DEF Distinct
  <2>2. \A i \in 1..Len(Tail(q)) : timer'[Tail(q)[i]] = timer[Tail(q)[i]]
    BY <1>7, <2>1
  <2>3. Sorted(Tail(q), deadline)
    <3>1. ASSUME NEW i \in 1..Len(Tail(q)), NEW j \in 1..Len(Tail(q)), i < j
          PROVE  deadline[Tail(q)[i]] <= deadline[Tail(q)[j]]
      <4>1. i + 1 < j + 1
        BY <3>1
      <4>. QED  BY <1>4, <1>8, <4>1 DEF Sorted
    <3>. QED  BY <3>1 DEF Sorted
  <2>4. Distinct(Tail(q))
    <3>1. ASSUME NEW i \in 1..Len(Tail(q)), NEW j \in 1..Len(Tail(q)), Tail(q)[i] = Tail(q)[j]
          PROVE  i = j
      <4>1. i + 1 = j + 1
        BY <1>4, <1>8, <3>1 DEF Distinct
      <4>. QED  BY <4>1
    <3>. QED  BY <3>1 DEF Distinct
  <2>5. \A i \in 1..Len(Tail(q)) : Waits(Tail(q)[i]) /\ deadline[Tail(q)[i]] <= now
    BY <1>4, <1>8
  <2>6. \A i \in 1..Len(timeouts), j \in 1..Len(Tail(q)) : timeouts[i] # Tail(q)[j]
    BY <1>4, <1>8
  <2>. QED  BY <1>2, <2>2, <2>3, <2>4, <2>5, <2>6 DEF DueExact, Waits
<1>13. SleepsShort'
  BY <1>2 DEF SleepsShort
<1>14. ASSUME NEW u \in Timer, timer[u] # "ran", timer'[u] = "ran"
       PROVE  /\ timer[u] = "live" /\ deadline[u] <= now
              /\ \A i \in 1..Len(due') : deadline[u] <= deadline[due'[i]]
  <2>1. u = t /\ Live(t)
    BY <1>5, <1>7, <1>14
  <2>2. ASSUME NEW i \in 1..Len(due')  PROVE deadline[t] <= deadline[due'[i]]
    <3>1. i + 1 \in 1..Len(q) /\ 1 < i + 1 /\ due'[i] = q[i + 1]
      BY <1>2, <1>4
    <3>. QED  BY <1>3, <1>8, <3>1 DEF Sorted
  <2>. QED  BY <1>3, <1>8, <2>1, <2>2 DEF Live
<1>. QED  BY <1>9, <1>11, <1>12, <1>13, <1>14

\* call_at puts a new timer where its deadline belongs.
LEMMA CallAtKeeps ==
  ASSUME TimerInv, NEW t \in Timer, CallAt(t)
  PROVE  /\ TimerInv'
         /\ \A u \in Timer : timer'[u] = "ran" => timer[u] = "ran"
<1>. USE DEF TimerInv
<1>1. pc = "user" /\ timer[t] = "unset" /\ timer' = [timer EXCEPT ![t] = "live"]
      /\ UNCHANGED <<pc, due, cancellations, wakeAt, now>>
  BY DEF CallAt
<1>2. PICK d \in now..MaxTime :
        /\ deadline' = [deadline EXCEPT ![t] = d]
        /\ timeouts' = InsertAt(timeouts,
             Cardinality({i \in 1..Len(timeouts) : deadline[timeouts[i]] <= d}) + 1, t)
  BY DEF CallAt
<1>3. /\ timer \in [Timer -> {"unset", "live", "cancelled", "ran"}]
      /\ deadline \in [Timer -> 0..MaxTime] /\ timeouts \in Seq(Timer) /\ due \in Seq(Timer)
      /\ now \in Nat /\ cancellations \in Nat
  BY DEF TimerTypeOK
<1>4. PICK e \in [Timer -> 0..MaxTime] : e = deadline' /\ e[t] = d
  <2>1. d \in 0..MaxTime
    BY <1>3
  <2>2. deadline' \in [Timer -> 0..MaxTime] /\ deadline'[t] = d
    BY <1>2, <1>3, <2>1
  <2>. QED  BY <2>2
<1>5. \A u \in Timer : u # t => e[u] = deadline[u] /\ timer'[u] = timer[u]
  BY <1>1, <1>2, <1>3, <1>4
<1>6. timer'[t] = "live" /\ timer' \in [Timer -> {"unset", "live", "cancelled", "ran"}]
  BY <1>1, <1>3
<1>7. \A i \in 1..Len(timeouts) : timeouts[i] \in Timer /\ timeouts[i] # t
  <2>1. \A i \in 1..Len(timeouts) : timeouts[i] \in Timer
    BY <1>3
  <2>. QED  BY <1>1, <2>1 DEF HeapExact, Waits
<1>8. \A i \in 1..Len(due) : due[i] \in Timer /\ due[i] # t
  <2>1. \A i \in 1..Len(due) : due[i] \in Timer
    BY <1>3
  <2>. QED  BY <1>1, <2>1 DEF DueExact, Waits
<1>9. PICK W \in SUBSET (1..Len(timeouts)) :
        W = {i \in 1..Len(timeouts) : deadline[timeouts[i]] <= d}
  OBVIOUS
<1>10. ASSUME NEW i \in W, NEW j \in 1..Len(timeouts), j < i  PROVE j \in W
  <2>1. deadline[timeouts[i]] <= d /\ deadline[timeouts[j]] <= deadline[timeouts[i]]
    BY <1>9, <1>10 DEF HeapExact, Sorted
  <2>2. deadline[timeouts[i]] \in Int /\ deadline[timeouts[j]] \in Int
    BY <1>3, <1>7
  <2>. QED  BY <1>9, <2>1, <2>2
<1>11. PICK n \in 0..Len(timeouts) : n = Cardinality(W) /\ W = 1..n
  <2>1. Len(timeouts) \in Nat
    BY <1>3
  <2>. QED  BY <1>10, <2>1, FrontCount
<1>12. \A i \in 1..Len(timeouts) : i <= n <=> e[timeouts[i]] <= e[t]
  <2>1. ASSUME NEW i \in 1..Len(timeouts)  PROVE i <= n <=> e[timeouts[i]] <= e[t]
    <3>1. i \in W <=> i <= n
      <4>1. Len(timeouts) \in Nat
        BY <1>3
      <4>2. n \in Nat /\ i \in Nat /\ 1 <= i
        BY <4>1
      <4>3. i \in 1..n <=> i <= n
        BY <4>2
      <4>. QED  BY <1>11, <4>3
    <3>2. i \in W <=> deadline[timeouts[i]] <= d
      BY <1>9
    <3>. QED  BY <1>4, <1>5, <1>7, <3>1, <3>2
  <2>. QED  BY <2>1
<1>13. Sorted(timeouts, e) /\ Distinct(timeouts)
  BY <1>5, <1>7 DEF HeapExact, Sorted
<1>14. e \in [Timer -> Int]
  OBVIOUS
<1>15. timeouts' = InsertAt(timeouts, n + 1, t)
  BY <1>2, <1>9, <1>11
<1>16. PICK u : u = InsertAt(timeouts, n + 1, t)
  OBVIOUS
<1>17. /\ u \in Seq(Timer) /\ Sorted(u, e) /\ Distinct(u)
       /\ \A i \in 1..Len(u) : u[i] = t \/ \E j \in 1..Len(timeouts) : u[i] = timeouts[j]
       /\ \A A : t \in A => Missing(u, A) = Missing(timeouts, A)
  <2>0. timeouts \in Seq(Timer) /\ \A i \in 1..Len(timeouts) : timeouts[i] # t
    BY <1>3, <1>7
  <2>1. u \in Seq(Timer) /\ Sorted(u, e) /\ Distinct(u)
    BY <1>12, <1>13, <1>14, <1>16, <2>0, InsertSorted
  <2>2. \A i \in 1..Len(u) : u[i] = t \/ \E j \in 1..Len(timeouts) : u[i] = timeouts[j]
    BY <1>12, <1>13, <1>14, <1>16, <2>0, InsertSorted
  <2>3. \A A : t \in A => Missing(u, A) = Missing(timeouts, A)
    BY <1>12, <1>13, <1>14, <1>16, <2>0, InsertSorted, SMTT(40)
  <2>. QED  BY <2>1, <2>2, <2>3
<1>18. PICK A : A = Alive'
  OBVIOUS
<1>19. Missing(u, A) = Missing(timeouts, Alive)
  <2>1. t \in A
    BY <1>6, <1>18 DEF Alive, Live
  <2>2. \A i \in 1..Len(timeouts) : timeouts[i] \in A <=> timeouts[i] \in Alive
    BY <1>5, <1>7, <1>18 DEF Alive, Live
  <2>3. Missing(timeouts, A) = Missing(timeouts, Alive)
    BY <2>2, MissingAlike
  <2>. QED  BY <1>17, <2>1, <2>3
<1>20. TimerTypeOK'
  BY <1>1, <1>4, <1>6, <1>15, <1>16, <1>17 DEF TimerTypeOK
<1>21. HeapExact'
  <2>1. ASSUME NEW i \in 1..Len(u)  PROVE timer'[u[i]] \in {"live", "cancelled"}
    <3>1. CASE u[i] = t
      BY <1>6, <3>1
    <3>2. CASE u[i] # t
      <4>1. PICK j \in 1..Len(timeouts) : u[i] = timeouts[j]
        BY <1>17, <3>2
      <4>. QED  BY <1>5, <1>7, <4>1 DEF HeapExact, Waits
    <3>. QED  BY <3>1, <3>2
  <2>2. Missing(timeouts, Alive) <= cancellations
    BY DEF HeapExact
  <2>. QED  BY <1>1, <1>4, <1>15, <1>16, <1>17, <1>18, <1>19, <2>1, <2>2 DEF HeapExact, Waits
<1>22. DueExact'
  <2>1. \A i \in 1..Len(due) : e[due[i]] = deadline[due[i]] /\ timer'[due[i]] = timer[due[i]]
    BY <1>5, <1>8
  <2>2. Sorted(due, e)
    BY <2>1 DEF DueExact, Sorted
  <2>3. \A i \in 1..Len(u), j \in 1..Len(due) : u[i] # due[j]
    BY <1>8, <1>17 DEF DueExact
  <2>. QED  BY <1>1, <1>4, <1>15, <1>16, <2>1, <2>2, <2>3 DEF DueExact, Waits
<1>23. SleepsShort'
  BY <1>1 DEF SleepsShort
<1>24. \A v \in Timer : timer'[v] = "ran" => timer[v] = "ran"
  BY <1>5, <1>6
<1>. QED  BY <1>20, <1>21, <1>22, <1>23, <1>24

\* remove_timeout counts one more, wherever the timer is.
LEMMA RemoveTimeoutKeeps ==
  ASSUME TimerInv, NEW t \in Timer, RemoveTimeout(t)
  PROVE  /\ TimerInv'
         /\ \A u \in Timer : timer'[u] = "ran" => timer[u] = "ran"
<1>. USE DEF TimerInv
<1>1. pc = "user" /\ timer' = [timer EXCEPT ![t] = "cancelled"]
      /\ cancellations' = cancellations + 1
      /\ UNCHANGED <<pc, timeouts, due, deadline, wakeAt, now>>
  BY DEF RemoveTimeout
<1>2. /\ timer \in [Timer -> {"unset", "live", "cancelled", "ran"}]
      /\ timeouts \in Seq(Timer) /\ due \in Seq(Timer) /\ cancellations \in Nat
  BY DEF TimerTypeOK
<1>3. timer'[t] = "cancelled" /\ \A u \in Timer : u # t => timer'[u] = timer[u]
  BY <1>1, <1>2
<1>4. TimerTypeOK'
  <2>1. timer' \in [Timer -> {"unset", "live", "cancelled", "ran"}]
    BY <1>1, <1>2
  <2>2. cancellations' \in Nat
    BY <1>1, <1>2
  <2>. QED  BY <1>1, <2>1, <2>2 DEF TimerTypeOK
<1>5. \A u \in Timer : Waits(u) => timer'[u] \in {"live", "cancelled"}
  BY <1>3 DEF Waits
<1>6. HeapExact'
  <2>1. PICK A : A = Alive'
    OBVIOUS
  <2>2. Alive \ {t} \subseteq A
    BY <1>3, <2>1 DEF Alive, Live
  <2>3. Missing(timeouts, A) <= Missing(timeouts, Alive) + 1
    BY <1>2, <2>2, MissingOneMore DEF HeapExact
  <2>4. Missing(timeouts, Alive) <= cancellations
    BY DEF HeapExact
  <2>5. Missing(timeouts, A) \in Nat /\ Missing(timeouts, Alive) \in Nat
    BY <1>2, MissingSet
  <2>6. Missing(timeouts, A) <= cancellations'
    BY <1>1, <1>2, <2>3, <2>4, <2>5
  <2>7. \A i \in 1..Len(timeouts) : timer'[timeouts[i]] \in {"live", "cancelled"}
    BY <1>2, <1>5 DEF HeapExact
  <2>. QED  BY <1>1, <2>1, <2>6, <2>7 DEF HeapExact, Waits
<1>7. DueExact'
  <2>1. \A i \in 1..Len(due) : timer'[due[i]] \in {"live", "cancelled"}
    BY <1>2, <1>5 DEF DueExact
  <2>. QED  BY <1>1, <2>1 DEF DueExact, Waits
<1>8. SleepsShort'
  BY <1>1 DEF SleepsShort
<1>9. \A u \in Timer : timer'[u] = "ran" => timer[u] = "ran"
  BY <1>3
<1>. QED  BY <1>4, <1>6, <1>7, <1>8, <1>9

\* Decide looks at the first timeout.
LEMMA DecideKeeps ==
  ASSUME TimerInv, Decide  PROVE TimerInv'
<1>. USE DEF TimerInv
<1>1. UNCHANGED <<timerVars, now>>
      /\ wakeAt' = IF callbacks # <<>> THEN now
                   ELSE IF timeouts # <<>> THEN deadline[Head(timeouts)] ELSE Forever
  BY DEF Decide, SleepUntil
<1>2. timeouts # <<>> => Head(timeouts) = timeouts[1] /\ timeouts[1] \in Timer
  BY DEF TimerTypeOK
<1>3. now \in 0..MaxTime /\ deadline \in [Timer -> 0..MaxTime] /\ MaxTime \in Nat
  BY ConstantsAssumption DEF TimerTypeOK
<1>4. wakeAt' \in 0..Forever /\ (wakeAt' <= now \/ timeouts = <<>>
                                  \/ wakeAt' <= deadline[timeouts[1]])
  <2>1. CASE callbacks # <<>>
    BY <1>1, <1>3, <2>1 DEF Forever
  <2>2. CASE callbacks = <<>> /\ timeouts # <<>>
    <3>1. wakeAt' = deadline[timeouts[1]] /\ deadline[timeouts[1]] \in 0..MaxTime
      BY <1>1, <1>2, <1>3, <2>2
    <3>. QED  BY <1>3, <3>1 DEF Forever
  <2>3. CASE callbacks = <<>> /\ timeouts = <<>>
    BY <1>1, <1>3, <2>3 DEF Forever
  <2>. QED  BY <2>1, <2>2, <2>3
<1>5. TimerTypeOK'
  BY <1>1, <1>4 DEF TimerTypeOK, timerVars
<1>6. Alive' = Alive
  BY <1>1 DEF Alive, Live, timerVars
<1>7. HeapExact'
  BY <1>1, <1>6 DEF HeapExact, Waits, timerVars
<1>8. DueExact'
  BY <1>1 DEF DueExact, Waits, timerVars
<1>9. SleepsShort'
  BY <1>1, <1>4 DEF SleepsShort, timerVars
<1>. QED  BY <1>5, <1>7, <1>8, <1>9

\* The timers stay in order, whoever sets, runs or cancels them.
LEMMA TimersInductive == HandoffTypeOK /\ TimerInv /\ [Next]_vars => TimerInv'
<1>. SUFFICES ASSUME HandoffTypeOK, TimerInv, [Next]_vars
             PROVE  TimerInv'
  OBVIOUS
<1>0. now \in 0..MaxTime /\ wakeAt \in 0..Forever /\ now <= now /\ 0 \in 0..Forever
  BY ConstantsAssumption DEF TimerInv, TimerTypeOK, Forever
<1>1. CASE Tick
  <2>1. now' \in 0..MaxTime /\ now <= now' /\ UNCHANGED <<timerVars, pc, wakeAt>>
    BY <1>0, <1>1, ConstantsAssumption DEF Tick
  <2>. QED  BY <1>0, <2>1, TimersUntouched
<1>2. CASE Swap \/ RunCallback \/ Dispatch \/ EndIteration \/ Yield \/ Register
  BY <1>0, <1>2, TimersUntouched
     DEF Swap, RunCallback, RunFrom, Dispatch, EndIteration, Yield, Register
<1>3. CASE Poll
  BY <1>0, <1>3, TimersUntouched DEF Poll
<1>4. CASE AddCallback
  BY <1>0, <1>4, TimersUntouched DEF AddCallback
<1>5. CASE Return
  <2>1. pc' # "poll"
    BY <1>5 DEF Return, HandoffTypeOK
  <2>. QED  BY <1>0, <1>5, <2>1, TimersUntouched DEF Return
<1>6. ASSUME NEW f \in Fd, Arrive(f) \/ AddHandler(f) \/ RemoveHandler(f)
      PROVE  TimerInv'
  BY <1>0, <1>6, TimersUntouched DEF Arrive, AddHandler, RemoveHandler
<1>7. ASSUME NEW j \in Job, Submit(j) \/ SetResult(j) \/ InvokeCallbacks(j) \/ Wake(j)
      PROVE  TimerInv'
  BY <1>0, <1>7, TimersUntouched DEF Submit, SetResult, InvokeCallbacks, Invoke, Wake
<1>8. CASE Collect
  BY <1>8, CollectKeeps
<1>9. CASE RunTimeout
  BY <1>9, RunTimeoutKeeps
<1>10. CASE Decide
  BY <1>10, DecideKeeps
<1>11. ASSUME NEW t \in Timer, CallAt(t) \/ RemoveTimeout(t)  PROVE TimerInv'
  BY <1>11, CallAtKeeps, RemoveTimeoutKeeps
<1>12. CASE UNCHANGED vars
  BY <1>0, <1>12, TimersUntouched DEF vars
<1>. QED
  BY <1>1, <1>2, <1>3, <1>4, <1>5, <1>6, <1>7, <1>8, <1>9, <1>10, <1>11, <1>12
     DEF Next, Loop

\* What is sound of the timers holds in every reachable state.
LEMMA TimersInvariant == Spec => []TimerInv
<1>1. Init => TimerInv
  <2>. SUFFICES ASSUME Init  PROVE TimerInv
    OBVIOUS
  <2>1. timeouts = <<>> /\ due = <<>> /\ cancellations = 0 /\ now = 0 /\ wakeAt = 0
        /\ deadline = [t \in Timer |-> 0] /\ timer = [t \in Timer |-> "unset"] /\ pc = "swap"
    BY DEF Init
  <2>2. <<>> \in Seq(Timer) /\ Len(<<>>) = 0
    OBVIOUS
  <2>3. TimerTypeOK
    BY <2>1, <2>2, ConstantsAssumption DEF TimerTypeOK, Forever
  <2>4. Missing(<<>>, Alive) = 0
    <3>1. \A i \in 1..Len(<<>>) : <<>>[i] \in Alive
      OBVIOUS
    <3>. QED  BY <2>2, <3>1, NothingMissing
  <2>5. HeapExact
    BY <2>1, <2>2, <2>4 DEF HeapExact, Sorted, Distinct
  <2>6. DueExact
    BY <2>1, <2>2 DEF DueExact, Sorted, Distinct
  <2>7. SleepsShort
    BY <2>1 DEF SleepsShort
  <2>. QED  BY <2>3, <2>5, <2>6, <2>7 DEF TimerInv
<1>2. HandoffTypeOK /\ CurrentIsJob /\ TimerInv /\ [Next]_vars => TimerInv'
  BY TimersInductive
<1>. QED  BY <1>1, <1>2, TypesInvariant, PTL DEF Spec

\* The variables that are left: descriptors, pipe and lock.
RestTypeOK ==
  /\ registered \subseteq Fd /\ HandlersExact
  /\ pipe \in BOOLEAN /\ lock \in Job \cup {None}

\* They keep their types.
LEMMA RestInvariant == Spec => []RestTypeOK
<1>1. Init => RestTypeOK
  BY ConstantsAssumption DEF Init, RestTypeOK, HandlersExact, EventsHaveHandlers
<1>2. RestTypeOK /\ [Next]_vars => RestTypeOK'
  <2>. SUFFICES ASSUME RestTypeOK, [Next]_vars
               PROVE  /\ registered' \subseteq Fd
                      /\ pipe' \in BOOLEAN /\ lock' \in Job \cup {None}
    BY HandlersInductive DEF RestTypeOK
  <2>. USE DEF RestTypeOK
  <2>1. CASE Tick \/ AddCallback \/ Return
    BY <2>1 DEF Tick, AddCallback, Return, fdVars, threadVars
  <2>2. CASE Swap \/ Collect \/ RunCallback \/ RunTimeout \/ Decide
    BY <2>2 DEF Swap, Collect, Collected, RunCallback, RunFrom, RunTimeout, Decide,
                SleepUntil, fdVars, threadVars
  <2>3. CASE Poll \/ Dispatch \/ EndIteration \/ Yield \/ Register
    BY <2>3 DEF Poll, Dispatch, EndIteration, Yield, Register, fdVars, threadVars
  <2>4. ASSUME NEW f \in Fd, Arrive(f) \/ AddHandler(f) \/ RemoveHandler(f)
        PROVE  registered' \subseteq Fd /\ pipe' \in BOOLEAN /\ lock' \in Job \cup {None}
    BY <2>4 DEF Arrive, AddHandler, RemoveHandler, threadVars
  <2>5. ASSUME NEW j \in Job, Submit(j) \/ SetResult(j) \/ InvokeCallbacks(j) \/ Wake(j)
        PROVE  registered' \subseteq Fd /\ pipe' \in BOOLEAN /\ lock' \in Job \cup {None}
    BY <2>5 DEF Submit, SetResult, InvokeCallbacks, Invoke, Wake, fdVars
  <2>6. ASSUME NEW t \in Timer, CallAt(t) \/ RemoveTimeout(t)
        PROVE  registered' \subseteq Fd /\ pipe' \in BOOLEAN /\ lock' \in Job \cup {None}
    BY <2>6 DEF CallAt, RemoveTimeout, fdVars, threadVars
  <2>7. CASE UNCHANGED vars
    BY <2>7 DEF vars, fdVars, threadVars
  <2>. QED  BY <2>1, <2>2, <2>3, <2>4, <2>5, <2>6, <2>7 DEF Next, Loop
<1>. QED  BY <1>1, <1>2, PTL DEF Spec

\* Only three operations touch a timer.
LEMMA TimerMoves ==
  ASSUME [Next]_vars
  PROVE  RunTimeout \/ (\E t \in Timer : CallAt(t) \/ RemoveTimeout(t)) \/ UNCHANGED timer
<1>1. CASE Tick \/ AddCallback \/ Return
  BY <1>1 DEF Tick, AddCallback, Return, timerVars
<1>2. CASE Swap \/ Collect \/ RunCallback \/ Decide \/ Poll \/ Dispatch \/ EndIteration
  BY <1>2 DEF Swap, Collect, Collected, RunCallback, RunFrom, Decide, SleepUntil, Poll,
              Dispatch, EndIteration, timerVars
<1>3. CASE Yield \/ Register
  BY <1>3 DEF Yield, Register, timerVars
<1>4. ASSUME NEW f \in Fd, Arrive(f) \/ AddHandler(f) \/ RemoveHandler(f)
      PROVE  UNCHANGED timer
  BY <1>4 DEF Arrive, AddHandler, RemoveHandler, timerVars
<1>5. ASSUME NEW j \in Job, Submit(j) \/ SetResult(j) \/ InvokeCallbacks(j) \/ Wake(j)
      PROVE  UNCHANGED timer
  BY <1>5 DEF Submit, SetResult, InvokeCallbacks, Invoke, Wake, timerVars
<1>6. CASE UNCHANGED vars
  BY <1>6 DEF vars, timerVars
<1>. QED  BY <1>1, <1>2, <1>3, <1>4, <1>5, <1>6 DEF Next, Loop

\* From "collect" the loop comes to "run" by Collect only.
LEMMA CollectMoves == ASSUME Next, pc = "collect", pc' = "run"  PROVE Collect
<1>1. ~Tick /\ ~AddCallback /\ ~Return
  BY DEF Tick, AddCallback, Return
<1>2. ~Swap /\ ~RunCallback /\ ~RunTimeout /\ ~Decide /\ ~Poll /\ ~Dispatch /\ ~EndIteration
      /\ ~Yield /\ ~Register
  BY DEF Swap, RunCallback, RunFrom, RunTimeout, Decide, SleepUntil, Poll, Dispatch,
         EndIteration, Yield, Register
<1>3. \A f \in Fd : ~Arrive(f) /\ ~AddHandler(f) /\ ~RemoveHandler(f)
  BY DEF Arrive, AddHandler, RemoveHandler
<1>4. \A j \in Job : ~Submit(j) /\ ~SetResult(j) /\ ~InvokeCallbacks(j) /\ ~Wake(j)
  BY DEF Submit, SetResult, InvokeCallbacks, Invoke, Wake
<1>5. \A t \in Timer : ~CallAt(t) /\ ~RemoveTimeout(t)
  BY DEF CallAt, RemoveTimeout
<1>. QED  BY <1>1, <1>2, <1>3, <1>4, <1>5 DEF Next, Loop

\* Every variable keeps its type, and the loop does not sleep past a timeout that was
\* not cancelled: poll returns at its deadline, or before.
THEOREM TimeoutsWake == Spec => []NoOversleep
<1>1. HandoffTypeOK /\ CurrentIsJob /\ TimerInv /\ RestTypeOK => NoOversleep
  <2>. SUFFICES ASSUME HandoffTypeOK, CurrentIsJob, TimerInv, RestTypeOK
               PROVE  NoOversleep
    OBVIOUS
  <2>1. TypeOK
    <3>1. current \in Job \cup {None}
      BY DEF CurrentIsJob
    <3>2. resumed \in [Job -> 0..2]
      BY DEF HandoffTypeOK
    <3>3. ready \subseteq Fd /\ events \subseteq Fd \cup {Waker}
      BY DEF RestTypeOK, HandlersExact, EventsHaveHandlers
    <3>. QED
      BY <3>1, <3>2, <3>3 DEF TypeOK, HandoffTypeOK, TimerInv, TimerTypeOK, RestTypeOK
  <2>2. ASSUME pc = "poll", NEW i \in 1..Len(timeouts)
        PROVE  wakeAt <= now \/ wakeAt <= deadline[timeouts[i]]
    <3>1. timeouts \in Seq(Timer) /\ timeouts # <<>> /\ 1 \in 1..Len(timeouts)
      BY <2>2 DEF TimerInv, TimerTypeOK
    <3>2. timeouts[1] \in Timer /\ timeouts[i] \in Timer
      BY <3>1
    <3>3. deadline[timeouts[1]] \in Nat /\ deadline[timeouts[i]] \in Nat /\ wakeAt \in Nat
      BY <3>2 DEF TimerInv, TimerTypeOK
    <3>4. deadline[timeouts[1]] <= deadline[timeouts[i]]
      <4>1. CASE i = 1
        BY <3>3, <4>1
      <4>2. CASE i # 1
        <5>1. 1 < i
          BY <3>1, <4>2
        <5>. QED  BY <3>1, <5>1 DEF TimerInv, HeapExact, Sorted
      <4>. QED  BY <4>1, <4>2
    <3>. QED  BY <2>2, <3>1, <3>3, <3>4 DEF TimerInv, SleepsShort
  <2>. QED  BY <2>1, <2>2 DEF NoOversleep
<1>. QED  BY <1>1, TypesInvariant, TimersInvariant, RestInvariant, PTL

\* A timeout runs when its deadline has passed, unless it was cancelled before, and in
\* the order of the deadlines.
THEOREM TimeoutOrder == Spec => TimeoutsRunInOrder
<1>. DEFINE InOrder ==
       \A t \in Timer : timer[t] # "ran" /\ timer'[t] = "ran" =>
         /\ timer[t] = "live" /\ deadline[t] <= now
         /\ \A i \in 1..Len(due') : deadline[t] <= deadline[due'[i]]
<1>1. TimerInv /\ [Next]_vars => [InOrder]_vars
  <2>. SUFFICES ASSUME TimerInv, [Next]_vars
               PROVE  InOrder \/ UNCHANGED vars
    OBVIOUS
  <2>1. CASE UNCHANGED timer
    BY <2>1
  <2>2. CASE RunTimeout
    BY <2>2, RunTimeoutKeeps
  <2>3. ASSUME NEW t \in Timer, CallAt(t) \/ RemoveTimeout(t)  PROVE InOrder
    BY <2>3, CallAtKeeps, RemoveTimeoutKeeps
  <2>4. RunTimeout \/ (\E t \in Timer : CallAt(t) \/ RemoveTimeout(t)) \/ UNCHANGED timer
    BY TimerMoves
  <2>. HIDE DEF InOrder
  <2>. QED  BY <2>1, <2>2, <2>3, <2>4
<1>. QED  BY <1>1, TimersInvariant, PTL DEF Spec, TimeoutsRunInOrder

\* _cancellations is never below what it counts, and the heap does not fill with
\* timeouts that were cancelled.
THEOREM HeapCleaned == Spec => HeapIsMostlyLive
<1>. DEFINE Cleaned ==
       /\ (Dead(timeouts) <= cancellations)'
       /\ pc = "collect" /\ pc' = "run" =>
            (Dead(timeouts) <= CompactAt \/ Dead(timeouts) <= Len(timeouts) \div 2)'
<1>1. TimerInv /\ TimerInv' /\ [Next]_vars => [Cleaned]_vars
  <2>. SUFFICES ASSUME TimerInv, TimerInv', Next
               PROVE  Cleaned
    OBVIOUS
  <2>1. Dead(timeouts)' = Missing(timeouts', Alive')
    <3>1. \A i \in 1..Len(timeouts') : timeouts'[i] \in Timer
      BY DEF TimerInv, TimerTypeOK
    <3>2. {i \in 1..Len(timeouts') : ~(timer'[timeouts'[i]] = "live")}
          = {i \in 1..Len(timeouts') : timeouts'[i] \notin Alive'}
      BY <3>1 DEF Alive, Live
    <3>. QED  BY <3>2 DEF Dead, Missing, Live
  <2>2. Missing(timeouts', Alive') <= cancellations'
    BY DEF TimerInv, HeapExact
  <2>3. ASSUME pc = "collect", pc' = "run"
        PROVE  Missing(timeouts', Alive') <= CompactAt
               \/ Missing(timeouts', Alive') <= Len(timeouts') \div 2
    <3>1. Collect
      BY <2>3, CollectMoves
    <3>2. Alive' = Alive
      BY <3>1 DEF Collect, Collected, Alive, Live
    <3>. QED  BY <3>1, <3>2, CollectKeeps
  <2>. QED  BY <2>1, <2>2, <2>3
<1>. QED  BY <1>1, TimersInvariant, PTL DEF Spec, HeapIsMostlyLive
=============================================================================
