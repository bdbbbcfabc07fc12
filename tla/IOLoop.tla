------------------------------- MODULE IOLoop -------------------------------
(***************************************************************************)
(* The thread every handler runs on: PollIOLoop.start, with its callbacks, *)
(* timeouts and file descriptors, and the worker threads that hand it the  *)
(* results of executor.submit through a future, add_callback and a pipe.   *)
(* What the handlers do with it is arbitrary: at pc "user" the code of a   *)
(* callback, timeout or fd handler calls the operations of the loop in any *)
(* order, then returns.                                                    *)
(***************************************************************************)
EXTENDS Integers, Sequences, FiniteSets, SequencesExt, ListFilter

CONSTANTS
  Job,        \* one "yield executor.submit(...)", with its coroutine and its worker
  Timer,      \* one _Timeout object
  Fd,         \* file descriptors of connections
  Listener,   \* the listening socket, which is never closed
  Waker,      \* the reading end of the waker's pipe
  Plain,      \* a callback that is not a coroutine's: IOStream's wrapper
  None,
  CompactAt,  \* 512: as many cancelled timeouts are tolerated
  MaxTime     \* bound: the clock

ASSUME ConstantsAssumption ==
  /\ CompactAt \in Nat /\ MaxTime \in Nat
  /\ Listener \in Fd /\ Waker \notin Fd /\ Plain \notin Job /\ None \notin Job

VARIABLES
  pc,            \* where the IOLoop thread is
  back,          \* where it goes on when the user code returns
  current,       \* the job whose future is being yielded
  callbacks,     \* _callbacks
  batch,         \* callbacks of this iteration, still to be run
  timeouts,      \* _timeouts, in the order the heap yields them
  due,           \* due_timeouts of this iteration, still to be run
  cancellations, \* _cancellations
  deadline,      \* deadline[t], 0 before call_at
  timer,         \* "unset", "live": its callback is not None; "cancelled"; "ran"
  registered,    \* DOMAIN _handlers, without the waker's
  ready,         \* descriptors the kernel has an event for
  events,        \* _events: what poll returned and was not handled yet
  wakeAt,        \* when poll returns by itself
  pipe,          \* there are bytes in the waker's pipe
  lock,          \* the thread that holds _callback_lock between two steps
  future,        \* _state of the job's future
  listed,        \* jobs whose future has the loop's callback in _done_callbacks
  worker,        \* where the worker thread is with the job
  resumed,       \* how often the coroutine went on
  now

threadVars == <<lock, future, listed, worker, resumed>>
timerVars == <<timeouts, due, cancellations, deadline, timer>>
fdVars == <<registered, ready, events>>
vars == <<pc, back, current, callbacks, batch, timerVars, fdVars, wakeAt, pipe,
          threadVars, now>>

Forever == MaxTime + 1   \* _POLL_TIMEOUT, an hour

TypeOK ==
  /\ pc \in {"swap", "collect", "run", "user", "yield", "register", "decide", "poll",
             "dispatch"}
  /\ back \in {"run", "dispatch"}
  /\ current \in Job \cup {None}
  /\ callbacks \in Seq(Job \cup {Plain}) /\ batch \in Seq(Job \cup {Plain})
  /\ timeouts \in Seq(Timer) /\ due \in Seq(Timer)
  /\ cancellations \in Nat
  /\ deadline \in [Timer -> 0..MaxTime]
  /\ timer \in [Timer -> {"unset", "live", "cancelled", "ran"}]
  /\ registered \subseteq Fd /\ ready \subseteq Fd /\ events \subseteq Fd \cup {Waker}
  /\ wakeAt \in 0..Forever
  /\ pipe \in BOOLEAN
  /\ lock \in Job \cup {None}
  /\ future \in [Job -> {"none", "pending", "finished"}]
  /\ listed \subseteq Job
  /\ worker \in [Job -> {"none", "work", "invoke", "wake", "over"}]
  /\ resumed \in [Job -> 0..2]
  /\ now \in 0..MaxTime

Init ==
  /\ pc = "swap" /\ back = "run" /\ current = None
  /\ callbacks = <<>> /\ batch = <<>>
  /\ timeouts = <<>> /\ due = <<>> /\ cancellations = 0
  /\ deadline = [t \in Timer |-> 0]
  /\ timer = [t \in Timer |-> "unset"]
  /\ registered = {Listener} /\ ready = {} /\ events = {}
  /\ wakeAt = 0 /\ pipe = FALSE /\ lock = None
  /\ future = [j \in Job |-> "none"]
  /\ listed = {}
  /\ worker = [j \in Job |-> "none"]
  /\ resumed = [j \in Job |-> 0]
  /\ now = 0

-----------------------------------------------------------------------------
(* The environment                                                         *)

Tick ==
  /\ now < MaxTime /\ now' = now + 1
  /\ UNCHANGED <<pc, back, current, callbacks, batch, timerVars, fdVars, wakeAt, pipe,
                 threadVars>>

\* Data, a connection, an end of file or an error arrives.
Arrive(f) ==
  /\ f \in registered
  /\ ready' = ready \cup {f}
  /\ UNCHANGED <<pc, back, current, callbacks, batch, timerVars, registered, events,
                 wakeAt, pipe, threadVars, now>>

-----------------------------------------------------------------------------
(* One iteration of start()                                                *)

\* with self._callback_lock: callbacks = self._callbacks; self._callbacks = [].
Swap ==
  /\ pc = "swap" /\ lock = None
  /\ batch' = callbacks /\ callbacks' = <<>>
  /\ pc' = "collect"
  /\ UNCHANGED <<back, current, timerVars, fdVars, wakeAt, pipe, threadVars, now>>

Live(t) == timer[t] = "live"
Alive == {t \in Timer : Live(t)}
Dead(q) == Cardinality({i \in 1..Len(q) : ~Live(q[i])})

\* How many timeouts are popped: up to the first live one whose deadline is not reached.
Popped ==
  LET stays(i) == Live(timeouts[i]) /\ deadline[timeouts[i]] > now
  IN  CHOOSE n \in 0..Len(timeouts) :
        /\ n = Len(timeouts) \/ stays(n + 1)
        /\ \A i \in 1..n : ~stays(i)

First == SubSeq(timeouts, 1, Popped)
Rest == SubSeq(timeouts, Popped + 1, Len(timeouts))

\* The timeouts that are due leave the heap, and the cancelled ones among them; if
\* there are many cancelled ones left, and more than half, the heap is cleaned.  All
\* this is inside "if self._timeouts".
Collected(count, half) ==
  LET left == cancellations - count
  IN  /\ pc = "collect" /\ pc' = "run"
      /\ due' = Keep(First, Alive)
      /\ IF timeouts # <<>> /\ left > CompactAt /\ left > half
           THEN cancellations' = 0 /\ timeouts' = Keep(Rest, Alive)
           ELSE cancellations' = left /\ timeouts' = Rest
      /\ UNCHANGED <<back, current, callbacks, batch, deadline, timer, fdVars, wakeAt,
                     pipe, threadVars, now>>

\* Operators ending in Bug, here and below, are the mistakes the properties are tried
\* against; nothing in the specification uses them.
\* The count of the cancelled ones is compared with all of the heap: ">> 1" forgotten.
WholeHeapBug == Collected(Dead(First), Len(Rest))

\* Every popped timeout counts as a cancellation less.
MiscountBug == Collected(Popped, Len(Rest) \div 2)

Collect == Collected(Dead(First), Len(Rest) \div 2)

\* Runner.run: a coroutine that has finished, or whose future is not done, is left
\* alone; the others are sent the result.  Those of the server yield once.
GoesOn(j) ==
  resumed' = IF resumed[j] = 0 /\ future[j] = "finished"
               THEN [resumed EXCEPT ![j] = 1] ELSE resumed

RunFrom(q, rest) ==
  /\ pc = "run" /\ q # <<>>
  /\ batch' = Tail(q) /\ callbacks' = rest
  /\ IF Head(q) = Plain THEN UNCHANGED resumed ELSE GoesOn(Head(q))
  /\ pc' = "user" /\ back' = "run"
  /\ UNCHANGED <<current, timerVars, fdVars, wakeAt, pipe, lock, future, listed, worker,
                 now>>

\* What add_callback did meanwhile is run in the same iteration.
SameIterationBug == lock = None /\ RunFrom(batch \o callbacks, <<>>)

\* for callback in callbacks: self._run_callback(callback).
RunCallback == RunFrom(batch, callbacks)

\* The check for None is not repeated when the timeout is run.
RunCancelledBug ==
  /\ pc = "run" /\ batch = <<>> /\ due # <<>>
  /\ due' = Tail(due)
  /\ timer' = [timer EXCEPT ![Head(due)] = "ran"]
  /\ pc' = "user" /\ back' = "run"
  /\ UNCHANGED <<current, callbacks, batch, timeouts, cancellations, deadline,
                 fdVars, wakeAt, pipe, threadVars, now>>

\* for timeout in due_timeouts: if timeout.callback is not None: ...  It may have been
\* cancelled since it was found to be due.
RunTimeout ==
  /\ pc = "run" /\ batch = <<>> /\ due # <<>>
  /\ due' = Tail(due)
  /\ IF Live(Head(due))
       THEN /\ timer' = [timer EXCEPT ![Head(due)] = "ran"]
            /\ pc' = "user" /\ back' = "run"
       ELSE UNCHANGED <<timer, pc, back>>
  /\ UNCHANGED <<current, callbacks, batch, timeouts, cancellations, deadline,
                 fdVars, wakeAt, pipe, threadVars, now>>

SleepUntil(time) ==
  /\ pc = "run" /\ batch = <<>> /\ due = <<>>
  /\ wakeAt' = time
  /\ pc' = "poll"
  /\ UNCHANGED <<back, current, callbacks, batch, timerVars, fdVars, pipe, threadVars,
                 now>>

\* The timeout is that of the last timeout pushed, not of the first in the heap.
WrongDeadlineBug ==
  SleepUntil(IF callbacks # <<>> THEN now
             ELSE IF timeouts # <<>> THEN deadline[Last(timeouts)] ELSE Forever)

\* poll_timeout: nothing if there are callbacks, else until the first timeout, even
\* when that one is cancelled.  _callbacks is read without the lock.
Decide ==
  SleepUntil(IF callbacks # <<>> THEN now
             ELSE IF timeouts # <<>> THEN deadline[Head(timeouts)] ELSE Forever)

\* self._impl.poll returns what is ready, or nothing when its time is over.
Poll ==
  /\ pc = "poll"
  /\ ready # {} \/ pipe \/ wakeAt <= now
  /\ events' = ready \cup (IF pipe THEN {Waker} ELSE {})
  /\ pc' = "dispatch" /\ wakeAt' = 0
  /\ UNCHANGED <<back, current, callbacks, batch, timerVars, registered, ready, pipe,
                 threadVars, now>>

\* self._events.popitem(): the waker's handler empties the pipe, any other one reads
\* its descriptor.
Dispatch ==
  /\ pc = "dispatch"
  /\ \E fd \in events :
       /\ events' = events \ {fd}
       /\ IF fd = Waker
            THEN pipe' = FALSE /\ UNCHANGED <<ready, pc, back>>
            ELSE /\ ready' = ready \ {fd} /\ UNCHANGED pipe
                 /\ pc' = "user" /\ back' = "dispatch"
  /\ UNCHANGED <<current, callbacks, batch, timerVars, registered, wakeAt, threadVars,
                 now>>

EndIteration ==
  /\ pc = "dispatch" /\ events = {}
  /\ pc' = "swap"
  /\ UNCHANGED <<back, current, callbacks, batch, timerVars, fdVars, wakeAt, pipe,
                 threadVars, now>>

-----------------------------------------------------------------------------
(* What the code of a handler, timeout or callback does on the loop's      *)
(* thread, one call at a time                                              *)

\* executor.submit, and "yield" of the future it returns.
Submit(j) ==
  /\ pc = "user" /\ future[j] = "none"
  /\ future' = [future EXCEPT ![j] = "pending"]
  /\ worker' = [worker EXCEPT ![j] = "work"]
  /\ pc' = "yield" /\ current' = j
  /\ UNCHANGED <<back, callbacks, batch, timerVars, fdVars, wakeAt, pipe, lock, listed,
                 resumed, now>>

\* handle_yield: when the future is done already the coroutine just goes on.
Yield ==
  /\ pc = "yield"
  /\ IF future[current] = "finished"
       THEN GoesOn(current) /\ pc' = "user" /\ current' = None
       ELSE pc' = "register" /\ UNCHANGED <<resumed, current>>
  /\ UNCHANGED <<back, callbacks, batch, timerVars, fdVars, wakeAt, pipe, lock, future,
                 listed, worker, now>>

\* add_done_callback trusts the check made before, not its own.
UncheckedBug ==
  /\ pc = "register"
  /\ listed' = listed \cup {current}
  /\ pc' = "user" /\ current' = None
  /\ UNCHANGED <<back, callbacks, batch, timerVars, fdVars, wakeAt, pipe, lock, future,
                 worker, resumed, now>>

\* io_loop.add_future: add_done_callback looks at the state again, holding the
\* future's condition, and calls the callback, which is add_callback, if it came late.
Register ==
  /\ pc = "register"
  /\ IF future[current] = "finished"
       THEN lock = None /\ callbacks' = Append(callbacks, current) /\ UNCHANGED listed
       ELSE listed' = listed \cup {current} /\ UNCHANGED callbacks
  /\ pc' = "user" /\ current' = None
  /\ UNCHANGED <<back, batch, timerVars, fdVars, wakeAt, pipe, lock, future, worker,
                 resumed, now>>

\* add_callback on the loop's own thread does not wake it.  Bound: one plain callback
\* waits at a time.
AddCallback ==
  /\ pc = "user" /\ lock = None /\ ~Contains(callbacks, Plain)
  /\ callbacks' = Append(callbacks, Plain)
  /\ UNCHANGED <<pc, back, current, batch, timerVars, fdVars, wakeAt, pipe, threadVars,
                 now>>

\* heapq.heappush: behind every timeout that is not later, the tiebreaker being a counter.
CallAt(t) ==
  /\ pc = "user" /\ timer[t] = "unset"
  /\ timer' = [timer EXCEPT ![t] = "live"]
  /\ \E d \in now..MaxTime :
       LET earlier(u) == deadline[u] <= d
           n == Cardinality({i \in 1..Len(timeouts) : earlier(timeouts[i])})
       IN  /\ deadline' = [deadline EXCEPT ![t] = d]
           /\ timeouts' = InsertAt(timeouts, n + 1, t)
  /\ UNCHANGED <<pc, back, current, callbacks, batch, due, cancellations, fdVars, wakeAt,
                 pipe, threadVars, now>>

\* remove_timeout, also of one that has run, which counts as a cancellation as well.
\* A timeout is not removed twice: its owners forget it.
RemoveTimeout(t) ==
  /\ pc = "user" /\ timer[t] \in {"live", "ran"}
  /\ timer' = [timer EXCEPT ![t] = "cancelled"]
  /\ cancellations' = cancellations + 1
  /\ UNCHANGED <<pc, back, current, callbacks, batch, timeouts, due, deadline, fdVars,
                 wakeAt, pipe, threadVars, now>>

\* A connection is accepted: a new stream, which may get a descriptor used before.
AddHandler(f) ==
  /\ pc = "user" /\ f \notin registered
  /\ registered' = registered \cup {f}
  /\ UNCHANGED <<pc, back, current, callbacks, batch, timerVars, ready, events, wakeAt,
                 pipe, threadVars, now>>

\* _events.pop(fd, None) forgotten.
KeepEventBug(f) ==
  /\ pc = "user" /\ f \in registered \ {Listener}
  /\ registered' = registered \ {f} /\ ready' = ready \ {f}
  /\ UNCHANGED <<pc, back, current, callbacks, batch, timerVars, events, wakeAt, pipe,
                 threadVars, now>>

\* A stream is closed, by its own handler or another's (a broadcast that fails).
RemoveHandler(f) ==
  /\ pc = "user" /\ f \in registered \ {Listener}
  /\ registered' = registered \ {f} /\ ready' = ready \ {f} /\ events' = events \ {f}
  /\ UNCHANGED <<pc, back, current, callbacks, batch, timerVars, wakeAt, pipe,
                 threadVars, now>>

\* The code returns or raises; _run_callback and start() log what it raises.
Return ==
  /\ pc = "user" /\ pc' = back /\ back' = "run"
  /\ UNCHANGED <<current, callbacks, batch, timerVars, fdVars, wakeAt, pipe,
                 threadVars, now>>

-----------------------------------------------------------------------------
(* The worker threads                                                      *)

\* set_result: the state changes under the condition, the callbacks are called after
\* it is released.
SetResult(j) ==
  /\ worker[j] = "work"
  /\ future' = [future EXCEPT ![j] = "finished"]
  /\ worker' = [worker EXCEPT ![j] = "invoke"]
  /\ UNCHANGED <<pc, back, current, callbacks, batch, timerVars, fdVars, wakeAt, pipe,
                 lock, listed, resumed, now>>

\* _invoke_callbacks: add_callback from this thread; "wakes" is when the loop needs it.
Invoke(j, wakes) ==
  /\ worker[j] = "invoke"
  /\ IF j \in listed
       THEN /\ lock = None
            /\ callbacks' = Append(callbacks, j)
            /\ IF wakes
                 THEN worker' = [worker EXCEPT ![j] = "wake"] /\ lock' = j
                 ELSE worker' = [worker EXCEPT ![j] = "over"] /\ UNCHANGED lock
       ELSE worker' = [worker EXCEPT ![j] = "over"] /\ UNCHANGED <<callbacks, lock>>
  /\ UNCHANGED <<pc, back, current, batch, timerVars, fdVars, wakeAt, pipe, future,
                 listed, resumed, now>>

\* Whether the list is empty is looked at after the append.
NeverEmptyBug(j) == Invoke(j, FALSE)

\* The waker is needed when the list was empty: a list that is not has woken the loop,
\* or is seen by it before it polls.
InvokeCallbacks(j) == Invoke(j, callbacks = <<>>)

\* self._waker.wake(), still holding the lock.  A full pipe does the same.
Wake(j) ==
  /\ worker[j] = "wake"
  /\ pipe' = TRUE /\ lock' = None
  /\ worker' = [worker EXCEPT ![j] = "over"]
  /\ UNCHANGED <<pc, back, current, callbacks, batch, timerVars, fdVars, wakeAt, future,
                 listed, resumed, now>>

-----------------------------------------------------------------------------
Loop ==
  \/ Swap \/ Collect \/ RunCallback \/ RunTimeout \/ Decide \/ Poll \/ Dispatch
  \/ EndIteration \/ Yield \/ Register

Next ==
  \/ Tick \/ Loop \/ AddCallback \/ Return
  \/ \E f \in Fd : Arrive(f) \/ AddHandler(f) \/ RemoveHandler(f)
  \/ \E j \in Job : Submit(j) \/ SetResult(j) \/ InvokeCallbacks(j) \/ Wake(j)
  \/ \E t \in Timer : CallAt(t) \/ RemoveTimeout(t)

Spec == Init /\ [][Next]_vars

\* The threads run, handlers return, time passes.  Nothing is assumed of the jobs.
Fairness ==
  /\ WF_vars(Tick) /\ WF_vars(Loop) /\ WF_vars(Return)
  /\ \A j \in Job : WF_vars(InvokeCallbacks(j)) /\ WF_vars(Wake(j))

FairSpec == Spec /\ Fairness

-----------------------------------------------------------------------------
(* Properties                                                              *)

\* The loop does not sleep on work: when it polls with callbacks waiting, it returns at
\* once, or the pipe is readable, or a worker is about to write to it.  Without this a
\* finished query is answered when something else happens, or an hour later.
NoLostWakeup ==
  pc = "poll" /\ callbacks # <<>> => wakeAt <= now \/ pipe \/ lock # None

\* Nor does it sleep past a timeout that was not cancelled.  The types of the variables
\* are checked with it.
NoOversleep ==
  /\ TypeOK
  /\ pc = "poll" => \A i \in 1..Len(timeouts) : Live(timeouts[i]) =>
       wakeAt <= now \/ wakeAt <= deadline[timeouts[i]]

\* A timeout runs when its deadline has passed, never after it was cancelled, and after
\* every earlier one that was waiting when the iteration began.
TimeoutsRunInOrder ==
  [][\A t \in Timer : timer[t] # "ran" /\ timer'[t] = "ran" =>
       /\ timer[t] = "live" /\ deadline[t] <= now
       /\ \A i \in 1..Len(due') : deadline[t] <= deadline[due'[i]]]_vars

\* An event that is waiting to be handled is for a handler that is still there: not for
\* a stream another handler has closed since, nor for a new one with its descriptor.
EventsHaveHandlers == events \subseteq registered \cup {Waker}

\* _cancellations may be too large, never too small, so that the heap is cleaned in time:
\* after each Collect at most CompactAt timeouts in it are cancelled, or at most half.
HeapIsMostlyLive ==
  [][/\ (Dead(timeouts) <= cancellations)'
     /\ pc = "collect" /\ pc' = "run" =>
          (Dead(timeouts) <= CompactAt \/ Dead(timeouts) <= Len(timeouts) \div 2)']_vars

\* Each coroutine goes on once, after its result is there, and in the end (refinement
\* of Handoff, with its fairness).
HandoffState(j) ==
  CASE resumed[j] > 1 -> "resumed twice"
    [] resumed[j] = 1 -> "resumed"
    [] resumed[j] = 0 /\ future[j] = "finished" -> "done"
    [] resumed[j] = 0 /\ future[j] = "pending" -> "working"
    [] OTHER -> "new"
AbstractHandoff == INSTANCE Handoff WITH state <- [j \in Job |-> HandoffState(j)]
HandoffSpec == AbstractHandoff!Spec

\* No starvation: an event is handled, or its descriptor closed, even when callbacks
\* keep adding callbacks.
EventsAreHandled == \A f \in Fd : f \in ready ~> f \notin ready

\* A timeout that is not cancelled runs.
TimeoutsRun == \A t \in Timer : timer[t] = "live" ~> timer[t] # "live"
=============================================================================
