---------------------------- MODULE QueryService ----------------------------
(***************************************************************************)
(* The query half of tornadoserver.py: handlers whose get is decorated     *)
(* with query_database(use_thread=True) run on the ThreadPoolExecutor they *)
(* all share, talk to Impala from a worker thread, and are finished by the *)
(* IOLoop thread once their future is done.  Page handlers run on the      *)
(* IOLoop itself.  The executor is the futures backport in modules/.       *)
(***************************************************************************)
EXTENDS Integers, Sequences, FiniteSets

CONSTANTS
  Request,      \* one HTTP request, with the handler made for it
  Kind,         \* the kinds of request that are made, see Kinds
  MaxWorkers,   \* ThreadPoolExecutor(max_workers=50)
  MaxRestart,   \* bound: restarts of the server process
  None

\* "stats": /_make_query with good arguments; "free": a statement typed by the user
\* (/_make_sql_query, /_make_table_query); "drop": such a statement with "drop" in
\* it; "bad": an argument is missing or out of range; "page": an HTML page.
Kinds == {"stats", "free", "drop", "bad", "page"}

ASSUME ConstantsAssumption ==
  /\ Kind \subseteq Kinds
  /\ MaxWorkers \in Nat \ {0}
  /\ MaxRestart \in Nat
  /\ None \notin {"json", "empty", "error", "page"}   \* Outcome, below

VARIABLES
  client,    \* the browser's side of the request
  kind,      \* the kind of request it sent
  stage,     \* where the server is with it
  todo,      \* Impala statements the worker has still to execute
  queue,     \* executor._work_queue
  threads,   \* len(executor._threads)
  buffer,    \* handler._write_buffer, as the sequence of chunks written
  reply,     \* what finish() sent: status and body, None before
  outcome,   \* history: how the work ended, None before
  order,     \* history: requests in the order they were submitted
  restarts

vars == <<client, kind, stage, todo, queue, threads, buffer, reply, outcome, order,
          restarts>>

\* The stages of a request: "arrived" until its handler runs; "queued" in the work
\* queue; in a worker, it connects, executes and writes; its future is "resolved" or
\* "failed"; "finished" when the handler is; "lost" when the process ended.
InWorker == {"connect", "execute", "write"}
Stage == {"none", "arrived", "queued", "resolved", "failed", "finished", "lost"}
           \cup InWorker
Outcome == {"json", "empty", "error", "page"}
Chunk == {"json", "page", "problem", "trace", "message", "databaseError"}
Reply == [status : {200, 500}, body : Seq(Chunk)]

Running == {r \in Request : stage[r] \in InWorker}

TypeOK ==
  /\ client \in [Request -> {"idle", "waiting", "answered", "gone"}]
  /\ kind \in [Request -> Kind \cup {None}]
  /\ stage \in [Request -> Stage]
  /\ todo \in [Request -> 0..3]
  /\ queue \in Seq(Request)
  /\ threads \in 0..MaxWorkers
  /\ buffer \in [Request -> Seq(Chunk)]
  /\ reply \in [Request -> Reply \cup {None}]
  /\ outcome \in [Request -> Outcome \cup {None}]
  /\ order \in Seq(Request)
  /\ restarts \in 0..MaxRestart

Init ==
  /\ client = [r \in Request |-> "idle"]
  /\ kind = [r \in Request |-> None]
  /\ stage = [r \in Request |-> "none"]
  /\ todo = [r \in Request |-> 0]
  /\ queue = <<>>
  /\ threads = 0
  /\ buffer = [r \in Request |-> <<>>]
  /\ reply = [r \in Request |-> None]
  /\ outcome = [r \in Request |-> None]
  /\ order = <<>>
  /\ restarts = 0

-----------------------------------------------------------------------------
(* The browser                                                             *)

Ask(r) ==
  /\ client[r] = "idle"
  /\ client' = [client EXCEPT ![r] = "waiting"]
  /\ \E k \in Kind : kind' = [kind EXCEPT ![r] = k]
  /\ stage' = [stage EXCEPT ![r] = "arrived"]
  /\ UNCHANGED <<todo, queue, threads, buffer, reply, outcome, order, restarts>>

\* The user leaves the page.  RequestHandler.on_connection_close does nothing: the
\* query goes on.
GiveUp(r) ==
  /\ client[r] = "waiting"
  /\ client' = [client EXCEPT ![r] = "gone"]
  /\ UNCHANGED <<kind, stage, todo, queue, threads, buffer, reply, outcome, order,
                 restarts>>

-----------------------------------------------------------------------------
(* The IOLoop thread                                                       *)

\* finish() flushes the buffer; a client that has gone does not see it.
Finish(r, status, body) ==
  /\ reply' = [reply EXCEPT ![r] = [status |-> status, body |-> body]]
  /\ buffer' = [buffer EXCEPT ![r] = <<>>]
  /\ stage' = [stage EXCEPT ![r] = "finished"]
  /\ client' = [client EXCEPT ![r] = IF @ = "waiting" THEN "answered" ELSE @]

\* Pages rendered on a worker: the page waits for the pool.
PageOnPoolBug(r) ==
  /\ stage[r] = "arrived" /\ kind[r] = "page"
  /\ Cardinality(Running) < MaxWorkers
  /\ Finish(r, 200, <<"page">>)
  /\ outcome' = [outcome EXCEPT ![r] = "page"]
  /\ UNCHANGED <<kind, todo, queue, threads, order, restarts>>

\* HomeHandler, DashboardHandler, ...: render and finish, on the IOLoop.
ServePage(r) ==
  /\ stage[r] = "arrived" /\ kind[r] = "page"
  /\ Finish(r, 200, <<"page">>)
  /\ outcome' = [outcome EXCEPT ![r] = "page"]
  /\ UNCHANGED <<kind, todo, queue, threads, order, restarts>>

\* executor.submit(exception_catcher, get, ...): the item is queued, and one more
\* thread is started as long as there are fewer than MaxWorkers.
Enqueue(r, newQueue, newThreads) ==
  /\ stage[r] = "arrived" /\ kind[r] # "page"
  /\ stage' = [stage EXCEPT ![r] = "queued"]
  /\ queue' = newQueue
  /\ threads' = newThreads
  /\ order' = Append(order, r)
  /\ UNCHANGED <<client, kind, todo, buffer, reply, outcome, restarts>>

OneMoreThread == IF threads < MaxWorkers THEN threads + 1 ELSE threads

\* A LIFO queue; a thread only for the first item; <= instead of < in
\* _adjust_thread_count.
LifoBug(r) == Enqueue(r, <<r>> \o queue, OneMoreThread)
OneThreadBug(r) == Enqueue(r, Append(queue, r), 1)
ThreadCountBug(r) ==
  Enqueue(r, Append(queue, r), IF threads <= MaxWorkers THEN threads + 1 ELSE threads)

Submit(r) == Enqueue(r, Append(queue, r), OneMoreThread)

\* "yield" forgotten before the future: the handler is finished without waiting.
ForgottenYieldBug(r) ==
  \/ /\ stage[r] \in {"queued", "resolved"} \cup InWorker
     /\ Finish(r, 200, buffer[r])
     /\ UNCHANGED <<kind, todo, queue, threads, outcome, order, restarts>>
  \/ /\ stage[r] = "failed"
     /\ Finish(r, 500, Append(buffer[r], "databaseError"))
     /\ UNCHANGED <<kind, todo, queue, threads, outcome, order, restarts>>

\* The error path does not finish the handler.
UnfinishedErrorBug(r) ==
  /\ stage[r] = "resolved"
  /\ Finish(r, 200, buffer[r])
  /\ UNCHANGED <<kind, todo, queue, threads, outcome, order, restarts>>

\* wrapper after "yield future".  A future that failed is answered 500: "Problem in
\* Nested exception" is written, then traceback.format_exc() raises NameError, the
\* module not being imported, and the outer except adds its own text and finishes.
Resume(r) ==
  \/ /\ stage[r] = "resolved"
     /\ Finish(r, 200, buffer[r])
     /\ UNCHANGED <<kind, todo, queue, threads, outcome, order, restarts>>
  \/ /\ stage[r] = "failed"
     /\ Finish(r, 500, buffer[r] \o <<"problem", "databaseError">>)
     /\ UNCHANGED <<kind, todo, queue, threads, outcome, order, restarts>>

-----------------------------------------------------------------------------
(* The worker threads                                                      *)

\* A worker that is not busy takes the oldest item.
Take ==
  /\ queue # <<>> /\ Cardinality(Running) < threads
  /\ queue' = Tail(queue)
  /\ stage' = [stage EXCEPT ![Head(queue)] = "connect"]
  /\ UNCHANGED <<client, kind, todo, threads, buffer, reply, outcome, order, restarts>>

MoveTo(r, next) == stage' = [stage EXCEPT ![r] = next]
EndWith(r, o) == outcome' = [outcome EXCEPT ![r] = o]

\* Anything raised in the handler.  exception_catcher's own except clause raises
\* NameError (traceback again), so the future carries that instead.
Raise(r) == MoveTo(r, "failed") /\ EndWith(r, "error")

\* connect(); then the arguments are read.  The session is opened before they are
\* looked at, so a rejected request has needed one too.
Connected(r) ==
  /\ stage[r] = "connect"
  /\ \/ /\ kind[r] \in {"stats", "free"}
        /\ MoveTo(r, "execute")
        /\ todo' = [todo EXCEPT ![r] = IF kind[r] = "stats" THEN 3 ELSE 1]
        /\ UNCHANGED outcome
     \/ kind[r] = "drop" /\ MoveTo(r, "resolved") /\ EndWith(r, "empty") /\ UNCHANGED todo
     \/ kind[r] = "bad" /\ Raise(r) /\ UNCHANGED todo
  /\ UNCHANGED <<client, kind, queue, threads, buffer, reply, order, restarts>>

\* "invalidate metadata", "REFRESH <table>" and the SELECT, each waiting for Impala;
\* after the last one fetchall.
Executed(r) ==
  /\ stage[r] = "execute"
  /\ todo' = [todo EXCEPT ![r] = @ - 1]
  /\ IF todo[r] = 1 THEN MoveTo(r, "write") ELSE UNCHANGED stage
  /\ UNCHANGED <<client, kind, queue, threads, buffer, reply, outcome, order, restarts>>

\* Impala refuses the connection or a statement.
ImpalaFails(r) ==
  /\ stage[r] \in {"connect", "execute"}
  /\ Raise(r)
  /\ UNCHANGED <<client, kind, todo, queue, threads, buffer, reply, order, restarts>>

\* self.write(json_data) is the last thing a handler does; converting the rows to
\* JSON may fail, before anything is in the buffer.
Write(r) ==
  /\ stage[r] = "write"
  /\ \/ /\ buffer' = [buffer EXCEPT ![r] = Append(@, "json")]
        /\ MoveTo(r, "resolved") /\ EndWith(r, "json")
     \/ Raise(r) /\ UNCHANGED buffer
  /\ UNCHANGED <<client, kind, todo, queue, threads, reply, order, restarts>>

-----------------------------------------------------------------------------
\* The process ends and starts again (autoreload, or an operator).  Clients that
\* were waiting see their connection reset; the pool starts empty.
Restart ==
  /\ restarts < MaxRestart
  /\ restarts' = restarts + 1
  /\ client' = [r \in Request |-> IF client[r] = "waiting" THEN "gone" ELSE client[r]]
  /\ stage' = [r \in Request |->
                 IF stage[r] \in {"none", "finished"} THEN stage[r] ELSE "lost"]
  /\ todo' = [r \in Request |-> 0]
  /\ buffer' = [r \in Request |-> <<>>]
  /\ queue' = <<>> /\ order' = <<>>
  /\ threads' = 0
  /\ UNCHANGED <<kind, reply, outcome>>

Next ==
  \/ \E r \in Request :
       \/ Ask(r) \/ GiveUp(r)
       \/ ServePage(r) \/ Submit(r) \/ Resume(r)
       \/ Connected(r) \/ Executed(r) \/ ImpalaFails(r) \/ Write(r)
  \/ Take
  \/ Restart

Spec == Init /\ [][Next]_vars

\* The IOLoop and the worker threads run what they can.
ServerFairness ==
  /\ WF_vars(Take)
  /\ \A r \in Request : /\ WF_vars(ServePage(r)) /\ WF_vars(Submit(r))
                        /\ WF_vars(Resume(r)) /\ WF_vars(Write(r))

\* Nothing in the code bounds the wait for Impala: that it answers is an assumption.
ImpalaFairness ==
  \A r \in Request : WF_vars(Connected(r) \/ Executed(r) \/ ImpalaFails(r))

FairSpec == Spec /\ ServerFairness

-----------------------------------------------------------------------------
(* Properties                                                              *)

\* The executor never runs more queries than it has threads, never has more threads
\* than MaxWorkers, and a query waits in the queue only while there are MaxWorkers
\* threads or an idle thread for it: no submitted query is stranded.
PoolExact ==
  /\ Cardinality(Running) <= threads /\ threads <= MaxWorkers
  /\ threads = MaxWorkers \/ Cardinality(Running) + Len(queue) <= threads

\* Queries start in the order they were submitted: the ones still queued are the last.
FirstComeFirstServed ==
  LET started == Len(order) - Len(queue) IN
  /\ started >= 0
  /\ queue = SubSeq(order, started + 1, Len(order))
  /\ \A i \in 1..Len(order) : (stage[order[i]] = "queued") <=> i > started

\* A reply is a whole JSON answer with status 200, or an error text with 500, or the
\* empty answer to "drop"; never a mixture, and never before the query has ended.
Expected(o) ==
  CASE o = "json"  -> [status |-> 200, body |-> <<"json">>]
    [] o = "page"  -> [status |-> 200, body |-> <<"page">>]
    [] o = "empty" -> [status |-> 200, body |-> <<>>]
    [] o = "error" -> [status |-> 500, body |-> <<"problem", "databaseError">>]

ReplyTellsOutcome ==
  \A r \in Request : reply[r] # None =>
    outcome[r] # None /\ reply[r] = Expected(outcome[r])

\* Each request that is not lost is told its own outcome, once (refinement of
\* RequestReply, where the reply is what status and body say).
Told(r) ==
  IF client[r] = "answered" THEN CHOOSE o \in Outcome : reply[r] = Expected(o) ELSE None
AbstractReply == INSTANCE RequestReply WITH reply <- [r \in Request |-> Told(r)]
ReplySpec == AbstractReply!Spec

\* While Impala answers, every client that waits is answered, or has given up, or was
\* cut off by a restart.
EveryQueryIsAnswered ==
  ImpalaFairness => \A r \in Request : client[r] = "waiting" ~> client[r] # "waiting"

\* A page is served even when Impala never answers and every worker hangs.
PagesAreServed ==
  \A r \in Request :
    (client[r] = "waiting" /\ kind[r] = "page") ~> client[r] # "waiting"

\* tornadoserver.py:109-114 means to write to the failed request the trace and the
\* message of the nested exception ("Writing to request and to error logs...").
NestedErrorIsReported ==
  \A r \in Request : (reply[r] # None /\ reply[r].status = 500) =>
    \E i, j \in 1..Len(reply[r].body) :
      reply[r].body[i] = "trace" /\ reply[r].body[j] = "message"
=============================================================================
