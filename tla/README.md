# AkamaiQueryVisualization: models and proofs

The program is a Tornado web server (`tornadoserver.py`) in front of an Impala
database. A browser opens a chart page, asks for a graph with an AJAX request that
the server turns into an SQL query, and listens on a WebSocket for updates that
producers POST to the server. The models here are written from the code at this
commit: the server, the parts of the vendored Tornado 4.2.1 and `futures` 3.0.3 it
rests on, and the JavaScript of the chart pages.

Contents: [inventory](#inventory), [modules](#modules), [runs](#runs),
[bounds](#bounds), [fairness](#fairness), [findings](#where-code-and-comments-disagree),
[proofs](#proofs), [limits](#what-is-only-model-checked-and-what-is-not-modelled),
[plan](#plan).

## Inventory

| part | state it keeps | operations | made correct by |
|---|---|---|---|
| Live feed server: `ClientSocket`, `Announcer` (`tornadoserver.py:263-343`) | `ALL_SOCKETS`; per handler `ws_connection`, `wanted_feeds` | handshake, `open`, `on_message`, `on_close`; `prepare` and `post` with the broadcast loop; process restart | the list holds exactly the live handlers; a broadcast skips nobody; a client gets a gap-free, ordered run of updates; dead handlers leave |
| Query service: `query_database`, `exception_catcher`, `QueryHandler`, `SQLQueryHandler`, `TableGeneratorHandler` (`:85-253`) with `ThreadPoolExecutor` | work queue, threads, futures, each handler's write buffer and status | submit, take, connect, execute, write, resolve or fail, finish | one whole answer per request that says what became of that query; the pool is neither exceeded nor left idle beside a waiting query; FIFO; pages never wait for the pool |
| Page handlers, routing (`:37-79`, `:348-367`) | none | render a template | answered on the IOLoop |
| Tornado's `PollIOLoop`, `Waker`, with the futures and `gen.Runner` | `_callbacks`, `_timeouts`, `_cancellations`, `_handlers`, `_events`, the pipe, `_callback_lock`; each future's state and callbacks | one iteration of `start`; `add_callback`, `call_at`, `remove_timeout`, `add_handler`, `remove_handler`; `set_result`, `add_done_callback`, `handle_yield`, `run` | no work waits while the loop sleeps; a result reaches its coroutine once; no event or timeout runs that was taken back |
| Tornado's `IOStream` | `_read_buffer`, `_write_buffer`, `_pending_callbacks`, `_state`, `_close_callback`, the pending read | read, write, close, `set_close_callback`, `_run_callback`, `_handle_events` | data that came before the end is handled before it; the end is always heard of |
| Tornado's `WebSocketHandler`, `WebSocketProtocol13` | the frame being read, fragments, `client_terminated`, `server_terminated` | `get`, `_accept_connection`, the frame callbacks, `_handle_message`, `write_message`, `on_connection_close` | messages arrive whole; the handler is told once of the end; nothing follows a close frame |
| Tornado's `HTTP1ServerConnection`, `HTTP1Connection`, `HTTPServer` | the request in hand, its futures, `_connections` | `_server_request_loop`, `_read_message`, `finish`, `detach`, header timeout | responses in the order of requests, whole; a connection that ended is released |
| Chart pages `dec.js`, `tst.js`, `mrg.js`, `sql.js`, `ver.js`, `streaming.js` | `initial_main_feed.series`, the Highstock chart, one WebSocket per click | New graph, Add, answer, `onmessage`, `draw_on_graph`, `beforeunload` | the chart is one graph; the feed is drawn as it was broadcast; no socket outlives the page |
| Query builders `query.py` | none | `dec`, `tst`, `ver`, `sql`, `got`, `mrg`, `flags` | the condition of the SELECT is the one the page uses for the stream |
| Producers `inputData.py`, `webDataPush.py`, `RandomDataPush.py` | none | POST to `/pushdata/` | the update has what the pages filter by |
| `pipeline.js` | the options of a selector, the flag series | `Narrower`, `drawFlags` | |
| `impala.js`, `html.py` | none | one query, its rows as a table | |
| Lighthouse front end `alerts.js`, `network.js`, `graphing.js`, `misc.js`, `settings.js` | `all_alerts`, chart windows | insert and remove an alert, slide the window | loaded by `index.html`, which no route renders |
| Templates, styles, notes, the rest of the vendored libraries | | | |

**Interactions.** A page and the server meet on three channels: the page request,
the AJAX query (`/_make_query`, `/_make_sql_query`, `/_make_table_query`) and the
WebSocket (`/socket/`). Producers use a fourth, POST `/pushdata/`. In the server the
IOLoop thread runs every handler; only queries leave it, for one of 50 worker
threads, and come back as a future. `ALL_SOCKETS` is shared by `ClientSocket` and
`Announcer`, both on the IOLoop; the write buffer of a query's handler is shared by
a worker and the IOLoop, ordered by the future alone. A worker reaches the loop
through one list, one lock and one pipe. A connection begins as HTTP; a handshake
takes its stream away from the HTTP loop and gives it to the WebSocket protocol.

**What is hard.** Connections die at any moment and Tornado says so later, through a
scheduled callback that waits for other callbacks; the broadcast walks a list it may
also remove from; a write to a closed stream is silent; autoreload (`debug=True`)
replaces the process at any point; workers wait for Impala without a timeout and hand
their results over from another thread; the error path of a query raises an error of
its own; clients send requests ahead and leave before the answers; AJAX answers come
back in any order and draw on the same chart as the sockets of every earlier click.
`PROJECT.json` lists these hazards at their lines with the properties that cover them.

## Modules

| module | what it is |
|---|---|
| `LiveFeed` | abstract: a producer publishes 1, 2, 3, ...; a client that joined receives the next ones in order, each once |
| `SocketRegistry` | the live feed server; implements `LiveFeed` |
| `RequestReply` | abstract: a request that is asked is told its own outcome at most once, and not before there is one |
| `QueryService` | queries, the executor, page handlers; implements `RequestReply` |
| `Handoff` | abstract: a job is submitted, completed, and its coroutine goes on once, in the end |
| `IOLoop` | the event loop, its timers and descriptors, and the threads that hand it results; implements `Handoff` |
| `ListFilter` | a list comprehension with a test, as a recursive function |
| `IOStream` | a stream as a record and the operations on it, used by the next two |
| `WebSocketStream` | one WebSocket connection frame by frame; implements `SocketRegistry` for that socket |
| `HttpConnection` | one HTTP/1.1 connection with pipelined requests |
| `GraphPage` | one chart page with its clicks, answers and sockets |
| `LivePage` | `GraphPage` and `SocketRegistry` composed; implements `GraphPage` |
| `MCSocketRegistry`, `MCQueryService`, `MCGraphPage`, `MCIOLoop`, `MCWebSocketStream`, `MCHttpConnection`, `MCLivePage` | instances for TLC; they add the symmetry sets |
| `SocketRegistry_proofs`, `QueryService_proofs`, `IOLoop_proofs`, `WebSocketStream_proofs`, `HttpConnection_proofs`, `GraphPage_proofs`, `LivePage_proofs`, `ListFilter_proofs` | theorems and their proofs |

The refinements form a chain: `WebSocketStream` shows that a connection is what
`SocketRegistry` takes it to be, `SocketRegistry` that the server keeps the promise of
`LiveFeed`, and `LivePage` that a page in front of it hears what `GraphPage` assumes.
`IOLoop` shows that "yield future" is what `QueryService` takes it to be: a step of
its own once the worker is through.

Operators whose names end in `Bug` are plausible mistakes (a dropped guard, a
removal while iterating, a forgotten `yield`). No specification uses them; each is
next to the definition it would replace, and shows that a property can fail.

### SocketRegistry

The grain is one IOLoop callback per action, except for `Announcer.post`: one action
per turn of its loop (`PostBegins`, `PostToNext`, `PostEnds`), because the kernel and
the peers go on during it. `post.running` keeps all other handlers out meanwhile, as
the single thread does. The list iterator of Python is the index `post.i`, so a
removal during the walk would shift the list under it.

| variable | code |
|---|---|
| `stream`, `callback` | `IOStream._closed`; the close callback, which `close` only puts on the IOLoop (`iostream.py:429-459`) |
| `ws` | `handler.ws_connection is not None` |
| `ALL_SOCKETS`, `wanted_feeds` | the same |
| `post` | the frame of the running `Announcer.post`; its `targets` is history |
| `net`, `got` | frames written and not yet read; calls of the browser's `onmessage` |
| `peer` | the browser: gone with a FIN (`left`) or without (`vanished`) |
| `since`, `pushes`, `restarts` | history and bounds |

`WriteFrame` has the three outcomes of `_write_frame`: the frame is buffered, the
kernel reports the broken connection and the stream closes on the spot, or the stream
was closed and the `StreamClosedError` is swallowed. `RefuseHandshake` and
`AbortHandshake` cover connections whose `open` never runs but whose `on_close` may.

### QueryService

A request goes through `arrived`, `queued`, `connect`, `execute`, `write`,
`resolved` or `failed`, `finished`. `Submit` is `executor.submit` with
`_adjust_thread_count`; `Take` is a worker's `work_queue.get`; `Connected`,
`Executed`, `ImpalaFails` and `Write` are what the handler does on the worker;
`Resume` is the IOLoop after `yield future`. `Connected` covers reading the arguments
too, since the session is opened first; an option out of range (`query.py:50`), which
fails after two statements, fails there, or with `ImpalaFails`. `Executed` stands for the
statements of each function of `query.py`, which all have the form of `dec` (`:10-42`)
with their own text. The body of a reply is a sequence of chunks,
because what the nested error path writes before it fails is still in the buffer when
the outer `except` finishes. `Restart` empties the pool and resets the connections of
waiting clients.

### IOLoop

`pc` is where the loop's thread is in an iteration of `start`: `Swap` takes the
callbacks, `Collect` the timeouts that are due, `RunCallback` and `RunTimeout` run
them, `Decide` computes how long to poll, `Poll` and `Dispatch` do the rest. At
`user` the code of some handler runs and may call anything the loop offers, in any
order: `Submit`, `AddCallback`, `CallAt`, `RemoveTimeout`, `AddHandler`,
`RemoveHandler`, until it returns. That is more than this program's handlers do, and
what Tornado's own code (streams, timeouts of connections) does with the loop.

"yield future" is two steps: `Yield` looks at the future, `Register` adds the callback,
and looks again. A worker's `set_result` is three: `SetResult` changes the state,
`InvokeCallbacks` appends to `_callbacks` under the lock, and, if it was the first,
`Wake` writes to the pipe before the lock is released. `Decide` reads `_callbacks`
without the lock, as line 820 does. `timeouts` is a sequence in the order the heap
yields its elements, deadline first and then the counter.

### IOStream, WebSocketStream and HttpConnection

`IOStream` has no variables: a stream is a record, and `Schedule`, `Close`,
`MaybeRunCloseCallback`, `MaybeAddErrorListener` and the others are operators from
stream to stream. Data come in units, one for what one read asks for; a segment may
hold any number of units, and `Received` has every outcome of a `recv`.

In `WebSocketStream` a frame is read as `start`, `key` (mask) and `data`, each a read of its
own with a callback of its own. The client may fragment, mix in pings, send reserved
bits, close with or without a close frame, reset or vanish; the server answers pings
and the close frame, and the Announcer writes meanwhile. `since` is the point at which
`open` registered the handler. What the run shows of details worth knowing: a pong
that cannot be written closes the stream, and the frames behind the ping are still
parsed, but the handler is not told of them after `on_close`.

In `HttpConnection` `at` is where the coroutine of `_server_request_loop` waits, `c` the
stream with the `HTTP1Connection` of the request in hand. A handler runs to its end at
once (a page) or to its first `yield` (a query), and `HandlerFinishes` may come when the
loop has gone on or the client has gone. Two consequences of the code are visible in the
statement of `ConnectionIsReleased` and `RequestIsAnswered`: a request that was read
ahead is executed even when the stream was closed meanwhile, and, while it sits in the
read buffer, the stream does not listen, so that a client that leaves is not noticed
before the handler in hand has finished.

### GraphPage and LivePage

One page (`dec`, `tst`, `mrg`, `sql` or `ver`) and its clicks. A click on New graph
asks a question and, on the streaming pages, opens one more socket, none being closed
before the page goes (`dec.js:321`, `:338`); Add only asks. Answers arrive in any order
or fail. The socket obeys `LiveFeed`: each update after it was registered, once, in
order. Both draw on `chart`, the sequence of lines, of which each remembers whose
answer it is and what was streamed onto it. `DrawOn` keeps the lookup of
`getPointFromIndex` in the *first* line; whether it finds a point is a choice, since
the time stamps are abstract and Highstock's `series[0].data` "disappears periodically"
(`how-to.txt:88`). An added line renders the chart from the page's arrays again; that
these then hold all the streamed points or none (`AddedTo`) is an assumption about
Highstock, not code of the repository.

`LivePage` drops that assumption: socket `c` of the page is handler `c` of
`SocketRegistry`, `OnMessage` hands over whatever frame comes next, connections are lost
and the server restarts. `PageSpec` is the whole of `GraphPage`, with `socket`, `since`
and `received` computed from the server's and the network's state. `Table` limits the
updates a run posts, as `Filter` limits the questions; the theorems hold for any.

## Runs

Passing runs:

| run | properties | what it shows |
|---|---|---|
| `registry` | `TypeOK`, `RegistryExact`, `BroadcastReachesEveryone`, `LeavesOnlyWhenClosed`, `FeedSpec`, `PushArrives`, `DeadHandlerLeaves` | two sockets, three updates, a restart. The list is exact, so the `except WebSocketClosedError` branch, which would skip a client, is unreachable; whatever fails during a broadcast, everyone it passed has the update under way or is gone; each client sees what `LiveFeed` promises: no gap, no duplicate, no reordering. An accepted update arrives; a closed browser's handler leaves the list, a vanished one's too once a frame to it is outstanding. |
| `query_safety` | `TypeOK`, `PoolExact`, `FirstComeFirstServed`, `ReplyTellsOutcome`, `ReplySpec` | two workers, three requests of four kinds, clients that give up, a restart. The pool and its queue are exact, a reply is exactly what became of its query, and the whole implements `RequestReply`. |
| `query_live` | `EveryQueryIsAnswered`, `PagesAreServed` | one worker, three requests. If Impala answers, nobody waits for ever; if it never does and the only worker hangs, pages are still served. |
| `ioloop_safety` | `NoOversleep`, `EventsHaveHandlers`, `TimeoutsRunInOrder`, `HeapIsMostlyLive` | one worker, three timers, a listener and a connection. The loop never sleeps past a timeout; an event is never handed to a handler that was removed, nor to its successor; timeouts run in order and not after they were cancelled; `_cancellations` is never too small, and after each iteration no more than half of the heap is cancelled. |
| `ioloop_live` | `NoLostWakeup`, `HandoffSpec`, `EventsAreHandled`, `TimeoutsRun` | two workers, one timer. The loop never sleeps on a callback; each coroutine goes on exactly once after its result, in the end; callbacks that add callbacks starve nobody. |
| `websocket` | `PendingIsExact`, `NeverDeaf`, `MessagesArriveWhole`, `NothingAfterClose`, `OverIsOver`, `RegistrySpec`, `ConnectionIsReleased`, `MessageIsHandled` | two frames of the client, of every kind and cut in every way, one update. Messages arrive whole and in order, all of them before `on_close` if the connection ended cleanly; the handler hears of the end once and of nothing afterwards; every step is a step of `SocketRegistry` or none. |
| `http` | `ResponsesInOrder`, `OneHandlerAtATime`, `NothingIsCutOff`, `ConnectionIsReleased`, `RequestIsAnswered` | three requests of six kinds, sent ahead or not. Responses go out whole and in order, one handler at a time; what ended is released; every request is answered, except behind a handler that hangs. |
| `page` | `ChartIsOneGraph`, `StreamIsFaithful` | all five pages, three clicks, three updates, any order of answers, lost sockets: the chart is one graph, and its first line shows the feed as it was broadcast. |
| `live_page` | `PageSpec`, `LeavingEmptiesTheList`, `UpdatesAreDrawn` | one page and the server, two clicks, two updates, a restart. The page is the page of `GraphPage`; an update is drawn unless something ended; a page that was left leaves `ALL_SOCKETS` for good. |

Runs that find a disagreement: `registry_closed`, `query_nested`, `page_lines`; see
[below](#where-code-and-comments-disagree).

The type invariants of `IOLoop`, `WebSocketStream`, `HttpConnection` and `GraphPage` are
conjuncts of `NoOversleep`, `PendingIsExact`, `OneHandlerAtATime` and `ChartIsOneGraph`;
`LivePage`'s variables are typed by the two modules it instantiates.

`CHECK_DEADLOCK FALSE` is set where bounded updates, requests, frames or clicks make the
system stop, which an idle server legitimately does. The two runs of `IOLoop` leave the
check on; a connection may always arrive there, so that it says little, and that the
loop does not stall is shown by `ioloop_live`.

## Bounds

* **`registry`**: two sockets. Skipping needs a removed element and the one behind it,
  and two sockets make every relative order of a broadcast and the end of a connection;
  the safety properties are proved for any number. `MaxPush` 3 gives `FeedSpec` an
  update in the middle that could be lost. `MaxRestart` 1: a second restart starts from
  the same empty state. One `Feed`: `wanted_feeds` is written and never read.
* **`query_safety`, `query_live`**: three requests, `MaxWorkers` 2 or 1 in place of 50.
  With two workers and three queries the pool is full with one waiting; with fewer
  requests than workers the queue would always be empty. `todo` counts the three
  statements of `/_make_query`. `ServePage` and `Restart` happen in both; "free" differs
  from "stats" only in the number of statements, and takes its place where there is
  liveness to check. The properties of `query_safety` are proved for any pool.
* **`ioloop_safety`**: three timers. After an iteration the heap begins with a timer that
  is not cancelled, so that with two no cancelled one would ever be cleaned away; with
  three and `CompactAt` 0 in place of 512, one cancelled of two or three stays and two of
  three are cleaned away, and a timer that was removed after it ran can be counted where
  none in the heap is cancelled. `MaxTime` 2, so that a timeout can be past, due and
  ahead; one connection, whose descriptor is used again; at most one plain callback waits
  (`AddCallback`). One job, what the threads do being the question of `ioloop_live`.
* **`ioloop_live`**: two jobs, so that one worker's callback can find the list empty and
  the other's not; one timer and the listener only, liveness being about each by itself.
* **`websocket`**: `MaxFrame` 2, for a fragment and its continuation, a control frame
  before or behind a message, and a violation after either. `MaxPush` 1: the Announcer
  writes at any point of these; that several updates keep their order is proved
  (`UpdatesCorrect`). Payloads are the number of the frame; a header has the
  lengths 0 and 1, because an empty payload takes the path without a last read.
* **`http`**: `MaxRequest` 3, for one being answered, one read ahead and one behind it.
* **`page`**: three clicks: a graph, a line added to it and another graph, in any order
  of answers; three updates, before, between and after what is drawn. `MaxInput` 4 bounds
  clicks and updates together: every mix of three of one and one of the other, or two
  and two, is there. One key: an update is rejected because it is of another table or has
  no key. That a filter for one key rejects another is not in this run, which with
  two keys is almost three times as large; `StreamCorrect` is proved for any keys.
* **`live_page`**: page `dec` with filter ALL: the other pages differ in what they draw,
  which `page` covers. Two clicks and two updates (`MaxInput` 3 together) for two
  sockets with an update between them, and one restart, for a click before and after it.
  The updates are of the page's table (`Table`), with a key and without.

Sockets, requests, keys, jobs and timers are symmetric: no definition tells them apart.
Symmetry is used only in runs without liveness properties.

## Fairness

Every condition is weak, and stands for a thread or a machine that goes on when it can.

* `SocketRegistry`: the IOLoop runs callbacks that are ready (handshake, close callback,
  the turns of a running `post`); TCP delivers to a peer that reads, or reports a peer
  that is gone. Nothing obliges browsers, producers or restarts.
* `QueryService!ServerFairness`: the IOLoop and idle workers do what they can.
  `ImpalaFairness` adds that Impala answers or fails. No line of the code bounds that
  wait, so it is not part of the specification: `EveryQueryIsAnswered` names it as its
  condition, `PagesAreServed` does without.
* `IOLoop`: the loop's thread (`Loop`, and `Return`: the code of a handler comes to an
  end, as all of the server's does between its yields), workers that have a result
  (`InvokeCallbacks`, `Wake`), and the clock. Nothing obliges a job to end.
* `WebSocketStream`, `HttpConnection`: the stream's callbacks run, the kernel reports
  what the stream listens for, a client that left is reported by TCP. In
  `HttpConnection` a client that stays also reads what was sent. Handlers may hang.
* `LivePage`: that of `SocketRegistry`, for the page's sockets.

## Where code and comments disagree

1. `registry_closed`: the comment at `:340-341` says a closed socket is removed
   by the broadcast. `write_message` raises only when `ws_connection` is None, which
   `RegistryExact` shows no listed handler has; a closed stream is swallowed in
   `_write_frame`. The socket leaves with its own `on_close`, as `DeadHandlerLeaves`
   shows, so the branch is dead code rather than a leak.
2. `query_nested`: `traceback` is not imported. The trace and the message announced at
   `:109` are never written, and the text sent is that of a NameError.
3. `page_lines`: on one-line `tst` graphs the stream draws points without coordinates
   (`tst.js:272`), and on two-line graphs the second value is added to the first line
   (`tst.js:270` with `streaming.js:38`). `how-to.txt:90` counts TST among the pages
   that support streaming.

One more was met and is not in the models, because nothing changes state there: a POST
without Content-Type fails in `prepare` on `None.startswith` and is answered 500; the
comment at `:317` says 503. Another is left open by `StreamIsFaithful`: the comment at
`:273-274` takes a page to have one socket, and each New graph opens one more; an update
is then drawn once per socket whose filter it passes.

`StreamIsFaithful` is stated for the users these leave out: one graph asked for (lines
may be added), its first line, and on `tst` a two-line option.

## Proofs

Everything under `theorems` in `PROJECT.json` holds for every value of the constants.
The assumptions are `BoundsAssumption` (the bounds are naturals) for `SocketRegistry`,
`ConstantsAssumption` for `QueryService` (at least one worker, known kinds, and `None` is
not an outcome) and for `IOLoop` (the listener is a descriptor, the waker's is another,
`Plain` and `None` are not jobs), `BoundsAssumption` for `WebSocketStream` and
`KindAssumption` for `HttpConnection` (known kinds, a natural bound), `PageAssumption`
for `GraphPage` (known pages, no key that means "all" or "none") and
`LivePageAssumption` for `LivePage` (those of its two parts).
The sets of sockets, requests, jobs, timers and descriptors may be infinite.

**`SocketRegistry_proofs`**, in four layers, each on top of the one before:

* `Typing` is `TypeOK` with `post.running => pushes > 0`. `TypeOK` alone is not
  inductive: a frame carries `pushes`, and frames are at least 1. Gives `TypeCorrect`.
* `RegistryInv` adds that no handler is listed twice and the `LifeCycle` of each: the
  stream, its callback, `ws` and membership in the list move together. A listed
  handler has either an open stream with its callback set, or a closed one with its
  callback scheduled; hence `ws` is still set and the list exact. Gives
  `RegistryCorrect` and `NobodyIsDropped`. The lemmas `ListRemoveType` and
  `ListRemoveOnce` say what `list.remove` does to a list without duplicates.
* `WalkInv` adds the position of the loop. Since `RegistryInv` rules the `except`
  branch out, the list does not change during the walk, and what was passed stays
  reached whatever happens to the connection (`HandOver`: a delivery moves a frame and
  keeps the channel's contents). Gives `BroadcastCorrect`.
* `FeedInv` adds the account of each feed (`FeedOf`): what a socket received, then what is
  under way to it, are the numbers `since + 1, since + 2, ...`, up to `pushes` while its
  stream is open, or one less (`Owed`) while the loop has not come to it. Without `Owed`
  the frame a turn of the loop writes could not be shown to be the next one. `RunGrows`
  and `RunShrinks` are the two ends of the channel. Each step is then one of `LiveFeed` or
  none (`FeedStep`). Gives `FeedCorrect`.

**`QueryService_proofs`**:

* `Progress` is `TypeOK`, `QueueExact` and `Phase(r)` for every request. `Phase` says what
  is in the buffer, the outcome and the reply at each stage, `QueueExact` that queued
  items are queued requests, each once. Neither is inductive without the other: an item
  queued twice would be executed again after its reply was sent. Gives `TypeCorrect` and
  `ReplyCorrect`.
* The order of submission, of which the queue is the end: appending and taking the head
  keep that (`AppendToEnd`, `TailOfEnd`). Gives `OrderCorrect`.
* `PoolBounded` adds to `PoolExact` that only finitely many requests run. A step moves at
  most one request in or out of the workers (`PoolUntouched` for those that move none).
  Gives `PoolCorrect`.
* For the refinement: who was answered was answered by the end of its handler
  (`AnsweredAtTheEnd`), and the replies to different outcomes differ
  (`ExpectedDiffers`), so what a client was told *is* the outcome of its query
  (`ToldIsOutcome`). Each step is then one of `RequestReply` or none (`StepTells`). Gives
  `ReplyRefinement`.

**`IOLoop_proofs`**:

* `Awake`: a list that is not empty when the loop polls was seen by it, or its first
  element came with a wake-up that is under way. Gives `WakeupCorrect`.
* `HandlersExact`: what the kernel may report belongs to registered descriptors. Gives
  `EventsCorrect`.
* `HandoffExact`: the future and its worker agree (`JobExact`), the batch is empty where
  the next one is fetched (`BatchIsRun`: otherwise `Swap` would lose callbacks), and
  `NoResultIsDropped`: a coroutine that waits is carried by the code about to look at the
  future, by a worker that has still to call back, or by a callback. The case that
  makes it hard is a future finished between `Yield` and `Register`. Gives
  `NothingDropped`; with `FourStates`, also `HandoffCorrect`, the safety half of
  `HandoffSpec`.
* `TimerInv`: the heap and the list of what is due are in order (`HeapExact`, `DueExact`),
  hold no timer twice and none that ran, and what is due left the heap. Without that a
  timer run from one list could be run, or cancelled and counted, from the other. The
  number of elements of the heap that were cancelled (`Missing`) is at most
  `_cancellations`: it goes up by one with a cancellation, and down with an element that
  is popped, by no more than the code subtracts (the counting lemmas on `Missing`). And
  the loop sleeps no longer than until the first element, which in a heap that is in
  order is no later than any other (`SleepsShort`). Gives `TimeoutsWake`, `TimeoutOrder`
  and `HeapCleaned`.

**`ListFilter_proofs`** says what a list comprehension with a test returns (`KeepType`),
what it makes of a list one element longer or shorter and of two lists (`KeepAppend`,
`KeepTail`, `KeepConcat`), and that the elements stay in order, each once (`KeepOrder`). `SelectSeq` is replaced by `Keep`
because the provers cannot expand its recursion. These are inductions, done by the least
counterexample in a set of naturals (`NatInSet`).

**`WebSocketStream_proofs`**. The first third has one lemma per operation of `IOStream`
that says what it does to the stream and its callbacks; the theorems need them in
several actions each. `WsInv` has four parts that need each other:

* `Sound(s)`: `_pending_callbacks` counts the callbacks on the IOLoop other than
  `close`, and there is at most one of each kind. With two `data` callbacks, "the frame
  being read" would be ambiguous. Gives `PendingCorrect`.
* `LifeCycle`: how the stages of the handler go with the stream: while it is open,
  `on_close` is still awaited (set, or on the IOLoop) and the stream is settled (a
  callback is due, or it listens); when it is over, the stream is closed and `on_close`
  is not awaited, so that it cannot run again. Gives `ListeningCorrect` and, with
  `Sound`, `OverCorrect`.
* `Parsing`: a property of everything ahead of the parser. The units of the waiting
  callback, then the buffer, then the network, are a run of frames that starts where
  the parser stands (`Readable`), and the parser that would result from reading any
  of them is `Truthful`: what it would have told the handler is a prefix of what the
  client sent, and all of it where the run ends for good. `told` being a prefix of `sent`
  is not inductive by itself: a fragment in the buffer is neither told nor lost. The
  lemmas on `RunOf` say how a run loses its first unit, gains a frame, and is cut by a
  reset. Gives `MessagesCorrect`.
* `Closing`: in what the socket and the kernel hold, a close frame can only be last, and
  then the stream writes nothing more. Gives `CloseFrameIsLast`.

The refinement of `SocketRegistry` needs two facts more. A stream that is registered closes
only when the client is `Lost` to it (in `LifeCycle`): it left, or TCP has ended. And
(`RegInv`) TCP ends only for a client that is `Gone`: it left, or it vanished with an
update unread; `NoticePeerGone` asks for no less. `OwnStep` says what a callback
or an event of the stream does to what is under way to the client: nothing, a pong, or a
close frame that is the last; `Keep` passes over both, so that `SocketRegistry` sees none
of it. There is one lemma for each action of `SocketRegistry` (`ConnectMaps` to
`PostWritesMaps`). Gives `RegistryRefinement`. With it what is proved of
`SocketRegistry` holds of the connection; its `FeedInv`, read in terms of the connection,
gives `UpdatesCorrect`: an open connection has all updates since its handshake, read, with
the kernel or in the write buffer, in order and each once.

**`HttpConnection_proofs`**. `HttpInv` is `Sane` (types, the pending close callback,
nothing is received that was not sent), `ResponsesInOrder`, `NothingIsCutOff` and, while
the stream is open, `Phase`: where the loop stands between two requests, with a request
whose handler has not run, while the handler works, and while its response is being
written, with the number of responses and the state of the handlers for each. The hard
part is pipelining: `ResponsesInOrder` is not inductive unless what was read ahead, and
what is still under way, continues the requests from the one in hand (`Runs`: a body
follows the head it belongs to, a head any request that is over). After a header
timeout this is lost, but then the connection is closed before anything else is read.
`Keeps` says what closing may do; it is transitive, so that the operations that end in a
close are proved once. Gives `ResponsesAreInOrder`, `HandlersTakeTurns` and
`ResponsesAreWhole`.

**`GraphPage_proofs`**. The lemmas on `FlattenSeq` come first: the recursive function behind
it exists (`SumsExist`), and to flatten one more sequence is to append it
(`FlattenAppend`). They are inductions by `NatInSet` too. `GraphInv` is `TypeOK`, `OneGraph` (the lines of the chart are those of the
answers since the last new graph; to draw an update changes none), and

* `Sockets`: what is drawn was received, and only by the sockets of graphs, which tells
  that nothing is drawn when the first graph's socket opens;
* `Feed`: if there is one graph, its first line `Follows` its socket: every update that
  passes the filter, *from the first drawn up to the last received*, not only up to the
  last drawn. Without the second end an update skipped in the middle could not be ruled
  out when the next is drawn.

Gives `GraphCorrect` and `StreamCorrect`.

**`LivePage_proofs`** instantiates two of the modules above. `LiveInv` is the `FeedInv` of
`SocketRegistry` and `PageInv`: `updates` are the updates pushed, and a socket of the page
starts to hear where the server started to feed it (`SocketOf`). A step of `LivePage` is
one of `SocketRegistry`, or leaves the server alone, or is `beforeunload`, which closes
several sockets at once and so is none of them; `BrowsersLeave` keeps `FeedInv` there. The
step that needs `LiveInv` is `OnMessage` (`NextIsHeard`): the frame at the head of the
channel is by `FeedOf` the number `GraphPage` computes from where the socket joined and
what it received. Gives `PageCorrect`, and with the theorems of the two instances what
holds from the posted update to the chart: `LiveStreamCorrect`, `LiveGraphCorrect`,
`LiveServerCorrect`.

## What is only model-checked, and what is not modelled

Only checked by TLC: liveness, which is out of the prover's reach (`PushArrives`,
`DeadHandlerLeaves`, `EveryQueryIsAnswered`, `PagesAreServed`, the liveness in
`HandoffSpec`, `EventsAreHandled`, `TimeoutsRun`, `ConnectionIsReleased`,
`MessageIsHandled`, `RequestIsAnswered`, `LeavingEmptiesTheList`, `UpdatesAreDrawn`).

Not modelled:

* Of `query.py` and Impala: the text of the SQL and what is returned for it. The number of
  statements and of lines is in the models.
* `html.py` and `impala.js`: one query, its rows as a table in one div.
* Of the charts: titles, labels, colours, `make_table` of `dec.js`, the GOT table of
  `sql.js`, and `save_graph`, which no button calls.
* `pipeline.js`: `Narrower` computes the options of a selector from what was typed, without
  state; `drawFlags` adds the series of an event's flags to the chart,
  from an answer of its own, and keeps no state either.
* The lighthouse front end: `index.html` is not rendered by any route. Of
  `sortedcontainers` the producers construct empty lists only.
* Of the loop: stop and close, signals, EINTR, `PeriodicCallback`.
* Of streams: connecting, SSL, pipes, partial and unbounded reads, the limits of the
  buffers. Of WebSocket connections: compression, the client's side, pings and closes
  by the server; the program uses none. Of HTTP: the client's side, chunked bodies, gzip,
  ETags, static files.
* Of `web.py`, everything but how a handler is executed and finished; of the other vendored
  code, everything: the server does not use it.
* `OnMessage` with anything but a FEED line, which changes nothing. A binary message cannot
  come from these pages.

## Plan

Done: the modules, runs and theorems above. What is left, in this order:

1. Two pages on one server in `LivePage`: that both see the same order follows from
   `FeedSpec`, and would be stated as such.
2. The conditions of the SELECTs as operators over rows, against the filters of
   `onmessage` (equality there, LIKE and wildcards here), with titles and the option as
   part of a question, should the schema become available.
