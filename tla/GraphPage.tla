----------------------------- MODULE GraphPage ------------------------------
(***************************************************************************)
(* The browser side of a graph: the pages of dec.js, tst.js, mrg.js,       *)
(* sql.js and ver.js, with draw_on_graph of streaming.js.  Every click on  *)
(* "New graph" sends an AJAX query and, where the page streams, opens one  *)
(* more WebSocket; "Add" sends a query only.  The answers come back in any *)
(* order and draw on one chart, and so does every socket.  A socket's      *)
(* updates are those LiveFeed promises: each one after it joined, once, in *)
(* order.                                                                  *)
(***************************************************************************)
EXTENDS Integers, Sequences, SequencesExt

CONSTANTS
  Page,         \* the pages that are opened, see Pages
  Key,          \* what an update is about (span, domain, thread, table, ip)
  MaxUpdate,    \* bound: updates posted to /pushdata/
  MaxClick,     \* bound: clicks on "New graph" and "Add"
  MaxInput      \* bound: updates and clicks together

Streaming == {"dec", "tst", "mrg"}
Pages == Streaming \cup {"sql", "ver"}
All == "ALL"    \* the choice that filters nothing
NoKey == "none"
Other == "other"

ASSUME PageAssumption ==
  /\ Page \subseteq Pages
  /\ All \notin Key /\ NoKey \notin Key
  /\ MaxUpdate \in Nat /\ MaxClick \in Nat /\ MaxInput \in Nat

VARIABLES
  page,         \* the page that is open
  updates,      \* the updates broadcast so far
  asked,        \* page_args of each click
  answer,       \* answer[c]: what became of click c's AJAX query
  socket,       \* socket[c]: the WebSocket click c opened
  since,        \* since[c]: updates broadcast before that socket was registered
  received,     \* received[c]: calls of its onmessage
  chart,        \* initial_main_feed.series: the lines of the chart, with what
                \* draw_on_graph drew on each
  order,        \* history: clicks in the order their answers were drawn
  left          \* the page was left

vars == <<page, updates, asked, answer, socket, since, received, chart, order, left>>

Click == 1..Len(asked)

\* inputData.py names its table and what the update is about; webDataPush.py only the
\* table "dec", and RandomDataPush.py neither.  All tables that are not the open page's,
\* and none at all, are alike to it: Other.
Update == [table : (Streaming \cap {page}) \cup {Other}, key : Key]
            \cup {[table |-> "dec", key |-> NoKey]}

\* lines is what the option amounts to: on tst, the first three draw two lines.
LinesOf(p) == IF p = "tst" THEN {1, 2} ELSE {1}
Question == [adding : BOOLEAN, filter : Key \cup {All}, lines : {1, 2}]

\* A line of the chart: the click whose answer it shows (0 for the sample data the
\* page starts with), which line of it, and the items drawn on it since.  An item is
\* line l of update n; line 0 is a point without coordinates.
Item == [n : 1..MaxUpdate, line : 0..2]
Series == [from : 0..MaxClick, line : {1, 2}, drawn : Seq(Item)]
Line(c, l) == [from |-> c, line |-> l, drawn |-> <<>>]

TypeOK ==
  /\ page \in Page
  /\ updates \in Seq(Update) /\ Len(updates) <= MaxUpdate
  /\ asked \in Seq(Question) /\ Len(asked) <= MaxClick
  /\ answer \in [Click -> {"waiting", "drawn", "failed"}]
  /\ socket \in [Click -> {"none", "connecting", "open", "closed"}]
  /\ since \in [Click -> 0..MaxUpdate]
  /\ received \in [Click -> 0..MaxUpdate]
  /\ chart \in Seq(Series)
  /\ order \in Seq(Click)
  /\ left \in BOOLEAN

Init ==
  /\ page \in Page
  /\ updates = <<>>
  /\ asked = <<>> /\ answer = <<>>
  /\ socket = <<>> /\ since = <<>> /\ received = <<>>
  /\ chart = <<Line(0, 1)>>
  /\ order = <<>>
  /\ left = FALSE

-----------------------------------------------------------------------------
(* The server and the network                                              *)

Broadcast ==
  /\ Len(updates) < MaxUpdate /\ Len(updates) + Len(asked) < MaxInput
  /\ \E u \in Update : updates' = Append(updates, u)
  /\ UNCHANGED <<page, asked, answer, socket, since, received, chart, order, left>>

\* The server has registered the socket: it is owed every later update.
SocketOpens(c) ==
  /\ socket[c] = "connecting"
  /\ socket' = [socket EXCEPT ![c] = "open"]
  /\ since' = [since EXCEPT ![c] = Len(updates)]
  /\ UNCHANGED <<page, updates, asked, answer, received, chart, order, left>>

\* The connection fails or is lost: no page sets onclose or onerror.
SocketDrops(c) ==
  /\ socket[c] \in {"connecting", "open"}
  /\ socket' = [socket EXCEPT ![c] = "closed"]
  /\ UNCHANGED <<page, updates, asked, answer, since, received, chart, order, left>>

-----------------------------------------------------------------------------
(* The handlers of the page                                                *)

Clicked(adding, sock) ==
  /\ ~left /\ Len(asked) < MaxClick /\ Len(updates) + Len(asked) < MaxInput
  /\ \E f \in Key \cup {All}, k \in LinesOf(page) :
       asked' = Append(asked, [adding |-> adding, filter |-> f, lines |-> k])
  /\ answer' = Append(answer, "waiting")
  /\ socket' = Append(socket, sock)
  /\ since' = Append(since, 0)
  /\ received' = Append(received, 0)
  /\ UNCHANGED <<page, updates, chart, order, left>>

\* The sockets of earlier clicks stay as they are.
submit_query == Clicked(FALSE, IF page \in Streaming THEN "connecting" ELSE "none")

submit_query_add == Clicked(TRUE, "none")

LinesFrom(c) == [l \in 1..asked[c].lines |-> Line(c, l)]

NoSliceBug(c) ==
  LinesFrom(c) \o SubSeq(chart, asked[c].lines + 1, Len(chart))

\* A new graph keeps nothing: dec generates the chart anew, the others cut series to
\* the lines of the answer (tst may push the second one) and overwrite them.
NewGraph(c) == LinesFrom(c)

\* An added line comes after the others.  The chart is rendered from the page's own
\* arrays again, which hold the streamed points or not, as Highstock pleases.
AddedTo(graph, c) ==
  {graph \o LinesFrom(c),
   [i \in 1..Len(graph) |-> [graph[i] EXCEPT !.drawn = <<>>]] \o LinesFrom(c)}

\* The success callback of $.getJSON.
Answer(c) ==
  /\ ~left /\ answer[c] = "waiting"
  /\ answer' = [answer EXCEPT ![c] = "drawn"]
  /\ order' = Append(order, c)
  /\ IF asked[c].adding THEN chart' \in AddedTo(chart, c) ELSE chart' = NewGraph(c)
  /\ UNCHANGED <<page, updates, asked, socket, since, received, left>>

\* An error answer, or none: $.getJSON has no error callback.
AnswerFails(c) ==
  /\ ~left /\ answer[c] = "waiting"
  /\ answer' = [answer EXCEPT ![c] = "failed"]
  /\ UNCHANGED <<page, updates, asked, socket, since, received, chart, order, left>>

\* The filter of onmessage.  An update without a key is rejected by a filter, and
\* without one, reading its thread throws.
AnyTableBug(c, u) == u.key # NoKey /\ asked[c].filter \in {All, u.key}

Matches(c, u) ==
  /\ u.table = page /\ u.key # NoKey
  /\ asked[c].filter \in {All, u.key}

\* draw_on_graph([point], i - 1).  It looks in the FIRST line for a point of the same
\* time: found, the value is added to that point; else the point is added to line i,
\* if the chart has one.  (Highstock's own navigator series are not lines here.)
DrawOn(graph, item, i, found) ==
  LET target == IF found THEN 1 ELSE i IN
  IF target \in 1..Len(graph)
    THEN [graph EXCEPT ![target].drawn = Append(@, item)]
    ELSE graph

\* tst calls draw_on_graph twice for two lines; for one line it passes the point where
\* a list of points is expected, and each of its two numbers is drawn as a point.
DrawUpdate(graph, c, n, found) ==
  LET item(l) == [n |-> n, line |-> l] IN
  IF page # "tst" THEN DrawOn(graph, item(1), 1, found)
  ELSE IF asked[c].lines = 2
    THEN DrawOn(DrawOn(graph, item(1), 1, found), item(2), 2, found)
    ELSE DrawOn(DrawOn(graph, item(0), 1, FALSE), item(0), 1, FALSE)

OnMessage(c) ==
  LET n == since[c] + received[c] + 1 IN
  /\ socket[c] = "open" /\ n <= Len(updates)
  /\ received' = [received EXCEPT ![c] = @ + 1]
  /\ IF Matches(c, updates[n])
       THEN \E found \in BOOLEAN : chart' = DrawUpdate(chart, c, n, found)
       ELSE chart' = chart
  /\ UNCHANGED <<page, updates, asked, answer, socket, since, order, left>>

\* beforeunload: one listener for each socket the page has opened.
Unload ==
  /\ ~left
  /\ left' = TRUE
  /\ socket' = [c \in Click |-> IF socket[c] = "none" THEN "none" ELSE "closed"]
  /\ UNCHANGED <<page, updates, asked, answer, since, received, chart, order>>

Next ==
  \/ Broadcast
  \/ submit_query \/ submit_query_add
  \/ \E c \in Click : \/ SocketOpens(c) \/ SocketDrops(c)
                      \/ Answer(c) \/ AnswerFails(c) \/ OnMessage(c)
  \/ Unload

Spec == Init /\ [][Next]_vars

-----------------------------------------------------------------------------
(* Properties                                                              *)

\* Types, and: the chart shows one graph, the lines of the "New graph" answer drawn last
\* and those of the "Add" answers drawn after it, whatever order the clicks were made in
\* and whatever number of lines the graphs before it had.  (dec.js:304-369,
\* tst.js:223-310, mrg.js:238-303, sql.js:267-317, ver.js:207-243)
GraphOf(answers) == FlattenSeq([i \in 1..Len(answers) |-> LinesFrom(answers[i])])
IsNew(i) == ~asked[order[i]].adding
ChartIsOneGraph ==
  LET shown(i) == [from |-> chart[i].from, line |-> chart[i].line, drawn |-> <<>>]
      lines == [i \in 1..Len(chart) |-> shown(i)]
  IN /\ TypeOK
     /\ IF \E i \in 1..Len(order) : IsNew(i)
          THEN \E i \in 1..Len(order) :
                 /\ IsNew(i) /\ \A j \in (i + 1)..Len(order) : ~IsNew(j)
                 /\ lines = GraphOf(SubSeq(order, i, Len(order)))
          ELSE lines = <<Line(0, 1)>> \o GraphOf(order)

\* A user who asked for one graph, and added lines to it at will, sees the feed on its
\* first line as it was broadcast: from the first update drawn to the last, each one
\* the filter lets through, once and in order, and no other.  (streaming.js:51-70 and
\* the onmessage of each page)
Graphs == {c \in Click : ~asked[c].adding}
IsAbout(u, filter) ==
  \E k \in Key : u = [table |-> page, key |-> k] /\ filter \in {k, All}
Streams(c) == page = "tst" => asked[c].lines = 2
StreamIsFaithful ==
  \A c \in Graphs : Graphs = {c} /\ Streams(c) =>
    LET drawn == chart[1].drawn
        Own == {i \in 1..Len(drawn) : drawn[i].line = 1}
    IN \A i, j \in Own : i <= j =>
         /\ i # j => drawn[i].n < drawn[j].n
         /\ \A n \in drawn[i].n..drawn[j].n :
              IsAbout(updates[n], asked[c].filter) <=> \E k \in Own : drawn[k].n = n

\* how-to.txt:90 says "Only DEC, TST, and MRG support streaming."  So what is drawn on
\* a line of an answered graph is the part of an update that belongs to that line, and
\* it has the coordinates of that update.
LinesShowTheirOwn ==
  \A i \in 1..Len(chart) : chart[i].from # 0 =>
    \A k \in 1..Len(chart[i].drawn) : chart[i].drawn[k].line = chart[i].line
=============================================================================
