-------------------------- MODULE GraphPage_proofs --------------------------
(***************************************************************************)
(* Proofs about GraphPage: for any number of clicks and updates, the chart *)
(* shows one graph, and its first line shows the feed.                     *)
(***************************************************************************)
EXTENDS GraphPage, ListFilter_proofs, SequenceTheorems, TLAPS

-----------------------------------------------------------------------------
(* FlattenSeq                                                              *)

\* f[i] is the concatenation of the first i sequences of ss.
Sums(f, ss) ==
  f = [i \in 1..Len(ss) |-> IF i = 1 THEN ss[i] ELSE f[i - 1] \o ss[i]]

\* The definition of FlattenSeq, with its sums named.
LEMMA FlattenIs ==
  ASSUME NEW ss
  PROVE  FlattenSeq(ss) = IF Len(ss) = 0 THEN ss
                          ELSE (CHOOSE f : Sums(f, ss))[Len(ss)]
BY DEF FlattenSeq, Sums

\* One more sequence needs one more sum.
LEMMA SumsGrow ==
  ASSUME NEW S, NEW ss \in Seq(Seq(S)), NEW x \in Seq(S), NEW f, Sums(f, ss)
  PROVE  LET g == [i \in 1..(Len(ss) + 1) |->
                     IF i <= Len(ss) THEN f[i] ELSE IF i = 1 THEN x ELSE f[i - 1] \o x]
         IN Sums(g, Append(ss, x))
<1>. DEFINE n == Len(ss)
            tt == Append(ss, x)
            g == [i \in 1..(n + 1) |->
                    IF i <= n THEN f[i] ELSE IF i = 1 THEN x ELSE f[i - 1] \o x]
<1>1. /\ n \in Nat /\ Len(tt) = n + 1 /\ tt[n + 1] = x
      /\ \A i \in 1..n : tt[i] = ss[i]
  OBVIOUS
<1>2. \A i \in 1..n : f[i] = IF i = 1 THEN ss[i] ELSE f[i - 1] \o ss[i]
  BY DEF Sums
<1>. HIDE DEF n, tt
<1>3. ASSUME NEW i \in 1..(n + 1)
      PROVE  g[i] = IF i = 1 THEN tt[i] ELSE g[i - 1] \o tt[i]
  <2>1. CASE i \in 1..n
    <3>1. g[i] = f[i] /\ tt[i] = ss[i]
      BY <1>1, <2>1
    <3>2. i # 1 => g[i - 1] = f[i - 1]
      BY <1>1, <2>1
    <3>. QED  BY <1>2, <2>1, <3>1, <3>2
  <2>2. CASE i = n + 1
    <3>1. g[i] = IF i = 1 THEN x ELSE f[i - 1] \o x
      BY <1>1, <2>2
    <3>2. i # 1 => g[i - 1] = f[i - 1]
      BY <1>1, <2>2
    <3>. QED  BY <1>1, <2>2, <3>1, <3>2
  <2>. QED  BY <1>1, <2>1, <2>2
<1>4. g = [i \in 1..Len(tt) |-> IF i = 1 THEN tt[i] ELSE g[i - 1] \o tt[i]]
  <2>1. g = [i \in 1..(n + 1) |-> g[i]]
    OBVIOUS
  <2>. HIDE DEF g
  <2>. QED  BY <1>1, <1>3, <2>1
<1>. QED  BY <1>4 DEF Sums, n, tt

\* There are sums, and they are sequences.
LEMMA SumsExist ==
  ASSUME NEW S, NEW ss \in Seq(Seq(S))
  PROVE  \E f : Sums(f, ss)
<1>. DEFINE T == {n \in Nat : \A tt \in Seq(Seq(S)) : Len(tt) = n => \E f : Sums(f, tt)}
<1>1. 0 \in T
  <2>1. ASSUME NEW tt \in Seq(Seq(S)), Len(tt) = 0  PROVE \E f : Sums(f, tt)
    <3>1. Sums([i \in 1..0 |-> <<>>], tt)
      BY <2>1 DEF Sums
    <3>. QED  BY <3>1
  <2>. QED  BY <2>1
<1>2. ASSUME NEW n \in Nat, n \in T  PROVE n + 1 \in T
  <2>1. ASSUME NEW tt \in Seq(Seq(S)), Len(tt) = n + 1  PROVE \E f : Sums(f, tt)
    <3>0. tt # <<>>
      BY <2>1
    <3>1. PICK uu \in Seq(Seq(S)), x \in Seq(S) : tt = Append(uu, x)
      BY <3>0, SequenceEmptyOrAppend
    <3>3. Len(uu) = n
      BY <2>1, <3>1
    <3>2. PICK f : Sums(f, uu)
      BY <1>2, <3>3
    <3>. QED  BY <3>1, <3>2, SumsGrow
  <2>. QED  BY <2>1
<1>3. Nat \subseteq T
  <2>. HIDE DEF T
  <2>. QED  BY <1>1, <1>2, NatInSet
<1>. QED  BY <1>3

\* The sums are sequences, and do not depend on what is appended.
LEMMA SumsAgree ==
  ASSUME NEW S, NEW ss \in Seq(Seq(S)), NEW x \in Seq(S),
         NEW f, Sums(f, ss), NEW g, Sums(g, Append(ss, x))
  PROVE  \A i \in 1..Len(ss) : f[i] \in Seq(S) /\ g[i] = f[i]
<1>. DEFINE n == Len(ss)
            tt == Append(ss, x)
            T == {i \in Nat : i \in 1..n => f[i] \in Seq(S) /\ g[i] = f[i]}
<1>1. /\ n \in Nat /\ Len(tt) = n + 1
      /\ \A i \in 1..n : i \in 1..Len(tt) /\ ss[i] \in Seq(S) /\ tt[i] = ss[i]
  OBVIOUS
<1>2. \A i \in 1..n : f[i] = IF i = 1 THEN ss[i] ELSE f[i - 1] \o ss[i]
  BY DEF Sums
<1>3. \A i \in 1..Len(tt) : g[i] = IF i = 1 THEN tt[i] ELSE g[i - 1] \o tt[i]
  BY DEF Sums
<1>4. \A i \in 1..n : g[i] = IF i = 1 THEN ss[i] ELSE g[i - 1] \o ss[i]
  BY <1>1, <1>3
<1>. HIDE DEF n, tt
<1>5. 0 \in T
  OBVIOUS
<1>6. ASSUME NEW i \in Nat, i \in T  PROVE i + 1 \in T
  <2>1. CASE i + 1 \notin 1..n
    BY <2>1
  <2>2. CASE i + 1 = 1 /\ i + 1 \in 1..n
    <3>1. f[i + 1] = ss[i + 1] /\ g[i + 1] = ss[i + 1]
      BY <1>2, <1>4, <2>2
    <3>. QED  BY <1>1, <2>2, <3>1
  <2>3. CASE i + 1 # 1 /\ i + 1 \in 1..n
    <3>. DEFINE j == i + 1
    <3>1. i \in 1..n /\ j - 1 = i /\ j # 1 /\ j \in 1..n /\ j \in Nat
      BY <1>1, <2>3
    <3>2. f[i] \in Seq(S) /\ g[i] = f[i]
      BY <1>6, <3>1
    <3>. HIDE DEF j
    <3>3. f[j] = f[i] \o ss[j]
      BY <1>2, <3>1
    <3>4. g[j] = g[i] \o ss[j]
      BY <1>4, <3>1
    <3>5. f[i] \o ss[j] \in Seq(S)
      BY <1>1, <3>1, <3>2, ConcatProperties
    <3>6. j \in T
      BY <3>1, <3>2, <3>3, <3>4, <3>5
    <3>. QED  BY <3>6 DEF j
  <2>. QED  BY <2>1, <2>2, <2>3
<1>7. Nat \subseteq T
  <2>. HIDE DEF T
  <2>. QED  BY <1>5, <1>6, NatInSet
<1>8. \A i \in 1..n : i \in T
  BY <1>1, <1>7
<1>. QED  BY <1>8 DEF n

\* To flatten one more sequence is to append it.
LEMMA FlattenAppend ==
  ASSUME NEW S, NEW ss \in Seq(Seq(S)), NEW x \in Seq(S)
  PROVE  /\ FlattenSeq(ss) \in Seq(S)
         /\ FlattenSeq(Append(ss, x)) = FlattenSeq(ss) \o x
<1>. DEFINE tt == Append(ss, x)
            f == CHOOSE h : Sums(h, ss)
            g == CHOOSE h : Sums(h, tt)
<1>1. /\ tt \in Seq(Seq(S)) /\ Len(tt) = Len(ss) + 1 /\ tt[Len(tt)] = x
      /\ \A i \in 1..Len(ss) : tt[i] = ss[i]
      /\ Len(ss) \in Nat
  OBVIOUS
<1>2. Sums(f, ss) /\ Sums(g, tt)
  BY <1>1, SumsExist
<1>3. FlattenSeq(ss) = IF Len(ss) = 0 THEN ss ELSE f[Len(ss)]
  BY FlattenIs
<1>4. FlattenSeq(tt) = g[Len(tt)]
  <2>1. Len(tt) # 0
    BY <1>1
  <2>2. FlattenSeq(tt) = IF Len(tt) = 0 THEN tt ELSE g[Len(tt)]
    BY FlattenIs
  <2>. QED  BY <2>1, <2>2
<1>. HIDE DEF tt, f, g
<1>5. \A i \in 1..Len(ss) : f[i] \in Seq(S) /\ g[i] = f[i]
  <2>1. Sums(f, ss) /\ Sums(g, Append(ss, x))
    BY <1>2 DEF tt
  <2>. QED  BY <2>1, SumsAgree
<1>6. g[Len(tt)] = IF Len(tt) = 1 THEN tt[Len(tt)] ELSE g[Len(tt) - 1] \o tt[Len(tt)]
  <2>1. Len(tt) \in 1..Len(tt)
    BY <1>1
  <2>2. \A i \in 1..Len(tt) : g[i] = IF i = 1 THEN tt[i] ELSE g[i - 1] \o tt[i]
    BY <1>2 DEF Sums
  <2>. QED  BY <2>1, <2>2
<1>7. CASE Len(ss) = 0
  <2>1. ss = <<>> /\ FlattenSeq(ss) = <<>>
    BY <1>3, <1>7
  <2>2. FlattenSeq(tt) = x
    BY <1>1, <1>4, <1>6, <1>7
  <2>3. <<>> \o x = x /\ <<>> \in Seq(S)
    BY ConcatEmptySeq
  <2>. QED  BY <2>1, <2>2, <2>3 DEF tt
<1>8. CASE Len(ss) # 0
  <2>1. Len(ss) \in 1..Len(ss) /\ Len(tt) # 1 /\ Len(tt) - 1 = Len(ss)
    BY <1>1, <1>8
  <2>. QED  BY <1>1, <1>3, <1>4, <1>5, <1>6, <1>8, <2>1 DEF tt
<1>. QED  BY <1>7, <1>8

-----------------------------------------------------------------------------
(* Lines and graphs                                                        *)

\* What is appended, item by item, also as a function.
LEMMA AppendItems ==
  ASSUME NEW S, NEW s \in Seq(S), NEW x \in S
  PROVE  /\ Append(s, x) \in [1..(Len(s) + 1) -> S]
         /\ Append(s, x) \in Seq(S) /\ Len(Append(s, x)) = Len(s) + 1 /\ Len(s) \in Nat
         /\ \A i \in 1..Len(s) : Append(s, x)[i] = s[i]
         /\ Append(s, x)[Len(s) + 1] = x
<1>. DEFINE t == Append(s, x)
<1>1. /\ t \in Seq(S) /\ Len(t) = Len(s) + 1 /\ Len(s) \in Nat /\ t[Len(s) + 1] = x
      /\ \A i \in 1..Len(s) : t[i] = s[i]
  OBVIOUS
<1>. HIDE DEF t
<1>2. t \in [1..Len(t) -> S]
  BY <1>1
<1>. QED  BY <1>1, <1>2 DEF t

\* The lines of a chart without what was drawn on them.
Shown(graph) == [i \in 1..Len(graph) |-> Line(graph[i].from, graph[i].line)]

\* The lines of an answer.
LEMMA LinesFromType ==
  ASSUME asked \in Seq(Question), Len(asked) <= MaxClick, NEW c \in Click
  PROVE  /\ LinesFrom(c) \in Seq(Series)
         /\ Len(LinesFrom(c)) = asked[c].lines /\ asked[c].lines \in {1, 2}
         /\ \A i \in 1..Len(LinesFrom(c)) : LinesFrom(c)[i] = Line(c, i)
<1>1. asked[c] \in Question
  BY DEF Click
<1>2. asked[c].lines \in {1, 2} /\ asked[c].lines \in Nat
  BY <1>1 DEF Question
<1>3. c \in 0..MaxClick
  BY PageAssumption DEF Click
<1>. DEFINE n == asked[c].lines
<1>4. ASSUME NEW i \in 1..n  PROVE Line(c, i) \in Series
  <2>1. i \in {1, 2} /\ <<>> \in Seq(Item)
    BY <1>2
  <2>. QED  BY <1>3, <2>1 DEF Line, Series
<1>5. LinesFrom(c) = [l \in 1..n |-> Line(c, l)]
  BY DEF LinesFrom
<1>. HIDE DEF n
<1>6. LinesFrom(c) \in Seq(Series) /\ Len(LinesFrom(c)) = n
  BY <1>2, <1>4, <1>5 DEF n
<1>. QED  BY <1>2, <1>5, <1>6 DEF n

\* One more answer adds its lines to a graph.
LEMMA GraphGrows ==
  ASSUME asked \in Seq(Question), Len(asked) <= MaxClick, NEW c \in Click,
         NEW o \in Seq(Click)
  PROVE  /\ GraphOf(o) \in Seq(Series)
         /\ GraphOf(Append(o, c)) = GraphOf(o) \o LinesFrom(c)
<1>. DEFINE ss == [i \in 1..Len(o) |-> LinesFrom(o[i])]
            tt == [i \in 1..Len(Append(o, c)) |-> LinesFrom(Append(o, c)[i])]
<1>1. \A d \in Click : LinesFrom(d) \in Seq(Series)
  BY LinesFromType
<1>2. \A i \in 1..Len(o) : o[i] \in Click
  OBVIOUS
<1>3. ss \in Seq(Seq(Series)) /\ Len(ss) = Len(o)
  <2>1. \A i \in 1..Len(o) : LinesFrom(o[i]) \in Seq(Series)
    BY <1>1, <1>2
  <2>2. Len(o) \in Nat
    OBVIOUS
  <2>3. ss \in [1..Len(o) -> Seq(Series)]
    BY <2>1
  <2>. QED  BY <2>2, <2>3
<1>4. tt = Append(ss, LinesFrom(c))
  <2>. DEFINE oc == Append(o, c)
  <2>1. /\ Len(oc) = Len(o) + 1 /\ Len(o) \in Nat /\ oc[Len(o) + 1] = c
        /\ \A i \in 1..Len(o) : oc[i] = o[i]
    OBVIOUS
  <2>. HIDE DEF oc
  <2>2. /\ Append(ss, LinesFrom(c)) \in Seq(Seq(Series))
        /\ Len(Append(ss, LinesFrom(c))) = Len(o) + 1
        /\ \A i \in 1..Len(o) : Append(ss, LinesFrom(c))[i] = ss[i]
        /\ Append(ss, LinesFrom(c))[Len(o) + 1] = LinesFrom(c)
    <3>. HIDE DEF ss
    <3>1. LinesFrom(c) \in Seq(Series)
      BY <1>1
    <3>. QED  BY <1>3, <3>1, AppendItems
  <2>3. \A i \in 1..Len(o) : ss[i] = LinesFrom(o[i])
    OBVIOUS
  <2>. HIDE DEF ss
  <2>. DEFINE us == Append(ss, LinesFrom(c))
  <2>. HIDE DEF us
  <2>4. us \in [1..(Len(o) + 1) -> Seq(Series)]
    <3>1. LinesFrom(c) \in Seq(Series)
      BY <1>1
    <3>. QED  BY <1>3, <3>1, AppendItems DEF us
  <2>5. \A i \in 1..(Len(o) + 1) : us[i] = LinesFrom(oc[i])
    BY <2>1, <2>2, <2>3 DEF us
  <2>6. us = [i \in 1..(Len(o) + 1) |-> LinesFrom(oc[i])]
    BY <2>4, <2>5
  <2>. QED  BY <2>1, <2>6 DEF us, oc
<1>5. GraphOf(o) = FlattenSeq(ss) /\ GraphOf(Append(o, c)) = FlattenSeq(tt)
  BY DEF GraphOf
<1>. HIDE DEF ss, tt
<1>. QED  BY <1>1, <1>3, <1>4, <1>5, FlattenAppend

\* No answer, no lines.
LEMMA EmptyGraph == GraphOf(<<>>) = <<>>
<1>. DEFINE ss == [i \in 1..Len(<<>>) |-> LinesFrom(<<>>[i])]
<1>1. ss = <<>> /\ Len(ss) = 0
  OBVIOUS
<1>2. GraphOf(<<>>) = FlattenSeq(ss)
  BY DEF GraphOf
<1>. HIDE DEF ss
<1>. QED  BY <1>1, <1>2, FlattenIs

\* A graph does not change when there are more clicks.
LEMMA GraphKept ==
  ASSUME asked \in Seq(Question), NEW q, asked' = Append(asked, q), NEW o \in Seq(Click)
  PROVE  GraphOf(o)' = GraphOf(o)
<1>1. \A d \in Click : LinesFrom(d)' = LinesFrom(d)
  <2>1. \A d \in Click : asked'[d] = asked[d]
    BY DEF Click
  <2>. QED  BY <2>1 DEF LinesFrom
<1>2. \A i \in 1..Len(o) : o[i] \in Click
  OBVIOUS
<1>3. [i \in 1..Len(o) |-> LinesFrom(o[i])]' = [i \in 1..Len(o) |-> LinesFrom(o[i])]
  BY <1>1, <1>2
<1>. QED  BY <1>3 DEF GraphOf

\* A line without what was drawn on it.
LEMMA LineType ==
  ASSUME NEW r \in Series
  PROVE  /\ Line(r.from, r.line) \in Series /\ r.drawn \in Seq(Item)
         /\ Line(r.from, r.line).from = r.from /\ Line(r.from, r.line).line = r.line
<1>1. r.from \in 0..MaxClick /\ r.line \in {1, 2} /\ r.drawn \in Seq(Item) /\ <<>> \in Seq(Item)
  BY DEF Series
<1>. QED  BY <1>1 DEF Line, Series

\* The lines of a chart, one by one.
LEMMA ShownType ==
  ASSUME NEW g \in Seq(Series)
  PROVE  /\ Shown(g) \in Seq(Series) /\ Len(Shown(g)) = Len(g) /\ Len(g) \in Nat
         /\ \A i \in 1..Len(g) : Shown(g)[i] = Line(g[i].from, g[i].line) /\ g[i] \in Series
<1>1. \A i \in 1..Len(g) : g[i] \in Series /\ Line(g[i].from, g[i].line) \in Series
  BY LineType
<1>. QED  BY <1>1 DEF Shown

\* Two charts of the same lines.
LEMMA ShownSame ==
  ASSUME NEW g \in Seq(Series), NEW h \in Seq(Series), Len(g) = Len(h),
         \A i \in 1..Len(g) : h[i].from = g[i].from /\ h[i].line = g[i].line
  PROVE  Shown(h) = Shown(g)
BY DEF Shown

\* The lines of two charts side by side.
LEMMA ShownConcat ==
  ASSUME NEW g \in Seq(Series), NEW h \in Seq(Series)
  PROVE  Shown(g \o h) = Shown(g) \o Shown(h)
<1>. DEFINE gh == g \o h
            a == Shown(g)
            b == Shown(h)
            ab == a \o b
<1>1. /\ gh \in Seq(Series) /\ Len(gh) = Len(g) + Len(h)
      /\ \A i \in 1..(Len(g) + Len(h)) : gh[i] = IF i <= Len(g) THEN g[i] ELSE h[i - Len(g)]
  BY ConcatProperties
<1>2. /\ a \in Seq(Series) /\ Len(a) = Len(g) /\ Len(g) \in Nat
      /\ b \in Seq(Series) /\ Len(b) = Len(h) /\ Len(h) \in Nat
      /\ \A i \in 1..Len(g) : a[i] = Line(g[i].from, g[i].line)
      /\ \A i \in 1..Len(h) : b[i] = Line(h[i].from, h[i].line)
  BY ShownType
<1>3. /\ Shown(gh) \in Seq(Series) /\ Len(Shown(gh)) = Len(gh)
      /\ \A i \in 1..Len(gh) : Shown(gh)[i] = Line(gh[i].from, gh[i].line)
  <2>. HIDE DEF gh
  <2>. QED  BY <1>1, ShownType
<1>. HIDE DEF a, b
<1>4. /\ ab \in Seq(Series) /\ Len(ab) = Len(g) + Len(h)
      /\ \A i \in 1..(Len(g) + Len(h)) : ab[i] = IF i <= Len(g) THEN a[i] ELSE b[i - Len(g)]
  <2>1. /\ ab \in Seq(Series) /\ Len(ab) = Len(a) + Len(b)
        /\ \A i \in 1..(Len(a) + Len(b)) : ab[i] = IF i <= Len(a) THEN a[i] ELSE b[i - Len(a)]
    <3>1. a \in Seq(Series) /\ b \in Seq(Series)
      BY <1>2
    <3>. QED  BY <3>1, ConcatProperties
  <2>. HIDE DEF ab
  <2>. QED  BY <1>2, <2>1
<1>. DEFINE c == Shown(gh)
<1>. HIDE DEF c, gh, ab
<1>5. ASSUME NEW i \in 1..(Len(g) + Len(h))  PROVE c[i] = ab[i]
  <2>1. CASE i <= Len(g)
    <3>1. i \in 1..Len(g) /\ i \in 1..Len(gh)
      BY <1>1, <1>2, <2>1
    <3>2. c[i] = Line(gh[i].from, gh[i].line)
      BY <1>3, <3>1 DEF c
    <3>3. gh[i] = g[i] /\ ab[i] = a[i]
      BY <1>1, <1>4, <2>1
    <3>. QED  BY <1>2, <3>1, <3>2, <3>3
  <2>2. CASE ~(i <= Len(g))
    <3>1. i - Len(g) \in 1..Len(h) /\ i \in 1..Len(gh)
      BY <1>1, <1>2, <2>2
    <3>2. c[i] = Line(gh[i].from, gh[i].line)
      BY <1>3, <3>1 DEF c
    <3>3. gh[i] = h[i - Len(g)] /\ ab[i] = b[i - Len(g)]
      BY <1>1, <1>4, <2>2
    <3>. QED  BY <1>2, <3>1, <3>2, <3>3
  <2>. QED  BY <2>1, <2>2
<1>6. c \in Seq(Series) /\ Len(c) = Len(g) + Len(h)
  BY <1>1, <1>3 DEF c
<1>7. c = ab
  BY <1>4, <1>5, <1>6, SeqEqual
<1>. QED  BY <1>7 DEF c, gh, ab, a, b

\* Nothing is drawn yet on the lines of an answer.
LEMMA ShownLines ==
  ASSUME asked \in Seq(Question), Len(asked) <= MaxClick, NEW c \in Click
  PROVE  Shown(LinesFrom(c)) = LinesFrom(c)
<1>. DEFINE g == LinesFrom(c)
            h == Shown(g)
<1>1. g \in Seq(Series) /\ \A i \in 1..Len(g) : g[i] = Line(c, i)
  BY LinesFromType
<1>. HIDE DEF g
<1>2. /\ h \in Seq(Series) /\ Len(h) = Len(g)
      /\ \A i \in 1..Len(g) : h[i] = Line(g[i].from, g[i].line)
  BY <1>1, ShownType
<1>. HIDE DEF h
<1>3. ASSUME NEW i \in 1..Len(g)  PROVE h[i] = g[i]
  <2>1. g[i] = Line(c, i)
    BY <1>1
  <2>2. g[i].from = c /\ g[i].line = i
    BY <2>1 DEF Line
  <2>. QED  BY <1>2, <2>1, <2>2
<1>4. h = g
  BY <1>1, <1>2, <1>3, SeqEqual
<1>. QED  BY <1>4 DEF g, h

\* draw_on_graph keeps the lines, and adds the item to one line at most.
LEMMA DrawOnIs ==
  ASSUME NEW g \in Seq(Series), NEW item \in Item, NEW i \in {1, 2}, NEW found \in BOOLEAN
  PROVE  LET d == DrawOn(g, item, i, found) IN
         /\ d \in Seq(Series) /\ Len(d) = Len(g) /\ Shown(d) = Shown(g)
         /\ g # <<>> => d[1].drawn = IF found \/ i = 1 THEN Append(g[1].drawn, item)
                                     ELSE g[1].drawn
<1>. DEFINE target == IF found THEN 1 ELSE i
            d == DrawOn(g, item, i, found)
<1>1. target \in Nat /\ (found \/ i = 1 <=> target = 1)
  OBVIOUS
<1>2. d = IF target \in 1..Len(g) THEN [g EXCEPT ![target].drawn = Append(@, item)] ELSE g
  BY DEF DrawOn
<1>3. Len(g) \in Nat /\ \A j \in 1..Len(g) : g[j] \in Series /\ g[j].drawn \in Seq(Item)
  BY LineType
<1>. HIDE DEF target, d
<1>4. CASE target \notin 1..Len(g)
  <2>1. d = g
    BY <1>2, <1>4
  <2>2. g # <<>> => target # 1
    BY <1>3, <1>4
  <2>. QED  BY <1>1, <2>1, <2>2 DEF d
<1>5. CASE target \in 1..Len(g)
  <2>. DEFINE r == [g[target] EXCEPT !.drawn = Append(@, item)]
              q == g[target]
  <2>0. q \in Series /\ Append(q.drawn, item) \in Seq(Item)
        /\ r = [q EXCEPT !.drawn = Append(q.drawn, item)]
    BY <1>3, <1>5
  <2>. HIDE DEF q, r
  <2>a. r \in Series /\ r.from = q.from /\ r.line = q.line /\ r.drawn = Append(q.drawn, item)
    BY <2>0 DEF Series
  <2>1. r \in Series /\ r.from = g[target].from /\ r.line = g[target].line
        /\ r.drawn = Append(g[target].drawn, item)
    BY <2>a DEF q
  <2>2. d = [g EXCEPT ![target] = r]
    BY <1>2, <1>5 DEF r
  <2>3. d \in Seq(Series) /\ Len(d) = Len(g) /\ d[target] = r
        /\ \A j \in 1..Len(g) : j # target => d[j] = g[j]
    BY <1>5, <2>1, <2>2, ExceptSeq
  <2>4. \A j \in 1..Len(g) : d[j].from = g[j].from /\ d[j].line = g[j].line
    BY <2>1, <2>3
  <2>5. Shown(d) = Shown(g)
    BY <2>3, <2>4, ShownSame
  <2>6. g # <<>> => 1 \in 1..Len(g)
    BY <1>3
  <2>7. g # <<>> => d[1].drawn = IF target = 1 THEN Append(g[1].drawn, item) ELSE g[1].drawn
    BY <2>1, <2>3, <2>6
  <2>. QED  BY <1>1, <2>3, <2>5, <2>7 DEF d
<1>. QED  BY <1>4, <1>5

\* To add a graph to a chart is to add its lines; what was drawn on the first line stays or
\* is lost.
LEMMA AddedToIs ==
  ASSUME asked \in Seq(Question), Len(asked) <= MaxClick, NEW c \in Click,
         NEW g \in Seq(Series), NEW h \in AddedTo(g, c)
  PROVE  /\ h \in Seq(Series)
         /\ Shown(h) = Shown(g) \o LinesFrom(c)
         /\ g # <<>> => h # <<>> /\ h[1].drawn \in {g[1].drawn, <<>>}
<1>. DEFINE e == [i \in 1..Len(g) |-> [g[i] EXCEPT !.drawn = <<>>]]
            new == LinesFrom(c)
<1>1. Len(g) \in Nat /\ \A j \in 1..Len(g) : g[j] \in Series
  OBVIOUS
<1>2. \A j \in 1..Len(g) :
        /\ e[j] \in Series /\ e[j].from = g[j].from /\ e[j].line = g[j].line /\ e[j].drawn = <<>>
  <2>. TAKE j \in 1..Len(g)
  <2>1. <<>> \in Seq(Item) /\ g[j] \in Series
    BY <1>1
  <2>2. e[j] = [g[j] EXCEPT !.drawn = <<>>]
    OBVIOUS
  <2>. HIDE DEF e
  <2>. QED  BY <2>1, <2>2 DEF Series
<1>3. e \in Seq(Series) /\ Len(e) = Len(g)
  BY <1>1, <1>2
<1>4. new \in Seq(Series) /\ Shown(new) = new
  BY LinesFromType, ShownLines
<1>5. h = g \o new \/ h = e \o new
  BY DEF AddedTo
<1>. HIDE DEF e, new
<1>6. Shown(e) = Shown(g)
  BY <1>2, <1>3, ShownSame
<1>7. ASSUME NEW k \in Seq(Series), Len(k) = Len(g), h = k \o new, Shown(k) = Shown(g),
             \A j \in 1..Len(g) : k[j].drawn \in {g[j].drawn, <<>>}
      PROVE  /\ h \in Seq(Series) /\ Shown(h) = Shown(g) \o new
             /\ g # <<>> => h # <<>> /\ h[1].drawn \in {g[1].drawn, <<>>}
  <2>1. h \in Seq(Series) /\ Len(h) = Len(k) + Len(new)
        /\ \A j \in 1..(Len(k) + Len(new)) : h[j] = IF j <= Len(k) THEN k[j] ELSE new[j - Len(k)]
    BY <1>4, <1>7, ConcatProperties
  <2>2. Shown(h) = Shown(g) \o new
    BY <1>4, <1>7, ShownConcat
  <2>3. Len(new) \in Nat
    BY <1>4
  <2>4. g # <<>> => 1 \in 1..Len(g) /\ h[1] = k[1] /\ h # <<>>
    BY <1>1, <1>7, <2>1, <2>3
  <2>. QED  BY <1>7, <2>1, <2>2, <2>4
<1>. QED  BY <1>2, <1>3, <1>5, <1>6, <1>7 DEF new

-----------------------------------------------------------------------------
(* The inductive invariant                                                 *)

\* The items of a first line that are an update's value for that line; those show, of the
\* updates in the set wanted, all from the first that was drawn up to the one numbered last.
Own(drawn) == {i \in 1..Len(drawn) : drawn[i].line = 1}
Shows(drawn, n) == \E i \in Own(drawn) : drawn[i].n = n
Follows(drawn, wanted, last) ==
  /\ \A i \in Own(drawn) : drawn[i].n \in 1..last
  /\ \A i, j \in Own(drawn) : i < j => drawn[i].n < drawn[j].n
  /\ \A i \in Own(drawn) : \A n \in drawn[i].n..last : n \in wanted <=> Shows(drawn, n)

Wanted(c) == {n \in 1..Len(updates) : IsAbout(updates[n], asked[c].filter)}
Feed ==
  \A c \in Graphs : Graphs = {c} /\ Streams(c) =>
    Follows(chart[1].drawn, Wanted(c), since[c] + received[c])

\* Only the sockets of graphs receive anything, from since on, and only what they received
\* is drawn.
Sockets ==
  /\ \A c \in Click :
       /\ asked[c].adding => socket[c] = "none"
       /\ socket[c] \in {"none", "connecting"} => received[c] = 0
       /\ since[c] + received[c] <= Len(updates)
  /\ (\A c \in Click : received[c] = 0) => chart[1].drawn = <<>>

StartsAt(i) ==
  /\ IsNew(i) /\ \A j \in (i + 1)..Len(order) : ~IsNew(j)
  /\ Shown(chart) = GraphOf(SubSeq(order, i, Len(order)))
OneGraph ==
  IF \E i \in 1..Len(order) : IsNew(i)
    THEN \E i \in 1..Len(order) : StartsAt(i)
    ELSE Shown(chart) = <<Line(0, 1)>> \o GraphOf(order)

GraphInv == TypeOK /\ chart # <<>> /\ OneGraph /\ Sockets /\ Feed

\* One more place at the end of a function.
LEMMA AppendPlace ==
  ASSUME NEW S, NEW n \in Nat, NEW f \in [1..n -> S], NEW x \in S
  PROVE  /\ Append(f, x) \in [1..(n + 1) -> S]
         /\ \A i \in 1..n : Append(f, x)[i] = f[i]
         /\ Append(f, x)[n + 1] = x
<1>1. f \in Seq(S) /\ Len(f) = n
  OBVIOUS
<1>. QED  BY <1>1, AppendItems

\* What draw_on_graph is called with by onmessage.
LEMMA DrawUpdateIs ==
  ASSUME TypeOK, chart # <<>>, NEW c \in Click, NEW n \in 1..MaxUpdate, NEW found \in BOOLEAN
  PROVE  LET d == DrawUpdate(chart, c, n, found)
             item(l) == [n |-> n, line |-> l]
             own == Append(chart[1].drawn, item(1)) IN
         /\ d \in Seq(Series) /\ d # <<>> /\ Shown(d) = Shown(chart)
         /\ Streams(c) => d[1].drawn = own \/ d[1].drawn = Append(own, item(2))
<1>. DEFINE item(l) == [n |-> n, line |-> l]
            d == DrawUpdate(chart, c, n, found)
            own == Append(chart[1].drawn, item(1))
<1>1. item(0) \in Item /\ item(1) \in Item /\ item(2) \in Item
  BY DEF Item
<1>2. chart \in Seq(Series) /\ Len(chart) \in Nat /\ Len(chart) # 0
  BY DEF TypeOK
<1>3. CASE page # "tst"
  <2>1. d = DrawOn(chart, item(1), 1, found)
    BY <1>3 DEF DrawUpdate
  <2>. HIDE DEF d, item
  <2>2. /\ d \in Seq(Series) /\ Len(d) = Len(chart) /\ Shown(d) = Shown(chart)
        /\ d[1].drawn = Append(chart[1].drawn, item(1))
    BY <1>1, <1>2, <2>1, DrawOnIs
  <2>3. d # <<>>
    BY <1>2, <2>2
  <2>. QED  BY <2>2, <2>3 DEF d, item
<1>4. CASE page = "tst" /\ asked[c].lines = 2
  <2>. DEFINE e == DrawOn(chart, item(1), 1, found)
  <2>1. d = DrawOn(e, item(2), 2, found)
    BY <1>4 DEF DrawUpdate
  <2>. HIDE DEF d, item, e
  <2>2. /\ e \in Seq(Series) /\ Len(e) = Len(chart) /\ Shown(e) = Shown(chart)
        /\ e[1].drawn = Append(chart[1].drawn, item(1))
    BY <1>1, <1>2, DrawOnIs DEF e
  <2>3. e # <<>>
    BY <1>2, <2>2
  <2>4. /\ d \in Seq(Series) /\ Len(d) = Len(e) /\ Shown(d) = Shown(e)
        /\ d[1].drawn = IF found \/ 2 = 1 THEN Append(e[1].drawn, item(2)) ELSE e[1].drawn
    BY <1>1, <2>1, <2>2, <2>3, DrawOnIs
  <2>5. d # <<>>
    BY <1>2, <2>2, <2>4
  <2>. QED  BY <2>2, <2>4, <2>5 DEF d, item
<1>5. CASE page = "tst" /\ asked[c].lines # 2
  <2>. DEFINE e == DrawOn(chart, item(0), 1, FALSE)
  <2>1. d = DrawOn(e, item(0), 1, FALSE)
    BY <1>5 DEF DrawUpdate
  <2>2. ~Streams(c)
    BY <1>5 DEF Streams
  <2>. HIDE DEF d, item, e
  <2>3. /\ e \in Seq(Series) /\ Len(e) = Len(chart) /\ Shown(e) = Shown(chart)
    BY <1>1, <1>2, DrawOnIs DEF e
  <2>4. /\ d \in Seq(Series) /\ Len(d) = Len(e) /\ Shown(d) = Shown(e)
    BY <1>1, <2>1, <2>3, DrawOnIs
  <2>5. d # <<>>
    BY <1>2, <2>3, <2>4
  <2>. QED  BY <2>2, <2>3, <2>4, <2>5 DEF d, item
<1>. QED  BY <1>3, <1>4, <1>5

-----------------------------------------------------------------------------
(* What is drawn                                                           *)

\* Only the updates up to last matter.
LEMMA FollowsAgree ==
  ASSUME NEW d, NEW last \in Nat, NEW v, NEW w, Follows(d, v, last),
         \A n \in 1..last : n \in v <=> n \in w
  PROVE  Follows(d, w, last)
<1>1. \A i \in Own(d) : d[i].n \in 1..last
  BY DEF Follows
<1>2. ASSUME NEW i \in Own(d), NEW n \in d[i].n..last  PROVE n \in w <=> Shows(d, n)
  <2>1. n \in 1..last
    BY <1>1, <1>2
  <2>. QED  BY <1>2, <2>1 DEF Follows
<1>. QED  BY <1>1, <1>2 DEF Follows

\* As long as nothing is drawn, nothing is missing.
LEMMA NothingDrawn ==
  ASSUME NEW w, NEW last  PROVE Follows(<<>>, w, last)
BY DEF Follows, Own

\* An update that is not wanted is not drawn.
LEMMA FollowsSkips ==
  ASSUME NEW d, NEW last \in Nat, NEW w, Follows(d, w, last), last + 1 \notin w
  PROVE  Follows(d, w, last + 1)
<1>1. \A i \in Own(d) : d[i].n \in 1..last
  BY DEF Follows
<1>2. ASSUME NEW i \in Own(d), NEW n \in d[i].n..(last + 1)  PROVE n \in w <=> Shows(d, n)
  <2>1. CASE n = last + 1
    <3>1. ~Shows(d, n)
      BY <1>1, <2>1 DEF Shows
    <3>. QED  BY <2>1, <3>1
  <2>2. CASE n # last + 1
    <3>1. n \in d[i].n..last
      BY <1>1, <1>2, <2>2
    <3>. QED  BY <1>2, <3>1 DEF Follows
  <2>. QED  BY <2>1, <2>2
<1>3. \A i \in Own(d) : d[i].n \in 1..(last + 1)
  BY <1>1
<1>. QED  BY <1>2, <1>3 DEF Follows

\* The items of the line after one more was drawn.
LEMMA OwnAppend ==
  ASSUME NEW d \in Seq(Item), NEW item \in Item
  PROVE  LET e == Append(d, item) IN
         /\ Own(e) = Own(d) \cup (IF item.line = 1 THEN {Len(d) + 1} ELSE {})
         /\ \A i \in Own(d) : e[i] = d[i] /\ i \in 1..Len(d)
         /\ e[Len(d) + 1] = item
<1>. DEFINE e == Append(d, item)
<1>1. /\ e \in Seq(Item) /\ Len(e) = Len(d) + 1 /\ Len(d) \in Nat /\ e[Len(d) + 1] = item
      /\ \A i \in 1..Len(d) : e[i] = d[i]
  BY AppendItems
<1>. HIDE DEF e
<1>2. \A i : i \in 1..(Len(d) + 1) <=> i \in 1..Len(d) \/ i = Len(d) + 1
  BY <1>1
<1>3. Own(e) = {i \in 1..(Len(d) + 1) : e[i].line = 1}
  BY <1>1 DEF Own
<1>4. Own(e) = Own(d) \cup (IF item.line = 1 THEN {Len(d) + 1} ELSE {})
  <2>1. \A i : i \in Own(e) <=> i \in 1..(Len(d) + 1) /\ e[i].line = 1
    BY <1>3
  <2>2. \A i : i \in Own(d) <=> i \in 1..Len(d) /\ d[i].line = 1
    BY DEF Own
  <2>3. \A i : i \in Own(e) <=> i \in Own(d) \/ (i = Len(d) + 1 /\ item.line = 1)
    BY <1>1, <1>2, <2>1, <2>2
  <2>. QED  BY <2>3
<1>. QED  BY <1>1, <1>4 DEF e, Own

\* Other items are not counted.
LEMMA FollowsOther ==
  ASSUME NEW d \in Seq(Item), NEW item \in Item, item.line # 1, NEW w, NEW last,
         Follows(d, w, last)
  PROVE  Follows(Append(d, item), w, last)
<1>. DEFINE e == Append(d, item)
<1>1. Own(e) = Own(d) /\ \A i \in Own(d) : e[i] = d[i]
  <2>1. /\ Own(e) = Own(d) \cup (IF item.line = 1 THEN {Len(d) + 1} ELSE {})
        /\ \A i \in Own(d) : e[i] = d[i]
    BY OwnAppend
  <2>. HIDE DEF e
  <2>. QED  BY <2>1
<1>. HIDE DEF e
<1>2. \A n : Shows(e, n) <=> Shows(d, n)
  BY <1>1 DEF Shows
<1>3. Follows(e, w, last)
  BY <1>1, <1>2 DEF Follows
<1>. QED  BY <1>3 DEF e

\* The next update is wanted, and drawn.
LEMMA FollowsNext ==
  ASSUME NEW d \in Seq(Item), NEW last \in Nat, NEW item \in Item,
         item.line = 1, item.n = last + 1, NEW w, Follows(d, w, last), last + 1 \in w
  PROVE  Follows(Append(d, item), w, last + 1)
<1>. DEFINE e == Append(d, item)
            k == Len(d) + 1
<1>1. /\ Own(e) = Own(d) \cup {k} /\ e[k] = item
      /\ \A i \in Own(d) : e[i] = d[i] /\ i \in 1..Len(d)
  BY OwnAppend
<1>2. Len(d) \in Nat /\ \A i \in 1..Len(d) : i < k
  OBVIOUS
<1>. HIDE DEF e, k
<1>3. /\ \A i \in Own(d) : d[i].n \in 1..last
      /\ \A i, j \in Own(d) : i < j => d[i].n < d[j].n
      /\ \A i \in Own(d) : \A n \in d[i].n..last : n \in w <=> Shows(d, n)
  BY DEF Follows
<1>4. \A n : Shows(e, n) <=> Shows(d, n) \/ n = last + 1
  <2>1. \A n : Shows(e, n) <=> \E i \in Own(d) \cup {k} : e[i].n = n
    BY <1>1 DEF Shows
  <2>2. \A n : Shows(d, n) <=> \E i \in Own(d) : e[i].n = n
    BY <1>1 DEF Shows
  <2>. QED  BY <1>1, <2>1, <2>2
<1>5. ASSUME NEW i \in Own(e)  PROVE e[i].n \in 1..(last + 1)
  <2>1. CASE i \in Own(d)
    BY <1>1, <1>3, <2>1
  <2>2. CASE i = k
    BY <1>1, <2>2
  <2>. QED  BY <1>1, <2>1, <2>2
<1>6. ASSUME NEW i \in Own(e), NEW j \in Own(e), i < j  PROVE e[i].n < e[j].n
  <2>1. i \in Own(d)
    <3>1. ASSUME i = k  PROVE FALSE
      <4>1. j \in 1..Len(d) \/ j = k
        BY <1>1
      <4>. QED  BY <1>2, <1>6, <3>1, <4>1 DEF k
    <3>. QED  BY <1>1, <3>1
  <2>2. CASE j \in Own(d)
    BY <1>1, <1>3, <1>6, <2>1, <2>2
  <2>3. CASE j = k
    <3>1. e[i].n \in 1..last /\ e[j].n = last + 1
      BY <1>1, <1>3, <2>1, <2>3
    <3>. QED  BY <3>1
  <2>. QED  BY <1>1, <2>2, <2>3
<1>7. ASSUME NEW i \in Own(e), NEW n \in e[i].n..(last + 1)
      PROVE  n \in w <=> Shows(e, n)
  <2>1. CASE n = last + 1
    BY <1>4, <2>1
  <2>2. CASE n # last + 1
    <3>1. e[i].n <= n /\ n <= last /\ n \in Int
      BY <1>5, <1>7, <2>2
    <3>2. i \in Own(d)
      <4>1. i # k
        BY <1>1, <3>1
      <4>. QED  BY <1>1, <4>1
    <3>3. n \in d[i].n..last
      BY <1>1, <1>3, <3>1, <3>2
    <3>4. n \in w <=> Shows(d, n)
      BY <1>3, <3>2, <3>3
    <3>. QED  BY <1>4, <2>2, <3>4
  <2>. QED  BY <2>1, <2>2
<1>8. Follows(e, w, last + 1)
  BY <1>5, <1>6, <1>7 DEF Follows
<1>. QED  BY <1>8 DEF e

-----------------------------------------------------------------------------
(* The steps                                                               *)

\* The answers drawn so far, and the last of them, are answers to clicks.
LEMMA ClickSet ==
  ASSUME TypeOK
  PROVE  /\ Len(asked) \in Nat /\ asked \in Seq(Question) /\ Len(asked) <= MaxClick
         /\ \A i \in 1..Len(order) : order[i] \in Click
         /\ \A i \in 1..Len(order) : SubSeq(order, i, Len(order)) \in Seq(Click)
<1>1. order \in Seq(Click)
  BY DEF TypeOK
<1>2. \A i \in 1..Len(order) : order[i] \in Click
  BY <1>1
<1>3. \A i \in 1..Len(order) : SubSeq(order, i, Len(order)) \in Seq(Click)
  BY <1>1
<1>. QED  BY <1>2, <1>3 DEF TypeOK

\* The graph is the same while neither its lines nor the answers change.
LEMMA OneGraphKept ==
  ASSUME OneGraph, order' = order, asked' = asked, Shown(chart') = Shown(chart)
  PROVE  OneGraph'
<1>1. \A i : StartsAt(i)' <=> StartsAt(i)
  BY ZenonT(60) DEF StartsAt, IsNew, Shown, GraphOf, LinesFrom
<1>2. GraphOf(order)' = GraphOf(order)
  BY DEF GraphOf, LinesFrom
<1>3. Shown(chart)' = Shown(chart)
  BY DEF Shown
<1>. QED  BY <1>1, <1>2, <1>3 DEF OneGraph, IsNew

\* A later update changes nothing about those that were received.
LEMMA BroadcastKeeps ==
  ASSUME GraphInv, Broadcast  PROVE GraphInv'
<1>1. TypeOK /\ Len(updates) \in Nat /\ Len(asked) \in Nat
  BY DEF GraphInv, TypeOK
<1>2. PICK u \in Update : updates' = Append(updates, u)
  BY DEF Broadcast
<1>3. UNCHANGED <<page, asked, answer, socket, since, received, chart, order, left>>
  BY DEF Broadcast
<1>4. /\ updates' \in Seq(Update) /\ Len(updates') = Len(updates) + 1
      /\ \A n \in 1..Len(updates) : updates'[n] = updates[n]
  BY <1>1, <1>2, AppendItems DEF TypeOK
<1>5. TypeOK'
  <2>1. Len(updates') <= MaxUpdate
    BY <1>1, <1>4, PageAssumption DEF Broadcast
  <2>2. Update' = Update
    BY <1>3 DEF Update
  <2>. QED  BY <1>1, <1>3, <1>4, <2>1, <2>2 DEF TypeOK, Click
<1>6. OneGraph'
  BY <1>3, OneGraphKept DEF GraphInv
<1>7. Sockets'
  <2>1. \A c \in Click : since[c] + received[c] <= Len(updates')
    <3>. TAKE c \in Click
    <3>1. since[c] \in Nat /\ received[c] \in Nat /\ since[c] + received[c] <= Len(updates)
      BY <1>1 DEF GraphInv, Sockets, TypeOK
    <3>. QED  BY <1>1, <1>4, <3>1
  <2>. QED  BY <1>3, <2>1 DEF GraphInv, Sockets, Click
<1>8. Feed'
  <2>. SUFFICES ASSUME NEW c \in Graphs, Graphs = {c}, Streams(c)
                PROVE  Follows(chart[1].drawn, Wanted(c)', since[c] + received[c])
    BY <1>3 DEF Feed, Graphs, Click, Streams
  <2>. DEFINE last == since[c] + received[c]
  <2>1. c \in Click /\ last \in Nat /\ last <= Len(updates)
    <3>1. c \in Click
      BY DEF Graphs
    <3>2. since[c] \in Nat /\ received[c] \in Nat /\ since[c] + received[c] <= Len(updates)
      BY <1>1, <3>1 DEF GraphInv, Sockets, TypeOK
    <3>. QED  BY <3>1, <3>2
  <2>2. Follows(chart[1].drawn, Wanted(c), last)
    BY DEF GraphInv, Feed
  <2>3. ASSUME NEW n \in 1..last  PROVE n \in Wanted(c) <=> n \in Wanted(c)'
    <3>1. n \in 1..Len(updates) /\ n \in 1..Len(updates') /\ updates'[n] = updates[n]
      BY <1>1, <1>4, <2>1
    <3>2. n \in Wanted(c) <=> IsAbout(updates[n], asked[c].filter)
      BY <3>1 DEF Wanted
    <3>3. n \in Wanted(c)' <=> IsAbout(updates[n], asked[c].filter)'
      BY <3>1 DEF Wanted
    <3>4. IsAbout(updates[n], asked[c].filter)' <=> IsAbout(updates[n], asked[c].filter)
      BY <1>3, <3>1 DEF IsAbout
    <3>. QED  BY <3>2, <3>3, <3>4
  <2>. HIDE DEF last
  <2>4. Follows(chart[1].drawn, Wanted(c)', last)
    BY <2>1, <2>2, <2>3, FollowsAgree
  <2>. QED  BY <2>4 DEF last
<1>. QED  BY <1>3, <1>5, <1>6, <1>7, <1>8 DEF GraphInv

\* Nothing was drawn before the one socket of the one graph opened.
LEMMA SocketOpensKeeps ==
  ASSUME GraphInv, NEW c \in Click, SocketOpens(c)  PROVE GraphInv'
<1>1. TypeOK /\ Len(updates) \in Nat
  BY DEF GraphInv, TypeOK
<1>2. /\ socket[c] = "connecting"
      /\ socket' = [socket EXCEPT ![c] = "open"]
      /\ since' = [since EXCEPT ![c] = Len(updates)]
      /\ UNCHANGED <<page, updates, asked, answer, received, chart, order, left>>
  BY DEF SocketOpens
<1>3. Len(updates) \in 0..MaxUpdate
  BY <1>1 DEF TypeOK
<1>4. /\ socket' \in [Click -> {"none", "connecting", "open", "closed"}]
      /\ since' \in [Click -> 0..MaxUpdate]
  BY <1>1, <1>2, <1>3 DEF TypeOK
<1>5. TypeOK'
  <2>1. Click' = Click /\ Update' = Update
    BY <1>2 DEF Click, Update
  <2>. QED  BY <1>1, <1>2, <1>4, <2>1 DEF TypeOK
<1>6. OneGraph'
  BY <1>2, OneGraphKept DEF GraphInv
<1>7. received[c] = 0 /\ ~asked[c].adding
  <2>1. asked[c].adding => socket[c] = "none"
    BY DEF GraphInv, Sockets
  <2>2. asked[c] \in Question
    BY <1>1 DEF TypeOK, Click
  <2>3. asked[c].adding \in BOOLEAN
    BY <2>2 DEF Question
  <2>. QED  BY <1>2, <2>1, <2>3 DEF GraphInv, Sockets
<1>8. Sockets'
  <2>1. ASSUME NEW d \in Click
        PROVE  /\ asked[d].adding => socket'[d] = "none"
               /\ socket'[d] \in {"none", "connecting"} => received[d] = 0
               /\ since'[d] + received[d] <= Len(updates)
    <3>1. CASE d = c
      <4>1. socket'[d] = "open" /\ since'[d] = Len(updates)
        BY <1>1, <1>2, <3>1 DEF TypeOK
      <4>. QED  BY <1>1, <1>7, <3>1, <4>1
    <3>2. CASE d # c
      <4>1. socket'[d] = socket[d] /\ since'[d] = since[d]
        BY <1>1, <1>2, <3>2 DEF TypeOK
      <4>. QED  BY <4>1 DEF GraphInv, Sockets
    <3>. QED  BY <3>1, <3>2
  <2>. QED  BY <1>2, <2>1 DEF GraphInv, Sockets, Click
<1>9. Feed'
  <2>. SUFFICES ASSUME NEW d \in Graphs, Graphs = {d}, Streams(d)
                PROVE  Follows(chart[1].drawn, Wanted(d), since'[d] + received[d])
    BY <1>2 DEF Feed, Graphs, Click, Streams, Wanted, IsAbout
  <2>1. d = c
    BY <1>7 DEF Graphs
  <2>2. ASSUME NEW e \in Click  PROVE received[e] = 0
    <3>1. CASE e = c
      BY <1>7, <3>1
    <3>2. CASE e # c
      <4>1. asked[e].adding
        BY <2>1, <3>2 DEF Graphs
      <4>. QED  BY <4>1 DEF GraphInv, Sockets
    <3>. QED  BY <3>1, <3>2
  <2>3. chart[1].drawn = <<>>
    BY <2>2 DEF GraphInv, Sockets
  <2>. QED  BY <2>3, NothingDrawn
<1>. QED  BY <1>2, <1>5, <1>6, <1>8, <1>9 DEF GraphInv

\* What the loss of a socket, a failed answer and leaving the page have in common.
LEMMA QuietKeeps ==
  ASSUME GraphInv, UNCHANGED <<page, updates, asked, since, received, chart, order>>,
         answer' \in [Click -> {"waiting", "drawn", "failed"}],
         socket' \in [Click -> {"none", "connecting", "open", "closed"}], left' \in BOOLEAN,
         \A c \in Click : socket'[c] = socket[c] \/ (socket'[c] = "closed" /\ socket[c] # "none")
  PROVE  GraphInv'
<1>1. TypeOK
  BY DEF GraphInv
<1>2. Click' = Click /\ Update' = Update
  BY DEF Click, Update
<1>3. TypeOK'
  BY <1>1, <1>2 DEF TypeOK
<1>4. OneGraph'
  BY OneGraphKept DEF GraphInv
<1>5. Sockets'
  <2>1. ASSUME NEW d \in Click
        PROVE  /\ asked[d].adding => socket'[d] = "none"
               /\ socket'[d] \in {"none", "connecting"} => received[d] = 0
    BY DEF GraphInv, Sockets
  <2>. QED  BY <1>2, <2>1 DEF GraphInv, Sockets
<1>6. Feed'
  BY DEF GraphInv, Feed, Graphs, Click, Streams, Wanted, IsAbout
<1>. QED  BY <1>3, <1>4, <1>5, <1>6 DEF GraphInv

\* The loss of a socket.
LEMMA SocketDropsKeeps ==
  ASSUME GraphInv, NEW c \in Click, SocketDrops(c)  PROVE GraphInv'
<1>1. TypeOK
  BY DEF GraphInv
<1>2. /\ socket[c] # "none" /\ socket' = [socket EXCEPT ![c] = "closed"]
      /\ UNCHANGED <<page, updates, asked, answer, since, received, chart, order, left>>
  BY DEF SocketDrops
<1>3. socket' \in [Click -> {"none", "connecting", "open", "closed"}]
  BY <1>1, <1>2 DEF TypeOK
<1>4. \A d \in Click : socket'[d] = socket[d] \/ (socket'[d] = "closed" /\ socket[d] # "none")
  BY <1>1, <1>2 DEF TypeOK
<1>5. answer' \in [Click -> {"waiting", "drawn", "failed"}] /\ left' \in BOOLEAN
  BY <1>1, <1>2 DEF TypeOK
<1>. QED  BY <1>2, <1>3, <1>4, <1>5, QuietKeeps

\* A failed answer.
LEMMA AnswerFailsKeeps ==
  ASSUME GraphInv, NEW c \in Click, AnswerFails(c)  PROVE GraphInv'
<1>1. TypeOK
  BY DEF GraphInv
<1>2. /\ answer' = [answer EXCEPT ![c] = "failed"]
      /\ UNCHANGED <<page, updates, asked, socket, since, received, chart, order, left>>
  BY DEF AnswerFails
<1>3. answer' \in [Click -> {"waiting", "drawn", "failed"}]
  BY <1>1, <1>2 DEF TypeOK
<1>4. socket' \in [Click -> {"none", "connecting", "open", "closed"}] /\ left' \in BOOLEAN
  BY <1>1, <1>2 DEF TypeOK
<1>. QED  BY <1>2, <1>3, <1>4, QuietKeeps

\* Leaving the page.
LEMMA UnloadKeeps ==
  ASSUME GraphInv, Unload  PROVE GraphInv'
<1>1. TypeOK
  BY DEF GraphInv
<1>2. /\ left' = TRUE
      /\ socket' = [c \in Click |-> IF socket[c] = "none" THEN "none" ELSE "closed"]
      /\ UNCHANGED <<page, updates, asked, answer, since, received, chart, order>>
  BY DEF Unload
<1>3. socket' \in [Click -> {"none", "connecting", "open", "closed"}]
  BY <1>2
<1>4. \A d \in Click : socket'[d] = socket[d] \/ (socket'[d] = "closed" /\ socket[d] # "none")
  BY <1>1, <1>2 DEF TypeOK
<1>5. answer' \in [Click -> {"waiting", "drawn", "failed"}] /\ left' \in BOOLEAN
  BY <1>1, <1>2 DEF TypeOK
<1>. QED  BY <1>2, <1>3, <1>4, <1>5, QuietKeeps

\* The filter of onmessage lets through what the graph is about.
LEMMA MatchesIs ==
  ASSUME NEW c, NEW u \in Update
  PROVE  IsAbout(u, asked[c].filter) <=> Matches(c, u)
<1>1. CASE u.key = NoKey
  <2>1. ~IsAbout(u, asked[c].filter)
    BY <1>1, PageAssumption DEF IsAbout
  <2>. QED  BY <1>1, <2>1 DEF Matches
<1>2. CASE u.key # NoKey
  <2>1. u = [table |-> u.table, key |-> u.key] /\ u.key \in Key
    BY <1>2 DEF Update
  <2>2. ASSUME IsAbout(u, asked[c].filter)  PROVE Matches(c, u)
    BY <1>2, <2>2 DEF IsAbout, Matches
  <2>3. ASSUME Matches(c, u)  PROVE IsAbout(u, asked[c].filter)
    <3>1. u = [table |-> page, key |-> u.key] /\ asked[c].filter \in {u.key, All}
      BY <2>1, <2>3 DEF Matches
    <3>. QED  BY <2>1, <3>1 DEF IsAbout
  <2>. QED  BY <2>2, <2>3
<1>. QED  BY <1>1, <1>2

\* A click that makes a second graph ends the promise about the first; one that adds a line
\* has no socket.
LEMMA ClickedKeeps ==
  ASSUME GraphInv, NEW adding \in BOOLEAN, NEW sock \in {"none", "connecting"},
         adding => sock = "none", Clicked(adding, sock)
  PROVE  GraphInv'
<1>. DEFINE n == Len(asked)
<1>1. TypeOK /\ n \in Nat /\ Click = 1..n
  BY DEF GraphInv, TypeOK, Click
<1>2. PICK f \in Key \cup {All}, k \in LinesOf(page) :
        asked' = Append(asked, [adding |-> adding, filter |-> f, lines |-> k])
  BY DEF Clicked
<1>. DEFINE q == [adding |-> adding, filter |-> f, lines |-> k]
<1>3. q \in Question /\ q.adding = adding
  <2>1. k \in {1, 2}
    BY DEF LinesOf
  <2>. QED  BY <2>1 DEF Question
<1>. HIDE DEF q, n
<1>4. /\ asked' \in Seq(Question) /\ Len(asked') = n + 1 /\ asked'[n + 1] = q
      /\ \A d \in Click : asked'[d] = asked[d]
  <2>1. asked \in Seq(Question) /\ asked' = Append(asked, q) /\ Len(asked) = n
    BY <1>1, <1>2 DEF q, TypeOK, n
  <2>. QED  BY <1>1, <1>3, <2>1, AppendItems
<1>5. Click' = 1..(n + 1) /\ Click \subseteq Click' /\ n + 1 \notin Click /\ n + 1 \in Click'
      /\ \A d \in Click' : d \in Click \/ d = n + 1
  BY <1>1, <1>4 DEF Click
<1>6. /\ answer' = Append(answer, "waiting") /\ socket' = Append(socket, sock)
      /\ since' = Append(since, 0) /\ received' = Append(received, 0)
      /\ UNCHANGED <<page, updates, chart, order, left>>
  BY DEF Clicked
<1>7. answer' \in [Click' -> {"waiting", "drawn", "failed"}]
  BY <1>1, <1>5, <1>6, AppendPlace DEF TypeOK
<1>8. /\ socket' \in [Click' -> {"none", "connecting", "open", "closed"}]
      /\ socket'[n + 1] = sock /\ \A d \in Click : socket'[d] = socket[d]
  <2>. DEFINE S == {"none", "connecting", "open", "closed"}
  <2>1. socket \in [1..n -> S] /\ sock \in S /\ n \in Nat
    BY <1>1 DEF TypeOK
  <2>. HIDE DEF S
  <2>2. Append(socket, sock) \in [1..(n + 1) -> S]
    BY <2>1, AppendPlace
  <2>3. \A i \in 1..n : Append(socket, sock)[i] = socket[i]
    BY <2>1, AppendPlace
  <2>4. Append(socket, sock)[n + 1] = sock
    BY <2>1, AppendPlace
  <2>. USE DEF S
  <2>. QED  BY <1>1, <1>5, <1>6, <2>2, <2>3, <2>4
<1>9. 0 \in 0..MaxUpdate
  BY PageAssumption
<1>10. /\ since' \in [Click' -> 0..MaxUpdate]
       /\ since'[n + 1] = 0 /\ \A d \in Click : since'[d] = since[d]
  <2>. DEFINE S == 0..MaxUpdate
  <2>1. since \in [1..n -> S] /\ 0 \in S /\ n \in Nat
    BY <1>1, <1>9 DEF TypeOK
  <2>. HIDE DEF S
  <2>2. Append(since, 0) \in [1..(n + 1) -> S]
    BY <2>1, AppendPlace
  <2>3. \A i \in 1..n : Append(since, 0)[i] = since[i]
    BY <2>1, AppendPlace
  <2>4. Append(since, 0)[n + 1] = 0
    BY <2>1, AppendPlace
  <2>. USE DEF S
  <2>. QED  BY <1>1, <1>5, <1>6, <2>2, <2>3, <2>4
<1>11. /\ received' \in [Click' -> 0..MaxUpdate]
       /\ received'[n + 1] = 0 /\ \A d \in Click : received'[d] = received[d]
  <2>. DEFINE S == 0..MaxUpdate
  <2>1. received \in [1..n -> S] /\ 0 \in S /\ n \in Nat
    BY <1>1, <1>9 DEF TypeOK
  <2>. HIDE DEF S
  <2>2. Append(received, 0) \in [1..(n + 1) -> S]
    BY <2>1, AppendPlace
  <2>3. \A i \in 1..n : Append(received, 0)[i] = received[i]
    BY <2>1, AppendPlace
  <2>4. Append(received, 0)[n + 1] = 0
    BY <2>1, AppendPlace
  <2>. USE DEF S
  <2>. QED  BY <1>1, <1>5, <1>6, <2>2, <2>3, <2>4
<1>12. TypeOK'
  <2>1. Len(asked') <= MaxClick
    BY <1>1, <1>4, PageAssumption DEF Clicked, n
  <2>2. order \in Seq(Click')
    BY <1>1, <1>5 DEF TypeOK
  <2>3. Update' = Update
    BY <1>6 DEF Update
  <2>. QED  BY <1>1, <1>4, <1>6, <1>7, <1>8, <1>10, <1>11, <2>1, <2>2, <2>3 DEF TypeOK
<1>13. OneGraph'
  <2>1. \A i \in 1..Len(order) : order[i] \in Click /\ SubSeq(order, i, Len(order)) \in Seq(Click)
    BY <1>1, ClickSet
  <2>2. ASSUME NEW o \in Seq(Click)  PROVE GraphOf(o)' = GraphOf(o)
    BY <1>1, <1>2, GraphKept DEF TypeOK
  <2>3. \A i \in 1..Len(order) : IsNew(i)' <=> IsNew(i)
    BY <1>4, <1>6, <2>1 DEF IsNew
  <2>4. order \in Seq(Click)
    BY <1>1 DEF TypeOK
  <2>5. Shown(chart)' = Shown(chart)
    BY <1>6 DEF Shown
  <2>6. ASSUME NEW i \in 1..Len(order), StartsAt(i)  PROVE StartsAt(i)'
    <3>1. GraphOf(SubSeq(order, i, Len(order)))' = GraphOf(SubSeq(order, i, Len(order)))
      BY <1>6, <2>1, <2>2
    <3>2. \A j \in (i + 1)..Len(order) : j \in 1..Len(order)
      BY <2>4
    <3>. QED  BY <1>6, <2>3, <2>5, <2>6, <3>1, <3>2 DEF StartsAt
  <2>7. GraphOf(order)' = GraphOf(order)
    BY <1>6, <2>2, <2>4
  <2>8. OneGraph
    BY DEF GraphInv
  <2>9. CASE \E i \in 1..Len(order) : IsNew(i)
    <3>1. PICK i \in 1..Len(order) : StartsAt(i)
      BY <2>8, <2>9 DEF OneGraph
    <3>2. StartsAt(i)' /\ i \in 1..Len(order')
      BY <1>6, <2>6, <3>1
    <3>3. IsNew(i)'
      BY <3>2 DEF StartsAt
    <3>. QED  BY <3>2, <3>3 DEF OneGraph
  <2>10. CASE ~\E i \in 1..Len(order) : IsNew(i)
    <3>1. Shown(chart) = <<Line(0, 1)>> \o GraphOf(order)
      BY <2>8, <2>10 DEF OneGraph
    <3>2. ~\E i \in 1..Len(order') : IsNew(i)'
      BY <1>6, <2>3, <2>10
    <3>3. (Shown(chart) = <<Line(0, 1)>> \o GraphOf(order))'
      BY <2>5, <2>7, <3>1
    <3>. QED  BY <3>2, <3>3 DEF OneGraph
  <2>. QED  BY <2>9, <2>10
<1>14. Sockets'
  <2>1. ASSUME NEW d \in Click'
        PROVE  /\ asked'[d].adding => socket'[d] = "none"
               /\ socket'[d] \in {"none", "connecting"} => received'[d] = 0
               /\ since'[d] + received'[d] <= Len(updates)
    <3>1. CASE d \in Click
      BY <1>4, <1>8, <1>10, <1>11, <3>1, ZenonT(60) DEF GraphInv, Sockets
    <3>2. CASE d = n + 1
      <4>1. Len(updates) \in Nat
        BY <1>1 DEF TypeOK
      <4>. QED  BY <1>3, <1>4, <1>8, <1>10, <1>11, <3>2, <4>1
    <3>. QED  BY <1>5, <3>1, <3>2
  <2>2. (\A d \in Click' : received'[d] = 0) => chart[1].drawn = <<>>
    BY <1>5, <1>11 DEF GraphInv, Sockets
  <2>. QED  BY <1>6, <2>1, <2>2 DEF Sockets
<1>15. Feed'
  <2>. SUFFICES ASSUME NEW d \in Graphs', Graphs' = {d}, Streams(d)'
                PROVE  Follows(chart'[1].drawn, Wanted(d)', since'[d] + received'[d])
    BY DEF Feed
  <2>1. \A e \in Click : e \in Graphs' <=> e \in Graphs
    BY <1>4, <1>5 DEF Graphs
  <2>2. CASE d \in Click
    <3>1. d \in Graphs /\ Graphs = {d}
      BY <2>1, <2>2 DEF Graphs
    <3>2. Streams(d)
      BY <1>4, <1>6, <2>2 DEF Streams
    <3>3. Follows(chart[1].drawn, Wanted(d), since[d] + received[d])
      BY <3>1, <3>2 DEF GraphInv, Feed
    <3>4. Wanted(d)' = Wanted(d)
      BY <1>4, <1>6, <2>2 DEF Wanted, IsAbout
    <3>. QED  BY <1>6, <1>10, <1>11, <2>2, <3>3, <3>4
  <2>3. CASE d = n + 1
    <3>1. ASSUME NEW e \in Click  PROVE received[e] = 0
      <4>1. e \notin Graphs
        BY <1>5, <2>1, <2>3
      <4>2. asked[e].adding
        BY <4>1 DEF Graphs
      <4>. QED  BY <4>2 DEF GraphInv, Sockets
    <3>2. chart'[1].drawn = <<>>
      BY <1>6, <3>1 DEF GraphInv, Sockets
    <3>. QED  BY <3>2, NothingDrawn
  <2>. QED  BY <1>5, <2>2, <2>3 DEF Graphs
<1>. QED  BY <1>6, <1>12, <1>13, <1>14, <1>15 DEF GraphInv

\* The next update is drawn on the first line if it is wanted, and on no other account.
LEMMA OnMessageKeeps ==
  ASSUME GraphInv, NEW c \in Click, OnMessage(c)  PROVE GraphInv'
<1>. DEFINE last == since[c] + received[c]
            n == last + 1
<1>1. /\ TypeOK /\ since[c] \in Nat /\ received[c] \in Nat /\ last \in Nat /\ n \in Nat
      /\ Len(updates) \in Nat /\ Len(updates) <= MaxUpdate
  BY DEF GraphInv, TypeOK
<1>2. /\ socket[c] = "open" /\ n <= Len(updates)
      /\ received' = [received EXCEPT ![c] = @ + 1]
      /\ UNCHANGED <<page, updates, asked, answer, socket, since, order, left>>
      /\ IF Matches(c, updates[n])
           THEN \E found \in BOOLEAN : chart' = DrawUpdate(chart, c, n, found)
           ELSE chart' = chart
  BY DEF OnMessage
<1>3. n \in 1..MaxUpdate /\ n \in 1..Len(updates) /\ received[c] + 1 <= Len(updates)
      /\ since[c] + (received[c] + 1) = n
  BY <1>1, <1>2, PageAssumption
<1>4. /\ received' \in [Click -> 0..MaxUpdate] /\ received'[c] = received[c] + 1
      /\ \A d \in Click : d # c => received'[d] = received[d]
  <2>1. received[c] + 1 \in 0..MaxUpdate
    BY <1>1, <1>3, PageAssumption
  <2>. QED  BY <1>1, <1>2, <2>1 DEF TypeOK
<1>. HIDE DEF n, last
<1>5. chart \in Seq(Series) /\ chart # <<>>
  BY DEF GraphInv, TypeOK
<1>6. /\ chart' \in Seq(Series) /\ chart' # <<>> /\ Shown(chart') = Shown(chart)
  <2>1. CASE Matches(c, updates[n])
    <3>1. PICK found \in BOOLEAN : chart' = DrawUpdate(chart, c, n, found)
      BY <1>2, <2>1
    <3>. QED  BY <1>1, <1>3, <1>5, <3>1, DrawUpdateIs
  <2>2. CASE ~Matches(c, updates[n])
    BY <1>2, <1>5, <2>2
  <2>. QED  BY <2>1, <2>2
<1>7. TypeOK'
  <2>1. Click' = Click /\ Update' = Update
    BY <1>2 DEF Click, Update
  <2>. QED  BY <1>1, <1>2, <1>4, <1>6, <2>1 DEF TypeOK
<1>8. OneGraph'
  BY <1>2, <1>6, OneGraphKept DEF GraphInv
<1>9. Sockets'
  <2>1. ASSUME NEW d \in Click
        PROVE  /\ asked[d].adding => socket[d] = "none"
               /\ socket[d] \in {"none", "connecting"} => received'[d] = 0
               /\ since[d] + received'[d] <= Len(updates)
    <3>1. CASE d = c
      BY <1>2, <1>3, <1>4, <3>1 DEF GraphInv, Sockets
    <3>2. CASE d # c
      BY <1>4, <3>2 DEF GraphInv, Sockets
    <3>. QED  BY <3>1, <3>2
  <2>2. received'[c] # 0
    BY <1>1, <1>4
  <2>. QED  BY <1>2, <2>1, <2>2 DEF Sockets, Click
<1>10. Feed'
  <2>. SUFFICES ASSUME NEW d \in Graphs, Graphs = {d}, Streams(d)
                PROVE  Follows(chart'[1].drawn, Wanted(d), since[d] + received'[d])
    BY <1>2 DEF Feed, Graphs, Click, Streams, Wanted, IsAbout
  <2>1. d = c
    <3>1. asked[c].adding => socket[c] = "none"
      BY DEF GraphInv, Sockets
    <3>2. c \in Graphs
      BY <1>2, <3>1 DEF Graphs
    <3>. QED  BY <3>2
  <2>. DEFINE dr == chart[1].drawn
  <2>2. Follows(dr, Wanted(c), last)
    BY <2>1 DEF GraphInv, Feed, last
  <2>3. since[d] + received'[d] = last + 1
    BY <1>3, <1>4, <2>1 DEF n
  <2>4. dr \in Seq(Item)
    <3>1. chart[1] \in Series
      BY <1>5
    <3>. QED  BY <3>1, LineType
  <2>5. n \in Wanted(c) <=> Matches(c, updates[n])
    <3>1. n \in Wanted(c) <=> IsAbout(updates[n], asked[c].filter)
      BY <1>3 DEF Wanted
    <3>2. updates[n] \in Update
      BY <1>1, <1>3 DEF TypeOK
    <3>. QED  BY <3>1, <3>2, MatchesIs
  <2>6. CASE ~Matches(c, updates[n])
    <3>1. chart' = chart
      BY <1>2, <2>6
    <3>2. Follows(dr, Wanted(c), last + 1)
      BY <1>1, <2>2, <2>5, <2>6, FollowsSkips DEF n
    <3>. QED  BY <2>1, <2>3, <3>1, <3>2
  <2>7. CASE Matches(c, updates[n])
    <3>. DEFINE item(l) == [n |-> n, line |-> l]
                own == Append(dr, item(1))
    <3>1. PICK found \in BOOLEAN : chart' = DrawUpdate(chart, c, n, found)
      BY <1>2, <2>7
    <3>2. chart'[1].drawn = own \/ chart'[1].drawn = Append(own, item(2))
      BY <1>1, <1>3, <1>5, <2>1, <3>1, DrawUpdateIs
    <3>3. item(1) \in Item /\ item(2) \in Item
      BY <1>3 DEF Item
    <3>4. item(1).line = 1 /\ item(1).n = last + 1 /\ item(2).line # 1
      BY DEF n
    <3>5. last + 1 \in Wanted(c)
      BY <2>5, <2>7 DEF n
    <3>. HIDE DEF item
    <3>6. Follows(own, Wanted(c), last + 1)
      BY <1>1, <2>2, <2>4, <3>3, <3>4, <3>5, FollowsNext
    <3>7. own \in Seq(Item)
      BY <2>4, <3>3, AppendProperties
    <3>. HIDE DEF own
    <3>8. Follows(Append(own, item(2)), Wanted(c), last + 1)
      BY <3>3, <3>4, <3>6, <3>7, FollowsOther
    <3>. QED  BY <2>1, <2>3, <3>2, <3>6, <3>8
  <2>. QED  BY <2>6, <2>7
<1>. QED  BY <1>6, <1>7, <1>8, <1>9, <1>10 DEF GraphInv

\* The end of a sequence to which something is appended.
LEMMA SubSeqOfAppend ==
  ASSUME NEW S, NEW s \in Seq(S), NEW x \in S, NEW i \in 1..Len(s)
  PROVE  SubSeq(Append(s, x), i, Len(s) + 1) = Append(SubSeq(s, i, Len(s)), x)
<1>. DEFINE t == Append(s, x)
            p == SubSeq(t, i, Len(s) + 1)
            b == SubSeq(s, i, Len(s))
            q == Append(b, x)
            n == Len(s)
<1>1. /\ t \in Seq(S) /\ Len(t) = n + 1 /\ n \in Nat /\ t[n + 1] = x
      /\ i \in Nat /\ 1 <= i /\ i <= n
      /\ \A j \in 1..n : t[j] = s[j]
  OBVIOUS
<1>2. /\ b \in Seq(S) /\ Len(b) = n - i + 1 /\ \A j \in 1..(n - i + 1) : b[j] = s[i + j - 1]
  OBVIOUS
<1>. HIDE DEF t, n
<1>3. /\ p \in Seq(S) /\ Len(p) = n + 1 - i + 1 /\ \A j \in 1..(n + 1 - i + 1) : p[j] = t[i + j - 1]
  BY <1>1 DEF n
<1>. HIDE DEF p, b
<1>4. /\ q \in Seq(S) /\ Len(q) = Len(b) + 1 /\ q[Len(b) + 1] = x
      /\ \A j \in 1..Len(b) : q[j] = b[j]
  BY <1>2, AppendItems
<1>. HIDE DEF q
<1>5. Len(p) = Len(q)
  BY <1>1, <1>2, <1>3, <1>4
<1>6. ASSUME NEW j \in 1..Len(p)  PROVE p[j] = q[j]
  <2>1. CASE j \in 1..(n - i + 1)
    <3>1. i + j - 1 \in 1..n /\ j \in 1..(n + 1 - i + 1)
      BY <1>1, <2>1
    <3>. QED  BY <1>1, <1>2, <1>3, <1>4, <2>1, <3>1
  <2>2. CASE j = n - i + 2
    <3>1. i + j - 1 = n + 1 /\ j \in 1..(n + 1 - i + 1) /\ j = Len(b) + 1
      BY <1>1, <1>2, <2>2
    <3>. QED  BY <1>1, <1>3, <1>4, <3>1
  <2>3. j \in 1..(n - i + 1) \/ j = n - i + 2
    BY <1>1, <1>3
  <2>. QED  BY <2>1, <2>2, <2>3
<1>7. p = q
  BY <1>3, <1>4, <1>5, <1>6, SeqEqual
<1>. QED  BY <1>7 DEF p, q, t, b, n

\* One item of a sequence.
LEMMA SubSeqOfOne ==
  ASSUME NEW S, NEW s \in Seq(S), NEW i \in 1..Len(s)
  PROVE  SubSeq(s, i, i) = <<s[i]>>
<1>. DEFINE p == SubSeq(s, i, i)
            x == s[i]
<1>1. p \in Seq(S) /\ Len(p) = 1 /\ p[1] = x /\ x \in S
  OBVIOUS
<1>. HIDE DEF p, x
<1>2. <<x>> \in Seq(S) /\ Len(<<x>>) = 1 /\ <<x>>[1] = x
  BY <1>1
<1>3. \A j \in 1..1 : p[j] = <<x>>[j]
  BY <1>1, <1>2
<1>4. p = <<x>>
  BY <1>1, <1>2, <1>3, SeqEqual
<1>. QED  BY <1>4 DEF p, x

\* The answer to New graph starts a graph, the answer to Add continues it.
LEMMA AnswerKeeps ==
  ASSUME GraphInv, NEW c \in Click, Answer(c)  PROVE GraphInv'
<1>. DEFINE new == LinesFrom(c)
<1>0. PICK m \in Nat : m = Len(order)
  BY DEF GraphInv, TypeOK
<1>1. /\ TypeOK /\ m = Len(order) /\ m \in Nat /\ order \in Seq(Click)
      /\ chart \in Seq(Series) /\ chart # <<>>
      /\ asked \in Seq(Question) /\ Len(asked) <= MaxClick
  BY <1>0 DEF GraphInv, TypeOK
<1>2. /\ answer' = [answer EXCEPT ![c] = "drawn"]
      /\ order' = Append(order, c)
      /\ IF asked[c].adding THEN chart' \in AddedTo(chart, c) ELSE chart' = new
      /\ UNCHANGED <<page, updates, asked, socket, since, received, left>>
  BY DEF Answer, NewGraph
<1>3. /\ order' \in Seq(Click) /\ Len(order') = m + 1 /\ order'[m + 1] = c
      /\ \A i \in 1..m : order'[i] = order[i]
  BY <1>1, <1>2, AppendItems
<1>4. /\ new \in Seq(Series) /\ new # <<>> /\ Shown(new) = new /\ new[1].drawn = <<>>
  <2>1. /\ new \in Seq(Series) /\ Len(new) \in {1, 2} /\ \A i \in 1..Len(new) : new[i] = Line(c, i)
    BY <1>1, LinesFromType
  <2>2. Shown(new) = new
    BY <1>1, ShownLines
  <2>. HIDE DEF new
  <2>3. 1 \in 1..Len(new) /\ new # <<>>
    BY <2>1
  <2>4. new[1].drawn = <<>>
    <3>1. new[1] = Line(c, 1)
      BY <2>1, <2>3
    <3>. QED  BY <3>1 DEF Line
  <2>. QED  BY <2>1, <2>2, <2>3, <2>4
<1>5. asked[c].adding \in BOOLEAN
  <2>1. asked[c] \in Question
    BY <1>1 DEF Click
  <2>. QED  BY <2>1 DEF Question
<1>. HIDE DEF new
<1>6. /\ chart' \in Seq(Series) /\ chart' # <<>>
      /\ chart'[1].drawn = chart[1].drawn \/ chart'[1].drawn = <<>>
  <2>1. CASE asked[c].adding
    BY <1>1, <1>2, <2>1, AddedToIs
  <2>2. CASE ~asked[c].adding
    BY <1>2, <1>4, <2>2
  <2>. QED  BY <2>1, <2>2
<1>7. Click' = Click /\ Update' = Update
  BY <1>2 DEF Click, Update
<1>8. TypeOK'
  <2>1. answer' \in [Click -> {"waiting", "drawn", "failed"}]
    BY <1>1, <1>2 DEF TypeOK
  <2>. QED  BY <1>1, <1>2, <1>3, <1>6, <1>7, <2>1 DEF TypeOK
<1>9. \A o : GraphOf(o)' = FlattenSeq([i \in 1..Len(o') |-> LinesFrom(o'[i])])
  BY <1>2 DEF GraphOf, LinesFrom
<1>10. /\ \A i \in 1..m : IsNew(i)' <=> IsNew(i)
       /\ IsNew(m + 1)' <=> ~asked[c].adding
  <2>1. asked' = asked
    BY <1>2
  <2>2. asked'[order'[m + 1]].adding = asked[c].adding
    BY <1>3, <2>1
  <2>3. \A i \in 1..m : asked'[order'[i]].adding = asked[order[i]].adding
    BY <1>3, <2>1
  <2>. QED  BY <2>2, <2>3 DEF IsNew
<1>11. OneGraph'
  <2>1. CASE ~asked[c].adding
    <3>1. IsNew(m + 1)' /\ m + 1 \in 1..Len(order') /\ \A j \in (m + 1 + 1)..Len(order') : FALSE
      BY <1>1, <1>3, <1>10, <2>1
    <3>2. SubSeq(order', m + 1, Len(order')) = <<c>>
      BY <1>1, <1>3, SubSeqOfOne
    <3>3. GraphOf(<<c>>) = new
      <4>1. GraphOf(Append(<<>>, c)) = GraphOf(<<>>) \o LinesFrom(c)
        <5>1. <<>> \in Seq(Click)
          OBVIOUS
        <5>. QED  BY <1>1, <5>1, GraphGrows
      <4>2. Append(<<>>, c) = <<c>>
        OBVIOUS
      <4>3. <<>> \o new = new
        BY <1>4, ConcatEmptySeq
      <4>. QED  BY <4>1, <4>2, <4>3, EmptyGraph DEF new
    <3>4. Shown(chart)' = new
      <4>1. chart' = new
        BY <1>2, <2>1
      <4>2. Shown(chart') = new
        BY <1>4, <4>1
      <4>. QED  BY <4>2 DEF Shown
    <3>5. GraphOf(SubSeq(order, m + 1, Len(order)))' = new
      <4>1. GraphOf(SubSeq(order, m + 1, Len(order)))' = GraphOf(SubSeq(order', m + 1, Len(order')))
        BY <1>2 DEF GraphOf, LinesFrom
      <4>. QED  BY <3>2, <3>3, <4>1
    <3>6. StartsAt(m + 1)'
      BY <1>3, <3>1, <3>4, <3>5 DEF StartsAt
    <3>. QED  BY <3>1, <3>6 DEF OneGraph
  <2>2. CASE asked[c].adding
    <3>1. Shown(chart)' = Shown(chart) \o new
      <4>1. Shown(chart') = Shown(chart) \o new
        BY <1>1, <1>2, <2>2, AddedToIs DEF new
      <4>. QED  BY <4>1 DEF Shown
    <3>2. OneGraph
      BY DEF GraphInv
    <3>3. CASE \E i \in 1..m : IsNew(i)
      <4>1. PICK i \in 1..m : StartsAt(i)
        BY <1>1, <3>2, <3>3 DEF OneGraph
      <4>. DEFINE o == SubSeq(order, i, m)
      <4>2. o \in Seq(Click)
        BY <1>1, ClickSet
      <4>3. SubSeq(order', i, Len(order')) = Append(o, c)
        BY <1>1, <1>2, <1>3, <4>1, SubSeqOfAppend
      <4>. HIDE DEF o
      <4>4. GraphOf(Append(o, c)) = GraphOf(o) \o new
        BY <1>1, <4>2, GraphGrows DEF new
      <4>5. Shown(chart) = GraphOf(o) /\ IsNew(i) /\ \A j \in (i + 1)..m : ~IsNew(j)
        BY <1>1, <4>1 DEF StartsAt, o
      <4>6. GraphOf(SubSeq(order, i, Len(order)))' = GraphOf(SubSeq(order', i, Len(order')))
        BY <1>2 DEF GraphOf, LinesFrom
      <4>7. (Shown(chart) = GraphOf(SubSeq(order, i, Len(order))))'
        BY <3>1, <4>3, <4>4, <4>5, <4>6
      <4>8. IsNew(i)'
        BY <1>10, <4>1, <4>5
      <4>9. \A j \in (i + 1)..(m + 1) : ~IsNew(j)'
        <5>1. \A j \in (i + 1)..(m + 1) : j = m + 1 \/ (j \in 1..m /\ j \in (i + 1)..m)
          BY <1>1, <4>1
        <5>. QED  BY <1>10, <2>2, <4>5, <5>1
      <4>10. StartsAt(i)' /\ i \in 1..Len(order')
        BY <1>1, <1>3, <4>1, <4>7, <4>8, <4>9 DEF StartsAt
      <4>. QED  BY <4>8, <4>10 DEF OneGraph
    <3>4. CASE ~\E i \in 1..m : IsNew(i)
      <4>1. Shown(chart) = <<Line(0, 1)>> \o GraphOf(order)
        BY <1>1, <3>2, <3>4 DEF OneGraph
      <4>2. GraphOf(order') = GraphOf(order) \o new /\ GraphOf(order) \in Seq(Series)
        BY <1>1, <1>2, GraphGrows DEF new
      <4>3. GraphOf(order)' = GraphOf(order')
        BY <1>2 DEF GraphOf, LinesFrom
      <4>4. <<Line(0, 1)>> \in Seq(Series)
        BY PageAssumption DEF Line, Series
      <4>5. (<<Line(0, 1)>> \o GraphOf(order)) \o new = <<Line(0, 1)>> \o (GraphOf(order) \o new)
        BY <1>4, <4>2, <4>4, ConcatAssociative
      <4>6. (Shown(chart) = <<Line(0, 1)>> \o GraphOf(order))'
        <5>1. Line(0, 1)' = Line(0, 1)
          BY DEF Line
        <5>. QED  BY <3>1, <4>1, <4>2, <4>3, <4>5, <5>1
      <4>7. ~\E i \in 1..Len(order') : IsNew(i)'
        <5>1. \A i \in 1..Len(order') : i \in 1..m \/ i = m + 1
          BY <1>1, <1>3
        <5>. QED  BY <1>10, <2>2, <3>4, <5>1
      <4>. QED  BY <4>6, <4>7 DEF OneGraph
    <3>. QED  BY <3>3, <3>4
  <2>. QED  BY <2>1, <2>2
<1>12. Sockets'
  BY <1>2, <1>6, <1>7 DEF GraphInv, Sockets
<1>13. Feed'
  <2>. SUFFICES ASSUME NEW d \in Graphs, Graphs = {d}, Streams(d)
                PROVE  Follows(chart'[1].drawn, Wanted(d), since[d] + received[d])
    BY <1>2 DEF Feed, Graphs, Click, Streams, Wanted, IsAbout
  <2>1. Follows(chart[1].drawn, Wanted(d), since[d] + received[d])
    BY DEF GraphInv, Feed
  <2>2. Follows(<<>>, Wanted(d), since[d] + received[d])
    BY NothingDrawn
  <2>. QED  BY <1>6, <2>1, <2>2
<1>. QED  BY <1>6, <1>8, <1>11, <1>12, <1>13 DEF GraphInv

\* The sample data the page starts with.
LEMMA InitKeeps == Init => GraphInv
<1>. SUFFICES ASSUME Init  PROVE GraphInv
  OBVIOUS
<1>1. Len(asked) = 0 /\ Click = {} /\ Len(updates) = 0 /\ Len(order) = 0 /\ Graphs = {}
  BY DEF Init, Click, Graphs
<1>2. Line(0, 1) \in Series /\ Line(0, 1).drawn = <<>> /\ chart = <<Line(0, 1)>>
  BY PageAssumption DEF Init, Line, Series
<1>3. chart \in Seq(Series) /\ Len(chart) = 1 /\ chart[1] = Line(0, 1) /\ chart # <<>>
  BY <1>2
<1>4. TypeOK
  <2>1. \A S : <<>> \in [Click -> S]
    <3>1. \A S : <<>> \in [1..0 -> S]
      OBVIOUS
    <3>2. Click = 1..0
      BY <1>1
    <3>. QED  BY <3>1, <3>2
  <2>2. \A S : <<>> \in Seq(S)
    OBVIOUS
  <2>3. Len(updates) <= MaxUpdate /\ Len(asked) <= MaxClick
    BY <1>1, PageAssumption
  <2>. QED  BY <1>3, <2>1, <2>2, <2>3 DEF Init, TypeOK
<1>5. OneGraph
  <2>1. Shown(chart) = chart
    <3>1. Line(Line(0, 1).from, Line(0, 1).line) = Line(0, 1)
      BY DEF Line
    <3>2. Shown(chart) \in Seq(Series) /\ Len(Shown(chart)) = 1 /\ Shown(chart)[1] = chart[1]
      BY <1>3, <3>1, ShownType
    <3>3. \A i \in 1..1 : Shown(chart)[i] = chart[i]
      BY <3>2
    <3>. QED  BY <1>3, <3>2, <3>3, SeqEqual
  <2>2. <<Line(0, 1)>> \o <<>> = <<Line(0, 1)>>
    BY <1>2, <1>3, ConcatEmptySeq
  <2>3. GraphOf(order) = <<>>
    BY EmptyGraph DEF Init
  <2>. QED  BY <1>1, <1>2, <2>1, <2>2, <2>3 DEF OneGraph
<1>. QED  BY <1>1, <1>2, <1>3, <1>4, <1>5 DEF GraphInv, Sockets, Feed

\* Every step keeps the invariant.
LEMMA NextKeeps == GraphInv /\ [Next]_vars => GraphInv'
<1>. SUFFICES ASSUME GraphInv, [Next]_vars  PROVE GraphInv'
  OBVIOUS
<1>1. CASE Broadcast
  BY <1>1, BroadcastKeeps
<1>2. CASE submit_query
  <2>1. Clicked(FALSE, IF page \in Streaming THEN "connecting" ELSE "none")
    BY <1>2 DEF submit_query
  <2>2. CASE page \in Streaming
    BY <2>1, <2>2, ClickedKeeps
  <2>3. CASE page \notin Streaming
    BY <2>1, <2>3, ClickedKeeps
  <2>. QED  BY <2>2, <2>3
<1>3. CASE submit_query_add
  BY <1>3, ClickedKeeps DEF submit_query_add
<1>4. ASSUME NEW c \in Click, SocketOpens(c) \/ SocketDrops(c)  PROVE GraphInv'
  BY <1>4, SocketOpensKeeps, SocketDropsKeeps
<1>5. ASSUME NEW c \in Click, Answer(c) \/ AnswerFails(c)  PROVE GraphInv'
  BY <1>5, AnswerKeeps, AnswerFailsKeeps
<1>6. ASSUME NEW c \in Click, OnMessage(c)  PROVE GraphInv'
  BY <1>6, OnMessageKeeps
<1>7. CASE Unload
  BY <1>7, UnloadKeeps
<1>8. CASE UNCHANGED vars
  <2>1. TypeOK
    BY DEF GraphInv
  <2>. QED  BY <1>8, <2>1, QuietKeeps DEF vars, TypeOK
<1>. QED  BY <1>1, <1>2, <1>3, <1>4, <1>5, <1>6, <1>7, <1>8 DEF Next

\* The invariant holds in every reachable state.
LEMMA Invariant == Spec => []GraphInv
BY InitKeeps, NextKeeps, PTL DEF Spec

-----------------------------------------------------------------------------
(* The theorems                                                            *)

\* Every variable keeps its type; and whatever the order of the clicks and of their answers,
\* the chart shows one graph: the lines of the new graph drawn last, and of those added since.
THEOREM GraphCorrect == Spec => []ChartIsOneGraph
<1>1. GraphInv => ChartIsOneGraph
  BY DEF GraphInv, OneGraph, StartsAt, Shown, Line, ChartIsOneGraph
<1>. QED  BY <1>1, Invariant, PTL

\* Someone who asked for one graph sees on its first line every update that passes the
\* filter, once and in order, from the first to the last that was drawn.
THEOREM StreamCorrect == Spec => []StreamIsFaithful
<1>1. ASSUME GraphInv  PROVE StreamIsFaithful
  <2>. SUFFICES ASSUME NEW c \in Graphs, Graphs = {c}, Streams(c)
                PROVE  \A i, j \in Own(chart[1].drawn) : i <= j =>
                         /\ i # j => chart[1].drawn[i].n < chart[1].drawn[j].n
                         /\ \A n \in chart[1].drawn[i].n..chart[1].drawn[j].n :
                              IsAbout(updates[n], asked[c].filter)
                                <=> Shows(chart[1].drawn, n)
    BY DEF StreamIsFaithful, Own, Shows
  <2>. DEFINE d == chart[1].drawn
              last == since[c] + received[c]
  <2>1. Follows(d, Wanted(c), last) /\ last \in Nat /\ last <= Len(updates) /\ Len(updates) \in Nat
    <3>1. c \in Click /\ TypeOK
      BY <1>1 DEF GraphInv, Graphs
    <3>2. since[c] \in Nat /\ received[c] \in Nat /\ Len(updates) \in Nat
      BY <3>1 DEF TypeOK
    <3>3. since[c] + received[c] <= Len(updates)
      BY <1>1, <3>1 DEF GraphInv, Sockets
    <3>4. Follows(d, Wanted(c), last)
      BY <1>1 DEF GraphInv, Feed
    <3>. QED  BY <3>2, <3>3, <3>4
  <2>2. \A i \in Own(d) : i \in Nat
    BY DEF Own
  <2>. HIDE DEF d, last
  <2>3. ASSUME NEW i \in Own(d), NEW j \in Own(d), i <= j
        PROVE  /\ i # j => d[i].n < d[j].n
               /\ \A n \in d[i].n..d[j].n : IsAbout(updates[n], asked[c].filter) <=> Shows(d, n)
    <3>1. i # j => d[i].n < d[j].n
      BY <2>1, <2>2, <2>3 DEF Follows
    <3>2. d[i].n \in 1..last /\ d[j].n \in 1..last
      BY <2>1 DEF Follows
    <3>3. ASSUME NEW n \in d[i].n..d[j].n
          PROVE  IsAbout(updates[n], asked[c].filter) <=> Shows(d, n)
      <4>1. n \in d[i].n..last /\ n \in 1..Len(updates)
        BY <2>1, <3>2
      <4>2. n \in Wanted(c) <=> Shows(d, n)
        BY <2>1, <4>1 DEF Follows
      <4>3. n \in Wanted(c) <=> IsAbout(updates[n], asked[c].filter)
        BY <4>1 DEF Wanted
      <4>. QED  BY <4>2, <4>3
    <3>. QED  BY <3>1, <3>3
  <2>. QED  BY <2>3 DEF d
<1>. QED  BY <1>1, Invariant, PTL

=============================================================================
