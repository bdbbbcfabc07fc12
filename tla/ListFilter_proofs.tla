------------------------- MODULE ListFilter_proofs -------------------------
(***************************************************************************)
(* What Keep does to a sequence, for IOLoop_proofs and                     *)
(* WebSocketStream_proofs.  The inductions are over sets, by the least     *)
(* counterexample.                                                         *)
(***************************************************************************)
EXTENDS ListFilter, NaturalsInduction, WellFoundedInduction, SequenceTheorems, TLAPS

\* Induction: a set with 0 and every successor of its elements holds all naturals.
LEMMA NatInSet ==
  ASSUME NEW T, 0 \in T, \A n \in Nat : n \in T => n + 1 \in T
  PROVE  Nat \subseteq T
<1>. DEFINE R == OpToRel(<, Nat)
            U == Nat \ T
<1>1. ASSUME U # {}  PROVE FALSE
  <2>1. IsWellFoundedOn(R, Nat)
    BY NatLessThanWellFounded
  <2>2. \A x, y \in Nat : x < y => <<x, y>> \in R
    BY DEF OpToRel
  <2>. HIDE DEF R
  <2>3. U \subseteq Nat
    OBVIOUS
  <2>4. PICK x \in U : \A y \in U : ~(<<y, x>> \in R)
    <3>. HIDE DEF U
    <3>. QED  BY <1>1, <2>1, <2>3, WFMin
  <2>5. x # 0 /\ x - 1 \in Nat /\ x - 1 < x
    BY <2>4
  <2>6. x - 1 \in U
    BY <2>4, <2>5
  <2>. QED  BY <2>2, <2>4, <2>5, <2>6
<1>. QED  BY <1>1

\* The same for sequences, built by Append.
LEMMA SeqInSet ==
  ASSUME NEW T, NEW U, <<>> \in U,
         \A q \in Seq(T), x \in T : q \in U => Append(q, x) \in U
  PROVE  Seq(T) \subseteq U
<1>. DEFINE V == {n \in Nat : \A q \in Seq(T) : Len(q) = n => q \in U}
<1>1. 0 \in V
  <2>1. \A q \in Seq(T) : Len(q) = 0 => q = <<>>
    OBVIOUS
  <2>. QED  BY <2>1
<1>2. ASSUME NEW n \in Nat, n \in V  PROVE n + 1 \in V
  <2>1. ASSUME NEW q \in Seq(T), Len(q) = n + 1  PROVE q \in U
    <3>1. q # <<>>
      BY <2>1
    <3>2. PICK r \in Seq(T), x \in T : q = Append(r, x)
      BY <3>1, SequenceEmptyOrAppend
    <3>3. Len(r) = n
      BY <2>1, <3>2
    <3>. QED  BY <1>2, <3>2, <3>3
  <2>. QED  BY <2>1
<1>3. Nat \subseteq V
  <2>. HIDE DEF V
  <2>. QED  BY <1>1, <1>2, NatInSet
<1>. QED  BY <1>3

\* A sequence that is appended to is one.
LEMMA AppendIn ==
  ASSUME NEW T, NEW q \in Seq(T), NEW x \in T
  PROVE  \E r \in Seq(T) : r = Append(q, x)
<1>1. Append(q, x) \in Seq(T)
  OBVIOUS
<1>. QED  BY <1>1

\* f[n] is what Keep makes of the first n elements.
Kept(f, q, S) ==
  f = [n \in 0..Len(q) |->
         IF n = 0 THEN <<>>
         ELSE IF q[n] \in S THEN Append(f[n - 1], q[n]) ELSE f[n - 1]]

\* The definition of Keep, with its function named.
LEMMA KeepIs ==
  ASSUME NEW q, NEW S  PROVE Keep(q, S) = (CHOOSE f : Kept(f, q, S))[Len(q)]
BY DEF Keep, Kept

\* One more element, one more value of the function.
LEMMA KeptGrows ==
  ASSUME NEW T, NEW q \in Seq(T), NEW x \in T, NEW S, NEW f, Kept(f, q, S)
  PROVE  \E g : /\ Kept(g, Append(q, x), S)
                /\ \A n \in 0..Len(q) : g[n] = f[n]
                /\ g[Len(q) + 1] = IF x \in S THEN Append(f[Len(q)], x) ELSE f[Len(q)]
<1>1. PICK m \in Nat : m = Len(q)
  OBVIOUS
<1>2. PICK r \in Seq(T) : r = Append(q, x)
  BY AppendIn
<1>3. Len(r) = m + 1 /\ r[m + 1] = x /\ \A n \in 1..m : r[n] = q[n]
  BY <1>1, <1>2
<1>4. PICK g : g = [n \in 0..(m + 1) |->
                      IF n <= m THEN f[n] ELSE IF x \in S THEN Append(f[m], x) ELSE f[m]]
  OBVIOUS
<1>5. \A n \in 0..m : g[n] = f[n]
  BY <1>4
<1>6. g[m + 1] = IF x \in S THEN Append(f[m], x) ELSE f[m]
  BY <1>4
<1>7. \A n \in 0..m : f[n] = IF n = 0 THEN <<>>
                             ELSE IF q[n] \in S THEN Append(f[n - 1], q[n]) ELSE f[n - 1]
  BY <1>1 DEF Kept
<1>8. ASSUME NEW n \in 0..(m + 1)
      PROVE  g[n] = IF n = 0 THEN <<>>
                    ELSE IF r[n] \in S THEN Append(g[n - 1], r[n]) ELSE g[n - 1]
  <2>1. CASE n = 0
    BY <1>5, <1>7, <2>1
  <2>2. CASE n \in 1..m
    <3>1. n \in 0..m /\ n - 1 \in 0..m /\ n # 0
      BY <2>2
    <3>. QED  BY <1>3, <1>5, <1>7, <2>2, <3>1
  <2>3. CASE n = m + 1
    <3>1. m \in 0..m /\ n # 0 /\ n - 1 = m
      BY <2>3
    <3>. QED  BY <1>3, <1>5, <1>6, <2>3, <3>1
  <2>. QED  BY <2>1, <2>2, <2>3
<1>9. Kept(g, r, S)
  BY <1>3, <1>4, <1>8 DEF Kept
<1>. QED  BY <1>1, <1>2, <1>5, <1>6, <1>9

\* The function exists, so that CHOOSE finds it.
LEMMA KeptExists ==
  ASSUME NEW T, NEW q \in Seq(T), NEW S  PROVE \E f : Kept(f, q, S)
<1>. DEFINE U == {r \in Seq(T) : \E f : Kept(f, r, S)}
<1>1. <<>> \in U
  <2>1. Kept([n \in 0..0 |-> <<>>], <<>>, S)
    BY DEF Kept
  <2>. QED  BY <2>1
<1>2. ASSUME NEW r \in Seq(T), NEW x \in T, r \in U  PROVE Append(r, x) \in U
  <2>1. PICK f : Kept(f, r, S)
    BY <1>2
  <2>2. PICK g : Kept(g, Append(r, x), S)
    BY <2>1, KeptGrows
  <2>. QED  BY <2>2
<1>3. Seq(T) \subseteq U
  <2>. HIDE DEF U
  <2>. QED  BY <1>1, <1>2, SeqInSet
<1>. QED  BY <1>3

\* There is but one.
LEMMA KeptOnce ==
  ASSUME NEW T, NEW q \in Seq(T), NEW S, NEW f, Kept(f, q, S), NEW g, Kept(g, q, S)
  PROVE  \A n \in 0..Len(q) : f[n] = g[n]
<1>1. PICK m \in Nat : m = Len(q)
  OBVIOUS
<1>. DEFINE V == {n \in Nat : n \in 0..m => f[n] = g[n]}
<1>2. /\ \A n \in 0..m : f[n] = IF n = 0 THEN <<>>
                               ELSE IF q[n] \in S THEN Append(f[n - 1], q[n]) ELSE f[n - 1]
      /\ \A n \in 0..m : g[n] = IF n = 0 THEN <<>>
                               ELSE IF q[n] \in S THEN Append(g[n - 1], q[n]) ELSE g[n - 1]
  BY <1>1 DEF Kept
<1>3. 0 \in V
  BY <1>2
<1>4. ASSUME NEW n \in Nat, n \in V  PROVE n + 1 \in V
  <2>1. ASSUME n + 1 \in 0..m  PROVE f[n + 1] = g[n + 1]
    <3>1. n \in 0..m /\ n + 1 # 0 /\ (n + 1) - 1 = n
      BY <2>1
    <3>2. f[n] = g[n]
      BY <1>4, <3>1
    <3>. QED  BY <1>2, <2>1, <3>1, <3>2
  <2>. QED  BY <2>1
<1>5. Nat \subseteq V
  <2>. HIDE DEF V
  <2>. QED  BY <1>3, <1>4, NatInSet
<1>. QED  BY <1>1, <1>5

\* Nothing is kept of nothing.
LEMMA KeepEmpty == \A S : Keep(<<>>, S) = <<>>
<1>1. ASSUME NEW S  PROVE Keep(<<>>, S) = <<>>
  <2>1. <<>> \in Seq({})
    OBVIOUS
  <2>2. PICK f : Kept(f, <<>>, S)
    BY <2>1, KeptExists
  <2>3. Kept(CHOOSE g : Kept(g, <<>>, S), <<>>, S)
    BY <2>2
  <2>. DEFINE h == CHOOSE g : Kept(g, <<>>, S)
  <2>4. h[0] = <<>>
    <3>. HIDE DEF h
    <3>1. Kept(h, <<>>, S)
      BY <2>3 DEF h
    <3>. QED  BY <3>1 DEF Kept
  <2>. QED  BY <2>4, KeepIs
<1>. QED  BY <1>1

\* Of an appended element it is what the set says, and the rest stays.
LEMMA KeepAppend ==
  ASSUME NEW T, NEW q \in Seq(T), NEW x \in T, NEW S
  PROVE  Keep(Append(q, x), S) = IF x \in S THEN Append(Keep(q, S), x) ELSE Keep(q, S)
<1>1. PICK r \in Seq(T) : r = Append(q, x)
  BY AppendIn
<1>2. PICK f : f = CHOOSE h : Kept(h, q, S)
  OBVIOUS
<1>3. PICK g : g = CHOOSE h : Kept(h, r, S)
  OBVIOUS
<1>4. Kept(f, q, S)
  <2>1. \E h : Kept(h, q, S)
    BY KeptExists
  <2>. QED  BY <1>2, <2>1
<1>5. Kept(g, r, S)
  <2>1. \E h : Kept(h, r, S)
    BY KeptExists
  <2>. QED  BY <1>3, <2>1
<1>6. PICK h : /\ Kept(h, r, S)
               /\ h[Len(q) + 1] = IF x \in S THEN Append(f[Len(q)], x) ELSE f[Len(q)]
  BY <1>1, <1>4, KeptGrows
<1>7. Len(r) = Len(q) + 1 /\ Len(q) + 1 \in 0..Len(r)
  BY <1>1
<1>8. g[Len(q) + 1] = h[Len(q) + 1]
  BY <1>5, <1>6, <1>7, KeptOnce
<1>9. Keep(q, S) = f[Len(q)] /\ Keep(r, S) = g[Len(q) + 1]
  BY <1>2, <1>3, <1>7, KeepIs
<1>. QED  BY <1>1, <1>6, <1>8, <1>9

\* What is kept are elements, and in the set.
LEMMA KeepType ==
  ASSUME NEW T, NEW q \in Seq(T), NEW S  PROVE Keep(q, S) \in Seq(T \cap S)
<1>0. PICK W : W = T \cap S
  OBVIOUS
<1>. DEFINE U == {r \in Seq(T) : Keep(r, S) \in Seq(W)}
<1>1. <<>> \in U
  <2>1. <<>> \in Seq(T) /\ <<>> \in Seq(W)
    OBVIOUS
  <2>. QED  BY <2>1, KeepEmpty
<1>2. ASSUME NEW r \in Seq(T), NEW x \in T, r \in U  PROVE Append(r, x) \in U
  <2>1. Keep(Append(r, x), S) = IF x \in S THEN Append(Keep(r, S), x) ELSE Keep(r, S)
    BY KeepAppend
  <2>2. Keep(r, S) \in Seq(W) /\ Append(r, x) \in Seq(T)
    BY <1>2
  <2>3. CASE x \in S
    <3>1. x \in W
      BY <1>0, <2>3
    <3>2. Append(Keep(r, S), x) \in Seq(W)
      BY <2>2, <3>1
    <3>. QED  BY <2>1, <2>2, <2>3, <3>2
  <2>4. CASE x \notin S
    BY <2>1, <2>2, <2>4
  <2>. QED  BY <2>3, <2>4
<1>3. Seq(T) \subseteq U
  <2>. HIDE DEF U
  <2>. QED  BY <1>1, <1>2, SeqInSet
<1>. QED  BY <1>0, <1>3

\* What is kept is a sequence of the same.
LEMMA KeepIn ==
  ASSUME NEW T, NEW q \in Seq(T), NEW S  PROVE \E k \in Seq(T) : k = Keep(q, S)
<1>1. Keep(q, S) \in Seq(T \cap S)
  BY KeepType
<1>2. Keep(q, S) \in Seq(T)
  BY <1>1, SeqMonotonic
<1>. QED  BY <1>2

\* What is kept stays in order: m tells where each element was.
LEMMA KeepOrder ==
  ASSUME NEW T, NEW q \in Seq(T), NEW S
  PROVE  \E m \in [1..Len(Keep(q, S)) -> 1..Len(q)] :
           /\ \A i, j \in 1..Len(Keep(q, S)) : i < j => m[i] < m[j]
           /\ \A i \in 1..Len(Keep(q, S)) : Keep(q, S)[i] = q[m[i]]
<1>. DEFINE Where(r, m) ==
              /\ \A i, j \in 1..Len(Keep(r, S)) : i < j => m[i] < m[j]
              /\ \A i \in 1..Len(Keep(r, S)) : Keep(r, S)[i] = r[m[i]]
            U == {r \in Seq(T) : \E m \in [1..Len(Keep(r, S)) -> 1..Len(r)] : Where(r, m)}
<1>1. <<>> \in U
  <2>1. Keep(<<>>, S) = <<>> /\ Len(<<>>) = 0 /\ <<>> \in Seq(T)
    BY KeepEmpty
  <2>2. PICK m : m = [i \in 1..0 |-> 0]
    OBVIOUS
  <2>3. m \in [1..0 -> 1..0]
    BY <2>2
  <2>4. Where(<<>>, m)
    BY <2>1
  <2>5. m \in [1..Len(Keep(<<>>, S)) -> 1..Len(<<>>)]
    BY <2>1, <2>3
  <2>. HIDE DEF Where
  <2>. QED  BY <2>1, <2>4, <2>5
<1>2. ASSUME NEW r \in Seq(T), NEW x \in T, r \in U  PROVE Append(r, x) \in U
  <2>1. PICK k \in Seq(T) : k = Keep(r, S)
    BY KeepIn
  <2>2. PICK m \in [1..Len(k) -> 1..Len(r)] :
          /\ \A i, j \in 1..Len(k) : i < j => m[i] < m[j]
          /\ \A i \in 1..Len(k) : k[i] = r[m[i]]
    BY <1>2, <2>1
  <2>3. PICK l \in Nat, n \in Nat : l = Len(k) /\ n = Len(r)
    OBVIOUS
  <2>4. PICK t \in Seq(T) : t = Append(r, x)
    BY AppendIn
  <2>5. Len(t) = n + 1 /\ t[n + 1] = x /\ \A i \in 1..n : t[i] = r[i]
    BY <2>3, <2>4
  <2>6. CASE x \in S
    <3>1. PICK u \in Seq(T) : u = Append(k, x)
      BY AppendIn
    <3>2. Keep(t, S) = u /\ Len(u) = l + 1
      BY <2>1, <2>3, <2>4, <2>6, <3>1, KeepAppend
    <3>3. PICK w : w = [i \in 1..(l + 1) |-> IF i <= l THEN m[i] ELSE n + 1]
      OBVIOUS
    <3>4. w \in [1..(l + 1) -> 1..(n + 1)]
      BY <2>2, <2>3, <3>3
    <3>5. ASSUME NEW i \in 1..(l + 1), NEW j \in 1..(l + 1), i < j  PROVE w[i] < w[j]
      <4>1. i \in 1..l /\ w[i] = m[i] /\ m[i] \in 1..n
        <5>1. i \in 1..l
          BY <3>5
        <5>2. w[i] = m[i]
          BY <3>3, <5>1
        <5>3. m[i] \in 1..n
          BY <2>3, <5>1
        <5>. QED  BY <5>1, <5>2, <5>3
      <4>2. CASE j \in 1..l
        BY <2>2, <2>3, <3>3, <3>5, <4>1, <4>2
      <4>3. CASE j = l + 1
        BY <3>3, <4>1, <4>3
      <4>. QED  BY <4>2, <4>3
    <3>6. ASSUME NEW i \in 1..(l + 1)  PROVE u[i] = t[w[i]]
      <4>1. CASE i = l + 1
        BY <2>3, <2>5, <3>1, <3>3, <4>1
      <4>2. CASE i \in 1..l
        <5>0. u[i] = k[i]
          BY <2>3, <3>1, <4>2
        <5>1. u[i] = k[i] /\ k[i] = r[m[i]] /\ w[i] = m[i] /\ m[i] \in 1..n
          BY <2>2, <2>3, <3>3, <4>2, <5>0
        <5>. QED  BY <2>5, <5>1
      <4>. QED  BY <4>1, <4>2
    <3>7. Where(t, w)
      BY <3>2, <3>5, <3>6
    <3>. HIDE DEF Where
    <3>. QED  BY <2>4, <2>5, <3>2, <3>4, <3>7
  <2>7. CASE x \notin S
    <3>1. Keep(t, S) = k
      BY <2>1, <2>4, <2>7, KeepAppend
    <3>2. m \in [1..Len(k) -> 1..(n + 1)]
      BY <2>3
    <3>3. \A i \in 1..Len(k) : k[i] = t[m[i]]
      BY <2>2, <2>3, <2>5
    <3>4. Where(t, m)
      BY <2>2, <3>1, <3>3
    <3>. HIDE DEF Where
    <3>. QED  BY <2>4, <2>5, <3>1, <3>2, <3>4
  <2>. HIDE DEF U
  <2>. QED  BY <2>4, <2>6, <2>7
<1>3. Seq(T) \subseteq U
  <2>. HIDE DEF U
  <2>. QED  BY <1>1, <1>2, SeqInSet
<1>. QED  BY <1>3

\* A head that is kept is the head of what is kept; one that is not, is gone.
LEMMA KeepTail ==
  ASSUME NEW T, NEW q \in Seq(T), q # <<>>, NEW S
  PROVE  /\ Head(q) \in S => /\ Keep(q, S) # <<>> /\ Head(Keep(q, S)) = Head(q)
                             /\ Keep(Tail(q), S) = Tail(Keep(q, S))
         /\ Head(q) \notin S => Keep(Tail(q), S) = Keep(q, S)
<1>. DEFINE Says(r) ==
              /\ Head(r) \in S => /\ Keep(r, S) # <<>> /\ Head(Keep(r, S)) = Head(r)
                                  /\ Keep(Tail(r), S) = Tail(Keep(r, S))
              /\ Head(r) \notin S => Keep(Tail(r), S) = Keep(r, S)
            U == {r \in Seq(T) : r # <<>> => Says(r)}
<1>1. <<>> \in U
  OBVIOUS
<1>2. ASSUME NEW r \in Seq(T), NEW x \in T, r \in U  PROVE Append(r, x) \in U
  <2>1. PICK k \in Seq(T) : k = Keep(r, S)
    BY KeepIn
  <2>2. PICK t \in Seq(T) : t = Append(r, x)
    BY AppendIn
  <2>3. Keep(t, S) = IF x \in S THEN Append(k, x) ELSE k
    BY <2>1, <2>2, KeepAppend
  <2>4. CASE r = <<>>
    <3>1. k = <<>> /\ Head(t) = x /\ Tail(t) = <<>> /\ Keep(Tail(t), S) = <<>>
      BY <2>1, <2>2, <2>4, KeepEmpty
    <3>2. Says(t)
      BY <2>3, <3>1
    <3>. HIDE DEF Says
    <3>. QED  BY <2>2, <3>2
  <2>5. CASE r # <<>>
    <3>1. Says(r)
      BY <1>2, <2>5
    <3>0. Tail(r) \in Seq(T)
      BY <2>5
    <3>2. PICK v \in Seq(T) : v = Tail(r)
      BY <3>0
    <3>3. Head(t) = Head(r) /\ Tail(t) = Append(v, x)
      BY <2>2, <2>5, <3>2
    <3>4. Keep(Tail(t), S) = IF x \in S THEN Append(Keep(v, S), x) ELSE Keep(v, S)
      <4>1. Keep(Append(v, x), S) = IF x \in S THEN Append(Keep(v, S), x) ELSE Keep(v, S)
        BY KeepAppend
      <4>. QED  BY <3>3, <4>1
    <3>5. Says(t)
      <4>1. CASE Head(r) \in S
        <5>1. k # <<>> /\ Head(k) = Head(r) /\ Keep(v, S) = Tail(k)
          BY <2>1, <3>1, <3>2, <4>1
        <5>2. Append(k, x) # <<>> /\ Head(Append(k, x)) = Head(k)
              /\ Tail(Append(k, x)) = Append(Tail(k), x)
          BY <5>1
        <5>. QED  BY <2>3, <3>3, <3>4, <4>1, <5>1, <5>2
      <4>2. CASE Head(r) \notin S
        BY <2>1, <2>3, <3>1, <3>2, <3>3, <3>4, <4>2
      <4>. QED  BY <4>1, <4>2
    <3>. HIDE DEF Says
    <3>. QED  BY <2>2, <3>5
  <2>. HIDE DEF U
  <2>. QED  BY <2>2, <2>4, <2>5
<1>3. Seq(T) \subseteq U
  <2>. HIDE DEF U
  <2>. QED  BY <1>1, <1>2, SeqInSet
<1>. QED  BY <1>3

\* What is kept of two sequences, one behind the other.
LEMMA KeepConcat ==
  ASSUME NEW T, NEW p \in Seq(T), NEW q \in Seq(T), NEW S
  PROVE  Keep(p \o q, S) = Keep(p, S) \o Keep(q, S)
<1>0. PICK k \in Seq(T) : k = Keep(p, S)
  BY KeepIn
<1>. DEFINE U == {r \in Seq(T) : Keep(p \o r, S) = k \o Keep(r, S)}
<1>1. <<>> \in U
  <2>1. p \o <<>> = p /\ k \o <<>> = k /\ <<>> \in Seq(T)
    BY <1>0
  <2>2. Keep(p \o <<>>, S) = k \o Keep(<<>>, S)
    BY <1>0, <2>1, KeepEmpty
  <2>. QED  BY <2>1, <2>2
<1>2. ASSUME NEW r \in Seq(T), NEW x \in T, r \in U  PROVE Append(r, x) \in U
  <2>1. PICK l \in Seq(T) : l = Keep(r, S)
    BY KeepIn
  <2>0. p \o r \in Seq(T)
    OBVIOUS
  <2>2. PICK t \in Seq(T) : t = p \o r
    BY <2>0
  <2>3. p \o Append(r, x) = Append(t, x) /\ k \o Append(l, x) = Append(k \o l, x)
    BY <2>2
  <2>4. Keep(t, S) = k \o l
    BY <1>2, <2>1, <2>2
  <2>5. Keep(Append(t, x), S) = IF x \in S THEN Append(Keep(t, S), x) ELSE Keep(t, S)
    BY KeepAppend
  <2>6. Keep(Append(r, x), S) = IF x \in S THEN Append(l, x) ELSE l
    BY <2>1, KeepAppend
  <2>7. Keep(p \o Append(r, x), S) = k \o Keep(Append(r, x), S)
    BY <2>3, <2>4, <2>5, <2>6
  <2>8. Append(r, x) \in Seq(T)
    OBVIOUS
  <2>. QED  BY <2>7, <2>8
<1>3. Seq(T) \subseteq U
  <2>. HIDE DEF U
  <2>. QED  BY <1>1, <1>2, SeqInSet
<1>. QED  BY <1>0, <1>3
=============================================================================
