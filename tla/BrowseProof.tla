---------------------------- MODULE BrowseProof ----------------------------
(***************************************************************************)
(* Browsing, for any catalogue, any labels and queries, and any syncs      *)
(* under the view: the tree shown is a tree of the database, the detail    *)
(* pane has a CWE, search and filter are consistent with their mode.       *)
(***************************************************************************)
EXTENDS Browse, SubsequenceProof

-----------------------------------------------------------------------------
(* Concatenation of many sequences, and the first index of a set.          *)

\* What the recursion of FlattenSeq computes.
LEMMA FlattenFcn ==
  ASSUME NEW S, NEW ss \in Seq(Seq(S)), ss # << >>
  PROVE  \E f \in [1 .. Len(ss) -> Seq(S)] :
           /\ FlattenSeq(ss) = f[Len(ss)]
           /\ f[1] = ss[1]
           /\ \A n \in 2 .. Len(ss) : f[n] = f[n - 1] \o ss[n]
<1> DEFINE N == Len(ss)
    Rec(f) == f = [n \in 1 .. N |-> IF n = 1 THEN ss[n] ELSE f[n - 1] \o ss[n]]
    g == [p \in (1 .. N) \X Seq(S) |-> p[2] \o ss[p[1]]]
    f == CHOOSE f : Rec(f)
<1>1. N \in Nat \ {0} /\ \A n \in 1 .. N : ss[n] \in Seq(S)
  OBVIOUS
<1>2. g \in [(1 .. N) \X Seq(S) -> Seq(S)]
  <2>1. \A n \in 1 .. N, v \in Seq(S) : v \o ss[n] \in Seq(S)
    BY <1>1, ConcatProperties
  <2> HIDE DEF N
  <2>2. QED BY <2>1
<1>3. PICK h \in [0 .. N -> Seq(S)] : Recursive(h, N, << >>, g)
  <2> HIDE DEF g, N
  <2>1. << >> \in Seq(S) /\ N \in Nat
    BY <1>1, EmptySeq
  <2>2. QED BY <2>1, <1>2, Recursion
<1>4. \A n \in 1 .. N : h[n] = IF n = 1 THEN ss[n] ELSE h[n - 1] \o ss[n]
  <2> SUFFICES ASSUME NEW n \in 1 .. N
               PROVE  h[n] = IF n = 1 THEN ss[n] ELSE h[n - 1] \o ss[n]
    OBVIOUS
  <2> HIDE DEF N
  <2>1. /\ n \in 0 .. N /\ n # 0 /\ n - 1 \in 0 .. N /\ 0 \in 0 .. N
        /\ h[n - 1] \in Seq(S)
    BY <1>1
  <2>2. h[n] = g[<<n, h[n - 1]>>] /\ h[0] = << >>
    BY <2>1, <1>3 DEF Recursive
  <2>3. g[<<n, h[n - 1]>>] = h[n - 1] \o ss[n]
    BY <2>1
  <2>4. ss[n] \in Seq(S)
    BY <1>1
  <2>5. << >> \o ss[n] = ss[n]
    BY <2>4, ConcatEmptySeq
  <2>6. n = 1 => h[n - 1] = << >>
    BY <2>2
  <2>7. QED BY <2>2, <2>3, <2>5, <2>6
<1>5. \E k : Rec(k)
  <2> DEFINE k == [n \in 1 .. N |-> h[n]]
  <2>1. \A n \in 1 .. N : n # 1 => n - 1 \in 1 .. N
    BY <1>1
  <2>2. Rec(k)
    BY <2>1, <1>4
  <2> HIDE DEF k, Rec
  <2>3. QED BY <2>2
<1>6. Rec(f)
  BY <1>5
<1>7. FlattenSeq(ss) = f[N]
  BY <1>1 DEF FlattenSeq
<1> HIDE DEF f, g
<1>8. /\ f[1] = ss[1] /\ DOMAIN f = 1 .. N /\ f = [n \in DOMAIN f |-> f[n]]
      /\ \A n \in 2 .. N : f[n] = f[n - 1] \o ss[n]
  <2>1. f = [n \in 1 .. N |-> IF n = 1 THEN ss[n] ELSE f[n - 1] \o ss[n]]
    BY <1>6
  <2> HIDE DEF N
  <2>2. 1 \in 1 .. N /\ \A n \in 2 .. N : n \in 1 .. N /\ n # 1
    BY <1>1
  <2>3. QED BY <2>1, <2>2
<1>9. \A n \in 1 .. N : f[n] \in Seq(S)
  <2> DEFINE P == {n \in 0 .. N : n = 0 \/ f[n] \in Seq(S)}
  <2> HIDE DEF N
  <2>1. 0 \in P
    BY <1>1
  <2>2. ASSUME NEW n \in 1 .. N, n - 1 \in P PROVE n \in P
    <3>1. CASE n = 1
      BY <1>1, <1>8, <3>1
    <3>2. CASE n # 1
      <4>1. f[n - 1] \in Seq(S) /\ ss[n] \in Seq(S) /\ n \in 2 .. N
        BY <1>1, <2>2, <3>2
      <4>2. f[n] \in Seq(S)
        BY <4>1, <1>8, ConcatProperties
      <4>3. QED BY <4>2
    <3>3. QED BY <3>1, <3>2
  <2>3. \A n \in 0 .. N : n \in P
    <3> HIDE DEF P
    <3>1. 0 .. N \subseteq P
      BY <2>1, <2>2, <1>1, UpTo
    <3>2. QED BY <3>1
  <2>4. QED BY <2>3, <1>1
<1>10. f \in [1 .. N -> Seq(S)]
  BY <1>8, <1>9
<1>11. QED BY <1>7, <1>8, <1>10

\* A list of no sequences flattens to nothing.
LEMMA FlattenEmpty == FlattenSeq(<< >>) = << >>
  BY DEF FlattenSeq

\* One more sequence at the end of a list of them.
LEMMA FlattenAppend ==
  ASSUME NEW S, NEW ss \in Seq(Seq(S)), NEW t \in Seq(S)
  PROVE  FlattenSeq(Append(ss, t)) = FlattenSeq(ss) \o t
<1> DEFINE tt == Append(ss, t)  N == Len(ss)
<1>1. /\ tt \in Seq(Seq(S)) /\ tt # << >> /\ N \in Nat /\ Len(tt) = N + 1
      /\ tt[N + 1] = t /\ \A n \in 1 .. N : tt[n] = ss[n]
  BY AppendProperties, LenProperties
<1> HIDE DEF tt
<1>2. PICK h \in [1 .. Len(tt) -> Seq(S)] :
        /\ FlattenSeq(tt) = h[Len(tt)]
        /\ h[1] = tt[1]
        /\ \A n \in 2 .. Len(tt) : h[n] = h[n - 1] \o tt[n]
  <2>1. tt \in Seq(Seq(S)) /\ tt # << >>
    BY <1>1
  <2>2. QED BY <2>1, FlattenFcn
<1>3. CASE ss = << >>
  <2>1. N = 0 /\ FlattenSeq(tt) = t
    BY <1>1, <1>2, <1>3
  <2>2. QED BY <2>1, <1>3, FlattenEmpty, ConcatEmptySeq DEF tt
<1>4. CASE ss # << >>
  <2>1. PICK f \in [1 .. N -> Seq(S)] :
          /\ FlattenSeq(ss) = f[N]
          /\ f[1] = ss[1]
          /\ \A n \in 2 .. N : f[n] = f[n - 1] \o ss[n]
    BY <1>4, FlattenFcn
  <2>2. N # 0
    BY <1>4
  <2> HIDE DEF N
  <2> DEFINE P == {n \in 0 .. N : n = 0 \/ f[n] = h[n]}
  <2>3. 0 \in P
    BY <1>1
  <2>4. ASSUME NEW n \in 1 .. N, n - 1 \in P PROVE n \in P
    <3>1. CASE n = 1
      BY <1>1, <1>2, <2>1, <3>1
    <3>2. CASE n # 1
      <4>1. n \in 2 .. N /\ n \in 2 .. Len(tt) /\ f[n - 1] = h[n - 1]
        BY <1>1, <2>4, <3>2
      <4>2. f[n] = f[n - 1] \o ss[n] /\ h[n] = h[n - 1] \o tt[n]
        BY <4>1, <1>2, <2>1
      <4>3. tt[n] = ss[n]
        BY <1>1
      <4>4. f[n] = h[n]
        BY <4>1, <4>2, <4>3
      <4>5. QED BY <4>4, <1>1
    <3>3. QED BY <3>1, <3>2
  <2>5. N \in P
    <3> HIDE DEF P
    <3>1. 0 .. N \subseteq P
      BY <2>3, <2>4, <1>1, UpTo
    <3>2. QED BY <3>1, <1>1
  <2>6. f[N] = h[N]
    BY <2>2, <2>5
  <2>7. h[N + 1] = h[N] \o t
    <3>1. N + 1 \in 2 .. Len(tt) /\ (N + 1) - 1 = N
      BY <1>1, <2>2
    <3>2. h[N + 1] = h[(N + 1) - 1] \o tt[N + 1]
      BY <3>1, <1>2
    <3>3. QED BY <3>1, <3>2, <1>1
  <2>8. QED BY <1>1, <1>2, <2>1, <2>6, <2>7 DEF tt
<1>5. QED BY <1>3, <1>4

\* What SelectInSeq returns: the least index of a set, or 0 if it is empty.
LEMMA FirstIndex ==
  ASSUME NEW N \in Nat, NEW I \in SUBSET (1 .. N), I # {}
  PROVE  Min(I) \in I /\ \A i \in I : Min(I) <= i
<1>1. PICK m \in I : \A i \in I : m <= i
  <2>1. I \in SUBSET Nat
    OBVIOUS
  <2>2. QED BY <2>1, Least
<1>2. QED BY <1>1 DEF Min

-----------------------------------------------------------------------------
(* Patterns: what the matcher finds and what the query means.              *)

\* One round of the loop of pattern_match() at position p of the pattern and t
\* of the text, after which a row of PatternEnd's table gives the rest.
Round(pattern, text, sensitive, p, row, t) ==
  IF pattern[p] = "?" THEN row[t]
  ELSE IF t > Len(text) THEN 0
  ELSE IF pattern[p] = "." \/ Same(pattern[p], text[t], sensitive) THEN row[t + 1]
  ELSE 0

\* The table that PatternEnd makes.
IsTable(e, pattern, text, sensitive) ==
  \A p \in 1 .. Len(pattern) + 1, t \in 1 .. Len(text) + 1 :
    e[p][t] = IF p > Len(pattern) THEN t
              ELSE Round(pattern, text, sensitive, p, e[p + 1], t)

\* What the recursion of PatternEnd computes.
LEMMA PatternEndFcn ==
  ASSUME NEW S, NEW pattern \in Seq(S), NEW T, NEW text \in Seq(T),
         NEW sensitive, NEW start
  PROVE  \E e : /\ PatternEnd(pattern, text, start, sensitive) = e[1][start]
                /\ IsTable(e, pattern, text, sensitive)
<1> DEFINE N == Len(pattern)
    L == Len(text)
    At(p, row, t) == IF p > N THEN t ELSE Round(pattern, text, sensitive, p, row, t)
    Rec(e) == e = [p \in 1 .. N + 1 |-> [t \in 1 .. L + 1 |-> At(p, e[p + 1], t)]]
    V == [1 .. L + 1 -> Nat]
    z == [t \in 1 .. L + 1 |-> t]
    g == [x \in (1 .. N) \X V |-> [t \in 1 .. L + 1 |-> At(N + 1 - x[1], x[2], t)]]
    e == CHOOSE e : Rec(e)
<1>1. N \in Nat /\ L \in Nat
  BY LenProperties
<1>2. z \in V /\ g \in [(1 .. N) \X V -> V]
  <2>1. z \in V
    BY <1>1
  <2>2. ASSUME NEW p, NEW row \in V, NEW t \in 1 .. L + 1
        PROVE  At(p, row, t) \in Nat
    <3>1. row[t] \in Nat /\ t \in Nat /\ (~(t > L) => row[t + 1] \in Nat)
      BY <1>1
    <3>2. QED BY <3>1 DEF Round
  <2> HIDE DEF z, At, L, N
  <2>3. \A x \in (1 .. N) \X V : [t \in 1 .. L + 1 |-> At(N + 1 - x[1], x[2], t)] \in V
    <3> TAKE x \in (1 .. N) \X V
    <3>1. x[2] \in V
      OBVIOUS
    <3>2. \A t \in 1 .. L + 1 : At(N + 1 - x[1], x[2], t) \in Nat
      BY <3>1, <2>2
    <3>3. QED BY <3>2
  <2>4. QED BY <2>1, <2>3
<1>3. PICK h \in [0 .. N -> V] : Recursive(h, N, z, g)
  <2> HIDE DEF z, g, V, N
  <2>1. QED BY <1>1, <1>2, Recursion
<1>4. \A i \in 0 .. N : h[i] = IF i = 0 THEN z ELSE g[<<i, h[i - 1]>>]
  <2> HIDE DEF z, g, V, N
  <2>1. QED BY <1>3 DEF Recursive
<1>5. \E k : Rec(k)
  <2> DEFINE k == [p \in 1 .. N + 1 |-> h[N + 1 - p]]
  <2>1. ASSUME NEW p \in 1 .. N + 1
        PROVE  k[p] = [t \in 1 .. L + 1 |-> At(p, k[p + 1], t)]
    <3>1. CASE p = N + 1
      <4>1. k[p] = h[0] /\ p > N
        BY <1>1, <3>1
      <4>2. h[0] = z
        <5> HIDE DEF z, g, V, N, L, At
        <5>1. 0 \in 0 .. N
          BY <1>1
        <5>2. QED BY <1>4, <5>1
      <4>3. QED BY <4>1, <4>2
    <3>2. CASE p # N + 1
      <4> HIDE DEF z, V, N, L, At, g
      <4>1. PICK i \in 1 .. N : /\ i = N + 1 - p /\ p = N + 1 - i
                                /\ i - 1 = N + 1 - (p + 1)
                                /\ i \in 0 .. N /\ i - 1 \in 0 .. N /\ i # 0
                                /\ p + 1 \in 1 .. N + 1
        <5>1. N + 1 - p \in 1 .. N
          BY <1>1, <3>2
        <5>2. QED BY <1>1, <5>1
      <4>2. k[p] = h[i] /\ k[p + 1] = h[i - 1]
        BY <4>1
      <4>3. h[i] = g[<<i, h[i - 1]>>]
        BY <1>4, <4>1
      <4>4. <<i, h[i - 1]>> \in (1 .. N) \X V
        BY <4>1
      <4>5. g[<<i, h[i - 1]>>] = [t \in 1 .. L + 1 |-> At(p, h[i - 1], t)]
        BY <4>1, <4>4 DEF g
      <4>6. QED BY <4>2, <4>3, <4>5
    <3>3. QED BY <3>1, <3>2
  <2>2. Rec(k)
    <3> HIDE DEF At
    <3>1. k = [p \in 1 .. N + 1 |-> k[p]]
      OBVIOUS
    <3> HIDE DEF k
    <3>2. QED BY <2>1, <3>1
  <2> HIDE DEF k, Rec
  <2>3. QED BY <2>2
<1>6. Rec(e)
  BY <1>5
<1>7. PatternEnd(pattern, text, start, sensitive) = e[1][start]
  BY DEF PatternEnd, Round
<1> HIDE DEF e
<1>8. ASSUME NEW p \in 1 .. N + 1, NEW t \in 1 .. L + 1
      PROVE  e[p][t] = At(p, e[p + 1], t)
  <2> HIDE DEF At, N, L
  <2>1. e[p] = [u \in 1 .. L + 1 |-> At(p, e[p + 1], u)]
    BY <1>6
  <2>2. QED BY <2>1
<1>9. IsTable(e, pattern, text, sensitive)
  BY <1>8 DEF IsTable
<1>10. QED BY <1>7, <1>9

\* The pattern is made of characters of the query.
LEMMA PatternTyped ==
  ASSUME NEW S, NEW query \in Seq(S)
  PROVE  PatternOf(query) \in Seq(ToSet(query))
<1> DEFINE k == SelectInSeq(query, LAMBDA c : c = CaseMark)
    I == {i \in 1 .. Len(query) : query[i] = CaseMark}
<1>1. Len(query) \in Nat /\ \A i \in 1 .. Len(query) : query[i] \in ToSet(query)
  BY DEF ToSet
<1>2. k \in 0 .. Len(query)
  <2>1. k = IF I # {} THEN Min(I) ELSE 0
    BY DEF SelectInSeq
  <2>2. I \in SUBSET (1 .. Len(query))
    OBVIOUS
  <2> HIDE DEF I, k
  <2>3. I # {} => Min(I) \in I
    BY <1>1, <2>2, FirstIndex
  <2>4. CASE I = {}
    BY <1>1, <2>1, <2>4
  <2>5. CASE I # {}
    <3>1. Min(I) \in 1 .. Len(query)
      BY <2>2, <2>3, <2>5
    <3>2. k = Min(I)
      BY <2>1, <2>5
    <3>3. QED BY <1>1, <3>1, <3>2
  <2>6. QED BY <2>4, <2>5
<1>3. PatternOf(query) = SubSeq(query, 1, k - 1) \o SubSeq(query, k + 1, Len(query))
  BY DEF PatternOf, RemoveAt
<1> HIDE DEF k
<1>4. \A m \in 1 .. Len(query) + 1, n \in Int :
        n <= Len(query) => SubSeq(query, m, n) \in Seq(ToSet(query))
  <2> SUFFICES ASSUME NEW m \in 1 .. Len(query) + 1, NEW n \in Int, n <= Len(query)
               PROVE  SubSeq(query, m, n) \in Seq(ToSet(query))
    OBVIOUS
  <2>1. m \in Int /\ \A i \in m .. n : query[i] \in ToSet(query)
    BY <1>1
  <2>2. QED BY <2>1, SubSeqProperties
<1>5. /\ SubSeq(query, 1, k - 1) \in Seq(ToSet(query))
      /\ SubSeq(query, k + 1, Len(query)) \in Seq(ToSet(query))
  BY <1>1, <1>2, <1>4
<1>6. QED BY <1>3, <1>5, ConcatProperties

\* What is found is meant: the positions that pattern_match() goes through are
\* a way to read the text up to the first bar.
LEMMA FoundIsSound ==
  ASSUME NEW S, NEW query \in Seq(S), NEW T, NEW text \in Seq(T),
         Found(query, text)
  PROVE  Meant(query, text)
<1> DEFINE pattern == PatternOf(query)
           sensitive == CaseSensitive(query)
           N == Len(pattern)  L == Len(text)
           bars == {p \in 0 .. N + 1 : p \in DOMAIN pattern => pattern[p] = "|"}
<1>1. pattern \in Seq(ToSet(query))
  BY PatternTyped
<1>2. PICK start \in DOMAIN text : PatternEnd(pattern, text, start, sensitive) # 0
  BY DEF Found
<1> HIDE DEF pattern, sensitive
<1>3. N \in Nat /\ L \in Nat /\ DOMAIN pattern = 1 .. N /\ DOMAIN text = 1 .. L
      /\ start \in 1 .. L
  BY <1>1
<1>4. PICK e : /\ PatternEnd(pattern, text, start, sensitive) = e[1][start]
               /\ IsTable(e, pattern, text, sensitive)
  BY <1>1, PatternEndFcn
<1> HIDE DEF N, L
<1> DEFINE g == [x \in (1 .. N) \X Nat |-> IF pattern[x[1]] = "?" THEN x[2] ELSE x[2] + 1]
<1>5. PICK h \in [0 .. N -> Nat] : Recursive(h, N, start, g)
  <2>1. g \in [(1 .. N) \X Nat -> Nat] /\ start \in Nat
    BY <1>3
  <2> HIDE DEF g
  <2>2. QED BY <1>3, <2>1, Recursion
<1>6. /\ h[0] = start
      /\ \A n \in 1 .. N : h[n] = IF pattern[n] = "?" THEN h[n - 1] ELSE h[n - 1] + 1
  <2>1. \A n \in 1 .. N : n \in 0 .. N /\ n # 0 /\ n - 1 \in 0 .. N /\ 0 \in 0 .. N
    BY <1>3
  <2>2. \A n \in 1 .. N : h[n] = g[<<n, h[n - 1]>>] /\ h[n - 1] \in Nat
    BY <1>5, <2>1 DEF Recursive
  <2>3. h[0] = start
    BY <1>3, <1>5 DEF Recursive
  <2>4. QED BY <2>2, <2>3
<1> HIDE DEF g
<1> DEFINE P == {n \in 0 .. N : h[n] \in 1 .. L + 1 /\ e[n + 1][h[n]] # 0}
<1>7. 0 \in P
  BY <1>2, <1>3, <1>4, <1>6
<1>8. ASSUME NEW n \in 1 .. N, n - 1 \in P
      PROVE  n \in P /\ Takes(pattern, n, text, h[n - 1], h[n], sensitive)
  <2> DEFINE t == h[n - 1]
  <2>1. t \in 1 .. L + 1 /\ e[n][t] # 0
    BY <1>3, <1>8
  <2>2. n \in 1 .. N + 1 /\ ~(n > N) /\ n \in 0 .. N
    BY <1>3
  <2>3. Round(pattern, text, sensitive, n, e[n + 1], t) # 0
    <3> HIDE DEF t
    <3>1. QED BY <1>4, <2>1, <2>2 DEF IsTable, N, L
  <2>4. h[n] = IF pattern[n] = "?" THEN t ELSE t + 1
    BY <1>6
  <2> HIDE DEF t
  <2>5. CASE pattern[n] = "?"
    <3>1. e[n + 1][t] # 0
      BY <2>3, <2>5 DEF Round
    <3>2. "?" \in {pattern[i] : i \in {n, n + 1} \cap DOMAIN pattern}
      BY <1>3, <2>5
    <3>3. QED BY <2>1, <2>2, <2>4, <2>5, <3>1, <3>2 DEF Takes, t
  <2>6. CASE pattern[n] # "?"
    <3>1. /\ ~(t > L) /\ e[n + 1][t + 1] # 0
          /\ pattern[n] = "." \/ Same(pattern[n], text[t], sensitive)
      BY <2>3, <2>6 DEF Round, L
    <3>2. t \in 1 .. L /\ t + 1 \in 1 .. L + 1
      BY <1>3, <2>1, <3>1
    <3>3. QED BY <1>3, <2>2, <2>4, <2>6, <3>1, <3>2 DEF Takes, t
  <2>7. QED BY <2>5, <2>6
<1>9. \A n \in 0 .. N : n \in P
  <2> HIDE DEF P
  <2>1. 0 .. N \subseteq P
    BY <1>3, <1>7, <1>8, UpTo
  <2>2. QED BY <2>1
<1>10. PICK r \in bars \ {0} : \A q \in bars \ {0} : r <= q
  <2>1. N + 1 \in bars \ {0} /\ bars \ {0} \in SUBSET Nat
    BY <1>3
  <2> HIDE DEF bars
  <2>2. QED BY <2>1, Least
<1>11. /\ 0 \in bars /\ 0 < r /\ r \in 1 .. N + 1 /\ (0 + 1 .. r - 1) \cap bars = {}
  <2>1. 0 \in bars /\ r \in 1 .. N + 1
    BY <1>3, <1>10
  <2>2. ASSUME NEW p \in 1 .. r - 1, p \in bars PROVE FALSE
    <3>1. r <= p
      BY <1>10, <2>2
    <3>2. QED BY <2>1, <3>1
  <2>3. QED BY <2>1, <2>2
<1> DEFINE at == [p \in 0 + 1 .. r |-> h[p - 1]]
<1>12. at \in [0 + 1 .. r -> 1 .. L + 1]
  <2>1. \A p \in 0 + 1 .. r : p - 1 \in 0 .. N
    BY <1>3, <1>11
  <2>2. QED BY <1>9, <2>1
<1>13. at[0 + 1] \in DOMAIN text
  BY <1>3, <1>6, <1>11
<1>14. ASSUME NEW p \in 0 + 1 .. r - 1
       PROVE  Takes(pattern, p, text, at[p], at[p + 1], sensitive)
  <2>1. /\ p \in 1 .. N /\ p - 1 \in 0 .. N
        /\ p \in 0 + 1 .. r /\ p + 1 \in 0 + 1 .. r /\ (p + 1) - 1 = p
    BY <1>3, <1>11
  <2>2. at[p] = h[p - 1] /\ at[p + 1] = h[p]
    BY <2>1
  <2> HIDE DEF P, at
  <2>3. QED BY <1>8, <1>9, <2>1, <2>2
<1> HIDE DEF at, bars, P
<1>15. \E l, q \in bars :
         /\ l < q /\ (l + 1 .. q - 1) \cap bars = {}
         /\ \E a \in [l + 1 .. q -> 1 .. L + 1] :
              /\ a[l + 1] \in DOMAIN text
              /\ \A p \in l + 1 .. q - 1 :
                   Takes(pattern, p, text, a[p], a[p + 1], sensitive)
  BY <1>10, <1>11, <1>12, <1>13, <1>14
<1>16. QED BY <1>15 DEF Meant, bars, pattern, sensitive, N, L

\* Of a query without question marks and bars, all that is meant is found.
LEMMA SimpleIsFound ==
  ASSUME NEW S, NEW query \in Seq(S), NEW T, NEW text \in Seq(T),
         Simple(query), Meant(query, text)
  PROVE  Found(query, text)
<1> DEFINE pattern == PatternOf(query)
           sensitive == CaseSensitive(query)
           N == Len(pattern)  L == Len(text)
           bars == {p \in 0 .. N + 1 : p \in DOMAIN pattern => pattern[p] = "|"}
<1>1. pattern \in Seq(ToSet(query))
  BY PatternTyped
<1>2. PICK l \in bars, r \in bars :
        /\ l < r
        /\ \E at \in [l + 1 .. r -> 1 .. L + 1] :
             /\ at[l + 1] \in DOMAIN text
             /\ \A p \in l + 1 .. r - 1 :
                  Takes(pattern, p, text, at[p], at[p + 1], sensitive)
  BY DEF Meant
<1> HIDE DEF pattern, sensitive
<1>3. /\ N \in Nat /\ L \in Nat /\ DOMAIN pattern = 1 .. N /\ DOMAIN text = 1 .. L
      /\ \A p \in 1 .. N : pattern[p] # "?" /\ pattern[p] # "|"
  BY <1>1 DEF Simple
<1> HIDE DEF N, L
<1>4. l = 0 /\ r = N + 1
  BY <1>2, <1>3
<1>5. PICK at \in [1 .. N + 1 -> 1 .. L + 1] :
        /\ at[1] \in 1 .. L
        /\ \A p \in 1 .. N : Takes(pattern, p, text, at[p], at[p + 1], sensitive)
  <2>1. 0 + 1 = 1 /\ (N + 1) - 1 = N
    BY <1>3
  <2>2. QED BY <1>2, <1>3, <1>4, <2>1
<1>6. PICK e : /\ PatternEnd(pattern, text, at[1], sensitive) = e[1][at[1]]
               /\ IsTable(e, pattern, text, sensitive)
  BY <1>1, PatternEndFcn
<1> DEFINE P == {n \in 0 .. N : e[1][at[1]] = e[n + 1][at[n + 1]]}
<1>7. 0 \in P
  BY <1>3
<1>8. ASSUME NEW n \in 1 .. N, n - 1 \in P PROVE n \in P
  <2>1. e[1][at[1]] = e[n][at[n]]
    BY <1>3, <1>8
  <2>2. /\ at[n + 1] = at[n] + 1 /\ at[n] \in 1 .. L
        /\ pattern[n] = "." \/ Same(pattern[n], text[at[n]], sensitive)
    <3>1. "?" \notin {pattern[i] : i \in {n, n + 1} \cap DOMAIN pattern}
      BY <1>3
    <3>2. QED BY <1>3, <1>5, <3>1 DEF Takes
  <2>3. n \in 1 .. N + 1 /\ at[n] \in 1 .. L + 1 /\ ~(n > N) /\ ~(at[n] > L) /\ n \in 0 .. N
    BY <1>3, <2>2
  <2>4. e[n][at[n]] = Round(pattern, text, sensitive, n, e[n + 1], at[n])
    BY <1>6, <2>3 DEF IsTable, N, L
  <2>5. Round(pattern, text, sensitive, n, e[n + 1], at[n]) = e[n + 1][at[n + 1]]
    BY <1>3, <2>2, <2>3 DEF Round, L
  <2>6. QED BY <2>1, <2>3, <2>4, <2>5
<1>9. N \in P
  <2> HIDE DEF P
  <2>1. 0 .. N \subseteq P
    BY <1>3, <1>7, <1>8, UpTo
  <2>2. QED BY <1>3, <2>1
<1>10. e[1][at[1]] # 0
  <2>1. e[1][at[1]] = e[N + 1][at[N + 1]]
    BY <1>9
  <2>2. N + 1 \in 1 .. N + 1 /\ at[N + 1] \in 1 .. L + 1 /\ N + 1 > N
    BY <1>3, <1>5
  <2>3. e[N + 1][at[N + 1]] = at[N + 1]
    BY <1>6, <2>2 DEF IsTable, N, L
  <2>4. QED BY <1>3, <2>1, <2>2, <2>3
<1>11. QED BY <1>3, <1>5, <1>6, <1>10 DEF Found, pattern, sensitive

-----------------------------------------------------------------------------
(* The rows of a tree, for any list of categories.                         *)

\* The queries return rows of their tables, in the order of ORDER BY.
LEMMA QueriesTyped ==
  ASSUME NEW d \in CatalogType
  PROVE  /\ GetCategories(d) \in Seq(Cat)
         /\ \A c : GetCwes(d, c) \in Seq(Cwe)
         /\ \A c, i : i \in DOMAIN GetCwes(d, c) => <<GetCwes(d, c)[i], c>> \in d.links
<1>1. CatOrder \in Seq(Cat) /\ CweOrder \in Seq(Cwe)
  BY BrowseAssumption
<1>2. GetCategories(d) \in Seq(Cat)
  <2>1. GetCategories(d) \in Seq(Cat \cap StoredCats(d))
    BY <1>1, KeepTyped DEF GetCategories
  <2>2. QED BY <2>1, SeqMonotonic
<1>3. ASSUME NEW c
      PROVE  /\ GetCwes(d, c) \in Seq(Cwe)
             /\ \A i \in DOMAIN GetCwes(d, c) : <<GetCwes(d, c)[i], c>> \in d.links
  <2> DEFINE A == {w \in Cwe : <<w, c>> \in d.links}
  <2> HIDE DEF A
  <2>1. GetCwes(d, c) \in Seq(Cwe \cap A)
    BY <1>1, KeepTyped DEF GetCwes, A
  <2>2. GetCwes(d, c) \in Seq(Cwe)
    BY <2>1, SeqMonotonic
  <2>3. \A i \in DOMAIN GetCwes(d, c) : GetCwes(d, c)[i] \in A
    BY <2>1
  <2>4. QED BY <2>2, <2>3 DEF A
<1>4. QED BY <1>2, <1>3

HeaderRow(c, expanded) ==
  [kind |-> "Category", id |-> c, category_id |-> c, expanded |-> expanded]

CweRow(w, c) ==
  [kind |-> "Weakness", id |-> w, category_id |-> c, expanded |-> FALSE]

\* The rows of one category: its header, then the weaknesses linked to it.
LEMMA RowsOfCategory ==
  ASSUME NEW d \in CatalogType, NEW c \in Cat, NEW expanded \in BOOLEAN
  PROVE  /\ RowsOf(d, c, expanded) \in Seq(Node)
         /\ Len(RowsOf(d, c, expanded)) =
              IF expanded THEN Len(GetCwes(d, c)) + 1 ELSE 1
         /\ RowsOf(d, c, expanded)[1] = HeaderRow(c, expanded)
         /\ HeaderRow(c, expanded) \in Node
         /\ \E rest \in Seq(Node) :
              /\ RowsOf(d, c, expanded) = <<HeaderRow(c, expanded)>> \o rest
              /\ \A i \in 1 .. Len(rest) : rest[i].kind = "Weakness"
         /\ \A i \in 2 .. Len(RowsOf(d, c, expanded)) :
              /\ expanded
              /\ \E w \in Cwe : /\ RowsOf(d, c, expanded)[i] = CweRow(w, c)
                              /\ <<w, c>> \in d.links
<1> DEFINE cwes == GetCwes(d, c)
    first == <<HeaderRow(c, expanded)>>
    rest == IF expanded THEN [i \in DOMAIN cwes |-> CweRow(cwes[i], c)] ELSE << >>
<1>1. cwes \in Seq(Cwe) /\ \A i \in DOMAIN cwes : <<cwes[i], c>> \in d.links
  BY QueriesTyped
<1>2. RowsOf(d, c, expanded) = first \o rest
  BY DEF RowsOf, HeaderRow, CweRow
<1>3. HeaderRow(c, expanded) \in Node
  BY DEF HeaderRow, Node
<1>4. \A i \in DOMAIN cwes : CweRow(cwes[i], c) \in Node /\ cwes[i] \in Cwe
  BY <1>1 DEF CweRow, Node
<1>5. first \in Seq(Node) /\ Len(first) = 1 /\ first[1] = HeaderRow(c, expanded)
  BY <1>3
<1> HIDE DEF cwes
<1>6. rest \in Seq(Node) /\ Len(rest) = IF expanded THEN Len(cwes) ELSE 0
  <2>1. CASE expanded
    <3>1. DOMAIN cwes = 1 .. Len(cwes) /\ Len(cwes) \in Nat
      BY <1>1
    <3>2. [i \in 1 .. Len(cwes) |-> CweRow(cwes[i], c)] \in Seq(Node)
      BY <1>4, <3>1
    <3>3. QED BY <2>1, <3>1, <3>2
  <2>2. CASE ~expanded
    BY <2>2
  <2>3. QED BY <2>1, <2>2
<1>7. \A i \in 1 .. Len(rest) :
        /\ expanded
        /\ i \in DOMAIN cwes
        /\ rest[i] = CweRow(cwes[i], c)
  <2>1. DOMAIN cwes = 1 .. Len(cwes) /\ Len(cwes) \in Nat
    BY <1>1
  <2>2. QED BY <1>6, <2>1
<1> HIDE DEF first, rest
<1>8. /\ first \o rest \in Seq(Node)
      /\ Len(first \o rest) = 1 + Len(rest)
      /\ (first \o rest)[1] = HeaderRow(c, expanded)
      /\ \A i \in 2 .. Len(first \o rest) :
           i - 1 \in 1 .. Len(rest) /\ (first \o rest)[i] = rest[i - 1]
  <2>1. /\ first \o rest \in Seq(Node)
        /\ Len(first \o rest) = Len(first) + Len(rest)
        /\ \A i \in 1 .. Len(first) + Len(rest) :
             (first \o rest)[i] = IF i <= Len(first) THEN first[i]
                                                   ELSE rest[i - Len(first)]
    BY <1>5, <1>6, ConcatProperties
  <2>2. Len(rest) \in Nat
    BY <1>6
  <2>3. QED BY <1>5, <2>1, <2>2
<1>9. ASSUME NEW i \in 2 .. Len(RowsOf(d, c, expanded))
      PROVE  /\ expanded
             /\ \E w \in Cwe : /\ RowsOf(d, c, expanded)[i] = CweRow(w, c)
                             /\ <<w, c>> \in d.links
  <2>1. /\ i - 1 \in 1 .. Len(rest)
        /\ RowsOf(d, c, expanded)[i] = rest[i - 1]
    BY <1>2, <1>8
  <2>2. expanded /\ i - 1 \in DOMAIN cwes /\ rest[i - 1] = CweRow(cwes[i - 1], c)
    BY <2>1, <1>7
  <2>3. cwes[i - 1] \in Cwe /\ <<cwes[i - 1], c>> \in d.links
    BY <2>2, <1>1, <1>4
  <2>4. QED BY <2>1, <2>2, <2>3
<1>10. Len(RowsOf(d, c, expanded)) = IF expanded THEN Len(cwes) + 1 ELSE 1
  <2>1. Len(cwes) \in Nat
    BY <1>1
  <2>2. QED BY <1>2, <1>6, <1>8, <2>1
<1>11. \E r \in Seq(Node) :
         /\ RowsOf(d, c, expanded) = <<HeaderRow(c, expanded)>> \o r
         /\ \A i \in 1 .. Len(r) : r[i].kind = "Weakness"
  <2>1. ASSUME NEW i \in 1 .. Len(rest) PROVE rest[i].kind = "Weakness"
    <3>1. rest[i] = CweRow(cwes[i], c)
      BY <1>7
    <3>2. QED BY <3>1 DEF CweRow
  <2>2. RowsOf(d, c, expanded) = <<HeaderRow(c, expanded)>> \o rest
    BY <1>2 DEF first
  <2>3. QED BY <1>6, <2>1, <2>2
<1>12. QED BY <1>2, <1>3, <1>8, <1>9, <1>10, <1>11 DEF cwes

\* The rows of a tree, one category after the other.
LEMMA RowsEmpty == \A d, X : Rows(d, << >>, X) = << >>
BY FlattenEmpty DEF Rows

\* The rows of one more category come after those of the others.
LEMMA RowsAppend ==
  ASSUME NEW d \in CatalogType, NEW q \in Seq(Cat), NEW c \in Cat, NEW X
  PROVE  Rows(d, Append(q, c), X) = Rows(d, q, X) \o RowsOf(d, c, c \in X)
<1> DEFINE ss == [i \in DOMAIN q |-> RowsOf(d, q[i], q[i] \in X)]
    t == RowsOf(d, c, c \in X)
    qq == Append(q, c)
<1>1. \A b \in Cat : RowsOf(d, b, b \in X) \in Seq(Node)
  <2> TAKE b \in Cat
  <2>1. (b \in X) \in BOOLEAN
    OBVIOUS
  <2>2. QED BY <2>1, RowsOfCategory
<1>2. DOMAIN q = 1 .. Len(q) /\ Len(q) \in Nat /\ \A i \in 1 .. Len(q) : q[i] \in Cat
  OBVIOUS
<1>3. ss \in Seq(Seq(Node)) /\ Len(ss) = Len(q)
  BY <1>1, <1>2
<1>4. t \in Seq(Node)
  BY <1>1
<1>5. /\ DOMAIN qq = 1 .. Len(q) + 1 /\ qq[Len(q) + 1] = c
      /\ \A i \in 1 .. Len(q) : qq[i] = q[i]
  OBVIOUS
<1>6. [i \in DOMAIN qq |-> RowsOf(d, qq[i], qq[i] \in X)] = Append(ss, t)
  <2> DEFINE u == [i \in 1 .. Len(q) + 1 |-> RowsOf(d, qq[i], qq[i] \in X)]
  <2>1. u \in Seq(Seq(Node)) /\ Len(u) = Len(q) + 1
    <3>1. \A i \in 1 .. Len(q) + 1 : qq[i] \in Cat
      OBVIOUS
    <3> HIDE DEF qq
    <3>2. QED BY <1>1, <1>2, <3>1
  <2>2. /\ Append(ss, t) \in Seq(Seq(Node)) /\ Len(Append(ss, t)) = Len(q) + 1
        /\ Append(ss, t)[Len(q) + 1] = t
        /\ \A i \in 1 .. Len(q) : Append(ss, t)[i] = ss[i]
    <3> HIDE DEF ss, t
    <3>1. QED BY <1>3, <1>4, AppendProperties
  <2>3. \A i \in 1 .. Len(q) : u[i] = ss[i]
    BY <1>2, <1>5
  <2>4. u[Len(q) + 1] = t
    BY <1>2, <1>5
  <2>5. \A i \in 1 .. Len(q) + 1 : i \in 1 .. Len(q) \/ i = Len(q) + 1
    BY <1>2
  <2> HIDE DEF u, ss, t
  <2>6. u = Append(ss, t)
    BY <2>1, <2>2, <2>3, <2>4, <2>5, SeqEqual
  <2>7. QED BY <1>5, <2>6 DEF u
<1> HIDE DEF ss, t
<1>7. FlattenSeq(Append(ss, t)) = FlattenSeq(ss) \o t
  BY <1>3, <1>4, FlattenAppend
<1>8. QED BY <1>6, <1>7 DEF Rows, ss, t

\* What the rows of a tree are: headers that show whether they are expanded,
\* and below an expanded header the weaknesses linked to its category.
RowsAreTree(rows, d, X) ==
  \A i \in 1 .. Len(rows) :
    \/ /\ rows[i].kind = "Category"
       /\ rows[i].expanded = (rows[i].id \in X)
    \/ /\ rows[i].kind = "Weakness"
       /\ rows[i].category_id \in X
       /\ <<rows[i].id, rows[i].category_id>> \in d.links
       /\ i > 1
       /\ rows[i - 1].category_id = rows[i].category_id

\* One category's header and weaknesses are a tree of their own.
LEMMA RowsOfAreTree ==
  ASSUME NEW d \in CatalogType, NEW c \in Cat, NEW X
  PROVE  /\ RowsOf(d, c, c \in X) \in Seq(Node)
         /\ RowsAreTree(RowsOf(d, c, c \in X), d, X)
<1> DEFINE t == RowsOf(d, c, c \in X)
<1>1. (c \in X) \in BOOLEAN
  OBVIOUS
<1>2. /\ t \in Seq(Node) /\ Len(t) \in Nat /\ t[1] = HeaderRow(c, c \in X)
      /\ \A i \in 2 .. Len(t) :
           c \in X /\ \E w \in Cwe : t[i] = CweRow(w, c) /\ <<w, c>> \in d.links
  BY <1>1, RowsOfCategory, LenProperties
<1> HIDE DEF t
<1>3. ASSUME NEW i \in 1 .. Len(t), i = 1
      PROVE  t[i].kind = "Category" /\ t[i].expanded = (t[i].id \in X)
  BY <1>2, <1>3 DEF HeaderRow
<1>4. ASSUME NEW i \in 2 .. Len(t)
      PROVE  /\ t[i].kind = "Weakness"
             /\ t[i].category_id \in X
             /\ <<t[i].id, t[i].category_id>> \in d.links
             /\ i > 1
             /\ t[i - 1].category_id = t[i].category_id
  <2>1. PICK w \in Cwe : t[i] = CweRow(w, c) /\ <<w, c>> \in d.links /\ c \in X
    BY <1>2
  <2>2. t[i - 1].category_id = c
    <3>1. CASE i = 2
      BY <1>2, <3>1 DEF HeaderRow
    <3>2. CASE i # 2
      <4>1. i - 1 \in 2 .. Len(t)
        BY <3>2, <1>2
      <4>2. PICK v \in Cwe : t[i - 1] = CweRow(v, c)
        BY <4>1, <1>2
      <4>3. QED BY <4>2 DEF CweRow
    <3>3. QED BY <3>1, <3>2
  <2>3. QED BY <1>2, <2>1, <2>2 DEF CweRow
<1>5. ASSUME NEW i \in 1 .. Len(t) PROVE i = 1 \/ i \in 2 .. Len(t)
  BY <1>2
<1>6. QED BY <1>2, <1>3, <1>4, <1>5 DEF RowsAreTree, t

\* Two trees of the same database, one below the other, are a tree.
LEMMA TreesConcat ==
  ASSUME NEW a \in Seq(Node), NEW b \in Seq(Node), NEW d, NEW X,
         RowsAreTree(a, d, X), RowsAreTree(b, d, X)
  PROVE  a \o b \in Seq(Node) /\ RowsAreTree(a \o b, d, X)
<1> DEFINE t == a \o b
<1>1. /\ t \in Seq(Node) /\ Len(t) = Len(a) + Len(b)
      /\ \A i \in 1 .. Len(a) + Len(b) :
           t[i] = IF i <= Len(a) THEN a[i] ELSE b[i - Len(a)]
      /\ Len(a) \in Nat /\ Len(b) \in Nat
  BY ConcatProperties, LenProperties
<1> HIDE DEF t
<1>2. ASSUME NEW i \in 1 .. Len(a)
      PROVE  i \in 1 .. Len(a) + Len(b) /\ t[i] = a[i]
             /\ (i > 1 => t[i - 1] = a[i - 1])
  BY <1>1
<1>3. ASSUME NEW i \in 1 .. Len(t), i > Len(a)
      PROVE  /\ i - Len(a) \in 1 .. Len(b)
             /\ t[i] = b[i - Len(a)]
             /\ i - Len(a) > 1 => t[i - 1] = b[(i - Len(a)) - 1] /\ i > 1
  BY <1>1, <1>3
<1>4. ASSUME NEW i \in 1 .. Len(t) PROVE i \in 1 .. Len(a) \/ i > Len(a)
  BY <1>1
<1>5. RowsAreTree(t, d, X)
  <2> SUFFICES ASSUME NEW i \in 1 .. Len(t)
        PROVE  \/ /\ t[i].kind = "Category"
                  /\ t[i].expanded = (t[i].id \in X)
               \/ /\ t[i].kind = "Weakness"
                  /\ t[i].category_id \in X
                  /\ <<t[i].id, t[i].category_id>> \in d.links
                  /\ i > 1
                  /\ t[i - 1].category_id = t[i].category_id
    BY DEF RowsAreTree
  <2>1. CASE i \in 1 .. Len(a)
    BY <2>1, <1>2 DEF RowsAreTree
  <2>2. CASE i > Len(a)
    BY <2>2, <1>3 DEF RowsAreTree
  <2>3. QED BY <2>1, <2>2, <1>4
<1>6. QED BY <1>1, <1>5 DEF t

\* The rows that rebuild_visible_nodes() makes are a tree of its inputs.
LEMMA RowsTyped ==
  ASSUME NEW d \in CatalogType, NEW q \in Seq(Cat), NEW X
  PROVE  Rows(d, q, X) \in Seq(Node) /\ RowsAreTree(Rows(d, q, X), d, X)
<1> DEFINE P == {r \in Seq(Cat) : /\ Rows(d, r, X) \in Seq(Node)
                                 /\ RowsAreTree(Rows(d, r, X), d, X)}
<1>1. << >> \in P
  <2>1. << >> \in Seq(Cat) /\ << >> \in Seq(Node) /\ Len(<< >>) = 0
    OBVIOUS
  <2>2. RowsAreTree(<< >>, d, X)
    BY <2>1 DEF RowsAreTree
  <2>3. QED BY <2>1, <2>2, RowsEmpty
<1>2. ASSUME NEW r \in Seq(Cat), NEW c \in Cat, r \in P PROVE Append(r, c) \in P
  <2>1. Append(r, c) \in Seq(Cat)
    BY AppendProperties
  <2>2. Rows(d, r, X) \in Seq(Node) /\ RowsAreTree(Rows(d, r, X), d, X)
    BY <1>2
  <2>3. /\ RowsOf(d, c, c \in X) \in Seq(Node)
        /\ RowsAreTree(RowsOf(d, c, c \in X), d, X)
    BY RowsOfAreTree
  <2>4. /\ Rows(d, Append(r, c), X) \in Seq(Node)
        /\ RowsAreTree(Rows(d, Append(r, c), X), d, X)
    <3> DEFINE a == Rows(d, r, X)  b == RowsOf(d, c, c \in X)
    <3>1. Rows(d, Append(r, c), X) = a \o b
      BY RowsAppend
    <3>2. /\ a \in Seq(Node) /\ RowsAreTree(a, d, X)
          /\ b \in Seq(Node) /\ RowsAreTree(b, d, X)
      BY <2>2, <2>3
    <3> HIDE DEF a, b
    <3>3. QED BY <3>1, <3>2, TreesConcat
  <2>5. QED BY <2>1, <2>4
<1>3. q \in P
  <2> HIDE DEF P
  <2>1. QED BY <1>1, <1>2, SeqInduct
<1>4. QED BY <1>3

CategoryRows == {n \in Node : n.kind = "Category"}

\* The headers of a tree are the categories, in their order.
LEMMA HeadersOfRows ==
  ASSUME NEW d \in CatalogType, NEW q \in Seq(Cat), NEW X
  PROVE  Keep(Rows(d, q, X), CategoryRows) =
           [i \in 1 .. Len(q) |-> HeaderRow(q[i], q[i] \in X)]
<1> DEFINE H(r) == [i \in 1 .. Len(r) |-> HeaderRow(r[i], r[i] \in X)]
    P == {r \in Seq(Cat) : Keep(Rows(d, r, X), CategoryRows) = H(r)}
<1>1. << >> \in P
  <2>1. << >> \in Seq(Cat) /\ H(<< >>) = << >>
    OBVIOUS
  <2>2. QED BY <2>1, RowsEmpty, KeepEmpty
<1>2. ASSUME NEW r \in Seq(Cat), NEW c \in Cat, r \in P PROVE Append(r, c) \in P
  <2> DEFINE h == HeaderRow(c, c \in X)
  <2>1. (c \in X) \in BOOLEAN
    OBVIOUS
  <2>2. h \in Node /\ h \in CategoryRows
    BY <2>1, RowsOfCategory DEF HeaderRow, CategoryRows
  <2>3. PICK rest \in Seq(Node) :
          /\ RowsOf(d, c, c \in X) = <<h>> \o rest
          /\ \A i \in 1 .. Len(rest) : rest[i].kind = "Weakness"
    BY <2>1, RowsOfCategory
  <2>4. Keep(rest, CategoryRows) = << >>
    <3>1. \A i \in 1 .. Len(rest) : rest[i] \notin CategoryRows
      BY <2>3 DEF CategoryRows
    <3>2. QED BY <3>1, KeepNone
  <2> HIDE DEF h
  <2>5. Keep(<<h>>, CategoryRows) = <<h>>
    <3>1. Append(<< >>, h) = <<h>> /\ << >> \in Seq(Node)
      OBVIOUS
    <3>2. \A u \in Seq(Node) : Keep(Append(u, h), CategoryRows)
                                 = Append(Keep(u, CategoryRows), h)
      BY <2>2, KeepAppend
    <3>3. QED BY <3>1, <3>2, KeepEmpty
  <2>6. /\ <<h>> \in Seq(Node) /\ <<h>> \o << >> = <<h>>
        /\ RowsOf(d, c, c \in X) \in Seq(Node)
    <3>1. RowsOf(d, c, c \in X) \in Seq(Node)
      BY RowsOfAreTree
    <3>2. QED BY <2>2, <3>1, ConcatEmptySeq
  <2>7. Keep(RowsOf(d, c, c \in X), CategoryRows) = <<h>>
    <3>1. \A u, v \in Seq(Node) : Keep(u \o v, CategoryRows)
                                  = Keep(u, CategoryRows) \o Keep(v, CategoryRows)
      BY KeepConcat
    <3>2. Keep(<<h>> \o rest, CategoryRows)
            = Keep(<<h>>, CategoryRows) \o Keep(rest, CategoryRows)
      BY <2>6, <3>1
    <3>3. QED BY <2>3, <2>4, <2>5, <2>6, <3>2
  <2>8. Rows(d, r, X) \in Seq(Node)
    BY RowsTyped
  <2>9. Keep(Rows(d, Append(r, c), X), CategoryRows)
          = Keep(Rows(d, r, X), CategoryRows) \o <<h>>
    <3>1. \A u, v \in Seq(Node) : Keep(u \o v, CategoryRows)
                                  = Keep(u, CategoryRows) \o Keep(v, CategoryRows)
      BY KeepConcat
    <3>2. Rows(d, Append(r, c), X) = Rows(d, r, X) \o RowsOf(d, c, c \in X)
      BY RowsAppend
    <3>3. QED BY <2>6, <2>7, <2>8, <3>1, <3>2
  <2>10. Append(r, c) \in Seq(Cat) /\ H(r) \o <<h>> = H(Append(r, c))
    <3> DEFINE rr == Append(r, c)
    <3>1. /\ rr \in Seq(Cat) /\ Len(rr) = Len(r) + 1 /\ Len(r) \in Nat
          /\ rr[Len(r) + 1] = c /\ \A i \in 1 .. Len(r) : rr[i] = r[i]
      BY AppendProperties, LenProperties
    <3> HIDE DEF rr
    <3>2. \A b \in Cat : HeaderRow(b, b \in X) \in Node
      BY DEF HeaderRow, Node
    <3>3. H(rr) \in Seq(Node) /\ Len(H(rr)) = Len(r) + 1
      BY <3>1, <3>2
    <3>4. H(r) \in Seq(Node) /\ Len(H(r)) = Len(r)
      BY <3>2
    <3>5. Append(H(r), h) = H(rr)
      <4>1. \A i \in 1 .. Len(r) : H(rr)[i] = H(r)[i]
        BY <3>1
      <4>2. H(rr)[Len(r) + 1] = h
        BY <3>1 DEF h
      <4> HIDE DEF H
      <4>3. /\ Append(H(r), h) \in Seq(Node)
            /\ Len(Append(H(r), h)) = Len(r) + 1
            /\ Append(H(r), h)[Len(r) + 1] = h
            /\ \A i \in 1 .. Len(r) : Append(H(r), h)[i] = H(r)[i]
        <5>1. \A u \in Seq(Node) :
                /\ Append(u, h) \in Seq(Node)
                /\ Len(Append(u, h)) = Len(u) + 1
                /\ Append(u, h)[Len(u) + 1] = h
                /\ \A i \in 1 .. Len(u) : Append(u, h)[i] = u[i]
          BY <2>2, AppendProperties
        <5>2. QED BY <3>4, <5>1
      <4>4. \A i \in 1 .. Len(r) + 1 : i \in 1 .. Len(r) \/ i = Len(r) + 1
        BY <3>1
      <4>5. QED BY <3>3, <4>1, <4>2, <4>3, <4>4, SeqEqual
    <3>6. Append(H(r), h) = H(r) \o <<h>>
      <4> HIDE DEF H
      <4>1. QED BY <2>2, <3>4, AppendIsConcat
    <3>7. QED BY <3>1, <3>5, <3>6 DEF rr
  <2>11. QED
    <3> HIDE DEF H
    <3>1. QED BY <1>2, <2>9, <2>10
<1>3. q \in P
  <2> HIDE DEF P
  <2>1. QED BY <1>1, <1>2, SeqInduct
<1>4. QED BY <1>3

\* A later database, with more categories, gives at least as many rows, and so
\* does expanding some: the tree that a sync reloads never shrinks.
LEMMA RowsMonotone ==
  ASSUME NEW d \in CatalogType, NEW e \in CatalogType, d.links \subseteq e.links,
         NEW A, NEW B, A \subseteq B, NEW X, NEW Y, X \subseteq Y
  PROVE  Len(Rows(d, Keep(CatOrder, A), X)) <= Len(Rows(e, Keep(CatOrder, B), Y))
<1> DEFINE P == {q \in Seq(Cat) :
                   Len(Rows(d, Keep(q, A), X)) <= Len(Rows(e, Keep(q, B), Y))}
<1>1. ASSUME NEW q \in Seq(Cat), NEW C PROVE Keep(q, C) \in Seq(Cat)
  <2>1. Keep(q, C) \in Seq(Cat \cap C)
    BY KeepTyped
  <2>2. QED BY <2>1, SeqMonotonic
<1>2. << >> \in P
  BY KeepEmpty, EmptySeq, RowsEmpty
<1>3. ASSUME NEW q \in Seq(Cat), NEW c \in Cat, q \in P PROVE Append(q, c) \in P
  <2> DEFINE a == Rows(d, Keep(q, A), X)  b == Rows(e, Keep(q, B), Y)
             u == RowsOf(d, c, c \in X)  v == RowsOf(e, c, c \in Y)
  <2>1. Append(q, c) \in Seq(Cat)
    BY AppendProperties
  <2>2. a \in Seq(Node) /\ b \in Seq(Node) /\ u \in Seq(Node) /\ v \in Seq(Node)
    BY <1>1, RowsTyped, RowsOfAreTree
  <2>3. Len(u) <= Len(v)
    <3>1. (c \in X) \in BOOLEAN /\ (c \in Y) \in BOOLEAN
      OBVIOUS
    <3>2. {w \in Cwe : <<w, c>> \in d.links} \subseteq {w \in Cwe : <<w, c>> \in e.links}
      OBVIOUS
    <3>3. Len(GetCwes(d, c)) <= Len(GetCwes(e, c))
      BY <3>2, BrowseAssumption, KeepMonotone DEF GetCwes
    <3>4. Len(GetCwes(d, c)) \in Nat /\ Len(GetCwes(e, c)) \in Nat
      BY QueriesTyped, LenProperties
    <3>5. /\ Len(u) = IF c \in X THEN Len(GetCwes(d, c)) + 1 ELSE 1
          /\ Len(v) = IF c \in Y THEN Len(GetCwes(e, c)) + 1 ELSE 1
      BY <3>1, RowsOfCategory
    <3>6. QED BY <3>3, <3>4, <3>5
  <2>4. /\ Keep(Append(q, c), A) = IF c \in A THEN Append(Keep(q, A), c) ELSE Keep(q, A)
        /\ Keep(Append(q, c), B) = IF c \in B THEN Append(Keep(q, B), c) ELSE Keep(q, B)
    BY KeepAppend
  <2>5. /\ Rows(d, Append(Keep(q, A), c), X) = a \o u
        /\ Rows(e, Append(Keep(q, B), c), Y) = b \o v
    <3>1. \A r \in Seq(Cat) :
            /\ Rows(d, Append(r, c), X) = Rows(d, r, X) \o RowsOf(d, c, c \in X)
            /\ Rows(e, Append(r, c), Y) = Rows(e, r, Y) \o RowsOf(e, c, c \in Y)
      BY RowsAppend
    <3>2. QED BY <1>1, <3>1
  <2>6. Len(a) <= Len(b)
    BY <1>3
  <2>7. /\ Rows(d, Keep(Append(q, c), A), X) = IF c \in A THEN a \o u ELSE a
        /\ Rows(e, Keep(Append(q, c), B), Y) = IF c \in B THEN b \o v ELSE b
    BY <2>4, <2>5
  <2> HIDE DEF a, b, u, v
  <2>8. /\ Len(a \o u) = Len(a) + Len(u) /\ Len(b \o v) = Len(b) + Len(v)
        /\ Len(a) \in Nat /\ Len(b) \in Nat /\ Len(u) \in Nat /\ Len(v) \in Nat
    BY <2>2, ConcatProperties, LenProperties
  <2>9. Len(Rows(d, Keep(Append(q, c), A), X)) <= Len(Rows(e, Keep(Append(q, c), B), Y))
    BY <2>3, <2>6, <2>7, <2>8
  <2>10. QED BY <2>1, <2>9
<1>4. CatOrder \in P
  <2> HIDE DEF P
  <2>1. CatOrder \in Seq(Cat)
    BY BrowseAssumption
  <2>2. QED BY <1>2, <1>3, <2>1, SeqInduct
<1>5. QED BY <1>4

-----------------------------------------------------------------------------
(* The inductive invariant, a conjunction of parts.                        *)

\* A link is one that a sync makes, and inserted after its weakness; no row is
\* ever deleted.
DbInv ==
  /\ db \in CatalogType
  /\ \A l \in db.links : db.cwes[l[1]] > 0 /\ l[1] \in Rel[l[2]]

\* Everything in d is also in e.
Older(d, e) ==
  /\ d.links \subseteq e.links
  /\ StoredCats(d) \subseteq StoredCats(e)

\* The categories and the rows were each read from the database at some time:
\* the categories when they were loaded, the rows when they were rebuilt last.
TreeInv ==
  /\ expanded_categories \in SUBSET Cat
  /\ \E loaded, rebuilt \in CatalogType :
       /\ Older(loaded, db) /\ Older(rebuilt, db)
       /\ categories = GetCategories(loaded)
       /\ visible_nodes = Rows(rebuilt, categories, expanded_categories)

\* No more matches than an int counts.
MatchLists == {s \in Seq(0 .. IntMax) : Len(s) <= IntMax}

\* While the query is typed the cursor is on a match, and so on a row.
SearchInv ==
  /\ search_query \in Query \cup {NoQuery}
  /\ search_matches \in MatchLists
  /\ CurrentMatchIsAMatch
  /\ mode = "Search" /\ search_matches # << >> => cursor_index \in Indices

FilterInv ==
  /\ filter_query \in Query \cup {NoQuery}
  /\ filter_matches \in MatchLists
  /\ filter_active \in BOOLEAN
  /\ filter_navigation_active \in BOOLEAN
  /\ FilterIsShown

\* A CWE that is open, in whatever mode, is in the database.
DetailInv ==
  /\ mode \in Mode
  /\ active_cwe \in Cwe \cup {"none"}
  /\ active_cwe # "none" => db.cwes[active_cwe] > 0
  /\ mode = "Detail" => active_cwe # "none"

PaneInv ==
  /\ cursor_index \in Ints
  /\ tree_visible \in BOOLEAN
  /\ notification_pane_visible \in BOOLEAN
  /\ count_pending \in BOOLEAN
  /\ count_value \in Ints
  /\ CountOnlyInLists

BrowseInv ==
  DbInv /\ TreeInv /\ SearchInv /\ FilterInv /\ DetailInv /\ PaneInv

-----------------------------------------------------------------------------
(* What the steps have in common.                                          *)

\* The tree that TreeInv speaks of has rows.
LEMMA TreeTyped ==
  ASSUME TreeInv
  PROVE  categories \in Seq(Cat) /\ visible_nodes \in Seq(Node)
BY QueriesTyped, RowsTyped DEF TreeInv

\* The database changes by a sync only, and only grows.
LEMMA DbStep ==
  ASSUME DbInv, [Next]_vars
  PROVE  /\ DbInv'
         /\ Older(db, db')
         /\ \A w \in Cwe : db.cwes[w] > 0 => db'.cwes[w] > 0
         /\ SyncStores \/ db' = db
<1>1. CASE SyncStores
  <2>1. PICK c \in Cat :
          \/ db' = UpsertCategory(db, c, 1)
          \/ \E w \in Rel[c] : db' = UpsertCwe(db, w, 1)
          \/ \E w \in Rel[c] : db.cwes[w] > 0 /\ db' = LinkCweCategory(db, w, c)
    BY <1>1 DEF SyncStores
  <2>2. CASE db' = UpsertCategory(db, c, 1)
    BY <1>1, <2>2 DEF DbInv, CatalogType, UpsertCategory, Older, StoredCats
  <2>3. \A w \in Rel[c] : w \in Cwe
    BY BrowseAssumption
  <2>4. db \in CatalogType /\ \A l \in db.links : l[1] \in Cwe
    BY DEF DbInv, CatalogType
  <2>5. ASSUME NEW w \in Cwe, db' = UpsertCwe(db, w, 1)
        PROVE  /\ DbInv' /\ Older(db, db')
               /\ \A x \in Cwe : db.cwes[x] > 0 => db'.cwes[x] > 0
    <3>1. /\ db' \in CatalogType
          /\ db'.cats = db.cats /\ db'.links = db.links
          /\ db'.cwes = [db.cwes EXCEPT ![w] = 1]
      BY <2>4, <2>5 DEF CatalogType, UpsertCwe
    <3>2. db.cwes \in [Cwe -> Nat]
      BY <2>4 DEF CatalogType
    <3>3. \A x \in Cwe : db.cwes[x] > 0 => db'.cwes[x] > 0
      BY <3>1, <3>2
    <3>4. QED BY <2>4, <3>1, <3>3 DEF DbInv, Older, StoredCats
  <2>6. ASSUME NEW w \in Rel[c], db.cwes[w] > 0, db' = LinkCweCategory(db, w, c)
        PROVE  /\ DbInv' /\ Older(db, db')
               /\ \A x \in Cwe : db.cwes[x] > 0 => db'.cwes[x] > 0
    <3>1. <<w, c>> \in Cwe \X Cat
      BY <2>3
    <3>2. /\ db' \in CatalogType
          /\ db'.cats = db.cats /\ db'.cwes = db.cwes
          /\ db'.links = db.links \cup {<<w, c>>}
      BY <2>4, <2>6, <3>1 DEF CatalogType, LinkCweCategory
    <3>3. QED BY <2>6, <3>2 DEF DbInv, Older, StoredCats
  <2>7. QED BY <1>1, <2>1, <2>2, <2>3, <2>5, <2>6
<1>2. CASE db' = db
  BY <1>2 DEF DbInv, Older
<1>3. SyncStores \/ db' = db
  <2>1. CASE TreeDown \/ TreeUp \/ TreeTop \/ TreeBottom \/ PreviousCategory
               \/ FollowingCategory \/ FilterMove \/ Other
    BY <2>1 DEF TreeDown, TreeUp, TreeTop, TreeBottom, PreviousCategory,
                FollowingCategory, FilterMove, Other, MoveTo
  <2>2. CASE Open \/ Collapse \/ Left \/ Right \/ CollapseAll \/ ExpandAll
               \/ StartSearch \/ JumpToMatch
    BY <2>2 DEF Open, Collapse, Left, Right, CollapseAll, ExpandAll,
                StartSearch, JumpToMatch
  <2>3. CASE ReturnToDetail \/ SearchAccept \/ LeaveDetail \/ LeaveNotifications
               \/ StartCommand \/ RunCommand \/ ToggleTree \/ ToggleNotifications
    BY <2>3 DEF ReturnToDetail, SearchAccept, LeaveDetail, LeaveNotifications,
                StartCommand, RunCommand, ToggleTree, ToggleNotifications, Enter
  <2>4. CASE SearchType \/ StartFilter \/ FilterKey
    BY <2>4 DEF SearchType, StartFilter, FilterKey, FilterType, FilterAccept,
                FilterQuit, FilterEdit, FilterMove, FilterOpen, MoveTo
  <2>5. CASE Digit \/ Escape \/ SyncSucceeds \/ Quit \/ Dies
    BY <2>5 DEF Digit, Escape, SyncSucceeds, Quit, Dies, StartUp
  <2>6. CASE UNCHANGED vars
    BY <2>6 DEF vars
  <2>7. QED
    BY <2>1, <2>2, <2>3, <2>4, <2>5, <2>6 DEF Next, TreeKey, SearchKey, FilterKey
<1>4. QED BY <1>1, <1>2, <1>3

-----------------------------------------------------------------------------
(* ints.                                                                   *)

\* The outcome of an operation is an int, and exact if it does not overflow.
LEMMA AsIntIsInt ==
  ASSUME NEW n \in Int
  PROVE  AsInt(n) \in Ints /\ (n \in Ints => AsInt(n) = n)
<1> DEFINE k == 2 * (IntMax + 1)
           m == n + IntMax + 1
<1>1. IntMax \in Nat /\ k \in Nat /\ k > 0 /\ k = IntMax + 1 + IntMax + 1
      /\ m \in Int /\ m = n + IntMax + 1
  BY BrowseAssumption
<1>2. AsInt(n) = (m % k) - IntMax - 1
  BY DEF AsInt
<1> HIDE DEF m, k
<1>3. m % k \in 0 .. k - 1
  BY <1>1
<1>4. n \in Ints => m % k = m
  BY <1>1 DEF Ints
<1>5. QED BY <1>1, <1>2, <1>3, <1>4 DEF Ints

\* A movement is by at least one.
LEMMA TimesTyped == ASSUME PaneInv PROVE Times \in 1 .. IntMax
BY BrowseAssumption DEF PaneInv, Times, Ints

\* A tree, whichever of its categories are expanded, has no more rows than the
\* tree of the whole catalogue: their number is an int.
LEMMA RowsAreInts ==
  ASSUME DbInv, TreeInv
  PROVE  /\ Len(visible_nodes) <= IntMax
         /\ \A q \in {categories, GetCategories(db)}, X \in SUBSET Cat :
              /\ Rows(db, q, X) \in Seq(Node)
              /\ Len(Rows(db, q, X)) \in 0 .. IntMax
<1> DEFINE full == FullCatalog
           all == Rows(full, GetCategories(full), Cat)
<1>1. PICK loaded \in CatalogType, rebuilt \in CatalogType :
        /\ Older(loaded, db) /\ Older(rebuilt, db)
        /\ categories = GetCategories(loaded)
        /\ visible_nodes = Rows(rebuilt, categories, expanded_categories)
  BY DEF TreeInv
<1>2. full \in CatalogType /\ StoredCats(full) = Cat
  BY DEF FullCatalog, CatalogType, StoredCats
<1>3. db.links \subseteq full.links /\ rebuilt.links \subseteq full.links
  <2>1. \A l \in db.links : l \in Cwe \X Cat /\ l[1] \in Rel[l[2]]
    BY DEF DbInv, CatalogType
  <2>2. QED BY <1>1, <2>1 DEF FullCatalog, Older
<1>4. /\ GetCategories(loaded) = Keep(CatOrder, StoredCats(loaded))
      /\ GetCategories(db) = Keep(CatOrder, StoredCats(db))
      /\ GetCategories(full) = Keep(CatOrder, Cat)
      /\ StoredCats(loaded) \subseteq Cat /\ StoredCats(db) \subseteq Cat
  BY <1>2 DEF GetCategories, StoredCats
<1>5. Len(all) <= IntMax /\ IntMax \in Nat
  BY RowsFit, BrowseAssumption
<1>6. all \in Seq(Node)
  BY <1>2, QueriesTyped, RowsTyped
<1>7. categories \in Seq(Cat) /\ GetCategories(db) \in Seq(Cat) /\ db \in CatalogType
  BY TreeTyped, QueriesTyped DEF DbInv
<1> HIDE DEF full
<1>8. ASSUME NEW A \in SUBSET Cat, NEW d \in CatalogType, d.links \subseteq full.links,
             NEW X \in SUBSET Cat
      PROVE  Len(Rows(d, Keep(CatOrder, A), X)) <= Len(all)
  BY <1>2, <1>4, <1>8, RowsMonotone
<1> HIDE DEF all
<1>9. Len(all) \in Nat
  BY <1>6
<1>10. ASSUME NEW q \in {categories, GetCategories(db)}, NEW X \in SUBSET Cat
       PROVE  Rows(db, q, X) \in Seq(Node) /\ Len(Rows(db, q, X)) \in 0 .. IntMax
  <2>1. Rows(db, q, X) \in Seq(Node)
    BY <1>7, RowsTyped
  <2>2. Len(Rows(db, q, X)) <= Len(all)
    BY <1>1, <1>3, <1>4, <1>7, <1>8
  <2>3. Len(Rows(db, q, X)) \in Nat
    BY <2>1, LenProperties
  <2>4. QED BY <1>5, <1>9, <2>1, <2>2, <2>3
<1>11. Len(visible_nodes) <= IntMax
  <2>1. expanded_categories \in SUBSET Cat
    BY DEF TreeInv
  <2>2. Len(visible_nodes) <= Len(all)
    BY <1>1, <1>3, <1>4, <1>8, <2>1
  <2>3. Len(visible_nodes) \in Nat
    BY TreeTyped, LenProperties
  <2>4. QED BY <1>5, <1>9, <2>2, <2>3
<1>12. QED BY <1>10, <1>11

-----------------------------------------------------------------------------
(* Filter mode and the filter.                                             *)

\* What is kept of the positions are indices of rows.
LEMMA PositionsTyped ==
  ASSUME DbInv, TreeInv, NEW A, A \subseteq Indices
  PROVE  /\ Keep(Positions, A) \in MatchLists
         /\ Keep(Positions, A) \in Seq(Indices)
<1>1. Len(visible_nodes) \in Nat /\ Len(visible_nodes) <= IntMax /\ IntMax \in Nat
  BY TreeTyped, LenProperties, RowsAreInts, BrowseAssumption
<1>2. Positions \in Seq(Int) /\ Len(Positions) = Len(visible_nodes)
  BY <1>1 DEF Positions
<1>3. Keep(Positions, A) \in Seq(Int \cap A)
  BY <1>2, KeepTyped
<1>4. A \subseteq 0 .. IntMax /\ A \subseteq Int
  BY <1>1 DEF Indices
<1>5. Len(Keep(Positions, A)) <= Len(Positions)
  <2>1. Keep(Positions, Int) = Positions
    BY <1>2, KeepAll
  <2>2. QED BY <1>2, <1>4, <2>1, KeepMonotone
<1>6. Keep(Positions, A) \in Seq(0 .. IntMax) /\ Keep(Positions, A) \in Seq(Indices)
  BY <1>3, <1>4, SeqMonotonic
<1>7. Len(Keep(Positions, A)) \in Nat
  BY <1>6, LenProperties
<1>8. QED BY <1>1, <1>2, <1>5, <1>6, <1>7 DEF MatchLists

\* A list of matches is a sequence of numbers.
LEMMA MatchListTyped ==
  /\ << >> \in MatchLists
  /\ \A s \in MatchLists :
       /\ s \in Seq(Nat) /\ Len(s) \in 0 .. IntMax
       /\ \A i \in 1 .. Len(s) : s[i] \in 0 .. IntMax
<1>1. IntMax \in Nat
  BY BrowseAssumption
<1>2. << >> \in MatchLists
  BY <1>1, EmptySeq DEF MatchLists
<1>3. ASSUME NEW s \in MatchLists
      PROVE  /\ s \in Seq(Nat) /\ Len(s) \in 0 .. IntMax
             /\ \A i \in 1 .. Len(s) : s[i] \in 0 .. IntMax
  <2>1. s \in Seq(0 .. IntMax) /\ Len(s) <= IntMax
    BY DEF MatchLists
  <2>2. s \in Seq(Nat)
    <3>1. 0 .. IntMax \subseteq Nat
      OBVIOUS
    <3>2. QED BY <2>1, <3>1, SeqMonotonic
  <2>3. QED BY <1>1, <2>1, <2>2
<1>4. QED BY <1>2, <1>3

\* update_filter_matches() yields a list of rows.
LEMMA UpdateFilterTyped ==
  ASSUME DbInv, TreeInv, NEW q \in Query \cup {NoQuery}, UpdateFilter(q)
  PROVE  filter_query' = q /\ filter_matches' \in MatchLists
<1>1. Keep(Positions, Indices \ Headers) \in MatchLists
  BY PositionsTyped
<1>2. Matching({"Weakness"}, q) \in MatchLists
  <2> DEFINE A == {i \in Indices : /\ visible_nodes[i + 1].kind \in {"Weakness"}
                                  /\ Hit(q, visible_nodes[i + 1])}
  <2>1. A \subseteq Indices
    OBVIOUS
  <2> HIDE DEF A
  <2>2. Keep(Positions, A) \in MatchLists
    BY <2>1, PositionsTyped
  <2>3. QED BY <2>2 DEF Matching, A
<1>3. QED BY <1>1, <1>2 DEF UpdateFilter

\* A step that leaves the filter alone enters its mode only where it is active.
LEMMA FilterFrame ==
  ASSUME UNCHANGED filterVars, FilterInv,
         mode' = "Filter" => mode = "Filter" \/ filter_active
  PROVE  FilterInv'
BY DEF filterVars, FilterInv, FilterIsShown

\* No key, sync or start separates filter mode, the filtered view, the query
\* and the matches.
LEMMA FilterStep ==
  ASSUME DbInv, TreeInv, FilterInv, [Next]_vars
  PROVE  FilterInv'
<1>1. CASE TreeDown \/ TreeUp \/ TreeTop \/ TreeBottom \/ PreviousCategory
             \/ FollowingCategory \/ FilterMove \/ Other
  BY <1>1, FilterFrame DEF TreeDown, TreeUp, TreeTop, TreeBottom, PreviousCategory,
              FollowingCategory, FilterMove, Other, MoveTo
<1>2. CASE Open \/ Collapse \/ Left \/ Right \/ CollapseAll \/ ExpandAll
             \/ StartSearch \/ JumpToMatch \/ FilterOpen
  BY <1>2, FilterFrame DEF Open, Collapse, Left, Right, CollapseAll, ExpandAll,
              StartSearch, JumpToMatch, OpenCwe, FilterOpen
<1>3. CASE ReturnToDetail \/ SearchAccept \/ LeaveDetail \/ LeaveNotifications
             \/ StartCommand \/ RunCommand \/ ToggleTree \/ ToggleNotifications
  BY <1>3, FilterFrame DEF ReturnToDetail, SearchAccept, LeaveDetail,
              LeaveNotifications, StartCommand, RunCommand, ToggleTree,
              ToggleNotifications, Enter
<1>4. CASE SearchType
  BY <1>4, FilterFrame DEF SearchType
<1>5. CASE StartFilter
  BY <1>5, UpdateFilterTyped DEF StartFilter, FilterInv, FilterIsShown
<1>6. CASE FilterType
  <2>1. PICK q \in Query \cup {NoQuery} : UpdateFilter(q)
    BY <1>6 DEF FilterType
  <2>2. QED BY <1>6, <2>1, UpdateFilterTyped DEF FilterType, FilterInv, FilterIsShown
<1>7. CASE FilterAccept \/ FilterQuit \/ FilterEdit
  <2>1. << >> \in MatchLists
    BY MatchListTyped
  <2>2. CASE DropFilter
    BY <2>1, <2>2 DEF DropFilter, FilterInv, FilterIsShown
  <2>3. CASE FilterAccept /\ ~DropFilter
    <3>1. /\ mode = "Filter" /\ filter_query # NoQuery
          /\ filter_navigation_active' = TRUE
          /\ filter_query' = filter_query /\ filter_matches' = filter_matches
          /\ filter_active' = filter_active /\ mode' = mode
      BY <2>3 DEF FilterAccept
    <3>2. filter_active
      BY <3>1 DEF FilterInv, FilterIsShown
    <3>3. QED BY <3>1, <3>2 DEF FilterInv, FilterIsShown
  <2>4. CASE FilterEdit
    BY <2>4 DEF FilterEdit, FilterInv, FilterIsShown
  <2>5. QED BY <1>7, <2>2, <2>3, <2>4 DEF FilterQuit
<1>8. CASE Digit \/ Escape \/ SyncStores \/ SyncSucceeds
  BY <1>8, FilterFrame DEF Digit, Escape, SyncStores, SyncSucceeds
<1>9. CASE StartUp(db)
  <2>1. << >> \in MatchLists
    BY MatchListTyped
  <2>2. QED BY <1>9, <2>1 DEF StartUp, FilterInv, FilterIsShown
<1>10. CASE UNCHANGED vars
  BY <1>10, FilterFrame DEF vars
<1>11. QED
  BY <1>1, <1>2, <1>3, <1>4, <1>5, <1>6, <1>7, <1>8, <1>9, <1>10
     DEF Next, TreeKey, SearchKey, FilterKey, Quit, Dies

-----------------------------------------------------------------------------
(* The detail pane.                                                        *)

\* The ways into the detail pane that open no CWE need one that is open.
LEMMA DetailFrame ==
  ASSUME DetailInv, DbInv, [Next]_vars,
         active_cwe' \in {active_cwe, "none"},
         mode' \in Mode,
         mode' = "Detail" => active_cwe' # "none"
  PROVE  DetailInv'
<1>1. \A w \in Cwe : db.cwes[w] > 0 => db'.cwes[w] > 0
  BY DbStep
<1>2. QED BY <1>1 DEF DetailInv

\* Opening a CWE.
LEMMA OpenStep ==
  ASSUME DetailInv, DbInv, [Next]_vars, NEW w, OpenCwe(w)
  PROVE  DetailInv'
<1>1. \A x \in Cwe : db.cwes[x] > 0 => db'.cwes[x] > 0
  BY DbStep
<1>2. w \in Cwe => w # "none"
  BY BrowseAssumption
<1>3. CASE w \in Cwe /\ db.cwes[w] > 0
  BY <1>1, <1>2, <1>3 DEF OpenCwe, DetailInv, Mode
<1>4. CASE ~(w \in Cwe /\ db.cwes[w] > 0)
  BY <1>1, <1>4 DEF OpenCwe, DetailInv
<1>5. QED BY <1>3, <1>4

\* A row that is no category is a weakness.
LEMMA NodeTyped ==
  ASSUME NEW n \in Node
  PROVE  /\ n.kind \in {"Category", "Weakness"}
         /\ n.kind = "Category" => n.id \in Cat
         /\ n.kind = "Weakness" => n.id \in Cwe
         /\ n.category_id \in Cat
BY DEF Node

\* Every way into the detail pane goes through a stored CWE, and no row is lost
\* while it is open.
LEMMA DetailStep ==
  ASSUME DbInv, TreeInv, DetailInv, [Next]_vars
  PROVE  DetailInv'
<1>1. mode \in Mode
  BY DEF DetailInv
<1>2. CASE UNCHANGED <<active_cwe, mode>>
  BY <1>1, <1>2, DetailFrame DEF DetailInv
<1>3. CASE Open \/ Right \/ FilterOpen
  <2>1. UNCHANGED <<active_cwe, mode>> \/ \E w : OpenCwe(w)
    BY <1>3 DEF Open, Right, FilterOpen
  <2>2. QED BY <1>2, <2>1, OpenStep
<1>4. CASE ReturnToDetail \/ SearchAccept \/ LeaveDetail \/ LeaveNotifications
             \/ StartCommand \/ ToggleTree \/ ToggleNotifications
  <2>1. /\ active_cwe' \in {active_cwe, "none"}
        /\ \/ UNCHANGED <<mode, active_cwe>>
           \/ mode' = "Detail" /\ active_cwe' # "none"
           \/ mode' \in Mode \ {"Detail"}
    BY <1>4 DEF ReturnToDetail, SearchAccept, LeaveDetail, LeaveNotifications,
         StartCommand, ToggleTree, ToggleNotifications, Enter, Mode
  <2>2. mode' \in Mode /\ (mode' = "Detail" => active_cwe' # "none")
    BY <1>1, <2>1 DEF DetailInv, Mode
  <2>3. QED BY <2>1, <2>2, DetailFrame
<1>5. CASE RunCommand
  <2>1. CASE Enter("Tree") /\ UNCHANGED active_cwe
    BY <2>1, DetailFrame DEF Enter, Mode
  <2>2. ASSUME NEW w \in Cwe, db.cwes[w] > 0, Enter("Detail"), active_cwe' = w
        PROVE  DetailInv'
    <3>1. OpenCwe(w)
      BY <2>2 DEF OpenCwe, Enter
    <3>2. QED BY <3>1, OpenStep
  <2>3. QED BY <1>5, <2>1, <2>2 DEF RunCommand
<1>6. CASE StartSearch \/ StartFilter \/ FilterAccept \/ FilterQuit
  BY <1>1, <1>2, <1>6, DetailFrame
     DEF StartSearch, StartFilter, FilterAccept, FilterQuit, DropFilter, Mode
<1>7. CASE Escape
  BY <1>1, <1>7, DetailFrame DEF Escape, Mode
<1>8. CASE StartUp(db)
  BY <1>8, DetailFrame DEF StartUp, Mode
<1>9. CASE TreeDown \/ TreeUp \/ TreeTop \/ TreeBottom \/ PreviousCategory
             \/ FollowingCategory \/ FilterMove \/ Other
  BY <1>2, <1>9 DEF TreeDown, TreeUp, TreeTop, TreeBottom, PreviousCategory,
                    FollowingCategory, FilterMove, Other, MoveTo
<1>10. CASE Collapse \/ Left \/ CollapseAll \/ ExpandAll \/ JumpToMatch
              \/ SearchType \/ FilterType \/ FilterEdit \/ Digit
  BY <1>2, <1>10 DEF Collapse, Left, CollapseAll, ExpandAll, JumpToMatch,
                     SearchType, FilterType, FilterEdit, Digit
<1>11. CASE SyncStores \/ SyncSucceeds \/ UNCHANGED vars
  BY <1>2, <1>11 DEF SyncStores, SyncSucceeds, vars
<1>12. QED
  BY <1>3, <1>4, <1>5, <1>6, <1>7, <1>8, <1>9, <1>10, <1>11
     DEF Next, TreeKey, SearchKey, FilterKey, Quit, Dies

-----------------------------------------------------------------------------
(* The prefix count and the flags of the panes.                            *)

\* Every way out of the list-like contexts ends the count.
LEMMA CountStep ==
  ASSUME PaneInv, [Next]_vars
  PROVE  count_pending' \in BOOLEAN /\ count_value' \in Ints /\ CountOnlyInLists'
<1>1. 0 \in Ints /\ Ints \subseteq Int
  BY BrowseAssumption DEF Ints
<1>2. CASE ClearCount
  BY <1>1, <1>2 DEF ClearCount, CountOnlyInLists
<1>3. CASE UNCHANGED <<countVars, mode, filter_navigation_active>>
  BY <1>3 DEF PaneInv, CountOnlyInLists, ListLike, countVars
<1>4. CASE Digit
  <2>1. PICK d \in Digits : count_value' = AsInt(AsInt(count_value * 10) + d)
    BY <1>4 DEF Digit
  <2>2. count_value * 10 \in Int /\ d \in Int
    BY <1>1, BrowseAssumption DEF PaneInv
  <2>3. AsInt(count_value * 10) \in Int
    BY <1>1, <2>2, AsIntIsInt
  <2>4. AsInt(count_value * 10) + d \in Int
    <3> DEFINE t == AsInt(count_value * 10)
    <3>1. t \in Int
      BY <2>3
    <3> HIDE DEF t
    <3>2. t + d \in Int
      BY <2>2, <3>1
    <3>3. QED BY <3>2 DEF t
  <2>5. count_value' \in Ints
    BY <2>1, <2>4, AsIntIsInt
  <2>6. count_pending' \in BOOLEAN /\ CountOnlyInLists'
    BY <1>4 DEF Digit, CountOnlyInLists, ListLike, filterVars
  <2>7. QED BY <2>5, <2>6
<1>5. CASE Escape
  BY <1>5 DEF Escape, PaneInv, CountOnlyInLists, ListLike, filterVars, countVars
<1>6. CASE TreeKey
  BY <1>2, <1>6
     DEF TreeKey, TreeDown, TreeUp, TreeTop, TreeBottom, PreviousCategory,
         FollowingCategory, Open, Collapse, Left, ReturnToDetail, Right,
         CollapseAll, ExpandAll, StartSearch, JumpToMatch, MoveTo, Enter
<1>7. CASE SearchKey
  BY <1>2, <1>7 DEF SearchKey, SearchType, SearchAccept, StartFilter, Enter
<1>8. CASE FilterKey
  BY <1>2, <1>3, <1>8
     DEF FilterKey, FilterType, FilterAccept, FilterQuit, FilterEdit,
         FilterMove, FilterOpen, MoveTo
<1>9. CASE LeaveDetail \/ LeaveNotifications \/ StartCommand \/ RunCommand
             \/ ToggleTree \/ ToggleNotifications \/ Other \/ StartUp(db)
  BY <1>2, <1>9 DEF LeaveDetail, LeaveNotifications, StartCommand, RunCommand,
             ToggleTree, ToggleNotifications, Other, MoveTo, Enter, StartUp
<1>10. CASE SyncStores \/ SyncSucceeds \/ UNCHANGED vars
  BY <1>3, <1>10 DEF SyncStores, SyncSucceeds, vars, filterVars
<1>11. QED
  BY <1>4, <1>5, <1>6, <1>7, <1>8, <1>9, <1>10 DEF Next, Quit, Dies

\* The flags of the panes stay flags.
LEMMA FlagStep ==
  ASSUME PaneInv, [Next]_vars
  PROVE  /\ tree_visible' \in BOOLEAN
         /\ notification_pane_visible' \in BOOLEAN
<1>1. tree_visible \in BOOLEAN /\ notification_pane_visible \in BOOLEAN
  BY DEF PaneInv
<1>2. CASE UNCHANGED paneVars
  BY <1>1, <1>2 DEF paneVars
<1>3. CASE TreeKey
  BY <1>2, <1>3
     DEF TreeKey, TreeDown, TreeUp, TreeTop, TreeBottom, PreviousCategory,
         FollowingCategory, Open, Collapse, Left, ReturnToDetail, Right,
         CollapseAll, ExpandAll, StartSearch, JumpToMatch, MoveTo
<1>4. CASE SearchKey \/ FilterKey
  BY <1>2, <1>4
     DEF SearchKey, SearchType, SearchAccept, StartFilter, FilterKey, FilterType,
         FilterAccept, FilterQuit, FilterEdit, FilterMove, FilterOpen, MoveTo
<1>5. CASE ToggleTree \/ ToggleNotifications
  BY <1>1, <1>5 DEF ToggleTree, ToggleNotifications
<1>6. CASE StartCommand \/ RunCommand \/ Escape \/ Digit \/ Other
             \/ LeaveDetail \/ LeaveNotifications
  BY <1>2, <1>6 DEF StartCommand, RunCommand, Escape, Digit, Other,
             LeaveDetail, LeaveNotifications, MoveTo
<1>7. CASE SyncStores \/ SyncSucceeds \/ UNCHANGED vars
  BY <1>2, <1>7 DEF SyncStores, SyncSucceeds, vars
<1>8. CASE StartUp(db)
  BY <1>8 DEF StartUp
<1>9. QED
  BY <1>3, <1>4, <1>5, <1>6, <1>7, <1>8 DEF Next, Quit, Dies

-----------------------------------------------------------------------------
(* The cursor: an int, and on a match while a query is typed.               *)

\* A position that SelectInSeq finds is one of the sequence, 0 stands for none.
LEMMA PositionsFound ==
  /\ \A s \in Seq(Nat), k \in Int :
       FirstFrom(s, k) \in 0 .. Len(s)
  /\ \A s \in Seq(Node) : \A c : HeaderOf(s, c) \in 0 .. Len(s)
  /\ filter_matches \in Seq(Nat) /\ filter_matches # << >>
       => CurrentMatch \in 1 .. Len(filter_matches)
<1>1. ASSUME NEW s \in Seq(Nat), NEW k \in Int PROVE FirstFrom(s, k) \in 0 .. Len(s)
  <2> DEFINE I == {i \in 1 .. Len(s) : s[i] >= k}
  <2>1. I \in SUBSET (1 .. Len(s)) /\ Len(s) \in Nat
    OBVIOUS
  <2>2. FirstFrom(s, k) = IF I # {} THEN Min(I) ELSE 0
    BY DEF FirstFrom, SelectInSeq
  <2> HIDE DEF I
  <2>3. I # {} => Min(I) \in I
    BY <2>1, FirstIndex
  <2>4. CASE I = {}
    BY <2>1, <2>2, <2>4
  <2>5. CASE I # {}
    <3>1. Min(I) \in 1 .. Len(s)
      BY <2>1, <2>3, <2>5
    <3>2. FirstFrom(s, k) = Min(I)
      BY <2>2, <2>5
    <3>3. 1 .. Len(s) \subseteq 0 .. Len(s)
      OBVIOUS
    <3>4. QED BY <3>1, <3>2, <3>3
  <2>6. QED BY <2>4, <2>5
<1>2. ASSUME NEW s \in Seq(Node), NEW c PROVE HeaderOf(s, c) \in 0 .. Len(s)
  <2> DEFINE I == {i \in 1 .. Len(s) : s[i].kind = "Category" /\ s[i].id = c}
  <2>1. I \in SUBSET (1 .. Len(s)) /\ Len(s) \in Nat
    OBVIOUS
  <2>2. HeaderOf(s, c) = IF I # {} THEN Min(I) ELSE 0
    BY DEF HeaderOf, SelectInSeq
  <2> HIDE DEF I
  <2>3. I # {} => Min(I) \in I
    BY <2>1, FirstIndex
  <2>4. CASE I = {}
    BY <2>1, <2>2, <2>4
  <2>5. CASE I # {}
    <3>1. Min(I) \in 1 .. Len(s)
      BY <2>1, <2>3, <2>5
    <3>2. HeaderOf(s, c) = Min(I)
      BY <2>2, <2>5
    <3>3. 1 .. Len(s) \subseteq 0 .. Len(s)
      OBVIOUS
    <3>4. QED BY <3>1, <3>2, <3>3
  <2>6. QED BY <2>4, <2>5
<1>3. ASSUME filter_matches \in Seq(Nat), filter_matches # << >>
      PROVE  CurrentMatch \in 1 .. Len(filter_matches)
  <2> DEFINE s == filter_matches
             I == {i \in 1 .. Len(s) : s[i] = cursor_index}
  <2>1. I \in SUBSET (1 .. Len(s)) /\ Len(s) \in Nat \ {0}
    BY <1>3
  <2>2. CurrentMatch = Larger(1, IF I # {} THEN Min(I) ELSE 0)
    BY DEF CurrentMatch, SelectInSeq
  <2> HIDE DEF I, s
  <2>3. I # {} => Min(I) \in I
    BY <2>1, FirstIndex
  <2>4. QED BY <2>1, <2>2, <2>3 DEF Larger, s
<1>4. QED BY <1>1, <1>2, <1>3

\* The greatest and the least of a set of indices.
LEMMA Extremes ==
  ASSUME NEW N \in Nat, NEW T \in SUBSET (0 .. N), T # {}
  PROVE  Max(T) \in T /\ Min(T) \in T
<1>1. PICK n \in T : \A m \in T : n <= m
  <2>1. T \in SUBSET Nat
    OBVIOUS
  <2>2. QED BY <2>1, Least
<1>2. PICK k \in {N - m : m \in T} : \A m \in {N - m : m \in T} : k <= m
  <2> DEFINE U == {N - m : m \in T}
  <2>1. U \in SUBSET Nat /\ U # {}
    <3>1. \A m \in T : N - m \in Nat
      OBVIOUS
    <3>2. QED BY <3>1, Zenon
  <2> HIDE DEF U
  <2>2. \E k \in U : \A m \in U : k <= m
    BY <2>1, Least
  <2>3. QED BY <2>2 DEF U
<1>3. \E n1 \in T : \A m \in T : n1 >= m
  <2>1. PICK n2 \in T : k = N - n2
    BY <1>2
  <2>2. \A m \in T : N - n2 <= N - m
    BY <1>2, <2>1
  <2>3. \A m \in T : n2 >= m
    BY <2>2
  <2>4. QED BY <2>3
<1>4. QED BY <1>1, <1>3 DEF Max, Min

\* A rebuild leaves the cursor where it is, if that is still a row.
LEMMA RebuildMovesCursor ==
  ASSUME DbInv, TreeInv, cursor_index \in Int,
         NEW q \in {categories, GetCategories(db)}, NEW X \in SUBSET Cat
  PROVE  /\ Clamp(cursor_index, Rows(db, q, X)) \in 0 .. IntMax
         /\ cursor_index \in 0 .. Len(Rows(db, q, X)) - 1
              => Clamp(cursor_index, Rows(db, q, X)) = cursor_index
<1> DEFINE n == Len(Rows(db, q, X))
<1>1. n \in 0 .. IntMax /\ IntMax \in Nat
  BY RowsAreInts, BrowseAssumption
<1>2. Clamp(cursor_index, Rows(db, q, X))
        = IF cursor_index <= n - 1 THEN (IF 0 >= cursor_index THEN 0 ELSE cursor_index)
                                   ELSE (IF 0 >= n - 1 THEN 0 ELSE n - 1)
  BY <1>1 DEF Clamp, Larger, Smaller
<1> HIDE DEF n
<1>3. QED BY <1>1, <1>2 DEF n

\* What update_search_matches() does, over whatever is found.
LEMMA UpdateSearchStep ==
  ASSUME DbInv, TreeInv, cursor_index \in Ints, NEW q, UpdateSearch(q)
  PROVE  /\ search_query' = q
         /\ search_matches' \in MatchLists
         /\ search_match_idx' \in -1 .. Len(search_matches') - 1
         /\ search_match_idx' = -1 <=> search_matches' = << >>
         /\ cursor_index' \in Ints
         /\ search_matches' # << >>
              => /\ cursor_index' = search_matches'[search_match_idx' + 1]
                 /\ cursor_index' \in Indices
<1> DEFINE both == {"Category", "Weakness"}
           A == {i \in Indices : /\ visible_nodes[i + 1].kind \in both
                                 /\ Hit(q, visible_nodes[i + 1])}
           found == IF q = NoQuery THEN << >> ELSE Matching(both, q)
           ahead == FirstFrom(found, cursor_index)
<1>1. /\ Len(visible_nodes) \in Nat /\ Len(visible_nodes) <= IntMax
      /\ IntMax \in Nat /\ cursor_index \in Int
  BY TreeTyped, LenProperties, RowsAreInts, BrowseAssumption DEF Ints
<1>2. found \in MatchLists /\ found \in Seq(Indices) /\ found \in Seq(Nat)
  <2>1. A \subseteq Indices
    OBVIOUS
  <2>2. Matching(both, q) = Keep(Positions, A)
    BY DEF Matching
  <2> HIDE DEF A
  <2>3. Matching(both, q) \in MatchLists /\ Matching(both, q) \in Seq(Indices)
    BY <2>1, <2>2, PositionsTyped
  <2>4. << >> \in MatchLists /\ << >> \in Seq(Indices)
    BY MatchListTyped, EmptySeq
  <2>5. QED BY <2>3, <2>4, MatchListTyped
<1>3. /\ search_query' = q
      /\ search_matches' = found
      /\ search_match_idx' = IF found = << >> THEN -1 ELSE Larger(0, ahead - 1)
      /\ cursor_index' = IF found = << >> THEN cursor_index ELSE found[Larger(1, ahead)]
  BY DEF UpdateSearch
<1> HIDE DEF found, ahead
<1>4. ahead \in 0 .. Len(found)
  BY <1>1, <1>2, PositionsFound DEF ahead
<1>5. CASE found = << >>
  <2>1. Len(found) = 0
    BY <1>5
  <2>2. QED BY <1>2, <1>3, <1>5, <2>1
<1>6. CASE found # << >>
  <2>1. Len(found) \in Nat \ {0}
    BY <1>2, <1>6
  <2>2. /\ Larger(0, ahead - 1) \in 0 .. Len(found) - 1
        /\ Larger(0, ahead - 1) + 1 = Larger(1, ahead)
        /\ Larger(1, ahead) \in 1 .. Len(found)
    BY <1>4, <2>1 DEF Larger
  <2>3. found[Larger(1, ahead)] \in Indices
    BY <1>2, <2>2
  <2>4. found[Larger(1, ahead)] \in Ints
    BY <1>1, <2>3 DEF Indices, Ints
  <2>5. QED BY <1>2, <1>3, <1>6, <2>1, <2>2, <2>3, <2>4
<1>7. QED BY <1>5, <1>6

\* n and N go to a match.
LEMMA JumpStep ==
  ASSUME search_matches \in Seq(Nat), cursor_index \in Int, JumpToMatch
  PROVE  \E m \in 1 .. Len(search_matches) :
           /\ search_match_idx' = m - 1
           /\ cursor_index' = search_matches[m]
<1> DEFINE next == FirstFrom(search_matches, cursor_index + 1)
           prev == FirstFrom(search_matches, cursor_index) - 1
<1>1. PICK m \in {IF next = 0 THEN 1 ELSE next,
                  IF prev \in {-1, 0} THEN Len(search_matches) ELSE prev} :
        search_match_idx' = m - 1 /\ cursor_index' = search_matches[m]
  BY DEF JumpToMatch
<1>2. Len(search_matches) \in Nat \ {0}
  BY DEF JumpToMatch
<1>3. next \in 0 .. Len(search_matches) /\ prev + 1 \in 0 .. Len(search_matches)
  <2>1. cursor_index + 1 \in Int /\ cursor_index \in Int
    OBVIOUS
  <2>2. FirstFrom(search_matches, cursor_index) \in 0 .. Len(search_matches)
    BY <2>1, PositionsFound
  <2>3. next \in 0 .. Len(search_matches)
    BY <2>1, PositionsFound
  <2>4. QED BY <1>2, <2>2, <2>3
<1> HIDE DEF next, prev
<1>4. prev \in Int
  <2>1. FirstFrom(search_matches, cursor_index) \in 0 .. Len(search_matches)
    BY PositionsFound
  <2>2. QED BY <2>1 DEF prev
<1>5. m \in 1 .. Len(search_matches)
  BY <1>1, <1>2, <1>3, <1>4
<1>6. QED BY <1>1, <1>5

\* Over the matches of a filter j and k go to one of them, unless the count is
\* so large that j overflows.
LEMMA FilterMoveStep ==
  ASSUME FilterInv, PaneInv, FilterMove
  PROVE  /\ cursor_index' \in Ints
         /\ \/ MatchOverflows
            \/ \E m \in 1 .. Len(filter_matches) : cursor_index' = filter_matches[m]
<1> DEFINE last == Len(filter_matches) - 1
           at == CurrentMatch - 1
           down == AsInt(at + Times)
           up == AsInt(at - Times)
<1>1. /\ IntMax \in Nat /\ Times \in 1 .. IntMax
      /\ \A i \in Int : i \in Ints <=> -IntMax - 1 <= i /\ i <= IntMax
  BY BrowseAssumption, TimesTyped DEF Ints
<1>2. /\ filter_matches \in Seq(Nat) /\ filter_matches # << >>
      /\ Len(filter_matches) \in 1 .. IntMax
      /\ \A i \in 1 .. Len(filter_matches) : filter_matches[i] \in 0 .. IntMax
  BY MatchListTyped DEF FilterMove, InMatches, FilterInv
<1>3. at \in 0 .. last /\ last \in 0 .. IntMax - 1
  <2>1. CurrentMatch \in 1 .. Len(filter_matches)
    BY <1>2, PositionsFound
  <2>2. QED BY <1>1, <1>2, <2>1
<1>4. PICK m \in {Smaller(down, last), Larger(up, 0), 0, last} :
        cursor_index' \in MatchAt(m)
  BY DEF FilterMove, MoveTo
<1>5. MatchOverflows <=> at + Times > IntMax
  BY DEF MatchOverflows, FilterMove
<1> HIDE DEF last, at
<1>6. at + Times \in Int /\ at - Times \in Ints /\ at - Times <= at
  BY <1>1, <1>3
<1>7. /\ down \in Ints /\ up = at - Times
      /\ ~MatchOverflows => down = at + Times
  BY <1>1, <1>3, <1>5, <1>6, AsIntIsInt
<1> HIDE DEF down, up
<1>8. m \in Int /\ m <= last /\ (m >= 0 \/ MatchOverflows)
  <2>1. down \in Int /\ up \in Int /\ up <= last /\ (down >= 0 \/ MatchOverflows)
    BY <1>1, <1>3, <1>6, <1>7 DEF Ints
  <2>2. CASE m = Smaller(down, last)
    BY <1>3, <2>1, <2>2 DEF Smaller
  <2>3. CASE m = Larger(up, 0)
    BY <1>3, <2>1, <2>3 DEF Larger
  <2>4. QED BY <1>3, <1>4, <2>2, <2>3
<1>9. CASE m < 0
  BY <1>4, <1>8, <1>9 DEF MatchAt
<1>10. CASE ~(m < 0)
  <2>1. m + 1 \in 1 .. Len(filter_matches)
    BY <1>2, <1>8, <1>10 DEF last
  <2>2. cursor_index' = filter_matches[m + 1]
    BY <1>4, <1>10 DEF MatchAt
  <2>3. QED BY <1>1, <1>2, <2>1, <2>2
<1>11. QED BY <1>9, <1>10

\* The cursor stays an int.
LEMMA CursorStep ==
  ASSUME DbInv, TreeInv, SearchInv, FilterInv, PaneInv, [Next]_vars
  PROVE  cursor_index' \in Ints
<1> DEFINE n == Len(visible_nodes)
<1>1. /\ n \in 0 .. IntMax /\ n \in Nat /\ IntMax \in Nat /\ Times \in 1 .. IntMax
      /\ cursor_index \in Int /\ cursor_index \in Ints
      /\ \A i \in Int : i \in Ints <=> -IntMax - 1 <= i /\ i <= IntMax
      /\ visible_nodes \in Seq(Node)
      /\ InTree => n # 0
  <2>1. visible_nodes \in Seq(Node) /\ n <= IntMax /\ n \in Nat /\ IntMax \in Nat
    BY TreeTyped, RowsAreInts, BrowseAssumption
  <2>2. QED BY <2>1, TimesTyped DEF InTree, PaneInv, Ints
<1>2. \A i \in Int : AsInt(i) \in Int /\ AsInt(i) \in Ints
  BY AsIntIsInt DEF Ints
<1> HIDE DEF n
<1>3. CASE UNCHANGED cursor_index
  BY <1>1, <1>3
<1>4. ASSUME NEW q \in {categories, GetCategories(db)}, NEW X \in SUBSET Cat,
             cursor_index' = Clamp(cursor_index, Rows(db, q, X))
      PROVE  cursor_index' \in Ints
  BY <1>1, <1>4, RebuildMovesCursor
<1>5. ASSUME NEW X, Expand(X) PROVE cursor_index' \in Ints
  <2>1. X \cap Cat \in SUBSET Cat
    OBVIOUS
  <2>2. QED BY <1>4, <1>5, <2>1 DEF Expand, Rebuild
<1>6. CASE TreeDown \/ TreeUp \/ TreeTop \/ TreeBottom
  <2>1. /\ cursor_index + Times \in Int /\ cursor_index - Times \in Int
        /\ n - 1 \in 0 .. IntMax
    BY <1>1, <1>6 DEF TreeDown, TreeUp, TreeTop, TreeBottom
  <2>2. cursor_index' \in {AsInt(cursor_index + Times), AsInt(cursor_index - Times),
                           0, n - 1}
    BY <1>6 DEF TreeDown, TreeUp, TreeTop, TreeBottom, MoveTo, Larger, Smaller, n
  <2>3. QED BY <1>1, <1>2, <2>1, <2>2
<1>7. CASE PreviousCategory
  <2> DEFINE from == AsInt(cursor_index - 1)
             above == {i \in Headers : i <= from}
  <2>1. cursor_index' \in (n .. from)
                             \cup {IF above = {} THEN cursor_index ELSE Max(above)}
    BY <1>7 DEF PreviousCategory, MoveTo, n
  <2>2. above \in SUBSET (0 .. n)
    BY <1>1 DEF Headers, Indices, n
  <2>3. from \in Int /\ from \in Ints
    BY <1>1, <1>2
  <2> HIDE DEF above, from
  <2>4. above # {} => Max(above) \in above
    BY <1>1, <2>2, Extremes
  <2>5. QED BY <1>1, <2>1, <2>2, <2>3, <2>4
<1>8. CASE FollowingCategory
  <2> DEFINE from == AsInt(cursor_index + 1)
             below == {i \in Headers : i >= from}
  <2>1. cursor_index' \in (from .. -1)
                             \cup {IF below = {} THEN cursor_index ELSE Min(below)}
    BY <1>8 DEF FollowingCategory, MoveTo
  <2>2. below \in SUBSET (0 .. n)
    BY <1>1 DEF Headers, Indices, n
  <2>3. from \in Int /\ from \in Ints
    BY <1>1, <1>2
  <2> HIDE DEF below, from
  <2>4. below # {} => Min(below) \in below
    BY <1>1, <2>2, Extremes
  <2>5. QED BY <1>1, <2>1, <2>2, <2>3, <2>4
<1>9. CASE Open \/ Right \/ CollapseAll \/ ExpandAll \/ StartSearch
  BY <1>3, <1>5, <1>9 DEF Open, Right, CollapseAll, ExpandAll, StartSearch
<1>10. CASE Left
  <2>1. PICK node : \/ UNCHANGED cursor_index
                    \/ \E X : Expand(X)
                    \/ LET header == HeaderOf(visible_nodes, node.category_id)
                       IN cursor_index' = IF header = 0 THEN cursor_index ELSE header - 1
    BY <1>10 DEF Left
  <2>2. HeaderOf(visible_nodes, node.category_id) \in 0 .. n
    BY <1>1, PositionsFound DEF n
  <2>3. QED BY <1>1, <1>3, <1>5, <2>1, <2>2
<1>11. CASE Collapse
  <2>1. PICK c :
          LET rows == Rows(db, categories, expanded_categories \ {c})
              header == HeaderOf(rows, c)
          IN cursor_index' = IF header = 0 THEN Clamp(cursor_index, rows) ELSE header - 1
    BY <1>11 DEF Collapse
  <2> DEFINE X == expanded_categories \ {c}
  <2>2. X \in SUBSET Cat
    BY DEF TreeInv
  <2> HIDE DEF X
  <2>3. /\ Rows(db, categories, X) \in Seq(Node)
        /\ Len(Rows(db, categories, X)) \in 0 .. IntMax
    BY <2>2, RowsAreInts
  <2>4. HeaderOf(Rows(db, categories, X), c) \in 0 .. Len(Rows(db, categories, X))
    BY <2>3, PositionsFound
  <2>5. Clamp(cursor_index, Rows(db, categories, X)) \in 0 .. IntMax
    BY <1>1, <2>2, RebuildMovesCursor
  <2>6. QED BY <1>1, <2>1, <2>3, <2>4, <2>5 DEF X
<1>12. CASE JumpToMatch
  <2>1. search_matches \in MatchLists
    BY DEF SearchInv
  <2>2. PICK m \in 1 .. Len(search_matches) : cursor_index' = search_matches[m]
    BY <1>1, <1>12, <2>1, MatchListTyped, JumpStep
  <2>3. QED BY <1>1, <2>1, <2>2, MatchListTyped
<1>13. CASE SearchType
  BY <1>1, <1>13, UpdateSearchStep DEF SearchType
<1>14. CASE FilterAccept
  <2>1. \/ UNCHANGED cursor_index
        \/ filter_matches # << >> /\ cursor_index' = filter_matches[1]
    BY <1>14 DEF FilterAccept, DropFilter
  <2>2. /\ filter_matches \in Seq(Nat)
        /\ \A i \in 1 .. Len(filter_matches) : filter_matches[i] \in 0 .. IntMax
    BY MatchListTyped DEF FilterInv
  <2>3. filter_matches # << >> => 1 \in 1 .. Len(filter_matches)
    BY <2>2
  <2>4. QED BY <1>1, <1>3, <2>1, <2>2, <2>3
<1>15. CASE FilterMove
  BY <1>15, FilterMoveStep
<1>16. CASE ReturnToDetail \/ SearchAccept \/ LeaveDetail \/ LeaveNotifications
              \/ StartCommand \/ RunCommand \/ ToggleTree \/ ToggleNotifications
  BY <1>3, <1>16 DEF ReturnToDetail, SearchAccept, LeaveDetail, LeaveNotifications,
              StartCommand, RunCommand, ToggleTree, ToggleNotifications, Enter
<1>17. CASE StartFilter \/ FilterType \/ FilterQuit \/ FilterEdit \/ FilterOpen
  BY <1>3, <1>17 DEF StartFilter, FilterType, FilterQuit, FilterEdit, FilterOpen,
              DropFilter
<1>18. CASE Digit \/ Other \/ Escape \/ SyncStores \/ UNCHANGED vars
  BY <1>3, <1>18 DEF Digit, Other, Escape, SyncStores, vars, MoveTo
<1>19. CASE SyncSucceeds
  BY <1>4, <1>19 DEF SyncSucceeds, Rebuild, TreeInv
<1>20. CASE StartUp(db)
  BY <1>1, <1>20 DEF StartUp
<1>21. QED
  BY <1>6, <1>7, <1>8, <1>9, <1>10, <1>11, <1>12, <1>13, <1>14, <1>15,
     <1>16, <1>17, <1>18, <1>19, <1>20
     DEF Next, TreeKey, SearchKey, FilterKey, Quit, Dies

-----------------------------------------------------------------------------
(* The search.                                                             *)

\* A step that leaves the search alone leaves the cursor on its match while
\* the query is typed, and the row there.
LEMMA SearchFrame ==
  ASSUME SearchInv, UNCHANGED searchVars,
         mode' = "Search" /\ search_matches # << >>
           => /\ mode = "Search" /\ UNCHANGED cursor_index
              /\ cursor_index \in Indices'
  PROVE  SearchInv'
BY DEF SearchInv, CurrentMatchIsAMatch, searchVars

\* Matches are replaced, dropped or stepped through as a whole: the current one
\* stays one of them, and the cursor is on it while the query is typed.
LEMMA SearchStep ==
  ASSUME DbInv, TreeInv, SearchInv, PaneInv, [Next]_vars
  PROVE  SearchInv'
<1>1. /\ cursor_index \in Ints /\ cursor_index \in Int
      /\ visible_nodes \in Seq(Node) /\ << >> \in MatchLists
  BY TreeTyped, MatchListTyped DEF PaneInv, Ints
<1>2. CASE UNCHANGED <<searchVars, visible_nodes, cursor_index>>
             /\ (mode' = "Search" => mode = "Search")
  BY <1>2, SearchFrame DEF SearchInv, searchVars, Indices
<1>3. CASE UNCHANGED searchVars /\ mode' # "Search"
  BY <1>3, SearchFrame
<1>4. CASE TreeDown \/ TreeUp \/ TreeTop \/ TreeBottom \/ PreviousCategory
             \/ FollowingCategory \/ FilterMove
  BY <1>3, <1>4 DEF TreeDown, TreeUp, TreeTop, TreeBottom, PreviousCategory,
                    FollowingCategory, FilterMove, InTree, InMatches, MoveTo
<1>5. CASE Open \/ Right \/ FilterOpen
  <2>1. /\ UNCHANGED searchVars
        /\ UNCHANGED mode \/ mode' = "Detail"
        /\ mode # "Search"
    BY <1>5 DEF Open, Right, FilterOpen, OpenCwe, InTree, InMatches
  <2>2. QED BY <1>3, <2>1
<1>6. CASE Collapse \/ Left \/ CollapseAll \/ ExpandAll
  BY <1>3, <1>6 DEF Collapse, Left, CollapseAll, ExpandAll, InTree
<1>7. CASE StartSearch
  <2>1. /\ search_query' = NoQuery /\ search_matches' = << >>
        /\ search_match_idx' = -1
    BY <1>7 DEF StartSearch
  <2>2. Len(search_matches') = 0
    BY <2>1
  <2>3. QED BY <1>1, <2>1, <2>2 DEF SearchInv, CurrentMatchIsAMatch
<1>8. CASE JumpToMatch
  <2>1. search_matches \in MatchLists /\ search_matches \in Seq(Nat)
    BY MatchListTyped DEF SearchInv
  <2>2. PICK m \in 1 .. Len(search_matches) :
          search_match_idx' = m - 1 /\ cursor_index' = search_matches[m]
    BY <1>1, <1>8, <2>1, JumpStep
  <2>3. UNCHANGED <<search_query, search_matches>> /\ mode' = "Tree"
    BY <1>8 DEF JumpToMatch
  <2>4. CurrentMatchIsAMatch'
    BY <2>1, <2>2, <2>3 DEF CurrentMatchIsAMatch
  <2>5. QED BY <2>1, <2>3, <2>4 DEF SearchInv
<1>9. CASE SearchType
  <2>1. PICK q \in Query \cup {NoQuery} : UpdateSearch(q)
    BY <1>9 DEF SearchType
  <2>2. UNCHANGED visible_nodes
    BY <1>9 DEF SearchType, treeVars
  <2>3. /\ search_query' = q
        /\ search_matches' \in MatchLists
        /\ search_match_idx' \in -1 .. Len(search_matches') - 1
        /\ search_match_idx' = -1 <=> search_matches' = << >>
        /\ search_matches' # << >>
              => /\ cursor_index' = search_matches'[search_match_idx' + 1]
                 /\ cursor_index' \in Indices
    BY <1>1, <2>1, UpdateSearchStep
  <2>4. QED BY <2>2, <2>3 DEF SearchInv, CurrentMatchIsAMatch, Indices
<1>10. CASE ReturnToDetail \/ SearchAccept \/ LeaveDetail \/ LeaveNotifications
              \/ StartCommand \/ RunCommand \/ ToggleTree \/ ToggleNotifications
  BY <1>3, <1>10 DEF ReturnToDetail, SearchAccept, LeaveDetail, LeaveNotifications,
              StartCommand, RunCommand, ToggleTree, ToggleNotifications, Enter
<1>11. CASE StartFilter \/ FilterType \/ FilterAccept \/ FilterQuit \/ FilterEdit
  BY <1>3, <1>11 DEF StartFilter, FilterType, FilterAccept, FilterQuit,
              FilterEdit, DropFilter
<1>12. CASE Digit \/ Other \/ Escape \/ SyncStores \/ UNCHANGED vars
  BY <1>2, <1>12 DEF Digit, Other, Escape, SyncStores, vars,
              treeVars, MoveTo
<1>13. CASE SyncSucceeds
  <2>1. PICK loaded \in CatalogType, rebuilt \in CatalogType :
          /\ Older(loaded, db) /\ Older(rebuilt, db)
          /\ visible_nodes = Rows(rebuilt, GetCategories(loaded), expanded_categories)
    BY DEF TreeInv
  <2> DEFINE rows == Rows(db, GetCategories(db), expanded_categories)
  <2>2. /\ visible_nodes' = rows
        /\ cursor_index' = Clamp(cursor_index, rows)
        /\ UNCHANGED <<mode, searchVars>>
    BY <1>13 DEF SyncSucceeds, Rebuild
  <2>3. Len(visible_nodes) <= Len(rows)
    BY <2>1, RowsMonotone DEF Older, GetCategories, DbInv
  <2>4. /\ Len(rows) \in Nat
        /\ cursor_index \in 0 .. Len(rows) - 1
             => Clamp(cursor_index, rows) = cursor_index
    BY <1>1, RowsAreInts, RebuildMovesCursor DEF TreeInv
  <2>5. Len(visible_nodes) \in Nat
    BY <1>1
  <2> HIDE DEF rows
  <2>6. mode = "Search" /\ search_matches # << >>
          => cursor_index \in Indices' /\ cursor_index' = cursor_index
    BY <1>1, <2>2, <2>3, <2>4, <2>5 DEF SearchInv, Indices
  <2>7. QED BY <2>2, <2>6, SearchFrame
<1>14. CASE StartUp(db)
  <2>1. /\ search_query' = NoQuery /\ search_matches' = << >>
        /\ search_match_idx' = -1
    BY <1>14 DEF StartUp
  <2>2. Len(search_matches') = 0
    BY <2>1
  <2>3. QED BY <1>1, <2>1, <2>2 DEF SearchInv, CurrentMatchIsAMatch
<1>15. QED
  BY <1>4, <1>5, <1>6, <1>7, <1>8, <1>9, <1>10, <1>11, <1>12, <1>13, <1>14
     DEF Next, TreeKey, SearchKey, FilterKey, Quit, Dies

-----------------------------------------------------------------------------
(* The tree.                                                               *)

\* With nothing expanded the rows are the categories.
LEMMA HeadersOnly ==
  ASSUME NEW d \in CatalogType, NEW q \in Seq(Cat)
  PROVE  Rows(d, q, {}) = [i \in DOMAIN q |-> HeaderRow(q[i], FALSE)]
<1> DEFINE rows == Rows(d, q, {})
<1>1. rows \in Seq(Node) /\ RowsAreTree(rows, d, {})
  BY RowsTyped
<1>2. Keep(rows, CategoryRows) = [i \in 1 .. Len(q) |-> HeaderRow(q[i], q[i] \in {})]
  BY HeadersOfRows
<1> HIDE DEF rows
<1>3. \A i \in 1 .. Len(rows) : rows[i] \in CategoryRows
  BY <1>1 DEF RowsAreTree, CategoryRows
<1>4. Keep(rows, CategoryRows) = rows
  BY <1>1, <1>3, KeepAll
<1>5. DOMAIN q = 1 .. Len(q)
  OBVIOUS
<1>6. \A i \in 1 .. Len(q) : HeaderRow(q[i], q[i] \in {}) = HeaderRow(q[i], FALSE)
  <2>1. \A c : (c \in {}) = FALSE
    OBVIOUS
  <2>2. QED BY <2>1
<1>7. rows = [i \in DOMAIN q |-> HeaderRow(q[i], FALSE)]
  BY <1>2, <1>4, <1>5, <1>6
<1>8. QED BY <1>7 DEF rows

\* A step that rebuilds the rows from the categories shown.
LEMMA TreeRebuilt ==
  ASSUME DbInv, TreeInv, [Next]_vars, UNCHANGED <<db, categories>>,
         expanded_categories' \in SUBSET Cat,
         visible_nodes' = Rows(db, categories, expanded_categories')
  PROVE  TreeInv'
<1>1. PICK loaded \in CatalogType : Older(loaded, db) /\ categories = GetCategories(loaded)
  BY DEF TreeInv
<1>2. db \in CatalogType /\ Older(db, db)
  BY DEF DbInv, Older
<1>3. QED BY <1>1, <1>2 DEF TreeInv

\* A step that leaves the tree alone.
LEMMA TreeFrame ==
  ASSUME DbInv, TreeInv, [Next]_vars, UNCHANGED treeVars
  PROVE  TreeInv'
<1>1. PICK loaded \in CatalogType, rebuilt \in CatalogType :
        /\ Older(loaded, db) /\ Older(rebuilt, db)
        /\ categories = GetCategories(loaded)
        /\ visible_nodes = Rows(rebuilt, categories, expanded_categories)
  BY DEF TreeInv
<1>2. Older(db, db')
  BY DbStep
<1>3. Older(loaded, db') /\ Older(rebuilt, db')
  BY <1>1, <1>2 DEF Older
<1>4. expanded_categories' \in SUBSET Cat
  BY DEF treeVars, TreeInv
<1>5. /\ categories' = GetCategories(loaded)
      /\ visible_nodes' = Rows(rebuilt, categories', expanded_categories')
  BY <1>1 DEF treeVars
<1>6. QED BY <1>3, <1>4, <1>5 DEF TreeInv

\* A step that loads the categories.
LEMMA TreeLoaded ==
  ASSUME DbInv, UNCHANGED db,
         expanded_categories' \in SUBSET Cat,
         categories' = GetCategories(db),
         visible_nodes' = Rows(db, GetCategories(db), expanded_categories')
  PROVE  TreeInv'
<1>1. db \in CatalogType /\ Older(db, db)
  BY DEF DbInv, Older
<1>2. QED BY <1>1 DEF TreeInv

\* The rows are rebuilt whenever the categories or the expanded ones change, and
\* a database that only grows does not make them wrong.
LEMMA TreeStep ==
  ASSUME DbInv, TreeInv, [Next]_vars
  PROVE  TreeInv'
<1>1. expanded_categories \in SUBSET Cat /\ categories \in Seq(Cat)
  BY TreeTyped DEF TreeInv
<1>2. CASE UNCHANGED treeVars
  BY <1>2, TreeFrame
<1>3. ASSUME NEW X, Expand(X), UNCHANGED db PROVE TreeInv'
  BY <1>3, TreeRebuilt DEF Expand, Rebuild
<1>4. CASE Open \/ Right \/ Left
  <2>1. UNCHANGED treeVars \/ (UNCHANGED db /\ \E X : Expand(X))
    BY <1>4 DEF Open, Right, Left
  <2>2. QED BY <1>2, <1>3, <2>1
<1>5. CASE CollapseAll \/ ExpandAll \/ StartSearch
  BY <1>3, <1>5 DEF CollapseAll, ExpandAll, StartSearch
<1>6. CASE Collapse
  <2>1. PICK c : /\ expanded_categories' = expanded_categories \ {c}
                 /\ visible_nodes' = Rows(db, categories, expanded_categories \ {c})
                 /\ UNCHANGED <<db, categories>>
    BY <1>6 DEF Collapse
  <2>2. QED BY <1>1, <2>1, TreeRebuilt
<1>7. CASE SyncSucceeds
  BY <1>1, <1>7, TreeLoaded DEF SyncSucceeds, Rebuild
<1>8. CASE StartUp(db)
  <2>1. /\ UNCHANGED db /\ categories' = GetCategories(db)
        /\ expanded_categories' = {}
        /\ visible_nodes' = [i \in DOMAIN GetCategories(db) |->
                               HeaderRow(GetCategories(db)[i], FALSE)]
    BY <1>8 DEF StartUp, HeaderRow
  <2>2. db \in CatalogType /\ GetCategories(db) \in Seq(Cat)
    BY QueriesTyped DEF DbInv
  <2>3. QED BY <2>1, <2>2, HeadersOnly, TreeLoaded
<1>9. CASE TreeDown \/ TreeUp \/ TreeTop \/ TreeBottom \/ PreviousCategory
             \/ FollowingCategory \/ FilterMove \/ Other
  BY <1>2, <1>9 DEF TreeDown, TreeUp, TreeTop, TreeBottom, PreviousCategory,
                    FollowingCategory, FilterMove, Other, MoveTo
<1>10. CASE ReturnToDetail \/ SearchAccept \/ LeaveDetail \/ LeaveNotifications
              \/ StartCommand \/ RunCommand \/ ToggleTree \/ ToggleNotifications
  BY <1>2, <1>10 DEF ReturnToDetail, SearchAccept, LeaveDetail, LeaveNotifications,
              StartCommand, RunCommand, ToggleTree, ToggleNotifications, Enter
<1>11. CASE JumpToMatch \/ SearchType \/ StartFilter \/ FilterType
              \/ FilterAccept \/ FilterQuit \/ FilterEdit \/ FilterOpen
  BY <1>2, <1>11 DEF JumpToMatch, SearchType, StartFilter, FilterType,
              FilterAccept, FilterQuit, FilterEdit, FilterOpen
<1>12. CASE Digit \/ Escape \/ SyncStores \/ UNCHANGED vars
  BY <1>2, <1>12 DEF Digit, Escape, SyncStores, vars
<1>13. QED
  BY <1>4, <1>5, <1>6, <1>7, <1>8, <1>9, <1>10, <1>11, <1>12
     DEF Next, TreeKey, SearchKey, FilterKey, Quit, Dies

-----------------------------------------------------------------------------
(* The theorems.                                                           *)

\* A new database and the defaults of AppState satisfy the invariant.
LEMMA InitBrowseInv == Init => BrowseInv
<1> SUFFICES ASSUME Init PROVE BrowseInv
  OBVIOUS
<1>1. DbInv /\ db \in CatalogType /\ StoredCats(db) = {} /\ Older(db, db)
  BY DEF Init, DbInv, CatalogType, EmptyCatalog, StoredCats, Older
<1>2. GetCategories(db) = << >>
  <2>1. CatOrder \in Seq(Cat)
    BY BrowseAssumption
  <2>2. \A i \in 1 .. Len(CatOrder) : CatOrder[i] \notin StoredCats(db)
    BY <1>1
  <2>3. QED BY <2>1, <2>2, KeepNone DEF GetCategories
<1>3. TreeInv
  <2>1. categories = << >> /\ visible_nodes = << >> /\ expanded_categories = {}
    BY DEF Init
  <2>2. Rows(db, << >>, {}) = << >>
    BY RowsEmpty
  <2>3. QED BY <1>1, <1>2, <2>1, <2>2 DEF TreeInv
<1>4. << >> \in MatchLists /\ Len(<< >>) = 0
  BY MatchListTyped, EmptySeq
<1>5. SearchInv
  BY <1>4 DEF Init, SearchInv, CurrentMatchIsAMatch
<1>6. FilterInv
  BY <1>4 DEF Init, FilterInv, FilterIsShown
<1>7. DetailInv
  BY DEF Init, DetailInv, Mode
<1>8. PaneInv
  <2>1. 0 \in Ints
    BY BrowseAssumption DEF Ints
  <2>2. QED BY <2>1 DEF Init, PaneInv, CountOnlyInLists
<1>9. QED BY <1>1, <1>3, <1>5, <1>6, <1>7, <1>8 DEF BrowseInv

\* Whatever is pressed, and whatever a sync stores meanwhile, the invariant
\* holds.
THEOREM BrowseInductive == Spec => []BrowseInv
<1>1. Init => BrowseInv
  BY InitBrowseInv
<1>2. BrowseInv /\ [Next]_vars => BrowseInv'
  <2> SUFFICES ASSUME BrowseInv, [Next]_vars PROVE BrowseInv'
    OBVIOUS
  <2>1. DbInv /\ TreeInv /\ SearchInv /\ FilterInv /\ DetailInv /\ PaneInv
    BY DEF BrowseInv
  <2>2. DbInv'
    BY <2>1, DbStep
  <2>3. TreeInv' /\ FilterInv' /\ DetailInv'
    BY <2>1, TreeStep, FilterStep, DetailStep
  <2>4. SearchInv'
    BY <2>1, SearchStep
  <2>5. PaneInv'
    BY <2>1, CursorStep, CountStep, FlagStep DEF PaneInv
  <2>6. QED BY <2>2, <2>3, <2>4, <2>5 DEF BrowseInv
<1>3. QED BY <1>1, <1>2, PTL DEF Spec

\* Every variable of the view keeps its type, whatever wraps: indices are ints,
\* an index into the rows not always that of a row; matches are numbers, no more
\* of them than an int counts.
THEOREM BrowseTypes == Spec => []TypeOK
<1>1. BrowseInv => TypeOK
  <2> SUFFICES ASSUME BrowseInv PROVE TypeOK
    OBVIOUS
  <2>1. DbInv /\ TreeInv /\ SearchInv /\ FilterInv /\ DetailInv /\ PaneInv
    BY DEF BrowseInv
  <2>2. /\ db \in CatalogType /\ categories \in Seq(Cat) /\ visible_nodes \in Seq(Node)
        /\ expanded_categories \in SUBSET Cat
    BY <2>1, TreeTyped DEF DbInv, TreeInv
  <2>3. search_match_idx \in -1 .. IntMax
    <3>1. Len(search_matches) \in 0 .. IntMax /\ IntMax \in Nat
      BY <2>1, MatchListTyped, BrowseAssumption DEF SearchInv
    <3>2. QED BY <2>1, <3>1 DEF SearchInv, CurrentMatchIsAMatch
  <2>4. QED
    BY <2>1, <2>2, <2>3
       DEF SearchInv, FilterInv, DetailInv, PaneInv, TypeOK, MatchLists
<1>2. QED BY <1>1, BrowseInductive, PTL

\* Whatever way led to the detail pane, it shows a CWE of the database.
THEOREM BrowseDetail == Spec => []DetailHasCwe
<1>1. BrowseInv => DetailHasCwe
  BY DEF BrowseInv, DetailInv, DetailHasCwe
<1>2. QED BY <1>1, BrowseInductive, PTL

\* However many rows a sync has added to the database since they were made,
\* the rows are the tree of the state.
THEOREM BrowseTree == Spec => []RowsShowTree
<1>1. BrowseInv => RowsShowTree
  <2> SUFFICES ASSUME BrowseInv PROVE RowsShowTree
    OBVIOUS
  <2>1. DbInv /\ TreeInv
    BY DEF BrowseInv
  <2>2. PICK rebuilt \in CatalogType :
          /\ Older(rebuilt, db)
          /\ visible_nodes = Rows(rebuilt, categories, expanded_categories)
    BY <2>1 DEF TreeInv
  <2>3. categories \in Seq(Cat) /\ visible_nodes \in Seq(Node)
    BY <2>1, TreeTyped
  <2>4. [i \in DOMAIN categories |-> categories[i]] =
          LET headers == Keep(visible_nodes, {n \in Node : n.kind = "Category"})
          IN [i \in DOMAIN headers |-> headers[i].id]
    <3> DEFINE headers == Keep(visible_nodes, CategoryRows)
    <3>1. headers = [i \in 1 .. Len(categories) |->
                       HeaderRow(categories[i], categories[i] \in expanded_categories)]
      BY <2>2, <2>3, HeadersOfRows
    <3>2. DOMAIN categories = 1 .. Len(categories)
      BY <2>3
    <3> HIDE DEF headers
    <3>3. [i \in DOMAIN categories |-> categories[i]]
            = [i \in DOMAIN headers |-> headers[i].id]
      BY <3>1, <3>2 DEF HeaderRow
    <3>4. QED BY <3>3 DEF headers, CategoryRows
  <2>5. RowsAreTree(visible_nodes, rebuilt, expanded_categories)
    BY <2>2, <2>3, RowsTyped
  <2>6. ASSUME NEW i \in DOMAIN visible_nodes
        PROVE  LET n == visible_nodes[i]
               IN IF n.kind = "Category"
                    THEN n.expanded = (n.id \in expanded_categories)
                    ELSE /\ n.category_id \in expanded_categories
                         /\ db.cwes[n.id] > 0
                         /\ <<n.id, n.category_id>> \in db.links
                         /\ visible_nodes[i - 1].category_id = n.category_id
    <3>1. i \in 1 .. Len(visible_nodes)
      BY <2>3
    <3>2. CASE visible_nodes[i].kind = "Category"
      BY <2>5, <3>1, <3>2 DEF RowsAreTree
    <3>3. CASE visible_nodes[i].kind # "Category"
      <4> DEFINE n == visible_nodes[i]
      <4>1. /\ n.category_id \in expanded_categories
            /\ <<n.id, n.category_id>> \in rebuilt.links
            /\ visible_nodes[i - 1].category_id = n.category_id
        BY <2>5, <3>1, <3>3 DEF RowsAreTree
      <4>2. <<n.id, n.category_id>> \in db.links
        BY <2>2, <4>1 DEF Older
      <4>3. db.cwes[n.id] > 0
        BY <2>1, <4>2 DEF DbInv
      <4>4. QED BY <3>3, <4>1, <4>2, <4>3
    <3>4. QED BY <3>2, <3>3
  <2>7. QED BY <2>4, <2>6 DEF RowsShowTree
<1>2. QED BY <1>1, BrowseInductive, PTL

\* The current match is one of the matches, and the cursor is on it while the
\* query is typed, also when a sync rebuilds the tree under it.
THEOREM BrowseSearch == Spec => []CurrentMatchIsAMatch
<1>1. BrowseInv => CurrentMatchIsAMatch
  BY DEF BrowseInv, SearchInv
<1>2. QED BY <1>1, BrowseInductive, PTL

\* Filter mode and the filtered view go together.
THEOREM BrowseFilter == Spec => []FilterIsShown
<1>1. BrowseInv => FilterIsShown
  BY DEF BrowseInv, FilterInv
<1>2. QED BY <1>1, BrowseInductive, PTL

\* No count is carried through a text field into a later movement.
THEOREM BrowseCount == Spec => []CountOnlyInLists
<1>1. BrowseInv => CountOnlyInLists
  BY DEF BrowseInv, PaneInv
<1>2. QED BY <1>1, BrowseInductive, PTL

-----------------------------------------------------------------------------
(* What search and filter find.                                            *)

\* A list of matches holds rows that the query means, and all of them that the
\* matcher can find.
LEMMA MatchingIsMeant ==
  ASSUME TreeInv, NEW kinds \in SUBSET {"Category", "Weakness"},
         NEW q \in Query
  PROVE  Finds(Matching(kinds, q), kinds, q)
<1> DEFINE A == {i \in Indices : /\ visible_nodes[i + 1].kind \in kinds
                                /\ Hit(q, visible_nodes[i + 1])}
<1>1. visible_nodes \in Seq(Node) /\ Len(visible_nodes) \in Nat
  BY TreeTyped, LenProperties
<1>2. q \in Seq(Char \cup {CaseMark})
  BY BrowseAssumption
<1>3. ASSUME NEW n \in Node
      PROVE  LET means == \/ Meant(q, Label[n.id])
                          \/ n.kind = "Category" /\ Meant(q, IdText[n.id])
             IN (Hit(q, n) => means) /\ (Simple(q) /\ means => Hit(q, n))
  <2>1. n.id \in Cat \cup Cwe /\ (n.kind = "Category" => n.id \in Cat)
    BY NodeTyped
  <2>2. Label[n.id] \in Seq(Char) /\ (n.kind = "Category" => IdText[n.id] \in Seq(Char))
    BY <2>1, BrowseAssumption
  <2>3. \A text \in Seq(Char) : Found(q, text) => Meant(q, text)
    BY <1>2, FoundIsSound
  <2>4. Simple(q) => \A text \in Seq(Char) : Meant(q, text) => Found(q, text)
    BY <1>2, SimpleIsFound
  <2>5. QED BY <2>2, <2>3, <2>4 DEF Hit
<1>4. \A i \in Indices : visible_nodes[i + 1] \in Node
  BY <1>1 DEF Indices
<1>5. A \subseteq MeantRows(kinds, q) /\ (Simple(q) => MeantRows(kinds, q) \subseteq A)
  BY <1>3, <1>4 DEF MeantRows
<1>6. Positions \in Seq(Int) /\ {Positions[i] : i \in DOMAIN Positions} = Indices
  <2>1. Positions \in Seq(Int)
    BY <1>1 DEF Positions
  <2>2. \A i \in Indices : i + 1 \in DOMAIN Positions /\ Positions[i + 1] = i
    BY <1>1 DEF Positions, Indices
  <2>3. \A i \in DOMAIN Positions : Positions[i] \in Indices
    BY <1>1 DEF Positions, Indices
  <2>4. QED BY <2>1, <2>2, <2>3
<1>7. A \subseteq Indices /\ Matching(kinds, q) = Keep(Positions, A)
  BY DEF Matching
<1> HIDE DEF A
<1>8. {Keep(Positions, A)[i] : i \in DOMAIN Keep(Positions, A)}
        = {Positions[i] : i \in DOMAIN Positions} \cap A
  BY <1>6, KeepRange
<1>9. ToSet(Keep(Positions, A)) = A
  BY <1>6, <1>7, <1>8 DEF ToSet
<1>10. QED BY <1>5, <1>7, <1>9 DEF Finds

\* The matches change by an update for a query, or the query is emptied.
LEMMA MatchesChange ==
  ASSUME [Next]_vars
  PROVE  /\ \/ UNCHANGED search_matches
            \/ search_query' = NoQuery /\ search_matches' = << >>
            \/ UNCHANGED visible_nodes /\ \E q \in Query : UpdateSearch(q)
         /\ \/ UNCHANGED filter_matches
            \/ /\ filter_query' = NoQuery
               /\ filter_matches' = << >> \/ UpdateFilter(NoQuery)
            \/ UNCHANGED visible_nodes /\ \E q \in Query : UpdateFilter(q)
<1>1. CASE SearchType
  BY <1>1 DEF SearchType, UpdateSearch, treeVars, filterVars
<1>2. CASE FilterType
  BY <1>2 DEF FilterType, UpdateFilter, treeVars, searchVars
<1>3. CASE StartSearch \/ JumpToMatch
  BY <1>3 DEF StartSearch, JumpToMatch, filterVars
<1>4. CASE StartFilter \/ FilterAccept \/ FilterQuit
  BY <1>4 DEF StartFilter, UpdateFilter, FilterAccept, FilterQuit, DropFilter, searchVars
<1>5. CASE UNCHANGED <<searchVars, filterVars>>
  BY <1>5 DEF searchVars, filterVars
<1>6. CASE TreeDown \/ TreeUp \/ TreeTop \/ TreeBottom \/ PreviousCategory
             \/ FollowingCategory \/ FilterMove \/ Other
  BY <1>5, <1>6 DEF TreeDown, TreeUp, TreeTop, TreeBottom, PreviousCategory,
                    FollowingCategory, FilterMove, Other, MoveTo
<1>7. CASE Open \/ Collapse \/ Left \/ Right \/ CollapseAll \/ ExpandAll
  BY <1>5, <1>7 DEF Open, Collapse, Left, Right, CollapseAll, ExpandAll
<1>8. CASE ReturnToDetail \/ SearchAccept \/ LeaveDetail \/ LeaveNotifications
             \/ StartCommand \/ RunCommand \/ ToggleTree \/ ToggleNotifications
  BY <1>5, <1>8 DEF ReturnToDetail, SearchAccept, LeaveDetail, LeaveNotifications,
              StartCommand, RunCommand, ToggleTree, ToggleNotifications, Enter
<1>9. CASE FilterEdit \/ FilterOpen \/ Digit \/ Escape \/ SyncStores
             \/ SyncSucceeds \/ UNCHANGED vars
  BY <1>5, <1>9 DEF FilterEdit, FilterOpen, Digit, Escape, SyncStores,
              SyncSucceeds, vars, filterVars, searchVars
<1>10. CASE StartUp(db)
  BY <1>10 DEF StartUp
<1>11. QED
  BY <1>1, <1>2, <1>3, <1>4, <1>6, <1>7, <1>8, <1>9, <1>10
     DEF Next, TreeKey, SearchKey, FilterKey, Quit, Dies

\* Search and filter find nothing that their query does not mean by the comment
\* of Layout.cpp:20, and all that it means if it has no question mark and no bar:
\* for every catalogue, label and query, and whatever rows there are.
THEOREM BrowseFinds == Spec => FoundIsMeant
<1>1. BrowseInv /\ [Next]_vars => [FindsWhatIsMeant]_vars
  <2> SUFFICES ASSUME BrowseInv, [Next]_vars PROVE FindsWhatIsMeant
    OBVIOUS
  <2>1. TreeInv
    BY DEF BrowseInv
  <2>2. ASSUME search_matches' # search_matches, search_query' # NoQuery
        PROVE  Finds(search_matches, {"Category", "Weakness"}, search_query)'
    <3>1. PICK q \in Query : UpdateSearch(q) /\ UNCHANGED visible_nodes
      BY <2>2, MatchesChange
    <3>2. q # NoQuery
      BY BrowseAssumption
    <3>3. /\ search_query' = q
          /\ search_matches' = Matching({"Category", "Weakness"}, q)
      BY <3>1, <3>2 DEF UpdateSearch
    <3>4. Finds(search_matches', {"Category", "Weakness"}, q)
      BY <2>1, <3>3, MatchingIsMeant
    <3>5. QED BY <3>1, <3>3, <3>4 DEF Finds, MeantRows, Indices
  <2>3. ASSUME filter_matches' # filter_matches, filter_query' # NoQuery
        PROVE  Finds(filter_matches, {"Weakness"}, filter_query)'
    <3>1. PICK q \in Query : UpdateFilter(q) /\ UNCHANGED visible_nodes
      BY <2>3, MatchesChange
    <3>2. q # NoQuery
      BY BrowseAssumption
    <3>3. filter_query' = q /\ filter_matches' = Matching({"Weakness"}, q)
      BY <3>1, <3>2 DEF UpdateFilter
    <3>4. Finds(filter_matches', {"Weakness"}, q)
      BY <2>1, <3>3, MatchingIsMeant
    <3>5. QED BY <3>1, <3>3, <3>4 DEF Finds, MeantRows, Indices
  <2>4. QED BY <2>2, <2>3 DEF FindsWhatIsMeant
<1>2. QED BY <1>1, BrowseInductive, PTL DEF Spec, FoundIsMeant

-----------------------------------------------------------------------------
(* The rows under the cursor and under the matches.                        *)

\* A rebuild that collapses nothing leaves no fewer rows.
LEMMA RowsStay ==
  ASSUME DbInv, TreeInv, NEW q \in {categories, GetCategories(db)},
         NEW X, expanded_categories \subseteq X
  PROVE  /\ Rows(db, q, X) \in Seq(Node)
         /\ Len(visible_nodes) <= Len(Rows(db, q, X))
<1>1. PICK loaded \in CatalogType, rebuilt \in CatalogType :
        /\ Older(loaded, db) /\ Older(rebuilt, db)
        /\ categories = GetCategories(loaded)
        /\ visible_nodes = Rows(rebuilt, categories, expanded_categories)
  BY DEF TreeInv
<1>2. categories \in Seq(Cat) /\ GetCategories(db) \in Seq(Cat)
  BY TreeTyped, QueriesTyped DEF DbInv
<1>3. Rows(db, q, X) \in Seq(Node)
  BY <1>2, RowsTyped DEF DbInv
<1>4. CASE q = categories
  BY <1>1, <1>3, <1>4, RowsMonotone DEF Older, GetCategories, DbInv
<1>5. CASE q = GetCategories(db)
  BY <1>1, <1>3, <1>5, RowsMonotone DEF Older, GetCategories, DbInv
<1>6. QED BY <1>4, <1>5

\* A clamped cursor is on a row, if there is one.
LEMMA ClampedOnRow ==
  ASSUME NEW i \in Int, NEW rows \in Seq(Node), rows # << >>
  PROVE  Clamp(i, rows) \in 0 .. Len(rows) - 1
<1>1. Len(rows) \in Nat \ {0}
  OBVIOUS
<1>2. QED BY <1>1 DEF Clamp, Larger, Smaller

\* What an update finds are rows.
LEMMA UpdatesFindRows ==
  ASSUME DbInv, TreeInv, NEW q
  PROVE  /\ UpdateSearch(q) => ToSet(search_matches') \subseteq Indices
         /\ UpdateFilter(q) => ToSet(filter_matches') \subseteq Indices
<1>1. ASSUME NEW A, A \subseteq Indices
      PROVE  ToSet(Keep(Positions, A)) \subseteq Indices
  <2>1. Keep(Positions, A) \in Seq(Indices)
    BY <1>1, PositionsTyped
  <2>2. QED BY <2>1 DEF ToSet
<1>2. ASSUME NEW kinds PROVE ToSet(Matching(kinds, q)) \subseteq Indices
  <2> DEFINE A == {i \in Indices : /\ visible_nodes[i + 1].kind \in kinds
                                  /\ Hit(q, visible_nodes[i + 1])}
  <2>1. A \subseteq Indices /\ Matching(kinds, q) = Keep(Positions, A)
    BY DEF Matching
  <2> HIDE DEF A
  <2>2. QED BY <1>1, <2>1
<1>3. ToSet(<< >>) \subseteq Indices
  BY DEF ToSet
<1>4. ToSet(Keep(Positions, Indices \ Headers)) \subseteq Indices
  BY <1>1
<1>5. QED BY <1>2, <1>3, <1>4 DEF UpdateSearch, UpdateFilter

\* The first row is one as soon as there is any.
LEMMA FirstRow ==
  ASSUME NEW rows \in Seq(Node), rows # << >>
  PROVE  0 \in 0 .. Len(rows) - 1
OBVIOUS

\* While the matches are rows, every key and every reload leaves the cursor on a
\* row, if it was on one; but for a j with a count that overflows.
LEMMA CursorKept ==
  ASSUME DbInv, TreeInv, SearchInv, FilterInv, PaneInv,
         CursorOnARow, MatchesOnRows, [Next]_vars
  PROVE  \/ CursorOnARow'
         \/ TreeDown /\ CursorOverflows
         \/ FilterMove /\ MatchOverflows
<1> DEFINE n == Len(visible_nodes)
<1>1. /\ n \in 0 .. IntMax /\ n \in Nat /\ IntMax \in Nat
      /\ cursor_index \in Int /\ Times \in 1 .. IntMax
      /\ \A i \in Int : i \in Ints <=> -IntMax - 1 <= i /\ i <= IntMax
      /\ categories \in Seq(Cat) /\ GetCategories(db) \in Seq(Cat)
      /\ visible_nodes \in Seq(Node)
      /\ search_matches \in Seq(Nat) /\ filter_matches \in Seq(Nat)
      /\ Indices = 0 .. n - 1
      /\ visible_nodes # << >> => n # 0 /\ cursor_index \in 0 .. n - 1
  <2>1. /\ cursor_index \in Int /\ IntMax \in Nat /\ Times \in 1 .. IntMax
        /\ \A i \in Int : i \in Ints <=> -IntMax - 1 <= i /\ i <= IntMax
    BY BrowseAssumption, TimesTyped DEF PaneInv, Ints
  <2>2. visible_nodes \in Seq(Node) /\ categories \in Seq(Cat) /\ n <= IntMax
    BY TreeTyped, RowsAreInts
  <2>3. GetCategories(db) \in Seq(Cat)
    BY QueriesTyped DEF DbInv
  <2>4. search_matches \in Seq(Nat) /\ filter_matches \in Seq(Nat)
    BY MatchListTyped DEF SearchInv, FilterInv
  <2>5. QED BY <2>1, <2>2, <2>3, <2>4 DEF CursorOnARow, Indices
<1> HIDE DEF n
<1>2. CASE UNCHANGED <<visible_nodes, cursor_index>>
  BY <1>2 DEF CursorOnARow, Indices
<1>3. CASE UNCHANGED visible_nodes /\ cursor_index' \in 0 .. n - 1
  BY <1>1, <1>3 DEF CursorOnARow, Indices, n
<1>4. ASSUME NEW q \in Seq(Cat), NEW X, visible_nodes' = Rows(db, q, X),
             cursor_index' = Clamp(cursor_index, Rows(db, q, X))
      PROVE  CursorOnARow'
  <2>1. Rows(db, q, X) \in Seq(Node)
    BY RowsTyped DEF DbInv
  <2>2. visible_nodes' # << >> => cursor_index' \in 0 .. Len(visible_nodes') - 1
    BY <1>1, <1>4, <2>1, ClampedOnRow
  <2>3. QED BY <2>2 DEF CursorOnARow, Indices
<1>5. ASSUME NEW X, Expand(X) PROVE CursorOnARow'
  BY <1>1, <1>4, <1>5 DEF Expand, Rebuild
<1>6. CASE (TreeDown /\ ~CursorOverflows) \/ TreeUp \/ TreeTop \/ TreeBottom
  <2>1. UNCHANGED visible_nodes /\ n # 0 /\ cursor_index \in 0 .. n - 1
    BY <1>1, <1>6 DEF TreeDown, TreeUp, TreeTop, TreeBottom, InTree, MoveTo, treeVars
  <2>2. CASE TreeDown /\ ~CursorOverflows
    <3>1. cursor_index + Times <= IntMax
      BY <1>1, <2>2 DEF TreeDown, CursorOverflows
    <3>2. cursor_index + Times \in Ints
      BY <1>1, <2>1, <3>1
    <3>3. AsInt(cursor_index + Times) = cursor_index + Times
      BY <1>1, <3>2, AsIntIsInt
    <3>4. cursor_index' = Smaller(cursor_index + Times, n - 1)
      BY <2>2, <3>3 DEF TreeDown, MoveTo, n
    <3>5. cursor_index' \in 0 .. n - 1
      BY <1>1, <2>1, <3>4 DEF Smaller
    <3>6. QED BY <1>3, <2>1, <3>5
  <2>3. CASE TreeUp
    <3>1. cursor_index - Times \in Ints /\ cursor_index - Times \in Int
      BY <1>1, <2>1
    <3>2. AsInt(cursor_index - Times) = cursor_index - Times
      BY <3>1, AsIntIsInt
    <3>3. cursor_index' = Larger(cursor_index - Times, 0)
      BY <2>3, <3>2 DEF TreeUp, MoveTo
    <3>4. cursor_index' \in 0 .. n - 1
      BY <1>1, <2>1, <3>3 DEF Larger
    <3>5. QED BY <1>3, <2>1, <3>4
  <2>4. CASE TreeTop \/ TreeBottom
    <3>1. cursor_index' \in 0 .. n - 1
      BY <1>1, <2>1, <2>4 DEF TreeTop, TreeBottom, MoveTo, n
    <3>2. QED BY <1>3, <2>1, <3>1
  <2>5. QED BY <1>6, <2>2, <2>3, <2>4
<1>7. CASE PreviousCategory
  <2>1. /\ UNCHANGED visible_nodes
        /\ n # 0 /\ cursor_index \in 0 .. n - 1
    BY <1>1, <1>7 DEF PreviousCategory, InTree, MoveTo, treeVars
  <2> DEFINE from == AsInt(cursor_index - 1)
             above == {i \in Headers : i <= from}
  <2>2. from = cursor_index - 1
    <3>1. cursor_index - 1 \in Int /\ cursor_index - 1 \in Ints
      BY <1>1, <2>1
    <3>2. QED BY <3>1, AsIntIsInt
  <2>3. cursor_index' \in (n .. from)
                             \cup {IF above = {} THEN cursor_index ELSE Max(above)}
    BY <1>7 DEF PreviousCategory, MoveTo, n
  <2>4. above \in SUBSET (0 .. n - 1) /\ above \in SUBSET (0 .. n)
    BY <1>1 DEF Headers
  <2> HIDE DEF above, from
  <2>5. above # {} => Max(above) \in above
    BY <1>1, <2>4, Extremes
  <2>6. n .. from = {}
    BY <1>1, <2>1, <2>2
  <2>7. QED BY <1>1, <1>3, <2>1, <2>3, <2>4, <2>5, <2>6
<1>8. CASE FollowingCategory
  <2>1. /\ UNCHANGED visible_nodes
        /\ n # 0 /\ cursor_index \in 0 .. n - 1
    BY <1>1, <1>8 DEF FollowingCategory, InTree, MoveTo, treeVars
  <2> DEFINE from == AsInt(cursor_index + 1)
             below == {i \in Headers : i >= from}
  <2>2. from = cursor_index + 1
    <3>1. cursor_index + 1 \in Int /\ cursor_index + 1 \in Ints
      BY <1>1, <2>1
    <3>2. QED BY <3>1, AsIntIsInt
  <2>3. cursor_index' \in (from .. -1)
                             \cup {IF below = {} THEN cursor_index ELSE Min(below)}
    BY <1>8 DEF FollowingCategory, MoveTo
  <2>4. below \in SUBSET (0 .. n - 1) /\ below \in SUBSET (0 .. n)
    BY <1>1 DEF Headers
  <2> HIDE DEF below, from
  <2>5. below # {} => Min(below) \in below
    BY <1>1, <2>4, Extremes
  <2>6. from .. -1 = {}
    BY <1>1, <2>1, <2>2
  <2>7. QED BY <1>1, <1>3, <2>1, <2>3, <2>4, <2>5, <2>6
<1>9. CASE Open \/ Right \/ CollapseAll \/ ExpandAll \/ StartSearch
  BY <1>2, <1>5, <1>9
     DEF Open, Right, CollapseAll, ExpandAll, StartSearch, treeVars
<1>10. CASE Left
  <2>1. PICK node :
          \/ UNCHANGED <<visible_nodes, cursor_index>>
          \/ \E X : Expand(X)
          \/ LET header == HeaderOf(visible_nodes, node.category_id)
             IN /\ cursor_index' = IF header = 0 THEN cursor_index ELSE header - 1
                /\ UNCHANGED visible_nodes
    BY <1>10 DEF Left, treeVars
  <2>2. HeaderOf(visible_nodes, node.category_id) \in 0 .. n
    BY <1>1, PositionsFound DEF n
  <2>3. n # 0 /\ cursor_index \in 0 .. n - 1
    BY <1>1, <1>10 DEF Left, InTree
  <2>4. QED BY <1>1, <1>2, <1>3, <1>5, <2>1, <2>2, <2>3
<1>11. CASE Collapse
  <2>1. PICK c, X :
          LET rows == Rows(db, categories, X)  header == HeaderOf(rows, c)
          IN /\ visible_nodes' = rows
             /\ cursor_index' = IF header = 0 THEN Clamp(cursor_index, rows)
                                              ELSE header - 1
    BY <1>11 DEF Collapse
  <2> DEFINE rows == Rows(db, categories, X)
             header == HeaderOf(rows, c)
  <2>2. rows \in Seq(Node)
    BY <1>1, RowsTyped DEF DbInv
  <2>3. visible_nodes' = rows
        /\ cursor_index' = IF header = 0 THEN Clamp(cursor_index, rows) ELSE header - 1
    BY <2>1
  <2>4. CASE header = 0
    BY <1>1, <1>4, <2>3, <2>4
  <2>5. CASE header # 0
    <3>1. header \in 0 .. Len(rows)
      <4> HIDE DEF rows
      <4>1. QED BY <2>2, PositionsFound
    <3> HIDE DEF rows, header
    <3>2. cursor_index' \in 0 .. Len(visible_nodes') - 1
      BY <2>2, <2>3, <2>5, <3>1
    <3>3. QED BY <3>2 DEF CursorOnARow, Indices
  <2>6. QED BY <2>4, <2>5
<1>12. CASE JumpToMatch
  <2>1. PICK m \in 1 .. Len(search_matches) : cursor_index' = search_matches[m]
    BY <1>1, <1>12, JumpStep
  <2>2. search_matches[m] \in ToSet(search_matches)
    BY <1>1, <2>1 DEF ToSet
  <2>3. UNCHANGED visible_nodes
    BY <1>12 DEF JumpToMatch, treeVars
  <2>4. QED BY <1>1, <1>3, <2>1, <2>2, <2>3 DEF MatchesOnRows
<1>13. CASE SearchType
  <2>1. UNCHANGED visible_nodes /\ \E q : UpdateSearch(q)
    BY <1>13 DEF SearchType, treeVars
  <2>2. PICK q : UpdateSearch(q)
    BY <2>1
  <2>3. CASE search_matches' = << >>
    BY <1>2, <2>1, <2>2, <2>3 DEF UpdateSearch
  <2>4. CASE search_matches' # << >>
    <3>1. cursor_index' \in Indices
      BY <2>2, <2>4, UpdateSearchStep DEF PaneInv
    <3>2. QED BY <1>1, <1>3, <2>1, <3>1
  <2>5. QED BY <2>3, <2>4
<1>14. CASE FilterAccept
  <2>1. /\ UNCHANGED visible_nodes
        /\ \/ UNCHANGED cursor_index
           \/ filter_matches # << >> /\ cursor_index' = filter_matches[1]
    BY <1>14 DEF FilterAccept, DropFilter, treeVars
  <2>2. filter_matches # << >> => filter_matches[1] \in ToSet(filter_matches)
    BY <1>1 DEF ToSet
  <2>3. QED BY <1>1, <1>2, <1>3, <2>1, <2>2 DEF MatchesOnRows
<1>15. CASE FilterMove /\ ~MatchOverflows
  <2>1. UNCHANGED visible_nodes
    BY <1>15 DEF FilterMove, MoveTo, treeVars
  <2>2. PICK m \in 1 .. Len(filter_matches) : cursor_index' = filter_matches[m]
    BY <1>15, FilterMoveStep
  <2>3. filter_matches[m] \in ToSet(filter_matches)
    BY <1>1, <2>2 DEF ToSet
  <2>4. QED BY <1>1, <1>3, <2>1, <2>2, <2>3 DEF MatchesOnRows
<1>16. CASE ReturnToDetail \/ SearchAccept \/ LeaveDetail \/ LeaveNotifications
              \/ StartCommand \/ RunCommand \/ ToggleTree \/ ToggleNotifications
  BY <1>2, <1>16 DEF ReturnToDetail, SearchAccept, LeaveDetail, LeaveNotifications,
              StartCommand, RunCommand, ToggleTree, ToggleNotifications, Enter,
              treeVars
<1>17. CASE StartFilter \/ FilterType \/ FilterQuit \/ FilterEdit \/ FilterOpen
  BY <1>2, <1>17 DEF StartFilter, FilterType, FilterQuit, FilterEdit, FilterOpen,
              DropFilter, treeVars
<1>18. CASE Digit \/ Other \/ Escape \/ SyncStores \/ UNCHANGED vars
  BY <1>2, <1>18 DEF Digit, Other, Escape, SyncStores, vars, MoveTo,
              treeVars
<1>19. CASE SyncSucceeds
  BY <1>1, <1>4, <1>19 DEF SyncSucceeds, Rebuild
<1>20. CASE StartUp(db)
  <2>1. /\ cursor_index' = 0
        /\ visible_nodes' = [i \in DOMAIN GetCategories(db) |->
                               HeaderRow(GetCategories(db)[i], FALSE)]
    BY <1>20 DEF StartUp, HeaderRow
  <2>2. visible_nodes' = Rows(db, GetCategories(db), {})
    BY <1>1, <2>1, HeadersOnly DEF DbInv
  <2>3. visible_nodes' \in Seq(Node)
    BY <1>1, <2>2, RowsTyped DEF DbInv
  <2>4. QED BY <2>1, <2>3, FirstRow DEF CursorOnARow, Indices
<1>21. QED
  BY <1>6, <1>7, <1>8, <1>9, <1>10, <1>11, <1>12, <1>13, <1>14, <1>15, <1>16,
     <1>17, <1>18, <1>19, <1>20
     DEF Next, TreeKey, SearchKey, FilterKey, Quit, Dies

\* Unless a category is collapsed, or the program starts anew, no row is lost.
LEMMA RowsLost ==
  ASSUME DbInv, TreeInv, [Next]_vars
  PROVE  \/ Indices \subseteq Indices'
         \/ Collapses
         \/ StartUp(db)
<1>1. /\ Len(visible_nodes) \in Nat /\ expanded_categories \in SUBSET Cat
      /\ visible_nodes \in Seq(Node)
  BY TreeTyped DEF TreeInv
<1>2. CASE UNCHANGED visible_nodes
  BY <1>2 DEF Indices
<1>3. ASSUME NEW q \in {categories, GetCategories(db)},
             NEW X, expanded_categories \subseteq X, visible_nodes' = Rows(db, q, X)
      PROVE  Indices \subseteq Indices'
  <2>1. Len(visible_nodes) <= Len(visible_nodes') /\ visible_nodes' \in Seq(Node)
    BY <1>3, RowsStay
  <2>2. Len(visible_nodes') \in Nat
    BY <2>1
  <2>3. QED BY <1>1, <2>1, <2>2 DEF Indices
<1>4. ASSUME NEW X, Expand(X),
             X \subseteq expanded_categories \/ expanded_categories \subseteq X
      PROVE  Indices \subseteq Indices' \/ Collapses
  <2>1. /\ expanded_categories' = X \cap Cat
        /\ visible_nodes' = Rows(db, categories, X \cap Cat)
    BY <1>4 DEF Expand, Rebuild
  <2>2. CASE expanded_categories \subseteq X \cap Cat
    BY <1>3, <2>1, <2>2
  <2>3. CASE ~(expanded_categories \subseteq X \cap Cat)
    BY <1>1, <1>4, <2>1, <2>3 DEF Collapses
  <2>4. QED BY <2>2, <2>3
<1>5. CASE Open \/ Right \/ Left
  <2>1. \/ UNCHANGED visible_nodes
        \/ \E c : \/ Expand(expanded_categories \ {c})
                 \/ Expand(expanded_categories \cup {c})
    BY <1>5 DEF Open, Right, Left, treeVars
  <2>2. QED BY <1>2, <1>4, <2>1
<1>6. CASE CollapseAll \/ ExpandAll \/ StartSearch
  BY <1>4, <1>6 DEF CollapseAll, ExpandAll, StartSearch
<1>7. CASE Collapse
  <2>1. PICK c : /\ expanded_categories' = expanded_categories \ {c}
                 /\ visible_nodes' = Rows(db, categories, expanded_categories \ {c})
    BY <1>7 DEF Collapse
  <2>2. CASE c \in expanded_categories
    BY <2>1, <2>2 DEF Collapses
  <2>3. CASE c \notin expanded_categories
    BY <1>3, <2>1, <2>3
  <2>4. QED BY <2>2, <2>3
<1>8. CASE SyncSucceeds
  BY <1>3, <1>8 DEF SyncSucceeds, Rebuild
<1>9. CASE TreeDown \/ TreeUp \/ TreeTop \/ TreeBottom \/ PreviousCategory
             \/ FollowingCategory \/ FilterMove \/ Other
  BY <1>2, <1>9 DEF TreeDown, TreeUp, TreeTop, TreeBottom, PreviousCategory,
                    FollowingCategory, FilterMove, Other, MoveTo, treeVars
<1>10. CASE ReturnToDetail \/ SearchAccept \/ LeaveDetail \/ LeaveNotifications
              \/ StartCommand \/ RunCommand \/ ToggleTree \/ ToggleNotifications
  BY <1>2, <1>10 DEF ReturnToDetail, SearchAccept, LeaveDetail, LeaveNotifications,
              StartCommand, RunCommand, ToggleTree, ToggleNotifications, Enter,
              treeVars
<1>11. CASE JumpToMatch \/ SearchType \/ StartFilter \/ FilterType
              \/ FilterAccept \/ FilterQuit \/ FilterEdit \/ FilterOpen
  BY <1>2, <1>11 DEF JumpToMatch, SearchType, StartFilter, FilterType,
              FilterAccept, FilterQuit, FilterEdit, FilterOpen, treeVars
<1>12. CASE Digit \/ Escape \/ SyncStores \/ UNCHANGED vars
  BY <1>2, <1>12 DEF Digit, Escape, SyncStores, vars, treeVars
<1>13. QED
  BY <1>5, <1>6, <1>7, <1>8, <1>9, <1>10, <1>11, <1>12
     DEF Next, TreeKey, SearchKey, FilterKey, Quit, Dies

\* Matches stop being rows only where a category is collapsed.
LEMMA MatchesKept ==
  ASSUME DbInv, TreeInv, MatchesOnRows, [Next]_vars
  PROVE  MatchesOnRows' \/ Collapses
<1>1. CASE StartUp(db)
  BY <1>1 DEF StartUp, MatchesOnRows, ToSet
<1>2. CASE Indices \subseteq Indices'
  <2>1. ToSet(search_matches') \subseteq Indices
    <3>1. \/ UNCHANGED search_matches
          \/ search_matches' = << >>
          \/ \E q : UpdateSearch(q)
      BY MatchesChange
    <3>2. ToSet(<< >>) = {}
      BY DEF ToSet
    <3>3. QED BY <3>1, <3>2, UpdatesFindRows DEF MatchesOnRows
  <2>2. ToSet(filter_matches') \subseteq Indices
    <3>1. \/ UNCHANGED filter_matches
          \/ filter_matches' = << >>
          \/ \E q : UpdateFilter(q)
      BY MatchesChange
    <3>2. ToSet(<< >>) = {}
      BY DEF ToSet
    <3>3. QED BY <3>1, <3>2, UpdatesFindRows DEF MatchesOnRows
  <2>3. QED BY <1>2, <2>1, <2>2 DEF MatchesOnRows
<1>3. QED BY <1>1, <1>2, RowsLost

\* Through every key, every count and every sync, only a collapse takes matches
\* beyond the rows; and only a key that goes to such a match, or a j with a count
\* so large that it overflows, takes the cursor off them.
THEOREM BrowseKeepsRows == Spec => RowsAreKept
<1>1. BrowseInv /\ [Next]_vars => [RowsLeft]_vars
  <2> SUFFICES ASSUME BrowseInv, [Next]_vars PROVE RowsLeft
    OBVIOUS
  <2>1. DbInv /\ TreeInv /\ SearchInv /\ FilterInv /\ PaneInv
    BY DEF BrowseInv
  <2>2. CursorOnARow /\ MatchesOnRows
          => \/ CursorOnARow'
             \/ TreeDown /\ CursorOverflows
             \/ FilterMove /\ MatchOverflows
    BY <2>1, CursorKept
  <2>3. MatchesOnRows => MatchesOnRows' \/ Collapses
    BY <2>1, MatchesKept
  <2>4. QED BY <2>2, <2>3 DEF RowsLeft
<1>2. QED BY <1>1, BrowseInductive, PTL DEF Spec, RowsAreKept
=============================================================================
