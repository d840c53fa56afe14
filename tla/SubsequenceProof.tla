-------------------------- MODULE SubsequenceProof --------------------------
(***************************************************************************)
(* Induction over numbers and sequences, in a first-order form, and what   *)
(* Keep returns for every sequence.                                        *)
(***************************************************************************)
EXTENDS Subsequence, SequenceTheorems, WellFoundedInduction, TLAPS

-----------------------------------------------------------------------------
(* Induction.  The induction theorems of the library take the property as  *)
(* an operator; here it is a set, and the proof is by least counterexample. *)

NatLess == {p \in Nat \X Nat : p[1] < p[2]}

\* There is no endless descent among the numbers.
LEMMA NatLessWellFounded == IsWellFoundedOn(NatLess, Nat)
  BY NatLessThanWellFounded DEF NatLess, OpToRel

\* A non-empty set of numbers has a least one.
LEMMA Least ==
  ASSUME NEW T \in SUBSET Nat, T # {}
  PROVE  \E n \in T : \A m \in T : n <= m
<1>1. PICK n \in T : \A m \in T : <<m, n>> \notin NatLess
  BY NatLessWellFounded, WFMin
<1>2. \A m \in T : ~(m < n)
  BY <1>1 DEF NatLess
<1>3. QED BY <1>1, <1>2

\* Induction: a set of numbers with 0, and with n + 1 for its every n < N, has all up to N
LEMMA UpTo ==
  ASSUME NEW N \in Nat, NEW P, 0 \in P,
         \A n \in 1 .. N : n - 1 \in P => n \in P
  PROVE  0 .. N \subseteq P
<1> DEFINE Bad == {n \in 0 .. N : n \notin P}
<1> SUFFICES ASSUME Bad # {} PROVE FALSE
  OBVIOUS
<1>1. PICK n \in Bad : \A m \in Bad : n <= m
  <2>1. Bad \in SUBSET Nat
    OBVIOUS
  <2> HIDE DEF Bad
  <2>2. QED  BY <2>1, Least
<1>2. n \in 1 .. N /\ n - 1 \in 0 .. N /\ n - 1 \notin Bad
  BY <1>1
<1>3. QED BY <1>1, <1>2

\* f is the function on 0 .. N that g and the value z at 0 define by recursion.
Recursive(f, N, z, g) ==
  f = [n \in 0 .. N |-> IF n = 0 THEN z ELSE g[<<n, f[n - 1]>>]]

\* There is such a function.
LEMMA Recursion ==
  ASSUME NEW N \in Nat, NEW V, NEW z \in V, NEW g \in [(1 .. N) \X V -> V]
  PROVE  \E f \in [0 .. N -> V] : Recursive(f, N, z, g)
<1> DEFINE P == {n \in 0 .. N : \E f \in [0 .. n -> V] : Recursive(f, n, z, g)}
<1>1. 0 \in P
  <2> DEFINE f == [i \in 0 .. 0 |-> z]
  <2>1. f \in [0 .. 0 -> V] /\ Recursive(f, 0, z, g)
    BY DEF Recursive
  <2> HIDE DEF f
  <2>2. \E k \in [0 .. 0 -> V] : Recursive(k, 0, z, g)
    BY <2>1
  <2>3. QED BY <2>2
<1>2. ASSUME NEW n \in 1 .. N, n - 1 \in P PROVE n \in P
  <2>1. PICK f \in [0 .. n - 1 -> V] : Recursive(f, n - 1, z, g)
    BY <1>2
  <2> DEFINE h == [i \in 0 .. n |-> IF i = n THEN g[<<n, f[n - 1]>>] ELSE f[i]]
  <2>2. h \in [0 .. n -> V]
    OBVIOUS
  <2>3. ASSUME NEW i \in 0 .. n
        PROVE  h[i] = IF i = 0 THEN z ELSE g[<<i, h[i - 1]>>]
    <3>1. CASE i = n
      <4>1. h[i - 1] = f[n - 1]
        BY <3>1
      <4>2. QED BY <3>1, <4>1
    <3>2. CASE i # n
      <4>1. i \in 0 .. n - 1
        BY <3>2
      <4>2. f[i] = IF i = 0 THEN z ELSE g[<<i, f[i - 1]>>]
        BY <4>1, <2>1 DEF Recursive
      <4>3. i # 0 => h[i - 1] = f[i - 1]
        BY <4>1
      <4>4. h[i] = f[i]
        BY <4>1
      <4>5. QED BY <4>2, <4>3, <4>4
    <3>3. QED BY <3>1, <3>2
  <2>4. Recursive(h, n, z, g)
    BY <2>3 DEF Recursive
  <2> HIDE DEF h
  <2>5. \E k \in [0 .. n -> V] : Recursive(k, n, z, g)
    BY <2>2, <2>4
  <2>6. QED BY <2>5
<1>3. N \in P
  <2> HIDE DEF P
  <2>1. 0 .. N \subseteq P  BY <1>1, <1>2, UpTo
  <2>2. QED BY <2>1
<1>4. QED BY <1>3

\* Induction over sequences, for a set P: a set that has the empty sequence and
\* every extension of its members has all of Seq(S).
LEMMA SeqInduct ==
  ASSUME NEW S, NEW P, << >> \in P,
         \A s \in Seq(S), x \in S : s \in P => Append(s, x) \in P
  PROVE  Seq(S) \subseteq P
<1> DEFINE Q == {n \in Nat : \A s \in Seq(S) : Len(s) = n => s \in P}
<1> SUFFICES ASSUME NEW s \in Seq(S) PROVE s \in P
  OBVIOUS
<1>1. 0 \in Q
  BY EmptySeq
<1>2. ASSUME NEW n \in Nat \ {0}, n - 1 \in Q PROVE n \in Q
  <2> SUFFICES ASSUME NEW t \in Seq(S), Len(t) = n PROVE t \in P
    OBVIOUS
  <2>1. t # << >>
    OBVIOUS
  <2>2. PICK u \in Seq(S), x \in S : t = Append(u, x)
    BY <2>1, SequenceEmptyOrAppend
  <2>3. Len(u) = n - 1
    BY <2>2, AppendProperties
  <2>4. QED BY <1>2, <2>2, <2>3
<1>3. Len(s) \in Q
  <2> HIDE DEF Q
  <2>1. Len(s) \in Nat
    OBVIOUS
  <2>2. \A n \in 1 .. Len(s) : n - 1 \in Q => n \in Q
    BY <1>2
  <2>3. 0 .. Len(s) \subseteq Q
    BY <2>1, <2>2, <1>1, UpTo
  <2>4. QED BY <2>1, <2>3
<1>4. QED BY <1>3

\* What Keep's recursion computes
LEMMA KeepFcn ==
  ASSUME NEW S, NEW s \in Seq(S), NEW A
  PROVE  \E f \in [0 .. Len(s) -> Seq(S)] :
           /\ Keep(s, A) = f[Len(s)]
           /\ f[0] = << >>
           /\ \A n \in 1 .. Len(s) :
                f[n] = IF s[n] \in A THEN Append(f[n - 1], s[n]) ELSE f[n - 1]
<1> DEFINE N == Len(s)
    Rec(f) == f = [n \in 0 .. N |-> IF n = 0 THEN << >>
                                   ELSE IF s[n] \in A THEN Append(f[n - 1], s[n])
                                   ELSE f[n - 1]]
    g == [p \in (1 .. N) \X Seq(S) |-> IF s[p[1]] \in A THEN Append(p[2], s[p[1]])
                                                       ELSE p[2]]
    f == CHOOSE f : Rec(f)
<1>1. N \in Nat
  OBVIOUS
<1>2. g \in [(1 .. N) \X Seq(S) -> Seq(S)]
  OBVIOUS
<1>3. \E h \in [0 .. N -> Seq(S)] : Recursive(h, N, << >>, g)
  <2> HIDE DEF g, N
  <2>1. << >> \in Seq(S)
    BY EmptySeq
  <2>2. QED BY <2>1, <1>1, <1>2, Recursion
<1>4. \E h \in [0 .. N -> Seq(S)] : Rec(h)
  <2>1. PICK h \in [0 .. N -> Seq(S)] : Recursive(h, N, << >>, g)
    BY <1>3
  <2>2. ASSUME NEW n \in 1 .. N PROVE g[<<n, h[n - 1]>>] = IF s[n] \in A THEN Append(h[n - 1], s[n])
                                   ELSE h[n - 1]
    <3>1. h[n - 1] \in Seq(S)
      BY <1>1
    <3>2. <<n, h[n - 1]>> \in (1 .. N) \X Seq(S)
      BY <3>1
    <3>3. QED BY <3>2
  <2> HIDE DEF g, N
  <2>3. h = [n \in 0 .. N |-> IF n = 0 THEN << >>
                              ELSE IF s[n] \in A THEN Append(h[n - 1], s[n])
                              ELSE h[n - 1]]
    <3>1. h = [n \in 0 .. N |-> IF n = 0 THEN << >> ELSE g[<<n, h[n - 1]>>]]
      BY <2>1 DEF Recursive
    <3>2. \A n \in 0 .. N : n # 0 => n \in 1 .. N
      BY <1>1
    <3>3. QED BY <3>1, <3>2, <2>2
  <2>4. Rec(h)
    BY <2>3
  <2> HIDE DEF Rec
  <2>5. QED BY <2>4
<1>5. Rec(f)
  BY <1>4
<1>6. Keep(s, A) = f[N]
  BY DEF Keep
<1> HIDE DEF f, g
<1>7. f[0] = << >> /\ \A n \in 1 .. N :
         f[n] = IF s[n] \in A THEN Append(f[n - 1], s[n]) ELSE f[n - 1]
  <2>1. f = [n \in 0 .. N |-> IF n = 0 THEN << >>
                              ELSE IF s[n] \in A THEN Append(f[n - 1], s[n])
                              ELSE f[n - 1]]
    BY <1>5
  <2> HIDE DEF N
  <2>2. \A n \in 0 .. N :
          f[n] = IF n = 0 THEN << >>
                 ELSE IF s[n] \in A THEN Append(f[n - 1], s[n]) ELSE f[n - 1]
    BY <2>1
  <2>3. 0 \in 0 .. N /\ \A n \in 1 .. N : n \in 0 .. N /\ n # 0
    BY <1>1
  <2>4. QED  BY <2>2, <2>3
<1>8. \A n \in 0 .. N : f[n] \in Seq(S)
  <2> DEFINE P == {n \in 0 .. N : f[n] \in Seq(S)}
  <2>1. 0 \in P
    <3>1. f[0] \in Seq(S)
      BY <1>7, EmptySeq
    <3>2. 0 \in 0 .. N
      BY <1>1
    <3>3. QED BY <3>1, <3>2
  <2>2. ASSUME NEW n \in 1 .. N, n - 1 \in P PROVE n \in P
    <3>1. s[n] \in S /\ f[n - 1] \in Seq(S) /\ n \in 0 .. N
      BY <2>2, <1>1, ElementOfSeq
    <3>2. Append(f[n - 1], s[n]) \in Seq(S)
      BY <3>1, AppendProperties
    <3>3. f[n] \in Seq(S)
      BY <1>7, <3>1, <3>2
    <3>4. QED  BY <3>1, <3>3
  <2> HIDE DEF P
  <2>3. 0 .. N \subseteq P
    BY <2>1, <2>2, <1>1, UpTo
  <2>4. QED BY <2>3 DEF P
<1>9. f \in [0 .. N -> Seq(S)]
  BY <1>5, <1>8
<1>10. QED BY <1>6, <1>7, <1>9

\* Nothing is kept of nothing.
LEMMA KeepEmpty == ASSUME NEW A PROVE Keep(<< >>, A) = << >>
<1>1. ASSUME NEW s \in Seq({}), Len(s) = 0 PROVE Keep(s, A) = << >>
  <2>1. PICK f \in [0 .. Len(s) -> Seq({})] :
          /\ Keep(s, A) = f[Len(s)]
          /\ f[0] = << >>
          /\ \A n \in 1 .. Len(s) :
               f[n] = IF s[n] \in A THEN Append(f[n - 1], s[n]) ELSE f[n - 1]
    BY KeepFcn
  <2>2. QED BY <1>1, <2>1
<1>2. QED BY <1>1, EmptySeq

\* One more element is kept behind the others, or left out.
LEMMA KeepAppend ==
  ASSUME NEW S, NEW s \in Seq(S), NEW x \in S, NEW A
  PROVE  Keep(Append(s, x), A) =
           IF x \in A THEN Append(Keep(s, A), x) ELSE Keep(s, A)
<1> DEFINE t == Append(s, x)  N == Len(s)
<1>1. t \in Seq(S) /\ Len(t) = N + 1 /\ N \in Nat /\ t[N + 1] = x
      /\ \A n \in 1 .. N : t[n] = s[n]
  OBVIOUS
<1> HIDE DEF t
<1>2. PICK f \in [0 .. N -> Seq(S)] :
           /\ Keep(s, A) = f[N]
           /\ f[0] = << >>
           /\ \A n \in 1 .. N :
                f[n] = IF s[n] \in A THEN Append(f[n - 1], s[n]) ELSE f[n - 1]
  BY KeepFcn
<1>3. PICK h \in [0 .. Len(t) -> Seq(S)] :
           /\ Keep(t, A) = h[Len(t)]
           /\ h[0] = << >>
           /\ \A n \in 1 .. Len(t) :
                h[n] = IF t[n] \in A THEN Append(h[n - 1], t[n]) ELSE h[n - 1]
  <2>1. t \in Seq(S)
    BY <1>1
  <2>2. QED BY <2>1, KeepFcn
<1> DEFINE P == {n \in 0 .. N : f[n] = h[n]}
<1>4. 0 \in P
  BY <1>1, <1>2, <1>3
<1>5. ASSUME NEW n \in 1 .. N, n - 1 \in P PROVE n \in P
  BY <1>1, <1>2, <1>3, <1>5
<1>6. f[N] = h[N]
  <2> HIDE DEF P, N
  <2>1. 0 .. N \subseteq P
    BY <1>1, <1>4, <1>5, UpTo
  <2>2. N \in P
    BY <1>1, <2>1
  <2>3. QED BY <2>2 DEF P
<1>7. h[N + 1] = IF x \in A THEN Append(h[N], x) ELSE h[N]
  BY <1>1, <1>3
<1>8. QED BY <1>1, <1>2, <1>3, <1>6, <1>7 DEF t

\* type: elements of s in A, in order
LEMMA KeepTyped ==
  ASSUME NEW S, NEW s \in Seq(S), NEW A
  PROVE  Keep(s, A) \in Seq(S \cap A)
<1> DEFINE P == {q \in Seq(S) : Keep(q, A) \in Seq(S \cap A)}
<1>1. << >> \in P
  BY KeepEmpty, EmptySeq
<1>2. ASSUME NEW q \in Seq(S), NEW x \in S, q \in P PROVE Append(q, x) \in P
  <2>1. Append(q, x) \in Seq(S)
    BY AppendProperties
  <2>2. x \in A => Append(Keep(q, A), x) \in Seq(S \cap A)
    BY <1>2, AppendProperties
  <2>3. QED BY <1>2, <2>1, <2>2, KeepAppend
<1>3. QED
  <2> HIDE DEF P
  <2>1. s \in P
    BY <1>1, <1>2, SeqInduct
  <2>2. QED BY <2>1 DEF P

\* the elements of s in A, no other
LEMMA KeepRange ==
  ASSUME NEW S, NEW s \in Seq(S), NEW A
  PROVE  {Keep(s, A)[i] : i \in DOMAIN Keep(s, A)} = {s[i] : i \in DOMAIN s} \cap A
<1> DEFINE R(q) == {q[i] : i \in DOMAIN q}
    P == {q \in Seq(S) : R(Keep(q, A)) = R(q) \cap A}
<1>0. ASSUME NEW T, NEW q \in Seq(T), NEW x \in T
      PROVE  R(Append(q, x)) = R(q) \cup {x}
  <2>1. DOMAIN Append(q, x) = 1 .. Len(q) + 1 /\ DOMAIN q = 1 .. Len(q)
    OBVIOUS
  <2>2. \A i \in 1 .. Len(q) : Append(q, x)[i] = q[i]
    OBVIOUS
  <2>3. Append(q, x)[Len(q) + 1] = x
    OBVIOUS
  <2>4. QED BY <2>1, <2>2, <2>3
<1>1. << >> \in P
  BY KeepEmpty
<1>2. ASSUME NEW q \in Seq(S), NEW x \in S, q \in P PROVE Append(q, x) \in P
  <2>1. Keep(q, A) \in Seq(S \cap A)
    BY KeepTyped
  <2>2. Keep(q, A) \in Seq(S)
    BY <2>1, SeqMonotonic
  <2>3. Append(q, x) \in Seq(S) /\ R(Keep(q, A)) = R(q) \cap A
    BY <1>2, AppendProperties
  <2> HIDE DEF R
  <2>4. R(Append(q, x)) = R(q) \cup {x}
    BY <1>0
  <2>5. R(Append(Keep(q, A), x)) = R(Keep(q, A)) \cup {x}
    BY <1>0, <2>2
  <2>6. R(Keep(Append(q, x), A)) = R(Append(q, x)) \cap A
    <3>1. CASE x \in A
      <4>1. Keep(Append(q, x), A) = Append(Keep(q, A), x)
        BY <3>1, KeepAppend
      <4>2. QED BY <2>3, <2>4, <2>5, <3>1, <4>1
    <3>2. CASE x \notin A
      BY <2>3, <2>4, <3>2, KeepAppend
    <3>3. QED BY <3>1, <3>2
  <2>7. QED BY <2>3, <2>6
<1>3. QED
  <2> HIDE DEF P
  <2>1. s \in P
    BY <1>1, <1>2, SeqInduct
  <2>2. QED BY <2>1 DEF P

\* Keep of nothing to keep.
LEMMA KeepNone ==
  ASSUME NEW S, NEW s \in Seq(S), NEW A, \A i \in 1 .. Len(s) : s[i] \notin A
  PROVE  Keep(s, A) = << >>
<1>1. {Keep(s, A)[i] : i \in DOMAIN Keep(s, A)} = {s[i] : i \in DOMAIN s} \cap A
  BY KeepRange
<1>2. {s[i] : i \in DOMAIN s} \cap A = {}
  OBVIOUS
<1>3. Keep(s, A) \in Seq(S \cap A) /\ DOMAIN Keep(s, A) = {}
  BY <1>1, <1>2, KeepTyped
<1>4. QED BY <1>3

\* Keep of everything to keep.
LEMMA KeepAll ==
  ASSUME NEW S, NEW s \in Seq(S), NEW A, \A i \in 1 .. Len(s) : s[i] \in A
  PROVE  Keep(s, A) = s
<1> DEFINE P == {q \in Seq(S) : (\A i \in 1 .. Len(q) : q[i] \in A) => Keep(q, A) = q}
<1>1. << >> \in P
  BY KeepEmpty, EmptySeq
<1>2. ASSUME NEW q \in Seq(S), NEW x \in S, q \in P PROVE Append(q, x) \in P
  <2> DEFINE r == Append(q, x)
  <2>1. /\ r \in Seq(S) /\ Len(q) \in Nat /\ Len(r) = Len(q) + 1
        /\ r[Len(q) + 1] = x /\ \A i \in 1 .. Len(q) : r[i] = q[i]
    BY AppendProperties, LenProperties
  <2>2. Keep(r, A) = IF x \in A THEN Append(Keep(q, A), x) ELSE Keep(q, A)
    BY KeepAppend
  <2>3. ASSUME \A i \in 1 .. Len(r) : r[i] \in A PROVE Keep(r, A) = r
    <3> HIDE DEF r
    <3>1. \A i \in 1 .. Len(q) : q[i] \in A
      BY <2>1, <2>3
    <3>2. x \in A
      BY <2>1, <2>3
    <3>3. QED BY <1>2, <2>2, <3>1, <3>2 DEF r
  <2>4. QED BY <2>1, <2>3
<1>3. s \in P
  <2> HIDE DEF P
  <2>1. QED BY <1>1, <1>2, SeqInduct
<1>4. QED BY <1>3

\* A larger set keeps at least as many.
LEMMA KeepMonotone ==
  ASSUME NEW S, NEW s \in Seq(S), NEW A, NEW B, A \subseteq B
  PROVE  Len(Keep(s, A)) <= Len(Keep(s, B))
<1> DEFINE P == {q \in Seq(S) : Len(Keep(q, A)) <= Len(Keep(q, B))}
<1>1. << >> \in P
  BY KeepEmpty, EmptySeq
<1>2. ASSUME NEW q \in Seq(S), NEW x \in S, q \in P PROVE Append(q, x) \in P
  <2>1. Append(q, x) \in Seq(S)
    BY AppendProperties
  <2>2. Keep(q, A) \in Seq(S) /\ Keep(q, B) \in Seq(S)
    <3>1. Keep(q, A) \in Seq(S \cap A) /\ Keep(q, B) \in Seq(S \cap B)
      BY KeepTyped
    <3>2. QED BY <3>1, SeqMonotonic
  <2>3. /\ Len(Append(Keep(q, A), x)) = Len(Keep(q, A)) + 1
        /\ Len(Append(Keep(q, B), x)) = Len(Keep(q, B)) + 1
        /\ Len(Keep(q, A)) \in Nat /\ Len(Keep(q, B)) \in Nat
    BY <2>2
  <2>4. /\ Keep(Append(q, x), A) = IF x \in A THEN Append(Keep(q, A), x) ELSE Keep(q, A)
        /\ Keep(Append(q, x), B) = IF x \in B THEN Append(Keep(q, B), x) ELSE Keep(q, B)
    BY KeepAppend
  <2>5. QED BY <1>2, <2>1, <2>3, <2>4
<1>3. s \in P
  <2> HIDE DEF P
  <2>1. QED BY <1>1, <1>2, SeqInduct
<1>4. QED BY <1>3

\* An element appended to the second of two sequences is appended to both.
LEMMA ConcatAppend ==
  ASSUME NEW S, NEW a \in Seq(S), NEW b \in Seq(S), NEW x \in S
  PROVE  a \o Append(b, x) = Append(a \o b, x)
<1>1. Append(b, x) = b \o <<x>> /\ <<x>> \in Seq(S)
  BY AppendIsConcat
<1>2. a \o b \in Seq(S)
  BY ConcatProperties
<1>3. Append(a \o b, x) = (a \o b) \o <<x>>
  BY <1>2, AppendIsConcat
<1>4. QED BY <1>1, <1>3, ConcatAssociative

\* What is kept of one sequence after another.
LEMMA KeepConcat ==
  ASSUME NEW S, NEW a \in Seq(S), NEW b \in Seq(S), NEW A
  PROVE  Keep(a \o b, A) = Keep(a, A) \o Keep(b, A)
<1> DEFINE P == {q \in Seq(S) : Keep(a \o q, A) = Keep(a, A) \o Keep(q, A)}
<1>1. \A q \in Seq(S) : Keep(q, A) \in Seq(S)
  <2> TAKE q \in Seq(S)
  <2>1. Keep(q, A) \in Seq(S \cap A)
    BY KeepTyped
  <2>2. QED BY <2>1, SeqMonotonic
<1>2. << >> \in P
  <2>1. a \o << >> = a /\ Keep(a, A) \o << >> = Keep(a, A)
    BY <1>1, ConcatEmptySeq
  <2>2. QED BY <2>1, KeepEmpty, EmptySeq
<1>3. ASSUME NEW q \in Seq(S), NEW x \in S, q \in P PROVE Append(q, x) \in P
  <2>1. Append(q, x) \in Seq(S) /\ a \o q \in Seq(S)
    BY AppendProperties, ConcatProperties
  <2>2. a \o Append(q, x) = Append(a \o q, x)
    BY ConcatAppend
  <2>3. Keep(a \o q, A) = Keep(a, A) \o Keep(q, A)
    BY <1>3
  <2>4. CASE x \in A
    <3>1. Keep(Append(a \o q, x), A) = Append(Keep(a \o q, A), x)
      <4>1. \A u \in Seq(S) : Keep(Append(u, x), A) = Append(Keep(u, A), x)
        BY <2>4, KeepAppend
      <4>2. QED BY <2>1, <4>1
    <3>2. Keep(Append(q, x), A) = Append(Keep(q, A), x)
      BY <2>4, KeepAppend
    <3>3. Keep(a, A) \o Append(Keep(q, A), x) = Append(Keep(a, A) \o Keep(q, A), x)
      BY <1>1, ConcatAppend
    <3>4. QED BY <2>1, <2>2, <2>3, <3>1, <3>2, <3>3
  <2>5. CASE x \notin A
    <3>1. Keep(Append(a \o q, x), A) = Keep(a \o q, A)
      BY <2>1, <2>5, KeepAppend
    <3>2. Keep(Append(q, x), A) = Keep(q, A)
      BY <2>5, KeepAppend
    <3>3. QED BY <2>1, <2>2, <2>3, <3>1, <3>2
  <2>6. QED BY <2>4, <2>5
<1>4. b \in P
  <2> HIDE DEF P
  <2>1. QED BY <1>2, <1>3, SeqInduct
<1>5. QED BY <1>4
=============================================================================
