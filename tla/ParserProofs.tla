---------------------------- MODULE ParserProofs ----------------------------
(***************************************************************************)
(* Theorems about Parser for every line, environment, set of programs and  *)
(* bound: what the passes hand to each other, and the tree they end with.  *)
(***************************************************************************)
EXTENDS Parser, TLAPS, SequenceTheorems, FiniteSetTheorems, NaturalsInduction,
        WellFoundedInduction

-----------------------------------------------------------------------------
(* Numbers and sequences. *)

\* A set of naturals that is not empty has a least element.
LEMMA LeastExists ==
  ASSUME NEW S \in SUBSET Nat, S # {}
  PROVE  \E x \in S : \A y \in S : x <= y
<1> DEFINE R == {ss \in Nat \X Nat : ss[1] < ss[2]}
<1>1. IsWellFoundedOn(R, Nat)
  BY NatLessThanWellFounded DEF OpToRel
<1> HIDE DEF R
<1>2. PICK x \in S : \A y \in S : ~ (<<y, x>> \in R)
  BY <1>1, WFMin, Zenon
<1>3. ASSUME NEW y \in S
      PROVE  x <= y
  <2>1. x \in Nat /\ y \in Nat /\ <<y, x>> \notin R
    BY <1>2
  <2>2. ~ (y < x)
    BY <2>1 DEF R
  <2> QED
    BY <2>1, <2>2
<1> QED
  BY <1>3

LEMMA MinIsLeast ==
  ASSUME NEW S \in SUBSET Nat, S # {}
  PROVE  Min(S) \in S /\ \A y \in S : Min(S) <= y
BY LeastExists DEF Min

\* Bounded sets of naturals have a greatest element.
LEMMA MaxIsGreatest ==
  ASSUME NEW n \in Nat, NEW S \in SUBSET (0..n), S # {}
  PROVE  Max(S) \in S /\ \A y \in S : y <= Max(S)
<1> DEFINE M == {n - k : k \in S}
<1>1. M \in SUBSET Nat /\ M # {}
  <2>1. \A k \in S : k \in 0..n
    OBVIOUS
  <2>2. \A k \in S : n - k \in Nat
    BY <2>1
  <2> QED
    BY <2>2
<1>2. PICK x \in M : \A y \in M : x <= y
  BY <1>1, LeastExists
<1>3. PICK m \in S : x = n - m
  BY <1>2
<1>4. \A y \in S : y <= m
  <2> SUFFICES ASSUME NEW y \in S
               PROVE  y <= m
    OBVIOUS
  <2>1. x <= n - y
    BY <1>2
  <2>2. m \in 0..n /\ y \in 0..n
    OBVIOUS
  <2> QED
    BY <1>3, <2>1, <2>2
<1>5. \A y \in S : m >= y
  BY <1>4
<1> QED
  BY <1>5 DEF Max

\* What is so at 0, and from each number to the next, is so up to n.
LEMMA UpTo ==
  ASSUME NEW n \in Nat, NEW T, 0 \in T, \A k \in 1..n : k - 1 \in T => k \in T
  PROVE  \A k \in 0..n : k \in T
<1> SUFFICES ASSUME NEW k \in 0..n, k \notin T
             PROVE  FALSE
  OBVIOUS
<1> DEFINE S == {j \in 0..n : j \notin T}
<1>1. S \in SUBSET Nat /\ S # {}
  OBVIOUS
<1>2. PICK x \in S : \A y \in S : x <= y
  BY <1>1, LeastExists
<1>3. x \in 1..n /\ x - 1 \in 0..n /\ x - 1 \notin S
  BY <1>2
<1> QED
  BY <1>2, <1>3

\* What a loop that applies g n times goes through, from x, in the k-th
\* turn in I[k].
Loops(U, n, I, x, g) ==
  {f \in [0..n -> U] : /\ f[0] = x
                       /\ \A k \in 1..n : f[k] = g[<<f[k - 1], k>>]
                       /\ \A k \in 0..n : f[k] \in I[k]}

\* Turns has a value: there is such a loop when each turn goes from one of
\* these sets to the next.
LEMMA Iterates ==
  ASSUME NEW U, NEW n \in Nat, NEW I, NEW x \in I[0], NEW g,
         \A k \in 0..n : I[k] \subseteq U,
         \A k \in 1..n : \A y \in I[k - 1] : g[<<y, k>>] \in I[k]
  PROVE  \E f : f \in Loops(U, n, I, x, g)
<1> DEFINE Good(f, m) == /\ f \in [0..m -> U]
                         /\ f[0] = x
                         /\ \A k \in 1..m : f[k] = g[<<f[k - 1], k>>]
                         /\ \A k \in 0..m : f[k] \in I[k]
           T == {m \in 0..n : \E f : Good(f, m)}
<1>1. 0 \in T
  <2>1. Good([k \in 0..0 |-> x], 0)
    OBVIOUS
  <2>2. 0 \in 0..n
    OBVIOUS
  <2> HIDE DEF Good
  <2> QED
    BY <2>1, <2>2
<1>2. ASSUME NEW m \in 1..n, m - 1 \in T
      PROVE  m \in T
  <2>1. PICK f : Good(f, m - 1)
    BY <1>2
  <2> DEFINE h == [k \in 0..m |-> IF k < m THEN f[k] ELSE g[<<f[m - 1], m>>]]
  <2>2. \A k \in 0..(m - 1) : h[k] = f[k]
    OBVIOUS
  <2>3. h[m] = g[<<h[m - 1], m>>]
    OBVIOUS
  <2>4. \A k \in 1..m : h[k] = g[<<h[k - 1], k>>]
    <3> SUFFICES ASSUME NEW k \in 1..(m - 1)
                 PROVE  h[k] = g[<<h[k - 1], k>>]
      <4> HIDE DEF h
      <4> QED
        BY <2>3
    <3>1. f[k] = g[<<f[k - 1], k>>]
      BY <2>1
    <3>2. k \in 0..(m - 1) /\ k - 1 \in 0..(m - 1)
      OBVIOUS
    <3> QED
      BY <2>2, <3>1, <3>2
  <2>5. \A k \in 0..m : h[k] \in I[k]
    <3>1. h[m - 1] \in I[m - 1]
      BY <2>1, <2>2
    <3>2. h[m] \in I[m]
      BY <2>3, <3>1
    <3> QED
      BY <2>1, <2>2, <3>2
  <2>6. h \in [0..m -> U] /\ h[0] = x
    <3>1. \A k \in 0..m : h[k] \in U
      <4> HIDE DEF h
      <4> QED
        BY <2>5
    <3>2. 0 \in 0..(m - 1)
      OBVIOUS
    <3> QED
      BY <2>1, <2>2, <3>1, <3>2
  <2>7. Good(h, m)
    <3> HIDE DEF h
    <3> QED
      BY <2>4, <2>5, <2>6
  <2>8. m \in 0..n
    OBVIOUS
  <2> HIDE DEF Good, h
  <2> QED
    BY <2>7, <2>8
<1>3. n \in T
  <2> HIDE DEF T
  <2> QED
    BY <1>1, <1>2, UpTo
<1> QED
  BY <1>3 DEF Loops

LEMMA RunLengthIs ==
  ASSUME NEW X, NEW s \in Seq(X), NEW S
  PROVE  /\ RunLength(s, S) \in 0..Len(s)
         /\ \A k \in 1..RunLength(s, S) : s[k] \in S
         /\ RunLength(s, S) < Len(s) => s[RunLength(s, S) + 1] \notin S
<1> DEFINE ends == {k \in 1..Len(s) : s[k] \notin S}
<1>0. Len(s) \in Nat
  OBVIOUS
<1>1. CASE ends = {}
  <2>1. RunLength(s, S) = Len(s)
    BY <1>1 DEF RunLength
  <2> QED
    BY <1>0, <1>1, <2>1
<1>2. CASE ends # {}
  <2>1. ends \in SUBSET Nat
    OBVIOUS
  <2>2. Min(ends) \in ends /\ \A y \in ends : Min(ends) <= y
    BY <1>2, <2>1, MinIsLeast
  <2>3. RunLength(s, S) = Min(ends) - 1
    BY <1>2 DEF RunLength
  <2> DEFINE m == Min(ends)
  <2> HIDE DEF m
  <2>4. m \in 1..Len(s) /\ s[m] \notin S /\ \A y \in ends : m <= y
    BY <2>2 DEF m
  <2>5. \A k \in 1..(m - 1) : s[k] \in S
    BY <1>0, <2>4
  <2>6. RunLength(s, S) = m - 1
    BY <2>3 DEF m
  <2> QED
    BY <1>0, <2>4, <2>5, <2>6
<1> QED
  BY <1>1, <1>2

\* The symbols from k to m.
LEMMA PieceIs ==
  ASSUME NEW X, NEW s \in Seq(X), NEW k \in 1..(Len(s) + 1), NEW m \in (k - 1)..Len(s)
  PROVE  /\ SubSeq(s, k, m) \in Seq(X) /\ Len(SubSeq(s, k, m)) = m - k + 1
         /\ \A j \in 1..(m - k + 1) : SubSeq(s, k, m)[j] = s[k + j - 1]
<1>1. Len(s) \in Nat /\ k \in Int /\ m \in Int
  OBVIOUS
<1>2. \A j \in k..m : s[j] \in X
  BY <1>1
<1> QED
  BY <1>1, <1>2, SubSeqProperties

LEMMA RestIs ==
  ASSUME NEW X, NEW s \in Seq(X), NEW k \in 1..(Len(s) + 1)
  PROVE  /\ Rest(s, k) \in Seq(X) /\ Len(Rest(s, k)) = Len(s) - k + 1
         /\ \A j \in 1..(Len(s) - k + 1) : Rest(s, k)[j] = s[k + j - 1]
<1>1. Len(s) \in (k - 1)..Len(s)
  OBVIOUS
<1> QED
  BY <1>1, PieceIs DEF Rest

LEMMA AbsorbedIs ==
  ASSUME NEW X, NEW l \in Seq(X), NEW k \in 1..(Len(l) - 1), NEW t \in X
  PROVE  /\ Absorbed(l, k, t) \in Seq(X) /\ Len(Absorbed(l, k, t)) = Len(l) - 1
         /\ \A p \in 1..(Len(l) - 1) :
              Absorbed(l, k, t)[p] = IF p < k THEN l[p]
                                     ELSE IF p = k THEN t ELSE l[p + 1]
<1> DEFINE a == SubSeq(l, 1, k - 1)
           b == <<t>>
           c == Rest(l, k + 2)
           ab == a \o b
<1>0. Len(l) \in Nat /\ k \in Nat /\ k >= 1 /\ k < Len(l)
  OBVIOUS
<1>1. /\ a \in Seq(X) /\ Len(a) = k - 1
      /\ \A p \in 1..(k - 1) : a[p] = l[p]
  <2>1. 1 \in 1..(Len(l) + 1) /\ k - 1 \in (1 - 1)..Len(l)
    BY <1>0
  <2>2. /\ a \in Seq(X) /\ Len(a) = k - 1 - 1 + 1
        /\ \A p \in 1..(k - 1 - 1 + 1) : a[p] = l[1 + p - 1]
    BY <2>1, PieceIs
  <2> QED
    BY <1>0, <2>2
<1>2. b \in Seq(X) /\ Len(b) = 1 /\ b[1] = t
  OBVIOUS
<1>3. /\ c \in Seq(X) /\ Len(c) = Len(l) - k - 1
      /\ \A p \in 1..(Len(l) - k - 1) : c[p] = l[k + 1 + p]
  <2>1. k + 2 \in 1..(Len(l) + 1)
    BY <1>0
  <2>2. /\ c \in Seq(X) /\ Len(c) = Len(l) - (k + 2) + 1
        /\ \A p \in 1..(Len(l) - (k + 2) + 1) : c[p] = l[(k + 2) + p - 1]
    BY <2>1, RestIs
  <2>3. Len(l) - (k + 2) + 1 = Len(l) - k - 1
    BY <1>0
  <2>4. \A p \in 1..(Len(l) - k - 1) : (k + 2) + p - 1 = k + 1 + p
    BY <1>0
  <2> QED
    BY <2>2, <2>3, <2>4
<1> HIDE DEF a, b, c
<1>4. /\ ab \in Seq(X) /\ Len(ab) = k
      /\ \A p \in 1..k : ab[p] = IF p < k THEN a[p] ELSE t
  <2>1. /\ ab \in Seq(X) /\ Len(ab) = k - 1 + 1
        /\ \A p \in 1..(k - 1 + 1) : ab[p] = IF p <= k - 1 THEN a[p] ELSE b[p - (k - 1)]
    <3>1. a \in Seq(X) /\ b \in Seq(X)
      BY <1>1, <1>2
    <3>2. /\ ab \in Seq(X) /\ Len(ab) = Len(a) + Len(b)
          /\ \A p \in 1..(Len(a) + Len(b)) :
               ab[p] = IF p <= Len(a) THEN a[p] ELSE b[p - Len(a)]
      BY <3>1, ConcatProperties
    <3> HIDE DEF ab
    <3> QED
      BY <1>1, <1>2, <3>2
  <2>2. \A p \in 1..k : p < k \/ (p = k /\ p - (k - 1) = 1)
    BY <1>0
  <2>3. \A p \in 1..k : p < k <=> p <= k - 1
    BY <1>0
  <2>4. k - 1 + 1 = k
    BY <1>0
  <2> HIDE DEF ab
  <2> QED
    BY <1>2, <2>1, <2>2, <2>3, <2>4
<1>5. Absorbed(l, k, t) = ab \o c
  BY DEF Absorbed, a, b, c
<1> HIDE DEF ab
<1>6. /\ ab \o c \in Seq(X) /\ Len(ab \o c) = Len(l) - 1
      /\ \A p \in 1..(Len(l) - 1) :
           (ab \o c)[p] = IF p <= k THEN ab[p] ELSE c[p - k]
  <2>1. ab \in Seq(X) /\ c \in Seq(X) /\ Len(ab) = k /\ Len(c) = Len(l) - k - 1
    BY <1>3, <1>4
  <2>2. /\ ab \o c \in Seq(X) /\ Len(ab \o c) = Len(ab) + Len(c)
        /\ \A p \in 1..(Len(ab) + Len(c)) :
             (ab \o c)[p] = IF p <= Len(ab) THEN ab[p] ELSE c[p - Len(ab)]
    BY <2>1, ConcatProperties
  <2>3. k + (Len(l) - k - 1) = Len(l) - 1
    BY <1>0
  <2> QED
    BY <2>1, <2>2, <2>3
<1>7. \A p \in 1..(Len(l) - 1) : p > k => c[p - k] = l[p + 1]
  <2> SUFFICES ASSUME NEW p \in 1..(Len(l) - 1), p > k
               PROVE  c[p - k] = l[p + 1]
    OBVIOUS
  <2>1. p - k \in 1..(Len(l) - k - 1) /\ k + 1 + (p - k) = p + 1
    BY <1>0
  <2> QED
    BY <1>3, <2>1
<1>8. \A p \in 1..(Len(l) - 1) : p < k => ab[p] = l[p]
  BY <1>0, <1>1, <1>4, SMTT(30)
<1>9. ab[k] = t
  BY <1>0, <1>4
<1> QED
  <2> SUFFICES ASSUME NEW p \in 1..(Len(l) - 1)
               PROVE  (ab \o c)[p] = IF p < k THEN l[p]
                                     ELSE IF p = k THEN t ELSE l[p + 1]
    BY <1>5, <1>6
  <2>1. p < k \/ p = k \/ p > k
    BY <1>0
  <2> QED
    BY <1>0, <1>6, <1>7, <1>8, <1>9, <2>1

-----------------------------------------------------------------------------
(* Tokens, and the passes that put two of them together. *)

LEMMA NoSuchString == NULL \notin Seq(Symbol)
<1>1. "NULL" \notin Symbol
  BY NamesAreNoPunctuation DEF Symbol, Space, Quote, Operator
<1>2. Len(NULL) = 1 /\ NULL[1] = "NULL"
  BY DEF NULL
<1> QED
  BY <1>1, <1>2, ElementOfSeq

\* Sets of tokens that say something of a token's place and types, and
\* nothing of its texts.
Closed(G) ==
  /\ G \subseteq Token
  /\ \A t \in G : \A u \in Token :
       (u.id = t.id /\ u.type = t.type /\ u.coretype = t.coretype) => u \in G

\* A token that is merged with its successor has one, and both have a text.
Chained(l) ==
  \A k \in 1..Len(l) :
    l[k].merge_next => /\ k < Len(l)
                       /\ l[k].value # NULL /\ l[k + 1].value # NULL

LEMMA MergeStep ==
  ASSUME NEW G, Closed(G), NEW l \in Seq(G), Chained(l), NEW k \in 1..Len(l)
  PROVE  /\ merge_to_token_exception(l, k) \in Seq(G)
         /\ Chained(merge_to_token_exception(l, k))
         /\ Len(merge_to_token_exception(l, k)) \in k..Len(l)
<1>1. CASE ~ l[k].merge_next
  BY <1>1 DEF merge_to_token_exception
<1>2. CASE l[k].merge_next
  <2> DEFINE t == [l[k] EXCEPT !.value = @ \o l[k + 1].value, !.merge_next = FALSE]
             r == Absorbed(l, k, t)
  <2>1. Len(l) \in Nat /\ \A p \in 1..Len(l) : l[p] \in G /\ l[p] \in Token
    BY DEF Closed
  <2>2. k < Len(l) /\ l[k].value # NULL /\ l[k + 1].value # NULL
    BY <1>2 DEF Chained
  <2>3. k + 1 \in 1..Len(l) /\ k \in 1..(Len(l) - 1)
    BY <2>1, <2>2
  <2>4. l[k].value \in Seq(Symbol) /\ l[k + 1].value \in Seq(Symbol)
    BY <2>1, <2>2, <2>3 DEF Token
  <2>5. l[k].value \o l[k + 1].value \in Seq(Symbol)
    BY <2>4, ConcatProperties
  <2>6. t \in Token /\ t.id = l[k].id /\ t.type = l[k].type /\ t.coretype = l[k].coretype
    BY <2>1, <2>5 DEF Token
  <2>7. t \in G /\ ~ t.merge_next /\ t.value # NULL
    <3>1. t.value = l[k].value \o l[k + 1].value /\ ~ t.merge_next
      BY <2>1 DEF Token
    <3> QED
      BY <2>1, <2>5, <2>6, <3>1, NoSuchString DEF Closed
  <2> HIDE DEF t
  <2>8. /\ r \in Seq(G) /\ Len(r) = Len(l) - 1
        /\ \A p \in 1..(Len(l) - 1) :
             r[p] = IF p < k THEN l[p] ELSE IF p = k THEN t ELSE l[p + 1]
    BY <2>3, <2>7, AbsorbedIs
  <2>9. merge_to_token_exception(l, k) = r
    BY <1>2 DEF merge_to_token_exception, t
  <2> HIDE DEF r
  <2>10. ASSUME NEW p \in 1..Len(r), r[p].merge_next
         PROVE  p < Len(r) /\ r[p].value # NULL /\ r[p + 1].value # NULL
    <3>1. CASE p < k
      <4>0. p \in 1..(Len(l) - 1) /\ r[p] = l[p]
        BY <2>8, <3>1
      <4>1. p \in 1..Len(l) /\ r[p] = l[p] /\ p + 1 <= k /\ p + 1 \in 1..(Len(l) - 1)
        BY <2>1, <2>3, <3>1, <4>0
      <4>2. l[p].value # NULL /\ l[p + 1].value # NULL
        BY <2>10, <4>1 DEF Chained
      <4>3. r[p + 1] = l[p + 1] \/ r[p + 1] = t
        BY <2>1, <2>3, <2>8, <4>1
      <4>4. p < Len(r)
        BY <2>8, <4>1
      <4>5. r[p + 1].value # NULL
        BY <2>7, <4>2, <4>3
      <4> QED
        BY <4>1, <4>2, <4>4, <4>5
    <3>2. CASE p = k
      BY <2>7, <2>8, <2>10, <3>2
    <3>3. CASE p > k
      <4>0. p \in 1..(Len(l) - 1) /\ ~ (p < k) /\ p # k
        BY <2>1, <2>3, <2>8, <3>3
      <4>1. p + 1 \in 1..Len(l) /\ r[p] = l[p + 1]
        BY <2>1, <2>8, <4>0
      <4>2. p + 1 < Len(l) /\ l[p + 1].value # NULL /\ l[p + 1 + 1].value # NULL
        BY <2>10, <4>1 DEF Chained
      <4>3. p + 1 \in 1..(Len(l) - 1) /\ p < Len(l) - 1 /\ p + 1 > k
        BY <2>1, <2>3, <3>3, <4>1, <4>2
      <4>4. r[p + 1] = l[p + 1 + 1]
        BY <2>1, <2>3, <2>8, <4>3
      <4> QED
        BY <2>8, <4>1, <4>2, <4>3, <4>4
    <3> QED
      BY <2>1, <2>3, <2>8, <3>1, <3>2, <3>3
  <2>11. Chained(r)
    BY <2>10 DEF Chained
  <2>12. Len(r) \in k..Len(l)
    BY <2>1, <2>2, <2>8
  <2> QED
    BY <2>8, <2>9, <2>11, <2>12
<1> QED
  BY <1>1, <1>2

\* Merging from the end to the beginning leaves a list of such tokens.
\* The loop over a list l: what each turn leads from and to.
LEMMA MergeLoop ==
  ASSUME NEW X, NEW l \in Seq(X), ~ (Len(l) < 2), NEW n, n = Len(l) - 1, NEW I, l \in I[0],
         \A k \in 0..n : I[k] \subseteq Seq(X),
         \A k \in 1..n : \A y \in I[k - 1] : merge_to_token_exception(y, Len(l) - k) \in I[k]
  PROVE  merg_tok_excep_cll_revloop(l) \in I[n]
<1> DEFINE Turn(m, k) == merge_to_token_exception(m, Len(l) - k)
           g == [y \in Seq(X) \X (1..n) |-> Turn(y[1], y[2])]
<1>1. n \in Nat /\ n >= 1 /\ Len(l) = n + 1
  OBVIOUS
<1>2. \A k \in 1..n : \A y \in I[k - 1] : Turn(y, k) \in I[k]
  OBVIOUS
<1> HIDE DEF Turn
<1>3. \A k \in 1..n : \A y \in I[k - 1] : g[<<y, k>>] \in I[k] /\ g[<<y, k>>] = Turn(y, k)
  <2>1. \A k \in 1..n : \A y \in I[k - 1] : y \in Seq(X)
    <3> SUFFICES ASSUME NEW k \in 1..n, NEW y \in I[k - 1]
                 PROVE  y \in Seq(X)
      OBVIOUS
    <3>1. k - 1 \in 0..n
      BY <1>1
    <3> QED
      BY <3>1
  <2> QED
    BY <1>2, <2>1
<1> HIDE DEF g
<1>4. PICK f : f \in Loops(Seq(X), n, I, l, g)
  <2>1. \A k \in 1..n : \A y \in I[k - 1] : g[<<y, k>>] \in I[k]
    BY <1>3
  <2> QED
    BY <1>1, <2>1, Iterates
<1>5. f = [k \in 0..n |-> IF k = 0 THEN l ELSE Turn(f[k - 1], k)]
  <2>1. \A k \in 1..n : f[k] = Turn(f[k - 1], k)
    <3> SUFFICES ASSUME NEW k \in 1..n
                 PROVE  f[k] = Turn(f[k - 1], k)
      OBVIOUS
    <3>1. k - 1 \in 0..n
      BY <1>1
    <3> QED
      BY <1>3, <1>4, <3>1 DEF Loops
  <2>2. \A k \in 0..n : f[k] = IF k = 0 THEN l ELSE Turn(f[k - 1], k)
    BY <1>1, <1>4, <2>1 DEF Loops
  <2> QED
    BY <1>4, <2>2 DEF Loops
<1>6. PICK h : /\ h = [k \in 0..n |-> IF k = 0 THEN l ELSE Turn(h[k - 1], k)]
               /\ merg_tok_excep_cll_revloop(l) = h[n]
  BY <1>5 DEF merg_tok_excep_cll_revloop, Turns, Turn
<1> DEFINE T == {k \in 0..n : h[k] \in I[k]}
<1>7. 0 \in T
  BY <1>1, <1>6
<1>8. \A k \in 1..n : k - 1 \in T => k \in T
  BY <1>1, <1>2, <1>6
<1>9. \A k \in 0..n : k \in T
  <2> HIDE DEF T
  <2> QED
    BY <1>1, <1>7, <1>8, UpTo
<1> QED
  BY <1>1, <1>6, <1>9

LEMMA MergeKeeps ==
  ASSUME NEW G, Closed(G), NEW l \in Seq(G), Chained(l)
  PROVE  /\ merg_tok_excep_cll_revloop(l) \in Seq(G)
         /\ Len(merg_tok_excep_cll_revloop(l)) <= Len(l)
         /\ l # <<>> => merg_tok_excep_cll_revloop(l) # <<>>
<1> DEFINE n == Len(l) - 1
           I == [k \in 0..n |-> {m \in Seq(G) : /\ Chained(m)
                                                /\ Len(m) \in (n + 1 - k)..(n + 1)}]
<1>0. Len(l) \in Nat
  OBVIOUS
<1>1. CASE Len(l) < 2
  BY <1>0, <1>1 DEF merg_tok_excep_cll_revloop
<1>2. CASE ~ (Len(l) < 2)
  <2>1. n \in Nat /\ n >= 1 /\ Len(l) = n + 1
    BY <1>0, <1>2
  <2>2. l \in I[0]
    BY <2>1
  <2>3. \A k \in 0..n : I[k] \subseteq Seq(G)
    OBVIOUS
  <2>4. ASSUME NEW k \in 1..n, NEW y \in I[k - 1]
        PROVE  merge_to_token_exception(y, Len(l) - k) \in I[k]
    <3>1. k - 1 \in 0..n /\ k \in 0..n
      BY <2>1
    <3>2. y \in Seq(G) /\ Chained(y) /\ Len(y) \in (n + 1 - (k - 1))..(n + 1)
      BY <3>1
    <3>3. Len(l) - k \in 1..Len(y) /\ Len(l) - k = n + 1 - k
      BY <2>1, <3>2
    <3>4. PICK m : m = merge_to_token_exception(y, Len(l) - k)
      OBVIOUS
    <3>5. m \in Seq(G) /\ Chained(m) /\ Len(m) \in (n + 1 - k)..Len(y)
      BY <3>2, <3>3, <3>4, MergeStep
    <3>6. Len(m) \in (n + 1 - k)..(n + 1)
      BY <2>1, <3>2, <3>5
    <3> HIDE DEF n
    <3> QED
      BY <3>1, <3>4, <3>5, <3>6
  <2>5. merg_tok_excep_cll_revloop(l) \in I[n]
    <3> HIDE DEF I
    <3> QED
      BY <1>2, <2>2, <2>3, <2>4, MergeLoop
  <2>6. PICK r : r = merg_tok_excep_cll_revloop(l)
    OBVIOUS
  <2>7. r \in Seq(G) /\ Len(r) \in 1..Len(l)
    BY <2>1, <2>5, <2>6
  <2> QED
    BY <2>6, <2>7
<1> QED
  BY <1>1, <1>2

-----------------------------------------------------------------------------
(* Files and arguments. *)

LEMMA RedirStep ==
  ASSUME NEW G, Closed(G), NEW l \in Seq(G), NEW k \in 1..Len(l)
  PROVE  /\ redir_handler_file(l, k) \in Seq(G)
         /\ Len(redir_handler_file(l, k)) \in k..Len(l)
<1> DEFINE go == /\ l[k].coretype = "REDIR" /\ k < Len(l)
                 /\ l[k + 1].type = "WORD"
           t == [l[k] EXCEPT !.file = l[k + 1].value]
<1>1. Len(l) \in Nat /\ \A p \in 1..Len(l) : l[p] \in G /\ l[p] \in Token
  BY DEF Closed
<1>2. CASE ~ go
  BY <1>1, <1>2 DEF redir_handler_file
<1>3. CASE go
  <2>1. k \in 1..(Len(l) - 1) /\ k + 1 \in 1..Len(l)
    BY <1>1, <1>3
  <2>2. t \in Token /\ t.id = l[k].id /\ t.type = l[k].type /\ t.coretype = l[k].coretype
    BY <1>1, <2>1 DEF Token
  <2>3. t \in G
    BY <1>1, <2>2 DEF Closed
  <2> HIDE DEF t
  <2>4. Absorbed(l, k, t) \in Seq(G) /\ Len(Absorbed(l, k, t)) = Len(l) - 1
    BY <2>1, <2>3, AbsorbedIs
  <2>5. redir_handler_file(l, k) = Absorbed(l, k, t)
    BY <1>3 DEF redir_handler_file, t
  <2> QED
    BY <1>1, <2>1, <2>4, <2>5
<1> QED
  BY <1>2, <1>3

LEMMA JoinKeeps ==
  ASSUME NEW G, Closed(G), NEW t \in G, NEW arg \in G
  PROVE  join_and_split(t, arg) \in G
<1>1. t \in Token /\ arg \in Token
  BY DEF Closed
<1>2. CASE arg.value = NULL \/ (t.args = <<>> /\ t.value = NULL)
  BY <1>2 DEF join_and_split
<1>3. CASE ~ (arg.value = NULL \/ (t.args = <<>> /\ t.value = NULL))
  <2>1. arg.value \in Seq(Symbol) /\ t.args \in Seq(Seq(Symbol))
    BY <1>1, <1>3 DEF Token
  <2>2. t.args = <<>> => t.value \in Seq(Symbol)
    BY <1>1, <1>3 DEF Token
  <2>3. PICK a \in Seq(Seq(Symbol)) : join_and_split(t, arg) = [t EXCEPT !.args = a]
    <3>1. CASE t.args = <<>>
      <4>1. <<t.value, arg.value>> \in Seq(Seq(Symbol))
        BY <2>1, <2>2, <3>1
      <4>2. join_and_split(t, arg) = [t EXCEPT !.args = <<t.value, arg.value>>]
        BY <1>3, <3>1 DEF join_and_split
      <4> QED
        BY <4>1, <4>2
    <3>2. CASE t.args # <<>>
      <4>1. Append(t.args, arg.value) \in Seq(Seq(Symbol))
        BY <2>1
      <4>2. join_and_split(t, arg) = [t EXCEPT !.args = Append(t.args, arg.value)]
        BY <1>3, <3>2 DEF join_and_split
      <4> QED
        BY <4>1, <4>2
    <3> QED
      BY <3>1, <3>2
  <2> DEFINE u == [t EXCEPT !.args = a]
  <2>4. u \in Token /\ u.id = t.id /\ u.type = t.type /\ u.coretype = t.coretype
    BY <1>1 DEF Token
  <2> HIDE DEF u
  <2>5. u \in G
    BY <1>1, <2>4 DEF Closed
  <2> QED
    BY <2>3, <2>5 DEF u
<1> QED
  BY <1>2, <1>3

LEMMA TakeStep ==
  ASSUME NEW G, Closed(G), NEW k \in Nat \ {0},
         NEW x \in [list : Seq(G), on : BOOLEAN], Len(x.list) >= k
  PROVE  /\ TakeArgument(x, k) \in [list : Seq(G), on : BOOLEAN]
         /\ Len(TakeArgument(x, k).list) \in k..Len(x.list)
<1>0. PICK l : l = x.list
  OBVIOUS
<1> DEFINE stop == \/ ~ x.on \/ k = Len(l)
                   \/ l[k + 1].rank = RANK_S \/ l[k + 1].coretype = "REDIR"
           t == join_and_split(l[k], l[k + 1])
<1>1. l \in Seq(G) /\ Len(l) \in Nat /\ Len(l) >= k
  BY <1>0
<1>2. CASE stop
  <2>1. TakeArgument(x, k) = x
    BY <1>0, <1>2 DEF TakeArgument
  <2> QED
    BY <1>0, <1>1, <2>1
<1>3. CASE ~ stop
  <2>1. k \in 1..(Len(l) - 1) /\ k \in 1..Len(l) /\ k + 1 \in 1..Len(l)
    BY <1>1, <1>3
  <2>2. l[k] \in G /\ l[k + 1] \in G
    BY <1>1, <2>1
  <2>3. t \in G
    BY <2>2, JoinKeeps
  <2>4. TakeArgument(x, k) = [list |-> Absorbed(l, k, t), on |-> t.args # <<>>]
    BY <1>0, <1>3 DEF TakeArgument
  <2> HIDE DEF t
  <2>5. Absorbed(l, k, t) \in Seq(G) /\ Len(Absorbed(l, k, t)) = Len(l) - 1
    <3>1. l \in Seq(G) /\ k \in 1..(Len(l) - 1) /\ t \in G
      BY <1>1, <2>1, <2>3
    <3>2. \A u \in G : Absorbed(l, k, u) \in Seq(G) /\ Len(Absorbed(l, k, u)) = Len(l) - 1
      BY <3>1, AbsorbedIs
    <3> QED
      BY <3>1, <3>2
  <2>6. /\ TakeArgument(x, k) \in [list : Seq(G), on : BOOLEAN]
        /\ TakeArgument(x, k).list = Absorbed(l, k, t)
    BY <2>4, <2>5
  <2>7. Len(l) - 1 \in k..Len(l)
    BY <1>1, <2>1
  <2> QED
    BY <1>0, <2>5, <2>6, <2>7
<1> QED
  BY <1>2, <1>3

LEMMA TakeKeeps ==
  ASSUME NEW G, Closed(G), NEW l \in Seq(G), NEW k \in 1..Len(l)
  PROVE  /\ cmd_handler_args(l, k) \in Seq(G)
         /\ Len(cmd_handler_args(l, k)) \in k..Len(l)
<1> DEFINE n == Len(l) - k
           U == [list : Seq(G), on : BOOLEAN]
           A == {y \in U : Len(y.list) \in k..Len(l)}
           I == [j \in 0..n |-> A]
           x == [list |-> l, on |-> TRUE]
           g == [p \in U \X (1..n) |-> TakeArgument(p[1], k)]
<1>1. n \in Nat /\ Len(l) \in Nat /\ k \in Nat \ {0} /\ k <= Len(l)
  OBVIOUS
<1>2. x \in A
  BY <1>1
<1>3. ASSUME NEW y \in A
      PROVE  y \in U /\ TakeArgument(y, k) \in A
  <2>1. y \in U /\ Len(y.list) \in k..Len(l)
    OBVIOUS
  <2>2. /\ TakeArgument(y, k) \in U
        /\ Len(TakeArgument(y, k).list) \in k..Len(y.list)
    BY <1>1, <2>1, TakeStep
  <2> HIDE DEF n, U
  <2> QED
    BY <1>1, <2>1, <2>2
<1>4. \A j \in 0..n : I[j] = A
  OBVIOUS
<1>5. \A y \in A : y \in U /\ \A j \in 1..n : g[<<y, j>>] = TakeArgument(y, k)
                                           /\ TakeArgument(y, k) \in A
  BY <1>3
<1> HIDE DEF A, I, g, x, n, U
<1>6. PICK f : f \in Loops(U, n, I, x, g)
  <2>1. x \in I[0] /\ \A j \in 0..n : I[j] \subseteq U
    BY <1>1, <1>2, <1>4, <1>5
  <2>2. \A j \in 1..n : \A y \in I[j - 1] : g[<<y, j>>] \in I[j]
    BY <1>1, <1>4, <1>5
  <2> QED
    BY <1>1, <2>1, <2>2, Iterates
<1>7. f = [j \in 0..n |-> IF j = 0 THEN x ELSE TakeArgument(f[j - 1], k)]
  <2>1. \A j \in 1..n : f[j] = TakeArgument(f[j - 1], k)
    <3> SUFFICES ASSUME NEW j \in 1..n
                 PROVE  f[j] = TakeArgument(f[j - 1], k)
      OBVIOUS
    <3>1. j - 1 \in 0..n
      BY <1>1
    <3> QED
      BY <1>4, <1>5, <1>6, <3>1 DEF Loops
  <2>2. \A j \in 0..n : f[j] = IF j = 0 THEN x ELSE TakeArgument(f[j - 1], k)
    BY <1>1, <1>6, <2>1 DEF Loops
  <2> QED
    BY <1>6, <2>2 DEF Loops
<1>8. PICK h : /\ h = [j \in 0..n |-> IF j = 0 THEN x ELSE TakeArgument(h[j - 1], k)]
               /\ cmd_handler_args(l, k) = h[n].list
  BY <1>7 DEF cmd_handler_args, Turns, n, x
<1> DEFINE T == {j \in 0..n : h[j] \in A}
<1>9. 0 \in T
  BY <1>1, <1>2, <1>8
<1>10. ASSUME NEW j \in 1..n, j - 1 \in T
       PROVE  j \in T
  <2>1. j \in 0..n /\ j # 0 /\ h[j - 1] \in A
    BY <1>1, <1>10
  <2>2. h[j] = TakeArgument(h[j - 1], k)
    BY <1>8, <2>1
  <2> QED
    BY <1>5, <2>1, <2>2
<1>11. h[n] \in A
  <2>1. \A j \in 0..n : j \in T
    <3> HIDE DEF T
    <3> QED
      BY <1>1, <1>9, <1>10, UpTo
  <2> QED
    BY <1>1, <2>1
<1> QED
  BY <1>8, <1>11 DEF A, U

LEMMA AttachStep ==
  ASSUME NEW G, Closed(G), NEW l \in Seq(G), l # <<>>, NEW k \in Nat \ {0}
  PROVE  /\ AttachTo(l, k) \in Seq(G) /\ AttachTo(l, k) # <<>>
         /\ Len(AttachTo(l, k)) <= Len(l)
<1>0. Len(l) \in Nat /\ Len(l) >= 1
  OBVIOUS
<1>1. CASE k > Len(l)
  BY <1>0, <1>1 DEF AttachTo
<1>2. CASE ~ (k > Len(l))
  <2>1. k \in 1..Len(l)
    BY <1>0, <1>2
  <2>2. PICK m : m = redir_handler_file(l, k)
    OBVIOUS
  <2>3. m \in Seq(G) /\ Len(m) \in k..Len(l)
    BY <2>1, <2>2, RedirStep
  <2>4. Len(m) \in Nat /\ k \in 1..Len(m)
    BY <2>3
  <2>5. AttachTo(l, k) = IF m[k].coretype \in {"CMD", "WORD"}
                         THEN cmd_handler_args(m, k) ELSE m
    BY <1>2, <2>2 DEF AttachTo
  <2>6. /\ cmd_handler_args(m, k) \in Seq(G)
        /\ Len(cmd_handler_args(m, k)) \in k..Len(m)
    BY <2>3, <2>4, TakeKeeps
  <2>7. AttachTo(l, k) \in Seq(G) /\ Len(AttachTo(l, k)) \in k..Len(l)
    BY <1>0, <2>3, <2>5, <2>6
  <2>8. Len(AttachTo(l, k)) >= 1 /\ Len(AttachTo(l, k)) <= Len(l)
    BY <1>0, <2>1, <2>7
  <2> QED
    BY <2>7, <2>8
<1> QED
  BY <1>1, <1>2

LEMMA AttachKeeps ==
  ASSUME NEW G, Closed(G), NEW l \in Seq(G)
  PROVE  /\ handler_args_file(l) \in Seq(G)
         /\ Len(handler_args_file(l)) <= Len(l)
         /\ l # <<>> => handler_args_file(l) # <<>>
<1> DEFINE n == Len(l)
           U == Seq(G)
           A == {y \in U : /\ Len(y) <= n
                           /\ l # <<>> => y # <<>>}
           I == [j \in 0..n |-> A]
           g == [p \in U \X (1..n) |-> AttachTo(p[1], p[2])]
<1>1. n \in Nat /\ l \in A
  OBVIOUS
<1>2. ASSUME NEW y \in A, NEW j \in 1..n
      PROVE  y \in U /\ AttachTo(y, j) \in A
  <2>1. l # <<>> /\ y # <<>> /\ y \in Seq(G) /\ j \in Nat \ {0} /\ Len(y) <= n
    BY <1>1
  <2>2. /\ AttachTo(y, j) \in Seq(G) /\ AttachTo(y, j) # <<>>
        /\ Len(AttachTo(y, j)) <= Len(y)
    BY <2>1, AttachStep
  <2>3. Len(AttachTo(y, j)) <= n
    BY <1>1, <2>1, <2>2
  <2> QED
    BY <2>1, <2>2, <2>3
<1>4. \A j \in 0..n : I[j] = A
  OBVIOUS
<1>5. /\ A \subseteq U
      /\ \A y \in A : \A j \in 1..n : g[<<y, j>>] = AttachTo(y, j) /\ AttachTo(y, j) \in A
  BY <1>2
<1> HIDE DEF A, I, g, n, U
<1>6. PICK f : f \in Loops(U, n, I, l, g)
  <2>1. l \in I[0] /\ \A j \in 0..n : I[j] \subseteq U
    BY <1>1, <1>4, <1>5
  <2>2. \A j \in 1..n : \A y \in I[j - 1] : g[<<y, j>>] \in I[j]
    BY <1>1, <1>4, <1>5
  <2> QED
    BY <1>1, <2>1, <2>2, Iterates
<1>7. f = [j \in 0..n |-> IF j = 0 THEN l ELSE AttachTo(f[j - 1], j)]
  <2>1. \A j \in 1..n : f[j] = AttachTo(f[j - 1], j)
    <3> SUFFICES ASSUME NEW j \in 1..n
                 PROVE  f[j] = AttachTo(f[j - 1], j)
      OBVIOUS
    <3>1. j - 1 \in 0..n
      BY <1>1
    <3> QED
      BY <1>4, <1>5, <1>6, <3>1 DEF Loops
  <2>2. \A j \in 0..n : f[j] = IF j = 0 THEN l ELSE AttachTo(f[j - 1], j)
    BY <1>1, <1>6, <2>1 DEF Loops
  <2> QED
    BY <1>6, <2>2 DEF Loops
<1>8. PICK h : /\ h = [j \in 0..n |-> IF j = 0 THEN l ELSE AttachTo(h[j - 1], j)]
               /\ handler_args_file(l) = h[n]
  BY <1>7 DEF handler_args_file, Turns, n
<1> DEFINE T == {j \in 0..n : h[j] \in A}
<1>9. 0 \in T
  BY <1>1, <1>8
<1>10. ASSUME NEW j \in 1..n, j - 1 \in T
       PROVE  j \in T
  <2>1. j \in 0..n /\ j # 0 /\ h[j - 1] \in A
    BY <1>1, <1>10
  <2>2. h[j] = AttachTo(h[j - 1], j)
    BY <1>8, <2>1
  <2> QED
    BY <1>5, <2>1, <2>2
<1>11. h[n] \in A
  <2>1. \A j \in 0..n : j \in T
    <3> HIDE DEF T
    <3> QED
      BY <1>1, <1>9, <1>10, UpTo
  <2> QED
    BY <1>1, <2>1
<1> QED
  BY <1>8, <1>11 DEF A, U, n

-----------------------------------------------------------------------------
(* Variables. *)

EnvOK(e) == DOMAIN e \subseteq Seq(Name) /\ \A n \in DOMAIN e : e[n] \in Seq(Symbol)

NoDollar(v) == \A p \in 1..Len(v) : v[p] # "$"

\* A symbol that is no "$" is copied.
Copied(v, x) == [at |-> x.at + 1, text |-> Append(x.text, v[x.at])]

LEMMA PieceStep ==
  ASSUME NEW v \in Seq(Symbol), NEW S, NEW lone \in Seq(Symbol), NEW e, EnvOK(e),
         NEW x \in [at : Nat \ {0}, text : Seq(Symbol)]
  PROVE  /\ NextPiece(v, S, lone, e, x) \in [at : Nat \ {0}, text : Seq(Symbol)]
         /\ (NoDollar(v) /\ x.at <= Len(v)) =>
              NextPiece(v, S, lone, e, x) = Copied(v, x)
<1>0. Len(v) \in Nat /\ x.at \in Nat \ {0} /\ x.text \in Seq(Symbol)
  OBVIOUS
<1>1. CASE x.at > Len(v)
  BY <1>0, <1>1 DEF NextPiece
<1>2. CASE ~ (x.at > Len(v)) /\ v[x.at] # "$"
  <2>1. x.at \in 1..Len(v)
    BY <1>0, <1>2
  <2>2. NextPiece(v, S, lone, e, x) =
          [at |-> x.at + 1, text |-> Append(x.text, v[x.at])]
    BY <1>2 DEF NextPiece
  <2>3. v[x.at] \in Symbol
    BY <2>1
  <2>4. Append(x.text, v[x.at]) \in Seq(Symbol) /\ x.at + 1 \in Nat \ {0}
    BY <1>0, <2>3
  <2> QED
    BY <2>2, <2>4 DEF Copied
<1>3. CASE ~ (x.at > Len(v)) /\ v[x.at] = "$"
  <2> DEFINE n == RunLength(Rest(v, x.at + 1), S)
             name == SubSeq(v, x.at + 1, x.at + n)
             piece == IF n = 0 THEN lone ELSE get_envar(e, name)
  <2>1. x.at \in 1..Len(v) /\ x.at + 1 \in 1..(Len(v) + 1)
    BY <1>0, <1>3
  <2>2. Rest(v, x.at + 1) \in Seq(Symbol)
    BY <2>1, RestIs
  <2>3. n \in Nat
    BY <2>2, RunLengthIs
  <2>4. piece \in Seq(Symbol)
    BY DEF EnvOK, get_envar
  <2>5. NextPiece(v, S, lone, e, x) = [at |-> x.at + n + 1, text |-> x.text \o piece]
    BY <1>3 DEF NextPiece
  <2> HIDE DEF n, piece
  <2>6. x.text \o piece \in Seq(Symbol)
    BY <1>0, <2>4, ConcatProperties
  <2>7. x.at + n + 1 \in Nat \ {0}
    BY <1>0, <2>3
  <2>8. ~ NoDollar(v)
    BY <1>3, <2>1 DEF NoDollar
  <2> QED
    BY <2>5, <2>6, <2>7, <2>8
<1> QED
  BY <1>0, <1>1, <1>2, <1>3

\* Expansion gives a text, and the same one when there is no "$" in it.
LEMMA ExpandIs ==
  ASSUME NEW v \in Seq(Symbol), NEW S, NEW lone \in Seq(Symbol), NEW e, EnvOK(e)
  PROVE  /\ Expand(v, S, lone, e) \in Seq(Symbol)
         /\ NoDollar(v) => Expand(v, S, lone, e) = v
<1> DEFINE n == Len(v)
           U == [at : Nat \ {0}, text : Seq(Symbol)]
           A(j) == {y \in U : NoDollar(v) => y.at = j + 1 /\ y.text = SubSeq(v, 1, j)}
           I == [j \in 0..n |-> A(j)]
           x == [at |-> 1, text |-> <<>>]
           Turn(y) == NextPiece(v, S, lone, e, y)
           g == [p \in U \X (1..n) |-> Turn(p[1])]
<1>1. n \in Nat
  OBVIOUS
<1>2. x \in A(0)
  <2>1. SubSeq(v, 1, 0) = <<>>
    BY SubSeqEmpty
  <2>2. x \in U /\ x.at = 0 + 1 /\ x.text = <<>>
    OBVIOUS
  <2> HIDE DEF x
  <2> QED
    BY <2>1, <2>2
<1>3. ASSUME NEW j \in 1..n, NEW y \in A(j - 1)
      PROVE  y \in U /\ Turn(y) \in A(j)
  <2>1. y \in U
    OBVIOUS
  <2>2. /\ Turn(y) \in U
        /\ (NoDollar(v) /\ y.at <= Len(v)) =>
             Turn(y) = Copied(v, y)
    <3>1. \A z \in U :
            /\ NextPiece(v, S, lone, e, z) \in U
            /\ (NoDollar(v) /\ z.at <= Len(v)) =>
                 NextPiece(v, S, lone, e, z) = Copied(v, z)
      BY PieceStep
    <3> HIDE DEF U
    <3> QED
      BY <2>1, <3>1
  <2>3. ASSUME NoDollar(v)
        PROVE  Turn(y).at = j + 1 /\ Turn(y).text = SubSeq(v, 1, j)
    <3>1. y.at = j /\ y.text = SubSeq(v, 1, j - 1)
      BY <1>1, <2>3
    <3>2. Turn(y).at = j + 1 /\ Turn(y).text = Append(SubSeq(v, 1, j - 1), v[j])
      <4> HIDE DEF Turn
      <4> QED
        BY <1>1, <2>2, <2>3, <3>1 DEF Copied
    <3>3. SubSeq(v, 1, j) = SubSeq(v, 1, j - 1) \o <<v[j]>>
      BY <1>1, SubSeqRecursiveSecond
    <3>4. SubSeq(v, 1, j - 1) \in Seq(Symbol)
      BY <2>1, <3>1
    <3>5. v[j] \in Symbol
      BY <1>1
    <3>6. Append(SubSeq(v, 1, j - 1), v[j]) = SubSeq(v, 1, j - 1) \o <<v[j]>>
      BY <3>4, <3>5, AppendIsConcat
    <3> HIDE DEF Turn
    <3> QED
      BY <3>2, <3>3, <3>6
  <2> HIDE DEF Turn, U
  <2> QED
    BY <2>1, <2>2, <2>3
<1>4. \A j \in 0..n : I[j] = A(j) /\ A(j) \subseteq U
  OBVIOUS
<1>5. \A j \in 1..n : \A y \in A(j - 1) :
        y \in U /\ g[<<y, j>>] = Turn(y) /\ Turn(y) \in A(j)
  <2>1. \A y \in U : \A j \in 1..n : g[<<y, j>>] = Turn(y)
    OBVIOUS
  <2> HIDE DEF Turn, U, g, A
  <2> QED
    BY <1>3, <2>1
<1>a. \A j \in 1..n : j \in 0..n /\ j - 1 \in 0..n
  BY <1>1
<1>b. 0 \in 0..n /\ n \in 0..n
  BY <1>1
<1> HIDE DEF A, I, g, x, n, U, Turn
<1>6. PICK f : f \in Loops(U, n, I, x, g)
  <2>1. x \in I[0] /\ \A j \in 0..n : I[j] \subseteq U
    BY <1>2, <1>4, <1>b
  <2>2. \A j \in 1..n : \A y \in I[j - 1] : g[<<y, j>>] \in I[j]
    BY <1>4, <1>5, <1>a
  <2> QED
    BY <1>1, <2>1, <2>2, Iterates
<1>7. f = [j \in 0..n |-> IF j = 0 THEN x ELSE Turn(f[j - 1])]
  <2>1. \A j \in 1..n : f[j] = Turn(f[j - 1])
    BY <1>4, <1>5, <1>6, <1>a DEF Loops
  <2>2. \A j \in 0..n : f[j] = IF j = 0 THEN x ELSE Turn(f[j - 1])
    BY <1>1, <1>6, <2>1 DEF Loops
  <2> QED
    BY <1>6, <2>2 DEF Loops
<1>8. PICK h : /\ h = [j \in 0..n |-> IF j = 0 THEN x ELSE Turn(h[j - 1])]
               /\ Expand(v, S, lone, e) = h[n].text
  BY <1>7 DEF Expand, Turns, n, x, Turn
<1> DEFINE T == {j \in 0..n : h[j] \in A(j)}
<1>9. 0 \in T
  BY <1>2, <1>8, <1>b
<1>10. ASSUME NEW j \in 1..n, j - 1 \in T
       PROVE  j \in T
  <2>1. j \in 0..n /\ j # 0 /\ h[j - 1] \in A(j - 1)
    BY <1>1, <1>10
  <2>2. h[j] = Turn(h[j - 1])
    BY <1>8, <2>1
  <2> QED
    BY <1>5, <2>1, <2>2
<1>11. h[n] \in A(n)
  <2>1. \A j \in 0..n : j \in T
    <3> HIDE DEF T
    <3> QED
      BY <1>1, <1>9, <1>10, UpTo
  <2> QED
    BY <1>b, <2>1
<1>12. /\ h[n].text \in Seq(Symbol)
       /\ NoDollar(v) => h[n].text = SubSeq(v, 1, n)
  BY <1>11 DEF A, U
<1> QED
  BY <1>8, <1>12, SubSeqFull DEF n

LEMMA DollarIsText == <<"$">> \in Seq(Symbol)
<1>1. "$" \in Symbol
  BY DEF Symbol
<1> QED
  BY <1>1

LEMMA QuotedText ==
  ASSUME NEW v \in Seq(Symbol), NEW e, EnvOK(e)
  PROVE  /\ quote_handler_cpy(v, e) \in Seq(Symbol)
         /\ NoDollar(v) => quote_handler_cpy(v, e) = v
<1>1. CASE LoneDollar(v)
  <2>1. ~ NoDollar(v)
    <3>1. PICK k \in DOMAIN v : v[k] = "$"
      BY <1>1 DEF LoneDollar
    <3>2. k \in 1..Len(v)
      OBVIOUS
    <3> QED
      BY <3>1, <3>2 DEF NoDollar
  <2>2. <<"$">> \in Seq(Symbol)
    BY DollarIsText
  <2> QED
    BY <1>1, <2>1, <2>2 DEF quote_handler_cpy
<1>2. CASE ~ LoneDollar(v)
  <2>1. <<>> \in Seq(Symbol)
    OBVIOUS
  <2>2. quote_handler_cpy(v, e) = Expand(v, Symbol \ {Space, "'", "$"}, <<>>, e)
    BY <1>2 DEF quote_handler_cpy
  <2> QED
    BY <2>1, <2>2, ExpandIs
<1> QED
  BY <1>1, <1>2

LEMMA ExpandedText ==
  ASSUME NEW v \in Seq(Symbol), NEW e, EnvOK(e)
  PROVE  expand_variables(v, e) \in Seq(Symbol)
<1>1. <<"$">> \in Seq(Symbol)
  BY DollarIsText
<1> QED
  BY <1>1, ExpandIs DEF expand_variables
-----------------------------------------------------------------------------
(* What the tokens of a line say of the place they come from. *)

OpText == RedirText \cup {<<"|">>}

\* The line ln has an operator at p, or a double quote and a "$" behind it.
Bare(ln, p) ==
  \/ ln[p] \in Operator
  \/ ln[p] = "\"" /\ \E q \in (p + 1)..Len(ln) : ln[q] = "$"

\* Tokens as split_input makes them: pieces of the line.
Cut(ln) ==
  {t \in Token :
     /\ t.type = "PIPE" /\ t.coretype # "REDIR" /\ t.args = <<>>
     /\ t.value # NULL =>
          /\ t.id \in 1..Len(ln) /\ Len(t.value) >= 1
          /\ t.id + Len(t.value) <= Len(ln) + 1
          /\ \A p \in 1..Len(t.value) : t.value[p] = ln[t.id + p - 1]}

\* ... behind quote_handler: what looks like an operator is literal, or bare.
Unquoted(ln) ==
  {t \in Token :
     /\ t.type = "PIPE" /\ t.coretype # "REDIR"
     /\ (t.value \in OpText /\ ~ t.literal) => Bare(ln, t.id)}

\* ... behind typealize: what is an operator is bare.
Marked(ln) ==
  {t \in Token :
     /\ t.coretype = "REDIR" => t.type \notin {"CMD", "WORD"}
     /\ t.coretype \in {"PIPE", "REDIR"} => Bare(ln, t.id)}

LEMMA MarkedClosed ==
  ASSUME NEW ln
  PROVE  Closed(Marked(ln))
BY DEF Marked, Closed

LEMMA OpTexts ==
  ASSUME NEW v \in OpText
  PROVE  v \in Seq(Symbol) /\ v # NULL /\ Len(v) \in 1..2 /\ v[1] \in Operator
<1>1. \A a \in Operator : a \in Symbol
  BY DEF Symbol
<1>2. PICK a \in Operator, b \in Operator : v = <<a>> \/ v = <<a, b>>
  BY DEF OpText, RedirText, Operator
<1>3. v \in Seq(Symbol) /\ Len(v) \in 1..2 /\ v[1] = a
  <2>1. a \in Symbol /\ b \in Symbol
    BY <1>1
  <2>2. <<a>> \in Seq(Symbol) /\ Len(<<a>>) = 1 /\ <<a>>[1] = a
    BY <2>1
  <2>3. <<a, b>> \in Seq(Symbol) /\ Len(<<a, b>>) = 2 /\ <<a, b>>[1] = a
    BY <2>1
  <2>4. CASE v = <<a>>
    BY <2>2, <2>4
  <2>5. CASE v = <<a, b>>
    BY <2>3, <2>5
  <2> QED
    BY <1>2, <2>4, <2>5
<1> QED
  BY <1>3, NoSuchString

LEMMA QuoteStep ==
  ASSUME NEW ln \in Seq(Symbol), NEW t \in Cut(ln), NEW e, EnvOK(e)
  PROVE  /\ quote_handler(t, e) \in Unquoted(ln)
         /\ quote_handler(t, e).value = NULL <=> t.value = NULL
         /\ quote_handler(t, e).merge_next = t.merge_next
<1>0. t \in Token /\ t.type = "PIPE" /\ t.coretype # "REDIR"
  BY DEF Cut
<1>1. CASE t.value = NULL \/ t.value[1] \notin Quote
  <2>1. quote_handler(t, e) = t
    BY <1>1 DEF quote_handler
  <2>2. t.value \in OpText => Bare(ln, t.id)
    <3> SUFFICES ASSUME t.value \in OpText
                 PROVE  Bare(ln, t.id)
      OBVIOUS
    <3>1. t.value # NULL /\ 1 \in 1..Len(t.value) /\ t.value[1] \in Operator
      BY OpTexts
    <3>2. t.id \in 1..Len(ln) /\ t.value[1] = ln[t.id + 1 - 1]
      BY <3>1 DEF Cut
    <3>3. t.id + 1 - 1 = t.id
      BY <3>2
    <3> QED
      BY <3>1, <3>2, <3>3 DEF Bare
  <2> QED
    BY <1>0, <2>1, <2>2 DEF Unquoted
<1>2. CASE ~ (t.value = NULL \/ t.value[1] \notin Quote)
  <2>1. /\ t.value \in Seq(Symbol) /\ t.value[1] \in Quote
        /\ t.id \in 1..Len(ln) /\ Len(t.value) >= 1 /\ Len(t.value) \in Nat
        /\ t.id + Len(t.value) <= Len(ln) + 1 /\ Len(ln) \in Nat
        /\ \A p \in 1..Len(t.value) : t.value[p] = ln[t.id + p - 1]
    BY <1>0, <1>2 DEF Cut, Token
  <2>2. CASE Len(t.value) = 1
    <3>1. quote_handler(t, e) = [t EXCEPT !.err = TRUE]
      BY <1>2, <2>2 DEF quote_handler
    <3>2. /\ quote_handler(t, e) \in Token /\ quote_handler(t, e).value = t.value
          /\ quote_handler(t, e).merge_next = t.merge_next
          /\ quote_handler(t, e).type = "PIPE" /\ quote_handler(t, e).coretype # "REDIR"
      BY <1>0, <3>1 DEF Token
    <3>3. t.value \notin OpText
      <4>1. Quote \cap Operator = {}
        BY DEF Quote, Operator
      <4> QED
        BY <2>1, <4>1, OpTexts
    <3> QED
      BY <3>2, <3>3 DEF Unquoted
  <2>3. CASE Len(t.value) # 1
    <3> DEFINE inner == SubSeq(t.value, 2, Len(t.value) - 1)
               literal == t.value[1] = "'" \/ inner \in OpText
               value == IF literal THEN inner ELSE quote_handler_cpy(inner, e)
    <3>1. /\ inner \in Seq(Symbol)
          /\ \A p \in 1..Len(inner) : p + 1 \in 1..Len(t.value) /\ inner[p] = t.value[p + 1]
      <4>0. \A n \in Nat : (n >= 1 /\ n # 1) => /\ 2 \in 1..(n + 1)
                                                /\ n - 1 \in (2 - 1)..n
        OBVIOUS
      <4>1. 2 \in 1..(Len(t.value) + 1) /\ Len(t.value) - 1 \in (2 - 1)..Len(t.value)
        BY <2>1, <2>3, <4>0
      <4>2. /\ inner \in Seq(Symbol) /\ Len(inner) = Len(t.value) - 1 - 2 + 1
            /\ \A p \in 1..(Len(t.value) - 1 - 2 + 1) : inner[p] = t.value[2 + p - 1]
        BY <2>1, <4>1, PieceIs
      <4> HIDE DEF inner
      <4>3. \A p \in 1..Len(inner) : p + 1 \in 1..Len(t.value) /\ 2 + p - 1 = p + 1
        BY <2>1, <2>3, <4>2
      <4> QED
        BY <4>2, <4>3
    <3>2. quote_handler(t, e) = [t EXCEPT !.literal = literal, !.value = value]
      BY <1>2, <2>3 DEF quote_handler, OpText
    <3> HIDE DEF inner
    <3>3. /\ value \in Seq(Symbol)
          /\ (value \in OpText /\ ~ literal) => ~ NoDollar(inner)
      BY <3>1, QuotedText
    <3>4. literal \in BOOLEAN
      OBVIOUS
    <3>5. ~ literal => t.value[1] = "\""
      BY <2>1 DEF Quote
    <3> HIDE DEF literal, value
    <3>6. /\ quote_handler(t, e) \in Token /\ quote_handler(t, e).value = value
          /\ quote_handler(t, e).literal = literal /\ quote_handler(t, e).id = t.id
          /\ quote_handler(t, e).merge_next = t.merge_next
          /\ quote_handler(t, e).type = "PIPE" /\ quote_handler(t, e).coretype # "REDIR"
      BY <1>0, <3>2, <3>3, <3>4 DEF Token
    <3>7. ASSUME ~ NoDollar(inner), ~ literal
          PROVE  Bare(ln, t.id)
      <4>1. PICK p \in 1..Len(inner) : inner[p] = "$"
        BY <3>7 DEF NoDollar
      <4>2. p + 1 \in 1..Len(t.value) /\ t.value[p + 1] = "$" /\ p \in Nat
        BY <3>1, <4>1
      <4>3. t.value[p + 1] = ln[t.id + (p + 1) - 1]
        BY <2>1, <4>2
      <4>4. t.id + (p + 1) - 1 \in (t.id + 1)..Len(ln)
        BY <2>1, <4>1, <4>2, SMTT(30)
      <4>5. ln[t.id] = "\""
        <5>1. t.value[1] = ln[t.id + 1 - 1] /\ t.id + 1 - 1 = t.id
          BY <2>1
        <5> QED
          BY <3>5, <3>7, <5>1
      <4> QED
        BY <4>2, <4>3, <4>4, <4>5 DEF Bare
    <3> QED
      BY <1>2, <3>3, <3>6, <3>7, NoSuchString DEF Unquoted
  <2> QED
    BY <2>2, <2>3
<1> QED
  BY <1>1, <1>2

LEMMA TypeStep ==
  ASSUME NEW ln, NEW t \in Unquoted(ln), NEW found
  PROVE  /\ typealize(t, found) \in Marked(ln)
         /\ typealize(t, found).value = t.value
         /\ typealize(t, found).merge_next = t.merge_next
<1>0. t \in Token /\ (t.value \in OpText /\ ~ t.literal => Bare(ln, t.id))
  BY DEF Unquoted
<1>1. ASSUME NEW ty \in {"PIPE", "REDIR_IN", "REDIR_OUT", "APPEND", "HEREDOC", "CMD",
                         "WORD", "ASSIGNMENT"},
             NEW co \in {"PIPE", "REDIR", "CMD", "WORD"},
             NEW ra \in {0, RANK_C, RANK_B, RANK_A, RANK_S},
             co = "REDIR" => ty \notin {"CMD", "WORD"},
             co \in {"PIPE", "REDIR"} => Bare(ln, t.id),
             typealize(t, found) = Typed(t, ty, co, ra)
      PROVE  /\ typealize(t, found) \in Marked(ln)
             /\ typealize(t, found).value = t.value
             /\ typealize(t, found).merge_next = t.merge_next
  <2> DEFINE u == [t EXCEPT !.type = ty, !.coretype = co, !.rank = ra]
  <2>1. typealize(t, found) = u
    BY <1>1 DEF Typed
  <2>2. /\ u \in Token /\ u.type = ty /\ u.coretype = co /\ u.id = t.id
        /\ u.value = t.value /\ u.merge_next = t.merge_next
    <3>1. /\ u.type = ty /\ u.coretype = co /\ u.id = t.id
          /\ u.value = t.value /\ u.merge_next = t.merge_next
      BY <1>0 DEF Token
    <3>2. u \in Token
      <4>1. [t EXCEPT !.type = ty] \in Token
        BY <1>0 DEF Token
      <4>2. [[t EXCEPT !.type = ty] EXCEPT !.coretype = co] \in Token
        BY <4>1 DEF Token
      <4>3. [[[t EXCEPT !.type = ty] EXCEPT !.coretype = co] EXCEPT !.rank = ra] \in Token
        BY <4>2 DEF Token
      <4>4. u = [[[t EXCEPT !.type = ty] EXCEPT !.coretype = co] EXCEPT !.rank = ra]
        BY <1>0 DEF Token
      <4> QED
        BY <4>3, <4>4
    <3> QED
      BY <3>1, <3>2
  <2> HIDE DEF u
  <2>3. u \in Marked(ln)
    BY <1>1, <2>2 DEF Marked
  <2> QED
    BY <2>1, <2>2, <2>3
<1>2. CASE t.value = <<"|">> /\ ~ t.literal
  <2>1. Bare(ln, t.id)
    BY <1>0, <1>2 DEF OpText
  <2>2. typealize(t, found) = Typed(t, "PIPE", "PIPE", RANK_S)
    BY <1>2 DEF typealize
  <2> QED
    BY <1>1, <2>1, <2>2
<1>3. CASE ~ (t.value = <<"|">> /\ ~ t.literal) /\ t.value \in RedirText /\ ~ t.literal
  <2>1. Bare(ln, t.id)
    BY <1>0, <1>3 DEF OpText
  <2>2. typealize(t, found) = Typed(t, RedirType(t.value), "REDIR", RANK_A)
    BY <1>3 DEF typealize
  <2>3. RedirType(t.value) \in {"REDIR_IN", "REDIR_OUT", "APPEND", "HEREDOC"}
    BY <1>3 DEF RedirType, RedirText
  <2> QED
    BY <1>1, <2>1, <2>2, <2>3
<1>4. CASE /\ ~ (t.value = <<"|">> /\ ~ t.literal)
           /\ ~ (t.value \in RedirText /\ ~ t.literal)
  <2>1. \/ typealize(t, found) = Typed(t, "CMD", "CMD", RANK_B)
        \/ typealize(t, found) = Typed(t, "WORD", "WORD", RANK_C)
    BY <1>4 DEF typealize
  <2> QED
    BY <1>1, <2>1
<1> QED
  BY <1>2, <1>3, <1>4

LEMMA LookStep ==
  ASSUME NEW ln, NEW t \in Marked(ln), NEW found
  PROVE  /\ parser_cmd_no_found(t, found) \in Marked(ln)
         /\ LET u == parser_cmd_no_found(t, found)
            IN /\ u.type = "CMD" => u.value \in Builtin \cup found
               /\ u.type = "WORD" => u.value \notin Builtin \cup found
<1>0. /\ t \in Token
      /\ t.coretype = "REDIR" => t.type \notin {"CMD", "WORD"}
      /\ t.coretype \in {"PIPE", "REDIR"} => Bare(ln, t.id)
  BY DEF Marked
<1>1. CASE t.type \in {"PIPE", "ASSIGNMENT"} \/ t.coretype = "REDIR"
  BY <1>0, <1>1 DEF parser_cmd_no_found
<1>2. CASE /\ ~ (t.type \in {"PIPE", "ASSIGNMENT"} \/ t.coretype = "REDIR")
           /\ t.value \notin found \cup Builtin
  <2> DEFINE u == [t EXCEPT !.type = "WORD"]
  <2>1. parser_cmd_no_found(t, found) = u
    BY <1>2 DEF parser_cmd_no_found
  <2>2. /\ u \in Token /\ u.type = "WORD" /\ u.coretype = t.coretype
        /\ u.id = t.id /\ u.value = t.value
    BY <1>0 DEF Token
  <2> HIDE DEF u
  <2> QED
    BY <1>0, <1>2, <2>1, <2>2 DEF Marked
<1>3. CASE /\ ~ (t.type \in {"PIPE", "ASSIGNMENT"} \/ t.coretype = "REDIR")
           /\ t.value \in found \cup Builtin /\ t.type = "WORD"
  <2> DEFINE u == [t EXCEPT !.type = "CMD", !.coretype = "CMD", !.rank = RANK_B]
  <2>1. parser_cmd_no_found(t, found) = u
    BY <1>3 DEF parser_cmd_no_found, Typed
  <2>2. u \in Token /\ u.type = "CMD" /\ u.coretype = "CMD" /\ u.value = t.value
    BY <1>0 DEF Token
  <2> HIDE DEF u
  <2> QED
    BY <1>3, <2>1, <2>2 DEF Marked
<1>4. CASE /\ ~ (t.type \in {"PIPE", "ASSIGNMENT"} \/ t.coretype = "REDIR")
           /\ t.value \in found \cup Builtin /\ t.type # "WORD"
  <2>1. parser_cmd_no_found(t, found) = t
    BY <1>4 DEF parser_cmd_no_found
  <2> QED
    BY <1>4, <2>1
<1> QED
  BY <1>1, <1>2, <1>3, <1>4

\* A pass that changes one token after the other.
LEMMA TokenByToken ==
  ASSUME NEW X, NEW Y, NEW l \in Seq(X), NEW f,
         f \in [DOMAIN l -> Y]
  PROVE  f \in Seq(Y) /\ Len(f) = Len(l) /\ \A k \in 1..Len(l) : f[k] \in Y
<1>1. Len(l) \in Nat /\ DOMAIN l = 1..Len(l)
  OBVIOUS
<1> QED
  BY <1>1

LEMMA QuoteKeeps ==
  ASSUME NEW ln \in Seq(Symbol), NEW l \in Seq(Cut(ln)), Chained(l), NEW e, EnvOK(e)
  PROVE  /\ quote_handler_call_loop(l, e) \in Seq(Unquoted(ln))
         /\ Chained(quote_handler_call_loop(l, e))
         /\ Len(quote_handler_call_loop(l, e)) = Len(l)
<1> DEFINE f == [k \in DOMAIN l |-> quote_handler(l[k], e)]
<1>1. DOMAIN l = 1..Len(l) /\ Len(l) \in Nat /\ \A k \in 1..Len(l) : l[k] \in Cut(ln)
  OBVIOUS
<1>2. \A k \in 1..Len(l) : /\ f[k] \in Unquoted(ln)
                           /\ f[k].value = NULL <=> l[k].value = NULL
                           /\ f[k].merge_next = l[k].merge_next
  BY <1>1, QuoteStep
<1>3. f \in [DOMAIN l -> Unquoted(ln)]
  BY <1>1, <1>2
<1> HIDE DEF f
<1>4. f \in Seq(Unquoted(ln)) /\ Len(f) = Len(l)
  BY <1>3, TokenByToken
<1>5. Chained(f)
  <2> SUFFICES ASSUME NEW k \in 1..Len(l), f[k].merge_next
               PROVE  k < Len(l) /\ f[k].value # NULL /\ f[k + 1].value # NULL
    BY <1>4 DEF Chained
  <2>1. k < Len(l) /\ l[k].value # NULL /\ l[k + 1].value # NULL
    BY <1>2 DEF Chained
  <2>2. k + 1 \in 1..Len(l)
    BY <1>1, <2>1
  <2> QED
    BY <1>2, <2>1, <2>2
<1> QED
  BY <1>4, <1>5 DEF quote_handler_call_loop, f

LEMMA MarkKeeps ==
  ASSUME NEW ln, NEW l \in Seq(Marked(ln))
  PROVE  /\ MarkedAssignments(l) \in Seq(Marked(ln))
         /\ Len(MarkedAssignments(l)) = Len(l)
<1> DEFINE f == MarkedAssignments(l)
<1>1. DOMAIN l = 1..Len(l) /\ Len(l) \in Nat /\ \A k \in 1..Len(l) : l[k] \in Marked(ln)
  OBVIOUS
<1>2. \A t \in Marked(ln) : [t EXCEPT !.type = "ASSIGNMENT"] \in Marked(ln)
  <2> SUFFICES ASSUME NEW t \in Marked(ln)
               PROVE  [t EXCEPT !.type = "ASSIGNMENT"] \in Marked(ln)
    OBVIOUS
  <2> DEFINE u == [t EXCEPT !.type = "ASSIGNMENT"]
  <2>1. t \in Token
    BY DEF Marked
  <2>2. u \in Token /\ u.type = "ASSIGNMENT" /\ u.coretype = t.coretype /\ u.id = t.id
    BY <2>1 DEF Token
  <2> HIDE DEF u
  <2>3. u \in Marked(ln)
    BY <2>2 DEF Marked
  <2> QED
    BY <2>3 DEF u
<1>3. f \in [DOMAIN l -> Marked(ln)]
  BY <1>1, <1>2 DEF MarkedAssignments
<1> HIDE DEF f
<1>4. f \in Seq(Marked(ln)) /\ Len(f) = Len(l)
  BY <1>3, TokenByToken
<1> QED
  BY <1>4 DEF f

LEMMA ExpandKeeps ==
  ASSUME NEW ln, NEW l \in Seq(Marked(ln)), NEW e, EnvOK(e)
  PROVE  /\ expand_token_list_no_assignments(l, e) \in Seq(Marked(ln))
         /\ Len(expand_token_list_no_assignments(l, e)) = Len(l)
<1> DEFINE f == expand_token_list_no_assignments(l, e)
<1>1. DOMAIN l = 1..Len(l) /\ Len(l) \in Nat /\ \A k \in 1..Len(l) : l[k] \in Marked(ln)
  OBVIOUS
<1>2. ASSUME NEW t \in Marked(ln), t.value # NULL
      PROVE  [t EXCEPT !.value = expand_variables(@, e)] \in Marked(ln)
  <2> DEFINE u == [t EXCEPT !.value = expand_variables(@, e)]
  <2>1. t \in Token
    BY DEF Marked
  <2>2. expand_variables(t.value, e) \in Seq(Symbol)
    <3>1. t.value \in Seq(Symbol)
      BY <1>2, <2>1 DEF Token
    <3> QED
      BY <3>1, ExpandedText
  <2>3. u \in Token /\ u.type = t.type /\ u.coretype = t.coretype /\ u.id = t.id
    BY <2>1, <2>2 DEF Token
  <2> HIDE DEF u
  <2>4. u \in Marked(ln)
    BY <2>3 DEF Marked
  <2> QED
    BY <2>4 DEF u
<1>3. f \in [DOMAIN l -> Marked(ln)]
  BY <1>1, <1>2 DEF expand_token_list_no_assignments
<1> HIDE DEF f
<1>4. f \in Seq(Marked(ln)) /\ Len(f) = Len(l)
  BY <1>3, TokenByToken
<1> QED
  BY <1>4 DEF f

-----------------------------------------------------------------------------
(* Assignments. *)

LEMMA AssignStep ==
  ASSUME NEW v, v \in Seq(Symbol) \/ v = NULL, is_valid_assignment(v), NEW e, EnvOK(e)
  PROVE  /\ Assigned(v, e) \in [DOMAIN Assigned(v, e) -> Seq(Symbol)]
         /\ EnvOK(Assigned(v, e)) /\ DOMAIN e \subseteq DOMAIN Assigned(v, e)
<1>1. v \in Seq(Symbol)
  <2> SUFFICES ASSUME v = NULL
               PROVE  FALSE
    OBVIOUS
  <2>1. v \in Seq({"NULL"}) /\ Len(v) = 1 /\ v[1] = "NULL"
    BY DEF NULL
  <2>2. RunLength(v, Name) \in 0..1
        /\ \A k \in 1..RunLength(v, Name) : v[k] \in Name
    BY <2>1, RunLengthIs
  <2>3. RunLength(v, Name) > 0 /\ RunLength(v, Name) < Len(v)
    BY DEF is_valid_assignment
  <2> QED
    BY <2>1, <2>2, <2>3
<1> DEFINE n == RunLength(v, Name)
           name == SubSeq(v, 1, n)
           value == Rest(v, n + 2)
<1>2. /\ Len(v) \in Nat /\ n \in 0..Len(v) /\ n > 0 /\ n < Len(v)
      /\ \A k \in 1..n : v[k] \in Name
  BY <1>1, RunLengthIs DEF is_valid_assignment
<1> HIDE DEF n
<1>3. name \in Seq(Name)
  <2>1. 1 \in Int /\ n \in Int
    BY <1>2
  <2> QED
    BY <1>2, <2>1, SubSeqProperties
<1>4. value \in Seq(Symbol)
  <2>1. n + 2 \in 1..(Len(v) + 1)
    BY <1>2
  <2> QED
    BY <1>1, <2>1, RestIs
<1>5. Assigned(v, e) = [x \in DOMAIN e \cup {name} |-> IF x = name THEN value ELSE e[x]]
  BY DEF Assigned, n
<1> HIDE DEF name, value
<1> DEFINE new == [x \in DOMAIN e \cup {name} |-> IF x = name THEN value ELSE e[x]]
<1>6. DOMAIN new = DOMAIN e \cup {name} /\ \A x \in DOMAIN new : new[x] \in Seq(Symbol)
  BY <1>4 DEF EnvOK
<1>7. new \in [DOMAIN new -> Seq(Symbol)]
  BY <1>6
<1> HIDE DEF new
<1>8. EnvOK(new) /\ DOMAIN e \subseteq DOMAIN new
  BY <1>3, <1>6 DEF EnvOK
<1> QED
  BY <1>5, <1>7, <1>8 DEF new

LEMMA AssignmentsBound ==
  ASSUME NEW l \in Seq(Token)
  PROVE  /\ Assignments(l) \in 0..Len(l)
         /\ \A k \in 1..Assignments(l) : is_valid_assignment(l[k].value)
<1> DEFINE f == [k \in DOMAIN l |-> is_valid_assignment(l[k].value)]
<1>1. f \in [DOMAIN l -> BOOLEAN]
  BY DEF is_valid_assignment
<1>2. \A k \in 1..Len(l) : f[k] = is_valid_assignment(l[k].value)
  OBVIOUS
<1>3. Assignments(l) = RunLength(f, {TRUE})
  BY DEF Assignments
<1> HIDE DEF f
<1>4. f \in Seq(BOOLEAN) /\ Len(f) = Len(l)
  BY <1>1, TokenByToken
<1>5. /\ RunLength(f, {TRUE}) \in 0..Len(f)
      /\ \A k \in 1..RunLength(f, {TRUE}) : f[k] \in {TRUE}
  BY <1>4, RunLengthIs
<1>6. Len(l) \in Nat
  OBVIOUS
<1>7. Assignments(l) \in 0..Len(l)
  BY <1>3, <1>4, <1>5
<1>8. ASSUME NEW k \in 1..Assignments(l)
      PROVE  is_valid_assignment(l[k].value)
  <2>1. k \in 1..Len(l)
    BY <1>6, <1>7
  <2>2. f[k] \in {TRUE}
    BY <1>3, <1>5
  <2>3. f[k] = is_valid_assignment(l[k].value)
    BY <1>2, <2>1
  <2> QED
    BY <2>2, <2>3, Zenon
<1> QED
  BY <1>7, <1>8

\* The assignments of a line leave an environment, of more names.
LEMMA AssignedEnvOK ==
  ASSUME NEW l \in Seq(Token), NEW n \in 0..Len(l), NEW e, EnvOK(e),
         \A k \in 1..n : is_valid_assignment(l[k].value)
  PROVE  EnvOK(AssignedEnv(l, n, e))
<1> DEFINE U == {e} \cup UNION {[D -> Seq(Symbol)] : D \in SUBSET Seq(Name)}
           A == {x \in U : EnvOK(x)}
           I == [j \in 0..n |-> A]
           Turn(x, j) == Assigned(l[j].value, x)
           g == [p \in U \X (1..n) |-> Turn(p[1], p[2])]
<1>1. n \in Nat /\ e \in A
  OBVIOUS
<1>2. ASSUME NEW x \in A, NEW j \in 1..n
      PROVE  x \in U /\ Turn(x, j) \in A
  <2>1. l[j] \in Token /\ is_valid_assignment(l[j].value)
    OBVIOUS
  <2>2. l[j].value \in Seq(Symbol) \/ l[j].value = NULL
    BY <2>1 DEF Token
  <2>3. /\ Turn(x, j) \in [DOMAIN Turn(x, j) -> Seq(Symbol)]
        /\ EnvOK(Turn(x, j))
    BY <2>1, <2>2, AssignStep
  <2> HIDE DEF Turn
  <2>4. DOMAIN Turn(x, j) \in SUBSET Seq(Name)
    BY <2>3 DEF EnvOK
  <2> QED
    BY <2>3, <2>4
<1>4. \A j \in 0..n : I[j] = A
  OBVIOUS
<1>5. /\ A \subseteq U
      /\ \A x \in A : \A j \in 1..n : g[<<x, j>>] = Turn(x, j) /\ Turn(x, j) \in A
  <2>1. \A x \in U : \A j \in 1..n : g[<<x, j>>] = Turn(x, j)
    BY Zenon
  <2> QED
    BY <1>2, <2>1, Zenon
<1> HIDE DEF A, I, g, U, Turn
<1>6. PICK f : f \in Loops(U, n, I, e, g)
  <2>1. e \in I[0] /\ \A j \in 0..n : I[j] \subseteq U
    BY <1>1, <1>4, <1>5
  <2>2. \A j \in 1..n : \A y \in I[j - 1] : g[<<y, j>>] \in I[j]
    BY <1>1, <1>4, <1>5
  <2> QED
    BY <1>1, <2>1, <2>2, Iterates
<1>7. f = [j \in 0..n |-> IF j = 0 THEN e ELSE Turn(f[j - 1], j)]
  <2>1. \A j \in 1..n : f[j] = Turn(f[j - 1], j)
    <3> SUFFICES ASSUME NEW j \in 1..n
                 PROVE  f[j] = Turn(f[j - 1], j)
      OBVIOUS
    <3>1. j - 1 \in 0..n
      BY <1>1
    <3> QED
      BY <1>4, <1>5, <1>6, <3>1 DEF Loops
  <2>2. \A j \in 0..n : f[j] = IF j = 0 THEN e ELSE Turn(f[j - 1], j)
    BY <1>1, <1>6, <2>1, SMTT(30) DEF Loops
  <2> QED
    BY <1>6, <2>2 DEF Loops
<1>8. PICK h : /\ h = [j \in 0..n |-> IF j = 0 THEN e ELSE Turn(h[j - 1], j)]
               /\ AssignedEnv(l, n, e) = h[n]
  BY <1>7 DEF AssignedEnv, Turns, Turn
<1> DEFINE T == {j \in 0..n : h[j] \in A}
<1>9. 0 \in T
  BY <1>1, <1>8
<1>10. ASSUME NEW j \in 1..n, j - 1 \in T
       PROVE  j \in T
  <2>1. j \in 0..n /\ j # 0 /\ h[j - 1] \in A
    BY <1>1, <1>10
  <2>2. h[j] = Turn(h[j - 1], j)
    BY <1>8, <2>1
  <2> QED
    BY <1>5, <2>1, <2>2
<1>11. h[n] \in A
  <2>1. \A j \in 0..n : j \in T
    <3> HIDE DEF T
    <3> QED
      BY <1>1, <1>9, <1>10, UpTo
  <2> QED
    BY <1>1, <2>1
<1> QED
  BY <1>8, <1>11 DEF A

-----------------------------------------------------------------------------
(* split_input. *)

LEMMA TokenLength ==
  ASSUME NEW s \in Seq(Symbol), s # <<>>, s[1] # Space
  PROVE  get_token_len(s) \in 1..Len(s)
<1>0. Len(s) \in Nat /\ Len(s) >= 1 /\ s[1] \in Symbol
  OBVIOUS
<1>1. CASE s[1] \in Quote
  <2> DEFINE n == RunLength(Tail(s), Symbol \ {s[1]})
  <2>1. Tail(s) \in Seq(Symbol) /\ Len(Tail(s)) = Len(s) - 1
    BY HeadTailProperties
  <2>2. n \in 0..(Len(s) - 1)
    BY <2>1, RunLengthIs
  <2>3. get_token_len(s) = IF n = Len(s) - 1 THEN 1 ELSE n + 2
    BY <1>1 DEF get_token_len
  <2> HIDE DEF n
  <2> QED
    BY <1>0, <2>2, <2>3
<1>2. CASE s[1] \notin Quote /\ s[1] \in Operator
  BY <1>0, <1>2 DEF get_token_len
<1>3. CASE s[1] \notin Quote /\ s[1] \notin Operator
  <2> DEFINE S == Symbol \ (Quote \cup Operator \cup {Space})
  <2>1. get_token_len(s) = RunLength(s, S)
    BY <1>3 DEF get_token_len
  <2>2. s[1] \in S
    BY <1>0, <1>3
  <2> HIDE DEF S
  <2>3. /\ RunLength(s, S) \in 0..Len(s)
        /\ RunLength(s, S) < Len(s) => s[RunLength(s, S) + 1] \notin S
    BY RunLengthIs
  <2>4. RunLength(s, S) # 0
    BY <1>0, <2>2, <2>3
  <2> QED
    BY <1>0, <2>1, <2>3, <2>4
<1> QED
  BY <1>1, <1>2, <1>3

LEMMA CutToken ==
  ASSUME NEW ln \in Seq(Symbol), NEW at \in 1..Len(ln),
         NEW n \in 1..Len(Rest(ln, at))
  PROVE  /\ NewToken(at, Rest(ln, at), n) \in Cut(ln)
         /\ NewToken(at, Rest(ln, at), n).value # NULL
         /\ NewToken(at, Rest(ln, at), n).merge_next =>
              at + n <= Len(ln) /\ ln[at + n] # Space
<1>1. PICK s : s = Rest(ln, at)
  OBVIOUS
<1>2. Len(ln) \in Nat /\ at \in Nat /\ n \in Nat
  OBVIOUS
<1>3. /\ s \in Seq(Symbol) /\ Len(s) = Len(ln) - at + 1
      /\ \A j \in 1..Len(s) : s[j] = ln[at + j - 1]
  <2>1. at \in 1..(Len(ln) + 1)
    BY <1>2
  <2> QED
    BY <1>1, <2>1, RestIs
<1>4. n \in 1..Len(s)
  BY <1>1
<1>5. /\ SubSeq(s, 1, n) \in Seq(Symbol) /\ Len(SubSeq(s, 1, n)) = n
      /\ \A p \in 1..n : SubSeq(s, 1, n)[p] = s[p]
  <2>1. 1 \in 1..(Len(s) + 1) /\ n \in (1 - 1)..Len(s)
    BY <1>3, <1>4
  <2>2. /\ SubSeq(s, 1, n) \in Seq(Symbol) /\ Len(SubSeq(s, 1, n)) = n - 1 + 1
        /\ \A p \in 1..(n - 1 + 1) : SubSeq(s, 1, n)[p] = s[1 + p - 1]
    BY <1>3, <2>1, PieceIs, SMTT(30)
  <2>3. n - 1 + 1 = n /\ \A p \in 1..n : 1 + p - 1 = p
    BY <1>2
  <2> QED
    BY <2>2, <2>3
<1> DEFINE mn == /\ s[1] \notin Operator
                 /\ n < Len(s) /\ s[n + 1] \notin Operator \cup {Space}
           t == NewToken(at, s, n)
<1>6. t = [id |-> at, value |-> SubSeq(s, 1, n), type |-> "PIPE", coretype |-> "WORD",
           rank |-> RANK_C, literal |-> FALSE, err |-> FALSE, args |-> <<>>,
           file |-> NULL, merge_next |-> mn]
  BY DEF NewToken
<1>7. mn \in BOOLEAN
  OBVIOUS
<1>8. mn => at + n <= Len(ln) /\ ln[at + n] # Space
  <2> SUFFICES ASSUME mn
               PROVE  at + n <= Len(ln) /\ ln[at + n] # Space
    OBVIOUS
  <2>1. n + 1 \in 1..Len(s) /\ s[n + 1] # Space
    BY <1>2, <1>3
  <2>2. s[n + 1] = ln[at + (n + 1) - 1] /\ at + (n + 1) - 1 = at + n
    BY <1>2, <1>3, <2>1
  <2> QED
    BY <1>2, <1>3, <2>1, <2>2
<1> HIDE DEF mn, t
<1>9. /\ t.id = at /\ t.value = SubSeq(s, 1, n) /\ t.type = "PIPE" /\ t.coretype = "WORD"
      /\ t.merge_next = mn /\ t.args = <<>>
  BY <1>6
<1>10. t \in Token
  BY <1>2, <1>5, <1>6, <1>7 DEF Token
<1>11. \A p \in 1..n : t.value[p] = ln[at + p - 1]
  <2>1. \A p \in 1..n : p \in 1..Len(s)
    BY <1>2, <1>3, <1>4
  <2> QED
    BY <1>3, <1>5, <1>9, <2>1
<1>12. t \in Cut(ln)
  <2>1. Len(t.value) = n /\ n >= 1 /\ at + n <= Len(ln) + 1
    BY <1>2, <1>3, <1>4, <1>5, <1>9
  <2> QED
    BY <1>9, <1>10, <1>11, <2>1 DEF Cut
<1>13. t.value # NULL
  BY <1>5, <1>9, NoSuchString
<1> QED
  BY <1>1, <1>8, <1>9, <1>12, <1>13 DEF t

Spaces(ln, p) == \A q \in p..Len(ln) : ln[q] = Space

\* The tokens up to a place at of the line, behind k turns of the loop.
CutUpTo(ln, k) ==
  {x \in [at : 1..(Len(ln) + 1), list : Seq(Cut(ln))] :
     /\ Len(x.list) < x.at
     /\ k < x.at \/ Spaces(ln, x.at)
     /\ \A p \in 1..Len(x.list) :
          /\ x.list[p].value # NULL
          /\ x.list[p].merge_next =>
               p < Len(x.list) \/ (x.at <= Len(ln) /\ ln[x.at] # Space)}

LEMMA SplitStep ==
  ASSUME NEW ln \in Seq(Symbol), NEW k \in Nat \ {0}, NEW x \in CutUpTo(ln, k - 1)
  PROVE  NextToken(ln, x) \in CutUpTo(ln, k)
<1>0. PICK at : at = x.at
  OBVIOUS
<1>a. PICK l : l = x.list
  OBVIOUS
<1>1. /\ x = [at |-> at, list |-> l]
      /\ at \in 1..(Len(ln) + 1) /\ l \in Seq(Cut(ln)) /\ Len(l) < at
      /\ k - 1 < at \/ Spaces(ln, at)
      /\ \A p \in 1..Len(l) : /\ l[p].value # NULL
                              /\ l[p].merge_next =>
                                   p < Len(l) \/ (at <= Len(ln) /\ ln[at] # Space)
  BY <1>0, <1>a DEF CutUpTo
<1>2. Len(ln) \in Nat /\ at \in Nat /\ Len(l) \in Nat
  BY <1>1
<1>3. PICK r : r = Rest(ln, at)
  OBVIOUS
<1>4. /\ r \in Seq(Symbol) /\ Len(r) = Len(ln) - at + 1
      /\ \A j \in 1..(Len(ln) - at + 1) : r[j] = ln[at + j - 1]
  BY <1>1, <1>3, RestIs
<1>5. PICK m : m = RunLength(r, {Space})
  OBVIOUS
<1>6. /\ m \in 0..Len(r) /\ \A j \in 1..m : r[j] \in {Space}
      /\ m < Len(r) => r[m + 1] \notin {Space}
  BY <1>4, <1>5, RunLengthIs
<1>7. PICK start : start = at + m
  OBVIOUS
<1>8. PICK s : s = Rest(ln, start)
  OBVIOUS
<1>9. /\ start \in at..(Len(ln) + 1) /\ start \in 1..(Len(ln) + 1)
      /\ start <= Len(ln) <=> m < Len(r)
  <2>1. m \in Nat /\ m <= Len(ln) - at + 1
    BY <1>1, <1>2, <1>4, <1>6
  <2> QED
    BY <1>1, <1>2, <1>4, <1>7, <2>1
<1>10. /\ s \in Seq(Symbol) /\ Len(s) = Len(ln) - start + 1
       /\ \A j \in 1..(Len(ln) - start + 1) : s[j] = ln[start + j - 1]
  BY <1>8, <1>9, RestIs
<1>11. CASE s = <<>>
  <2>1. NextToken(ln, x) = x
    BY <1>0, <1>3, <1>5, <1>7, <1>8, <1>11 DEF NextToken
  <2>2. start = Len(ln) + 1 /\ m = Len(r)
    <3>1. Len(s) = 0
      BY <1>11
    <3> QED
      BY <1>2, <1>6, <1>9, <1>10, <3>1, <1>4
  <2>3. Spaces(ln, at)
    <3> SUFFICES ASSUME NEW q \in at..Len(ln)
                 PROVE  ln[q] = Space
      BY DEF Spaces
    <3>1. q - at + 1 \in 1..m /\ q - at + 1 \in 1..(Len(ln) - at + 1)
          /\ at + (q - at + 1) - 1 = q
      BY <1>2, <1>4, <2>2
    <3> QED
      BY <1>4, <1>6, <3>1
  <2> QED
    BY <1>1, <2>1, <2>3 DEF CutUpTo
<1>12. CASE s # <<>>
  <2>1. start \in 1..Len(ln) /\ m < Len(r) /\ Len(s) >= 1
    <3>1. Len(s) # 0 /\ Len(s) \in Nat
      BY <1>10, <1>12
    <3> QED
      BY <1>2, <1>9, <1>10, <3>1
  <2>2. ln[start] # Space /\ s[1] = ln[start]
    <3>1. m + 1 \in 1..(Len(ln) - at + 1) /\ at + (m + 1) - 1 = start
      BY <1>2, <1>4, <1>6, <1>7, <2>1
    <3>2. 1 \in 1..(Len(ln) - start + 1) /\ start + 1 - 1 = start
      BY <1>2, <2>1
    <3> QED
      BY <1>4, <1>6, <1>10, <2>1, <3>1, <3>2
  <2>3. PICK n : n = get_token_len(s)
    OBVIOUS
  <2>4. n \in 1..Len(s)
    BY <1>10, <1>12, <2>2, <2>3, TokenLength
  <2>5. PICK t : t = NewToken(start, s, n)
    OBVIOUS
  <2>6. /\ t \in Cut(ln) /\ t.value # NULL
        /\ t.merge_next => start + n <= Len(ln) /\ ln[start + n] # Space
    BY <1>8, <2>1, <2>4, <2>5, CutToken
  <2>7. NextToken(ln, x) = [at |-> start + n, list |-> Append(l, t)]
    BY <1>0, <1>a, <1>3, <1>5, <1>7, <1>8, <1>12, <2>3, <2>5 DEF NextToken
  <2>8. PICK lt : lt = Append(l, t)
    OBVIOUS
  <2>9. /\ lt \in Seq(Cut(ln)) /\ Len(lt) = Len(l) + 1 /\ lt[Len(l) + 1] = t
        /\ \A p \in 1..Len(l) : lt[p] = l[p]
    BY <1>1, <2>6, <2>8
  <2>10. /\ start + n \in 1..(Len(ln) + 1) /\ Len(lt) < start + n /\ at < start + n
    BY <1>1, <1>2, <1>9, <1>10, <2>1, <2>4, <2>9
  <2>11. k < start + n
    <3>1. ~ Spaces(ln, at)
      <4>1. start \in at..Len(ln)
        BY <1>2, <1>9, <2>1
      <4> QED
        BY <2>2, <4>1 DEF Spaces
    <3> QED
      BY <1>1, <1>2, <2>10, <3>1
  <2>12. \A p \in 1..Len(lt) :
           /\ lt[p].value # NULL
           /\ lt[p].merge_next =>
                p < Len(lt) \/ (start + n <= Len(ln) /\ ln[start + n] # Space)
    <3> SUFFICES ASSUME NEW p \in 1..Len(lt)
                 PROVE  /\ lt[p].value # NULL
                        /\ lt[p].merge_next =>
                             p < Len(lt) \/ (start + n <= Len(ln) /\ ln[start + n] # Space)
      OBVIOUS
    <3>1. p \in 1..Len(l) \/ p = Len(l) + 1
      BY <1>2, <2>9
    <3> QED
      BY <1>1, <1>2, <2>6, <2>9, <3>1
  <2>13. [at |-> start + n, list |-> lt] \in CutUpTo(ln, k)
    BY <2>9, <2>10, <2>11, <2>12 DEF CutUpTo
  <2> QED
    BY <2>7, <2>8, <2>13
<1> QED
  BY <1>11, <1>12

\* The loop of split_input: what each turn leads from and to, U at most.
LEMMA SplitLoop ==
  ASSUME NEW ln \in Seq(Symbol), NEW U, NEW I, NEW x, x = [at |-> 1, list |-> <<>>],
         x \in I[0], \A j \in 0..Len(ln) : I[j] \subseteq U,
         \A j \in 1..Len(ln) : \A y \in I[j - 1] : NextToken(ln, y) \in I[j]
  PROVE  \E y \in I[Len(ln)] : Turns(LAMBDA z, k : NextToken(ln, z), x, Len(ln)) = y
<1> DEFINE n == Len(ln)
           g == [p \in U \X (1..n) |-> NextToken(ln, p[1])]
<1>1. n \in Nat
  OBVIOUS
<1>2. \A j \in 1..n : j \in 0..n /\ j - 1 \in 0..n
  BY <1>1
<1>3. \A j \in 1..n : \A y \in I[j - 1] :
        g[<<y, j>>] = NextToken(ln, y) /\ NextToken(ln, y) \in I[j]
  <2>1. \A y \in U : \A j \in 1..n : g[<<y, j>>] = NextToken(ln, y)
    OBVIOUS
  <2> HIDE DEF g, n
  <2> QED
    BY <1>2, <2>1 DEF n
<1>4. 0 \in 0..n /\ n \in 0..n
  BY <1>1
<1> HIDE DEF g, n
<1>5. PICK f : f \in Loops(U, n, I, x, g)
  <2>1. \A j \in 0..n : I[j] \subseteq U
    BY DEF n
  <2>2. \A j \in 1..n : \A y \in I[j - 1] : g[<<y, j>>] \in I[j]
    BY <1>3
  <2> QED
    BY <1>1, <2>1, <2>2, Iterates
<1>6. f = [j \in 0..n |-> IF j = 0 THEN x ELSE NextToken(ln, f[j - 1])]
  <2>1. \A j \in 1..n : f[j] = NextToken(ln, f[j - 1])
    BY <1>2, <1>3, <1>5 DEF Loops
  <2>2. \A j \in 0..n : f[j] = IF j = 0 THEN x ELSE NextToken(ln, f[j - 1])
    BY <1>1, <1>5, <2>1 DEF Loops
  <2> QED
    BY <1>5, <2>2 DEF Loops
<1>7. PICK h : /\ h = [j \in 0..n |-> IF j = 0 THEN x ELSE NextToken(ln, h[j - 1])]
               /\ Turns(LAMBDA y, k : NextToken(ln, y), x, n) = h[n]
  BY <1>6 DEF Turns
<1> DEFINE T == {j \in 0..n : h[j] \in I[j]}
<1>8. 0 \in T
  BY <1>4, <1>7
<1>9. ASSUME NEW j \in 1..n, j - 1 \in T
      PROVE  j \in T
  <2>1. j \in 0..n /\ j # 0 /\ h[j - 1] \in I[j - 1]
    BY <1>1, <1>9
  <2>2. h[j] = NextToken(ln, h[j - 1])
    BY <1>7, <2>1
  <2> QED
    BY <1>3, <2>1, <2>2
<1>10. h[n] \in I[n]
  <2>1. \A j \in 0..n : j \in T
    <3> HIDE DEF T
    <3> QED
      BY <1>1, <1>8, <1>9, UpTo
  <2> QED
    BY <1>4, <2>1
<1> QED
  BY <1>7, <1>10 DEF n

LEMMA CutLoop ==
  ASSUME NEW ln \in Seq(Symbol)
  PROVE  \E x \in CutUpTo(ln, Len(ln)) :
           Turns(LAMBDA y, k : NextToken(ln, y), [at |-> 1, list |-> <<>>], Len(ln)) = x
<1> DEFINE n == Len(ln)
           U == [at : 1..(Len(ln) + 1), list : Seq(Cut(ln))]
           I == [j \in 0..n |-> CutUpTo(ln, j)]
           x == [at |-> 1, list |-> <<>>]
<1>1. n \in Nat /\ 0 \in 0..n /\ n \in 0..n
  OBVIOUS
<1>2. x \in CutUpTo(ln, 0)
  <2>1. 1 \in 1..(Len(ln) + 1) /\ <<>> \in Seq(Cut(ln)) /\ Len(<<>>) = 0
    BY <1>1
  <2> QED
    BY <2>1 DEF CutUpTo
<1>3. \A j \in 0..n : I[j] = CutUpTo(ln, j) /\ CutUpTo(ln, j) \subseteq U
  BY DEF CutUpTo
<1>4. \A j \in 1..n : j \in 0..n /\ j - 1 \in 0..n /\ j \in Nat \ {0}
  BY <1>1
<1> HIDE DEF I, U
<1>5. x \in I[0] /\ \A j \in 0..Len(ln) : I[j] \subseteq U
  BY <1>1, <1>2, <1>3
<1>6. \A j \in 1..Len(ln) : \A y \in I[j - 1] : NextToken(ln, y) \in I[j]
  <2> SUFFICES ASSUME NEW j \in 1..n, NEW y \in I[j - 1]
               PROVE  NextToken(ln, y) \in I[j]
    OBVIOUS
  <2>1. y \in CutUpTo(ln, j - 1) /\ I[j] = CutUpTo(ln, j)
    BY <1>3, <1>4
  <2> QED
    BY <1>4, <2>1, SplitStep
<1>7. PICK z : z = x
  OBVIOUS
<1>8. \E y \in I[Len(ln)] : Turns(LAMBDA u, k : NextToken(ln, u), z, Len(ln)) = y
  <2> HIDE DEF n
  <2>1. z = [at |-> 1, list |-> <<>>] /\ z \in I[0]
    BY <1>5, <1>7
  <2> QED
    BY <1>5, <1>6, <2>1, SplitLoop
<1> QED
  BY <1>1, <1>3, <1>7, <1>8

\* split_input cuts a line into a list of its pieces, empty only for spaces.
LEMMA SplitKeeps ==
  ASSUME NEW ln \in Seq(Symbol), ln # <<>>
  PROVE  /\ split_input(ln) \in Seq(Cut(ln)) /\ Chained(split_input(ln))
         /\ Len(split_input(ln)) <= Len(ln) + 1
         /\ split_input(ln) = <<>> => Range(ln) = {Space}
<1>0. Len(ln) \in Nat /\ Len(ln) >= 1 /\ DOMAIN ln = 1..Len(ln)
  OBVIOUS
<1>1. CASE RunLength(ln, {Space}) = Len(ln)
  <2>1. \A k \in 1..Len(ln) : ln[k] \in {Space}
    BY <1>1, RunLengthIs
  <2>2. Range(ln) = {Space}
    <3>1. \A k \in DOMAIN ln : ln[k] = Space
      BY <1>0, <2>1
    <3>2. 1 \in DOMAIN ln
      BY <1>0
    <3> QED
      BY <3>1, <3>2 DEF Range
  <2>3. split_input(ln) = <<>>
    BY <1>1 DEF split_input
  <2>4. <<>> \in Seq(Cut(ln)) /\ Len(<<>>) = 0
    OBVIOUS
  <2>5. Chained(<<>>)
    BY DEF Chained
  <2> QED
    BY <1>0, <2>2, <2>3, <2>4, <2>5
<1>2. CASE RunLength(ln, {Space}) # Len(ln)
  <2>1. PICK x \in CutUpTo(ln, Len(ln)) :
          Turns(LAMBDA y, k : NextToken(ln, y), [at |-> 1, list |-> <<>>], Len(ln)) = x
    BY CutLoop
  <2>2. PICK l : l = x.list
    OBVIOUS
  <2>3. PICK t : t = Sentinel(Len(ln) + 1)
    OBVIOUS
  <2>4. split_input(ln) = Append(l, t)
    BY <1>2, <2>1, <2>2, <2>3 DEF split_input
  <2>5. /\ l \in Seq(Cut(ln)) /\ Len(l) \in Nat /\ Len(l) <= Len(ln)
        /\ \A p \in 1..Len(l) : /\ l[p].value # NULL
                                /\ l[p].merge_next => p < Len(l)
    <3>1. /\ l \in Seq(Cut(ln)) /\ Len(l) \in Nat /\ x.at \in 1..(Len(ln) + 1)
          /\ Len(l) < x.at /\ (Len(ln) < x.at \/ Spaces(ln, x.at))
          /\ \A p \in 1..Len(l) :
               /\ l[p].value # NULL
               /\ l[p].merge_next =>
                    p < Len(l) \/ (x.at <= Len(ln) /\ ln[x.at] # Space)
      BY <2>2 DEF CutUpTo
    <3>2. ~ (x.at <= Len(ln) /\ ln[x.at] # Space)
      BY <1>0, <3>1 DEF Spaces
    <3> QED
      BY <1>0, <3>1, <3>2
  <2>6. t \in Cut(ln) /\ ~ t.merge_next
    <3>1. /\ t.value = NULL /\ t.type = "PIPE" /\ t.coretype = "PIPE"
          /\ t.merge_next = FALSE /\ t.args = <<>>
      BY <2>3 DEF Sentinel
    <3>2. t \in Token
      BY <1>0, <2>3 DEF Sentinel, Token
    <3> QED
      BY <3>1, <3>2 DEF Cut
  <2>7. PICK lt : lt = Append(l, t)
    OBVIOUS
  <2>8. /\ lt \in Seq(Cut(ln)) /\ Len(lt) = Len(l) + 1 /\ lt[Len(l) + 1] = t
        /\ \A p \in 1..Len(l) : lt[p] = l[p]
    BY <2>5, <2>6, <2>7
  <2>9. Chained(lt)
    <3> SUFFICES ASSUME NEW p \in 1..Len(lt), lt[p].merge_next
                 PROVE  p < Len(lt) /\ lt[p].value # NULL /\ lt[p + 1].value # NULL
      BY DEF Chained
    <3>1. p # Len(l) + 1
      BY <2>6, <2>8
    <3>2. p \in 1..Len(l)
      BY <2>5, <2>8, <3>1
    <3>3. l[p].merge_next /\ p < Len(l) /\ p + 1 \in 1..Len(l)
      BY <2>5, <2>8, <3>2
    <3> QED
      BY <2>5, <2>8, <3>2, <3>3
  <2>10. lt # <<>> /\ Len(lt) <= Len(ln) + 1
    BY <1>0, <2>5, <2>8
  <2> QED
    BY <2>4, <2>7, <2>8, <2>9, <2>10
<1> QED
  BY <1>1, <1>2

-----------------------------------------------------------------------------
(* The tree. *)

\* A tree over the list l whose nodes are used tokens, none of them the child
\* of two nodes, or twice of one, and the root the child of none.
Forest(l) ==
  {y \in [left : [1..Len(l) -> 0..Len(l)], right : [1..Len(l) -> 0..Len(l)],
          used : SUBSET (1..Len(l)), root : 0..Len(l), eof : BOOLEAN,
          crashed : BOOLEAN] :
     /\ y.root # 0 => y.root \in y.used
     /\ \A j \in 1..Len(l) :
          /\ y.left[j] # 0 => y.left[j] \in y.used /\ y.left[j] # y.root
          /\ y.right[j] # 0 => y.right[j] \in y.used /\ y.right[j] # y.root
     /\ \A j, k \in 1..Len(l) :
          /\ y.left[j] # 0 /\ y.left[j] = y.left[k] => j = k
          /\ y.right[j] # 0 /\ y.right[j] = y.right[k] => j = k
          /\ y.left[j] # 0 => y.left[j] # y.right[k]}

\* Only nodes have children, and going down the tree ends: there are heights
\* that fall from each node to its children.
Descends(l, y) ==
  /\ \A k \in 1..Len(l) : (y.left[k] # 0 \/ y.right[k] # 0) => k \in y.used
  /\ \E h \in [1..Len(l) -> Nat] :
       \A k \in 1..Len(l) : /\ y.left[k] # 0 => h[y.left[k]] < h[k]
                            /\ y.right[k] # 0 => h[y.right[k]] < h[k]

\* What a tree is made of.
LEMMA ForestRecord ==
  ASSUME NEW l, NEW y \in Forest(l)
  PROVE  y = [left |-> y.left, right |-> y.right, used |-> y.used, root |-> y.root,
              eof |-> y.eof, crashed |-> y.crashed]
BY DEF Forest

\* The rank of a token is a small number.
LEMMA RankIs ==
  ASSUME NEW l \in Seq(Token), NEW k \in 1..Len(l)
  PROVE  l[k].rank \in 0..6
<1>1. l[k] \in Token
  OBVIOUS
<1> QED
  BY <1>1, SMT DEF Token, RANK_C, RANK_B, RANK_A, RANK_S

\* There is a token of the highest rank, and a last one of them.
LEMMA HighestExists ==
  ASSUME NEW l \in Seq(Token), NEW S \in SUBSET (1..Len(l)), S # {}
  PROVE  \E k \in S : \A j \in S : l[j].rank < l[k].rank
                                     \/ (l[j].rank = l[k].rank /\ j <= k)
<1> DEFINE R == {l[k].rank : k \in S}
<1>1. \A k \in S : l[k].rank \in 0..6 /\ k \in 0..Len(l)
  BY RankIs
<1>2. R \in SUBSET (0..6) /\ R # {}
  BY <1>1
<1>3. PICK m : m = Max(R)
  OBVIOUS
<1>4. m \in R /\ \A r \in R : r <= m
  BY <1>2, <1>3, MaxIsGreatest
<1> DEFINE T == {k \in S : l[k].rank = m}
<1>5. T \in SUBSET (0..Len(l)) /\ T # {}
  BY <1>1, <1>4
<1>6. PICK k : k = Max(T)
  OBVIOUS
<1> HIDE DEF T
<1>7. Len(l) \in Nat
  OBVIOUS
<1>8. k \in T /\ \A j \in T : j <= k
  BY <1>5, <1>6, <1>7, MaxIsGreatest
<1>9. ASSUME NEW j \in S
      PROVE  l[j].rank < l[k].rank \/ (l[j].rank = l[k].rank /\ j <= k)
  <2>1. k \in S /\ l[k].rank = m
    BY <1>8 DEF T
  <2>2. l[j].rank \in 0..6 /\ m \in 0..6 /\ l[j].rank <= m
    BY <1>1, <1>4, <2>1
  <2>3. l[j].rank = m => j <= k
    BY <1>8 DEF T
  <2> QED
    BY <2>1, <2>2, <2>3
<1>10. k \in S
  BY <1>8 DEF T
<1> QED
  BY <1>9, <1>10

\* What the searches for a child find is a token that was searched.
LEMMA HighestIs ==
  ASSUME NEW l \in Seq(Token), NEW S \in SUBSET (1..Len(l))
  PROVE  Highest(l, S) \in S \cup {0}
BY HighestExists DEF Highest

LEMMA SidesAre ==
  ASSUME NEW l \in Seq(Token), NEW y \in Forest(l), NEW t \in 0..Len(l),
         NEW e \in 0..Len(l)
  PROVE  /\ find_left_token(l, y, t) \in 0..Len(l)
         /\ find_right_token(l, y, t, e) \in 0..Len(l)
<1>1. PICK A \in SUBSET (1..Len(l)) : find_left_token(l, y, t) = Highest(l, A)
  <2> DEFINE A == IF t = 0 THEN {} ELSE (1..(t - 1)) \ y.used
  <2>1. A \in SUBSET (1..Len(l))
    OBVIOUS
  <2> QED
    BY <2>1 DEF find_left_token
<1>2. PICK B \in SUBSET (1..Len(l)) : find_right_token(l, y, t, e) = Highest(l, B)
  <2> DEFINE B == IF t = 0 THEN {}
                  ELSE ((t + 1)..(IF e = 0 THEN Len(l) ELSE e - 1)) \ y.used
  <2>1. B \in SUBSET (1..Len(l))
    OBVIOUS
  <2> QED
    BY <2>1 DEF find_right_token
<1>3. Highest(l, A) \in A \cup {0} /\ Highest(l, B) \in B \cup {0}
  BY HighestIs
<1>4. A \cup {0} \subseteq 0..Len(l) /\ B \cup {0} \subseteq 0..Len(l)
  OBVIOUS
<1> HIDE DEF Forest
<1> QED
  BY <1>1, <1>2, <1>3, <1>4, Zenon

\* A list that is not empty has a root.
LEMMA RootIs ==
  ASSUME NEW l \in Seq(Token)
  PROVE  Root(l) \in 0..Len(l) /\ (Root(l) = 0 => l = <<>>)
<1> DEFINE top == {k \in DOMAIN l : \A j \in DOMAIN l : l[j].rank <= l[k].rank}
           redirs == {k \in top : l[k].coretype = "REDIR"}
<1>1. DOMAIN l = 1..Len(l) /\ Len(l) \in Nat
  OBVIOUS
<1>2. top \subseteq 1..Len(l) /\ redirs \subseteq top
  <2>1. top \subseteq DOMAIN l /\ redirs \subseteq top
    BY Zenon
  <2> HIDE DEF top, redirs
  <2> QED
    BY <1>1, <2>1, Zenon
<1>3. top = {} => l = <<>>
  <2> SUFFICES ASSUME l # <<>>
               PROVE  top # {}
    OBVIOUS
  <2>1. 1..Len(l) # {}
    <3>1. Len(l) # 0
      BY EmptySeq
    <3>2. 1 \in 1..Len(l)
      BY <1>1, <3>1
    <3> QED
      BY <3>2
  <2>2. PICK k \in 1..Len(l) : \A j \in 1..Len(l) :
               l[j].rank < l[k].rank \/ (l[j].rank = l[k].rank /\ j <= k)
    BY <2>1, HighestExists
  <2>3. \A j \in 1..Len(l) : l[j].rank \in 0..6
    BY RankIs
  <2>4. \A j \in 1..Len(l) : l[j].rank <= l[k].rank
    BY <2>2, <2>3
  <2> QED
    BY <1>1, <2>4
<1> HIDE DEF top
<1>4. redirs # {} => Max(redirs) \in redirs
  <2> HIDE DEF redirs
  <2>1. redirs \in SUBSET (0..Len(l))
    BY <1>1, <1>2
  <2> QED
    BY <1>1, <2>1, MaxIsGreatest
<1>5. top # {} => Min(top) \in top
  <2>1. top \in SUBSET Nat
    BY <1>2
  <2> QED
    BY <2>1, MinIsLeast
<1>6. Root(l) = IF top = {} THEN 0
                ELSE IF redirs # {} THEN Max(redirs) ELSE Min(top)
  BY DEF Root, top
<1> HIDE DEF redirs
<1>7. CASE top = {}
  BY <1>1, <1>3, <1>6, <1>7
<1>8. CASE top # {} /\ redirs # {}
  <2>1. Root(l) = Max(redirs)
    BY <1>6, <1>8
  <2>2. Root(l) \in 1..Len(l)
    BY <1>2, <1>4, <1>8, <2>1
  <2> QED
    BY <1>1, <2>2
<1>9. CASE top # {} /\ redirs = {}
  <2>1. Root(l) = Min(top)
    BY <1>6, <1>9
  <2>2. Root(l) \in 1..Len(l)
    BY <1>2, <1>5, <1>9, <2>1
  <2> QED
    BY <1>1, <2>2
<1> QED
  BY <1>7, <1>8, <1>9

\* A child that is no node yet is below everything.
LEMMA ChildDescends ==
  ASSUME NEW l \in Seq(Token), NEW y \in Forest(l), Descends(l, y),
         NEW n \in 1..Len(l), n \in y.used,
         NEW c \in 0..Len(l), c # 0 => c \notin y.used,
         NEW z, y.used \subseteq z.used,
         \A k \in 1..Len(l) : /\ z.left[k] = y.left[k] \/ (k = n /\ z.left[k] = c)
                              /\ z.right[k] = y.right[k] \/ (k = n /\ z.right[k] = c)
  PROVE  Descends(l, z)
<1>1. Len(l) \in Nat
  OBVIOUS
<1>2. PICK h \in [1..Len(l) -> Nat] :
        \A k \in 1..Len(l) : /\ y.left[k] # 0 => h[y.left[k]] < h[k]
                             /\ y.right[k] # 0 => h[y.right[k]] < h[k]
  BY DEF Descends
<1>3. PICK g : g = [k \in 1..Len(l) |-> IF k = c THEN 0 ELSE h[k] + 1]
  OBVIOUS
<1>4. /\ g \in [1..Len(l) -> Nat]
      /\ \A k \in 1..Len(l) : g[k] = IF k = c THEN 0 ELSE h[k] + 1
  BY <1>3
<1>5. \A k \in 1..Len(l) :
        /\ (y.left[k] # 0 \/ y.right[k] # 0) => k \in y.used
        /\ y.left[k] # 0 => y.left[k] \in y.used /\ y.left[k] \in 1..Len(l)
        /\ y.right[k] # 0 => y.right[k] \in y.used /\ y.right[k] \in 1..Len(l)
  BY DEF Forest, Descends
<1>6. ASSUME NEW k \in 1..Len(l), NEW m, m \in {z.left[k], z.right[k]}, m # 0
      PROVE  k \in y.used /\ g[m] < g[k]
  <2>1. CASE k = n /\ m = c
    <3>1. c \in 1..Len(l) /\ k # c
      BY <1>6, <2>1
    <3>2. g[c] = 0 /\ g[k] = h[k] + 1 /\ h[k] \in Nat
      BY <1>4, <3>1
    <3> QED
      BY <2>1, <3>2
  <2>2. CASE m \in {y.left[k], y.right[k]}
    <3>1. k \in y.used /\ m \in y.used /\ m \in 1..Len(l) /\ h[m] < h[k]
      BY <1>2, <1>5, <1>6, <2>2
    <3>2. k # c /\ m # c
      BY <3>1
    <3>3. g[k] = h[k] + 1 /\ g[m] = h[m] + 1 /\ h[k] \in Nat /\ h[m] \in Nat
      BY <1>4, <3>1, <3>2
    <3> QED
      BY <3>1, <3>3
  <2> QED
    BY <1>6, <2>1, <2>2
<1> QED
  BY <1>4, <1>6 DEF Descends

\* The children a call makes are new nodes: the tree stays one.
LEMMA LeftKeeps ==
  ASSUME NEW l \in Seq(Token), NEW y \in Forest(l), NEW n \in 1..Len(l),
         NEW t \in 0..Len(l)
  PROVE  /\ SetLeft(y, n, t) \in Forest(l) /\ y.used \subseteq SetLeft(y, n, t).used
         /\ n \in y.used /\ Descends(l, y) => Descends(l, SetLeft(y, n, t))
<1>1. PICK c : c = new_yggnode(y, t)
  OBVIOUS
<1>2. c \in 0..Len(l) /\ (c # 0 => c = t /\ c \notin y.used)
  BY <1>1 DEF new_yggnode
<1>3. PICK child : child = [y.left EXCEPT ![n] = c]
  OBVIOUS
<1>4. PICK z : z = SetLeft(y, n, t)
  OBVIOUS
<1>5. /\ z.left = child /\ z.right = y.right /\ z.used = y.used \cup ({t} \ {0})
      /\ z.root = y.root /\ z.eof = y.eof /\ z.crashed = y.crashed
      /\ z = [left |-> z.left, right |-> z.right, used |-> z.used, root |-> z.root,
              eof |-> z.eof, crashed |-> z.crashed]
  <2>1. SetLeft(y, n, t) =
          [y EXCEPT !.left = child, !.used = y.used \cup ({t} \ {0})]
    BY <1>1, <1>3 DEF SetLeft
  <2>2. SetLeft(y, n, t) =
          [left |-> child, right |-> y.right, used |-> y.used \cup ({t} \ {0}),
           root |-> y.root, eof |-> y.eof, crashed |-> y.crashed]
    BY <2>1, ForestRecord
  <2> QED
    BY <1>4, <2>2
<1>6. /\ child \in [1..Len(l) -> 0..Len(l)]
      /\ \A k \in 1..Len(l) : child[k] = IF k = n THEN c ELSE y.left[k]
  BY <1>2, <1>3 DEF Forest
<1>7. ASSUME NEW j \in 1..Len(l), NEW k \in 1..Len(l)
      PROVE  /\ child[j] # 0 => child[j] \in z.used /\ child[j] # y.root
             /\ child[j] # 0 /\ child[j] = child[k] => j = k
             /\ child[j] # 0 => child[j] # y.right[k]
             /\ y.right[j] # 0 => y.right[j] # child[k]
  <2>1. /\ y.root # 0 => y.root \in y.used
        /\ y.left[j] # 0 => y.left[j] \in y.used /\ y.left[j] # y.root
        /\ y.left[j] # 0 /\ y.left[j] = y.left[k] => j = k
        /\ y.left[j] # 0 => y.left[j] # y.right[k]
        /\ y.right[j] # 0 => y.right[j] \in y.used /\ y.right[j] # y.left[k]
        /\ y.right[k] # 0 => y.right[k] \in y.used
        /\ y.left[k] # 0 => y.left[k] \in y.used
    BY DEF Forest
  <2>2. /\ child[j] = (IF j = n THEN c ELSE y.left[j])
        /\ child[k] = (IF k = n THEN c ELSE y.left[k])
        /\ c # 0 => c \in z.used /\ c \notin y.used
        /\ y.used \subseteq z.used
    BY <1>2, <1>5, <1>6
  <2> QED
    BY <2>1, <2>2
<1>8. /\ z.used \in SUBSET (1..Len(l)) /\ y.used \subseteq z.used
      /\ y.root # 0 => y.root \in z.used
  BY <1>5 DEF Forest
<1>9. /\ y.right \in [1..Len(l) -> 0..Len(l)] /\ y.root \in 0..Len(l)
      /\ y.eof \in BOOLEAN /\ y.crashed \in BOOLEAN
      /\ \A j \in 1..Len(l) :
           y.right[j] # 0 => y.right[j] \in z.used /\ y.right[j] # y.root
      /\ \A j, k \in 1..Len(l) :
           /\ y.right[j] # 0 /\ y.right[j] = y.right[k] => j = k
  BY <1>8 DEF Forest
<1>10. z \in [left : [1..Len(l) -> 0..Len(l)], right : [1..Len(l) -> 0..Len(l)],
              used : SUBSET (1..Len(l)), root : 0..Len(l), eof : BOOLEAN,
              crashed : BOOLEAN]
  BY <1>5, <1>6, <1>8, <1>9
<1>11. z.root # 0 => z.root \in z.used
  BY <1>5, <1>8
<1>12. \A j \in 1..Len(l) :
         /\ z.left[j] # 0 => z.left[j] \in z.used /\ z.left[j] # z.root
         /\ z.right[j] # 0 => z.right[j] \in z.used /\ z.right[j] # z.root
  BY <1>5, <1>7, <1>9
<1>13. \A j, k \in 1..Len(l) :
         /\ z.left[j] # 0 /\ z.left[j] = z.left[k] => j = k
         /\ z.right[j] # 0 /\ z.right[j] = z.right[k] => j = k
         /\ z.left[j] # 0 => z.left[j] # z.right[k]
  BY <1>5, <1>7, <1>9
<1>14. z \in Forest(l)
  BY <1>10, <1>11, <1>12, <1>13 DEF Forest
<1>15. ASSUME n \in y.used, Descends(l, y)
       PROVE  Descends(l, z)
  <2>1. \A k \in 1..Len(l) :
          /\ z.left[k] = y.left[k] \/ (k = n /\ z.left[k] = c)
          /\ z.right[k] = y.right[k]
    BY <1>5, <1>6
  <2>2. c # 0 => c \notin y.used
    BY <1>2
  <2> QED
    BY <1>2, <1>8, <1>15, <2>1, <2>2, ChildDescends, SMTT(30)
<1> QED
  BY <1>4, <1>8, <1>14, <1>15


LEMMA RightKeeps ==
  ASSUME NEW l \in Seq(Token), NEW y \in Forest(l), NEW n \in 1..Len(l),
         NEW t \in 0..Len(l)
  PROVE  /\ SetRight(y, n, t) \in Forest(l) /\ y.used \subseteq SetRight(y, n, t).used
         /\ n \in y.used /\ Descends(l, y) => Descends(l, SetRight(y, n, t))
<1>1. PICK c : c = new_yggnode(y, t)
  OBVIOUS
<1>2. c \in 0..Len(l) /\ (c # 0 => c = t /\ c \notin y.used)
  BY <1>1 DEF new_yggnode
<1>3. PICK child : child = [y.right EXCEPT ![n] = c]
  OBVIOUS
<1>4. PICK z : z = SetRight(y, n, t)
  OBVIOUS
<1>5. /\ z.right = child /\ z.left = y.left /\ z.used = y.used \cup ({t} \ {0})
      /\ z.root = y.root /\ z.eof = y.eof /\ z.crashed = y.crashed
      /\ z = [left |-> z.left, right |-> z.right, used |-> z.used, root |-> z.root,
              eof |-> z.eof, crashed |-> z.crashed]
  <2>1. SetRight(y, n, t) =
          [y EXCEPT !.right = child, !.used = y.used \cup ({t} \ {0})]
    BY <1>1, <1>3 DEF SetRight
  <2>2. SetRight(y, n, t) =
          [left |-> y.left, right |-> child, used |-> y.used \cup ({t} \ {0}),
           root |-> y.root, eof |-> y.eof, crashed |-> y.crashed]
    BY <2>1, ForestRecord
  <2> QED
    BY <1>4, <2>2
<1>6. /\ child \in [1..Len(l) -> 0..Len(l)]
      /\ \A k \in 1..Len(l) : child[k] = IF k = n THEN c ELSE y.right[k]
  BY <1>2, <1>3 DEF Forest
<1>7. ASSUME NEW j \in 1..Len(l), NEW k \in 1..Len(l)
      PROVE  /\ child[j] # 0 => child[j] \in z.used /\ child[j] # y.root
             /\ child[j] # 0 /\ child[j] = child[k] => j = k
             /\ child[j] # 0 => child[j] # y.left[k]
             /\ y.left[j] # 0 => y.left[j] # child[k]
  <2>1. /\ y.root # 0 => y.root \in y.used
        /\ y.right[j] # 0 => y.right[j] \in y.used /\ y.right[j] # y.root
        /\ y.right[j] # 0 /\ y.right[j] = y.right[k] => j = k
        /\ y.right[j] # 0 => y.right[j] # y.left[k]
        /\ y.left[j] # 0 => y.left[j] \in y.used /\ y.left[j] # y.right[k]
        /\ y.left[k] # 0 => y.left[k] \in y.used
        /\ y.right[k] # 0 => y.right[k] \in y.used
    BY DEF Forest
  <2>2. /\ child[j] = (IF j = n THEN c ELSE y.right[j])
        /\ child[k] = (IF k = n THEN c ELSE y.right[k])
        /\ c # 0 => c \in z.used /\ c \notin y.used
        /\ y.used \subseteq z.used
    BY <1>2, <1>5, <1>6
  <2> QED
    BY <2>1, <2>2
<1>8. /\ z.used \in SUBSET (1..Len(l)) /\ y.used \subseteq z.used
      /\ y.root # 0 => y.root \in z.used
  BY <1>5 DEF Forest
<1>9. /\ y.left \in [1..Len(l) -> 0..Len(l)] /\ y.root \in 0..Len(l)
      /\ y.eof \in BOOLEAN /\ y.crashed \in BOOLEAN
      /\ \A j \in 1..Len(l) :
           y.left[j] # 0 => y.left[j] \in z.used /\ y.left[j] # y.root
      /\ \A j, k \in 1..Len(l) :
           /\ y.left[j] # 0 /\ y.left[j] = y.left[k] => j = k
  BY <1>8 DEF Forest
<1>10. z \in [left : [1..Len(l) -> 0..Len(l)], right : [1..Len(l) -> 0..Len(l)],
              used : SUBSET (1..Len(l)), root : 0..Len(l), eof : BOOLEAN,
              crashed : BOOLEAN]
  BY <1>5, <1>6, <1>8, <1>9
<1>11. z.root # 0 => z.root \in z.used
  BY <1>5, <1>8
<1>12. \A j \in 1..Len(l) :
         /\ z.left[j] # 0 => z.left[j] \in z.used /\ z.left[j] # z.root
         /\ z.right[j] # 0 => z.right[j] \in z.used /\ z.right[j] # z.root
  BY <1>5, <1>7, <1>9
<1>13. \A j, k \in 1..Len(l) :
         /\ z.left[j] # 0 /\ z.left[j] = z.left[k] => j = k
         /\ z.right[j] # 0 /\ z.right[j] = z.right[k] => j = k
         /\ z.left[j] # 0 => z.left[j] # z.right[k]
  BY <1>5, <1>7, <1>9
<1>14. z \in Forest(l)
  BY <1>10, <1>11, <1>12, <1>13 DEF Forest
<1>15. ASSUME n \in y.used, Descends(l, y)
       PROVE  Descends(l, z)
  <2>1. \A k \in 1..Len(l) :
          /\ z.right[k] = y.right[k] \/ (k = n /\ z.right[k] = c)
          /\ z.left[k] = y.left[k]
    BY <1>5, <1>6
  <2>2. c # 0 => c \notin y.used
    BY <1>2
  <2> QED
    BY <1>2, <1>8, <1>15, <2>1, <2>2, ChildDescends, SMTT(30)
<1> QED
  BY <1>4, <1>8, <1>14, <1>15


\* The chain that becomes the left side of a redirection: each of its tokens
\* is the right child of the one before it.
LEMMA ChainKeeps ==
  ASSUME NEW l \in Seq(Token), NEW y \in Forest(l), NEW t \in 1..Len(l),
         NEW n \in 1..Len(l)
  PROVE  /\ build_command_subtree(l, y, t, n) \in Forest(l)
         /\ y.used \subseteq build_command_subtree(l, y, t, n).used
         /\ n \in y.used /\ Descends(l, y) =>
              Descends(l, build_command_subtree(l, y, t, n))
<1> DEFINE S == {k \in 1..(t - 1) : k \notin y.used /\ l[k].coretype # "REDIR"}
           After(k) == {j \in S : j > k}
           first == IF S = {} THEN 0 ELSE Min(S)
           next == [k \in 1..Len(l) |-> IF k \in S /\ After(k) # {}
                                        THEN Min(After(k)) ELSE y.right[k]]
<1>1. Len(l) \in Nat /\ DOMAIN l = 1..Len(l)
  OBVIOUS
<1>2. S \subseteq 1..Len(l) /\ S \cap y.used = {}
  OBVIOUS
<1>3. build_command_subtree(l, y, t, n) =
        [left |-> [y.left EXCEPT ![n] = first], right |-> next,
         used |-> y.used \cup S, root |-> y.root, eof |-> y.eof,
         crashed |-> y.crashed]
  <2>1. build_command_subtree(l, y, t, n) =
          [y EXCEPT !.left[n] = first, !.right = next, !.used = @ \cup S]
    BY <1>1, Zenon DEF build_command_subtree
  <2> HIDE DEF S, first, next
  <2> QED
    BY <2>1, ForestRecord
<1> HIDE DEF S
<1>4. /\ first \in S \cup {0}
      /\ first # 0 => \A j \in S : first <= j
  BY <1>2, MinIsLeast
<1>5. \A k \in S : After(k) # {} =>
        /\ Min(After(k)) \in S /\ k < Min(After(k))
        /\ \A j \in S : k < j => Min(After(k)) <= j
  BY <1>2, MinIsLeast
<1>6. \A k \in 1..Len(l) :
        \/ next[k] = y.right[k]
        \/ /\ k \in S /\ next[k] \in S /\ k < next[k]
           /\ \A j \in S : k < j => next[k] <= j
  BY <1>5
<1>7. next \in [1..Len(l) -> 0..Len(l)]
  <2>1. S \subseteq 0..Len(l)
    BY <1>2
  <2>2. \A k \in 1..Len(l) : y.right[k] \in 0..Len(l)
    BY DEF Forest
  <2> HIDE DEF next
  <2>3. \A k \in 1..Len(l) : next[k] \in 0..Len(l)
    BY <1>6, <2>1, <2>2
  <2>4. next = [k \in 1..Len(l) |-> next[k]]
    BY DEF next
  <2> QED
    BY <2>3, <2>4
<1> HIDE DEF first, next
<1>8. PICK f, r : f = first /\ r = next
  OBVIOUS
<1>9. PICK left : left = [y.left EXCEPT ![n] = f]
  OBVIOUS
<1>10. /\ left \in [1..Len(l) -> 0..Len(l)]
       /\ \A k \in 1..Len(l) : left[k] = IF k = n THEN f ELSE y.left[k]
  BY <1>2, <1>4, <1>8, <1>9 DEF Forest
<1>11. ASSUME NEW j \in 1..Len(l), NEW k \in 1..Len(l)
       PROVE  /\ r[j] # 0 => r[j] \in y.used \cup S /\ r[j] # y.root
              /\ r[j] # 0 /\ r[j] = r[k] => j = k
              /\ left[j] # 0 => left[j] \in y.used \cup S /\ left[j] # y.root
              /\ left[j] # 0 /\ left[j] = left[k] => j = k
              /\ left[j] # 0 => left[j] # r[k]
  <2>1. /\ y.root # 0 => y.root \in y.used
        /\ y.left[j] # 0 => y.left[j] \in y.used /\ y.left[j] # y.root
        /\ y.left[k] # 0 => y.left[k] \in y.used /\ y.left[k] # y.root
        /\ y.right[j] # 0 => y.right[j] \in y.used /\ y.right[j] # y.root
        /\ y.right[k] # 0 => y.right[k] \in y.used /\ y.right[k] # y.root
        /\ y.left[j] # 0 /\ y.left[j] = y.left[k] => j = k
        /\ y.right[j] # 0 /\ y.right[j] = y.right[k] => j = k
        /\ y.left[j] # 0 => y.left[j] # y.right[k]
    BY DEF Forest
  <2>2. /\ r[j] = y.right[j] \/ (/\ j \in S /\ r[j] \in S /\ j < r[j]
                                 /\ \A q \in S : j < q => r[j] <= q)
        /\ r[k] = y.right[k] \/ (/\ k \in S /\ r[k] \in S /\ k < r[k]
                                 /\ \A q \in S : k < q => r[k] <= q)
    BY <1>6, <1>8
  <2>3. /\ f # 0 => f \in S /\ \A q \in S : f <= q
        /\ left[j] = (IF j = n THEN f ELSE y.left[j])
        /\ left[k] = (IF k = n THEN f ELSE y.left[k])
    BY <1>4, <1>8, <1>10
  <2>4. \A q \in S : q \in Nat /\ q # 0 /\ q \notin y.used
    BY <1>2
  <2>5. /\ r[j] # 0 => r[j] \in y.used \cup S /\ r[j] # y.root
        /\ r[j] # 0 /\ r[j] = r[k] => j = k
    BY <2>1, <2>2, <2>4
  <2>6. /\ left[j] # 0 => left[j] \in y.used \cup S /\ left[j] # y.root
        /\ left[j] # 0 /\ left[j] = left[k] => j = k
    BY <2>1, <2>3, <2>4
  <2>7. left[j] # 0 => left[j] # r[k]
    BY <2>1, <2>2, <2>3, <2>4
  <2> QED
    BY <2>5, <2>6, <2>7
<1>12. /\ y.used \cup S \in SUBSET (1..Len(l))
       /\ y.root # 0 => y.root \in y.used \cup S
       /\ y.root \in 0..Len(l) /\ y.eof \in BOOLEAN /\ y.crashed \in BOOLEAN
  BY <1>2 DEF Forest
<1>13. PICK z : z = build_command_subtree(l, y, t, n)
  OBVIOUS
<1>14. /\ z = [left |-> left, right |-> r, used |-> y.used \cup S,
               root |-> y.root, eof |-> y.eof, crashed |-> y.crashed]
  BY <1>3, <1>8, <1>9, <1>13
<1>15. r \in [1..Len(l) -> 0..Len(l)]
  BY <1>7, <1>8
<1>16. z \in Forest(l)
  BY <1>10, <1>11, <1>12, <1>14, <1>15 DEF Forest
<1>17. y.used \subseteq z.used
  BY <1>14
<1>18. ASSUME n \in y.used, Descends(l, y)
       PROVE  Descends(l, z)
  <2>1. PICK h \in [1..Len(l) -> Nat] :
          \A k \in 1..Len(l) : /\ y.left[k] # 0 => h[y.left[k]] < h[k]
                               /\ y.right[k] # 0 => h[y.right[k]] < h[k]
    BY <1>18 DEF Descends
  <2>2. PICK g : g = [k \in 1..Len(l) |-> IF k \in S THEN Len(l) - k
                                          ELSE h[k] + Len(l) + 1]
    OBVIOUS
  <2>3. /\ g \in [1..Len(l) -> Nat]
        /\ \A k \in 1..Len(l) : g[k] = IF k \in S THEN Len(l) - k
                                        ELSE h[k] + Len(l) + 1
    <3>1. \A k \in 1..Len(l) : Len(l) - k \in Nat /\ h[k] + Len(l) + 1 \in Nat
      BY <1>1
    <3> QED
      BY <2>2, <3>1
  <2>4. \A k \in 1..Len(l) :
          /\ (y.left[k] # 0 \/ y.right[k] # 0) => k \in y.used
          /\ y.left[k] # 0 => y.left[k] \in y.used /\ y.left[k] \in 1..Len(l)
          /\ y.right[k] # 0 => y.right[k] \in y.used /\ y.right[k] \in 1..Len(l)
    BY <1>18 DEF Forest, Descends
  <2>5. ASSUME NEW k \in 1..Len(l), NEW m, m \in {z.left[k], z.right[k]}, m # 0
        PROVE  k \in z.used /\ g[m] < g[k]
    <3>1. \/ m \in {y.left[k], y.right[k]}
          \/ k = n /\ m \in S
          \/ k \in S /\ m \in S /\ k < m
      BY <1>4, <1>6, <1>8, <1>10, <1>14, <2>5
    <3>2. CASE m \in {y.left[k], y.right[k]}
      <4>1. k \in y.used /\ m \in y.used /\ m \in 1..Len(l) /\ h[m] < h[k]
        BY <2>1, <2>4, <2>5, <3>2
      <4>2. k \notin S /\ m \notin S
        BY <1>2, <4>1
      <4>3. /\ g[k] = h[k] + Len(l) + 1 /\ g[m] = h[m] + Len(l) + 1
            /\ h[k] \in Nat /\ h[m] \in Nat
        BY <2>3, <4>1, <4>2
      <4> QED
        BY <1>1, <1>17, <4>1, <4>3
    <3>3. CASE k = n /\ m \in S
      <4>1. k \in y.used /\ k \notin S /\ m \in 1..Len(l)
        BY <1>2, <1>18, <3>3
      <4>2. g[k] = h[k] + Len(l) + 1 /\ g[m] = Len(l) - m /\ h[k] \in Nat
        BY <2>3, <3>3, <4>1
      <4> QED
        BY <1>1, <1>17, <4>1, <4>2
    <3>4. CASE k \in S /\ m \in S /\ k < m
      <4>1. m \in 1..Len(l) /\ k \in z.used
        BY <1>2, <1>14, <3>4
      <4>2. g[k] = Len(l) - k /\ g[m] = Len(l) - m
        BY <2>3, <3>4, <4>1
      <4> QED
        BY <1>1, <3>4, <4>1, <4>2
    <3> QED
      BY <3>1, <3>2, <3>3, <3>4
  <2> QED
    BY <2>3, <2>5 DEF Descends
<1> QED
  BY <1>13, <1>16, <1>17, <1>18

\* A call of make_yggdrasil.
Calls(l) == [t : 0..Len(l), e : 0..Len(l), n : 1..Len(l), made : BOOLEAN]

LEMMA ChildrenKeep ==
  ASSUME NEW l \in Seq(Token), NEW y \in Forest(l), NEW c \in Calls(l)
  PROVE  /\ Children(l, y, c) \in Forest(l) /\ y.used \subseteq Children(l, y, c).used
         /\ c.n \in y.used /\ Descends(l, y) => Descends(l, Children(l, y, c))
<1>1. c.t \in 0..Len(l) /\ c.e \in 0..Len(l) /\ c.n \in 1..Len(l) /\ Len(l) \in Nat
  BY DEF Calls
<1>2. CASE c.t # 0 /\ l[c.t].coretype = "REDIR"
  <2>1. PICK y1 : y1 = build_command_subtree(l, y, c.t, c.n)
    OBVIOUS
  <2>2. c.t \in 1..Len(l)
    BY <1>1, <1>2
  <2>3. /\ y1 \in Forest(l) /\ y.used \subseteq y1.used
        /\ c.n \in y.used /\ Descends(l, y) => Descends(l, y1)
    BY <1>1, <2>1, <2>2, ChainKeeps
  <2>4. Children(l, y, c) = IF c.t < Len(l) /\ c.t + 1 \notin y1.used
                            THEN SetRight(y1, c.n, c.t + 1) ELSE y1
    BY <1>2, <2>1, Zenon DEF Children
  <2>5. CASE c.t < Len(l) /\ c.t + 1 \notin y1.used
    <3>1. c.t + 1 \in 0..Len(l)
      BY <1>1, <2>5
    <3>2. PICK z : z = SetRight(y1, c.n, c.t + 1)
      OBVIOUS
    <3>3. /\ z \in Forest(l) /\ y1.used \subseteq z.used
          /\ c.n \in y1.used /\ Descends(l, y1) => Descends(l, z)
      BY <1>1, <2>3, <3>1, <3>2, RightKeeps
    <3>4. Children(l, y, c) = z
      BY <2>4, <2>5, <3>2, Zenon
    <3> QED
      BY <2>3, <3>3, <3>4, Zenon
  <2>6. CASE ~ (c.t < Len(l) /\ c.t + 1 \notin y1.used)
    <3>1. Children(l, y, c) = y1
      BY <2>4, <2>6, Zenon
    <3> QED
      BY <2>3, <3>1, Zenon
  <2> QED
    BY <2>5, <2>6
<1>3. CASE ~ (c.t # 0 /\ l[c.t].coretype = "REDIR")
  <2>1. PICK p : p = find_left_token(l, y, c.t)
    OBVIOUS
  <2>2. p \in 0..Len(l)
    BY <1>1, <2>1, SidesAre
  <2>3. PICK y1 : y1 = SetLeft(y, c.n, p)
    OBVIOUS
  <2>4. /\ y1 \in Forest(l) /\ y.used \subseteq y1.used
        /\ c.n \in y.used /\ Descends(l, y) => Descends(l, y1)
    BY <1>1, <2>2, <2>3, LeftKeeps
  <2>5. PICK q : q = find_right_token(l, y1, c.t, c.e)
    OBVIOUS
  <2>6. q \in 0..Len(l)
    BY <1>1, <2>4, <2>5, SidesAre
  <2>7. PICK z : z = SetRight(y1, c.n, q)
    OBVIOUS
  <2>8. Children(l, y, c) = z
    BY <1>3, <2>1, <2>3, <2>5, <2>7, Zenon DEF Children
  <2>9. /\ z \in Forest(l) /\ y1.used \subseteq z.used
        /\ c.n \in y1.used /\ Descends(l, y1) => Descends(l, z)
    BY <1>1, <2>4, <2>6, <2>7, RightKeeps
  <2> QED
    BY <2>4, <2>8, <2>9, Zenon
<1> QED
  BY <1>2, <1>3

\* A call is about a node.
CallsOn(l, y) == {c \in Calls(l) : c.n \in y.used}

LEMMA CallsAre ==
  ASSUME NEW l \in Seq(Token), NEW y \in Forest(l), NEW c \in CallsOn(l, y)
  PROVE  /\ CallsLeft(l, y, c) \in Seq(CallsOn(l, y))
         /\ CallsRight(l, y, c) \in Seq(CallsOn(l, y))
         /\ [c EXCEPT !.made = TRUE] \in CallsOn(l, y)
<1>1. c.t \in 0..Len(l) /\ c.e \in 0..Len(l) /\ c.n \in 1..Len(l) /\ Len(l) \in Nat
  BY DEF CallsOn, Calls
<1>2. /\ y.left[c.n] \in 0..Len(l) /\ y.right[c.n] \in 0..Len(l)
      /\ y.left[c.n] # 0 => y.left[c.n] \in y.used
      /\ y.right[c.n] # 0 => y.right[c.n] \in y.used
  BY <1>1 DEF Forest
<1>3. PICK a, b : a = y.left[c.n] /\ b = y.right[c.n]
  OBVIOUS
<1>4. PICK p, q : p = find_left_token(l, y, c.t) /\ q = find_right_token(l, y, c.t, c.e)
  OBVIOUS
<1>5. p \in 0..Len(l) /\ q \in 0..Len(l)
  BY <1>1, <1>4, SidesAre
<1>6. PICK u, v : u = Call(p, c.t, a) /\ v = Call(q, c.e, b)
  OBVIOUS
<1>7. (a # 0 => u \in CallsOn(l, y)) /\ (b # 0 => v \in CallsOn(l, y))
  BY <1>1, <1>2, <1>3, <1>5, <1>6 DEF Call, Calls, CallsOn
<1>8. CallsLeft(l, y, c) = <<>> \/ (a # 0 /\ CallsLeft(l, y, c) = <<u>>)
  BY <1>3, <1>4, <1>6, Zenon DEF CallsLeft
<1>9. CallsRight(l, y, c) = <<>> \/ (b # 0 /\ CallsRight(l, y, c) = <<v>>)
  BY <1>3, <1>4, <1>6, Zenon DEF CallsRight
<1>10. [c EXCEPT !.made = TRUE] \in CallsOn(l, y)
  BY DEF Calls, CallsOn
<1>11. CallsLeft(l, y, c) \in Seq(CallsOn(l, y))
  <2>1. CASE CallsLeft(l, y, c) = <<>>
    BY <2>1
  <2>2. ASSUME u \in CallsOn(l, y)
        PROVE  <<u>> \in Seq(CallsOn(l, y))
    BY <2>2
  <2> QED
    BY <1>7, <1>8, <2>1, <2>2, Zenon
<1>12. CallsRight(l, y, c) \in Seq(CallsOn(l, y))
  <2>1. CASE CallsRight(l, y, c) = <<>>
    BY <2>1
  <2>2. ASSUME v \in CallsOn(l, y)
        PROVE  <<v>> \in Seq(CallsOn(l, y))
    BY <2>2
  <2> QED
    BY <1>7, <1>9, <2>1, <2>2, Zenon
<1> QED
  BY <1>10, <1>11, <1>12

\* Before make_yggdrasil is called the tree is its root, and there is no root
\* only when there are no tokens.
LEMMA NoTreeIs ==
  ASSUME NEW l \in Seq(Token)
  PROVE  /\ NoTree(l) \in Forest(l)
         /\ NoTree(l).root = 0 /\ ~ NoTree(l).eof /\ ~ NoTree(l).crashed
<1>1. DOMAIN l = 1..Len(l) /\ Len(l) \in Nat
  OBVIOUS
<1> QED
  BY <1>1 DEF NoTree, Forest

LEMMA RootKeeps ==
  ASSUME NEW l \in Seq(Token), NEW r \in 1..Len(l), NEW eof \in BOOLEAN
  PROVE  /\ [NoTree(l) EXCEPT !.eof = eof, !.root = r, !.used = {r}] \in Forest(l)
         /\ Descends(l, [NoTree(l) EXCEPT !.eof = eof, !.root = r, !.used = {r}])
<1>1. DOMAIN l = 1..Len(l) /\ Len(l) \in Nat
  OBVIOUS
<1>2. PICK none : none = [k \in 1..Len(l) |-> 0]
  OBVIOUS
<1>3. PICK y : y = NoTree(l)
  OBVIOUS
<1>4. y = [left |-> none, right |-> none, used |-> {}, root |-> 0,
                   eof |-> FALSE, crashed |-> FALSE]
  BY <1>1, <1>2, <1>3 DEF NoTree
<1>5. PICK z : z = [y EXCEPT !.eof = eof, !.root = r, !.used = {r}]
  OBVIOUS
<1>6. z = [left |-> none, right |-> none, used |-> {r}, root |-> r, eof |-> eof,
           crashed |-> FALSE]
  BY <1>4, <1>5
<1>7. none \in [1..Len(l) -> 0..Len(l)] /\ \A k \in 1..Len(l) : none[k] = 0
  BY <1>1, <1>2
<1>8. z \in Forest(l)
  BY <1>6, <1>7 DEF Forest
<1>9. none \in [1..Len(l) -> Nat]
  BY <1>2
<1>10. \A k \in 1..Len(l) : z.left[k] = 0 /\ z.right[k] = 0
  BY <1>6, <1>7
<1>11. Descends(l, z)
  BY <1>9, <1>10 DEF Descends
<1> QED
  BY <1>3, <1>5, <1>8, <1>11

LEMMA InitIs ==
  ASSUME NEW l \in Seq(Token)
  PROVE  /\ init_yggdrasil(l) \in Forest(l)
         /\ init_yggdrasil(l).crashed => l = <<>>
         /\ ~ init_yggdrasil(l).crashed => Descends(l, init_yggdrasil(l))
         /\ ~ init_yggdrasil(l).crashed /\ ~ init_yggdrasil(l).eof
              => init_yggdrasil(l).root \in 1..Len(l)
<1>1. Root(l) \in 0..Len(l) /\ (Root(l) = 0 => l = <<>>) /\ Len(l) \in Nat
  BY RootIs
<1>2. PICK r, y, z : r = Root(l) /\ y = NoTree(l) /\ z = init_yggdrasil(l)
  OBVIOUS
<1>3. /\ y \in Forest(l) /\ y.root = 0 /\ ~ y.eof /\ ~ y.crashed
  BY <1>2, NoTreeIs
<1>4. y = [left |-> y.left, right |-> y.right, used |-> y.used, root |-> y.root,
           eof |-> y.eof, crashed |-> y.crashed]
  BY <1>3, ForestRecord
<1>5. CASE r = 0
  <2>1. z = [y EXCEPT !.crashed = TRUE]
    BY <1>2, <1>5 DEF init_yggdrasil
  <2>2. z = [left |-> y.left, right |-> y.right, used |-> y.used,
             root |-> y.root, eof |-> y.eof, crashed |-> TRUE]
    BY <1>4, <2>1
  <2>3. z \in Forest(l)
    BY <1>3, <2>2 DEF Forest
  <2> QED
    BY <1>1, <1>2, <1>5, <2>2, <2>3
<1>6. CASE r # 0 /\ SyntaxError(l, r)
  <2>1. z = [y EXCEPT !.eof = TRUE, !.root = 1, !.used = {1}]
    BY <1>2, <1>6 DEF init_yggdrasil
  <2>2. 1 \in 1..Len(l)
    BY <1>1, <1>2, <1>6
  <2>3. z \in Forest(l) /\ Descends(l, z)
    BY <1>2, <2>1, <2>2, RootKeeps
  <2>4. ~ z.crashed /\ z.eof
    BY <1>3, <1>4, <2>1
  <2> QED
    BY <1>2, <2>3, <2>4
<1>7. CASE r # 0 /\ ~ SyntaxError(l, r)
  <2>1. z = [y EXCEPT !.root = r, !.used = {r}]
    BY <1>2, <1>7 DEF init_yggdrasil
  <2>2. r \in 1..Len(l)
    BY <1>1, <1>2, <1>7
  <2>3. PICK w : w = [y EXCEPT !.eof = FALSE, !.root = r, !.used = {r}]
    OBVIOUS
  <2>4. w \in Forest(l) /\ Descends(l, w)
    BY <1>2, <2>2, <2>3, RootKeeps
  <2>5. z = [left |-> y.left, right |-> y.right, used |-> {r}, root |-> r,
             eof |-> y.eof, crashed |-> y.crashed]
    BY <1>4, <2>1
  <2>6. w = [left |-> y.left, right |-> y.right, used |-> {r}, root |-> r,
             eof |-> FALSE, crashed |-> y.crashed]
    BY <1>4, <2>3
  <2>7. y.eof = FALSE
    BY <1>3 DEF Forest
  <2>8. z = w /\ ~ z.crashed /\ z.root = r
    BY <1>3, <2>5, <2>6, <2>7
  <2> QED
    BY <1>2, <2>2, <2>4, <2>8
<1> QED
  BY <1>5, <1>6, <1>7

-----------------------------------------------------------------------------
(* The inductive invariant: what each pass hands to the next one. *)

\* What does not depend on the pass.
Sound ==
  /\ EnvOK(env) /\ session \in Session /\ bin \subseteq Program(session)
  /\ pc \in {"prompt", "quotes", "types", "errors", "expand", "again",
             "build", "execute", "crashed"}
  /\ line \in Seq(Symbol) /\ i \in 1..(Len(line) + 2) /\ g_exit_code \in {0, 1, 2}
  /\ always \subseteq some /\ some \subseteq Program(session)

\* The list of each pass.  Only a line of spaces has none.
Passed ==
  /\ list \in Seq(Token) /\ Len(list) <= Len(line) + 1
  /\ pc # "prompt" /\ list = <<>> => Range(line) = {Space}
  /\ pc = "quotes" => i = 1 /\ list \in Seq(Cut(line)) /\ Chained(list)
  /\ pc = "types" =>
       /\ Chained(list) /\ i <= Len(list) + 1
       /\ \A k \in 1..Len(list) :
            list[k] \in IF k < i THEN Marked(line) ELSE Unquoted(line)
  /\ pc \in {"errors", "expand", "again", "build", "execute"} =>
       list \in Seq(Marked(line))

\* What was looked up again is right for some time since then.
FreshIn(t, sometime, alltime) ==
  /\ t.type = "CMD" => t.value \in Builtin \cup sometime
  /\ t.type = "WORD" => t.value \notin Builtin \cup alltime

LookedUp ==
  /\ pc = "again" =>
       /\ always \subseteq search_list(env) /\ search_list(env) \subseteq some
       /\ i <= Len(list) + 1
       /\ \A k \in 1..Len(list) : k < i => FreshIn(list[k], some, always)
  /\ pc \in {"build", "execute"} =>
       \A k \in 1..Len(list) : FreshIn(list[k], some, always)

\* The tree and the calls that are to fill it.
Built ==
  /\ tree = NoTree(<<>>) \/ tree \in Forest(list)
  /\ pc \in {"quotes", "types", "errors", "expand", "again"} => tree = NoTree(<<>>)
  /\ pc \in {"build", "execute"} => tree \in Forest(list) /\ Descends(list, tree)
  /\ pc = "crashed" => list = <<>>
  /\ calls \in Seq(CallsOn(list, tree)) /\ (pc # "build" => calls = <<>>)

IInv == Sound /\ Passed /\ LookedUp /\ Built

LEMMA SoundKept ==
  ASSUME IInv, [Next]_vars
  PROVE  Sound'
<1>1. Sound /\ Passed /\ Built
  BY DEF IInv
<1>2. Len(list) \in Nat /\ Len(line) \in Nat /\ Len(list) <= Len(line) + 1
  BY <1>1 DEF Sound, Passed
<1>3. search_list(env) \subseteq bin
  BY DEF search_list
<1>4. CASE SplitInput
  <2>1. line' \in Seq(Symbol)
    BY <1>1, <1>4, LineAssumption DEF SplitInput, Sound
  <2>2. Len(line') \in Nat
    BY <2>1
  <2>3. 1 \in 1..(Len(line') + 2)
    BY <2>2
  <2> QED
    BY <1>1, <1>4, <2>1, <2>3 DEF SplitInput, Sound
<1>5. CASE QuoteHandler
  BY <1>1, <1>5 DEF QuoteHandler, Sound, built, past
<1>6. CASE Typealize \/ LookAgain
  <2>1. i + 1 \in 1..(Len(line) + 2)
    BY <1>1, <1>2, <1>6 DEF Typealize, LookAgain, Sound
  <2> QED
    BY <1>1, <1>6, <2>1 DEF Typealize, LookAgain, Sound, built, past
<1>7. CASE Merge
  BY <1>1, <1>7 DEF Merge, Sound, built, past
<1>8. CASE ParseError
  BY <1>1, <1>8 DEF ParseError, Sound, built, past
<1>9. CASE Assign
  <2>1. EnvOK(AssignedEnv(list, Assignments(list), env))
    BY <1>1, AssignmentsBound, AssignedEnvOK DEF Sound, Passed
  <2> QED
    BY <1>1, <1>9, <2>1 DEF Assign, Sound, built, past
<1>10. CASE ExpandAndAttach
  <2>1. 1 \in 1..(Len(line) + 2)
    BY <1>2
  <2>2. search_list(env) \subseteq Program(session)
    BY <1>1, <1>3 DEF Sound
  <2> QED
    BY <1>1, <1>10, <2>1, <2>2 DEF ExpandAndAttach, Sound, built, past
<1>11. CASE InitYggdrasil
  BY <1>1, <1>11 DEF InitYggdrasil, Sound, past
<1>12. CASE MakeChildren
  BY <1>1, <1>12 DEF MakeChildren, Sound, past
<1>13. CASE GoRight
  BY <1>1, <1>13 DEF GoRight, Sound, past
<1>14. CASE TreeMade
  BY <1>1, <1>14 DEF TreeMade, Sound, built, past
<1>15. CASE Execute
  BY <1>1, <1>15 DEF Execute, Sound, built, past
<1>16. CASE Change
  <2>1. bin' \subseteq Program(session)
    BY <1>1, <1>16 DEF Change, Sound
  <2>2. PICK now : /\ now \subseteq bin' /\ some' = some \cup now
                   /\ always' = always \cap now
    BY <1>16 DEF Change
  <2> QED
    BY <1>1, <1>16, <2>1, <2>2 DEF Change, Sound, built, past
<1>17. CASE UNCHANGED vars
  BY <1>1, <1>17 DEF Sound, vars
<1> QED
  BY <1>4, <1>5, <1>6, <1>7, <1>8, <1>9, <1>10, <1>11, <1>12, <1>13, <1>14,
     <1>15, <1>16, <1>17 DEF Next

\* A list of tokens that some pass has made.
LEMMA SomeTokens ==
  ASSUME NEW ln
  PROVE  Cut(ln) \subseteq Token /\ Unquoted(ln) \subseteq Token /\ Marked(ln) \subseteq Token
BY DEF Cut, Unquoted, Marked

\* typealize takes one token after the other.
LEMMA TypealizeKeeps ==
  ASSUME Sound, Passed, Typealize
  PROVE  Passed'
<1>1. /\ pc = "types" /\ pc' = "types" /\ line' = line /\ i' = i + 1 /\ i \in 1..Len(list)
      /\ list' = [list EXCEPT ![i] = typealize(@, search_list(env))]
  BY DEF Typealize, past, Sound
<1>2. /\ list \in Seq(Token) /\ Len(list) <= Len(line) + 1 /\ Chained(list)
      /\ \A k \in 1..Len(list) :
           list[k] \in IF k < i THEN Marked(line) ELSE Unquoted(line)
  BY <1>1 DEF Passed
<1>3. PICK found : found = search_list(env)
  OBVIOUS
<1>4. PICK t : t = list[i]
  OBVIOUS
<1>5. PICK u : u = typealize(t, found)
  OBVIOUS
<1>6. t \in Unquoted(line)
  BY <1>1, <1>2, <1>4
<1>7. u \in Marked(line) /\ u.value = t.value /\ u.merge_next = t.merge_next
  BY <1>5, <1>6, TypeStep
<1>8. u \in Token
  BY <1>7, SomeTokens
<1>9. list' = [list EXCEPT ![i] = u]
  BY <1>1, <1>3, <1>4, <1>5
<1>10. /\ list' \in Seq(Token) /\ Len(list') = Len(list)
       /\ \A k \in 1..Len(list) : list'[k] = IF k = i THEN u ELSE list[k]
  BY <1>1, <1>2, <1>8, <1>9, ExceptSeq
<1>11. Chained(list')
  BY <1>2, <1>4, <1>7, <1>10 DEF Chained
<1>12. \A k \in 1..Len(list') :
         list'[k] \in IF k < i' THEN Marked(line') ELSE Unquoted(line')
  BY <1>1, <1>2, <1>7, <1>10
<1>13. list' # <<>>
  BY <1>1, <1>10
<1> QED
  BY <1>1, <1>2, <1>10, <1>11, <1>12, <1>13 DEF Passed

\* parser_cmd_no_found, too.
LEMMA LookAgainKeeps ==
  ASSUME Sound, Passed, LookAgain
  PROVE  Passed' /\ Len(list') = Len(list)
<1>1. /\ pc = "again" /\ pc' = "again" /\ line' = line /\ i \in 1..Len(list)
      /\ list' = [list EXCEPT ![i] = parser_cmd_no_found(@, search_list(env))]
  BY DEF LookAgain, past, Sound
<1>2. /\ list \in Seq(Token) /\ Len(list) <= Len(line) + 1 /\ list \in Seq(Marked(line))
  BY <1>1 DEF Passed
<1>3. PICK u : u = parser_cmd_no_found(list[i], search_list(env))
  OBVIOUS
<1>4. u \in Marked(line)
  BY <1>1, <1>2, <1>3, LookStep
<1>5. list' = [list EXCEPT ![i] = u]
  BY <1>1, <1>3
<1>6. /\ list' \in Seq(Marked(line)) /\ Len(list') = Len(list)
  BY <1>1, <1>2, <1>4, <1>5, ExceptSeq
<1>7. list' \in Seq(Token)
  BY <1>6, SeqMonotonic, SomeTokens
<1>8. list' # <<>>
  BY <1>1, <1>6
<1> QED
  BY <1>1, <1>2, <1>6, <1>7, <1>8 DEF Passed

LEMMA PassedKept ==
  ASSUME IInv, [Next]_vars
  PROVE  Passed'
<1>1. Sound /\ Passed /\ Built /\ EnvOK(env) /\ line \in Seq(Symbol)
  BY DEF IInv, Sound
<1>2. /\ list \in Seq(Token) /\ Len(list) <= Len(line) + 1
      /\ Len(list) \in Nat /\ Len(line) \in Nat
  BY <1>1 DEF Passed
<1>3. CASE SplitInput
  <2>1. PICK l \in Line(session) : line' = l /\ list' = split_input(l)
    BY <1>3 DEF SplitInput
  <2>2. l \in Seq(Symbol) /\ l # <<>>
    BY <1>1, <2>1, LineAssumption DEF Sound
  <2>3. PICK s : s = split_input(l)
    OBVIOUS
  <2>4. /\ s \in Seq(Cut(l)) /\ Chained(s) /\ Len(s) <= Len(l) + 1
        /\ s = <<>> => Range(l) = {Space}
    BY <2>2, <2>3, SplitKeeps
  <2>5. s \in Seq(Token)
    BY <2>4, SeqMonotonic, SomeTokens
  <2>6. list' = s /\ line' = l /\ pc' = "quotes" /\ i' = 1
    BY <1>3, <2>1, <2>3 DEF SplitInput
  <2> QED
    BY <2>4, <2>5, <2>6 DEF Passed
<1>4. CASE QuoteHandler
  <2>1. /\ pc = "quotes" /\ pc' = "types" /\ line' = line /\ i' = 1
        /\ list \in Seq(Cut(line)) /\ Chained(list)
        /\ list = <<>> => Range(line) = {Space}
    BY <1>1, <1>4 DEF QuoteHandler, past, Passed
  <2>2. PICK s : s = quote_handler_call_loop(list, env)
    OBVIOUS
  <2>3. s \in Seq(Unquoted(line)) /\ Chained(s) /\ Len(s) = Len(list)
    BY <1>1, <2>1, <2>2, QuoteKeeps
  <2>4. s \in Seq(Token)
    BY <2>3, SeqMonotonic, SomeTokens
  <2>5. list' = s
    BY <1>4, <2>2 DEF QuoteHandler
  <2>6. s = <<>> => list = <<>>
    BY <1>2, <2>3, EmptySeq
  <2>7. \A k \in 1..Len(s) : s[k] \in Unquoted(line) /\ ~ (k < 1)
    BY <2>3
  <2> QED
    BY <1>2, <2>1, <2>3, <2>4, <2>5, <2>6, <2>7 DEF Passed
<1>5. CASE Typealize
  BY <1>1, <1>5, TypealizeKeeps
<1>6. CASE Merge
  <2>1. /\ pc = "types" /\ pc' = "errors" /\ line' = line /\ i > Len(list)
        /\ list' = merg_tok_excep_cll_revloop(list) /\ Chained(list)
        /\ i \in Nat
        /\ \A k \in 1..Len(list) :
             list[k] \in IF k < i THEN Marked(line) ELSE Unquoted(line)
        /\ list = <<>> => Range(line) = {Space}
    BY <1>1, <1>6 DEF Merge, past, Passed, Sound
  <2>2. \A k \in 1..Len(list) : list[k] \in Marked(line)
    BY <1>2, <2>1
  <2>3. list \in Seq(Marked(line))
    BY <1>2, <2>2
  <2>4. PICK s : s = merg_tok_excep_cll_revloop(list)
    OBVIOUS
  <2>5. /\ s \in Seq(Marked(line)) /\ Len(s) <= Len(list)
        /\ list # <<>> => s # <<>>
    BY <2>1, <2>3, <2>4, MarkedClosed, MergeKeeps
  <2>6. s \in Seq(Token) /\ Len(s) \in Nat
    BY <2>5, SeqMonotonic, SomeTokens
  <2>7. Len(s) <= Len(line) + 1
    BY <1>2, <2>5, <2>6
  <2> QED
    BY <2>1, <2>4, <2>5, <2>6, <2>7 DEF Passed
<1>7. CASE ParseError
  BY <1>1, <1>7 DEF ParseError, Passed, past, built
<1>8. CASE Assign
  <2>1. /\ pc = "errors" /\ pc' = "expand" /\ line' = line
        /\ list' = MarkedAssignments(list) /\ list \in Seq(Marked(line))
        /\ list = <<>> => Range(line) = {Space}
    BY <1>1, <1>8 DEF Assign, past, Passed
  <2>2. PICK s : s = MarkedAssignments(list)
    OBVIOUS
  <2>3. s \in Seq(Marked(line)) /\ Len(s) = Len(list)
    BY <2>1, <2>2, MarkKeeps
  <2>4. s \in Seq(Token)
    BY <2>3, SeqMonotonic, SomeTokens
  <2>5. s = <<>> => list = <<>>
    BY <1>2, <2>3, EmptySeq
  <2> QED
    BY <1>2, <2>1, <2>2, <2>3, <2>4, <2>5 DEF Passed
<1>9. CASE ExpandAndAttach
  <2>1. /\ pc = "expand" /\ pc' = "again" /\ line' = line
        /\ list' = handler_args_file(expand_token_list_no_assignments(list, env))
        /\ list \in Seq(Marked(line))
        /\ list = <<>> => Range(line) = {Space}
    BY <1>1, <1>9 DEF ExpandAndAttach, past, Passed
  <2>2. PICK x : x = expand_token_list_no_assignments(list, env)
    OBVIOUS
  <2>3. x \in Seq(Marked(line)) /\ Len(x) = Len(list)
    BY <1>1, <2>1, <2>2, ExpandKeeps
  <2>4. PICK s : s = handler_args_file(x)
    OBVIOUS
  <2>5. /\ s \in Seq(Marked(line)) /\ Len(s) <= Len(x)
        /\ x # <<>> => s # <<>>
    BY <2>3, <2>4, MarkedClosed, AttachKeeps
  <2>6. s \in Seq(Token) /\ Len(s) \in Nat
    BY <2>5, SeqMonotonic, SomeTokens
  <2>7. Len(s) <= Len(line) + 1
    BY <1>2, <2>3, <2>5, <2>6
  <2>8. s = <<>> => list = <<>>
    BY <1>2, <2>3, <2>5, EmptySeq
  <2>9. list' = s
    BY <2>1, <2>2, <2>4
  <2> QED
    BY <2>1, <2>5, <2>6, <2>7, <2>8, <2>9 DEF Passed
<1>10. CASE LookAgain
  BY <1>1, <1>10, LookAgainKeeps
<1>11. CASE InitYggdrasil
  BY <1>1, <1>11 DEF InitYggdrasil, Passed, past
<1>12. CASE MakeChildren \/ GoRight
  BY <1>1, <1>12 DEF MakeChildren, GoRight, Passed, past
<1>13. CASE TreeMade \/ Execute
  BY <1>1, <1>13 DEF TreeMade, Execute, Passed, past
<1>14. CASE Change
  BY <1>1, <1>14 DEF Change, Passed, past
<1>15. CASE UNCHANGED vars
  BY <1>1, <1>15 DEF Passed, vars
<1> QED
  BY <1>3, <1>4, <1>5, <1>6, <1>7, <1>8, <1>9, <1>10, <1>11, <1>12, <1>13,
     <1>14, <1>15 DEF Next

LEMMA LookedUpKept ==
  ASSUME IInv, [Next]_vars
  PROVE  LookedUp'
<1>1. Sound /\ Passed /\ LookedUp /\ Passed' /\ EnvOK(env) /\ line \in Seq(Symbol)
  BY PassedKept DEF IInv, Sound
<1>2. list \in Seq(Token) /\ Len(list) \in Nat /\ i \in Nat
  BY <1>1 DEF Passed, Sound
<1>3. CASE SplitInput \/ QuoteHandler \/ Typealize \/ Merge \/ ParseError \/ Assign
            \/ Execute
  <2>1. pc' \notin {"again", "build", "execute"}
    BY <1>3 DEF SplitInput, QuoteHandler, Typealize, Merge, ParseError, Assign,
                Execute
  <2> QED
    BY <2>1 DEF LookedUp
<1>4. CASE ExpandAndAttach
  <2>1. /\ pc' = "again" /\ i' = 1 /\ env' = env /\ bin' = bin
        /\ some' = search_list(env) /\ always' = search_list(env)
    BY <1>4 DEF ExpandAndAttach
  <2>2. search_list(env)' = search_list(env)
    BY <2>1 DEF search_list
  <2>3. Len(list') \in Nat
    BY <1>1 DEF Passed
  <2>4. i' <= Len(list') + 1 /\ \A k \in 1..Len(list') : ~ (k < i')
    BY <2>1, <2>3
  <2> QED
    BY <2>1, <2>2, <2>4 DEF LookedUp
<1>5. CASE LookAgain
  <2>1. /\ pc = "again" /\ pc' = "again" /\ i \in 1..Len(list) /\ i' = i + 1
        /\ list' = [list EXCEPT ![i] = parser_cmd_no_found(@, search_list(env))]
        /\ env' = env /\ bin' = bin /\ some' = some /\ always' = always
    BY <1>1, <1>5 DEF LookAgain, Sound
  <2>2. /\ always \subseteq search_list(env) /\ search_list(env) \subseteq some
        /\ \A k \in 1..Len(list) : k < i => FreshIn(list[k], some, always)
    BY <1>1, <2>1 DEF LookedUp
  <2>3. search_list(env)' = search_list(env)
    BY <2>1 DEF search_list
  <2>4. PICK found : found = search_list(env)
    OBVIOUS
  <2>5. PICK t : t = list[i]
    OBVIOUS
  <2>6. PICK u : u = parser_cmd_no_found(t, found)
    OBVIOUS
  <2>7. t \in Marked(line)
    BY <1>1, <2>1, <2>5 DEF Passed
  <2>8. /\ u.type = "CMD" => u.value \in Builtin \cup found
        /\ u.type = "WORD" => u.value \notin Builtin \cup found
    BY <2>6, <2>7, LookStep
  <2>9. FreshIn(u, some, always)
    BY <2>2, <2>4, <2>8 DEF FreshIn
  <2>10. Len(list') = Len(list) /\ \A k \in 1..Len(list) :
           list'[k] = IF k = i THEN u ELSE list[k]
    BY <1>2, <2>1, <2>4, <2>5, <2>6
  <2>11. ASSUME NEW k \in 1..Len(list'), k < i'
         PROVE  FreshIn(list'[k], some', always')
    <3>1. k \in 1..Len(list) /\ (k = i \/ k < i)
      BY <1>2, <2>1, <2>10, <2>11
    <3>2. CASE k = i
      BY <2>1, <2>9, <2>10, <3>1, <3>2
    <3>3. CASE k < i
      <4>1. list'[k] = list[k]
        BY <1>2, <2>10, <3>1, <3>3
      <4> QED
        BY <2>1, <2>2, <3>1, <3>3, <4>1
    <3> QED
      BY <3>1, <3>2, <3>3
  <2>12. i' <= Len(list') + 1
    BY <1>2, <2>1, <2>10
  <2> QED
    BY <2>1, <2>2, <2>3, <2>11, <2>12 DEF LookedUp
<1>6. CASE InitYggdrasil
  <2>1. /\ pc = "again" /\ pc' \in {"crashed", "execute", "build"} /\ i > Len(list)
        /\ list' = list /\ some' = some /\ always' = always
    BY <1>6 DEF InitYggdrasil
  <2>2. \A k \in 1..Len(list) : k < i => FreshIn(list[k], some, always)
    BY <1>1, <2>1 DEF LookedUp
  <2>3. \A k \in 1..Len(list) : FreshIn(list[k], some, always)
    BY <1>2, <2>1, <2>2
  <2>4. pc' # "again"
    BY <2>1
  <2> QED
    BY <2>1, <2>3, <2>4 DEF LookedUp
<1>7. CASE MakeChildren \/ GoRight \/ TreeMade
  <2>1. /\ pc = "build" /\ pc' \in {"build", "execute"} /\ list' = list
        /\ some' = some /\ always' = always
    BY <1>7 DEF MakeChildren, GoRight, TreeMade
  <2>2. \A k \in 1..Len(list) : FreshIn(list[k], some, always)
    BY <1>1, <2>1 DEF LookedUp
  <2>3. pc' # "again"
    BY <2>1
  <2> QED
    BY <2>1, <2>2, <2>3 DEF LookedUp
<1>8. CASE Change
  <2>1. /\ pc' = pc /\ i' = i /\ list' = list /\ env' = env
        /\ some' = some \cup search_list(env)'
        /\ always' = always \cap search_list(env)'
    BY <1>8 DEF Change, search_list
  <2>2. ASSUME NEW k \in 1..Len(list), FreshIn(list[k], some, always)
        PROVE  FreshIn(list[k], some', always')
    BY <2>1, <2>2 DEF FreshIn
  <2> QED
    BY <1>1, <2>1, <2>2 DEF LookedUp
<1>9. CASE UNCHANGED vars
  BY <1>1, <1>9 DEF LookedUp, search_list, vars
<1> QED
  BY <1>3, <1>4, <1>5, <1>6, <1>7, <1>8, <1>9 DEF Next

LEMMA BuiltKept ==
  ASSUME IInv, [Next]_vars
  PROVE  Built'
<1>1. Sound /\ Passed /\ Built /\ Passed'
  BY PassedKept DEF IInv
<1>2. list \in Seq(Token) /\ Len(list) \in Nat /\ list' \in Seq(Token)
  BY <1>1 DEF Passed
<1>3. \A S : <<>> \in Seq(S)
  OBVIOUS
<1>4. CASE SplitInput \/ QuoteHandler \/ Typealize \/ Merge \/ Assign
            \/ ExpandAndAttach \/ LookAgain
  <2>1. /\ pc' \in {"quotes", "types", "errors", "expand", "again"} /\ calls' = calls
        /\ pc \in {"prompt", "quotes", "types", "errors", "expand", "again"}
        /\ tree' = NoTree(<<>>) \/ (pc # "prompt" /\ tree' = tree)
    BY <1>4 DEF SplitInput, QuoteHandler, Typealize, Merge, Assign,
                ExpandAndAttach, LookAgain, built
  <2>2. tree' = NoTree(<<>>) /\ calls = <<>>
    BY <1>1, <2>1 DEF Built
  <2>3. calls' \in Seq(CallsOn(list', tree'))
    BY <1>3, <2>1, <2>2
  <2> QED
    BY <2>1, <2>2, <2>3 DEF Built
<1>5. CASE InitYggdrasil
  <2>1. /\ tree' = init_yggdrasil(list) /\ list' = list
        /\ pc' = IF tree'.crashed THEN "crashed"
                 ELSE IF tree'.eof THEN "execute" ELSE "build"
        /\ calls' = IF pc' = "build" THEN <<Call(tree'.root, 0, tree'.root)>>
                    ELSE <<>>
    BY <1>5 DEF InitYggdrasil
  <2>2. PICK y : y = init_yggdrasil(list)
    OBVIOUS
  <2>3. /\ y \in Forest(list) /\ (y.crashed => list = <<>>)
        /\ ~ y.crashed => Descends(list, y)
        /\ ~ y.crashed /\ ~ y.eof => y.root \in 1..Len(list)
    BY <1>2, <2>2, InitIs
  <2>4. pc' = "build" => y.root \in 1..Len(list) /\ y.root \in y.used
    <3>1. y.root # 0 => y.root \in y.used
      BY <2>3 DEF Forest
    <3> QED
      BY <1>2, <2>1, <2>2, <2>3, <3>1
  <2>5. PICK r : r = y.root
    OBVIOUS
  <2>6. pc' = "build" => Call(r, 0, r) \in CallsOn(list, y)
    BY <1>2, <2>4, <2>5 DEF Call, Calls, CallsOn
  <2>7. PICK c : c = Call(r, 0, r)
    OBVIOUS
  <2>8. pc' = "build" => <<c>> \in Seq(CallsOn(list, y))
    BY <2>6, <2>7
  <2>9. calls' \in Seq(CallsOn(list, y))
    BY <1>3, <2>1, <2>2, <2>5, <2>7, <2>8, Zenon
  <2>10. pc' \in {"crashed", "execute", "build"} /\ (pc' = "crashed" <=> y.crashed)
    BY <2>1, <2>2
  <2>11. pc' # "build" => calls' = <<>>
    BY <2>1
  <2> QED
    BY <2>1, <2>2, <2>3, <2>9, <2>10, <2>11 DEF Built
<1>6. CASE MakeChildren
  <2>1. PICK c : c = Head(calls)
    OBVIOUS
  <2>2. /\ pc = "build" /\ pc' = "build" /\ calls # <<>> /\ list' = list
        /\ tree' = Children(list, tree, c)
        /\ calls' = CallsLeft(list, tree', c) \o <<[c EXCEPT !.made = TRUE]>>
                      \o Tail(calls)
    BY <1>6, <2>1 DEF MakeChildren
  <2>3. tree \in Forest(list) /\ Descends(list, tree) /\ calls \in Seq(CallsOn(list, tree))
    BY <1>1, <2>2 DEF Built
  <2>4. c \in CallsOn(list, tree) /\ Tail(calls) \in Seq(CallsOn(list, tree))
    BY <2>1, <2>2, <2>3
  <2>5. PICK y : y = Children(list, tree, c)
    OBVIOUS
  <2>6. y \in Forest(list) /\ Descends(list, y) /\ tree.used \subseteq y.used
    <3>1. c \in Calls(list) /\ c.n \in tree.used
      BY <2>4 DEF CallsOn
    <3> QED
      BY <1>2, <2>3, <2>5, <3>1, ChildrenKeep
  <2>7. PICK s, d, rest : /\ s = CallsLeft(list, y, c)
                          /\ d = [c EXCEPT !.made = TRUE] /\ rest = Tail(calls)
    OBVIOUS
  <2>8. CallsOn(list, tree) \subseteq CallsOn(list, y)
    BY <2>6 DEF CallsOn
  <2>9. /\ s \in Seq(CallsOn(list, y)) /\ <<d>> \in Seq(CallsOn(list, y))
        /\ rest \in Seq(CallsOn(list, y))
    <3>1. c \in CallsOn(list, y)
      BY <2>4, <2>8
    <3>2. s \in Seq(CallsOn(list, y)) /\ d \in CallsOn(list, y)
      BY <1>2, <2>6, <2>7, <3>1, CallsAre
    <3>3. <<d>> \in Seq(CallsOn(list, y))
      BY <3>2
    <3>4. rest \in Seq(CallsOn(list, y))
      BY <2>4, <2>7, <2>8, SeqMonotonic
    <3> QED
      BY <3>2, <3>3, <3>4
  <2>10. s \o <<d>> \o rest \in Seq(CallsOn(list, y))
    BY <2>9, ConcatProperties
  <2>11. calls' = s \o <<d>> \o rest /\ tree' = y
    BY <2>2, <2>5, <2>7
  <2> QED
    BY <2>2, <2>6, <2>10, <2>11 DEF Built
<1>7. CASE GoRight
  <2>1. PICK c : c = Head(calls)
    OBVIOUS
  <2>2. /\ pc = "build" /\ pc' = "build" /\ calls # <<>> /\ list' = list
        /\ tree' = tree /\ calls' = CallsRight(list, tree, c) \o Tail(calls)
    BY <1>7, <2>1 DEF GoRight
  <2>3. tree \in Forest(list) /\ Descends(list, tree) /\ calls \in Seq(CallsOn(list, tree))
    BY <1>1, <2>2 DEF Built
  <2>4. c \in CallsOn(list, tree) /\ Tail(calls) \in Seq(CallsOn(list, tree))
    BY <2>1, <2>2, <2>3
  <2>5. PICK s, rest : s = CallsRight(list, tree, c) /\ rest = Tail(calls)
    OBVIOUS
  <2>6. s \in Seq(CallsOn(list, tree)) /\ rest \in Seq(CallsOn(list, tree))
    BY <1>2, <2>3, <2>4, <2>5, CallsAre
  <2>7. s \o rest \in Seq(CallsOn(list, tree))
    BY <2>6, ConcatProperties
  <2>8. calls' = s \o rest
    BY <2>2, <2>5
  <2> QED
    BY <2>2, <2>3, <2>7, <2>8 DEF Built
<1>8. CASE ParseError \/ TreeMade \/ Execute \/ Change
  <2>1. /\ list' = list /\ tree' = tree /\ calls' = calls
        /\ \/ pc' = "prompt" /\ calls = <<>>
           \/ pc = "build" /\ pc' = "execute" /\ calls = <<>>
           \/ pc' = pc
    BY <1>1, <1>8 DEF ParseError, TreeMade, Execute, Change, built, Built
  <2> QED
    BY <1>1, <2>1 DEF Built
<1>9. CASE UNCHANGED vars
  BY <1>1, <1>9 DEF Built, vars
<1> QED
  BY <1>4, <1>5, <1>6, <1>7, <1>8, <1>9 DEF Next

LEMMA InvariantAtFirst ==
  ASSUME Init
  PROVE  IInv
<1>1. env \in Environments(session) /\ session \in Session
  BY DEF Init
<1>2. EnvOK(env)
  BY <1>1, LineAssumption DEF EnvOK
<1>3. Sound
  BY <1>2 DEF Init, Sound
<1>4. Passed
  BY DEF Init, Passed
<1>5. LookedUp
  BY DEF Init, LookedUp
<1>6. Built
  <2>1. tree = NoTree(<<>>) /\ list = <<>> /\ calls = <<>> /\ pc = "prompt"
    BY DEF Init
  <2>2. calls \in Seq(CallsOn(list, tree))
    BY <2>1
  <2> QED
    BY <2>1, <2>2 DEF Built
<1> QED
  BY <1>3, <1>4, <1>5, <1>6 DEF IInv

\* The inductive invariant: each pass gets the list that it relies on, and
\* what was looked up, and the tree, are as the properties need them.
THEOREM PassesAgree == Spec => []IInv
<1>1. IInv /\ [Next]_vars => IInv'
  BY SoundKept, PassedKept, LookedUpKept, BuiltKept DEF IInv
<1> QED
  BY <1>1, InvariantAtFirst, PTL DEF Spec

-----------------------------------------------------------------------------
(* What follows from it. *)

LEMMA TreeIsTyped ==
  ASSUME Passed, Built
  PROVE  /\ {tree.root} \cup Range(tree.left) \cup Range(tree.right) \subseteq 0..Len(list)
         /\ tree.used \subseteq 1..Len(list) /\ {tree.eof, tree.crashed} \subseteq BOOLEAN
<1>1. list \in Seq(Token) /\ Len(list) \in Nat
  BY DEF Passed
<1>2. tree = NoTree(<<>>) \/ tree \in Forest(list)
  BY DEF Built
<1>3. CASE tree = NoTree(<<>>)
  <2>1. /\ tree.root = 0 /\ DOMAIN tree.left = {} /\ DOMAIN tree.right = {}
        /\ tree.used = {} /\ tree.eof = FALSE /\ tree.crashed = FALSE
    BY <1>3 DEF NoTree
  <2>2. Range(tree.left) = {} /\ Range(tree.right) = {}
    BY <2>1, Zenon DEF Range
  <2>3. {tree.root} \cup Range(tree.left) \cup Range(tree.right) = {0}
    BY <2>1, <2>2
  <2>4. {0} \subseteq 0..Len(list)
    BY <1>1
  <2> QED
    BY <2>1, <2>3, <2>4, Zenon
<1>4. CASE tree \in Forest(list)
  <2>1. /\ tree.left \in [1..Len(list) -> 0..Len(list)]
        /\ tree.right \in [1..Len(list) -> 0..Len(list)]
        /\ tree.root \in 0..Len(list) /\ tree.used \subseteq 1..Len(list)
        /\ {tree.eof, tree.crashed} \subseteq BOOLEAN
    BY <1>4 DEF Forest
  <2>2. /\ Range(tree.left) \subseteq 0..Len(list)
        /\ Range(tree.right) \subseteq 0..Len(list)
    BY <2>1 DEF Range
  <2> QED
    BY <2>1, <2>2
<1> QED
  BY <1>2, <1>3, <1>4

\* Every variable stays in its type: no pass makes anything but tokens, the
\* tree and the calls name tokens of the list, and i stays near the list.
THEOREM ParserTyped == Spec => []TypeOK
<1>1. IInv => TypeOK
  <2> SUFFICES ASSUME IInv
               PROVE  TypeOK
    OBVIOUS
  <2>1. Sound /\ Passed /\ Built
    BY DEF IInv
  <2>2. calls \in Seq([t : 0..Len(list), e : 0..Len(list), n : 1..Len(list),
                       made : BOOLEAN])
    <3>1. calls \in Seq(CallsOn(list, tree))
      BY <2>1 DEF Built
    <3>2. CallsOn(list, tree) \subseteq Calls(list)
      BY DEF CallsOn
    <3>3. calls \in Seq(Calls(list))
      BY <3>1, <3>2, SeqMonotonic
    <3> QED
      BY <3>3 DEF Calls
  <2>3. list \in Seq(Token)
    BY <2>1 DEF Passed
  <2>4. DOMAIN env \subseteq Seq(Name) /\ \A n \in DOMAIN env : env[n] \in Seq(Symbol)
    BY <2>1 DEF Sound, EnvOK
  <2>5. /\ {tree.root} \cup Range(tree.left) \cup Range(tree.right) \subseteq 0..Len(list)
        /\ tree.used \subseteq 1..Len(list) /\ {tree.eof, tree.crashed} \subseteq BOOLEAN
    BY <2>1, TreeIsTyped
  <2>6. /\ session \in Session /\ bin \subseteq Program(session)
        /\ pc \in {"prompt", "quotes", "types", "errors", "expand", "again",
                   "build", "execute", "crashed"}
        /\ i \in 1..(Len(line) + 2) /\ g_exit_code \in {0, 1, 2}
        /\ always \subseteq some /\ some \subseteq Program(session)
    BY <2>1 DEF Sound
  <2> HIDE DEF Token
  <2> QED
    BY <2>2, <2>3, <2>4, <2>5, <2>6, Zenon DEF TypeOK
<1> QED
  BY <1>1, PassesAgree, PTL

\* What make_yggdrasil has filled when it returns is a tree, for every list of
\* tokens: the second search for the children never makes a node twice, and no
\* node is below itself.
THEOREM TreesAreBuilt == Spec => []TreeIsTree
<1>1. IInv => TreeIsTree
  <2> SUFFICES ASSUME IInv, pc = "execute"
               PROVE  /\ \A a, b \in Edges : Child(a) = Child(b) => a = b
                      /\ \A a \in Edges : Child(a) # tree.root
                      /\ \A S \in SUBSET DOMAIN list :
                           S # {} => \E k \in S : /\ tree.left[k] \notin S
                                                  /\ tree.right[k] \notin S
    BY DEF TreeIsTree
  <2>1. tree \in Forest(list) /\ Descends(list, tree) /\ list \in Seq(Token)
    BY DEF IInv, Built, Passed
  <2>2. DOMAIN list = 1..Len(list)
    BY <2>1
  <2>3. /\ \A j \in 1..Len(list) :
             /\ tree.left[j] # 0 => tree.left[j] # tree.root
             /\ tree.right[j] # 0 => tree.right[j] # tree.root
        /\ \A j, k \in 1..Len(list) :
             /\ tree.left[j] # 0 /\ tree.left[j] = tree.left[k] => j = k
             /\ tree.right[j] # 0 /\ tree.right[j] = tree.right[k] => j = k
             /\ tree.left[j] # 0 => tree.left[j] # tree.right[k]
    BY <2>1 DEF Forest
  <2>4. ASSUME NEW a \in Edges
        PROVE  /\ a[1] \in 1..Len(list) /\ a[2] \in {"left", "right"}
               /\ a = <<a[1], a[2]>> /\ Child(a) # 0
               /\ Child(a) = IF a[2] = "left" THEN tree.left[a[1]] ELSE tree.right[a[1]]
    BY <2>2, <2>4 DEF Edges, Child
  <2>5. ASSUME NEW a \in Edges
        PROVE  Child(a) # tree.root
    BY <2>3, <2>4
  <2>6. ASSUME NEW a \in Edges, NEW b \in Edges, Child(a) = Child(b)
        PROVE  a = b
    <3>1. /\ a[1] \in 1..Len(list) /\ a[2] \in {"left", "right"}
          /\ a = <<a[1], a[2]>> /\ Child(a) # 0
          /\ Child(a) = IF a[2] = "left" THEN tree.left[a[1]] ELSE tree.right[a[1]]
      BY <2>4
    <3>2. /\ b[1] \in 1..Len(list) /\ b[2] \in {"left", "right"}
          /\ b = <<b[1], b[2]>> /\ Child(b) # 0
          /\ Child(b) = IF b[2] = "left" THEN tree.left[b[1]] ELSE tree.right[b[1]]
      BY <2>4
    <3>3. PICK j, k : j = a[1] /\ k = b[1]
      OBVIOUS
    <3>4. /\ tree.left[j] # 0 /\ tree.left[j] = tree.left[k] => j = k
          /\ tree.right[j] # 0 /\ tree.right[j] = tree.right[k] => j = k
          /\ tree.left[j] # 0 => tree.left[j] # tree.right[k]
          /\ tree.left[k] # 0 => tree.left[k] # tree.right[j]
      BY <2>3, <3>1, <3>2, <3>3
    <3>5. CASE a[2] = "left" /\ b[2] = "left"
      BY <2>6, <3>1, <3>2, <3>3, <3>4, <3>5
    <3>6. CASE a[2] = "right" /\ b[2] = "right"
      BY <2>6, <3>1, <3>2, <3>3, <3>4, <3>6
    <3>7. CASE a[2] = "left" /\ b[2] = "right"
      BY <2>6, <3>1, <3>2, <3>3, <3>4, <3>7
    <3>8. CASE a[2] = "right" /\ b[2] = "left"
      BY <2>6, <3>1, <3>2, <3>3, <3>4, <3>8
    <3> QED
      BY <3>1, <3>2, <3>5, <3>6, <3>7, <3>8
  <2>7. ASSUME NEW S \in SUBSET DOMAIN list, S # {}
        PROVE  \E k \in S : tree.left[k] \notin S /\ tree.right[k] \notin S
    <3>1. PICK h \in [1..Len(list) -> Nat] : \A k \in 1..Len(list) :
             /\ tree.left[k] # 0 => h[tree.left[k]] < h[k]
             /\ tree.right[k] # 0 => h[tree.right[k]] < h[k]
      BY <2>1 DEF Descends
    <3>2. S \subseteq 1..Len(list)
      BY <2>2
    <3> DEFINE H == {h[k] : k \in S}
    <3>3. H \in SUBSET Nat /\ H # {}
      BY <2>7, <3>2
    <3> HIDE DEF H
    <3>4. PICK low \in H : \A x \in H : low <= x
      BY <3>3, LeastExists
    <3>5. PICK k \in S : h[k] = low
      BY DEF H
    <3>6. ASSUME NEW m \in S
          PROVE  m # 0 /\ ~ (h[m] < h[k])
      <4>1. h[m] \in H /\ h[k] \in H
        BY DEF H
      <4>2. h[m] \in Nat /\ h[k] \in Nat /\ low <= h[m]
        BY <3>3, <3>4, <4>1
      <4> QED
        BY <3>2, <3>5, <4>2
    <3> QED
      BY <3>1, <3>2, <3>6
  <2> QED
    BY <2>5, <2>6, <2>7
<1> QED
  BY <1>1, PassesAgree, PTL

\* No quoting and no value of a bare variable makes an operator, for every line
\* and environment: quotes are removed before the types are given, values are
\* put in after it.
THEOREM QuotesHideOperators == Spec => []OperatorsAreBare
<1>1. IInv => OperatorsAreBare
  <2> SUFFICES ASSUME IInv, pc = "execute", NEW t \in Range(list),
                      t.coretype \in {"PIPE", "REDIR"}
               PROVE  \/ line[t.id] \in Operator
                      \/ line[t.id] = "\"" /\ \E p \in (t.id + 1)..Len(line) : line[p] = "$"
    BY DEF OperatorsAreBare
  <2>1. list \in Seq(Marked(line))
    BY DEF IInv, Passed
  <2>2. t \in Marked(line)
    BY <2>1 DEF Range
  <2>3. Bare(line, t.id)
    BY <2>2 DEF Marked
  <2> QED
    BY <2>3 DEF Bare
<1> QED
  BY <1>1, PassesAgree, PTL

\* What runs as a command was found, and what does not was missing, at some time
\* since parser_cmd_no_found began, whatever other processes do meanwhile.
THEOREM SecondLookDecides == Spec => []TypesAreFresh
<1>1. IInv => TypesAreFresh
  <2> SUFFICES ASSUME IInv, pc = "execute", NEW t \in Range(list)
               PROVE  /\ t.type = "CMD" => t.value \in Builtin \cup some
                      /\ t.type = "WORD" => t.value \notin Builtin \cup always
    BY DEF TypesAreFresh
  <2>1. list \in Seq(Token)
    BY DEF IInv, Passed
  <2>2. PICK k \in 1..Len(list) : t = list[k]
    BY <2>1 DEF Range
  <2>3. FreshIn(list[k], some, always)
    BY DEF IInv, LookedUp
  <2> QED
    BY <2>2, <2>3 DEF FreshIn
<1> QED
  BY <1>1, PassesAgree, PTL

\* The only lines without a root, which crash the shell, are those of spaces.
THEOREM OtherLinesHaveRoots == Spec => []OnlyBlankCrashes
<1>1. IInv => OnlyBlankCrashes
  BY DEF IInv, Passed, Built, OnlyBlankCrashes
<1> QED
  BY <1>1, PassesAgree, PTL

-----------------------------------------------------------------------------
(***************************************************************************)
(* What the passes make of a line is what Reading says it is.              *)
(***************************************************************************)

-----------------------------------------------------------------------------
(* Sequences of sequences put together. *)

\* The sequences f grows through while it takes one of ss after the other.
Growing(X, ss) ==
  {f \in [0..Len(ss) -> Seq(X)] :
     /\ f[0] = <<>>
     /\ \A k \in 1..Len(ss) : f[k] = f[k - 1] \o ss[k]}

LEMMA FlattenIs ==
  ASSUME NEW X, NEW ss \in Seq(Seq(X)), NEW f \in Growing(X, ss)
  PROVE  FlattenSeq(ss) = f[Len(ss)]
<1>1. Len(ss) \in Nat /\ \A k \in 1..Len(ss) : ss[k] \in Seq(X)
  OBVIOUS
<1>2. PICK n \in Nat : n = Len(ss)
  BY <1>1
<1>3. /\ f \in [0..n -> Seq(X)] /\ f[0] = <<>>
      /\ \A k \in 1..n : f[k] = f[k - 1] \o ss[k]
  BY <1>2 DEF Growing
<1>4. CASE n = 0
  <2>1. ss = <<>>
    BY <1>2, <1>4, EmptySeq
  <2>2. FlattenSeq(ss) = ss
    BY <1>2, <1>4 DEF FlattenSeq
  <2> QED
    BY <1>2, <1>3, <1>4, <2>1, <2>2
<1>5. CASE n # 0
  <2>1. 1 \in 1..n /\ 1 - 1 = 0
    BY <1>5
  <2>2. f[1] = ss[1]
    <3>1. f[1] = f[1 - 1] \o ss[1] /\ ss[1] \in Seq(X)
      BY <1>1, <1>2, <1>3, <2>1
    <3>2. f[1] = <<>> \o ss[1]
      BY <1>3, <2>1, <3>1
    <3> QED
      BY <3>1, <3>2, ConcatEmptySeq
  <2>a. \A k \in 2..n : k \in 1..n /\ k - 1 \in 1..n /\ k # 1
    OBVIOUS
  <2>3. \A k \in 2..n : f[k] = f[k - 1] \o ss[k] /\ k \in 1..n /\ k - 1 \in 1..n /\ k # 1
    <3> SUFFICES ASSUME NEW k \in 2..n
                 PROVE  f[k] = f[k - 1] \o ss[k]
      BY <2>a
    <3> QED
      BY <1>3, <2>a
  <2>4. \A k \in 1..n : k = 1 \/ k \in 2..n
    OBVIOUS
  <2> DEFINE e == [k \in 1..n |-> f[k]]
  <2>5. e = [k \in 1..n |-> IF k = 1 THEN ss[k] ELSE e[k - 1] \o ss[k]]
    <3>1. \A k \in 1..n : e[k] = IF k = 1 THEN ss[k] ELSE e[k - 1] \o ss[k]
      BY <2>1, <2>2, <2>3, <2>4
    <3>2. e = [k \in 1..n |-> e[k]]
      OBVIOUS
    <3> HIDE DEF e
    <3> QED
      BY <3>1, <3>2
  <2> HIDE DEF e
  <2>6. PICK h : /\ h = [k \in 1..n |-> IF k = 1 THEN ss[k] ELSE h[k - 1] \o ss[k]]
                 /\ FlattenSeq(ss) = h[n]
    BY <1>2, <1>5, <2>5 DEF FlattenSeq
  <2>7. \A k \in 2..n : h[k] = h[k - 1] \o ss[k]
    BY <2>3, <2>6
  <2>8. h[1] = ss[1]
    BY <2>1, <2>6
  <2> DEFINE T == {k \in 0..n : k = 0 \/ h[k] = f[k]}
  <2>9. 0 \in T
    OBVIOUS
  <2>10. ASSUME NEW k \in 1..n, k - 1 \in T
         PROVE  k \in T
    <3>1. CASE k = 1
      BY <2>2, <2>8, <3>1
    <3>2. CASE k # 1
      <4>1. k \in 2..n /\ h[k - 1] = f[k - 1]
        BY <2>10, <3>2
      <4>2. f[k] = f[k - 1] \o ss[k]
        BY <2>3, <4>1
      <4>3. h[k] = h[k - 1] \o ss[k]
        BY <2>7, <4>1
      <4>4. h[k] = f[k]
        BY <4>1, <4>2, <4>3
      <4> QED
        BY <4>4
    <3> QED
      BY <3>1, <3>2
  <2>11. \A k \in 0..n : k \in T
    <3> HIDE DEF T
    <3> QED
      BY <2>9, <2>10, UpTo
  <2>12. n \in T
    <3> HIDE DEF T
    <3> QED
      BY <2>11
  <2> QED
    BY <1>2, <1>5, <2>6, <2>12
<1> QED
  BY <1>4, <1>5

LEMMA Grows ==
  ASSUME NEW X, NEW ss \in Seq(Seq(X))
  PROVE  \E f : f \in Growing(X, ss)
<1> DEFINE n == Len(ss)
           U == Seq(X)
           I == [k \in 0..n |-> U]
           g == [p \in U \X (1..n) |-> p[1] \o ss[p[2]]]
<1>1. n \in Nat /\ \A k \in 1..n : ss[k] \in U
  OBVIOUS
<1>2. \A y \in U : \A k \in 1..n : g[<<y, k>>] = y \o ss[k]
  OBVIOUS
<1>3. \A y \in U : \A k \in 1..n : y \o ss[k] \in U
  BY <1>1, ConcatProperties
<1>4. \A k \in 0..n : I[k] = U
  OBVIOUS
<1>5. \A k \in 1..n : k \in 0..n /\ k - 1 \in 0..n
  BY <1>1
<1>6. <<>> \in U /\ 0 \in 0..n
  BY <1>1
<1> HIDE DEF g, I, n, U
<1>7. PICK f : f \in Loops(U, n, I, <<>>, g)
  <2>1. \A k \in 0..n : I[k] \subseteq U
    BY <1>4
  <2>2. \A k \in 1..n : \A y \in I[k - 1] : g[<<y, k>>] \in I[k]
    <3> SUFFICES ASSUME NEW k \in 1..n, NEW y \in U
                 PROVE  g[<<y, k>>] \in U
      BY <1>4, <1>5
    <3>1. g[<<y, k>>] = y \o ss[k]
      BY <1>2
    <3> QED
      BY <1>3, <3>1
  <2>3. <<>> \in I[0]
    BY <1>4, <1>6
  <2> QED
    BY <1>1, <2>1, <2>2, <2>3, Iterates
<1>8. f \in [0..n -> U] /\ f[0] = <<>> /\ \A k \in 1..n : f[k] = g[<<f[k - 1], k>>]
  BY <1>7 DEF Loops
<1>9. \A k \in 1..n : f[k] = f[k - 1] \o ss[k]
  BY <1>2, <1>5, <1>8
<1> QED
  BY <1>8, <1>9 DEF Growing, n, U

LEMMA FlattenTyped ==
  ASSUME NEW X, NEW ss \in Seq(Seq(X))
  PROVE  FlattenSeq(ss) \in Seq(X)
<1>1. PICK f : f \in Growing(X, ss)
  BY Grows
<1>2. FlattenSeq(ss) = f[Len(ss)]
  BY <1>1, FlattenIs
<1>3. Len(ss) \in 0..Len(ss)
  OBVIOUS
<1>4. f \in [0..Len(ss) -> Seq(X)]
  BY <1>1 DEF Growing
<1> QED
  BY <1>2, <1>3, <1>4

LEMMA FlattenNone ==
  FlattenSeq(<<>>) = <<>>
BY DEF FlattenSeq

\* One more sequence at the end.
LEMMA FlattenMore ==
  ASSUME NEW X, NEW ss \in Seq(Seq(X)), NEW s \in Seq(X)
  PROVE  FlattenSeq(Append(ss, s)) = FlattenSeq(ss) \o s
<1>1. PICK f : f \in Growing(X, ss)
  BY Grows
<1>2. PICK n \in Nat : n = Len(ss)
  OBVIOUS
<1>3. PICK tt : tt = Append(ss, s)
  OBVIOUS
<1>4. /\ tt \in Seq(Seq(X)) /\ Len(tt) = n + 1 /\ tt[n + 1] = s
      /\ \A k \in 1..n : tt[k] = ss[k]
  BY <1>2, <1>3
<1>5. /\ f \in [0..n -> Seq(X)] /\ f[0] = <<>>
      /\ \A k \in 1..n : f[k] = f[k - 1] \o ss[k]
  BY <1>1, <1>2 DEF Growing
<1> DEFINE e == [k \in 0..(n + 1) |-> IF k <= n THEN f[k] ELSE f[n] \o s]
<1>6. e \in [0..(n + 1) -> Seq(X)] /\ e[0] = <<>>
  <2>1. n \in 0..n
    OBVIOUS
  <2>2. f[n] \o s \in Seq(X)
    BY <1>5, <2>1
  <2>3. \A k \in 0..(n + 1) : k <= n => k \in 0..n
    OBVIOUS
  <2> QED
    BY <1>5, <2>2, <2>3
<1>7. \A k \in 0..n : e[k] = f[k]
  OBVIOUS
<1>8. e[n + 1] = f[n] \o s
  OBVIOUS
<1> HIDE DEF e
<1>9. ASSUME NEW k \in 1..(n + 1)
      PROVE  e[k] = e[k - 1] \o tt[k]
  <2>1. CASE k = n + 1
    <3>1. k - 1 = n /\ n \in 0..n
      BY <2>1
    <3> QED
      BY <1>4, <1>7, <1>8, <2>1, <3>1
  <2>2. CASE k # n + 1
    <3>1. k \in 1..n /\ k \in 0..n /\ k - 1 \in 0..n
      BY <2>2
    <3>2. f[k] = f[k - 1] \o ss[k] /\ e[k] = f[k] /\ e[k - 1] = f[k - 1] /\ tt[k] = ss[k]
      BY <1>4, <1>5, <1>7, <3>1
    <3> QED
      BY <3>2
  <2> QED
    BY <2>1, <2>2
<1>10. e \in Growing(X, tt)
  BY <1>4, <1>6, <1>9 DEF Growing
<1>11. FlattenSeq(tt) = e[n + 1] /\ FlattenSeq(ss) = f[n]
  BY <1>1, <1>2, <1>4, <1>10, FlattenIs
<1> QED
  BY <1>3, <1>8, <1>11

-----------------------------------------------------------------------------
(* The reader, one symbol at a time. *)

Modes == {"bare", "'", "\""}
PartSet == [mode : Modes, text : Seq(Symbol)]
ItemSet ==
  {t \in [kind : {"none", "word", "op"}, parts : Seq(PartSet),
          open : BOOLEAN, glued : BOOLEAN] :
     /\ t.kind = "none" => t.parts = <<>>
     /\ t.kind # "word" => ~ t.open /\ ~ t.glued}
ReaderSet == [items : Seq(ItemSet), item : ItemSet, mode : Modes]

It(kind, parts, open, glued) ==
  [kind |-> kind, parts |-> parts, open |-> open, glued |-> glued]
Rd(items, item, mode) == [items |-> items, item |-> item, mode |-> mode]

Nothing == It("none", <<>>, FALSE, FALSE)

TextOf(parts) == FlattenSeq([k \in DOMAIN parts |-> parts[k].text])

\* The parts of a word with v read behind them, in quotes of the sort m.
With(parts, m, v) ==
  IF m = "bare" /\ parts # <<>> /\ Last(parts).mode = "bare"
  THEN [parts EXCEPT ![Len(parts)] = Part("bare", parts[Len(parts)].text \o v)]
  ELSE Append(parts, Part(m, v))

LEMMA PartIs ==
  ASSUME NEW m \in Modes, NEW v \in Seq(Symbol)
  PROVE  Part(m, v) \in PartSet /\ Part(m, v).mode = m /\ Part(m, v).text = v
BY DEF Part, PartSet

LEMMA TextsAre ==
  ASSUME NEW parts \in Seq(PartSet)
  PROVE  /\ [k \in DOMAIN parts |-> parts[k].text] \in Seq(Seq(Symbol))
         /\ Len([k \in DOMAIN parts |-> parts[k].text]) = Len(parts)
         /\ \A k \in 1..Len(parts) :
              [j \in DOMAIN parts |-> parts[j].text][k] = parts[k].text
<1>1. Len(parts) \in Nat /\ DOMAIN parts = 1..Len(parts)
  OBVIOUS
<1>2. \A k \in 1..Len(parts) : parts[k].text \in Seq(Symbol)
  <2>1. \A k \in 1..Len(parts) : parts[k] \in PartSet
    OBVIOUS
  <2> QED
    BY <2>1 DEF PartSet
<1> DEFINE s == [k \in 1..Len(parts) |-> parts[k].text]
<1>3. s \in [1..Len(parts) -> Seq(Symbol)]
  BY <1>2
<1>4. s \in Seq(Seq(Symbol)) /\ Len(s) = Len(parts)
  BY <1>1, <1>3
<1> QED
  BY <1>1, <1>4

LEMMA TextTyped ==
  ASSUME NEW parts \in Seq(PartSet)
  PROVE  TextOf(parts) \in Seq(Symbol)
BY TextsAre, FlattenTyped DEF TextOf

LEMMA TextNone == TextOf(<<>>) = <<>>
<1>1. [k \in DOMAIN <<>> |-> <<>>[k].text] = <<>>
  OBVIOUS
<1> QED
  BY <1>1, FlattenNone DEF TextOf

LEMMA TextMore ==
  ASSUME NEW parts \in Seq(PartSet), NEW m \in Modes, NEW v \in Seq(Symbol)
  PROVE  TextOf(Append(parts, Part(m, v))) = TextOf(parts) \o v
<1>1. PICK q : q = Part(m, v)
  OBVIOUS
<1>2. q \in PartSet /\ q.text = v
  BY <1>1, PartIs
<1>3. PICK all : all = Append(parts, q)
  OBVIOUS
<1>4. PICK n \in Nat : n = Len(parts)
  OBVIOUS
<1>5. /\ all \in Seq(PartSet) /\ Len(all) = n + 1 /\ all[n + 1] = q
      /\ \A k \in 1..n : all[k] = parts[k]
  BY <1>2, <1>3, <1>4
<1>6. PICK s : s = [k \in DOMAIN parts |-> parts[k].text]
  OBVIOUS
<1>7. PICK t : t = [k \in DOMAIN all |-> all[k].text]
  OBVIOUS
<1>8. s \in Seq(Seq(Symbol)) /\ Len(s) = n /\ \A k \in 1..n : s[k] = parts[k].text
  BY <1>4, <1>6, TextsAre
<1>9. t \in Seq(Seq(Symbol)) /\ Len(t) = n + 1 /\ \A k \in 1..(n + 1) : t[k] = all[k].text
  BY <1>5, <1>7, TextsAre
<1>10. t = Append(s, v)
  <2>1. PICK u : u = Append(s, v)
    OBVIOUS
  <2>2. /\ u \in Seq(Seq(Symbol)) /\ Len(u) = n + 1 /\ u[n + 1] = v
        /\ \A k \in 1..n : u[k] = s[k]
    BY <1>8, <2>1
  <2>3. ASSUME NEW k \in 1..(n + 1)
        PROVE  t[k] = u[k]
    <3>1. CASE k = n + 1
      BY <1>2, <1>5, <1>9, <2>2, <3>1
    <3>2. CASE k # n + 1
      <4>1. k \in 1..n
        BY <3>2
      <4>2. t[k] = all[k].text /\ all[k] = parts[k] /\ u[k] = s[k] /\ s[k] = parts[k].text
        BY <1>5, <1>8, <1>9, <2>2, <4>1
      <4> QED
        BY <4>2
    <3> QED
      BY <3>1, <3>2
  <2>4. t = u
    BY <1>9, <2>2, <2>3, SeqEqual
  <2> QED
    BY <2>1, <2>4
<1>11. FlattenSeq(t) = FlattenSeq(s) \o v
  BY <1>8, <1>10, FlattenMore
<1> QED
  BY <1>1, <1>3, <1>6, <1>7, <1>11 DEF TextOf

\* A sequence with another last element.
LEMMA LastReplaced ==
  ASSUME NEW X, NEW front \in Seq(X), NEW a \in X, NEW b \in X, NEW s,
         s = Append(front, a)
  PROVE  /\ Len(s) = Len(front) + 1 /\ s[Len(s)] = a /\ s # <<>> /\ s \in Seq(X)
         /\ [s EXCEPT ![Len(s)] = b] = Append(front, b)
<1>1. PICK n \in Nat : n = Len(front)
  OBVIOUS
<1>2. /\ s \in Seq(X) /\ Len(s) = n + 1 /\ s[n + 1] = a /\ s # <<>>
      /\ \A k \in 1..n : s[k] = front[k]
  BY <1>1
<1>3. PICK t : t = [s EXCEPT ![n + 1] = b]
  OBVIOUS
<1>4. n + 1 \in 1..Len(s)
  BY <1>2
<1>5. /\ t \in Seq(X) /\ Len(t) = n + 1
      /\ \A k \in 1..(n + 1) : t[k] = IF k = n + 1 THEN b ELSE s[k]
  <2>1. t \in Seq(X) /\ Len(t) = Len(s)
    BY <1>2, <1>3, <1>4, ExceptSeq
  <2>a. DOMAIN s = 1..Len(s)
    BY <1>2
  <2>2. \A k \in 1..Len(s) : t[k] = IF k = n + 1 THEN b ELSE s[k]
    BY <1>3, <2>a
  <2> QED
    BY <1>2, <2>1, <2>2
<1>6. PICK u : u = Append(front, b)
  OBVIOUS
<1>7. u \in Seq(X) /\ Len(u) = n + 1 /\ u[n + 1] = b /\ \A k \in 1..n : u[k] = front[k]
  BY <1>1, <1>6
<1>8. \A k \in 1..(n + 1) : k = n + 1 \/ (k \in 1..n /\ k # n + 1)
  OBVIOUS
<1>9. \A k \in 1..(n + 1) : t[k] = u[k]
  BY <1>2, <1>5, <1>7, <1>8
<1>10. t = u
  BY <1>5, <1>7, <1>9, SeqEqual
<1> QED
  BY <1>1, <1>2, <1>3, <1>6, <1>10

LEMMA LastPart ==
  ASSUME NEW front \in Seq(PartSet), NEW a \in PartSet, NEW b \in PartSet,
         NEW parts, parts = Append(front, a)
  PROVE  [parts EXCEPT ![Len(parts)] = b] = Append(front, b)
BY LastReplaced

\* With, in the two cases.
LEMMA WithIs ==
  ASSUME NEW parts \in Seq(PartSet), NEW m \in Modes, NEW v \in Seq(Symbol)
  PROVE  \E front \in Seq(PartSet), w \in Seq(Symbol) :
           /\ With(parts, m, v) = Append(front, Part(m, w \o v))
           /\ IF m = "bare" /\ parts # <<>> /\ Last(parts).mode = "bare"
              THEN parts = Append(front, Part("bare", w))
              ELSE parts = front /\ w = <<>>
<1>1. CASE m = "bare" /\ parts # <<>> /\ Last(parts).mode = "bare"
  <2>1. PICK front \in Seq(PartSet), a \in PartSet : parts = Append(front, a)
    BY <1>1, SequenceEmptyOrAppend
  <2>2. PICK w : w = a.text
    OBVIOUS
  <2>3. w \in Seq(Symbol) /\ w \o v \in Seq(Symbol)
    BY <2>2 DEF PartSet
  <2>4. PICK b : b = Part("bare", w \o v)
    OBVIOUS
  <2>5. b \in PartSet
    BY <2>3, <2>4 DEF Part, PartSet, Modes
  <2>6. parts[Len(parts)] = a /\ [parts EXCEPT ![Len(parts)] = b] = Append(front, b)
    BY <2>1, <2>5, LastReplaced
  <2>7. a.mode = "bare"
    BY <1>1, <2>6 DEF Last
  <2>8. a = Part("bare", w)
    BY <2>2, <2>7 DEF Part, PartSet
  <2>9. With(parts, m, v) = [parts EXCEPT ![Len(parts)] = b]
    BY <1>1, <2>2, <2>4, <2>6 DEF With
  <2> QED
    BY <1>1, <2>1, <2>3, <2>4, <2>6, <2>8, <2>9
<1>2. CASE ~ (m = "bare" /\ parts # <<>> /\ Last(parts).mode = "bare")
  <2>1. With(parts, m, v) = Append(parts, Part(m, v))
    BY <1>2 DEF With
  <2>2. <<>> \o v = v /\ <<>> \in Seq(Symbol)
    BY ConcatEmptySeq
  <2>3. PICK w \in Seq(Symbol) : w = <<>>
    BY <2>2
  <2>4. With(parts, m, v) = Append(parts, Part(m, w \o v))
    BY <2>1, <2>2, <2>3
  <2> QED
    BY <1>2, <2>3, <2>4
<1> QED
  BY <1>1, <1>2

LEMMA WithTyped ==
  ASSUME NEW parts \in Seq(PartSet), NEW m \in Modes, NEW v \in Seq(Symbol)
  PROVE  /\ With(parts, m, v) \in Seq(PartSet) /\ With(parts, m, v) # <<>>
         /\ TextOf(With(parts, m, v)) = TextOf(parts) \o v
<1>1. PICK front \in Seq(PartSet), w \in Seq(Symbol) :
           /\ With(parts, m, v) = Append(front, Part(m, w \o v))
           /\ IF m = "bare" /\ parts # <<>> /\ Last(parts).mode = "bare"
              THEN parts = Append(front, Part("bare", w))
              ELSE parts = front /\ w = <<>>
  BY WithIs
<1>2. w \o v \in Seq(Symbol)
  OBVIOUS
<1>3. Part(m, w \o v) \in PartSet
  BY <1>2, PartIs
<1>4. Append(front, Part(m, w \o v)) \in Seq(PartSet) /\ Append(front, Part(m, w \o v)) # <<>>
  BY <1>3
<1>5. TextOf(Append(front, Part(m, w \o v))) = TextOf(front) \o (w \o v)
  BY <1>2, TextMore
<1>6. TextOf(parts) = TextOf(front) \o w
  <2>1. TextOf(front) \in Seq(Symbol)
    BY TextTyped
  <2>2. CASE parts = front /\ w = <<>>
    BY <2>1, <2>2, ConcatEmptySeq
  <2>3. CASE m = "bare" /\ parts = Append(front, Part("bare", w))
    <3>1. TextOf(Append(front, Part(m, w))) = TextOf(front) \o w
      BY TextMore
    <3> QED
      BY <2>3, <3>1
  <2> QED
    BY <1>1, <2>2, <2>3
<1>7. TextOf(front) \o (w \o v) = (TextOf(front) \o w) \o v
  <2>1. TextOf(front) \in Seq(Symbol)
    BY TextTyped
  <2> QED
    BY <2>1, ConcatAssociative, SMTT(40)
<1> QED
  BY <1>1, <1>4, <1>5, <1>6, <1>7

Ended(r) == IF r.item.kind = "none" THEN r.items ELSE Append(r.items, r.item)

LEMMA ItIs ==
  ASSUME NEW parts \in Seq(PartSet), NEW o \in BOOLEAN, NEW g \in BOOLEAN
  PROVE  /\ It("word", parts, o, g) \in ItemSet
         /\ It("op", parts, FALSE, FALSE) \in ItemSet
         /\ Nothing \in ItemSet
BY DEF It, ItemSet, Nothing

LEMMA NothingIs ==
  ASSUME NEW t \in ItemSet, t.kind = "none"
  PROVE  t = Nothing
BY DEF ItemSet, Nothing, It

LEMMA RdIs ==
  ASSUME NEW items \in Seq(ItemSet), NEW t \in ItemSet, NEW m \in Modes
  PROVE  /\ Rd(items, t, m) \in ReaderSet
         /\ Rd(items, t, m).items = items /\ Rd(items, t, m).item = t
         /\ Rd(items, t, m).mode = m
BY DEF Rd, ReaderSet

LEMMA ReaderIs ==
  ASSUME NEW r \in ReaderSet
  PROVE  /\ r = Rd(r.items, r.item, r.mode)
         /\ r.items \in Seq(ItemSet) /\ r.item \in ItemSet /\ r.mode \in Modes
         /\ Ended(r) \in Seq(ItemSet)
<1>1. r.items \in Seq(ItemSet) /\ r.item \in ItemSet /\ r.mode \in Modes
  BY DEF ReaderSet
<1>2. r = Rd(r.items, r.item, r.mode)
  BY DEF ReaderSet, Rd
<1>3. Ended(r) \in Seq(ItemSet)
  BY <1>1 DEF Ended
<1> QED
  BY <1>1, <1>2, <1>3

LEMMA FinishedIs ==
  ASSUME NEW r \in ReaderSet
  PROVE  Finished(r) = Rd(Ended(r), Nothing, r.mode)
<1>1. CASE r.item.kind = "none"
  <2>1. Finished(r) = r /\ Ended(r) = r.items
    BY <1>1 DEF Finished, Ended
  <2>2. r.item = Nothing
    BY <1>1, NothingIs, ReaderIs
  <2> QED
    BY <2>1, <2>2, ReaderIs
<1>2. CASE r.item.kind # "none"
  <2>1. Finished(r) = [r EXCEPT !.items = Append(@, r.item), !.item = Item("none", <<>>)]
    BY <1>2 DEF Finished
  <2>2. Item("none", <<>>) = Nothing
    BY DEF Item, Nothing, It
  <2>3. Ended(r) = Append(r.items, r.item)
    BY <1>2 DEF Ended
  <2> QED
    BY <2>1, <2>2, <2>3 DEF ReaderSet, Rd
<1> QED
  BY <1>1, <1>2

LEMMA InWordIs ==
  ASSUME NEW r \in ReaderSet
  PROVE  \E items \in Seq(ItemSet), parts \in Seq(PartSet), o \in BOOLEAN, g \in BOOLEAN :
           /\ InWord(r) = Rd(items, It("word", parts, o, g), r.mode)
           /\ IF r.item.kind = "word"
              THEN items = r.items /\ r.item = It("word", parts, o, g)
              ELSE items = Ended(r) /\ parts = <<>> /\ o = FALSE /\ g = FALSE
<1>1. CASE r.item.kind = "word"
  <2>1. InWord(r) = r
    BY <1>1 DEF InWord
  <2>2. /\ r.item = It("word", r.item.parts, r.item.open, r.item.glued)
        /\ r.item.parts \in Seq(PartSet) /\ r.item.open \in BOOLEAN /\ r.item.glued \in BOOLEAN
    BY <1>1, ReaderIs DEF ItemSet, It
  <2>3. r = Rd(r.items, r.item, r.mode) /\ r.items \in Seq(ItemSet)
    BY ReaderIs
  <2> QED
    BY <1>1, <2>1, <2>2, <2>3
<1>2. CASE r.item.kind # "word"
  <2>1. InWord(r) = [Finished(r) EXCEPT !.item = Item("word", <<>>)]
    BY <1>2 DEF InWord
  <2>2. Item("word", <<>>) = It("word", <<>>, FALSE, FALSE)
    BY DEF Item, It
  <2>3. InWord(r) = Rd(Ended(r), It("word", <<>>, FALSE, FALSE), r.mode)
    <3>1. PICK e : e = Ended(r)
      OBVIOUS
    <3>2. Finished(r) = [items |-> e, item |-> Nothing, mode |-> r.mode]
      BY <3>1, FinishedIs DEF Rd
    <3>3. PICK t : t = It("word", <<>>, FALSE, FALSE)
      OBVIOUS
    <3>4. InWord(r) = [items |-> e, item |-> t, mode |-> r.mode]
      <4>1. PICK f : f = Finished(r)
        OBVIOUS
      <4>2. InWord(r) = [f EXCEPT !.item = t]
        BY <2>1, <2>2, <3>3, <4>1
      <4>3. f = [items |-> e, item |-> Nothing, mode |-> r.mode]
        BY <3>2, <4>1
      <4> QED
        BY <4>2, <4>3
    <3> QED
      BY <3>1, <3>3, <3>4 DEF Rd
  <2>4. <<>> \in Seq(PartSet) /\ Ended(r) \in Seq(ItemSet)
    BY ReaderIs
  <2> QED
    BY <1>2, <2>3, <2>4
<1> QED
  BY <1>1, <1>2

\* Reading in a word that has a part.
LEMMA ReadIs ==
  ASSUME NEW items \in Seq(ItemSet), NEW front \in Seq(PartSet), NEW m \in Modes,
         NEW w \in Seq(Symbol), NEW kind, NEW o \in BOOLEAN, NEW g \in BOOLEAN,
         NEW mode \in Modes, NEW s \in Symbol
  PROVE  Read(Rd(items, It(kind, Append(front, Part(m, w)), o, g), mode), s)
           = Rd(items, It(kind, Append(front, Part(m, Append(w, s))), o, g), mode)
<1>1. PICK parts : parts = Append(front, Part(m, w))
  OBVIOUS
<1>2. PICK q : q = Part(m, Append(w, s))
  OBVIOUS
<1>3. Append(w, s) \in Seq(Symbol)
  OBVIOUS
<1>a. PICK a : a = Part(m, w)
  OBVIOUS
<1>4. a \in PartSet /\ q \in PartSet
  BY <1>2, <1>3, <1>a, PartIs
<1>b. parts = Append(front, a)
  BY <1>1, <1>a
<1>5. /\ parts[Len(parts)] = a /\ parts \in Seq(PartSet)
      /\ [parts EXCEPT ![Len(parts)] = q] = Append(front, q)
  BY <1>4, <1>b, LastReplaced, SMTT(40)
<1>6. [parts[Len(parts)] EXCEPT !.text = Append(parts[Len(parts)].text, s)] = q
  <2>1. a = [mode |-> m, text |-> w] /\ q = [mode |-> m, text |-> Append(w, s)]
    BY <1>2, <1>a DEF Part
  <2>2. a.text = w /\ [a EXCEPT !.text = Append(w, s)] = q
    <3>1. PICK v : v = Append(w, s)
      OBVIOUS
    <3>2. [[mode |-> m, text |-> w] EXCEPT !.text = v] = [mode |-> m, text |-> v]
      OBVIOUS
    <3>3. a.text = w
      BY <2>1
    <3>4. [a EXCEPT !.text = v] = [mode |-> m, text |-> v]
      BY <2>1, <3>2, Zenon
    <3> QED
      BY <2>1, <3>1, <3>3, <3>4, Zenon
  <2> QED
    BY <1>5, <2>2, Zenon
<1>7. PICK r : r = Rd(items, It(kind, parts, o, g), mode)
  OBVIOUS
<1>8. r.item.parts = parts
  BY <1>7 DEF Rd, It
<1>9. Read(r, s) = [r EXCEPT !.item.parts[Len(r.item.parts)].text = Append(@, s)]
  BY DEF Read
<1>10. Read(r, s) = [r EXCEPT !.item = [r.item EXCEPT !.parts =
          [parts EXCEPT ![Len(parts)] =
             [parts[Len(parts)] EXCEPT !.text = Append(parts[Len(parts)].text, s)]]]]
  BY <1>8, <1>9
<1>11. Read(r, s) = [r EXCEPT !.item = [r.item EXCEPT !.parts =
          [parts EXCEPT ![Len(parts)] = q]]]
  BY <1>6, <1>10
<1>12. Read(r, s) = Rd(items, It(kind, [parts EXCEPT ![Len(parts)] = q], o, g), mode)
  BY <1>7, <1>11 DEF Rd, It
<1> QED
  BY <1>1, <1>2, <1>5, <1>7, <1>12

\* Appending one symbol.
LEMMA OneMore ==
  ASSUME NEW w \in Seq(Symbol), NEW s \in Symbol
  PROVE  Append(w, s) = w \o <<s>> /\ <<s>> \in Seq(Symbol) /\ Append(<<>>, s) = <<s>>
<1>1. Append(w, s) = w \o <<s>>
  BY AppendIsConcat
<1>2. <<s>> \in Seq(Symbol)
  OBVIOUS
<1>3. <<>> \in Seq(Symbol) /\ <<>> \o <<s>> = <<s>>
  BY <1>2, ConcatEmptySeq
<1>4. Append(<<>>, s) = <<>> \o <<s>>
  BY <1>3, AppendIsConcat
<1> QED
  BY <1>1, <1>2, <1>3, <1>4

LEMMA Twice ==
  ASSUME NEW X, NEW s \in X, NEW t, t = <<s>>, NEW u, u = <<s, s>>
  PROVE  Append(t, s) = u
<1>1. t \in Seq(X) /\ Len(t) = 1 /\ t[1] = s
  OBVIOUS
<1>2. u \in Seq(X) /\ Len(u) = 2 /\ u[1] = s /\ u[2] = s
  OBVIOUS
<1>3. PICK w : w = Append(t, s)
  OBVIOUS
<1>4. w \in Seq(X)
  BY <1>1, <1>3
<1>5. Len(w) = Len(t) + 1
  BY <1>1, <1>3
<1>6. 1 \in 1..Len(t)
  BY <1>1
<1>7. w[1] = t[1]
  BY <1>1, <1>3, <1>6
<1>8. w[Len(t) + 1] = s
  BY <1>1, <1>3
<1>9. Len(w) = 2 /\ w[2] = s /\ w[1] = s
  BY <1>1, <1>5, <1>7, <1>8
<1>10. \A k \in 1..2 : w[k] = u[k]
  BY <1>2, <1>9
<1> QED
  BY <1>2, <1>3, <1>4, <1>9, <1>10, SeqEqual

LEMMA NewPartIs ==
  ASSUME NEW r, NEW items \in Seq(ItemSet), NEW parts \in Seq(PartSet),
         NEW o \in BOOLEAN, NEW g \in BOOLEAN, NEW m \in Modes, NEW q \in Modes,
         InWord(r) = Rd(items, It("word", parts, o, g), m)
  PROVE  NewPart(r, q) = Rd(items, It("word", Append(parts, Part(q, <<>>)), o, g), m)
<1>1. PICK w : w = InWord(r)
  OBVIOUS
<1>2. PICK a : a = Part(q, <<>>)
  OBVIOUS
<1>3. PICK t : t = It("word", parts, o, g)
  OBVIOUS
<1>4. w = [items |-> items, item |-> t, mode |-> m]
  BY <1>1, <1>3 DEF Rd
<1>5. t = [kind |-> "word", parts |-> parts, open |-> o, glued |-> g]
  BY <1>3 DEF It
<1>6. NewPart(r, q) = [w EXCEPT !.item = [w.item EXCEPT !.parts = Append(w.item.parts, a)]]
  BY <1>1, <1>2 DEF NewPart
<1>7. PICK all : all = Append(parts, a)
  OBVIOUS
<1>8. w.item = t /\ t.parts = parts
  BY <1>4, <1>5
<1>9. PICK u : u = [t EXCEPT !.parts = all]
  OBVIOUS
<1>10. u = It("word", all, o, g)
  BY <1>5, <1>9 DEF It
<1>11. NewPart(r, q) = [w EXCEPT !.item = u]
  BY <1>6, <1>7, <1>8, <1>9, Zenon
<1>12. [w EXCEPT !.item = u] = [items |-> items, item |-> u, mode |-> m]
  BY <1>4
<1> QED
  BY <1>2, <1>7, <1>10, <1>11, <1>12, Zenon DEF Rd

\* A word that a reader is in is the one it would begin.
LEMMA InWordAgain ==
  ASSUME NEW items, NEW parts, NEW o, NEW g, NEW m
  PROVE  InWord(Rd(items, It("word", parts, o, g), m)) = Rd(items, It("word", parts, o, g), m)
<1>1. PICK r : r = Rd(items, It("word", parts, o, g), m)
  OBVIOUS
<1>2. r.item.kind = "word"
  BY <1>1 DEF Rd, It
<1> QED
  BY <1>1, <1>2 DEF InWord

LEMMA ReadBareIs ==
  ASSUME NEW r, NEW items \in Seq(ItemSet), NEW parts \in Seq(PartSet),
         NEW o \in BOOLEAN, NEW g \in BOOLEAN, NEW m \in Modes, NEW s \in Symbol,
         InWord(r) = Rd(items, It("word", parts, o, g), m)
  PROVE  ReadBare(r, s) = Rd(items, It("word", With(parts, "bare", <<s>>), o, g), m)
<1>1. PICK w : w = InWord(r)
  OBVIOUS
<1>2. w.item.parts = parts /\ w = Rd(items, It("word", parts, o, g), m)
  BY <1>1 DEF Rd, It
<1>3. ReadBare(r, s) = Read(IF parts # <<>> /\ Last(parts).mode = "bare" THEN w
                            ELSE NewPart(w, "bare"), s)
  BY <1>1, <1>2 DEF ReadBare
<1>4. PICK e \in Modes : e = "bare"
  BY DEF Modes
<1>a. <<s>> \in Seq(Symbol)
  BY OneMore
<1>b. <<>> \in Seq(Symbol)
  OBVIOUS
<1>5. PICK front \in Seq(PartSet), t \in Seq(Symbol) :
           /\ With(parts, e, <<s>>) = Append(front, Part(e, t \o <<s>>))
           /\ IF e = "bare" /\ parts # <<>> /\ Last(parts).mode = "bare"
              THEN parts = Append(front, Part("bare", t))
              ELSE parts = front /\ t = <<>>
  BY <1>a, WithIs
<1>6. Read(Rd(items, It("word", Append(front, Part(e, t)), o, g), m), s)
        = Rd(items, It("word", Append(front, Part(e, Append(t, s))), o, g), m)
  BY ReadIs
<1>7. Append(t, s) = t \o <<s>>
  BY OneMore
<1>8. CASE parts # <<>> /\ Last(parts).mode = "bare"
  <2>1. ReadBare(r, s) = Read(w, s) /\ parts = Append(front, Part("bare", t))
    BY <1>3, <1>4, <1>5, <1>8
  <2>2. parts = Append(front, Part(e, t))
    BY <1>4, <2>1
  <2>3. ReadBare(r, s) = Rd(items, It("word", With(parts, e, <<s>>), o, g), m)
    BY <1>2, <1>5, <1>6, <1>7, <2>1, <2>2
  <2> QED
    BY <1>4, <2>3
<1>9. CASE ~ (parts # <<>> /\ Last(parts).mode = "bare")
  <2>1. ReadBare(r, s) = Read(NewPart(w, "bare"), s) /\ parts = front /\ t = <<>>
    BY <1>3, <1>4, <1>5, <1>9
  <2>2. InWord(w) = Rd(items, It("word", parts, o, g), m)
    BY <1>2, InWordAgain
  <2>3. NewPart(w, e) = Rd(items, It("word", Append(parts, Part(e, <<>>)), o, g), m)
    BY <2>2, NewPartIs
  <2>4. NewPart(w, e) = Rd(items, It("word", Append(front, Part(e, t)), o, g), m)
    BY <2>1, <2>3
  <2>5. ReadBare(r, s) = Rd(items, It("word", With(parts, e, <<s>>), o, g), m)
    BY <1>4, <1>5, <1>6, <1>7, <2>1, <2>4
  <2> QED
    BY <1>4, <2>5
<1> QED
  BY <1>8, <1>9

LEMMA WithMore ==
  ASSUME NEW parts \in Seq(PartSet), NEW e \in Modes, e = "bare",
         NEW v \in Seq(Symbol), NEW u \in Seq(Symbol)
  PROVE  With(With(parts, e, v), e, u) = With(parts, e, v \o u)
<1>0. v \o u \in Seq(Symbol)
  OBVIOUS
<1>1. PICK front \in Seq(PartSet), w \in Seq(Symbol) :
           /\ With(parts, e, v) = Append(front, Part(e, w \o v))
           /\ IF e = "bare" /\ parts # <<>> /\ Last(parts).mode = "bare"
              THEN parts = Append(front, Part("bare", w))
              ELSE parts = front /\ w = <<>>
  BY WithIs
<1>2. PICK x : x = w \o v
  OBVIOUS
<1>3. x \in Seq(Symbol) /\ x \o u \in Seq(Symbol) /\ x \o u = w \o (v \o u)
  BY <1>2, ConcatAssociative, SMTT(40)
<1>4. PICK a : a = Part(e, x)
  OBVIOUS
<1>5. PICK b : b = Part(e, x \o u)
  OBVIOUS
<1>6. a \in PartSet /\ a.mode = e /\ a.text = x /\ b \in PartSet
  BY <1>3, <1>4, <1>5, PartIs
<1>7. PICK ext : ext = Append(front, a)
  OBVIOUS
<1>8. /\ ext # <<>> /\ ext[Len(ext)] = a
      /\ [ext EXCEPT ![Len(ext)] = b] = Append(front, b)
  <2>1. a \in PartSet /\ b \in PartSet
    BY <1>6
  <2>2. ext[Len(ext)] = a /\ ext # <<>>
    <3>1. ext # <<>> /\ Len(ext) = Len(front) + 1 /\ ext[Len(front) + 1] = a
      BY <1>7, <2>1, AppendProperties
    <3> QED
      BY <3>1
  <2>3. [ext EXCEPT ![Len(ext)] = b] = Append(front, b)
    BY <1>7, <2>1, LastPart
  <2> QED
    BY <2>2, <2>3
<1>9. With(ext, e, u) = [ext EXCEPT ![Len(ext)] = Part("bare", a.text \o u)]
  BY <1>6, <1>8 DEF With, Last
<1>10. With(ext, e, u) = Append(front, b)
  BY <1>5, <1>6, <1>8, <1>9
<1>11. With(With(parts, e, v), e, u) = Append(front, b)
  BY <1>1, <1>2, <1>4, <1>7, <1>10
<1>12. With(parts, e, v \o u) = Append(front, Part(e, w \o (v \o u)))
  <2>1. CASE parts # <<>> /\ Last(parts).mode = "bare"
    <3>1. parts = Append(front, Part("bare", w))
      BY <1>1, <2>1
    <3>2. PICK q : q = Part("bare", w)
      OBVIOUS
    <3>3. q \in PartSet /\ q.text = w
      BY <3>2 DEF Part, PartSet, Modes
    <3>4. PICK z : z = Part(e, w \o (v \o u))
      OBVIOUS
    <3>5. z \in PartSet
      BY <1>3, <3>4, PartIs
    <3>6. parts[Len(parts)] = q /\ [parts EXCEPT ![Len(parts)] = z] = Append(front, z)
      <4>1. parts = Append(front, q) /\ q \in PartSet
        BY <3>1, <3>2, <3>3
      <4>2. parts[Len(parts)] = q
        BY <3>5, <4>1, LastReplaced
      <4>3. [parts EXCEPT ![Len(parts)] = z] = Append(front, z)
        BY <3>5, <4>1, LastReplaced, SMTT(40)
      <4> QED
        BY <4>2, <4>3
    <3>7. With(parts, e, v \o u) = [parts EXCEPT ![Len(parts)] = Part("bare", q.text \o (v \o u))]
      BY <2>1, <3>6 DEF With
    <3> QED
      BY <3>3, <3>4, <3>6, <3>7
  <2>2. CASE ~ (parts # <<>> /\ Last(parts).mode = "bare")
    <3>1. parts = front /\ w = <<>>
      BY <1>1, <2>2
    <3>2. With(parts, e, v \o u) = Append(parts, Part(e, v \o u))
      BY <2>2 DEF With
    <3>3. <<>> \o (v \o u) = v \o u
      BY <1>0, ConcatEmptySeq
    <3> QED
      BY <3>1, <3>2, <3>3
  <2> QED
    BY <2>1, <2>2
<1> QED
  BY <1>3, <1>5, <1>11, <1>12

Reads(ln, r, p, next) == ReadSymbol(ln, r, p) = next

\* What the reader makes of a symbol that is not in quotes: a quote that
\* counts, a quote that does not, a space, and what words are made of.
LEMMA ReadQuote ==
  ASSUME NEW ln, NEW p, NEW r, r.mode = "bare", NEW q \in Modes, ln[p] = q, q \in Quote,
         Closes(ln, p),
         NEW items \in Seq(ItemSet), NEW parts \in Seq(PartSet),
         NEW o \in BOOLEAN, NEW g \in BOOLEAN, NEW m \in Modes,
         InWord(r) = Rd(items, It("word", parts, o, g), m)
  PROVE  ReadSymbol(ln, r, p) = Rd(items, It("word", Append(parts, Part(q, <<>>)), o, g), q)
<1>1. NewPart(r, q) = Rd(items, It("word", Append(parts, Part(q, <<>>)), o, g), m)
  BY NewPartIs
<1>2. ReadSymbol(ln, r, p) = [NewPart(r, q) EXCEPT !.mode = q]
  BY DEF ReadSymbol
<1>3. PICK t : t = It("word", Append(parts, Part(q, <<>>)), o, g)
  OBVIOUS
<1>4. NewPart(r, q) = [items |-> items, item |-> t, mode |-> m]
  BY <1>1, <1>3 DEF Rd
<1>5. [[items |-> items, item |-> t, mode |-> m] EXCEPT !.mode = q]
        = [items |-> items, item |-> t, mode |-> q]
  OBVIOUS
<1> QED
  BY <1>2, <1>3, <1>4, <1>5, Zenon DEF Rd

LoneRead(r, items, parts, g, m, s) ==
  Rd(items, It("word", With(parts, "bare", <<s>>), TRUE,
               IF r.item.open THEN g ELSE r.item.kind = "word"), m)

LEMMA ReadLone ==
  ASSUME NEW ln, NEW p, NEW r, r.mode = "bare", ln[p] \in Quote, ~ Closes(ln, p),
         NEW items \in Seq(ItemSet), NEW parts \in Seq(PartSet),
         NEW o \in BOOLEAN, NEW g \in BOOLEAN, NEW m \in Modes,
         InWord(r) = Rd(items, It("word", parts, o, g), m)
  PROVE  ReadSymbol(ln, r, p) = LoneRead(r, items, parts, g, m, ln[p])
<1>0. ln[p] \in Symbol
  BY DEF Symbol
<1>1. PICK w : w = ReadBare(r, ln[p])
  OBVIOUS
<1>2. PICK all : all = With(parts, "bare", <<ln[p]>>)
  OBVIOUS
<1>3. w = Rd(items, It("word", all, o, g), m)
  BY <1>0, <1>1, <1>2, ReadBareIs
<1>4. PICK h : h = (IF r.item.open THEN g ELSE r.item.kind = "word")
  OBVIOUS
<1>5. ReadSymbol(ln, r, p) = [w EXCEPT !.item.open = TRUE,
                                !.item.glued = IF r.item.open THEN @ ELSE r.item.kind = "word"]
  BY <1>1 DEF ReadSymbol
<1>6. PICK t : t = [kind |-> "word", parts |-> all, open |-> o, glued |-> g]
  OBVIOUS
<1>7. w = [items |-> items, item |-> t, mode |-> m]
  BY <1>3, <1>6 DEF Rd, It
<1>a. ReadSymbol(ln, r, p) = [w EXCEPT !.item.open = TRUE, !.item.glued = h]
  <2>1. w.item.glued = g
    BY <1>6, <1>7
  <2> QED
    BY <1>4, <1>5, <2>1
<1>b. [[items |-> items, item |-> t, mode |-> m] EXCEPT !.item.open = TRUE, !.item.glued = h]
        = [items |-> items,
           item |-> [kind |-> "word", parts |-> all, open |-> TRUE, glued |-> h],
           mode |-> m]
  <2>0. PICK yes : yes = TRUE
    OBVIOUS
  <2>1. PICK t1 : t1 = [kind |-> "word", parts |-> all, open |-> yes, glued |-> g]
    OBVIOUS
  <2>2. PICK t2 : t2 = [kind |-> "word", parts |-> all, open |-> yes, glued |-> h]
    OBVIOUS
  <2>3. [t EXCEPT !.open = yes] = t1
    <3>1. [[kind |-> "word", parts |-> all, open |-> o, glued |-> g] EXCEPT !.open = yes]
            = [kind |-> "word", parts |-> all, open |-> yes, glued |-> g]
      OBVIOUS
    <3> QED
      BY <1>6, <2>1, <3>1, Zenon
  <2>4. [t1 EXCEPT !.glued = h] = t2
    <3>1. [[kind |-> "word", parts |-> all, open |-> yes, glued |-> g] EXCEPT !.glued = h]
            = [kind |-> "word", parts |-> all, open |-> yes, glued |-> h]
      OBVIOUS
    <3> QED
      BY <2>1, <2>2, <3>1, Zenon
  <2>5. PICK x : x = [items |-> items, item |-> t, mode |-> m]
    OBVIOUS
  <2>6. PICK x1 : x1 = [items |-> items, item |-> t1, mode |-> m]
    OBVIOUS
  <2>7. [x EXCEPT !.item = t1] = x1
    <3>1. [[items |-> items, item |-> t, mode |-> m] EXCEPT !.item = t1]
            = [items |-> items, item |-> t1, mode |-> m]
      OBVIOUS
    <3> QED
      BY <2>5, <2>6, <3>1, Zenon
  <2>8. [x1 EXCEPT !.item = t2] = [items |-> items, item |-> t2, mode |-> m]
    <3>1. [[items |-> items, item |-> t1, mode |-> m] EXCEPT !.item = t2]
            = [items |-> items, item |-> t2, mode |-> m]
      OBVIOUS
    <3> QED
      BY <2>6, <3>1, Zenon
  <2>9. x.item = t /\ x1.item = t1
    BY <2>5, <2>6
  <2>10. [x EXCEPT !.item.open = yes] = [x EXCEPT !.item = t1]
    BY <2>3, <2>9
  <2>11. [x1 EXCEPT !.item.glued = h] = [x1 EXCEPT !.item = t2]
    BY <2>4, <2>9
  <2>12. [x EXCEPT !.item.open = yes, !.item.glued = h]
           = [[x EXCEPT !.item.open = yes] EXCEPT !.item.glued = h]
    OBVIOUS
  <2> QED
    BY <2>0, <2>2, <2>5, <2>7, <2>8, <2>10, <2>11, <2>12, Zenon
<1>8. ReadSymbol(ln, r, p)
        = [items |-> items,
           item |-> [kind |-> "word", parts |-> all, open |-> TRUE, glued |-> h],
           mode |-> m]
  BY <1>7, <1>a, <1>b
<1> QED
  BY <1>2, <1>4, <1>8 DEF Rd, It, LoneRead

LEMMA ReadSpace ==
  ASSUME NEW ln, NEW p, NEW r, r.mode = "bare", ln[p] = Space
  PROVE  ReadSymbol(ln, r, p) = Finished(r)
BY DEF ReadSymbol, Space, Quote

BareSymbol == Symbol \ (Quote \cup Operator \cup {Space})

LEMMA ReadLetter ==
  ASSUME NEW ln, NEW p, NEW s, s = ln[p], NEW r, r.mode = "bare", s \in BareSymbol,
         NEW items \in Seq(ItemSet), NEW parts \in Seq(PartSet),
         NEW o \in BOOLEAN, NEW g \in BOOLEAN, NEW m \in Modes,
         InWord(r) = Rd(items, It("word", parts, o, g), m)
  PROVE  ReadSymbol(ln, r, p) = Rd(items, It("word", With(parts, "bare", <<s>>), o, g), m)
<1>1. ReadSymbol(ln, r, p) = ReadBare(r, s)
  BY DEF ReadSymbol, BareSymbol
<1>2. s \in Symbol
  BY DEF BareSymbol
<1> QED
  BY <1>1, <1>2, ReadBareIs

LEMMA ReadOperator ==
  ASSUME NEW ln, NEW p, NEW r \in ReaderSet, r.mode = "bare", ln[p] \in Operator,
         ~ (r.item.kind = "op" /\ Text(r.item) = <<ln[p]>> /\ ln[p] # "|")
  PROVE  ReadSymbol(ln, r, p)
           = Rd(Ended(r), It("op", <<Part("bare", <<ln[p]>>)>>, FALSE, FALSE), "bare")
<1>1. ln[p] \notin Quote /\ ln[p] # Space
  BY DEF Operator, Quote, Space
<1>2. ReadSymbol(ln, r, p)
        = [Finished(r) EXCEPT !.item = Item("op", <<Part("bare", <<ln[p]>>)>>)]
  BY <1>1 DEF ReadSymbol
<1>3. PICK t : t = It("op", <<Part("bare", <<ln[p]>>)>>, FALSE, FALSE)
  OBVIOUS
<1>4. Item("op", <<Part("bare", <<ln[p]>>)>>) = t
  BY <1>3 DEF Item, It
<1>5. PICK e : e = Ended(r)
  OBVIOUS
<1>6. Finished(r) = [items |-> e, item |-> Nothing, mode |-> "bare"]
  BY <1>5, FinishedIs DEF Rd
<1>7. [[items |-> e, item |-> Nothing, mode |-> "bare"] EXCEPT !.item = t]
        = [items |-> e, item |-> t, mode |-> "bare"]
  OBVIOUS
<1> QED
  BY <1>2, <1>3, <1>4, <1>5, <1>6, <1>7, Zenon DEF Rd

\* The second symbol of an operator.
LEMMA ReadOperatorAgain ==
  ASSUME NEW ln, NEW p, NEW items \in Seq(ItemSet), NEW s \in Operator, s # "|", ln[p] = s,
         NEW r, r = Rd(items, It("op", <<Part("bare", <<s>>)>>, FALSE, FALSE), "bare")
  PROVE  Reads(ln, r, p, Rd(items, It("op", <<Part("bare", <<s, s>>)>>, FALSE, FALSE), "bare"))
<1>1. s \in Symbol /\ s \notin Quote /\ s # Space
  BY DEF Operator, Quote, Space, Symbol
<1>2. PICK m \in Modes : m = "bare"
  BY DEF Modes
<1>3. <<s>> \in Seq(Symbol) /\ <<>> \in Seq(Symbol) /\ <<>> \in Seq(PartSet)
  BY <1>1
<1>4. PICK a : a = Part(m, <<s>>)
  OBVIOUS
<1>5. PICK b : b = Part(m, <<s, s>>)
  OBVIOUS
<1>a. s \in Symbol
  BY <1>1
<1>6. Append(<<s>>, s) = <<s, s>> /\ <<s, s>> \in Seq(Symbol)
  <2>1. PICK u : u = Append(<<s>>, s)
    OBVIOUS
  <2>2. PICK v : v = <<s, s>>
    OBVIOUS
  <2>3. u \in Seq(Symbol) /\ Len(u) = 2 /\ u[1] = s /\ u[2] = s
    BY <1>a, <2>1
  <2>4. v \in Seq(Symbol) /\ Len(v) = 2 /\ v[1] = s /\ v[2] = s
    BY <1>a, <2>2
  <2>5. \A k \in 1..Len(u) : u[k] = v[k]
    BY <2>3, <2>4
  <2>6. u = v
    BY <2>3, <2>4, <2>5, SeqEqual
  <2> QED
    BY <2>1, <2>2, <2>4, <2>6
<1>7. a \in PartSet /\ b \in PartSet
  BY <1>3, <1>4, <1>5, <1>6, PartIs
<1>8. Append(<<>>, a) = <<a>> /\ Append(<<>>, b) = <<b>>
  OBVIOUS
<1>9. PICK no \in BOOLEAN : no = FALSE
  OBVIOUS
<1>10. Read(Rd(items, It("op", Append(<<>>, a), no, no), m), s)
         = Rd(items, It("op", Append(<<>>, Part(m, Append(<<s>>, s))), no, no), m)
  <2>1. PICK none \in Seq(PartSet) : none = <<>>
    BY <1>3
  <2>2. PICK w \in Seq(Symbol) : w = <<s>>
    BY <1>3
  <2>3. PICK kind : kind = "op"
    OBVIOUS
  <2>4. Read(Rd(items, It(kind, Append(none, Part(m, w)), no, no), m), s)
          = Rd(items, It(kind, Append(none, Part(m, Append(w, s))), no, no), m)
    BY <1>a, ReadIs
  <2> QED
    BY <1>4, <2>1, <2>2, <2>3, <2>4
<1>11. Read(r, s) = Rd(items, It("op", <<b>>, no, no), m)
  BY <1>2, <1>4, <1>5, <1>6, <1>8, <1>9, <1>10
<1>12. r.mode = "bare" /\ r.item.kind = "op" /\ r.item.parts = <<a>>
  BY <1>2, <1>4 DEF Rd, It
<1>13. Text(r.item) = <<s>>
  <2>1. TextOf(Append(<<>>, Part(m, <<s>>))) = TextOf(<<>>) \o <<s>>
    BY <1>3, TextMore
  <2>2. TextOf(<<a>>) = <<>> \o <<s>>
    BY <1>4, <1>8, <2>1, TextNone
  <2>3. <<>> \o <<s>> = <<s>>
    BY <1>3, ConcatEmptySeq
  <2> QED
    BY <1>12, <2>2, <2>3 DEF Text, TextOf
<1>14. ReadSymbol(ln, r, p) = Read(r, s)
  BY <1>1, <1>12, <1>13 DEF ReadSymbol
<1> QED
  BY <1>2, <1>5, <1>9, <1>11, <1>14 DEF Reads

\* In quotes.
LEMMA ReadInside ==
  ASSUME NEW ln, NEW p, NEW items \in Seq(ItemSet), NEW front \in Seq(PartSet),
         NEW m \in Modes, m # "bare", NEW w \in Seq(Symbol), NEW o \in BOOLEAN, NEW g \in BOOLEAN,
         NEW s \in Symbol, s = ln[p], s # m,
         NEW r, r = Rd(items, It("word", Append(front, Part(m, w)), o, g), m)
  PROVE  ReadSymbol(ln, r, p)
           = Rd(items, It("word", Append(front, Part(m, Append(w, s))), o, g), m)
<1>1. r.mode = m
  BY DEF Rd
<1>2. ReadSymbol(ln, r, p) = Read(r, s)
  BY <1>1 DEF ReadSymbol
<1>3. Read(r, s) = Rd(items, It("word", Append(front, Part(m, Append(w, s))), o, g), m)
  BY ReadIs
<1> QED
  BY <1>2, <1>3

LEMMA ReadClosing ==
  ASSUME NEW ln, NEW p, NEW items, NEW t, NEW m \in Modes, m # "bare", ln[p] = m,
         NEW r, r = Rd(items, t, m), NEW bare, bare = "bare"
  PROVE  ReadSymbol(ln, r, p) = Rd(items, t, bare)
<1>1. ReadSymbol(ln, r, p) = [r EXCEPT !.mode = "bare"]
  BY DEF ReadSymbol, Rd
<1>2. r = [items |-> items, item |-> t, mode |-> m]
  BY DEF Rd
<1>3. [[items |-> items, item |-> t, mode |-> m] EXCEPT !.mode = "bare"]
        = [items |-> items, item |-> t, mode |-> "bare"]
  OBVIOUS
<1> QED
  BY <1>1, <1>2, <1>3, Zenon DEF Rd

\* The states of the reader between two symbols.
Readers == {r \in ReaderSet : r.mode # "bare" => r.item.kind = "word" /\ r.item.parts # <<>>}

LEMMA ReadTyped ==
  ASSUME NEW r \in ReaderSet, r.item.parts # <<>>, NEW s \in Symbol
  PROVE  /\ Read(r, s) \in ReaderSet /\ Read(r, s).item.kind = r.item.kind
         /\ Read(r, s).item.parts # <<>>
<1>1. r = Rd(r.items, r.item, r.mode) /\ r.items \in Seq(ItemSet) /\ r.mode \in Modes
      /\ r.item \in ItemSet
  BY ReaderIs
<1>2. PICK kind, parts, o, g : kind = r.item.kind /\ parts = r.item.parts
                               /\ o = r.item.open /\ g = r.item.glued
  OBVIOUS
<1>3. /\ kind \in {"none", "word", "op"} /\ parts \in Seq(PartSet) /\ o \in BOOLEAN
      /\ g \in BOOLEAN /\ (kind = "none" => parts = <<>>)
      /\ (kind # "word" => ~ o /\ ~ g)
      /\ r.item = It(kind, parts, o, g)
  BY <1>1, <1>2 DEF ItemSet, It
<1>4. PICK front \in Seq(PartSet), a \in PartSet : parts = Append(front, a)
  BY <1>2, <1>3, SequenceEmptyOrAppend, SMTT(40)
<1>5. PICK m, w : m = a.mode /\ w = a.text
  OBVIOUS
<1>6. m \in Modes /\ w \in Seq(Symbol) /\ a = Part(m, w)
  BY <1>5 DEF PartSet, Part
<1>7. PICK items, mode : items = r.items /\ mode = r.mode
  OBVIOUS
<1>8. r = Rd(items, It(kind, Append(front, Part(m, w)), o, g), mode)
  BY <1>1, <1>3, <1>4, <1>6, <1>7
<1>9. items \in Seq(ItemSet) /\ mode \in Modes
  BY <1>1, <1>7
<1>10. PICK q : q = Part(m, Append(w, s))
  OBVIOUS
<1>a. Append(w, s) \in Seq(Symbol)
  BY <1>6
<1>b. m \in Modes /\ w \in Seq(Symbol)
  BY <1>6
<1>11. q \in PartSet
  BY <1>a, <1>b, <1>10, PartIs
<1>12. PICK all : all = Append(front, q)
  OBVIOUS
<1>13. Read(r, s) = Rd(items, It(kind, all, o, g), mode)
  <2>1. Read(Rd(items, It(kind, Append(front, Part(m, w)), o, g), mode), s)
          = Rd(items, It(kind, Append(front, Part(m, Append(w, s))), o, g), mode)
    <3>1. o \in BOOLEAN /\ g \in BOOLEAN
      BY <1>3
    <3> QED
      BY <1>b, <1>9, <3>1, ReadIs
  <2> QED
    BY <1>8, <1>10, <1>12, <2>1
<1>14. all \in Seq(PartSet) /\ all # <<>>
  BY <1>11, <1>12
<1>15. kind # "none"
  BY <1>2, <1>3
<1>16. It(kind, all, o, g) \in ItemSet
  BY <1>3, <1>14, <1>15 DEF It, ItemSet
<1>17. /\ Read(r, s) \in ReaderSet
       /\ Read(r, s).item = It(kind, all, o, g)
  BY <1>9, <1>13, <1>16, RdIs
<1> QED
  BY <1>2, <1>14, <1>17 DEF It

LEMMA PartsGrow ==
  ASSUME NEW all \in Seq(PartSet), NEW q \in Modes, NEW v \in Seq(Symbol)
  PROVE  Append(all, Part(q, v)) \in Seq(PartSet) /\ Append(all, Part(q, v)) # <<>>
<1>1. PICK a \in PartSet : a = Part(q, v)
  BY PartIs
<1> HIDE DEF PartSet
<1>2. Append(all, a) \in Seq(PartSet) /\ Append(all, a) # <<>>
  OBVIOUS
<1> QED
  BY <1>1, <1>2, Zenon

LEMMA ReadSymbolTyped ==
  ASSUME NEW ln \in Seq(Symbol), NEW p \in 1..Len(ln), NEW r \in Readers
  PROVE  ReadSymbol(ln, r, p) \in Readers
<1>1. r \in ReaderSet /\ (r.mode # "bare" => r.item.kind = "word" /\ r.item.parts # <<>>)
  BY DEF Readers
<1>2. PICK s \in Symbol : s = ln[p]
  OBVIOUS
<1>3. /\ r = Rd(r.items, r.item, r.mode) /\ r.items \in Seq(ItemSet)
      /\ r.item \in ItemSet /\ r.mode \in Modes /\ Ended(r) \in Seq(ItemSet)
  BY <1>1, ReaderIs
<1>4. PICK items \in Seq(ItemSet), parts \in Seq(PartSet), o \in BOOLEAN, g \in BOOLEAN :
           InWord(r) = Rd(items, It("word", parts, o, g), r.mode)
  BY <1>1, InWordIs
<1>5. PICK bare \in Modes : bare = "bare"
  BY DEF Modes
<1>6. \A all \in Seq(PartSet), x \in BOOLEAN, y \in BOOLEAN, m \in Modes :
        /\ Rd(items, It("word", all, x, y), bare) \in Readers
        /\ all # <<>> => Rd(items, It("word", all, x, y), m) \in Readers
  <2> SUFFICES ASSUME NEW all \in Seq(PartSet), NEW x \in BOOLEAN, NEW y \in BOOLEAN,
                      NEW m \in Modes
               PROVE  /\ Rd(items, It("word", all, x, y), bare) \in Readers
                      /\ all # <<>> => Rd(items, It("word", all, x, y), m) \in Readers
    OBVIOUS
  <2>1. PICK t \in ItemSet : t = It("word", all, x, y)
    BY ItIs
  <2>2. t.kind = "word" /\ t.parts = all
    BY <2>1 DEF It
  <2>3. /\ Rd(items, t, bare) \in ReaderSet /\ Rd(items, t, bare).mode = "bare"
        /\ Rd(items, t, m) \in ReaderSet /\ Rd(items, t, m).item = t
    BY <1>5, RdIs
  <2> QED
    BY <2>1, <2>2, <2>3 DEF Readers
<1>7. \A t \in ItemSet : \A ii \in Seq(ItemSet) : Rd(ii, t, bare) \in Readers
  BY <1>5, RdIs DEF Readers
<1>8. \A all \in Seq(PartSet), q \in Modes, v \in Seq(Symbol) :
        Append(all, Part(q, v)) \in Seq(PartSet) /\ Append(all, Part(q, v)) # <<>>
  BY PartsGrow
<1>9. <<s>> \in Seq(Symbol) /\ <<>> \in Seq(Symbol)
  OBVIOUS
<1>10. With(parts, bare, <<s>>) \in Seq(PartSet)
  BY <1>9, WithTyped
<1>11. CASE r.mode # "bare"
  <2>1. PICK v : v = Read(r, s)
    OBVIOUS
  <2>2. v \in ReaderSet /\ v.item.kind = "word" /\ v.item.parts # <<>>
    BY <1>1, <1>11, <2>1, ReadTyped
  <2>3. CASE s = r.mode
    <3>1. ReadSymbol(ln, r, p) = [r EXCEPT !.mode = "bare"]
      BY <1>2, <1>11, <2>3 DEF ReadSymbol
    <3>2. [r EXCEPT !.mode = "bare"] = Rd(r.items, r.item, bare)
      BY <1>1, <1>5 DEF ReaderSet, Rd
    <3> QED
      BY <1>3, <1>7, <3>1, <3>2
  <2>4. CASE s # r.mode
    <3>1. ReadSymbol(ln, r, p) = v
      BY <1>2, <1>11, <2>1, <2>4 DEF ReadSymbol
    <3> QED
      BY <2>2, <3>1 DEF Readers
  <2> QED
    BY <2>3, <2>4
<1>12. CASE r.mode = "bare" /\ s \in Quote
  <2>0. PICK q \in Modes : q = s
    BY <1>12 DEF Quote, Modes
  <2>1. CASE Closes(ln, p)
    <3>1. ReadSymbol(ln, r, p) = Rd(items, It("word", Append(parts, Part(q, <<>>)), o, g), q)
      BY <1>2, <1>3, <1>4, <1>12, <2>0, <2>1, ReadQuote
    <3> QED
      BY <1>6, <1>8, <1>9, <3>1
  <2>2. CASE ~ Closes(ln, p)
    <3>1. PICK h : h = (IF r.item.open THEN g ELSE r.item.kind = "word")
      OBVIOUS
    <3>2. h \in BOOLEAN
      BY <3>1
    <3>4. PICK yes \in BOOLEAN : yes = TRUE
      OBVIOUS
    <3>3. ReadSymbol(ln, r, p) = Rd(items, It("word", With(parts, "bare", <<s>>), yes, h), r.mode)
      <4>1. PICK m \in Modes : m = r.mode
        BY <1>3
      <4>2. r.mode = "bare" /\ ln[p] \in Quote
        BY <1>2, <1>12
      <4>3. InWord(r) = Rd(items, It("word", parts, o, g), m)
        BY <1>4, <4>1
      <4>4. ReadSymbol(ln, r, p) = LoneRead(r, items, parts, g, m, ln[p])
        BY <2>2, <4>2, <4>3, ReadLone
      <4> QED
        BY <1>2, <3>1, <3>4, <4>1, <4>4 DEF LoneRead
    <3> QED
      BY <1>5, <1>6, <1>10, <1>12, <3>2, <3>3, <3>4
  <2> QED
    BY <2>1, <2>2
<1>13. CASE r.mode = "bare" /\ s = Space
  <2>1. ReadSymbol(ln, r, p) = Rd(Ended(r), Nothing, r.mode)
    BY <1>1, <1>2, <1>13, ReadSpace, FinishedIs
  <2>2. Nothing \in ItemSet
    BY DEF Nothing, It, ItemSet
  <2> QED
    BY <1>3, <1>5, <1>7, <1>13, <2>1, <2>2
<1>14. CASE r.mode = "bare" /\ s \in Operator
  <2>1. CASE r.item.kind = "op" /\ Text(r.item) = <<s>> /\ s # "|"
    <3>1. s \notin Quote /\ s # Space
      BY <1>14 DEF Operator, Quote, Space
    <3>2. ReadSymbol(ln, r, p) = Read(r, s)
      BY <1>2, <1>14, <2>1, <3>1 DEF ReadSymbol
    <3>3. r.item.parts # <<>>
      <4>1. Text(r.item) = TextOf(r.item.parts)
        BY DEF Text, TextOf
      <4>2. <<s>> # <<>>
        OBVIOUS
      <4> QED
        BY <2>1, <4>1, <4>2, TextNone, Zenon
    <3>4. Read(r, s) \in ReaderSet
      BY <1>1, <3>3, ReadTyped
    <3>5. Read(r, s).mode = "bare"
      BY <1>1, <1>14 DEF Read, ReaderSet
    <3> QED
      BY <3>2, <3>4, <3>5 DEF Readers
  <2>2. CASE ~ (r.item.kind = "op" /\ Text(r.item) = <<s>> /\ s # "|")
    <3>1. ReadSymbol(ln, r, p)
            = Rd(Ended(r), It("op", <<Part("bare", <<s>>)>>, FALSE, FALSE), "bare")
      BY <1>1, <1>2, <1>14, <2>2, ReadOperator
    <3>2. PICK a \in PartSet : a = Part(bare, <<s>>)
      BY <1>9, PartIs
    <3>3. <<a>> \in Seq(PartSet)
      OBVIOUS
    <3>4. It("op", <<a>>, FALSE, FALSE) \in ItemSet
      BY <3>3 DEF It, ItemSet
    <3> QED
      BY <1>3, <1>5, <1>7, <3>1, <3>2, <3>4
  <2> QED
    BY <2>1, <2>2
<1>15. CASE r.mode = "bare" /\ s \notin Quote /\ s \notin Operator /\ s # Space
  <2>1. s \in BareSymbol
    BY <1>15 DEF BareSymbol
  <2>2. ReadSymbol(ln, r, p) = Rd(items, It("word", With(parts, "bare", <<s>>), o, g), r.mode)
    <3>1. PICK m \in Modes : m = r.mode
      BY <1>3
    <3>2. r.mode = "bare" /\ InWord(r) = Rd(items, It("word", parts, o, g), m)
      BY <1>4, <1>15, <3>1
    <3>3. ReadSymbol(ln, r, p) = Rd(items, It("word", With(parts, "bare", <<s>>), o, g), m)
      BY <1>2, <2>1, <3>1, <3>2, ReadLetter
    <3> QED
      BY <3>1, <3>3
  <2> QED
    BY <1>5, <1>6, <1>10, <1>15, <2>2
<1> QED
  BY <1>11, <1>12, <1>13, <1>14, <1>15

-----------------------------------------------------------------------------
(* The reader on its way through a line. *)

\* R[p] is the reader behind the symbol p.
ReadersOf(ln) ==
  {R \in [0..Len(ln) -> Readers] :
     R[0] = Unread /\ \A p \in 1..Len(ln) : R[p] = ReadSymbol(ln, R[p - 1], p)}

LEMMA UnreadIs ==
  /\ Unread \in Readers /\ Unread.mode = "bare" /\ Unread.item.kind = "none"
  /\ Ended(Unread) = <<>>
<1>1. PICK bare \in Modes : bare = "bare"
  BY DEF Modes
<1>2. Unread = Rd(<<>>, Nothing, bare)
  BY <1>1 DEF Unread, Rd, Nothing, It, Item
<1>3. Nothing \in ItemSet /\ Nothing.kind = "none"
  BY DEF Nothing, It, ItemSet
<1>4. PICK none : none = <<>>
  OBVIOUS
<1>5. none \in Seq(ItemSet)
  BY <1>4
<1>6. PICK t \in ItemSet : t = Nothing
  BY <1>3
<1>7. /\ Rd(none, t, bare) \in ReaderSet /\ Rd(none, t, bare).items = none
      /\ Rd(none, t, bare).item = t /\ Rd(none, t, bare).mode = bare
  BY <1>5, RdIs
<1> QED
  BY <1>1, <1>2, <1>3, <1>4, <1>6, <1>7 DEF Readers, Ended

LEMMA ReadersExist ==
  ASSUME NEW ln \in Seq(Symbol)
  PROVE  \E R \in ReadersOf(ln) : Items(ln) = Ended(R[Len(ln)])
<1> DEFINE n == Len(ln)
           U == Readers
           I == [j \in 0..n |-> Readers]
           x == Unread
           g == [p \in U \X (1..n) |-> ReadSymbol(ln, p[1], p[2])]
<1>1. n \in Nat
  OBVIOUS
<1>2. x \in Readers
  BY UnreadIs
<1>3. \A j \in 0..n : I[j] = Readers
  OBVIOUS
<1>4. \A j \in 1..n : j \in 0..n /\ j - 1 \in 0..n
  BY <1>1
<1>5. \A j \in 1..n : \A y \in Readers :
        g[<<y, j>>] = ReadSymbol(ln, y, j) /\ ReadSymbol(ln, y, j) \in Readers
  <2>1. \A y \in U : \A j \in 1..n : g[<<y, j>>] = ReadSymbol(ln, y, j)
    OBVIOUS
  <2>2. \A j \in 1..n : \A y \in Readers : ReadSymbol(ln, y, j) \in Readers
    BY ReadSymbolTyped
  <2> QED
    BY <2>1, <2>2
<1>b. 0 \in 0..n /\ n \in 0..n
  BY <1>1
<1> HIDE DEF I, g, x, n
<1>6. PICK f : f \in Loops(U, n, I, x, g)
  <2>1. x \in I[0] /\ \A j \in 0..n : I[j] \subseteq U
    BY <1>2, <1>3, <1>b
  <2>2. \A j \in 1..n : \A y \in I[j - 1] : g[<<y, j>>] \in I[j]
    <3> SUFFICES ASSUME NEW j \in 1..n, NEW y \in I[j - 1]
                 PROVE  g[<<y, j>>] \in I[j]
      OBVIOUS
    <3>1. y \in Readers /\ I[j] = Readers
      BY <1>3, <1>4
    <3> QED
      BY <1>5, <3>1
  <2> QED
    BY <1>1, <2>1, <2>2, Iterates
<1>7. f = [j \in 0..n |-> IF j = 0 THEN x ELSE ReadSymbol(ln, f[j - 1], j)]
  <2>1. \A j \in 1..n : f[j] = ReadSymbol(ln, f[j - 1], j)
    BY <1>3, <1>4, <1>5, <1>6 DEF Loops
  <2>2. \A j \in 0..n : f[j] = IF j = 0 THEN x ELSE ReadSymbol(ln, f[j - 1], j)
    BY <1>1, <1>6, <2>1 DEF Loops
  <2> QED
    BY <1>6, <2>2 DEF Loops
<1>8. PICK R : /\ R = [j \in 0..n |-> IF j = 0 THEN x ELSE ReadSymbol(ln, R[j - 1], j)]
               /\ Turns(LAMBDA r, p : ReadSymbol(ln, r, p), x, n) = R[n]
  BY <1>7 DEF Turns
<1>9. \A j \in 0..n : R[j] = IF j = 0 THEN x ELSE ReadSymbol(ln, R[j - 1], j)
  BY <1>8
<1> DEFINE T == {j \in 0..n : R[j] \in Readers}
<1>10. 0 \in T
  BY <1>2, <1>9, <1>b
<1>11. ASSUME NEW j \in 1..n, j - 1 \in T
       PROVE  j \in T
  <2>1. j \in 0..n /\ j # 0 /\ R[j - 1] \in Readers
    BY <1>1, <1>11
  <2>2. R[j] = ReadSymbol(ln, R[j - 1], j)
    BY <1>9, <2>1
  <2> QED
    BY <1>5, <2>1, <2>2
<1>12. \A j \in 0..n : R[j] \in Readers
  <2>1. \A j \in 0..n : j \in T
    <3> HIDE DEF T
    <3> QED
      BY <1>1, <1>10, <1>11, UpTo
  <2> QED
    BY <2>1
<1>13. R \in ReadersOf(ln)
  <2>1. R \in [0..n -> Readers]
    BY <1>8, <1>12
  <2>2. R[0] = Unread /\ \A j \in 1..n : R[j] = ReadSymbol(ln, R[j - 1], j)
    BY <1>1, <1>4, <1>9, <1>b DEF x
  <2> QED
    BY <2>1, <2>2 DEF ReadersOf, n
<1>14. Items(ln) = Finished(R[n]).items
  BY <1>8 DEF Items, x, n
<1>15. Finished(R[n]).items = Ended(R[n])
  <2>1. PICK r \in ReaderSet : r = R[n]
    BY <1>12, <1>b DEF Readers
  <2>2. Finished(r) = Rd(Ended(r), Nothing, r.mode)
    BY FinishedIs
  <2> QED
    BY <2>1, <2>2 DEF Rd
<1> QED
  BY <1>13, <1>14, <1>15 DEF n

LEMMA ReaderAt ==
  ASSUME NEW ln \in Seq(Symbol), NEW R \in ReadersOf(ln), NEW p \in 0..Len(ln)
  PROVE  /\ R[p] \in Readers /\ R[p] \in ReaderSet
         /\ p > 0 => p \in 1..Len(ln) /\ R[p] = ReadSymbol(ln, R[p - 1], p)
BY DEF ReadersOf, Readers

\* One symbol more of a piece.
LEMMA PieceMore ==
  ASSUME NEW X, NEW s \in Seq(X), NEW k \in 1..Len(s), NEW m \in k..Len(s)
  PROVE  /\ SubSeq(s, k, m) = SubSeq(s, k, m - 1) \o <<s[m]>>
         /\ SubSeq(s, k, k - 1) = <<>> /\ SubSeq(s, k, k) = <<s[k]>>
<1>0. Len(s) \in Nat /\ k \in Nat /\ m \in Nat /\ k <= m /\ m <= Len(s)
  OBVIOUS
<1>1. PICK u : u = SubSeq(s, k, m)
  OBVIOUS
<1>2. PICK v : v = SubSeq(s, k, m - 1)
  OBVIOUS
<1>3. /\ u \in Seq(X) /\ Len(u) = m - k + 1
      /\ \A j \in 1..(m - k + 1) : u[j] = s[k + j - 1]
  <2>1. k \in 1..(Len(s) + 1) /\ m \in (k - 1)..Len(s)
    BY <1>0
  <2> QED
    BY <1>1, <2>1, PieceIs
<1>4. /\ v \in Seq(X) /\ Len(v) = m - k
      /\ \A j \in 1..(m - k) : v[j] = s[k + j - 1]
  <2>1. k \in 1..(Len(s) + 1) /\ m - 1 \in (k - 1)..Len(s) /\ (m - 1) - k + 1 = m - k
    BY <1>0
  <2> QED
    BY <1>2, <2>1, PieceIs
<1>5. s[m] \in X /\ s[k] \in X
  BY <1>0
<1>6. PICK w : w = <<s[m]>>
  OBVIOUS
<1>7. w \in Seq(X) /\ Len(w) = 1 /\ w[1] = s[m]
  BY <1>5, <1>6
<1>8. /\ v \o w \in Seq(X) /\ Len(v \o w) = Len(v) + Len(w)
      /\ \A j \in 1..(Len(v) + Len(w)) : (v \o w)[j] = IF j <= Len(v) THEN v[j] ELSE w[j - Len(v)]
  BY <1>4, <1>7, ConcatProperties
<1>9. u = v \o w
  <2>1. Len(u) = Len(v \o w)
    BY <1>0, <1>3, <1>4, <1>7, <1>8
  <2>2. \A j \in 1..Len(u) : u[j] = (v \o w)[j]
    <3> SUFFICES ASSUME NEW j \in 1..(m - k + 1)
                 PROVE  u[j] = (v \o w)[j]
      BY <1>3
    <3>1. j \in 1..(m - k) \/ j = m - k + 1
      BY <1>0
    <3>2. CASE j \in 1..(m - k)
      BY <1>0, <1>3, <1>4, <1>7, <1>8, <3>2
    <3>3. CASE j = m - k + 1
      <4>1. k + j - 1 = m /\ j - (m - k) = 1 /\ ~ (j <= m - k)
        BY <1>0, <3>3
      <4> QED
        BY <1>0, <1>3, <1>4, <1>7, <1>8, <4>1
    <3> QED
      BY <3>1, <3>2, <3>3
  <2> QED
    BY <1>3, <1>8, <2>1, <2>2, SeqEqual
<1>10. SubSeq(s, k, k - 1) = <<>>
  BY <1>0, SubSeqEmpty
<1>11. SubSeq(s, k, k) = <<s[k]>>
  <2>1. k \in 1..(Len(s) + 1) /\ k \in (k - 1)..Len(s) /\ k - k + 1 = 1 /\ k + 1 - 1 = k
    BY <1>0
  <2>2. PICK x : x = SubSeq(s, k, k)
    OBVIOUS
  <2>3. x \in Seq(X) /\ Len(x) = 1 /\ x[1] = s[k]
    <3>1. /\ x \in Seq(X) /\ Len(x) = k - k + 1
          /\ \A j \in 1..(k - k + 1) : x[j] = s[k + j - 1]
      BY <2>1, <2>2, PieceIs
    <3>2. 1 \in 1..(k - k + 1)
      BY <2>1
    <3> QED
      BY <2>1, <3>1, <3>2
  <2>4. x = <<s[k]>>
    BY <1>5, <2>3
  <2> QED
    BY <2>2, <2>4
<1> QED
  BY <1>1, <1>2, <1>6, <1>9, <1>10, <1>11

\* The reader is in a word with these parts, or begins one.
InWordWith(r, items, parts, o, g) ==
  /\ items \in Seq(ItemSet) /\ parts \in Seq(PartSet) /\ o \in BOOLEAN /\ g \in BOOLEAN
  /\ r.mode = "bare" /\ InWord(r) = Rd(items, It("word", parts, o, g), "bare")

InQuote(r, items, front, m, w, o, g) ==
  /\ items \in Seq(ItemSet) /\ front \in Seq(PartSet) /\ o \in BOOLEAN /\ g \in BOOLEAN
  /\ m \in Quote /\ w \in Seq(Symbol)
  /\ r = Rd(items, It("word", Append(front, Part(m, w)), o, g), m)

WordRead(items, parts, o, g) == Rd(items, It("word", parts, o, g), "bare")

ReadTo(ln, R, a, e, next) == R[e] = next

LEMMA AgainInWord ==
  ASSUME NEW items \in Seq(ItemSet), NEW parts \in Seq(PartSet),
         NEW o \in BOOLEAN, NEW g \in BOOLEAN
  PROVE  InWordWith(WordRead(items, parts, o, g), items, parts, o, g)
<1>1. PICK bare : bare = "bare"
  OBVIOUS
<1>2. InWord(Rd(items, It("word", parts, o, g), bare)) = Rd(items, It("word", parts, o, g), bare)
  BY InWordAgain
<1>3. Rd(items, It("word", parts, o, g), bare).mode = bare
  BY DEF Rd
<1> QED
  BY <1>1, <1>2, <1>3 DEF InWordWith, WordRead

LEMMA LetterRead ==
  ASSUME NEW ln, NEW p, NEW s, s = ln[p], s \in BareSymbol,
         NEW r, NEW items, NEW parts, NEW o, NEW g, InWordWith(r, items, parts, o, g)
  PROVE  Reads(ln, r, p, WordRead(items, With(parts, "bare", <<s>>), o, g))
<1>2. PICK m \in Modes : m = "bare"
  BY DEF Modes
<1>3. /\ items \in Seq(ItemSet) /\ parts \in Seq(PartSet) /\ o \in BOOLEAN /\ g \in BOOLEAN
      /\ r.mode = "bare" /\ InWord(r) = Rd(items, It("word", parts, o, g), m)
  BY <1>2 DEF InWordWith
<1>4. s \in Symbol
  BY DEF BareSymbol
<1>5. ReadSymbol(ln, r, p) = ReadBare(r, s)
  BY <1>3 DEF ReadSymbol, BareSymbol
<1>6. ReadBare(r, s) = Rd(items, It("word", With(parts, "bare", <<s>>), o, g), m)
  BY <1>3, <1>4, ReadBareIs
<1> QED
  BY <1>2, <1>5, <1>6 DEF WordRead, Reads

LEMMA QuoteRead ==
  ASSUME NEW ln, NEW p, NEW q, ln[p] = q, q \in Quote, Closes(ln, p),
         NEW r, NEW items, NEW parts, NEW o, NEW g, InWordWith(r, items, parts, o, g)
  PROVE  InQuote(ReadSymbol(ln, r, p), items, parts, q, <<>>, o, g)
<1>1. q \in Modes
  BY DEF Quote, Modes
<1>2. PICK m \in Modes : m = "bare"
  BY DEF Modes
<1>3. /\ items \in Seq(ItemSet) /\ parts \in Seq(PartSet) /\ o \in BOOLEAN /\ g \in BOOLEAN
      /\ r.mode = "bare" /\ InWord(r) = Rd(items, It("word", parts, o, g), m)
  BY <1>2 DEF InWordWith
<1>4. ReadSymbol(ln, r, p) = Rd(items, It("word", Append(parts, Part(q, <<>>)), o, g), q)
  BY <1>1, <1>3, ReadQuote
<1>5. <<>> \in Seq(Symbol)
  OBVIOUS
<1> QED
  BY <1>3, <1>4, <1>5 DEF InQuote

LEMMA InsideRead ==
  ASSUME NEW ln, NEW p, NEW s \in Symbol, s = ln[p],
         NEW r, NEW items, NEW front, NEW m, NEW w, NEW o, NEW g,
         InQuote(r, items, front, m, w, o, g), s # m
  PROVE  InQuote(ReadSymbol(ln, r, p), items, front, m, w \o <<s>>, o, g)
<1>1. /\ items \in Seq(ItemSet) /\ front \in Seq(PartSet) /\ o \in BOOLEAN /\ g \in BOOLEAN
      /\ m \in Quote /\ w \in Seq(Symbol)
      /\ r = Rd(items, It("word", Append(front, Part(m, w)), o, g), m)
  BY DEF InQuote
<1>2. m \in Modes /\ m # "bare"
  BY <1>1 DEF Quote, Modes
<1>3. ReadSymbol(ln, r, p)
        = Rd(items, It("word", Append(front, Part(m, Append(w, s))), o, g), m)
  BY <1>1, <1>2, ReadInside
<1>4. Append(w, s) = w \o <<s>> /\ Append(w, s) \in Seq(Symbol)
  BY <1>1, OneMore
<1> QED
  BY <1>1, <1>3, <1>4 DEF InQuote

LEMMA QuoteClosed ==
  ASSUME NEW ln, NEW p, NEW r, NEW items, NEW front, NEW m, NEW w, NEW o, NEW g,
         InQuote(r, items, front, m, w, o, g), ln[p] = m
  PROVE  Reads(ln, r, p, WordRead(items, Append(front, Part(m, w)), o, g))
<1>1. /\ m \in Quote
      /\ r = Rd(items, It("word", Append(front, Part(m, w)), o, g), m)
  BY DEF InQuote
<1>2. m \in Modes /\ m # "bare"
  BY <1>1 DEF Quote, Modes
<1>3. PICK bare : bare = "bare"
  OBVIOUS
<1>4. PICK t : t = It("word", Append(front, Part(m, w)), o, g)
  OBVIOUS
<1>5. ReadSymbol(ln, r, p) = Rd(items, t, bare)
  BY <1>1, <1>2, <1>3, <1>4, ReadClosing
<1> QED
  BY <1>3, <1>4, <1>5 DEF WordRead, Reads

\* A run of symbols that words are made of.
LEMMA RunRead ==
  ASSUME NEW ln \in Seq(Symbol), NEW R \in ReadersOf(ln),
         NEW a \in 0..Len(ln), NEW e \in (a + 1)..Len(ln),
         \A j \in (a + 1)..e : ln[j] \in BareSymbol,
         NEW items, NEW parts, NEW o, NEW g, InWordWith(R[a], items, parts, o, g)
  PROVE  R[e] = WordRead(items, With(parts, "bare", SubSeq(ln, a + 1, e)), o, g)
<1> DEFINE P(k) == With(parts, "bare", SubSeq(ln, a + 1, a + 1 + k))
           n == e - a - 1
           T == {k \in 0..n : R[a + 1 + k] = WordRead(items, P(k), o, g)}
<1>0. Len(ln) \in Nat /\ a \in Nat /\ e \in Nat /\ a + 1 <= e /\ e <= Len(ln) /\ n \in Nat
  OBVIOUS
<1>a. /\ items \in Seq(ItemSet) /\ parts \in Seq(PartSet) /\ o \in BOOLEAN /\ g \in BOOLEAN
  BY DEF InWordWith
<1>b. PICK bare \in Modes : bare = "bare"
  BY DEF Modes
<1>1. 0 \in T
  <2>1. a + 1 \in (a + 1)..e /\ a + 1 \in 1..Len(ln) /\ a + 1 - 1 = a
        /\ a + 1 \in (a + 1)..Len(ln)
    BY <1>0
  <2>2. R[a + 1] = ReadSymbol(ln, R[a], a + 1)
    BY <2>1 DEF ReadersOf
  <2>5. ReadSymbol(ln, R[a], a + 1) = WordRead(items, With(parts, "bare", <<ln[a + 1]>>), o, g)
    <3>1. PICK s \in BareSymbol : s = ln[a + 1]
      BY <2>1
    <3>2. Reads(ln, R[a], a + 1, WordRead(items, With(parts, "bare", <<s>>), o, g))
      BY <3>1, LetterRead
    <3> QED
      BY <3>1, <3>2 DEF Reads
  <2>6. SubSeq(ln, a + 1, a + 1) = <<ln[a + 1]>>
    BY <2>1, PieceMore
  <2>7. a + 1 + 0 = a + 1 /\ 0 \in 0..n
    BY <1>0
  <2> QED
    BY <2>2, <2>5, <2>6, <2>7
<1>2. ASSUME NEW k \in 1..n, k - 1 \in T
      PROVE  k \in T
  <2>0. PICK p : p = a + 1 + k
    OBVIOUS
  <2>1. /\ p \in 1..Len(ln) /\ p - 1 = a + 1 + (k - 1) /\ p \in (a + 1)..Len(ln)
        /\ a + 1 \in 1..Len(ln) /\ p \in (a + 1)..e /\ k \in 0..n /\ p - 1 \in a..Len(ln)
        /\ a + 1 \in 1..(Len(ln) + 1)
    BY <1>0, <2>0
  <2>2. PICK r : r = R[p - 1]
    OBVIOUS
  <2>3. R[p] = ReadSymbol(ln, r, p)
    BY <2>1, <2>2 DEF ReadersOf
  <2>4. PICK v \in Seq(Symbol) : v = SubSeq(ln, a + 1, p - 1)
    <3>1. SubSeq(ln, a + 1, p - 1) \in Seq(Symbol)
      BY <2>1, <1>0, PieceIs
    <3> QED
      BY <3>1
  <2>5. PICK all \in Seq(PartSet) : all = With(parts, bare, v)
    BY <1>a, WithTyped
  <2>6. r = WordRead(items, all, o, g)
    BY <1>2, <1>b, <2>1, <2>2, <2>4, <2>5
  <2>7. InWordWith(r, items, all, o, g)
    BY <1>a, <2>6, AgainInWord
  <2>8. ReadSymbol(ln, r, p) = WordRead(items, With(all, "bare", <<ln[p]>>), o, g)
    <3>1. PICK s \in BareSymbol : s = ln[p]
      BY <2>1
    <3>2. Reads(ln, r, p, WordRead(items, With(all, "bare", <<s>>), o, g))
      BY <2>7, <3>1, LetterRead
    <3> QED
      BY <3>1, <3>2 DEF Reads
  <2>9. PICK u \in Seq(Symbol) : u = <<ln[p]>>
    <3>1. ln[p] \in Symbol
      BY <2>1
    <3>2. <<ln[p]>> \in Seq(Symbol)
      BY <3>1
    <3> QED
      BY <3>2, Zenon
  <2>10. With(With(parts, bare, v), bare, u) = With(parts, bare, v \o u)
    BY <1>a, <1>b, WithMore
  <2>11. SubSeq(ln, a + 1, p) = v \o u
    BY <2>1, <2>4, <2>9, PieceMore
  <2> QED
    BY <1>b, <2>0, <2>1, <2>3, <2>5, <2>8, <2>9, <2>10, <2>11
<1>3. \A k \in 0..n : k \in T
  <2> HIDE DEF T, n
  <2> QED
    BY <1>0, <1>1, <1>2, UpTo
<1>4. n \in 0..n /\ a + 1 + n = e
  BY <1>0
<1> QED
  BY <1>3, <1>4

\* A quote and what is between it and the next one of its sort.
LEMMA QuotedRead ==
  ASSUME NEW ln \in Seq(Symbol), NEW R \in ReadersOf(ln),
         NEW a \in 0..Len(ln), NEW e \in (a + 2)..Len(ln),
         NEW q \in Quote, ln[a + 1] = q, ln[e] = q,
         \A j \in (a + 2)..(e - 1) : ln[j] # q,
         NEW items, NEW parts, NEW o, NEW g, InWordWith(R[a], items, parts, o, g),
         NEW text, text = SubSeq(ln, a + 2, e - 1)
  PROVE  ReadTo(ln, R, a, e, WordRead(items, Append(parts, Part(q, text)), o, g))
<1> DEFINE n == e - a - 2
           T == {k \in 0..n :
                   InQuote(R[a + 1 + k], items, parts, q, SubSeq(ln, a + 2, a + 1 + k), o, g)}
<1>0. Len(ln) \in Nat /\ a \in Nat /\ e \in Nat /\ a + 2 <= e /\ e <= Len(ln) /\ n \in Nat
  OBVIOUS
<1>1. 0 \in T
  <2>1. a + 1 \in 1..Len(ln) /\ a + 1 - 1 = a /\ e \in (a + 1 + 1)..Len(ln)
    BY <1>0
  <2>2. R[a + 1] = ReadSymbol(ln, R[a], a + 1)
    BY <2>1 DEF ReadersOf
  <2>5. Closes(ln, a + 1)
    BY <2>1 DEF Closes
  <2>6. InQuote(ReadSymbol(ln, R[a], a + 1), items, parts, q, <<>>, o, g)
    BY <2>5, QuoteRead
  <2>7. SubSeq(ln, a + 2, a + 1 + 0) = <<>>
    BY <1>0, SubSeqEmpty
  <2>8. a + 1 + 0 = a + 1 /\ 0 \in 0..n
    BY <1>0
  <2> QED
    BY <2>2, <2>6, <2>7, <2>8
<1>2. ASSUME NEW k \in 1..n, k - 1 \in T
      PROVE  k \in T
  <2>0. PICK p : p = a + 1 + k
    OBVIOUS
  <2>1. /\ p \in 1..Len(ln) /\ p - 1 = a + 1 + (k - 1) /\ p \in (a + 2)..Len(ln)
        /\ a + 2 \in 1..Len(ln) /\ p \in (a + 2)..(e - 1) /\ k \in 0..n
    BY <1>0, <2>0
  <2>2. PICK r : r = R[p - 1]
    OBVIOUS
  <2>3. R[p] = ReadSymbol(ln, r, p)
    BY <2>1, <2>2 DEF ReadersOf
  <2>4. PICK v : v = SubSeq(ln, a + 2, p - 1)
    OBVIOUS
  <2>6. InQuote(r, items, parts, q, v, o, g)
    BY <1>2, <2>1, <2>2, <2>4
  <2>7. PICK s \in Symbol : s = ln[p] /\ s # q
    <3>1. ln[p] \in Symbol /\ ln[p] # q
      BY <2>1
    <3> QED
      BY <3>1
  <2>8. InQuote(ReadSymbol(ln, r, p), items, parts, q, v \o <<s>>, o, g)
    BY <2>6, <2>7, InsideRead
  <2>11. SubSeq(ln, a + 2, p) = v \o <<s>>
    BY <2>1, <2>4, <2>7, PieceMore
  <2> QED
    BY <2>0, <2>1, <2>3, <2>8, <2>11
<1>3. \A k \in 0..n : k \in T
  <2> HIDE DEF T, n
  <2> QED
    BY <1>0, <1>1, <1>2, UpTo
<1>4. n \in 0..n /\ a + 1 + n = e - 1 /\ e \in 1..Len(ln)
  BY <1>0
<1>5. PICK v : v = SubSeq(ln, a + 2, e - 1)
  OBVIOUS
<1>6. PICK r : r = R[e - 1]
  OBVIOUS
<1>7. InQuote(r, items, parts, q, v, o, g)
  BY <1>3, <1>4, <1>5, <1>6
<1>8. ReadSymbol(ln, r, e) = WordRead(items, Append(parts, Part(q, v)), o, g)
  <2>1. PICK p : p = e
    OBVIOUS
  <2>2. ln[p] = q
    BY <2>1
  <2>3. Reads(ln, r, p, WordRead(items, Append(parts, Part(q, v)), o, g))
    BY <1>7, <2>2, QuoteClosed
  <2> QED
    BY <2>1, <2>3 DEF Reads
<1>9. R[e] = ReadSymbol(ln, r, e)
  BY <1>4, <1>6 DEF ReadersOf
<1> QED
  BY <1>5, <1>8, <1>9 DEF ReadTo

-----------------------------------------------------------------------------
(* What the reader makes of a token. *)

\* The text a token of the line stands for, and a quote that is not closed.
Inner(v) == IF v[1] \in Quote /\ Len(v) > 1 THEN SubSeq(v, 2, Len(v) - 1) ELSE v
Lone(v) == v[1] \in Quote /\ Len(v) = 1

\* A word that begins with a quote that is not closed.
Ajar(item) == item.open /\ ~ item.glued

\* The quotes a token stands in, and the parts of the word it goes on with.
ModeOf(v) == IF v[1] \in Quote THEN v[1] ELSE "bare"
PartsOf(r) == IF r.item.kind = "word" THEN r.item.parts ELSE <<>>
OpenIn(r) == r.item.kind = "word" /\ r.item.open

\* The token v is one more part, or more of one, of the word next is in.
PartRead(r, v, next) ==
  /\ next.item.open <=> (OpenIn(r) \/ Lone(v))
  /\ ~ Lone(v) => next.item.parts = With(PartsOf(r), ModeOf(v), Inner(v))

\* From r the token v takes the reader to next: it goes on with a word, or
\* begins an item.
TokenRead(r, v, next) ==
  /\ v[1] \notin Operator => PartRead(r, v, next)
  /\ next \in ReaderSet /\ next.mode = "bare"
  /\ next.item.kind = IF v[1] \in Operator THEN "op" ELSE "word"
  /\ IF r.item.kind = "word" /\ v[1] \notin Operator
     THEN /\ next.items = r.items /\ Text(next.item) = Text(r.item) \o Inner(v)
          /\ Ajar(next.item) <=> Ajar(r.item)
     ELSE /\ next.items = Ended(r) /\ Text(next.item) = Inner(v)
          /\ Ajar(next.item) <=> Lone(v)

\* The parts a word goes on with.
StartsWith(r, items, parts, o, g) ==
  /\ InWordWith(r, items, parts, o, g) /\ parts = PartsOf(r) /\ o = OpenIn(r)
  /\ IF r.item.kind = "word"
     THEN items = r.items /\ TextOf(parts) = Text(r.item) /\ o = r.item.open /\ g = r.item.glued
     ELSE items = Ended(r) /\ TextOf(parts) = <<>> /\ o = FALSE /\ g = FALSE

LEMMA TextIs ==
  ASSUME NEW kind, NEW parts, NEW o, NEW g
  PROVE  Text(It(kind, parts, o, g)) = TextOf(parts)
BY DEF Text, TextOf, It

LEMMA WordStarts ==
  ASSUME NEW r \in ReaderSet, r.mode = "bare"
  PROVE  \E items, parts, o, g : StartsWith(r, items, parts, o, g)
<1>1. PICK items \in Seq(ItemSet), parts \in Seq(PartSet), o \in BOOLEAN, g \in BOOLEAN :
        /\ InWord(r) = Rd(items, It("word", parts, o, g), r.mode)
        /\ IF r.item.kind = "word"
           THEN items = r.items /\ r.item = It("word", parts, o, g)
           ELSE items = Ended(r) /\ parts = <<>> /\ o = FALSE /\ g = FALSE
  BY InWordIs
<1>2. InWordWith(r, items, parts, o, g)
  BY <1>1 DEF InWordWith
<1>3. CASE r.item.kind = "word"
  <2>1. PICK t : t = It("word", parts, o, g)
    OBVIOUS
  <2>2. Text(t) = TextOf(parts)
    BY <2>1, TextIs
  <2>3. t.open = o /\ t.glued = g /\ t.parts = parts
    BY <2>1 DEF It
  <2>4. r.item = t /\ items = r.items
    BY <1>1, <1>3, <2>1
  <2>5. parts = PartsOf(r) /\ o = OpenIn(r)
    BY <1>1, <1>3, <2>3, <2>4 DEF PartsOf, OpenIn
  <2>6. StartsWith(r, items, parts, o, g)
    BY <1>2, <1>3, <2>2, <2>3, <2>4, <2>5 DEF StartsWith
  <2> QED
    BY <2>6
<1>4. CASE r.item.kind # "word"
  <2>1. TextOf(parts) = <<>> /\ items = Ended(r) /\ o = FALSE /\ g = FALSE
    BY <1>1, <1>4, TextNone
  <2>2. parts = PartsOf(r) /\ o = OpenIn(r)
    BY <1>1, <1>4 DEF PartsOf, OpenIn
  <2>3. StartsWith(r, items, parts, o, g)
    BY <1>2, <1>4, <2>1, <2>2 DEF StartsWith
  <2> QED
    BY <2>3
<1> QED
  BY <1>3, <1>4

\* A token that is part of a word, quoted or bare.
LEMMA WordTokenRead ==
  ASSUME NEW r, NEW items, NEW parts, NEW o, NEW g, StartsWith(r, items, parts, o, g),
         NEW all \in Seq(PartSet), NEW v, TextOf(all) = TextOf(parts) \o Inner(v),
         all = With(parts, ModeOf(v), Inner(v)),
         Inner(v) \in Seq(Symbol), v[1] \notin Operator, ~ Lone(v)
  PROVE  TokenRead(r, v, WordRead(items, all, o, g))
<1>1. items \in Seq(ItemSet) /\ o \in BOOLEAN /\ g \in BOOLEAN
  BY DEF StartsWith, InWordWith
<1>2. PICK t \in ItemSet : t = It("word", all, o, g)
  BY <1>1, ItIs
<1>3. PICK m \in Modes : m = "bare"
  BY DEF Modes
<1>4. PICK next : next = WordRead(items, all, o, g)
  OBVIOUS
<1>5. /\ next \in ReaderSet /\ next.items = items /\ next.item = t /\ next.mode = "bare"
  <2>1. next = Rd(items, t, m)
    BY <1>2, <1>3, <1>4 DEF WordRead
  <2>2. /\ Rd(items, t, m) \in ReaderSet /\ Rd(items, t, m).items = items
        /\ Rd(items, t, m).item = t /\ Rd(items, t, m).mode = m
    BY <1>1, RdIs
  <2> QED
    BY <1>3, <2>1, <2>2
<1>6. t.kind = "word" /\ t.open = o /\ t.glued = g
  BY <1>2 DEF It
<1>a. PartRead(r, v, next)
  <2>1. parts = PartsOf(r) /\ o = OpenIn(r)
    BY DEF StartsWith
  <2>2. t.parts = all
    BY <1>2 DEF It
  <2> QED
    BY <1>5, <1>6, <2>1, <2>2 DEF PartRead
<1>7. Text(t) = TextOf(parts) \o Inner(v)
  BY <1>2, TextIs
<1>8. Ajar(t) <=> (o /\ ~ g)
  BY <1>6 DEF Ajar
<1>9. CASE r.item.kind = "word"
  <2>1. items = r.items /\ TextOf(parts) = Text(r.item) /\ o = r.item.open /\ g = r.item.glued
    BY <1>9 DEF StartsWith
  <2>2. Ajar(r.item) <=> (o /\ ~ g)
    BY <2>1 DEF Ajar
  <2>3. TokenRead(r, v, next)
    BY <1>5, <1>6, <1>7, <1>8, <1>9, <1>a, <2>1, <2>2 DEF TokenRead
  <2> QED
    BY <1>4, <2>3
<1>10. CASE r.item.kind # "word"
  <2>1. items = Ended(r) /\ TextOf(parts) = <<>> /\ o = FALSE
    BY <1>10 DEF StartsWith
  <2>2. <<>> \o Inner(v) = Inner(v)
    BY ConcatEmptySeq
  <2>3. Text(t) = Inner(v) /\ ~ Ajar(t)
    BY <1>7, <1>8, <2>1, <2>2
  <2>4. TokenRead(r, v, next)
    BY <1>5, <1>6, <1>10, <1>a, <2>1, <2>3 DEF TokenRead
  <2> QED
    BY <1>4, <2>4
<1> QED
  BY <1>9, <1>10

\* A quote that is not closed.
LEMMA LoneTokenRead ==
  ASSUME NEW r \in ReaderSet,
         NEW items, NEW parts, NEW o, NEW g, StartsWith(r, items, parts, o, g),
         NEW s \in Quote, NEW v, v = <<s>>, NEW bare, bare = "bare"
  PROVE  TokenRead(r, v, LoneRead(r, items, parts, g, bare, s))
<1>1. items \in Seq(ItemSet) /\ parts \in Seq(PartSet) /\ o \in BOOLEAN /\ g \in BOOLEAN
  BY DEF StartsWith, InWordWith
<1>2. PICK yes \in BOOLEAN : yes = TRUE
  OBVIOUS
<1>3. PICK h \in BOOLEAN : h = (IF r.item.open THEN g ELSE r.item.kind = "word")
  <2>1. (IF r.item.open THEN g ELSE r.item.kind = "word") \in BOOLEAN
    BY <1>1
  <2> QED
    BY <2>1
<1>4. /\ v \in Seq(Symbol) /\ v[1] = s /\ Len(v) = 1 /\ v[1] \notin Operator
      /\ Inner(v) = v /\ Lone(v)
  <2>1. s \in Symbol /\ s \notin Operator
    BY DEF Quote, Operator, Symbol
  <2>2. v \in Seq(Symbol) /\ v[1] = s /\ Len(v) = 1
    BY <2>1
  <2> HIDE DEF Quote
  <2> QED
    BY <2>1, <2>2 DEF Inner, Lone
<1>5. PICK m \in Modes : m = "bare"
  BY DEF Modes
<1>6. PICK all : all = With(parts, m, v)
  OBVIOUS
<1>7. all \in Seq(PartSet) /\ TextOf(all) = TextOf(parts) \o v
  BY <1>1, <1>4, <1>6, WithTyped
<1>8. PICK t : t = It("word", all, yes, h)
  OBVIOUS
<1>a. t \in ItemSet
  BY <1>7, <1>8, ItIs
<1>9. PICK next : next = LoneRead(r, items, parts, g, bare, s)
  OBVIOUS
<1>10. /\ next \in ReaderSet /\ next.items = items /\ next.item = t /\ next.mode = "bare"
  <2>1. next = Rd(items, t, m)
    BY <1>2, <1>3, <1>5, <1>6, <1>8, <1>9 DEF LoneRead
  <2>2. /\ Rd(items, t, m) \in ReaderSet /\ Rd(items, t, m).items = items
        /\ Rd(items, t, m).item = t /\ Rd(items, t, m).mode = m
    BY <1>1, <1>a, RdIs
  <2> QED
    BY <1>5, <2>1, <2>2
<1>11. t.kind = "word" /\ t.open = yes /\ t.glued = h
  BY <1>8 DEF It
<1>12. Text(t) = TextOf(parts) \o Inner(v)
  BY <1>4, <1>7, <1>8, TextIs
<1>13. Ajar(t) <=> ~ h
  BY <1>2, <1>11 DEF Ajar
<1>b. PartRead(r, v, next)
  BY <1>2, <1>4, <1>10, <1>11 DEF PartRead
<1>14. CASE r.item.kind = "word"
  <2>1. items = r.items /\ TextOf(parts) = Text(r.item) /\ o = r.item.open /\ g = r.item.glued
    BY <1>14 DEF StartsWith
  <2>2. Ajar(r.item) <=> (o /\ ~ g)
    BY <2>1 DEF Ajar
  <2>3. h <=> (o => g)
    BY <1>1, <1>3, <1>14, <2>1
  <2>4. Ajar(t) <=> Ajar(r.item)
    BY <1>13, <2>2, <2>3
  <2>5. TokenRead(r, v, next)
    BY <1>4, <1>10, <1>11, <1>12, <1>14, <1>b, <2>1, <2>4 DEF TokenRead
  <2> QED
    BY <1>9, <2>5
<1>15. CASE r.item.kind # "word"
  <2>1. items = Ended(r) /\ TextOf(parts) = <<>>
    BY <1>15 DEF StartsWith
  <2>2. <<>> \o Inner(v) = Inner(v)
    BY <1>4, ConcatEmptySeq
  <2>3. ~ h
    <3>1. ~ r.item.open
      BY <1>15 DEF ReaderSet, ItemSet
    <3> QED
      BY <1>3, <1>15, <3>1
  <2>4. Text(t) = Inner(v) /\ Ajar(t)
    BY <1>12, <1>13, <2>1, <2>2, <2>3
  <2>5. TokenRead(r, v, next)
    BY <1>4, <1>10, <1>11, <1>15, <1>b, <2>1, <2>4 DEF TokenRead
  <2> QED
    BY <1>9, <2>5
<1> QED
  BY <1>14, <1>15

\* The text of an operator.
LEMMA OpTextIs ==
  ASSUME NEW v \in Seq(Symbol), NEW bare, bare = "bare"
  PROVE  TextOf(<<Part(bare, v)>>) = v
<1>1. PICK m \in Modes : m = bare
  BY DEF Modes
<1>2. <<>> \in Seq(PartSet)
  OBVIOUS
<1>3. TextOf(Append(<<>>, Part(m, v))) = TextOf(<<>>) \o v
  BY <1>2, TextMore
<1>4. Append(<<>>, Part(m, v)) = <<Part(m, v)>>
  OBVIOUS
<1>5. <<>> \o v = v
  BY ConcatEmptySeq
<1> QED
  BY <1>1, <1>3, <1>4, <1>5, TextNone

\* An operator.
OpRead(r, v) == Rd(Ended(r), It("op", <<Part("bare", v)>>, FALSE, FALSE), "bare")

LEMMA OpTokenRead ==
  ASSUME NEW r \in ReaderSet, NEW v \in Seq(Symbol), v[1] \in Operator
  PROVE  TokenRead(r, v, OpRead(r, v))
<1>1. v[1] \notin Quote /\ ~ Lone(v) /\ Inner(v) = v
  BY DEF Quote, Operator, Lone, Inner
<1>2. PICK m \in Modes : m = "bare"
  BY DEF Modes
<1>3. PICK all : all = <<Part(m, v)>>
  OBVIOUS
<1>4. all \in Seq(PartSet)
  <2>1. PICK a \in PartSet : a = Part(m, v)
    BY PartIs
  <2>2. <<a>> \in Seq(PartSet)
    OBVIOUS
  <2> QED
    BY <1>3, <2>1, <2>2
<1>5. TextOf(all) = v
  BY <1>2, <1>3, OpTextIs
<1>6. PICK no \in BOOLEAN : no = FALSE
  OBVIOUS
<1>7. PICK t : t = It("op", all, no, no)
  OBVIOUS
<1>8. t \in ItemSet
  BY <1>4, <1>6, <1>7, ItIs
<1>9. t.kind = "op" /\ t.open = no /\ t.glued = no
  BY <1>7 DEF It
<1>10. Text(t) = v
  BY <1>5, <1>7, TextIs
<1>11. Ended(r) \in Seq(ItemSet)
  BY ReaderIs
<1>12. PICK next : next = OpRead(r, v)
  OBVIOUS
<1>13. /\ next \in ReaderSet /\ next.items = Ended(r) /\ next.item = t /\ next.mode = "bare"
  <2>1. next = Rd(Ended(r), t, m)
    BY <1>2, <1>3, <1>6, <1>7, <1>12 DEF OpRead
  <2>2. /\ Rd(Ended(r), t, m) \in ReaderSet /\ Rd(Ended(r), t, m).items = Ended(r)
        /\ Rd(Ended(r), t, m).item = t /\ Rd(Ended(r), t, m).mode = m
    BY <1>8, <1>11, RdIs
  <2> QED
    BY <1>2, <2>1, <2>2
<1>14. ~ Ajar(t)
  BY <1>6, <1>9 DEF Ajar
<1>15. TokenRead(r, v, next)
  BY <1>1, <1>9, <1>10, <1>13, <1>14 DEF TokenRead
<1> QED
  BY <1>12, <1>15

\* The four sorts of tokens, from at to e.
IsQuoted(ln, at, e) ==
  /\ ln[at] \in Quote /\ e \in (at + 1)..Len(ln) /\ ln[e] = ln[at]
  /\ \A j \in (at + 1)..(e - 1) : ln[j] # ln[at]
IsLone(ln, at, e) ==
  /\ ln[at] \in Quote /\ e = at /\ \A j \in (at + 1)..Len(ln) : ln[j] # ln[at]
IsOp(ln, at, e) ==
  /\ ln[at] \in Operator
  /\ \/ e = at /\ (ln[at] = "|" \/ at = Len(ln) \/ ln[at + 1] # ln[at])
     \/ e = at + 1 /\ e \in 1..Len(ln) /\ ln[at] # "|" /\ ln[e] = ln[at]
IsRun(ln, at, e) ==
  e \in at..Len(ln) /\ \A j \in at..e : ln[j] \in BareSymbol
IsToken(ln, at, e) ==
  IsQuoted(ln, at, e) \/ IsLone(ln, at, e) \/ IsOp(ln, at, e) \/ IsRun(ln, at, e)

\* The reader is not behind half of an operator.
NoHalf(ln, at, r) ==
  ~ (r.item.kind = "op" /\ Text(r.item) = <<ln[at]>> /\ ln[at] # "|")

LEMMA TokenIsRead ==
  ASSUME NEW ln \in Seq(Symbol), NEW R \in ReadersOf(ln),
         NEW at \in 1..Len(ln), NEW e, IsToken(ln, at, e),
         R[at - 1].mode = "bare", NoHalf(ln, at, R[at - 1])
  PROVE  e \in at..Len(ln) /\ TokenRead(R[at - 1], SubSeq(ln, at, e), R[e])
<1>0. Len(ln) \in Nat /\ at \in Nat /\ at >= 1 /\ at <= Len(ln)
  OBVIOUS
<1>1. PICK r : r = R[at - 1]
  OBVIOUS
<1>2. r \in ReaderSet /\ r.mode = "bare" /\ R[at] = ReadSymbol(ln, r, at)
  <2>1. at - 1 \in 0..Len(ln) /\ at \in 1..Len(ln)
    BY <1>0
  <2> QED
    BY <1>1, <2>1 DEF ReadersOf, Readers
<1>3. PICK items, parts, o, g : StartsWith(r, items, parts, o, g)
  BY <1>2, WordStarts
<1>4. InWordWith(r, items, parts, o, g) /\ parts \in Seq(PartSet) /\ items \in Seq(ItemSet)
      /\ o \in BOOLEAN /\ g \in BOOLEAN
  BY <1>3 DEF StartsWith, InWordWith
<1>5. PICK bare \in Modes : bare = "bare"
  BY DEF Modes
<1>6. CASE IsQuoted(ln, at, e)
  <2>1. PICK q \in Quote : q = ln[at]
    BY <1>6 DEF IsQuoted
  <2>2. PICK v : v = SubSeq(ln, at, e)
    OBVIOUS
  <2>3. PICK w : w = SubSeq(ln, at + 1, e - 1)
    OBVIOUS
  <2>a. /\ e \in (at + 1)..Len(ln) /\ ln[e] = q /\ \A j \in (at + 1)..(e - 1) : ln[j] # q
        /\ e \in at..Len(ln)
    BY <1>0, <1>6, <2>1 DEF IsQuoted
  <2>4. /\ v \in Seq(Symbol) /\ Len(v) = e - at + 1 /\ Len(v) > 1
        /\ \A j \in 1..(e - at + 1) : v[j] = ln[at + j - 1]
    <3>1. at \in 1..(Len(ln) + 1) /\ e \in (at - 1)..Len(ln) /\ e - at + 1 > 1
      BY <1>0, <2>a
    <3> QED
      BY <2>2, <3>1, PieceIs
  <2>5. /\ w \in Seq(Symbol) /\ Len(w) = e - at - 1
        /\ \A j \in 1..(e - at - 1) : w[j] = ln[at + j]
    <3>1. /\ at + 1 \in 1..(Len(ln) + 1) /\ e - 1 \in (at + 1 - 1)..Len(ln)
          /\ (e - 1) - (at + 1) + 1 = e - at - 1
          /\ \A j \in 1..(e - at - 1) : (at + 1) + j - 1 = at + j
      BY <1>0, <2>a, SMTT(40)
    <3>2. /\ w \in Seq(Symbol) /\ Len(w) = (e - 1) - (at + 1) + 1
          /\ \A j \in 1..((e - 1) - (at + 1) + 1) : w[j] = ln[(at + 1) + j - 1]
      BY <2>3, <3>1, PieceIs
    <3> QED
      BY <3>1, <3>2
  <2>6. v[1] = q /\ v[1] \notin Operator /\ ~ Lone(v)
    <3>1. 1 \in 1..(e - at + 1) /\ at + 1 - 1 = at
      BY <1>0, <2>a
    <3>2. v[1] = q
      BY <2>1, <2>4, <3>1
    <3>3. v[1] \notin Operator
      BY <3>2 DEF Quote, Operator
    <3>4. Len(v) # 1
      BY <2>4
    <3> QED
      BY <3>2, <3>3, <3>4 DEF Lone
  <2>7. Inner(v) = w
    <3>1. Inner(v) = SubSeq(v, 2, Len(v) - 1)
      BY <2>1, <2>4, <2>6 DEF Inner
    <3>2. PICK u : u = SubSeq(v, 2, Len(v) - 1)
      OBVIOUS
    <3>3. /\ 2 \in 1..(Len(v) + 1) /\ Len(v) - 1 \in (2 - 1)..Len(v)
          /\ (Len(v) - 1) - 2 + 1 = e - at - 1
      BY <1>0, <2>a, <2>4
    <3>4. /\ u \in Seq(Symbol) /\ Len(u) = (Len(v) - 1) - 2 + 1
          /\ \A j \in 1..((Len(v) - 1) - 2 + 1) : u[j] = v[2 + j - 1]
      BY <2>4, <3>2, <3>3, PieceIs, SMTT(40)
    <3>5. \A j \in 1..(e - at - 1) : u[j] = w[j]
      <4> SUFFICES ASSUME NEW j \in 1..(e - at - 1)
                   PROVE  u[j] = w[j]
        OBVIOUS
      <4>1. 2 + j - 1 \in 1..(e - at + 1) /\ at + (2 + j - 1) - 1 = at + j
        BY <1>0, <2>a
      <4> QED
        BY <2>4, <2>5, <3>3, <3>4, <4>1
    <3> QED
      BY <2>5, <3>1, <3>2, <3>3, <3>4, <3>5, SeqEqual
  <2>8. PICK all : all = Append(parts, Part(q, w))
    OBVIOUS
  <2>9. q \in Modes
    BY DEF Quote, Modes
  <2>10. all \in Seq(PartSet) /\ TextOf(all) = TextOf(parts) \o w
    BY <1>4, <2>5, <2>8, <2>9, TextMore, PartsGrow
  <2>11. R[e] = WordRead(items, all, o, g)
    <3>1. PICK a : a = at - 1
      OBVIOUS
    <3>2. /\ a \in 0..Len(ln) /\ a + 1 = at /\ a + 2 = at + 1 /\ e \in (a + 2)..Len(ln)
      BY <1>0, <2>a, <3>1
    <3>3. InWordWith(R[a], items, parts, o, g)
      BY <1>1, <1>4, <3>1
    <3>4. ln[a + 1] = q /\ ln[e] = q /\ \A j \in (a + 2)..(e - 1) : ln[j] # q
      BY <2>1, <2>a, <3>2
    <3>5. w = SubSeq(ln, a + 2, e - 1)
      BY <2>3, <3>2
    <3>6. ReadTo(ln, R, a, e, WordRead(items, Append(parts, Part(q, w)), o, g))
      BY <3>2, <3>3, <3>4, <3>5, QuotedRead
    <3> QED
      BY <2>8, <3>6 DEF ReadTo
  <2>12. all = With(parts, ModeOf(v), Inner(v))
    <3>1. ModeOf(v) = q /\ q # "bare"
      BY <2>6 DEF ModeOf, Quote
    <3> QED
      BY <2>7, <2>8, <3>1 DEF With
  <2>13. TokenRead(r, v, WordRead(items, all, o, g))
    BY <1>3, <2>5, <2>6, <2>7, <2>10, <2>12, WordTokenRead
  <2> QED
    BY <1>1, <2>2, <2>a, <2>11, <2>13
<1>7. CASE IsLone(ln, at, e)
  <2>1. PICK s \in Quote : s = ln[at]
    BY <1>7 DEF IsLone
  <2>2. e = at /\ \A j \in (at + 1)..Len(ln) : ln[j] # s
    BY <1>7, <2>1 DEF IsLone
  <2>3. ~ Closes(ln, at)
    BY <2>1, <2>2 DEF Closes
  <2>4. PICK v : v = <<s>>
    OBVIOUS
  <2>5. SubSeq(ln, at, e) = v
    <3>1. at \in at..Len(ln)
      BY <1>0
    <3> QED
      BY <2>1, <2>2, <2>4, <3>1, PieceMore
  <2>6. R[at] = LoneRead(r, items, parts, g, bare, s)
    <3>1. InWord(r) = Rd(items, It("word", parts, o, g), bare)
      BY <1>4, <1>5 DEF InWordWith
    <3>2. PICK p : p = at
      OBVIOUS
    <3>3. ln[p] \in Quote /\ ~ Closes(ln, p)
      BY <2>1, <2>3, <3>2
    <3>4. ReadSymbol(ln, r, p) = LoneRead(r, items, parts, g, bare, ln[p])
      BY <1>2, <1>4, <3>1, <3>3, ReadLone
    <3> QED
      BY <1>2, <2>1, <3>2, <3>4
  <2>7. TokenRead(r, v, LoneRead(r, items, parts, g, bare, s))
    BY <1>2, <1>3, <1>5, <2>4, LoneTokenRead
  <2>8. e \in at..Len(ln)
    BY <1>0, <2>2
  <2> QED
    BY <1>1, <2>2, <2>5, <2>6, <2>7, <2>8
<1>8. CASE IsOp(ln, at, e)
  <2>1. PICK s \in Operator : s = ln[at]
    BY <1>8 DEF IsOp
  <2>2. PICK v : v = <<s>>
    OBVIOUS
  <2>3. s \in Symbol /\ v \in Seq(Symbol) /\ v[1] = s
    <3>1. s \in Symbol
      BY DEF Symbol
    <3> QED
      BY <2>2, <3>1
  <2>4. R[at] = OpRead(r, v)
    <3>1. ReadSymbol(ln, r, at)
            = Rd(Ended(r), It("op", <<Part("bare", <<ln[at]>>)>>, FALSE, FALSE), "bare")
      <4>1. PICK p : p = at
        OBVIOUS
      <4>2. ln[p] \in Operator /\ NoHalf(ln, p, r)
        BY <1>1, <2>1, <4>1
      <4>3. ~ (r.item.kind = "op" /\ Text(r.item) = <<ln[p]>> /\ ln[p] # "|")
        BY <4>2 DEF NoHalf
      <4>4. ReadSymbol(ln, r, p)
              = Rd(Ended(r), It("op", <<Part("bare", <<ln[p]>>)>>, FALSE, FALSE), "bare")
        BY <1>2, <4>2, <4>3, ReadOperator
      <4> QED
        BY <4>1, <4>4
    <3> QED
      BY <1>2, <2>1, <2>2, <3>1 DEF OpRead
  <2>5. CASE e = at
    <3>1. SubSeq(ln, at, e) = v /\ e \in at..Len(ln)
      <4>1. at \in at..Len(ln)
        BY <1>0
      <4> QED
        BY <2>1, <2>2, <2>5, <4>1, PieceMore
    <3>2. TokenRead(r, v, OpRead(r, v))
      BY <1>2, <2>3, OpTokenRead
    <3> QED
      BY <1>1, <2>4, <2>5, <3>1, <3>2
  <2>6. CASE e # at
    <3>1. e = at + 1 /\ e \in 1..Len(ln) /\ s # "|" /\ ln[e] = s
      BY <1>8, <2>1, <2>6 DEF IsOp
    <3>2. PICK u : u = <<s, s>>
      OBVIOUS
    <3>3. u \in Seq(Symbol) /\ u[1] = s
      BY <2>3, <3>2
    <3>4. SubSeq(ln, at, e) = u /\ e \in at..Len(ln)
      <4>1. e \in at..Len(ln) /\ e - 1 = at
        BY <1>0, <3>1
      <4>2. SubSeq(ln, at, e) = SubSeq(ln, at, e - 1) \o <<ln[e]>> /\ SubSeq(ln, at, at) = <<ln[at]>>
        BY <4>1, PieceMore
      <4>3. <<s>> \o <<s>> = <<s, s>>
        <5>1. Append(v, s) = v \o <<s>>
          BY <2>3, OneMore
        <5>2. Append(v, s) = u
          BY <2>2, <2>3, <3>2, Twice
        <5> QED
          BY <2>2, <3>2, <5>1, <5>2
      <4> QED
        BY <2>1, <3>1, <3>2, <4>1, <4>2, <4>3
    <3>5. R[e] = OpRead(r, u)
      <4>1. PICK x : x = R[at]
        OBVIOUS
      <4>2. PICK ii \in Seq(ItemSet) : ii = Ended(r)
        BY <1>2, ReaderIs
      <4>3. x = Rd(ii, It("op", <<Part("bare", <<s>>)>>, FALSE, FALSE), "bare")
        BY <2>2, <2>4, <4>1, <4>2 DEF OpRead
      <4>4. Reads(ln, x, e, Rd(ii, It("op", <<Part("bare", <<s, s>>)>>, FALSE, FALSE), "bare"))
        BY <3>1, <4>3, ReadOperatorAgain
      <4>5. R[e] = ReadSymbol(ln, R[e - 1], e) /\ e - 1 = at
        BY <1>0, <3>1 DEF ReadersOf
      <4> QED
        BY <3>2, <4>1, <4>2, <4>4, <4>5 DEF OpRead, Reads
    <3>6. TokenRead(r, u, OpRead(r, u))
      BY <1>2, <3>3, OpTokenRead
    <3> QED
      BY <1>1, <3>4, <3>5, <3>6
  <2> QED
    BY <2>5, <2>6
<1>9. CASE IsRun(ln, at, e)
  <2>1. e \in at..Len(ln) /\ \A j \in at..e : ln[j] \in BareSymbol
    BY <1>9 DEF IsRun
  <2>2. PICK v : v = SubSeq(ln, at, e)
    OBVIOUS
  <2>3. /\ v \in Seq(Symbol) /\ v[1] = ln[at]
    <3>1. /\ at \in 1..(Len(ln) + 1) /\ e \in (at - 1)..Len(ln)
          /\ 1 \in 1..(e - at + 1) /\ at + 1 - 1 = at
      BY <1>0, <2>1
    <3>2. /\ v \in Seq(Symbol) /\ \A j \in 1..(e - at + 1) : v[j] = ln[at + j - 1]
      BY <2>2, <3>1, PieceIs
    <3> QED
      BY <3>1, <3>2
  <2>4. v[1] \notin Operator /\ ~ Lone(v) /\ Inner(v) = v
    <3>1. v[1] \in BareSymbol
      BY <1>0, <2>1, <2>3
    <3>2. v[1] \notin Operator /\ v[1] \notin Quote
      BY <3>1 DEF BareSymbol
    <3> QED
      BY <3>2 DEF Lone, Inner
  <2>5. PICK all : all = With(parts, bare, v)
    OBVIOUS
  <2>6. all \in Seq(PartSet) /\ TextOf(all) = TextOf(parts) \o v
    BY <1>4, <2>3, <2>5, WithTyped
  <2>7. R[e] = WordRead(items, all, o, g)
    <3>1. PICK a : a = at - 1
      OBVIOUS
    <3>2. a \in 0..Len(ln) /\ a + 1 = at /\ e \in (a + 1)..Len(ln)
      BY <1>0, <2>1, <3>1
    <3>3. InWordWith(R[a], items, parts, o, g)
      BY <1>1, <1>4, <3>1
    <3>4. \A j \in (a + 1)..e : ln[j] \in BareSymbol
      BY <2>1, <3>2
    <3>5. R[e] = WordRead(items, With(parts, "bare", SubSeq(ln, a + 1, e)), o, g)
      BY <3>2, <3>3, <3>4, RunRead
    <3> QED
      BY <1>5, <2>2, <2>5, <3>2, <3>5
  <2>8. all = With(parts, ModeOf(v), Inner(v))
    <3>1. v[1] \notin Quote
      BY <1>0, <2>1, <2>3 DEF BareSymbol
    <3>2. ModeOf(v) = "bare"
      BY <3>1 DEF ModeOf
    <3> QED
      BY <1>5, <2>4, <2>5, <3>2
  <2>9. TokenRead(r, v, WordRead(items, all, o, g))
    BY <1>3, <2>3, <2>4, <2>6, <2>8, WordTokenRead
  <2> QED
    BY <1>1, <2>1, <2>2, <2>7, <2>9
<1> QED
  BY <1>6, <1>7, <1>8, <1>9 DEF IsToken

-----------------------------------------------------------------------------
(* split_input cuts what the reader takes for one token. *)

\* The token t that split_input cuts at a place, n symbols of the line.
CutAt(ln, at, n, t) ==
  /\ n \in Nat \ {0} /\ at + n - 1 \in at..Len(ln) /\ IsToken(ln, at, at + n - 1)
  /\ t.id = at /\ t.value = SubSeq(ln, at, at + n - 1) /\ t.value[1] = ln[at]
  /\ t.coretype = "WORD" /\ ~ t.err /\ ~ t.literal
  /\ t.merge_next <=> /\ ln[at] \notin Operator
                      /\ at + n <= Len(ln) /\ ln[at + n] \notin Operator \cup {Space}
  /\ (ln[at] \notin Quote \cup Operator /\ at + n <= Len(ln)) => ln[at + n] \notin BareSymbol

LEMMA TokenCut ==
  ASSUME NEW ln \in Seq(Symbol), NEW at \in 1..Len(ln), ln[at] # Space,
         NEW s, s = Rest(ln, at), NEW n, n = get_token_len(s)
  PROVE  CutAt(ln, at, n, NewToken(at, s, n))
<1>0. Len(ln) \in Nat /\ at \in Nat /\ at >= 1 /\ at <= Len(ln)
  OBVIOUS
<1>1. /\ s \in Seq(Symbol) /\ Len(s) = Len(ln) - at + 1
      /\ \A j \in 1..Len(s) : s[j] = ln[at + j - 1]
  <2>1. at \in 1..(Len(ln) + 1)
    BY <1>0
  <2> QED
    BY <2>1, RestIs
<1>2. Len(s) >= 1 /\ s # <<>> /\ s[1] = ln[at] /\ s[1] \in Symbol
  <2>1. 1 \in 1..Len(s) /\ at + 1 - 1 = at
    BY <1>0, <1>1
  <2> QED
    BY <1>1, <2>1
<1>3. n \in 1..Len(s)
  BY <1>1, <1>2, TokenLength
<1>4. PICK e : e = at + n - 1
  OBVIOUS
<1>5. e \in at..Len(ln) /\ e + 1 = at + n
  BY <1>0, <1>1, <1>3, <1>4, SMTT(40)
<1>6. IsToken(ln, at, e)
  <2>1. CASE s[1] \in Quote
    <3>1. PICK q : q = s[1]
      OBVIOUS
    <3>2. PICK u : u = Tail(s)
      OBVIOUS
    <3>3. /\ u \in Seq(Symbol) /\ Len(u) = Len(s) - 1
          /\ \A j \in 1..(Len(s) - 1) : u[j] = s[j + 1]
      BY <1>1, <1>2, <3>2, HeadTailProperties
    <3>4. PICK m : m = RunLength(u, Symbol \ {q})
      OBVIOUS
    <3>5. /\ m \in 0..Len(u) /\ \A k \in 1..m : u[k] \in Symbol \ {q}
          /\ m < Len(u) => u[m + 1] \notin Symbol \ {q}
      BY <3>3, <3>4, RunLengthIs
    <3>6. n = IF m = Len(s) - 1 THEN 1 ELSE m + 2
      BY <2>1, <3>1, <3>2, <3>4 DEF get_token_len
    <3>7. \A j \in (at + 1)..(at + m) : ln[j] # q
      <4> SUFFICES ASSUME NEW j \in (at + 1)..(at + m)
                   PROVE  ln[j] # q
        OBVIOUS
      <4>1. PICK k : k = j - at
        OBVIOUS
      <4>2. /\ k \in 1..m /\ k \in 1..(Len(s) - 1) /\ k + 1 \in 1..Len(s)
            /\ at + (k + 1) - 1 = j
        BY <1>0, <1>1, <3>3, <3>5, <4>1
      <4> QED
        BY <1>1, <3>3, <3>5, <4>2
    <3>8. CASE m = Len(s) - 1
      <4>1. e = at /\ at + m = Len(ln)
        BY <1>0, <1>1, <1>4, <3>6, <3>8
      <4>2. IsLone(ln, at, e)
        BY <1>2, <2>1, <3>1, <3>7, <4>1 DEF IsLone
      <4> QED
        BY <4>2 DEF IsToken
    <3>9. CASE m # Len(s) - 1
      <4>1. /\ e = at + m + 1 /\ m < Len(u) /\ m + 1 \in 1..(Len(s) - 1)
            /\ m + 2 \in 1..Len(s) /\ at + (m + 2) - 1 = e /\ (m + 1) + 1 = m + 2
            /\ e \in (at + 1)..Len(ln) /\ e - 1 = at + m
        BY <1>0, <1>1, <1>4, <1>5, <3>3, <3>5, <3>6, <3>9
      <4>2. u[m + 1] = ln[e]
        BY <1>1, <3>3, <4>1
      <4>3. ln[e] = q
        <5>1. u[m + 1] \in Symbol
          BY <3>3, <4>1, SMTT(40)
        <5> QED
          BY <3>5, <4>1, <4>2, <5>1
      <4>4. IsQuoted(ln, at, e)
        BY <1>2, <2>1, <3>1, <3>7, <4>1, <4>3 DEF IsQuoted
      <4> QED
        BY <4>4 DEF IsToken
    <3> QED
      BY <3>8, <3>9
  <2>2. CASE s[1] \notin Quote /\ s[1] \in Operator
    <3>1. n = IF s[1] # "|" /\ Len(s) > 1 /\ s[2] = s[1] THEN 2 ELSE 1
      BY <2>2 DEF get_token_len
    <3>2. Len(s) > 1 => at + 1 \in 1..Len(ln) /\ s[2] = ln[at + 1]
      <4> SUFFICES ASSUME Len(s) > 1
                   PROVE  at + 1 \in 1..Len(ln) /\ s[2] = ln[at + 1]
        OBVIOUS
      <4>1. 2 \in 1..Len(s) /\ at + 2 - 1 = at + 1 /\ at + 1 \in 1..Len(ln)
        BY <1>0, <1>1
      <4> QED
        BY <1>1, <4>1
    <3>3. Len(s) > 1 <=> at # Len(ln)
      BY <1>0, <1>1
    <3>4. IsOp(ln, at, e)
      <4>1. CASE n = 2
        <5>1. s[1] # "|" /\ Len(s) > 1 /\ s[2] = s[1] /\ e = at + 1
          BY <1>0, <1>4, <3>1, <4>1
        <5> QED
          BY <1>2, <2>2, <3>2, <5>1 DEF IsOp
      <4>2. CASE n # 2
        <5>1. e = at /\ (s[1] = "|" \/ ~ (Len(s) > 1) \/ s[2] # s[1])
          BY <1>0, <1>4, <3>1, <4>2
        <5> QED
          BY <1>2, <2>2, <3>2, <3>3, <5>1 DEF IsOp
      <4> QED
        BY <4>1, <4>2
    <3> QED
      BY <3>4 DEF IsToken
  <2>3. CASE s[1] \notin Quote /\ s[1] \notin Operator
    <3>1. n = RunLength(s, BareSymbol)
      BY <2>3 DEF get_token_len, BareSymbol
    <3>2. \A k \in 1..n : s[k] \in BareSymbol
      BY <1>1, <3>1, RunLengthIs
    <3>3. \A j \in at..e : ln[j] \in BareSymbol
      <4> SUFFICES ASSUME NEW j \in at..e
                   PROVE  ln[j] \in BareSymbol
        OBVIOUS
      <4>1. PICK k : k = j - at + 1
        OBVIOUS
      <4>2. k \in 1..n /\ k \in 1..Len(s) /\ at + k - 1 = j
        BY <1>0, <1>1, <1>3, <1>4, <4>1
      <4> QED
        BY <1>1, <3>2, <4>2
    <3>4. IsRun(ln, at, e)
      BY <1>5, <3>3 DEF IsRun
    <3> QED
      BY <3>4 DEF IsToken
  <2> QED
    BY <2>1, <2>2, <2>3
<1>7. SubSeq(s, 1, n) = SubSeq(ln, at, e)
  <2>1. PICK u : u = SubSeq(s, 1, n)
    OBVIOUS
  <2>2. PICK v : v = SubSeq(ln, at, e)
    OBVIOUS
  <2>3. /\ 1 \in 1..(Len(s) + 1) /\ n \in (1 - 1)..Len(s) /\ n - 1 + 1 = n
        /\ at \in 1..(Len(ln) + 1) /\ e \in (at - 1)..Len(ln) /\ e - at + 1 = n
    BY <1>0, <1>1, <1>3, <1>4, <1>5, SMTT(40)
  <2>4. /\ u \in Seq(Symbol) /\ Len(u) = n - 1 + 1
        /\ \A j \in 1..(n - 1 + 1) : u[j] = s[1 + j - 1]
    BY <1>1, <2>1, <2>3, PieceIs, SMTT(30)
  <2>5. /\ v \in Seq(Symbol) /\ Len(v) = e - at + 1
        /\ \A j \in 1..(e - at + 1) : v[j] = ln[at + j - 1]
    BY <2>2, <2>3, PieceIs
  <2>6. \A j \in 1..n : u[j] = v[j]
    <3> SUFFICES ASSUME NEW j \in 1..n
                 PROVE  u[j] = v[j]
      OBVIOUS
    <3>1. 1 + j - 1 = j /\ j \in 1..Len(s)
      BY <1>3
    <3> QED
      BY <1>1, <2>3, <2>4, <2>5, <3>1
  <2> QED
    BY <2>1, <2>2, <2>3, <2>4, <2>5, <2>6, SeqEqual, SMTT(40)
<1>8. PICK t : t = NewToken(at, s, n)
  OBVIOUS
<1>9. /\ t.id = at /\ t.value = SubSeq(s, 1, n) /\ t.coretype = "WORD"
      /\ ~ t.err /\ ~ t.literal
      /\ t.merge_next <=> /\ s[1] \notin Operator
                          /\ n < Len(s) /\ s[n + 1] \notin Operator \cup {Space}
  BY <1>8 DEF NewToken
<1>10. n < Len(s) <=> at + n <= Len(ln)
  BY <1>0, <1>1, <1>3
<1>11. n < Len(s) => s[n + 1] = ln[at + n]
  <2> SUFFICES ASSUME n < Len(s)
               PROVE  s[n + 1] = ln[at + n]
    OBVIOUS
  <2>1. n + 1 \in 1..Len(s) /\ at + (n + 1) - 1 = at + n
    BY <1>0, <1>1, <1>3
  <2> QED
    BY <1>1, <2>1
<1>12. CutAt(ln, at, n, t)
  <2>1. n \in Nat \ {0}
    BY <1>3
  <2>2. t.value[1] = ln[at]
    <3>1. /\ at \in 1..(Len(ln) + 1) /\ e \in (at - 1)..Len(ln) /\ 1 \in 1..(e - at + 1)
          /\ at + 1 - 1 = at
      BY <1>0, <1>5
    <3>2. PICK v : v = SubSeq(ln, at, e)
      OBVIOUS
    <3>3. \A j \in 1..(e - at + 1) : v[j] = ln[at + j - 1]
      BY <3>1, <3>2, PieceIs
    <3>4. v[1] = ln[at + 1 - 1]
      BY <3>1, <3>3
    <3>5. t.value = v
      BY <1>7, <1>9, <3>2, Zenon
    <3>6. ln[at + 1 - 1] = ln[at]
      BY <3>1, Zenon
    <3> QED
      BY <3>4, <3>5, <3>6, Zenon
  <2>3. (ln[at] \notin Quote \cup Operator /\ at + n <= Len(ln)) => ln[at + n] \notin BareSymbol
    <3> SUFFICES ASSUME ln[at] \notin Quote \cup Operator, at + n <= Len(ln)
                 PROVE  ln[at + n] \notin BareSymbol
      OBVIOUS
    <3>1. n = RunLength(s, BareSymbol)
      BY <1>2 DEF get_token_len, BareSymbol
    <3>2. n < Len(s)
      BY <1>10
    <3>3. s[n + 1] \notin BareSymbol
      BY <1>1, <3>1, <3>2, RunLengthIs
    <3> QED
      BY <1>11, <3>2, <3>3
  <2> QED
    BY <1>2, <1>4, <1>5, <1>6, <1>7, <1>9, <1>10, <1>11, <2>1, <2>2, <2>3 DEF CutAt
<1> QED
  BY <1>8, <1>12

\* The reader before and behind a token.
Came(R, t) == R[t.id - 1]
Left(R, t) == R[t.id + Len(t.value) - 1]

\* A token as split_input makes it: the reader takes it for one token.
Fits(R, t) ==
  /\ t.value \in Seq(Symbol) /\ t.value # <<>> /\ t.id \in Nat \ {0}
  /\ t.coretype = "WORD" /\ ~ t.err /\ ~ t.literal
  /\ t.value[1] \in Operator => t.value \in OpText
  /\ TokenRead(Came(R, t), t.value, Left(R, t))

\* What is behind the token t, at p.
Border(ln, R, t, p) ==
  /\ p = t.id + Len(t.value) /\ p \in 2..(Len(ln) + 1)
  /\ t.merge_next <=> /\ t.value[1] \notin Operator
                      /\ p <= Len(ln) /\ ln[p] \notin Operator \cup {Space}
  /\ (t.value[1] \notin Quote \cup Operator /\ p <= Len(ln)) => ln[p] \notin BareSymbol
  /\ p <= Len(ln) => NoHalf(ln, p, R[p - 1])

LEMMA TokenFits ==
  ASSUME NEW ln \in Seq(Symbol), NEW R \in ReadersOf(ln),
         NEW at \in 1..Len(ln), NEW n, NEW t, CutAt(ln, at, n, t),
         R[at - 1].mode = "bare", NoHalf(ln, at, R[at - 1])
  PROVE  Fits(R, t) /\ Border(ln, R, t, at + n)
<1>0. Len(ln) \in Nat /\ at \in Nat /\ at >= 1 /\ at <= Len(ln)
  OBVIOUS
<1>1. PICK e : e = at + n - 1
  OBVIOUS
<1>2. /\ e \in at..Len(ln) /\ IsToken(ln, at, e) /\ t.id = at /\ t.value = SubSeq(ln, at, e)
      /\ t.coretype = "WORD" /\ ~ t.err /\ ~ t.literal
      /\ t.merge_next <=> /\ ln[at] \notin Operator
                          /\ at + n <= Len(ln) /\ ln[at + n] \notin Operator \cup {Space}
      /\ (ln[at] \notin Quote \cup Operator /\ at + n <= Len(ln)) => ln[at + n] \notin BareSymbol
  BY <1>1 DEF CutAt
<1>3. TokenRead(R[at - 1], SubSeq(ln, at, e), R[e])
  BY <1>2, TokenIsRead
<1>4. PICK v : v = SubSeq(ln, at, e)
  OBVIOUS
<1>5. /\ at \in 1..(Len(ln) + 1) /\ e \in (at - 1)..Len(ln) /\ 1 \in 1..(e - at + 1)
      /\ at + 1 - 1 = at /\ e - at + 1 \in Nat /\ e - at + 1 >= 1
  BY <1>0, <1>2
<1>6. /\ v \in Seq(Symbol) /\ Len(v) = e - at + 1
      /\ \A j \in 1..(e - at + 1) : v[j] = ln[at + j - 1]
  BY <1>4, <1>5, PieceIs
<1>7. v[1] = ln[at] /\ v # <<>>
  <2>1. v[1] = ln[at + 1 - 1]
    BY <1>5, <1>6
  <2>2. v # <<>>
    <3>1. v = <<>> => Len(v) = 0
      OBVIOUS
    <3>2. Len(v) # 0
      BY <1>5, <1>6
    <3> QED
      BY <3>1, <3>2, Zenon
  <2>3. at + 1 - 1 = at
    BY <1>5
  <2> QED
    BY <2>1, <2>2, <2>3, Zenon
<1>8. PICK p : p = at + n
  OBVIOUS
<1>9. e \in Nat /\ n \in Nat
  BY <1>0, <1>2 DEF CutAt
<1>10. p = e + 1 /\ p - 1 = e /\ p = at + Len(v) /\ p \in 2..(Len(ln) + 1)
  <2>1. PICK k \in Nat : k = Len(v)
    BY <1>5, <1>6
  <2>2. PICK m \in Nat : m = Len(ln)
    BY <1>0
  <2>3. k = e - at + 1 /\ e >= at /\ e <= m
    BY <1>0, <1>2, <1>6, <2>1, <2>2
  <2>4. p = e + 1 /\ p - 1 = e /\ p = at + k /\ p \in 2..(m + 1)
    BY <1>0, <1>1, <1>8, <1>9, <2>3
  <2> QED
    BY <2>1, <2>2, <2>4
<1>11. IsOp(ln, at, e) \/ v[1] \notin Operator
  <2>1. ASSUME v[1] \in Operator
        PROVE  IsOp(ln, at, e)
    <3>1. ln[at] \notin Quote
      BY <1>7, <2>1 DEF Quote, Operator
    <3>2. ~ IsRun(ln, at, e)
      <4>1. at \in at..e
        BY <1>0, <1>2
      <4> QED
        BY <1>7, <2>1, <4>1 DEF IsRun, BareSymbol
    <3> QED
      BY <1>2, <3>1, <3>2 DEF IsToken, IsQuoted, IsLone
  <2> QED
    BY <2>1
<1>12. v[1] \in Operator => v \in OpText
  <2> SUFFICES ASSUME v[1] \in Operator
               PROVE  v \in OpText
    OBVIOUS
  <2>1. PICK s \in Operator : s = ln[at]
    BY <1>7
  <2>2. IsOp(ln, at, e) /\ s \in Symbol
    BY <1>11 DEF Symbol
  <2>3. CASE e = at
    <3>1. PICK u : u = <<s>>
      OBVIOUS
    <3>2. u \in Seq(Symbol) /\ Len(u) = 1 /\ u[1] = s
      BY <2>2, <3>1
    <3>3. Len(v) = 1 /\ \A j \in 1..1 : v[j] = u[j]
      BY <1>5, <1>6, <1>7, <2>1, <2>3, <3>2
    <3>4. v = u
      BY <1>6, <3>2, <3>3, SeqEqual
    <3>5. u \in OpText
      BY <3>1 DEF Operator, OpText, RedirText
    <3> QED
      BY <3>4, <3>5
  <2>4. CASE e # at
    <3>1. e = at + 1 /\ ln[at] # "|" /\ ln[e] = ln[at]
      BY <2>2, <2>4 DEF IsOp
    <3>2. PICK u : u = <<s, s>>
      OBVIOUS
    <3>3. u \in Seq(Symbol) /\ Len(u) = 2 /\ u[1] = s /\ u[2] = s
      BY <2>2, <3>2
    <3>4. Len(v) = 2 /\ v[2] = s
      <4>1. e - at + 1 = 2 /\ 2 \in 1..(e - at + 1) /\ at + 2 - 1 = e
        BY <1>0, <3>1
      <4> QED
        BY <1>6, <2>1, <3>1, <4>1
    <3>5. \A j \in 1..2 : v[j] = u[j]
      BY <1>7, <2>1, <3>3, <3>4
    <3>6. v = u
      BY <1>6, <3>3, <3>4, <3>5, SeqEqual
    <3>7. u \in OpText
      BY <2>1, <3>1, <3>2 DEF Operator, OpText, RedirText
    <3> QED
      BY <3>6, <3>7
  <2> QED
    BY <2>3, <2>4
<1>13. PICK r : r = R[e]
  OBVIOUS
<1>14. p <= Len(ln) => NoHalf(ln, p, r)
  <2> SUFFICES ASSUME p <= Len(ln), r.item.kind = "op", Text(r.item) = <<ln[p]>>, ln[p] # "|"
               PROVE  FALSE
    BY DEF NoHalf
  <2>1. TokenRead(R[at - 1], v, r)
    BY <1>3, <1>4, <1>13
  <2>2. v[1] \in Operator
    BY <2>1 DEF TokenRead
  <2>3. Inner(v) = v
    BY <2>2 DEF Inner, Quote, Operator
  <2>4. Text(r.item) = v
    BY <2>1, <2>2, <2>3 DEF TokenRead
  <2>5. ln[p] \in Symbol
    BY <1>0, <1>10
  <2>6. Len(v) = 1 /\ v[1] = ln[p]
    BY <2>4, <2>5
  <2>7. e = at /\ p = at + 1
    <3>1. e - at + 1 = 1
      BY <1>6, <2>6
    <3>2. e = at
      BY <1>0, <1>9, <3>1
    <3> QED
      BY <1>10, <2>6, <3>2
  <2>8. ln[at] = "|" \/ at = Len(ln) \/ ln[at + 1] # ln[at]
    BY <1>0, <1>11, <2>2, <2>7 DEF IsOp
  <2> QED
    BY <1>0, <1>7, <2>6, <2>7, <2>8
<1>15. Border(ln, R, t, p)
  BY <1>2, <1>4, <1>7, <1>8, <1>10, <1>13, <1>14 DEF Border
<1>16. Fits(R, t)
  <2>1. Came(R, t) = R[at - 1]
    BY <1>2 DEF Came
  <2>2. Left(R, t) = R[e]
    BY <1>2, <1>4, <1>10 DEF Left
  <2>3. t.value = v /\ t.id \in Nat \ {0} /\ t.coretype = "WORD" /\ ~ t.err /\ ~ t.literal
    BY <1>0, <1>2, <1>4
  <2>4. TokenRead(Came(R, t), t.value, Left(R, t))
    BY <1>3, <1>4, <2>1, <2>2, <2>3
  <2> QED
    BY <1>6, <1>7, <1>12, <2>3, <2>4 DEF Fits
<1> QED
  BY <1>8, <1>15, <1>16

\* Spaces end an item, and begin none.
LEMMA SpacesRead ==
  ASSUME NEW ln \in Seq(Symbol), NEW R \in ReadersOf(ln),
         NEW a \in 0..Len(ln), NEW b \in a..Len(ln), R[a].mode = "bare",
         \A j \in (a + 1)..b : ln[j] = Space
  PROVE  /\ R[b] \in ReaderSet /\ R[b].mode = "bare" /\ Ended(R[b]) = Ended(R[a])
         /\ a < b => R[b].item.kind = "none"
<1>0. Len(ln) \in Nat /\ a \in Nat /\ b \in Nat /\ a <= b /\ b <= Len(ln)
  OBVIOUS
<1> DEFINE n == b - a
           T == {k \in 0..n : /\ R[a + k] \in ReaderSet /\ R[a + k].mode = "bare"
                              /\ Ended(R[a + k]) = Ended(R[a])
                              /\ 0 < k => R[a + k].item.kind = "none"}
<1>1. n \in Nat /\ 0 \in 0..n /\ n \in 0..n /\ a + 0 = a /\ a + n = b
  BY <1>0
<1>2. 0 \in T
  BY <1>1, ReaderAt
<1>3. ASSUME NEW k \in 1..n, k - 1 \in T
      PROVE  k \in T
  <2>1. PICK p : p = a + k
    OBVIOUS
  <2>2. /\ p \in 1..Len(ln) /\ p - 1 = a + (k - 1) /\ p \in (a + 1)..b /\ k \in 0..n
        /\ p - 1 \in 0..Len(ln)
    BY <1>0, <2>1
  <2>3. PICK r : r = R[p - 1]
    OBVIOUS
  <2>4. r \in ReaderSet /\ r.mode = "bare" /\ Ended(r) = Ended(R[a])
    BY <1>3, <2>2, <2>3
  <2>5. R[p] = ReadSymbol(ln, r, p) /\ ln[p] = Space
    BY <2>2, <2>3 DEF ReadersOf
  <2>6. PICK m \in Modes : m = r.mode
    BY <2>4, ReaderIs
  <2>7. PICK items \in Seq(ItemSet) : items = Ended(r)
    BY <2>4, ReaderIs
  <2>8. R[p] = Rd(items, Nothing, m)
    <3>1. ReadSymbol(ln, r, p) = Finished(r)
      BY <2>4, <2>5, ReadSpace
    <3>2. Finished(r) = Rd(Ended(r), Nothing, r.mode)
      BY <2>4, FinishedIs
    <3> QED
      BY <2>5, <2>6, <2>7, <3>1, <3>2
  <2>9. PICK x : x = Rd(items, Nothing, m)
    OBVIOUS
  <2>10. Nothing \in ItemSet /\ Nothing.kind = "none"
    BY DEF Nothing, It, ItemSet
  <2>11. x \in ReaderSet /\ x.items = items /\ x.item = Nothing /\ x.mode = m
    BY <2>9, <2>10, RdIs
  <2>12. Ended(x) = items
    BY <2>10, <2>11 DEF Ended
  <2> QED
    BY <2>1, <2>2, <2>4, <2>6, <2>7, <2>8, <2>9, <2>10, <2>11, <2>12
<1>4. \A k \in 0..n : k \in T
  <2> HIDE DEF T, n
  <2> QED
    BY <1>1, <1>2, <1>3, UpTo
<1>5. n \in T
  BY <1>1, <1>4
<1>6. /\ R[a + n] \in ReaderSet /\ R[a + n].mode = "bare" /\ Ended(R[a + n]) = Ended(R[a])
      /\ 0 < n => R[a + n].item.kind = "none"
  BY <1>5
<1>7. a < b => 0 < n
  BY <1>0
<1> HIDE DEF n, T
<1> QED
  BY <1>1, <1>6, <1>7

\* One turn of the loop: spaces to the end, or spaces and a token.
Turned(ln, at, l, start, n, t, x) ==
  /\ start \in at..Len(ln) /\ ln[start] # Space /\ \A j \in at..(start - 1) : ln[j] = Space
  /\ CutAt(ln, start, n, t) /\ t \in Cut(ln) /\ x = [at |-> start + n, list |-> Append(l, t)]

LEMMA NextIs ==
  ASSUME NEW ln \in Seq(Symbol), NEW at \in 1..(Len(ln) + 1), NEW l,
         NEW x, x = [at |-> at, list |-> l]
  PROVE  \/ NextToken(ln, x) = x /\ Spaces(ln, at)
         \/ \E start, n, t : Turned(ln, at, l, start, n, t, NextToken(ln, x))
<1>0. Len(ln) \in Nat /\ at \in Nat /\ at >= 1 /\ at <= Len(ln) + 1 /\ x.at = at /\ x.list = l
  OBVIOUS
<1>1. PICK r : r = Rest(ln, at)
  OBVIOUS
<1>2. /\ r \in Seq(Symbol) /\ Len(r) = Len(ln) - at + 1
      /\ \A j \in 1..(Len(ln) - at + 1) : r[j] = ln[at + j - 1]
  BY <1>1, RestIs
<1>3. PICK m : m = RunLength(r, {Space})
  OBVIOUS
<1>4. /\ m \in 0..Len(r) /\ \A j \in 1..m : r[j] \in {Space}
      /\ m < Len(r) => r[m + 1] \notin {Space}
  BY <1>2, <1>3, RunLengthIs
<1>5. PICK start : start = at + m
  OBVIOUS
<1>6. PICK s : s = Rest(ln, start)
  OBVIOUS
<1>7. /\ start \in at..(Len(ln) + 1) /\ start \in 1..(Len(ln) + 1)
      /\ start <= Len(ln) <=> m < Len(r)
  BY <1>0, <1>2, <1>4, <1>5
<1>8. s \in Seq(Symbol) /\ Len(s) = Len(ln) - start + 1
  BY <1>6, <1>7, RestIs
<1>9. \A j \in at..(start - 1) : ln[j] = Space
  <2> SUFFICES ASSUME NEW j \in at..(start - 1)
               PROVE  ln[j] = Space
    OBVIOUS
  <2>1. j - at + 1 \in 1..m /\ j - at + 1 \in 1..(Len(ln) - at + 1) /\ at + (j - at + 1) - 1 = j
    <3>1. PICK n \in Nat : n = Len(ln)
      BY <1>0
    <3>2. PICK k \in Nat : k = Len(r)
      BY <1>2
    <3>3. k = n - at + 1 /\ m \in Nat /\ m <= k /\ at \in Nat /\ at >= 1
      BY <1>0, <1>2, <1>4, <3>1, <3>2
    <3>4. j \in at..(at + m - 1)
      BY <1>0, <1>5, <3>3
    <3>5. j - at + 1 \in 1..m /\ j - at + 1 \in 1..(n - at + 1) /\ at + (j - at + 1) - 1 = j
      BY <3>3, <3>4
    <3> QED
      BY <3>1, <3>5
  <2> QED
    BY <1>2, <1>4, <2>1
<1>10. CASE s = <<>>
  <2>1. NextToken(ln, x) = x
    BY <1>0, <1>1, <1>3, <1>5, <1>6, <1>10 DEF NextToken
  <2>2. start - 1 = Len(ln)
    <3>1. Len(s) = 0
      BY <1>10
    <3> QED
      BY <1>0, <1>7, <1>8, <3>1
  <2> QED
    BY <1>9, <2>1, <2>2 DEF Spaces
<1>11. CASE s # <<>>
  <2>1. start \in 1..Len(ln) /\ start \in at..Len(ln) /\ m < Len(r)
    <3>1. Len(s) # 0
      BY <1>8, <1>11
    <3> QED
      BY <1>0, <1>7, <1>8, <3>1
  <2>2. ln[start] # Space
    <3>1. m + 1 \in 1..(Len(ln) - at + 1) /\ at + (m + 1) - 1 = start
      BY <1>0, <1>2, <1>4, <1>5, <2>1
    <3> QED
      BY <1>2, <1>4, <2>1, <3>1
  <2>3. PICK n : n = get_token_len(s)
    OBVIOUS
  <2>4. PICK t : t = NewToken(start, s, n)
    OBVIOUS
  <2>5. CutAt(ln, start, n, t)
    BY <1>6, <2>1, <2>2, <2>3, <2>4, TokenCut
  <2>6. t \in Cut(ln)
    <3>1. s[1] = ln[start]
      <4>1. 1 \in 1..(Len(ln) - start + 1) /\ start + 1 - 1 = start
        BY <1>0, <2>1
      <4> QED
        BY <1>6, <1>7, <4>1, RestIs
    <3>2. n \in 1..Len(s)
      BY <1>8, <1>11, <2>2, <2>3, <3>1, TokenLength
    <3> QED
      BY <1>6, <2>1, <2>4, <3>2, CutToken
  <2>7. NextToken(ln, x) = [at |-> start + n, list |-> Append(l, t)]
    BY <1>0, <1>1, <1>3, <1>5, <1>6, <1>11, <2>3, <2>4 DEF NextToken
  <2>8. Turned(ln, at, l, start, n, t, NextToken(ln, x))
    BY <1>9, <2>1, <2>2, <2>5, <2>6, <2>7 DEF Turned
  <2> QED
    BY <2>8
<1> QED
  BY <1>10, <1>11

\* Two neighbours: the second one goes on with the word of the first one, or
\* begins an item behind it.
Joined(R, t, u) ==
  /\ t.merge_next => /\ Came(R, u) = Left(R, t)
                     /\ t.value[1] \notin Operator /\ u.value[1] \notin Operator
                     /\ t.value[1] \in Quote \/ u.value[1] \in Quote
  /\ ~ t.merge_next => /\ Ended(Came(R, u)) = Ended(Left(R, t))
                       /\ Came(R, u).item.kind = "word" => u.value[1] \in Operator

\* The reader has read nothing yet.
Untouched(r) == Ended(r) = <<>> /\ r.item.kind = "none"

\* The tokens up to a place of the line, and the reader.
Follows(ln, R, at, l) ==
  /\ \A p \in 1..Len(l) : Fits(R, l[p])
  /\ \A p \in 1..(Len(l) - 1) : Joined(R, l[p], l[p + 1])
  /\ l = <<>> => at = 1
  /\ l # <<>> => Border(ln, R, l[Len(l)], at) /\ Untouched(Came(R, l[1]))

LEMMA JoinedNext ==
  ASSUME NEW ln \in Seq(Symbol), NEW R \in ReadersOf(ln), NEW t, Fits(R, t),
         NEW at \in 1..(Len(ln) + 1), Border(ln, R, t, at),
         NEW start \in at..Len(ln), \A j \in at..(start - 1) : ln[j] = Space,
         NEW n, NEW u, CutAt(ln, start, n, u), ln[start] # Space
  PROVE  Joined(R, t, u) /\ Fits(R, u) /\ Border(ln, R, u, start + n)
<1>0. /\ Len(ln) \in Nat /\ at \in Nat /\ at >= 1 /\ at <= Len(ln) + 1 /\ start \in Nat
      /\ at <= start /\ start <= Len(ln) /\ start \in 1..Len(ln)
  OBVIOUS
<1>1. PICK a : a = at - 1
  OBVIOUS
<1>2. PICK b : b = start - 1
  OBVIOUS
<1>3. a \in 0..Len(ln) /\ b \in a..Len(ln) /\ a + 1 = at
  BY <1>0, <1>1, <1>2
<1>4. R[a] = Left(R, t)
  BY <1>0, <1>1, SMTT(40) DEF Border, Left, Fits
<1>5. R[a].mode = "bare"
  BY <1>4 DEF Fits, TokenRead
<1>6. \A j \in (a + 1)..b : ln[j] = Space
  BY <1>2, <1>3
<1>7. /\ R[b].mode = "bare" /\ Ended(R[b]) = Ended(R[a])
      /\ a < b => R[b].item.kind = "none"
  BY <1>3, <1>5, <1>6, SpacesRead
<1>8. a < b \/ (a = b /\ at = start)
  BY <1>0, <1>1, <1>2
<1>9. NoHalf(ln, start, R[b])
  <2>1. CASE a < b
    BY <1>7, <2>1 DEF NoHalf
  <2>2. CASE a = b /\ at = start
    BY <1>0, <1>1, <2>2 DEF Border
  <2> QED
    BY <1>8, <2>1, <2>2
<1>10. Fits(R, u) /\ Border(ln, R, u, start + n)
  BY <1>0, <1>2, <1>7, <1>9, TokenFits
<1>11. Came(R, u) = R[b] /\ u.value[1] = ln[start]
  BY <1>2 DEF CutAt, Came
<1>12. at < start => ln[at] = Space
  <2> SUFFICES ASSUME at < start
               PROVE  ln[at] = Space
    OBVIOUS
  <2>1. at \in at..(start - 1)
    BY <1>0
  <2> QED
    BY <2>1
<1>13. ASSUME t.merge_next
       PROVE  /\ Came(R, u) = Left(R, t)
              /\ t.value[1] \notin Operator /\ u.value[1] \notin Operator
              /\ t.value[1] \in Quote \/ u.value[1] \in Quote
  <2>1. t.value[1] \notin Operator /\ ln[at] \notin Operator \cup {Space}
    BY <1>13 DEF Border
  <2>2. at = start /\ a = b
    BY <1>0, <1>1, <1>2, <1>12, <2>1
  <2>3. t.value[1] \in Quote \/ ln[at] \in Quote
    <3>1. ln[at] \in Symbol /\ at \in 1..Len(ln)
      BY <1>0, <2>2
    <3>2. t.value[1] \in Quote \/ ln[at] \notin BareSymbol
      BY <1>0, <2>1, <2>2 DEF Border
    <3> QED
      BY <2>1, <3>1, <3>2 DEF BareSymbol
  <2> QED
    BY <1>4, <1>11, <2>1, <2>2, <2>3
<1>14. ASSUME ~ t.merge_next
       PROVE  /\ Ended(Came(R, u)) = Ended(Left(R, t))
              /\ Came(R, u).item.kind = "word" => u.value[1] \in Operator
  <2>1. Ended(Came(R, u)) = Ended(Left(R, t))
    BY <1>4, <1>7, <1>11
  <2>2. ASSUME Came(R, u).item.kind = "word"
        PROVE  u.value[1] \in Operator
    <3>1. R[b].item.kind = "word"
      BY <1>11, <2>2
    <3>2. a = b /\ at = start
      BY <1>7, <1>8, <3>1
    <3>3. t.value[1] \in Operator \/ ln[at] \in Operator \cup {Space}
      BY <1>0, <1>14, <3>2 DEF Border
    <3>4. t.value[1] \notin Operator
      BY <1>4, <3>1, <3>2 DEF Fits, TokenRead
    <3> QED
      BY <1>11, <3>2, <3>3, <3>4
  <2> QED
    BY <2>1, <2>2
<1>15. Joined(R, t, u)
  BY <1>13, <1>14 DEF Joined
<1> QED
  BY <1>10, <1>15

\* One token more.
LEMMA FollowsNext ==
  ASSUME NEW ln \in Seq(Symbol), NEW R \in ReadersOf(ln), NEW at \in 1..(Len(ln) + 1),
         NEW l \in Seq(Cut(ln)), Follows(ln, R, at, l),
         NEW start, NEW n, NEW t, NEW x, Turned(ln, at, l, start, n, t, x)
  PROVE  Follows(ln, R, x.at, x.list)
<1>0. /\ Len(ln) \in Nat /\ at \in Nat /\ at >= 1 /\ at <= Len(ln) + 1 /\ Len(l) \in Nat
      /\ start \in at..Len(ln) /\ ln[start] # Space /\ \A j \in at..(start - 1) : ln[j] = Space
      /\ CutAt(ln, start, n, t) /\ t \in Cut(ln)
  BY DEF Turned
<1>1. PICK lt : lt = Append(l, t)
  OBVIOUS
<1>2. PICK next : next = start + n
  OBVIOUS
<1>3. x.at = next /\ x.list = lt
  BY <1>1, <1>2 DEF Turned
<1>4. /\ lt \in Seq(Cut(ln)) /\ Len(lt) = Len(l) + 1 /\ lt[Len(l) + 1] = t
      /\ \A p \in 1..Len(l) : lt[p] = l[p]
  BY <1>0, <1>1
<1>5. CASE l = <<>>
  <2>1. at = 1 /\ Len(l) = 0
    BY <1>5 DEF Follows
  <2>2. PICK a : a = 0
    OBVIOUS
  <2>3. PICK b : b = start - 1
    OBVIOUS
  <2>4. /\ a \in 0..Len(ln) /\ b \in a..Len(ln) /\ a + 1 = at /\ start \in 1..Len(ln)
        /\ a < b \/ a = b
    BY <1>0, <2>1, <2>2, <2>3
  <2>5. R[a] = Unread /\ R[a].mode = "bare" /\ Untouched(R[a])
    BY <2>2, UnreadIs DEF ReadersOf, Untouched
  <2>6. \A j \in (a + 1)..b : ln[j] = Space
    BY <1>0, <2>3, <2>4
  <2>7. /\ R[b].mode = "bare" /\ Ended(R[b]) = Ended(R[a])
        /\ a < b => R[b].item.kind = "none"
    BY <2>4, <2>5, <2>6, SpacesRead
  <2>8. Untouched(R[b]) /\ NoHalf(ln, start, R[b])
    <3>1. Untouched(R[b])
      BY <2>4, <2>5, <2>7 DEF Untouched
    <3> QED
      BY <3>1 DEF Untouched, NoHalf
  <2>9. Fits(R, t) /\ Border(ln, R, t, start + n)
    BY <1>0, <2>3, <2>4, <2>7, <2>8, TokenFits
  <2>10. Came(R, t) = R[b]
    BY <1>0, <2>3 DEF Came, CutAt
  <2>11. Len(lt) = 1 /\ lt[1] = t /\ lt # <<>>
    <3>1. Len(l) + 1 = 1
      BY <2>1
    <3>2. Len(lt) = 1 /\ lt[1] = t
      BY <1>4, <3>1
    <3> QED
      BY <1>4, <3>2
  <2>12. Follows(ln, R, next, lt)
    <3>1. /\ \A p \in 1..Len(lt) : Fits(R, lt[p])
          /\ \A p \in 1..(Len(lt) - 1) : Joined(R, lt[p], lt[p + 1])
      BY <2>9, <2>11
    <3> QED
      BY <1>2, <2>8, <2>9, <2>10, <2>11, <3>1 DEF Follows
  <2> QED
    BY <1>3, <2>12
<1>6. CASE l # <<>>
  <2>1. Len(l) >= 1 /\ Len(l) \in 1..Len(l) /\ 1 \in 1..Len(l)
    BY <1>0, <1>6
  <2>2. PICK u : u = l[Len(l)]
    OBVIOUS
  <2>3. Fits(R, u) /\ Border(ln, R, u, at) /\ Untouched(Came(R, l[1]))
    BY <1>6, <2>1, <2>2 DEF Follows
  <2>4. Joined(R, u, t) /\ Fits(R, t) /\ Border(ln, R, t, start + n)
    BY <1>0, <2>3, JoinedNext
  <2>5. \A p \in 1..Len(lt) : Fits(R, lt[p])
    <3> SUFFICES ASSUME NEW p \in 1..Len(lt)
                 PROVE  Fits(R, lt[p])
      OBVIOUS
    <3>1. p \in 1..Len(l) \/ p = Len(l) + 1
      BY <1>0, <1>4
    <3>2. p \in 1..Len(l) => Fits(R, l[p])
      BY DEF Follows
    <3> QED
      BY <1>4, <2>4, <3>1, <3>2
  <2>6. \A p \in 1..(Len(lt) - 1) : Joined(R, lt[p], lt[p + 1])
    <3> SUFFICES ASSUME NEW p \in 1..(Len(lt) - 1)
                 PROVE  Joined(R, lt[p], lt[p + 1])
      OBVIOUS
    <3>1. /\ p \in 1..Len(l)
          /\ \/ p \in 1..(Len(l) - 1) /\ p + 1 \in 1..Len(l)
             \/ p = Len(l)
      BY <1>0, <1>4
    <3>2. p \in 1..(Len(l) - 1) => Joined(R, l[p], l[p + 1])
      BY DEF Follows
    <3>3. CASE p \in 1..(Len(l) - 1) /\ p + 1 \in 1..Len(l)
      BY <1>4, <3>1, <3>2, <3>3
    <3>4. CASE p = Len(l)
      BY <1>4, <2>1, <2>2, <2>4, <3>4
    <3> QED
      BY <3>1, <3>3, <3>4
  <2>7. lt # <<>> /\ lt[1] = l[1] /\ lt[Len(lt)] = t
    BY <1>4, <2>1
  <2>8. Follows(ln, R, next, lt)
    BY <1>2, <2>3, <2>4, <2>5, <2>6, <2>7 DEF Follows
  <2> QED
    BY <1>3, <2>8
<1> QED
  BY <1>5, <1>6

\* The tokens of a line, their sentinel behind them, are what the reader reads
\* the items from.
Tracked(R, l, items) ==
  /\ Len(l) > 1 /\ ~ l[Len(l) - 1].merge_next /\ l[Len(l)].value = NULL
  /\ \A p \in 1..(Len(l) - 1) : Fits(R, l[p])
  /\ \A p \in 1..(Len(l) - 2) : Joined(R, l[p], l[p + 1])
  /\ Untouched(Came(R, l[1])) /\ items = Ended(Left(R, l[Len(l) - 1]))

LEMMA SplitReads ==
  ASSUME NEW ln \in Seq(Symbol), NEW R \in ReadersOf(ln)
  PROVE  /\ split_input(ln) = <<>> => Ended(R[Len(ln)]) = <<>>
         /\ split_input(ln) # <<>> => Tracked(R, split_input(ln), Ended(R[Len(ln)]))
<1> DEFINE n == Len(ln)
           U == [at : 1..(Len(ln) + 1), list : Seq(Cut(ln))]
           I == [j \in 0..n |-> {x \in CutUpTo(ln, j) : Follows(ln, R, x.at, x.list)}]
<1>0. n \in Nat /\ 0 \in 0..n /\ n \in 0..n
  OBVIOUS
<1>1. CASE RunLength(ln, {Space}) = Len(ln)
  <2>1. split_input(ln) = <<>>
    BY <1>1 DEF split_input
  <2>2. PICK a : a = 0
    OBVIOUS
  <2>3. PICK b : b = Len(ln)
    OBVIOUS
  <2>4. a \in 0..Len(ln) /\ b \in a..Len(ln)
    BY <1>0, <2>2, <2>3
  <2>5. R[a] = Unread /\ R[a].mode = "bare" /\ Ended(R[a]) = <<>>
    BY <2>2, UnreadIs DEF ReadersOf
  <2>6. \A j \in (a + 1)..b : ln[j] = Space
    <3>1. \A k \in 1..Len(ln) : ln[k] \in {Space}
      BY <1>1, RunLengthIs
    <3>2. \A j \in (a + 1)..b : j \in 1..Len(ln)
      BY <1>0, <2>2, <2>3
    <3> QED
      BY <3>1, <3>2
  <2>7. Ended(R[b]) = Ended(R[a])
    BY <2>4, <2>5, <2>6, SpacesRead
  <2> QED
    BY <2>1, <2>3, <2>5, <2>7
<1>2. CASE RunLength(ln, {Space}) # Len(ln)
  <2>1. PICK z : z = [at |-> 1, list |-> <<>>]
    OBVIOUS
  <2>2. z \in CutUpTo(ln, 0) /\ Follows(ln, R, z.at, z.list)
    <3>1. 1 \in 1..(Len(ln) + 1) /\ <<>> \in Seq(Cut(ln)) /\ Len(<<>>) = 0
      BY <1>0
    <3>2. z \in CutUpTo(ln, 0)
      BY <2>1, <3>1 DEF CutUpTo
    <3>3. z.at = 1 /\ z.list = <<>>
      BY <2>1
    <3> QED
      BY <3>1, <3>2, <3>3 DEF Follows
  <2>3. \A j \in 0..n : I[j] \subseteq U
    BY DEF CutUpTo
  <2>4. \A j \in 1..n : \A y \in I[j - 1] : NextToken(ln, y) \in I[j]
    <3> SUFFICES ASSUME NEW j \in 1..n, NEW y \in I[j - 1]
                 PROVE  NextToken(ln, y) \in I[j]
      OBVIOUS
    <3>1. j \in 0..n /\ j - 1 \in 0..n /\ j \in Nat \ {0}
      BY <1>0
    <3>2. y \in CutUpTo(ln, j - 1) /\ Follows(ln, R, y.at, y.list)
      BY <3>1
    <3>3. NextToken(ln, y) \in CutUpTo(ln, j)
      BY <3>1, <3>2, SplitStep
    <3>4. PICK at : at = y.at
      OBVIOUS
    <3>5. PICK l : l = y.list
      OBVIOUS
    <3>6. at \in 1..(Len(ln) + 1) /\ l \in Seq(Cut(ln)) /\ y = [at |-> at, list |-> l]
      BY <3>2, <3>4, <3>5 DEF CutUpTo
    <3>7. PICK x : x = NextToken(ln, y)
      OBVIOUS
    <3>8. \/ x = y /\ Spaces(ln, at)
          \/ \E start, m, t : Turned(ln, at, l, start, m, t, x)
      BY <3>6, <3>7, NextIs
    <3>9. Follows(ln, R, x.at, x.list)
      <4>1. CASE x = y
        BY <3>2, <4>1
      <4>2. CASE \E start, m, t : Turned(ln, at, l, start, m, t, x)
        <5>1. PICK start, m, t : Turned(ln, at, l, start, m, t, x)
          BY <4>2
        <5>2. Follows(ln, R, at, l)
          BY <3>2, <3>4, <3>5
        <5> QED
          BY <3>6, <5>1, <5>2, FollowsNext
      <4> QED
        BY <3>8, <4>1, <4>2
    <3> QED
      BY <3>1, <3>3, <3>7, <3>9
  <2>5. z \in I[0]
    BY <1>0, <2>2
  <2>6. PICK x \in I[n] : Turns(LAMBDA y, k : NextToken(ln, y), z, n) = x
    <3> HIDE DEF I, U
    <3> QED
      BY <2>1, <2>3, <2>4, <2>5, SplitLoop
  <2>7. x \in CutUpTo(ln, n) /\ Follows(ln, R, x.at, x.list)
    BY <1>0
  <2>8. PICK at : at = x.at
    OBVIOUS
  <2>9. PICK l : l = x.list
    OBVIOUS
  <2>10. /\ at \in 1..(Len(ln) + 1) /\ l \in Seq(Cut(ln)) /\ Len(l) \in Nat
         /\ Follows(ln, R, at, l) /\ Spaces(ln, at)
    <3>1. /\ at \in 1..(Len(ln) + 1) /\ l \in Seq(Cut(ln)) /\ Follows(ln, R, at, l)
          /\ n < at \/ Spaces(ln, at)
      BY <2>7, <2>8, <2>9 DEF CutUpTo
    <3>2. n < at => Spaces(ln, at)
      BY <1>0, <3>1 DEF Spaces
    <3> QED
      BY <3>1, <3>2
  <2>11. PICK t : t = Sentinel(Len(ln) + 1)
    OBVIOUS
  <2>12. split_input(ln) = Append(l, t)
    BY <1>2, <2>1, <2>6, <2>9, <2>11 DEF split_input
  <2>13. l # <<>>
    <3> SUFFICES ASSUME l = <<>>
                 PROVE  FALSE
      OBVIOUS
    <3>1. Spaces(ln, 1)
      BY <2>10 DEF Follows
    <3>2. PICK m : m = RunLength(ln, {Space})
      OBVIOUS
    <3>3. m \in 0..n /\ (m < n => ln[m + 1] \notin {Space}) /\ m # n
      BY <1>2, <3>2, RunLengthIs
    <3>4. m + 1 \in 1..n /\ m < n
      BY <1>0, <3>3
    <3> QED
      BY <3>1, <3>3, <3>4 DEF Spaces
  <2>14. PICK k : k = Len(l)
    OBVIOUS
  <2>15. k \in Nat /\ k >= 1 /\ k \in 1..Len(l) /\ 1 \in 1..Len(l)
    BY <2>10, <2>13, <2>14
  <2>16. PICK last : last = l[k]
    OBVIOUS
  <2>17. Fits(R, last) /\ Border(ln, R, last, at) /\ Untouched(Came(R, l[1]))
    BY <2>10, <2>13, <2>14, <2>15, <2>16 DEF Follows
  <2>18. ~ last.merge_next
    <3> SUFFICES ASSUME last.merge_next
                 PROVE  FALSE
      OBVIOUS
    <3>1. at <= Len(ln) /\ ln[at] # Space
      BY <2>17 DEF Border
    <3>2. at \in at..Len(ln)
      BY <1>0, <2>10, <3>1
    <3> QED
      BY <2>10, <3>1, <3>2 DEF Spaces
  <2>19. Ended(R[n]) = Ended(Left(R, last))
    <3>1. PICK a : a = at - 1
      OBVIOUS
    <3>2. a \in 0..Len(ln) /\ n \in a..Len(ln) /\ a + 1 = at
      BY <1>0, <2>10, <3>1
    <3>3. R[a] = Left(R, last)
      BY <2>10, <2>17, <3>1 DEF Border, Left, Fits
    <3>4. R[a].mode = "bare"
      BY <2>17, <3>3 DEF Fits, TokenRead
    <3>5. \A j \in (a + 1)..n : ln[j] = Space
      BY <2>10, <3>2 DEF Spaces
    <3>6. Ended(R[n]) = Ended(R[a])
      BY <3>2, <3>4, <3>5, SpacesRead
    <3> QED
      BY <3>3, <3>6
  <2>20. t \in Cut(ln) /\ t.value = NULL
    <3>1. /\ t.value = NULL /\ t.type = "PIPE" /\ t.coretype = "PIPE" /\ t.merge_next = FALSE
          /\ t.args = <<>>
      BY <2>11 DEF Sentinel
    <3>2. t \in Token
      BY <1>0, <2>11 DEF Sentinel, Token
    <3> QED
      BY <3>1, <3>2 DEF Cut
  <2>21. PICK lt : lt = Append(l, t)
    OBVIOUS
  <2>22. /\ Len(lt) = k + 1 /\ lt[k + 1] = t /\ \A p \in 1..k : lt[p] = l[p]
    BY <2>10, <2>14, <2>20, <2>21
  <2>23. lt # <<>> /\ Len(lt) > 1 /\ lt[Len(lt) - 1] = last /\ lt[Len(lt)] = t /\ lt[1] = l[1]
    BY <2>14, <2>15, <2>16, <2>22
  <2>24. \A p \in 1..(Len(lt) - 1) : Fits(R, lt[p])
    BY <2>10, <2>14, <2>15, <2>22 DEF Follows
  <2>25. \A p \in 1..(Len(lt) - 2) : Joined(R, lt[p], lt[p + 1])
    <3> SUFFICES ASSUME NEW p \in 1..(Len(lt) - 2)
                 PROVE  Joined(R, lt[p], lt[p + 1])
      OBVIOUS
    <3>1. p \in 1..(Len(l) - 1) /\ p \in 1..k /\ p + 1 \in 1..k
      BY <2>14, <2>15, <2>22
    <3>2. Joined(R, l[p], l[p + 1])
      BY <2>10, <3>1 DEF Follows
    <3> QED
      BY <2>22, <3>1, <3>2
  <2>26. Tracked(R, lt, Ended(R[n]))
    BY <2>17, <2>18, <2>19, <2>20, <2>23, <2>24, <2>25 DEF Tracked
  <2> QED
    BY <2>12, <2>21, <2>23, <2>26
<1> QED
  BY <1>1, <1>2

-----------------------------------------------------------------------------
(* Which item each token is part of. *)

\* The item the reader is in is behind the ones it has read.
LEMMA EndedIs ==
  ASSUME NEW r \in ReaderSet, r.item.kind # "none"
  PROVE  /\ Ended(r) \in Seq(ItemSet) /\ Len(Ended(r)) = Len(r.items) + 1
         /\ Ended(r)[Len(r.items) + 1] = r.item
         /\ \A p \in 1..Len(r.items) : Ended(r)[p] = r.items[p]
<1>1. r.items \in Seq(ItemSet) /\ r.item \in ItemSet
  BY ReaderIs
<1>2. Ended(r) = Append(r.items, r.item)
  BY DEF Ended
<1> QED
  BY <1>1, <1>2

\* The word b begins like a and has a part that a has not, or a quote in it is
\* not closed.
Bigger(b, a) ==
  b.open \/ /\ ~ a.open /\ Len(b.parts) > Len(a.parts)
            /\ a.parts # <<>> => b.parts[1] = a.parts[1]

LEMMA BiggerTransitive ==
  ASSUME NEW a \in ItemSet, NEW b \in ItemSet, NEW c \in ItemSet, Bigger(b, a), Bigger(c, b)
  PROVE  Bigger(c, a)
<1>1. /\ Len(a.parts) \in Nat /\ Len(b.parts) \in Nat /\ Len(c.parts) \in Nat
      /\ a.parts # <<>> => Len(a.parts) > 0
      /\ Len(b.parts) > 0 => b.parts # <<>>
  <2>1. a.parts \in Seq(PartSet) /\ b.parts \in Seq(PartSet) /\ c.parts \in Seq(PartSet)
    BY DEF ItemSet
  <2> QED
    BY <2>1
<1> QED
  BY <1>1 DEF Bigger

\* b is behind a token that goes on with the item a is in, or begins one.
Goes(a, b, glue) ==
  IF glue THEN /\ b.items = a.items /\ b.item.kind = a.item.kind
               /\ Bigger(b.item, a.item)
               /\ Ajar(b.item) <=> Ajar(a.item)
  ELSE b.items = Ended(a)

\* The item at the place of the token k is the one it was read into.
Holds(B, glue, k, j) ==
  /\ Len(B[j].items) + 1 \in 1..(Len(B[k].items) + 1)
  /\ Ended(B[k])[Len(B[j].items) + 1].kind = B[j].item.kind
  /\ Ajar(Ended(B[k])[Len(B[j].items) + 1]) <=> Ajar(B[j].item)
  /\ (j = k \/ ~ glue[j]) => Ended(B[k])[Len(B[j].items) + 1] = B[j].item
  /\ (j # k /\ ~ glue[j]) => Len(B[j].items) < Len(B[k].items)
  /\ (j # k /\ glue[j]) => Bigger(Ended(B[k])[Len(B[j].items) + 1], B[j].item)

LEMMA HoldsAt ==
  ASSUME NEW B, NEW glue, NEW k, B[k] \in ReaderSet, B[k].item.kind # "none"
  PROVE  Holds(B, glue, k, k)
<1>1. PICK r : r = B[k]
  OBVIOUS
<1>2. r.items \in Seq(ItemSet) /\ Len(r.items) \in Nat
  BY <1>1, ReaderIs
<1>3. Ended(r)[Len(r.items) + 1] = r.item
  BY <1>1, EndedIs
<1>4. Len(r.items) + 1 \in 1..(Len(r.items) + 1)
  BY <1>2
<1> QED
  BY <1>1, <1>3, <1>4 DEF Holds

LEMMA HoldsNext ==
  ASSUME NEW B, NEW glue, NEW k \in Nat, NEW j \in Nat, j <= k, NEW m, m = k + 1,
         B[j] \in ReaderSet, B[k] \in ReaderSet, B[m] \in ReaderSet,
         B[k].item.kind # "none", B[m].item.kind # "none",
         Holds(B, glue, k, j), Goes(B[k], B[m], glue[k])
  PROVE  Holds(B, glue, m, j)
<1>1. PICK a : a = B[k]
  OBVIOUS
<1>2. PICK b : b = B[m]
  OBVIOUS
<1>3. PICK p : p = Len(B[j].items) + 1
  OBVIOUS
<1>4. Len(a.items) \in Nat /\ Len(b.items) \in Nat /\ p \in Nat /\ j # m
  <2>1. a.items \in Seq(ItemSet) /\ b.items \in Seq(ItemSet) /\ B[j].items \in Seq(ItemSet)
    BY <1>1, <1>2, ReaderIs
  <2> QED
    BY <1>3, <2>1
<1>5. /\ Len(Ended(a)) = Len(a.items) + 1 /\ Ended(a)[Len(a.items) + 1] = a.item
      /\ \A q \in 1..Len(a.items) : Ended(a)[q] = a.items[q]
  BY <1>1, EndedIs
<1>6. /\ Len(Ended(b)) = Len(b.items) + 1 /\ Ended(b)[Len(b.items) + 1] = b.item
      /\ \A q \in 1..Len(b.items) : Ended(b)[q] = b.items[q]
  BY <1>2, EndedIs
<1>7. /\ p \in 1..(Len(a.items) + 1) /\ Ended(a)[p].kind = B[j].item.kind
      /\ Ajar(Ended(a)[p]) <=> Ajar(B[j].item)
      /\ (j = k \/ ~ glue[j]) => Ended(a)[p] = B[j].item
      /\ (j # k /\ ~ glue[j]) => Len(B[j].items) < Len(a.items)
      /\ (j # k /\ glue[j]) => Bigger(Ended(a)[p], B[j].item)
  BY <1>1, <1>3 DEF Holds
<1>8. CASE ~ glue[k]
  <2>1. b.items = Ended(a)
    BY <1>1, <1>2, <1>8 DEF Goes
  <2>2. p \in 1..Len(b.items) /\ p \in 1..(Len(b.items) + 1) /\ p - 1 < Len(b.items)
    BY <1>4, <1>5, <1>7, <2>1
  <2>3. Ended(b)[p] = Ended(a)[p]
    BY <1>6, <2>1, <2>2
  <2>4. Len(B[j].items) < Len(b.items)
    BY <1>3, <1>4, <2>2, ReaderIs
  <2> QED
    BY <1>2, <1>3, <1>4, <1>7, <1>8, <2>2, <2>3, <2>4 DEF Holds
<1>9. CASE glue[k]
  <2>1. /\ b.items = a.items /\ b.item.kind = a.item.kind /\ (Ajar(b.item) <=> Ajar(a.item))
        /\ Bigger(b.item, a.item)
    BY <1>1, <1>2, <1>9 DEF Goes
  <2>2. CASE p = Len(a.items) + 1
    <3>1. ~ (~ glue[j])
      <4> SUFFICES ASSUME ~ glue[j]
                   PROVE  FALSE
        OBVIOUS
      <4>1. j # k
        BY <1>9
      <4>2. Len(B[j].items) < Len(a.items)
        BY <1>7, <4>1
      <4>3. Len(B[j].items) = Len(a.items)
        BY <1>3, <1>4, <2>2, ReaderIs, SMTT(40)
      <4> QED
        BY <1>4, <4>2, <4>3
    <3>2. Ended(b)[p] = b.item /\ Ended(a)[p] = a.item /\ p \in 1..(Len(b.items) + 1)
      BY <1>4, <1>5, <1>6, <2>1, <2>2
    <3>3. Bigger(b.item, B[j].item)
      <4>1. a.item \in ItemSet /\ b.item \in ItemSet /\ B[j].item \in ItemSet
        BY <1>1, <1>2, ReaderIs
      <4>2. CASE j = k
        BY <1>1, <2>1, <4>2
      <4>3. CASE j # k
        <5>1. Bigger(a.item, B[j].item)
          BY <1>7, <3>1, <3>2, <4>3
        <5> QED
          BY <2>1, <4>1, <5>1, BiggerTransitive
      <4> QED
        BY <4>2, <4>3
    <3> QED
      BY <1>2, <1>3, <1>4, <1>7, <2>1, <3>1, <3>2, <3>3 DEF Holds
  <2>3. CASE p # Len(a.items) + 1
    <3>1. p \in 1..Len(a.items) /\ p \in 1..(Len(b.items) + 1)
      BY <1>4, <1>7, <2>1, <2>3, SMTT(40)
    <3>2. Ended(b)[p] = Ended(a)[p]
      BY <1>5, <1>6, <2>1, <3>1
    <3>3. Len(B[j].items) < Len(b.items)
      BY <1>3, <1>4, <2>1, <3>1, ReaderIs
    <3>4. j # k
      BY <1>1, <1>3, <2>3
    <3> QED
      BY <1>2, <1>3, <1>4, <1>7, <3>1, <3>2, <3>3, <3>4 DEF Holds
  <2> QED
    BY <2>2, <2>3
<1> QED
  BY <1>8, <1>9

LEMMA Grouping ==
  ASSUME NEW n \in Nat \ {0}, NEW B, NEW glue,
         \A k \in 1..n : B[k] \in ReaderSet /\ B[k].item.kind # "none",
         \A k \in 1..(n - 1) : Goes(B[k], B[k + 1], glue[k])
  PROVE  \A j \in 1..n : Holds(B, glue, n, j)
<1> DEFINE T == {k \in 0..n : \A j \in 1..k : Holds(B, glue, k, j)}
<1>1. 0 \in T /\ n \in 0..n
  OBVIOUS
<1>2. ASSUME NEW k \in 1..n, k - 1 \in T
      PROVE  k \in T
  <2>1. k \in 0..n /\ k \in Nat
    OBVIOUS
  <2>2. ASSUME NEW j \in 1..k
        PROVE  Holds(B, glue, k, j)
    <3>1. CASE j = k
      BY <3>1, HoldsAt
    <3>2. CASE j # k
      <4>1. PICK h : h = k - 1
        OBVIOUS
      <4>2. /\ h \in Nat /\ h \in 1..(n - 1) /\ h \in 1..n /\ h + 1 = k /\ j \in 1..h
            /\ j \in Nat /\ j <= h /\ j \in 1..n
        BY <3>2, <4>1
      <4>3. Holds(B, glue, h, j)
        BY <1>2, <4>1, <4>2
      <4>4. Goes(B[h], B[k], glue[h])
        BY <4>2
      <4>5. /\ B[j] \in ReaderSet /\ B[h] \in ReaderSet /\ B[k] \in ReaderSet
            /\ B[h].item.kind # "none" /\ B[k].item.kind # "none"
        BY <4>2
      <4> QED
        BY <2>1, <4>2, <4>3, <4>4, <4>5, HoldsNext
    <3> QED
      BY <3>1, <3>2
  <2> QED
    BY <2>1, <2>2
<1>3. \A k \in 0..n : k \in T
  <2> HIDE DEF T
  <2> QED
    BY <1>1, <1>2, UpTo
<1> QED
  BY <1>1, <1>3

\* What an item holds already where a token goes on with it.
Begun(R, t) ==
  IF Came(R, t).item.kind = "word" /\ t.value[1] \notin Operator
  THEN Text(Came(R, t).item) ELSE <<>>

\* A word of this one token has one part; one of more tokens has more.
Sole(v, item) ==
  (v[1] \notin Operator /\ ~ Lone(v)) => item.parts = <<Part(ModeOf(v), Inner(v))>>
Many(item) == item.open \/ Len(item.parts) > 1

\* The word begins with this token.
Leading(v, item) ==
  (v[1] \notin Operator /\ ~ item.open) =>
    item.parts # <<>> /\ item.parts[1] = Part(ModeOf(v), Inner(v))

LEMMA LeadingIs ==
  ASSUME NEW v, NEW x, NEW y, x = y \/ Bigger(x, y), Sole(v, y),
         v[1] \notin Operator => (Lone(v) => y.open)
  PROVE  Leading(v, x)
<1> SUFFICES ASSUME v[1] \notin Operator, ~ x.open
             PROVE  x.parts # <<>> /\ x.parts[1] = Part(ModeOf(v), Inner(v))
  BY DEF Leading
<1>1. PICK a : a = Part(ModeOf(v), Inner(v))
  OBVIOUS
<1>2. ~ y.open
  BY DEF Bigger
<1>3. y.parts = <<a>>
  BY <1>1, <1>2 DEF Sole
<1>4. y.parts # <<>> /\ y.parts[1] = a /\ Len(y.parts) = 1 /\ Len(<<>>) = 0
  BY <1>3
<1>5. x.parts[1] = a /\ Len(x.parts) >= 1 /\ x.parts # <<>>
  <2>1. CASE x = y
    BY <1>4, <2>1
  <2>2. CASE Bigger(x, y)
    <3>1. x.parts[1] = y.parts[1] /\ Len(x.parts) > 1
      BY <1>4, <2>2 DEF Bigger
    <3>2. x.parts # <<>>
      BY <1>4, <3>1
    <3> QED
      BY <1>4, <3>1, <3>2
  <2> QED
    BY <2>1, <2>2
<1> QED
  BY <1>1, <1>5

\* The token begins the item it is part of.
Heads(R, t) ==
  /\ Sole(t.value, Left(R, t).item)
  /\ Left(R, t).item.kind = "op" <=> t.value[1] \in Operator
  /\ Ajar(Left(R, t).item) <=> Lone(t.value)

LEMMA InnerTyped ==
  ASSUME NEW v \in Seq(Symbol)
  PROVE  Inner(v) \in Seq(Symbol)
<1>1. CASE v[1] \in Quote /\ Len(v) > 1
  <2>1. 2 \in 1..(Len(v) + 1) /\ Len(v) - 1 \in (2 - 1)..Len(v)
    BY <1>1
  <2>2. SubSeq(v, 2, Len(v) - 1) \in Seq(Symbol)
    BY <2>1, PieceIs
  <2> QED
    BY <1>1, <2>2 DEF Inner
<1>2. CASE ~ (v[1] \in Quote /\ Len(v) > 1)
  BY <1>2 DEF Inner
<1> QED
  BY <1>1, <1>2

LEMMA TextIsTyped ==
  ASSUME NEW item \in ItemSet
  PROVE  Text(item) \in Seq(Symbol)
<1>1. item.parts \in Seq(PartSet)
  BY DEF ItemSet
<1>2. Text(item) = TextOf(item.parts)
  BY DEF Text, TextOf
<1> QED
  BY <1>1, <1>2, TextTyped

\* A token and the reader around it.
LEMMA TokenAdds ==
  ASSUME NEW R, NEW t, Fits(R, t), Came(R, t) \in ReaderSet
  PROVE  /\ Left(R, t) \in ReaderSet /\ Left(R, t).item.kind # "none"
         /\ Begun(R, t) \in Seq(Symbol) /\ Inner(t.value) \in Seq(Symbol)
         /\ Text(Left(R, t).item) = Begun(R, t) \o Inner(t.value)
<1>1. PICK r : r = Came(R, t)
  OBVIOUS
<1>2. PICK b : b = Left(R, t)
  OBVIOUS
<1>3. PICK v : v = t.value
  OBVIOUS
<1>4. TokenRead(r, v, b) /\ v \in Seq(Symbol)
  BY <1>1, <1>2, <1>3 DEF Fits
<1>5. b \in ReaderSet /\ b.item.kind # "none"
  BY <1>4 DEF TokenRead
<1>6. Inner(v) \in Seq(Symbol)
  BY <1>4, InnerTyped
<1>7. CASE r.item.kind = "word" /\ v[1] \notin Operator
  <2>1. Begun(R, t) = Text(r.item)
    BY <1>1, <1>3, <1>7 DEF Begun
  <2>2. Text(b.item) = Text(r.item) \o Inner(v)
    BY <1>4, <1>7 DEF TokenRead
  <2>3. Text(r.item) \in Seq(Symbol)
    BY <1>1, ReaderIs, TextIsTyped
  <2> QED
    BY <1>2, <1>3, <1>5, <1>6, <2>1, <2>2, <2>3
<1>8. CASE ~ (r.item.kind = "word" /\ v[1] \notin Operator)
  <2>1. Begun(R, t) = <<>>
    BY <1>1, <1>3, <1>8 DEF Begun
  <2>2. Text(b.item) = Inner(v)
    BY <1>4, <1>8 DEF TokenRead
  <2>3. <<>> \in Seq(Symbol) /\ <<>> \o Inner(v) = Inner(v)
    BY <1>6, ConcatEmptySeq
  <2> QED
    BY <1>2, <1>3, <1>5, <1>6, <2>1, <2>2, <2>3
<1> QED
  BY <1>7, <1>8

\* A token that no word stands before.
LEMMA SoleRead ==
  ASSUME NEW r, NEW v, NEW b, TokenRead(r, v, b), r.item.kind # "word"
  PROVE  Sole(v, b.item)
<1> SUFFICES ASSUME v[1] \notin Operator, ~ Lone(v)
             PROVE  b.item.parts = <<Part(ModeOf(v), Inner(v))>>
  BY DEF Sole
<1>1. b.item.parts = With(PartsOf(r), ModeOf(v), Inner(v)) /\ PartsOf(r) = <<>>
  BY DEF TokenRead, PartRead, PartsOf
<1>2. PICK a : a = Part(ModeOf(v), Inner(v))
  OBVIOUS
<1>3. Append(<<>>, a) = <<a>>
  OBVIOUS
<1> QED
  BY <1>1, <1>2, <1>3 DEF With

\* A token behind another one of a word is a part of its own.
LEMMA PartAdded ==
  ASSUME NEW R, NEW t, NEW u, Fits(R, t), Fits(R, u), Joined(R, t, u), t.merge_next,
         Came(R, t) \in ReaderSet
  PROVE  Bigger(Left(R, u).item, Left(R, t).item)
<1>1. PICK a : a = Left(R, t)
  OBVIOUS
<1>2. PICK b : b = Left(R, u)
  OBVIOUS
<1>3. /\ Came(R, u) = a /\ t.value[1] \notin Operator /\ u.value[1] \notin Operator
      /\ t.value[1] \in Quote \/ u.value[1] \in Quote
  BY <1>1 DEF Joined
<1>4. PICK v : v = t.value
  OBVIOUS
<1>5. PICK w : w = u.value
  OBVIOUS
<1>6. /\ PartRead(Came(R, t), v, a) /\ a \in ReaderSet /\ a.item.kind = "word"
      /\ v \in Seq(Symbol)
  BY <1>1, <1>3, <1>4 DEF Fits, TokenRead
<1>7. PartRead(a, w, b) /\ b \in ReaderSet /\ w \in Seq(Symbol)
  BY <1>2, <1>3, <1>5 DEF Fits, TokenRead
<1>8. /\ b.item.open <=> (a.item.open \/ Lone(w))
      /\ ~ Lone(w) => b.item.parts = With(a.item.parts, ModeOf(w), Inner(w))
  BY <1>6, <1>7 DEF PartRead, PartsOf, OpenIn
<1>9. SUFFICES ASSUME ~ b.item.open
               PROVE  /\ ~ a.item.open /\ Len(b.item.parts) > Len(a.item.parts)
                      /\ a.item.parts # <<>> => b.item.parts[1] = a.item.parts[1]
  BY <1>1, <1>2 DEF Bigger
<1>10. ~ a.item.open /\ b.item.parts = With(a.item.parts, ModeOf(w), Inner(w))
  BY <1>8, <1>9
<1>11. a.item.parts \in Seq(PartSet)
  BY <1>6 DEF ReaderSet, ItemSet
<1>12. ~ (ModeOf(w) = "bare" /\ a.item.parts # <<>> /\ Last(a.item.parts).mode = "bare")
  <2> SUFFICES ASSUME ModeOf(w) = "bare"
               PROVE  Last(a.item.parts).mode # "bare"
    OBVIOUS
  <2>1. w[1] \notin Quote
    BY DEF ModeOf, Quote
  <2>2. PICK q \in Quote : q = v[1]
    BY <1>3, <1>4, <1>5, <2>1
  <2>3. ModeOf(v) = q /\ q \in Modes /\ q # "bare"
    BY <2>2 DEF ModeOf, Quote, Modes
  <2>4. a.item.parts = With(PartsOf(Came(R, t)), q, Inner(v))
    BY <1>6, <1>10, <2>3 DEF PartRead
  <2>5. PICK all : all = PartsOf(Came(R, t))
    OBVIOUS
  <2>6. all \in Seq(PartSet)
    <3>1. Came(R, t).item.parts \in Seq(PartSet)
      BY DEF ReaderSet, ItemSet
    <3> QED
      BY <2>5, <3>1 DEF PartsOf
  <2>7. PICK x \in PartSet : x = Part(q, Inner(v)) /\ x.mode = q
    BY <1>6, <2>3, InnerTyped, PartIs
  <2>8. a.item.parts = Append(all, x)
    BY <2>3, <2>4, <2>5, <2>7 DEF With
  <2>9. Last(Append(all, x)) = x
    BY <2>6 DEF Last
  <2> QED
    BY <2>3, <2>7, <2>8, <2>9
<1>13. PICK x : x = Part(ModeOf(w), Inner(w))
  OBVIOUS
<1>14. b.item.parts = Append(a.item.parts, x)
  BY <1>10, <1>12, <1>13 DEF With
<1>15. /\ Len(Append(a.item.parts, x)) = Len(a.item.parts) + 1 /\ Len(a.item.parts) \in Nat
       /\ a.item.parts # <<>> => Append(a.item.parts, x)[1] = a.item.parts[1]
  <2>1. a.item.parts # <<>> => 1 \in 1..Len(a.item.parts)
    BY <1>11
  <2> QED
    BY <1>11, <2>1
<1> QED
  BY <1>10, <1>14, <1>15

\* A word that is read has a part.
LEMMA SomePart ==
  ASSUME NEW R, NEW t, Fits(R, t), Came(R, t) \in ReaderSet, Left(R, t) \in ReaderSet,
         t.value[1] \notin Operator, NEW y, y = Left(R, t).item
  PROVE  y \in ItemSet /\ (y.open \/ y.parts # <<>>)
<1>1. PICK v : v = t.value
  OBVIOUS
<1>2. PartRead(Came(R, t), v, Left(R, t)) /\ v \in Seq(Symbol)
  BY <1>1 DEF Fits, TokenRead
<1>3. PICK all : all = PartsOf(Came(R, t))
  OBVIOUS
<1>4. all \in Seq(PartSet)
  <2>1. Came(R, t).item.parts \in Seq(PartSet)
    BY DEF ReaderSet, ItemSet
  <2> QED
    BY <1>3, <2>1 DEF PartsOf
<1>5. PICK m \in Modes : m = ModeOf(v)
  BY DEF ModeOf, Modes, Quote
<1>6. PICK w \in Seq(Symbol) : w = Inner(v)
  BY <1>2, InnerTyped
<1>7. With(all, m, w) # <<>>
  BY <1>4, WithTyped
<1>8. y.open \/ y.parts = With(all, m, w)
  BY <1>2, <1>3, <1>5, <1>6 DEF PartRead
<1>9. y \in ItemSet
  BY DEF ReaderSet
<1> QED
  BY <1>7, <1>8, <1>9

LEMMA FirstToken ==
  ASSUME NEW R, NEW t, Fits(R, t), Untouched(Came(R, t))
  PROVE  Left(R, t).items = <<>> /\ Begun(R, t) = <<>> /\ Heads(R, t)
<1>1. TokenRead(Came(R, t), t.value, Left(R, t)) /\ Came(R, t).item.kind # "word"
      /\ Ended(Came(R, t)) = <<>>
  BY DEF Fits, Untouched
<1>2. Begun(R, t) = <<>>
  BY <1>1 DEF Begun
<1>3. /\ Left(R, t).items = <<>>
      /\ Left(R, t).item.kind = IF t.value[1] \in Operator THEN "op" ELSE "word"
      /\ Ajar(Left(R, t).item) <=> Lone(t.value)
  BY <1>1 DEF TokenRead
<1>4. Sole(t.value, Left(R, t).item)
  BY <1>1, SoleRead
<1> QED
  BY <1>2, <1>3, <1>4 DEF Heads

\* From a token to the next one.
Advances(R, t, u) ==
  /\ t.merge_next => Begun(R, u) = Text(Left(R, t).item)
  /\ ~ t.merge_next => Begun(R, u) = <<>> /\ Heads(R, u)

LEMMA Neighbours ==
  ASSUME NEW R, NEW t, NEW u, Fits(R, t), Fits(R, u), Joined(R, t, u),
         Came(R, t) \in ReaderSet
  PROVE  Goes(Left(R, t), Left(R, u), t.merge_next) /\ Advances(R, t, u)
<1>1. PICK r : r = Came(R, u)
  OBVIOUS
<1>2. PICK a : a = Left(R, t)
  OBVIOUS
<1>3. PICK b : b = Left(R, u)
  OBVIOUS
<1>4. TokenRead(r, u.value, b)
  BY <1>1, <1>3 DEF Fits
<1>5. a.item.kind = IF t.value[1] \in Operator THEN "op" ELSE "word"
  BY <1>2 DEF Fits, TokenRead
<1>6. CASE t.merge_next
  <2>1. r = a /\ t.value[1] \notin Operator /\ u.value[1] \notin Operator
    BY <1>1, <1>2, <1>6 DEF Joined
  <2>2. r.item.kind = "word"
    BY <1>5, <2>1
  <2>3. b.items = a.items /\ b.item.kind = "word" /\ (Ajar(b.item) <=> Ajar(a.item))
    BY <1>4, <2>1, <2>2 DEF TokenRead
  <2>4. Begun(R, u) = Text(a.item)
    BY <1>1, <2>1, <2>2 DEF Begun
  <2>5. Goes(a, b, t.merge_next)
    BY <1>2, <1>3, <1>6, <2>1, <2>2, <2>3, PartAdded DEF Goes
  <2> QED
    BY <1>2, <1>3, <1>6, <2>4, <2>5 DEF Advances
<1>7. CASE ~ t.merge_next
  <2>1. Ended(r) = Ended(a) /\ (r.item.kind = "word" => u.value[1] \in Operator)
    BY <1>1, <1>2, <1>7 DEF Joined
  <2>2. /\ b.items = Ended(r) /\ (Ajar(b.item) <=> Lone(u.value))
        /\ b.item.kind = IF u.value[1] \in Operator THEN "op" ELSE "word"
    BY <1>4, <2>1 DEF TokenRead
  <2>3. Begun(R, u) = <<>>
    BY <1>1, <2>1 DEF Begun
  <2>4. Goes(a, b, t.merge_next)
    BY <1>7, <2>1, <2>2 DEF Goes
  <2>5. Heads(R, u)
    <3>1. CASE r.item.kind # "word"
      BY <1>1, <1>3, <1>4, <2>2, <3>1, SoleRead DEF Heads
    <3>2. CASE r.item.kind = "word"
      BY <1>3, <2>1, <2>2, <3>2 DEF Heads, Sole
    <3> QED
      BY <3>1, <3>2
  <2> QED
    BY <1>2, <1>3, <1>7, <2>3, <2>4, <2>5 DEF Advances
<1> QED
  BY <1>6, <1>7

\* What the tokens of the list l are of the items: g[k] is the place of the
\* item the token k is part of, begun[k] what stands in it before the token.
Divided(l, items, g, begun) ==
  /\ items \in Seq(ItemSet) /\ Len(l) > 1
  /\ g[1] = 1 /\ g[Len(l)] = Len(items) + 1 /\ begun[1] = <<>>
  /\ ~ l[Len(l) - 1].merge_next
  /\ \A k \in 1..(Len(l) - 1) :
       /\ g[k] \in 1..Len(items)
       /\ begun[k] \in Seq(Symbol) /\ Inner(l[k].value) \in Seq(Symbol)
       /\ l[k].merge_next =>
            /\ k < Len(l) - 1 /\ g[k + 1] = g[k]
            /\ begun[k + 1] = begun[k] \o Inner(l[k].value) /\ Many(items[g[k]])
            /\ l[k].value[1] \notin Operator
       /\ ~ l[k].merge_next =>
            /\ g[k + 1] = g[k] + 1 /\ Text(items[g[k]]) = begun[k] \o Inner(l[k].value)
            /\ k < Len(l) - 1 => begun[k + 1] = <<>>
       /\ (k = 1 \/ ~ l[k - 1].merge_next) =>
            /\ items[g[k]].kind = "op" <=> l[k].value[1] \in Operator
            /\ Ajar(items[g[k]]) <=> Lone(l[k].value)
            /\ l[k].merge_next \/ Sole(l[k].value, items[g[k]])
            /\ Leading(l[k].value, items[g[k]])

LEMMA TokensDivide ==
  ASSUME NEW R, NEW X, NEW l \in Seq(X), NEW items, Tracked(R, l, items),
         \A k \in 1..(Len(l) - 1) : Came(R, l[k]) \in ReaderSet
  PROVE  \E g, begun : Divided(l, items, g, begun)
<1> DEFINE n == Len(l) - 1
           B == [k \in 1..n |-> Left(R, l[k])]
           glue == [k \in 1..n |-> l[k].merge_next]
           g == [k \in 1..(n + 1) |-> IF k = n + 1 THEN Len(items) + 1
                                      ELSE Len(B[k].items) + 1]
           begun == [k \in 1..n |-> Begun(R, l[k])]
<1>1. n \in Nat \ {0} /\ Len(l) = n + 1 /\ 1 \in 1..n /\ n \in 1..n /\ Len(l) - 2 = n - 1
  BY DEF Tracked
<1>2. \A k \in 1..n : Fits(R, l[k]) /\ Came(R, l[k]) \in ReaderSet
  BY DEF Tracked
<1>3. \A k \in 1..n : B[k] = Left(R, l[k]) /\ glue[k] = l[k].merge_next /\ begun[k] = Begun(R, l[k])
  OBVIOUS
<1> HIDE DEF n, B, glue, begun
<1>4. /\ \A k \in 1..n : g[k] = Len(B[k].items) + 1
      /\ g[n + 1] = Len(items) + 1
  <2>1. \A k \in 1..n : k \in 1..(n + 1) /\ k # n + 1
    BY <1>1
  <2>2. n + 1 \in 1..(n + 1)
    BY <1>1
  <2> QED
    BY <2>1, <2>2
<1> HIDE DEF g
<1>5. \A k \in 1..n : /\ B[k] \in ReaderSet /\ B[k].item.kind # "none"
                      /\ begun[k] \in Seq(Symbol) /\ Inner(l[k].value) \in Seq(Symbol)
                      /\ Text(B[k].item) = begun[k] \o Inner(l[k].value)
  <2> SUFFICES ASSUME NEW k \in 1..n
               PROVE  /\ B[k] \in ReaderSet /\ B[k].item.kind # "none"
                      /\ begun[k] \in Seq(Symbol) /\ Inner(l[k].value) \in Seq(Symbol)
                      /\ Text(B[k].item) = begun[k] \o Inner(l[k].value)
    OBVIOUS
  <2>1. PICK t : t = l[k]
    OBVIOUS
  <2>2. Fits(R, t) /\ Came(R, t) \in ReaderSet
    BY <1>2, <2>1
  <2>3. B[k] = Left(R, t) /\ begun[k] = Begun(R, t)
    BY <1>3, <2>1
  <2>4. /\ Left(R, t) \in ReaderSet /\ Left(R, t).item.kind # "none"
        /\ Begun(R, t) \in Seq(Symbol) /\ Inner(t.value) \in Seq(Symbol)
        /\ Text(Left(R, t).item) = Begun(R, t) \o Inner(t.value)
    BY <2>2, TokenAdds
  <2> QED
    BY <2>1, <2>3, <2>4, Zenon
<1>6. \A k \in 1..(n - 1) : k \in 1..n /\ k + 1 \in 1..n
  BY <1>1
<1>7. \A k \in 1..(n - 1) : Goes(B[k], B[k + 1], glue[k]) /\ Advances(R, l[k], l[k + 1])
  <2> SUFFICES ASSUME NEW k \in 1..(n - 1)
               PROVE  Goes(B[k], B[k + 1], glue[k]) /\ Advances(R, l[k], l[k + 1])
    OBVIOUS
  <2>1. PICK t : t = l[k]
    OBVIOUS
  <2>2. PICK u : u = l[k + 1]
    OBVIOUS
  <2>3. Fits(R, t) /\ Fits(R, u) /\ Joined(R, t, u)
    BY <1>1, <1>2, <1>6, <2>1, <2>2 DEF Tracked
  <2>4. Goes(Left(R, t), Left(R, u), t.merge_next) /\ Advances(R, t, u)
    <3>1. Came(R, t) \in ReaderSet
      BY <1>2, <1>6, <2>1
    <3> QED
      BY <2>3, <3>1, Neighbours
  <2> QED
    BY <1>3, <1>6, <2>1, <2>2, <2>4
<1>8. \A j \in 1..n : Holds(B, glue, n, j)
  BY <1>1, <1>5, <1>7, Grouping
<1>9. Left(R, l[1]).items = <<>> /\ Begun(R, l[1]) = <<>> /\ Heads(R, l[1])
  <2>1. Fits(R, l[1]) /\ Untouched(Came(R, l[1]))
    BY <1>1, <1>2 DEF Tracked
  <2> QED
    BY <2>1, FirstToken
<1>10. items = Ended(B[n]) /\ ~ glue[n] /\ ~ l[n].merge_next
  BY <1>1, <1>3 DEF Tracked, n
<1>11. items \in Seq(ItemSet) /\ Len(items) = Len(B[n].items) + 1 /\ Len(items) \in Nat
  <2>1. items \in Seq(ItemSet) /\ Len(items) = Len(B[n].items) + 1
    BY <1>1, <1>5, <1>10, EndedIs
  <2> QED
    BY <2>1
<1>12. g[1] = 1 /\ begun[1] = <<>>
  <2>1. Len(<<>>) + 1 = 1
    OBVIOUS
  <2> QED
    BY <1>1, <1>3, <1>4, <1>9, <2>1
<1>13. ASSUME NEW k \in 1..n
       PROVE  /\ g[k] \in 1..Len(items) /\ items[g[k]].kind = B[k].item.kind
              /\ Ajar(items[g[k]]) <=> Ajar(B[k].item)
              /\ ~ glue[k] => items[g[k]] = B[k].item
              /\ glue[k] => Bigger(items[g[k]], B[k].item)
  BY <1>4, <1>8, <1>10, <1>11 DEF Holds
<1>b. ASSUME NEW k \in 1..n, l[k].merge_next
      PROVE  l[k].value[1] \notin Operator
  <2>1. CASE k = n
    BY <1>10, <1>b, <2>1
  <2>2. CASE k # n
    <3>1. k \in 1..(n - 1)
      BY <1>1, <2>2
    <3>2. Joined(R, l[k], l[k + 1])
      BY <1>1, <3>1 DEF Tracked
    <3> QED
      BY <1>b, <3>2 DEF Joined
  <2> QED
    BY <2>1, <2>2
<1>a. ASSUME NEW k \in 1..n, l[k].merge_next
      PROVE  Many(items[g[k]])
  <2>1. PICK x : x = items[g[k]]
    OBVIOUS
  <2>2. PICK t : t = l[k]
    OBVIOUS
  <2>3. PICK y : y = B[k].item
    OBVIOUS
  <2>4. Bigger(x, y)
    BY <1>3, <1>13, <1>a, <2>1, <2>3
  <2>5. y \in ItemSet /\ (y.open \/ y.parts # <<>>)
    <3>1. Fits(R, t) /\ Came(R, t) \in ReaderSet /\ y = Left(R, t).item /\ t.merge_next
      BY <1>2, <1>3, <1>a, <2>2, <2>3
    <3>2. t.value[1] \notin Operator
      BY <1>a, <1>b, <2>2
    <3>3. Left(R, t) \in ReaderSet
      BY <1>3, <1>5, <2>2
    <3> QED
      BY <3>1, <3>2, <3>3, SomePart
  <2>6. x.open \/ Len(x.parts) > 1
    <3>1. PICK m \in Nat : m = Len(y.parts)
      BY <2>5 DEF ItemSet
    <3>2. y.parts # <<>> => m > 0
      BY <2>5, <3>1 DEF ItemSet
    <3>3. PICK h : h = Len(x.parts)
      OBVIOUS
    <3>4. x.open \/ (~ y.open /\ h > m)
      BY <2>4, <3>1, <3>3 DEF Bigger
    <3>5. PICK z \in Nat : z = h
      <4>1. x \in ItemSet
        BY <1>11, <1>13, <2>1
      <4>2. x.parts \in Seq(PartSet)
        BY <4>1 DEF ItemSet
      <4> QED
        BY <3>3, <4>2
    <3> QED
      BY <2>5, <3>2, <3>3, <3>4, <3>5
  <2> QED
    BY <2>1, <2>6 DEF Many
<1>14. ASSUME NEW k \in 1..n
       PROVE  /\ l[k].merge_next =>
                   /\ k < n /\ g[k + 1] = g[k] /\ begun[k + 1] = begun[k] \o Inner(l[k].value)
                   /\ Many(items[g[k]])
                   /\ l[k].value[1] \notin Operator
              /\ ~ l[k].merge_next =>
                   /\ g[k + 1] = g[k] + 1 /\ Text(items[g[k]]) = begun[k] \o Inner(l[k].value)
                   /\ k < n => begun[k + 1] = <<>>
  <2>1. CASE k = n
    <3>1. g[n + 1] = g[n] + 1
      BY <1>1, <1>4, <1>11
    <3>2. Text(items[g[k]]) = begun[k] \o Inner(l[k].value)
      BY <1>3, <1>5, <1>10, <1>13, <2>1
    <3>3. ~ l[k].merge_next /\ ~ (k < n)
      BY <1>1, <1>10, <2>1
    <3>4. g[k + 1] = g[k] + 1
      BY <2>1, <3>1
    <3> QED
      BY <3>2, <3>3, <3>4
  <2>2. CASE k # n
    <3>1. k \in 1..(n - 1) /\ k < n /\ k + 1 \in 1..n
      BY <1>1, <2>2
    <3>2. Goes(B[k], B[k + 1], glue[k]) /\ Advances(R, l[k], l[k + 1])
      BY <1>7, <3>1
    <3>3. ASSUME l[k].merge_next
          PROVE  /\ g[k + 1] = g[k] /\ begun[k + 1] = begun[k] \o Inner(l[k].value)
                 /\ Many(items[g[k]])
                 /\ l[k].value[1] \notin Operator
      <4>1. B[k + 1].items = B[k].items
        BY <1>3, <3>2, <3>3 DEF Goes
      <4>2. begun[k + 1] = Text(B[k].item)
        BY <1>3, <3>1, <3>2, <3>3 DEF Advances
      <4> QED
        BY <1>4, <1>5, <1>a, <1>b, <3>1, <3>3, <4>1, <4>2
    <3>4. ASSUME ~ l[k].merge_next
          PROVE  /\ g[k + 1] = g[k] + 1 /\ Text(items[g[k]]) = begun[k] \o Inner(l[k].value)
                 /\ begun[k + 1] = <<>>
      <4>1. B[k + 1].items = Ended(B[k]) /\ ~ glue[k]
        BY <1>3, <3>2, <3>4 DEF Goes
      <4>2. Len(B[k + 1].items) = Len(B[k].items) + 1
        BY <1>5, <4>1, EndedIs
      <4>3. begun[k + 1] = <<>>
        BY <1>3, <3>1, <3>2, <3>4 DEF Advances
      <4>4. Text(items[g[k]]) = Text(B[k].item)
        BY <1>13, <4>1
      <4> QED
        BY <1>4, <1>5, <3>1, <4>2, <4>3, <4>4
    <3> QED
      BY <3>1, <3>3, <3>4
  <2> QED
    BY <2>1, <2>2
<1>15. ASSUME NEW k \in 1..n, k = 1 \/ ~ l[k - 1].merge_next
       PROVE  /\ items[g[k]].kind = "op" <=> l[k].value[1] \in Operator
              /\ Ajar(items[g[k]]) <=> Lone(l[k].value)
              /\ l[k].merge_next \/ Sole(l[k].value, items[g[k]])
              /\ Leading(l[k].value, items[g[k]])
  <2>1. Heads(R, l[k])
    <3>1. CASE k = 1
      BY <1>9, <3>1
    <3>2. CASE k # 1
      <4>1. k - 1 \in 1..(n - 1) /\ (k - 1) + 1 = k
        BY <1>1, <3>2
      <4>2. Advances(R, l[k - 1], l[k])
        BY <1>7, <4>1
      <4> QED
        BY <1>15, <3>2, <4>2 DEF Advances
    <3> QED
      BY <3>1, <3>2
  <2>2. /\ B[k].item.kind = "op" <=> l[k].value[1] \in Operator
        /\ Ajar(B[k].item) <=> Lone(l[k].value)
        /\ Sole(l[k].value, B[k].item)
    BY <1>3, <2>1 DEF Heads
  <2>3. l[k].merge_next \/ items[g[k]] = B[k].item
    BY <1>3, <1>13
  <2>4. Leading(l[k].value, items[g[k]])
    <3>1. PICK v, x, y : v = l[k].value /\ x = items[g[k]] /\ y = B[k].item
      OBVIOUS
    <3>2. x = y \/ Bigger(x, y)
      BY <1>13, <3>1
    <3>3. v[1] \notin Operator => (Lone(v) => y.open)
      <4>1. Fits(R, l[k]) /\ B[k] = Left(R, l[k])
        BY <1>2, <1>3
      <4> QED
        BY <3>1, <4>1 DEF Fits, TokenRead, PartRead
    <3>4. Sole(v, y)
      BY <2>2, <3>1
    <3> QED
      BY <3>1, <3>2, <3>3, <3>4, LeadingIs
  <2> QED
    BY <1>13, <2>2, <2>3, <2>4
<1>16. Divided(l, items, g, begun)
  <2>1. Len(l) - 1 = n /\ Len(l) > 1
    BY <1>1
  <2>2. g[Len(l)] = Len(items) + 1 /\ ~ l[Len(l) - 1].merge_next
    BY <1>1, <1>4, <1>10, <2>1
  <2>3. \A k \in 1..n : g[k] \in 1..Len(items)
    BY <1>13
  <2> QED
    BY <1>5, <1>11, <1>12, <1>14, <1>15, <2>1, <2>2, <2>3 DEF Divided
<1> QED
  BY <1>16

-----------------------------------------------------------------------------
(* merg_tok_excep_cll_revloop undoes what split_input cut too fine. *)

\* The text stands in the item, quoted alone or bare.
HasPart(item, v) == \E j \in DOMAIN item.parts : item.parts[j].text = v

\* The token has the types of the item, and is marked literal or not when it
\* is the only one of a word with a "$".
Classed(t, item, P) ==
  /\ t.coretype \in {"PIPE", "REDIR"} <=> item.kind = "op"
  /\ item.kind # "op" => /\ t.type \in {"CMD", "WORD"}
                         /\ t.rank \in {RANK_B, RANK_C}
                         /\ item.open \/ t.type = "WORD" \/ \E a \in P : HasPart(item, a)
                         /\ ~ Many(item) /\ ~ NoDollar(Text(item)) =>
                              (t.literal <=> item.parts[1].mode = "'")
  /\ item.kind = "op" /\ Text(item) = <<"|">> =>
       t.type = "PIPE" /\ t.coretype = "PIPE" /\ t.rank = RANK_S
  /\ item.kind = "op" /\ Text(item) \in RedirText =>
       t.type = RedirType(Text(item)) /\ t.coretype = "REDIR" /\ t.rank = RANK_A

\* The token is the item; its text and its types are not compared where a line
\* is not plain: its variables are not what the passes agree about.
Agrees(t, item, plain, P) ==
  /\ (t.err <=> Ajar(item)) /\ t.args = <<>>
  /\ plain => t.value = Text(item) /\ Classed(t, item, P)

\* The tokens q, quoted and typed, are parts of the items, as in Divided.
Pieces(q, items, g, begun, plain, P) ==
  /\ q \in Seq(Token) /\ items \in Seq(ItemSet) /\ Len(q) > 1 /\ plain \in BOOLEAN
  /\ g[1] = 1 /\ g[Len(q)] = Len(items) + 1 /\ begun[1] = <<>>
  /\ ~ q[Len(q) - 1].merge_next
  /\ \A k \in 1..(Len(q) - 1) :
       /\ g[k] \in 1..Len(items)
       /\ begun[k] \in Seq(Symbol) /\ q[k].value \in Seq(Symbol) /\ q[k].args = <<>>
       /\ q[k].merge_next =>
            /\ k < Len(q) - 1 /\ g[k + 1] = g[k]
            /\ plain => begun[k + 1] = begun[k] \o q[k].value
       /\ ~ q[k].merge_next =>
            /\ g[k + 1] = g[k] + 1
            /\ plain => Text(items[g[k]]) = begun[k] \o q[k].value
            /\ k < Len(q) - 1 => begun[k + 1] = <<>>
       /\ (k = 1 \/ ~ q[k - 1].merge_next) =>
            /\ plain => Classed(q[k], items[g[k]], P)
            /\ Ajar(items[g[k]]) <=> q[k].err

\* What merging leaves of the token an item begins with.
Alike(t, u) ==
  /\ t.type = u.type /\ t.coretype = u.coretype /\ t.rank = u.rank
  /\ t.literal = u.literal /\ t.err = u.err /\ t.args = u.args

\* The list l once the loop was at the token m of q: the items behind the one
\* that token is part of are there, of this one what is not before the token.
Merged(q, items, g, begun, plain, P, m, l) ==
  /\ l \in Seq(Token) /\ Len(l) = m + Len(items) + 1 - g[m] /\ l[Len(l)] = q[Len(q)]
  /\ \A p \in 1..(m - 1) : l[p] = q[p]
  /\ \A d \in 1..(Len(items) - g[m]) : Agrees(l[m + d], items[g[m] + d], plain, P)
  /\ m < Len(q) => /\ Alike(l[m], q[m])
                   /\ l[m].value \in Seq(Symbol)
                   /\ plain => Text(items[g[m]]) = begun[m] \o l[m].value

\* The token an item begins with has become the item.
LEMMA HeadAgrees ==
  ASSUME NEW q, NEW items, NEW g, NEW begun, NEW plain, NEW P,
         Pieces(q, items, g, begun, plain, P),
         NEW m \in 1..(Len(q) - 1), NEW l, Merged(q, items, g, begun, plain, P, m, l),
         m = 1 \/ ~ q[m - 1].merge_next
  PROVE  Agrees(l[m], items[g[m]], plain, P)
<1>0. Len(q) \in Nat /\ m \in Nat /\ m < Len(q)
  BY DEF Pieces
<1>1. /\ plain => Classed(q[m], items[g[m]], P)
      /\ Ajar(items[g[m]]) <=> q[m].err
      /\ q[m].args = <<>>
  BY DEF Pieces
<1>2. /\ Alike(l[m], q[m])
      /\ l[m].value \in Seq(Symbol)
      /\ plain => Text(items[g[m]]) = begun[m] \o l[m].value
  BY <1>0 DEF Merged
<1>3. begun[m] = <<>>
  <2>1. CASE m = 1
    BY <2>1 DEF Pieces
  <2>2. CASE m # 1
    <3>1. m - 1 \in 1..(Len(q) - 1) /\ (m - 1) + 1 = m /\ m - 1 < Len(q) - 1
      BY <1>0, <2>2
    <3> QED
      BY <2>2, <3>1 DEF Pieces
  <2> QED
    BY <2>1, <2>2
<1>4. <<>> \o l[m].value = l[m].value
  BY <1>2, ConcatEmptySeq
<1>5. plain => Classed(l[m], items[g[m]], P)
  <2> SUFFICES ASSUME plain
               PROVE  Classed(l[m], items[g[m]], P)
    OBVIOUS
  <2>1. PICK t, u, item : t = l[m] /\ u = q[m] /\ item = items[g[m]]
    OBVIOUS
  <2>2. Classed(u, item, P) /\ Alike(t, u)
    BY <1>1, <1>2, <2>1
  <2>3. Classed(t, item, P)
    BY <2>2 DEF Classed, Alike
  <2> QED
    BY <2>1, <2>3
<1>6. l[m].err = q[m].err /\ l[m].args = q[m].args
  BY <1>2 DEF Alike
<1> QED
  BY <1>1, <1>2, <1>3, <1>4, <1>5, <1>6 DEF Agrees

LEMMA MergedNext ==
  ASSUME NEW q, NEW items, NEW g, NEW begun, NEW plain, NEW P,
         Pieces(q, items, g, begun, plain, P),
         NEW m \in 1..(Len(q) - 1), NEW next, next = m + 1,
         NEW l, Merged(q, items, g, begun, plain, P, next, l)
  PROVE  Merged(q, items, g, begun, plain, P, m, merge_to_token_exception(l, m))
<1>0. /\ Len(q) \in Nat /\ m \in Nat /\ m < Len(q) /\ m >= 1 /\ Len(items) \in Nat
      /\ g[m] \in 1..Len(items) /\ g[m] \in Nat /\ next - 1 = m /\ m \in 1..(next - 1)
      /\ begun[m] \in Seq(Symbol) /\ q[m].value \in Seq(Symbol)
      /\ items \in Seq(ItemSet) /\ q[m] \in Token
  <2>1. q \in Seq(Token) /\ items \in Seq(ItemSet)
    BY DEF Pieces
  <2>2. g[m] \in 1..Len(items) /\ begun[m] \in Seq(Symbol) /\ q[m].value \in Seq(Symbol)
    BY DEF Pieces
  <2> QED
    BY <2>1, <2>2
<1>1. /\ l \in Seq(Token) /\ Len(l) = next + Len(items) + 1 - g[next]
      /\ l[Len(l)] = q[Len(q)]
      /\ \A p \in 1..m : l[p] = q[p]
      /\ \A d \in 1..(Len(items) - g[next]) : Agrees(l[next + d], items[g[next] + d], plain, P)
  BY <1>0 DEF Merged
<1>2. l[m] = q[m]
  BY <1>0, <1>1
<1>3. CASE ~ q[m].merge_next
  <2>1. merge_to_token_exception(l, m) = l
    BY <1>2, <1>3 DEF merge_to_token_exception
  <2>2. g[next] = g[m] + 1 /\ (plain => Text(items[g[m]]) = begun[m] \o q[m].value)
    BY <1>3 DEF Pieces
  <2>3. Len(l) = m + Len(items) + 1 - g[m]
    BY <1>0, <1>1, <2>2
  <2>4. ASSUME NEW d \in 1..(Len(items) - g[m])
        PROVE  Agrees(l[m + d], items[g[m] + d], plain, P)
    <3>1. CASE d = 1
      <4>1. next \in 1..(Len(q) - 1)
        <5>1. next # Len(q)
          <6> SUFFICES ASSUME next = Len(q)
                       PROVE  FALSE
            OBVIOUS
          <6>1. g[next] = Len(items) + 1
            BY DEF Pieces
          <6> QED
            BY <1>0, <2>2, <2>4, <6>1
        <5> QED
          BY <1>0, <5>1
      <4>2. Agrees(l[next], items[g[next]], plain, P)
        BY <1>0, <1>3, <4>1, HeadAgrees
      <4> QED
        BY <2>2, <3>1, <4>2
    <3>2. CASE d # 1
      <4>1. PICK e : e = d - 1
        OBVIOUS
      <4>2. e \in 1..(Len(items) - g[next]) /\ next + e = m + d /\ g[next] + e = g[m] + d
        <5>1. PICK a \in Nat : a = Len(items)
          BY <1>0
        <5>2. PICK b \in Nat : b = g[m] /\ g[next] = b + 1
          BY <1>0, <2>2
        <5>3. d \in 1..(a - b)
          BY <5>1, <5>2
        <5>4. e \in 1..(a - (b + 1)) /\ m + 1 + e = m + d /\ b + 1 + e = b + d
          BY <1>0, <3>2, <4>1, <5>3
        <5> QED
          BY <5>1, <5>2, <5>4
      <4>3. Agrees(l[next + e], items[g[next] + e], plain, P)
        BY <1>1, <4>2
      <4> QED
        BY <4>2, <4>3
    <3> QED
      BY <3>1, <3>2
  <2>5. ASSUME NEW p \in 1..(m - 1)
        PROVE  l[p] = q[p]
    <3>1. p \in 1..m
      BY <1>0
    <3> QED
      BY <1>1, <3>1
  <2> QED
    BY <1>0, <1>1, <1>2, <2>1, <2>2, <2>3, <2>4, <2>5 DEF Merged, Alike
<1>4. CASE q[m].merge_next
  <2>1. /\ next < Len(q) /\ g[next] = g[m]
        /\ plain => begun[next] = begun[m] \o q[m].value
        /\ next \in 1..(Len(q) - 1)
    <3>1. /\ m < Len(q) - 1 /\ g[m + 1] = g[m]
          /\ plain => begun[m + 1] = begun[m] \o q[m].value
      BY <1>4 DEF Pieces
    <3>2. next < Len(q) /\ next \in 1..(Len(q) - 1)
      <4>1. PICK a \in Nat : a = Len(q)
        BY <1>0
      <4>2. m < a - 1
        BY <3>1, <4>1
      <4>3. m + 1 < a /\ m + 1 \in 1..(a - 1)
        BY <1>0, <4>2
      <4> QED
        BY <4>1, <4>3
    <3> QED
      BY <3>1, <3>2
  <2>2. PICK w : w = l[next].value
    OBVIOUS
  <2>3. w \in Seq(Symbol) /\ (plain => Text(items[g[m]]) = (begun[m] \o q[m].value) \o w)
    BY <2>1, <2>2 DEF Merged
  <2>4. PICK v : v = q[m].value \o w
    OBVIOUS
  <2>5. v \in Seq(Symbol) /\ (plain => Text(items[g[m]]) = begun[m] \o v)
    <3>1. v \in Seq(Symbol)
      BY <1>0, <2>3, <2>4, ConcatProperties
    <3>2. (begun[m] \o q[m].value) \o w = begun[m] \o (q[m].value \o w)
      <4>1. PICK a \in Seq(Symbol) : a = begun[m]
        BY <1>0
      <4>2. PICK b \in Seq(Symbol) : b = q[m].value
        BY <1>0
      <4>3. (a \o b) \o w = a \o (b \o w)
        BY <2>3, ConcatAssociative, SMTT(40)
      <4> QED
        BY <4>1, <4>2, <4>3
    <3> QED
      BY <2>3, <2>4, <3>1, <3>2
  <2>6. PICK t : t = [q[m] EXCEPT !.value = v, !.merge_next = FALSE]
    OBVIOUS
  <2>7. t \in Token /\ Alike(t, q[m]) /\ t.value = v
    <3>1. PICK u \in Token : u = q[m]
      BY <1>0
    <3>2. PICK a : a = [u EXCEPT !.value = v]
      OBVIOUS
    <3>3. a \in Token /\ Alike(a, u) /\ a.value = v
      BY <2>5, <3>2 DEF Token, Alike
    <3>4. t = [a EXCEPT !.merge_next = FALSE]
      BY <2>6, <3>1, <3>2
    <3>5. t \in Token /\ Alike(t, a) /\ t.value = a.value
      BY <3>3, <3>4 DEF Token, Alike
    <3> QED
      BY <3>1, <3>3, <3>5 DEF Alike
  <2>8. PICK r : r = Absorbed(l, m, t)
    OBVIOUS
  <2>9. merge_to_token_exception(l, m) = r
    BY <1>2, <1>4, <2>2, <2>4, <2>6, <2>8 DEF merge_to_token_exception
  <2>10. Len(l) = m + 2 + Len(items) - g[m] /\ m \in 1..(Len(l) - 1) /\ Len(l) \in Nat
    <3>1. Len(l) = next + Len(items) + 1 - g[next] /\ g[next] = g[m]
      BY <1>1, <2>1
    <3>2. PICK a \in Nat : a = Len(items)
      BY <1>0
    <3>3. PICK b \in Nat : b = g[m] /\ b \in 1..a
      BY <1>0, <3>2
    <3>4. Len(l) = (m + 1) + a + 1 - b
      BY <3>1, <3>2, <3>3
    <3>5. Len(l) = m + 2 + a - b /\ m \in 1..(Len(l) - 1) /\ Len(l) \in Nat
      BY <1>0, <3>3, <3>4, SMTT(40)
    <3> QED
      BY <3>2, <3>3, <3>5
  <2>11. /\ r \in Seq(Token) /\ Len(r) = Len(l) - 1
         /\ \A p \in 1..(Len(l) - 1) : r[p] = IF p < m THEN l[p] ELSE IF p = m THEN t ELSE l[p + 1]
    <3>1. l \in Seq(Token) /\ m \in 1..(Len(l) - 1) /\ t \in Token
      BY <1>1, <2>7, <2>10
    <3>2. Absorbed(l, m, t) \in Seq(Token)
      BY <3>1, AbsorbedIs
    <3>3. Len(Absorbed(l, m, t)) = Len(l) - 1
      BY <3>1, AbsorbedIs
    <3>4. \A p \in 1..(Len(l) - 1) :
            Absorbed(l, m, t)[p] = IF p < m THEN l[p] ELSE IF p = m THEN t ELSE l[p + 1]
      BY <3>1, AbsorbedIs
    <3> QED
      BY <2>8, <3>2, <3>3, <3>4
  <2>12. Len(r) = m + Len(items) + 1 - g[m]
    <3>1. PICK a \in Nat : a = Len(items)
      BY <1>0
    <3>2. PICK b \in Nat : b = g[m]
      BY <1>0
    <3>3. Len(l) = m + 2 + a - b /\ Len(r) = Len(l) - 1
      BY <2>10, <2>11, <3>1, <3>2
    <3>4. Len(r) = m + a + 1 - b
      BY <1>0, <3>3
    <3> QED
      BY <3>1, <3>2, <3>4
  <2>13. r[m] = t /\ \A p \in 1..(m - 1) : r[p] = q[p]
    <3>1. \A p \in 1..(m - 1) : p \in 1..(Len(l) - 1) /\ p < m /\ p \in 1..m
      BY <1>0, <2>10
    <3> QED
      BY <1>1, <2>10, <2>11, <3>1
  <2>14. ASSUME NEW d \in 1..(Len(items) - g[m])
         PROVE  Agrees(r[m + d], items[g[m] + d], plain, P)
    <3>1. PICK p : p = m + d
      OBVIOUS
    <3>2. /\ p \in 1..(Len(l) - 1) /\ ~ (p < m) /\ p # m /\ p + 1 = next + d
          /\ d \in 1..(Len(items) - g[next])
      BY <1>0, <2>1, <2>10, <3>1
    <3>3. r[p] = l[next + d]
      BY <2>11, <3>2
    <3>4. Agrees(l[next + d], items[g[next] + d], plain, P)
      BY <1>1, <3>2
    <3> QED
      BY <2>1, <3>1, <3>3, <3>4
  <2>15. r[Len(r)] = q[Len(q)]
    <3>1. PICK p : p = Len(r)
      OBVIOUS
    <3>2. PICK n \in Nat : n = Len(l)
      BY <2>10
    <3>3. n >= m + 2
      <4>1. PICK a \in Nat : a = Len(items)
        BY <1>0
      <4>2. PICK b \in Nat : b = g[m] /\ b \in 1..a
        BY <1>0, <4>1
      <4>3. n = m + 2 + a - b
        BY <2>10, <3>2, <4>1, <4>2
      <4> QED
        BY <1>0, <4>2, <4>3
    <3>4. p = n - 1 /\ p \in 1..(n - 1) /\ ~ (p < m) /\ p # m /\ p + 1 = n
      BY <1>0, <2>11, <3>1, <3>2, <3>3
    <3>5. r[p] = l[n]
      BY <2>11, <3>2, <3>4
    <3> QED
      BY <1>1, <3>1, <3>2, <3>5
  <2> QED
    BY <1>0, <2>5, <2>7, <2>9, <2>11, <2>12, <2>13, <2>14, <2>15 DEF Merged
<1> QED
  BY <1>3, <1>4

\* Merged, the list is the items, and its sentinel.
LEMMA MergeReads ==
  ASSUME NEW q, NEW items, NEW g, NEW begun, NEW plain, NEW P,
         Pieces(q, items, g, begun, plain, P),
         NEW l, l = merg_tok_excep_cll_revloop(q)
  PROVE  /\ l \in Seq(Token) /\ Len(l) = Len(items) + 1 /\ l[Len(l)] = q[Len(q)]
         /\ \A k \in 1..Len(items) : Agrees(l[k], items[k], plain, P)
<1> DEFINE n == Len(q) - 1
           I == [k \in 0..n |-> {m \in Seq(Token) : Merged(q, items, g, begun, plain, P, n + 1 - k, m)}]
<1>1. /\ q \in Seq(Token) /\ n \in Nat /\ n >= 1 /\ Len(q) = n + 1 /\ items \in Seq(ItemSet)
      /\ Len(items) \in Nat /\ g[n + 1] = Len(items) + 1 /\ g[1] = 1
  BY DEF Pieces
<1>2. q \in I[0]
  <2>1. PICK m : m = n + 1
    OBVIOUS
  <2>2. Len(q) = m + Len(items) + 1 - g[m] /\ Len(items) - g[m] = 0 - 1 /\ ~ (m < Len(q))
    BY <1>1, <2>1
  <2>3. Merged(q, items, g, begun, plain, P, m, q)
    <3>1. \A d \in 1..(Len(items) - g[m]) : Agrees(q[m + d], items[g[m] + d], plain, P)
      BY <2>2
    <3> QED
      BY <1>1, <2>2, <3>1 DEF Merged
  <2>4. n + 1 - 0 = m /\ 0 \in 0..n
    BY <1>1, <2>1
  <2> HIDE DEF n
  <2> QED
    BY <1>1, <2>3, <2>4
<1>3. \A k \in 0..n : I[k] \subseteq Seq(Token)
  OBVIOUS
<1>4. ASSUME NEW k \in 1..n, NEW y \in I[k - 1]
      PROVE  merge_to_token_exception(y, Len(q) - k) \in I[k]
  <2>1. PICK m : m = n + 1 - k
    OBVIOUS
  <2>2. PICK next : next = m + 1
    OBVIOUS
  <2>3. /\ m \in 1..(Len(q) - 1) /\ next = n + 1 - (k - 1) /\ Len(q) - k = m
        /\ k - 1 \in 0..n /\ k \in 0..n
    BY <1>1, <2>1, <2>2
  <2>4. Merged(q, items, g, begun, plain, P, next, y)
    BY <2>3
  <2>5. PICK r : r = merge_to_token_exception(y, m)
    OBVIOUS
  <2>6. Merged(q, items, g, begun, plain, P, m, r)
    BY <2>2, <2>3, <2>4, <2>5, MergedNext
  <2>7. r \in Seq(Token)
    BY <2>6 DEF Merged
  <2> HIDE DEF n
  <2> QED
    BY <2>1, <2>3, <2>5, <2>6, <2>7
<1>5. l \in I[n]
  <2>1. ~ (Len(q) < 2)
    BY <1>1
  <2> HIDE DEF I
  <2> QED
    BY <1>1, <1>2, <1>3, <1>4, <2>1, MergeLoop
<1>6. Merged(q, items, g, begun, plain, P, 1, l)
  <2>1. n + 1 - n = 1 /\ n \in 0..n
    BY <1>1
  <2> QED
    BY <1>5, <2>1
<1>7. 1 \in 1..(Len(q) - 1)
  BY <1>1
<1>8. PICK one : one = 1
  OBVIOUS
<1>9. Agrees(l[one], items[g[one]], plain, P)
  BY <1>6, <1>7, <1>8, HeadAgrees
<1>10. l \in Seq(Token) /\ Len(l) = Len(items) + 1 /\ l[Len(l)] = q[Len(q)]
  BY <1>1, <1>6 DEF Merged
<1>11. ASSUME NEW k \in 1..Len(items)
       PROVE  Agrees(l[k], items[k], plain, P)
  <2>1. CASE k = 1
    BY <1>1, <1>8, <1>9, <2>1
  <2>2. CASE k # 1
    <3>1. PICK d : d = k - 1
      OBVIOUS
    <3>2. d \in 1..(Len(items) - g[1]) /\ 1 + d = k /\ g[1] + d = k
      BY <1>1, <2>2, <3>1
    <3>3. Agrees(l[1 + d], items[g[1] + d], plain, P)
      BY <1>6, <3>2 DEF Merged
    <3> QED
      BY <3>2, <3>3
  <2> QED
    BY <2>1, <2>2
<1> QED
  BY <1>10, <1>11

-----------------------------------------------------------------------------
(* What quote_handler and typealize make of a token without a "$". *)

LEMMA QuoteReads ==
  ASSUME NEW t \in Token, NEW e, EnvOK(e), NEW R, Fits(R, t), NoDollar(Inner(t.value)),
         NEW u, u = quote_handler(t, e)
  PROVE  /\ u \in Token /\ u.merge_next = t.merge_next /\ u.value = Inner(t.value)
         /\ u.err <=> Lone(t.value)
         /\ (u.value \in OpText /\ ~ u.literal) <=> t.value[1] \in Operator
<1>1. PICK v : v = t.value
  OBVIOUS
<1>2. /\ v \in Seq(Symbol) /\ v # <<>> /\ ~ t.err /\ ~ t.literal
      /\ v[1] \in Operator => v \in OpText
  BY <1>1 DEF Fits
<1>3. v # NULL /\ Len(v) \in Nat /\ Len(v) >= 1
  BY <1>2, NoSuchString
<1>4. Quote \cap Operator = {}
  BY DEF Quote, Operator
<1>5. \A w \in OpText : w[1] \in Operator
  BY OpTexts
<1>6. CASE v[1] \notin Quote
  <2>1. u = t
    BY <1>1, <1>6 DEF quote_handler
  <2>2. Inner(v) = v /\ ~ Lone(v)
    BY <1>6 DEF Inner, Lone
  <2> QED
    BY <1>1, <1>2, <1>5, <2>1, <2>2
<1>7. CASE v[1] \in Quote /\ Len(v) = 1
  <2>1. u = [t EXCEPT !.err = TRUE]
    BY <1>1, <1>3, <1>7 DEF quote_handler
  <2>2. /\ u \in Token /\ u.value = v /\ u.literal = t.literal /\ u.err = TRUE
        /\ u.merge_next = t.merge_next
    BY <1>1, <2>1 DEF Token
  <2>3. Inner(v) = v /\ Lone(v)
    BY <1>7 DEF Inner, Lone
  <2>4. v \notin OpText /\ v[1] \notin Operator
    BY <1>4, <1>5, <1>7
  <2> QED
    BY <1>1, <2>2, <2>3, <2>4
<1>8. CASE v[1] \in Quote /\ Len(v) # 1
  <2>1. PICK inner : inner = SubSeq(v, 2, Len(v) - 1)
    OBVIOUS
  <2>a. PICK m \in Nat : m = Len(v)
    BY <1>3
  <2>b. m >= 2 /\ m > 1
    BY <1>3, <1>8, <2>a
  <2>3. Inner(v) = inner
    BY <1>8, <2>1, <2>a, <2>b DEF Inner
  <2>2. inner \in Seq(Symbol) /\ NoDollar(inner)
    <3>1. /\ 2 \in 1..(Len(v) + 1) /\ Len(v) - 1 \in (2 - 1)..Len(v)
          /\ (Len(v) - 1) - 2 + 1 = Len(v) - 2
      BY <2>a, <2>b
    <3>2. /\ inner \in Seq(Symbol) /\ Len(inner) = (Len(v) - 1) - 2 + 1
          /\ \A j \in 1..((Len(v) - 1) - 2 + 1) : inner[j] = v[2 + j - 1]
      BY <1>2, <2>1, <3>1, PieceIs
    <3> QED
      BY <1>1, <2>3, <3>2
  <2>4. PICK literal \in BOOLEAN : literal = (v[1] = "'" \/ inner \in OpText)
    <3>1. (v[1] = "'" \/ inner \in OpText) \in BOOLEAN
      OBVIOUS
    <3> QED
      BY <3>1
  <2>5. quote_handler_cpy(inner, e) = inner
    <3>1. ~ LoneDollar(inner)
      <4>1. DOMAIN inner = 1..Len(inner)
        BY <2>2
      <4> QED
        BY <2>2, <4>1 DEF LoneDollar, NoDollar
    <3>2. PICK S : S = Symbol \ {Space, "'", "$"}
      OBVIOUS
    <3>3. PICK lone \in Seq(Symbol) : lone = <<>>
      <4>1. <<>> \in Seq(Symbol)
        OBVIOUS
      <4> QED
        BY <4>1
    <3>4. Expand(inner, S, lone, e) = inner
      BY <2>2, ExpandIs
    <3> QED
      BY <3>1, <3>2, <3>3, <3>4 DEF quote_handler_cpy
  <2>6. u = [t EXCEPT !.literal = literal, !.value = inner]
    <3>1. PICK value : value = IF literal THEN inner ELSE quote_handler_cpy(inner, e)
      OBVIOUS
    <3>2. u = [t EXCEPT !.literal = literal, !.value = value]
      BY <1>1, <1>3, <1>8, <2>1, <2>4, <3>1 DEF quote_handler, OpText
    <3>3. value = inner
      BY <2>5, <3>1
    <3> QED
      BY <3>2, <3>3
  <2>7. /\ u \in Token /\ u.value = inner /\ u.literal = literal /\ u.err = t.err
        /\ u.merge_next = t.merge_next
    BY <2>2, <2>6 DEF Token
  <2>8. v[1] \notin Operator /\ ~ Lone(v)
    BY <1>4, <1>8 DEF Lone
  <2>9. ~ (u.value \in OpText /\ ~ u.literal)
    BY <2>4, <2>7
  <2> QED
    BY <1>1, <1>2, <2>3, <2>7, <2>8, <2>9
<1> QED
  BY <1>6, <1>7, <1>8

\* ... and of a token of a word with one, whose only token it is.
LEMMA QuoteReplaces ==
  ASSUME NEW t \in Token, NEW e, EnvOK(e), NEW R, Fits(R, t),
         t.value[1] \notin Operator, ~ Lone(t.value), ~ NoDollar(Inner(t.value)),
         NEW u, u = quote_handler(t, e)
  PROVE  /\ u.literal <=> ModeOf(t.value) = "'"
         /\ u.value = IF ModeOf(t.value) = "\"" THEN quote_handler_cpy(Inner(t.value), e)
                      ELSE Inner(t.value)
<1>1. PICK v : v = t.value
  OBVIOUS
<1>2. v \in Seq(Symbol) /\ v # <<>> /\ ~ t.literal
  BY <1>1 DEF Fits
<1>3. v # NULL /\ Len(v) \in Nat /\ Len(v) >= 1
  BY <1>2, NoSuchString
<1>4. CASE v[1] \notin Quote
  <2>1. u = t
    BY <1>1, <1>4 DEF quote_handler
  <2>2. Inner(v) = v /\ ModeOf(v) = "bare"
    BY <1>4 DEF Inner, ModeOf
  <2> QED
    BY <1>1, <1>2, <2>1, <2>2
<1>5. CASE v[1] \in Quote
  <2>1. Len(v) # 1
    BY <1>1, <1>5 DEF Lone
  <2>2. PICK inner : inner = SubSeq(v, 2, Len(v) - 1)
    OBVIOUS
  <2>3. PICK m \in Nat : m = Len(v)
    BY <1>3
  <2>4. m > 1
    BY <1>3, <2>1, <2>3
  <2>5. Inner(v) = inner /\ ModeOf(v) = v[1] /\ v[1] \in {"'", "\""}
    BY <1>5, <2>2, <2>3, <2>4 DEF Inner, ModeOf, Quote
  <2>6. inner \notin OpText
    <3> SUFFICES ASSUME inner \in OpText
                 PROVE  FALSE
      OBVIOUS
    <3>1. NoDollar(inner)
      BY DEF OpText, RedirText, NoDollar
    <3> QED
      BY <1>1, <2>5, <3>1
  <2>7. PICK literal \in BOOLEAN : literal = (v[1] = "'" \/ inner \in OpText)
    <3>1. (v[1] = "'" \/ inner \in OpText) \in BOOLEAN
      OBVIOUS
    <3> QED
      BY <3>1
  <2>8. PICK value : value = IF literal THEN inner ELSE quote_handler_cpy(inner, e)
    OBVIOUS
  <2>9. u = [t EXCEPT !.literal = literal, !.value = value]
    BY <1>1, <1>3, <1>5, <2>1, <2>2, <2>7, <2>8 DEF quote_handler, OpText
  <2>10. u.literal = literal /\ u.value = value
    BY <2>9 DEF Token
  <2>11. literal <=> v[1] = "'"
    BY <2>6, <2>7
  <2> QED
    BY <1>1, <2>5, <2>8, <2>10, <2>11
<1> QED
  BY <1>4, <1>5

\* ... and of any token of the line.
LEMMA QuoteMarks ==
  ASSUME NEW ln \in Seq(Symbol), NEW t \in Cut(ln), NEW e, EnvOK(e), NEW R, Fits(R, t),
         NEW u, u = quote_handler(t, e)
  PROVE  /\ u \in Token /\ u.merge_next = t.merge_next /\ u.value \in Seq(Symbol)
         /\ u.err <=> Lone(t.value)
<1>1. PICK v : v = t.value
  OBVIOUS
<1>2. v \in Seq(Symbol) /\ v # <<>> /\ ~ t.err
  BY <1>1 DEF Fits
<1>3. v # NULL /\ Len(v) \in Nat /\ Len(v) >= 1
  BY <1>2, NoSuchString
<1>4. u \in Unquoted(ln) /\ u.value # NULL /\ u.merge_next = t.merge_next
  BY <1>1, <1>3, QuoteStep
<1>5. u \in Token /\ t \in Token
  BY <1>4 DEF Unquoted, Cut
<1>6. u.value \in Seq(Symbol)
  BY <1>4, <1>5 DEF Token
<1>7. CASE v[1] \notin Quote
  <2>1. u = t
    BY <1>1, <1>7 DEF quote_handler
  <2> QED
    BY <1>1, <1>2, <1>4, <1>5, <1>6, <1>7, <2>1 DEF Lone
<1>8. CASE v[1] \in Quote /\ Len(v) = 1
  <2>1. u = [t EXCEPT !.err = TRUE]
    BY <1>1, <1>3, <1>8 DEF quote_handler
  <2>2. u.err = TRUE
    BY <1>5, <2>1 DEF Token
  <2> QED
    BY <1>1, <1>4, <1>5, <1>6, <1>8, <2>2 DEF Lone
<1>9. CASE v[1] \in Quote /\ Len(v) # 1
  <2>1. PICK inner : inner = SubSeq(v, 2, Len(v) - 1)
    OBVIOUS
  <2>2. PICK literal : literal = (v[1] = "'" \/ inner \in OpText)
    OBVIOUS
  <2>3. PICK value : value = IF literal THEN inner ELSE quote_handler_cpy(inner, e)
    OBVIOUS
  <2>4. u = [t EXCEPT !.literal = literal, !.value = value]
    BY <1>1, <1>3, <1>9, <2>1, <2>2, <2>3 DEF quote_handler, OpText
  <2>5. u.err = t.err
    BY <1>5, <2>4 DEF Token
  <2> QED
    BY <1>1, <1>2, <1>4, <1>5, <1>6, <1>9, <2>5 DEF Lone
<1> QED
  BY <1>7, <1>8, <1>9

LEMMA TypeReads ==
  ASSUME NEW u \in Token, NEW found, NEW w, w = typealize(u, found)
  PROVE  /\ w \in Token /\ w.merge_next = u.merge_next /\ w.value = u.value /\ w.err = u.err
         /\ w.coretype \in {"PIPE", "REDIR"} <=> (u.value \in OpText /\ ~ u.literal)
<1>1. ASSUME NEW ty \in {"PIPE", "REDIR_IN", "REDIR_OUT", "APPEND", "HEREDOC", "CMD",
                         "WORD", "ASSIGNMENT"},
             NEW co \in {"PIPE", "REDIR", "CMD", "WORD"},
             NEW ra \in {0, RANK_C, RANK_B, RANK_A, RANK_S},
             co \in {"PIPE", "REDIR"} <=> (u.value \in OpText /\ ~ u.literal),
             w = Typed(u, ty, co, ra)
      PROVE  /\ w \in Token /\ w.merge_next = u.merge_next /\ w.value = u.value
             /\ w.err = u.err
             /\ w.coretype \in {"PIPE", "REDIR"} <=> (u.value \in OpText /\ ~ u.literal)
  <2>1. w = [u EXCEPT !.type = ty, !.coretype = co, !.rank = ra]
    BY <1>1 DEF Typed
  <2>2. PICK a : a = [u EXCEPT !.type = ty]
    OBVIOUS
  <2>3. a \in Token /\ a.merge_next = u.merge_next /\ a.value = u.value /\ a.err = u.err
    BY <2>2 DEF Token
  <2>4. PICK b : b = [a EXCEPT !.coretype = co]
    OBVIOUS
  <2>5. /\ b \in Token /\ b.merge_next = u.merge_next /\ b.value = u.value /\ b.err = u.err
        /\ b.coretype = co
    BY <2>3, <2>4 DEF Token
  <2>6. PICK c : c = [b EXCEPT !.rank = ra]
    OBVIOUS
  <2>7. /\ c \in Token /\ c.merge_next = u.merge_next /\ c.value = u.value /\ c.err = u.err
        /\ c.coretype = co
    BY <2>5, <2>6 DEF Token
  <2>8. w = c
    BY <2>1, <2>2, <2>4, <2>6 DEF Token
  <2> QED
    BY <1>1, <2>7, <2>8
<1>2. CASE u.value = <<"|">> /\ ~ u.literal
  <2>1. w = Typed(u, "PIPE", "PIPE", RANK_S)
    BY <1>2 DEF typealize
  <2>2. u.value \in OpText
    BY <1>2 DEF OpText
  <2> QED
    BY <1>1, <1>2, <2>1, <2>2
<1>3. CASE ~ (u.value = <<"|">> /\ ~ u.literal) /\ u.value \in RedirText /\ ~ u.literal
  <2>1. w = Typed(u, RedirType(u.value), "REDIR", RANK_A)
    BY <1>3 DEF typealize
  <2>2. RedirType(u.value) \in {"REDIR_IN", "REDIR_OUT", "APPEND", "HEREDOC"}
    BY <1>3 DEF RedirType, RedirText
  <2>3. u.value \in OpText
    BY <1>3 DEF OpText
  <2> QED
    BY <1>1, <1>3, <2>1, <2>2, <2>3
<1>4. CASE /\ ~ (u.value = <<"|">> /\ ~ u.literal)
           /\ ~ (u.value \in RedirText /\ ~ u.literal)
  <2>1. \/ w = Typed(u, "CMD", "CMD", RANK_B)
        \/ w = Typed(u, "WORD", "WORD", RANK_C)
    BY <1>4 DEF typealize
  <2>2. ~ (u.value \in OpText /\ ~ u.literal)
    BY <1>4 DEF OpText
  <2> QED
    BY <1>1, <2>1, <2>2
<1> QED
  BY <1>2, <1>3, <1>4

LEMMA TypeClasses ==
  ASSUME NEW u \in Token, NEW found, NEW w, w = typealize(u, found)
  PROVE  /\ w.literal = u.literal
         /\ ~ (u.value \in OpText /\ ~ u.literal) =>
              /\ w.type \in {"CMD", "WORD"} /\ w.rank \in {RANK_B, RANK_C}
              /\ u.value \notin found =>
                   w.type = "WORD" /\ w.coretype = "WORD" /\ w.rank = RANK_C
         /\ u.value = <<"|">> /\ ~ u.literal =>
              w.type = "PIPE" /\ w.coretype = "PIPE" /\ w.rank = RANK_S
         /\ u.value \in RedirText /\ ~ u.literal =>
              w.type = RedirType(u.value) /\ w.coretype = "REDIR" /\ w.rank = RANK_A
<1>1. ASSUME NEW ty, NEW co, NEW ra, w = Typed(u, ty, co, ra)
      PROVE  w.literal = u.literal /\ w.type = ty /\ w.coretype = co /\ w.rank = ra
  <2>1. w = [u EXCEPT !.type = ty, !.coretype = co, !.rank = ra]
    BY <1>1 DEF Typed
  <2>2. PICK a : a = [u EXCEPT !.type = ty]
    OBVIOUS
  <2>3. PICK b : b = [a EXCEPT !.coretype = co]
    OBVIOUS
  <2>4. w = [b EXCEPT !.rank = ra]
    BY <2>1, <2>2, <2>3 DEF Token
  <2>5. {"literal", "type", "coretype", "rank"} \subseteq DOMAIN u
    BY DEF Token
  <2>6. DOMAIN a = DOMAIN u /\ a.literal = u.literal /\ a.type = ty
    BY <2>2, <2>5
  <2>7. DOMAIN b = DOMAIN u /\ b.literal = u.literal /\ b.type = ty /\ b.coretype = co
    BY <2>3, <2>5, <2>6
  <2> QED
    BY <2>4, <2>5, <2>7
<1>2. <<"|">> \notin RedirText
  BY DEF RedirText
<1>3. CASE u.value = <<"|">> /\ ~ u.literal
  <2>1. w = Typed(u, "PIPE", "PIPE", RANK_S)
    BY <1>3 DEF typealize
  <2>2. u.value \in OpText /\ u.value \notin RedirText
    BY <1>2, <1>3 DEF OpText
  <2> QED
    BY <1>1, <1>3, <2>1, <2>2
<1>4. CASE u.value # <<"|">> /\ u.value \in RedirText /\ ~ u.literal
  <2>1. w = Typed(u, RedirType(u.value), "REDIR", RANK_A)
    BY <1>4 DEF typealize
  <2>2. u.value \in OpText
    BY <1>4 DEF OpText
  <2> QED
    BY <1>1, <1>4, <2>1, <2>2
<1>5. CASE /\ ~ (u.value = <<"|">> /\ ~ u.literal)
           /\ ~ (u.value \in RedirText /\ ~ u.literal)
  <2>1. \/ w = Typed(u, "CMD", "CMD", RANK_B) /\ u.value \in found
        \/ w = Typed(u, "WORD", "WORD", RANK_C)
    BY <1>5 DEF typealize
  <2>2. ~ (u.value \in OpText /\ ~ u.literal)
    BY <1>5 DEF OpText
  <2> QED
    BY <1>1, <1>5, <2>1, <2>2
<1> QED
  BY <1>3, <1>4, <1>5

-----------------------------------------------------------------------------
(* What a line is, before the tokens are merged and after. *)

LEMMA NoDollarParts ==
  ASSUME NEW a \in Seq(Symbol), NEW b \in Seq(Symbol), NoDollar(a \o b)
  PROVE  NoDollar(a) /\ NoDollar(b)
<1>1. /\ Len(a) \in Nat /\ Len(b) \in Nat /\ Len(a \o b) = Len(a) + Len(b)
      /\ \A p \in 1..Len(a) : (a \o b)[p] = a[p]
      /\ \A p \in 1..Len(b) : (a \o b)[Len(a) + p] = b[p]
  <2>1. Len(a \o b) = Len(a) + Len(b)
    BY ConcatProperties
  <2>2. \A p \in 1..Len(a) : (a \o b)[p] = a[p]
    <3> SUFFICES ASSUME NEW p \in 1..Len(a)
                 PROVE  (a \o b)[p] = a[p]
      OBVIOUS
    <3>1. p \in 1..(Len(a) + Len(b)) /\ p <= Len(a)
      OBVIOUS
    <3> QED
      BY <3>1, ConcatProperties
  <2>3. \A p \in 1..Len(b) : (a \o b)[Len(a) + p] = b[p]
    <3> SUFFICES ASSUME NEW p \in 1..Len(b)
                 PROVE  (a \o b)[Len(a) + p] = b[p]
      OBVIOUS
    <3>1. /\ Len(a) + p \in 1..(Len(a) + Len(b)) /\ ~ (Len(a) + p <= Len(a))
          /\ (Len(a) + p) - Len(a) = p
      OBVIOUS
    <3> QED
      BY <3>1, ConcatProperties
  <2> QED
    BY <2>1, <2>2, <2>3
<1>2. ASSUME NEW p \in 1..Len(a)
      PROVE  a[p] # "$"
  <2>1. p \in 1..Len(a \o b)
    BY <1>1
  <2> QED
    BY <1>1, <2>1 DEF NoDollar
<1>3. ASSUME NEW p \in 1..Len(b)
      PROVE  b[p] # "$"
  <2>1. Len(a) + p \in 1..Len(a \o b)
    BY <1>1
  <2> QED
    BY <1>1, <2>1 DEF NoDollar
<1> QED
  BY <1>2, <1>3 DEF NoDollar

LEMMA InnerPlain ==
  ASSUME NEW v \in Seq(Symbol), NoDollar(v)
  PROVE  NoDollar(Inner(v))
<1>1. CASE v[1] \in Quote /\ Len(v) > 1
  <2>1. PICK m \in Nat : m = Len(v)
    OBVIOUS
  <2>2. 2 \in 1..(Len(v) + 1) /\ Len(v) - 1 \in (2 - 1)..Len(v) /\ (Len(v) - 1) - 2 + 1 = Len(v) - 2
    BY <1>1, <2>1
  <2>3. PICK inner : inner = SubSeq(v, 2, Len(v) - 1)
    OBVIOUS
  <2>4. /\ Len(inner) = (Len(v) - 1) - 2 + 1
        /\ \A j \in 1..((Len(v) - 1) - 2 + 1) : inner[j] = v[2 + j - 1]
    BY <2>2, <2>3, PieceIs
  <2>5. \A j \in 1..(Len(v) - 2) : 2 + j - 1 \in 1..Len(v)
    BY <2>1
  <2>6. Inner(v) = inner
    BY <1>1, <2>3 DEF Inner
  <2> QED
    BY <2>2, <2>4, <2>5, <2>6 DEF NoDollar
<1>2. CASE ~ (v[1] \in Quote /\ Len(v) > 1)
  BY <1>2 DEF Inner
<1> QED
  BY <1>1, <1>2

\* Where an item has no variable, its tokens have none.
LEMMA ItemsPlain ==
  ASSUME NEW l, NEW items, NEW g, NEW begun, Divided(l, items, g, begun)
  PROVE  \A k \in 1..(Len(l) - 1) :
           NoDollar(Text(items[g[k]])) => NoDollar(Inner(l[k].value))
<1> DEFINE n == Len(l) - 1
           Plain(k) == NoDollar(Text(items[g[k]])) => NoDollar(begun[k] \o Inner(l[k].value))
           Bad == {j \in Nat : j < n /\ ~ Plain(n - j)}
<1>0. PICK m : m = Len(l)
  OBVIOUS
<1>1. ASSUME NEW k \in 1..n
      PROVE  /\ g[k] \in 1..Len(items)
             /\ begun[k] \in Seq(Symbol) /\ Inner(l[k].value) \in Seq(Symbol)
             /\ ~ l[k].merge_next => Text(items[g[k]]) = begun[k] \o Inner(l[k].value)
             /\ l[k].merge_next =>
                  k < n /\ g[k + 1] = g[k] /\ begun[k + 1] = begun[k] \o Inner(l[k].value)
  BY DEF Divided
<1>2. ASSUME NEW k \in 1..n, ~ l[k].merge_next
      PROVE  Plain(k)
  BY <1>1, <1>2
<1>3. CASE n \notin Nat
  <2>1. 1..n = {}
    BY <1>3, <1>1 DEF Divided
  <2> QED
    BY <2>1
<1>4. CASE n \in Nat
  <2>1. Bad = {}
    <3> SUFFICES ASSUME Bad # {}
                 PROVE  FALSE
      OBVIOUS
    <3>1. PICK j \in Bad : \A y \in Bad : j <= y
      <4>1. Bad \in SUBSET Nat
        OBVIOUS
      <4> HIDE DEF Bad
      <4> QED
        BY <4>1, LeastExists
    <3>2. PICK k \in 1..n : k = n - j
      <4>1. PICK a \in Nat : a = n
        BY <1>4
      <4>2. j \in Nat /\ j < a
        BY <4>1
      <4>3. a - j \in 1..a
        BY <4>2
      <4> QED
        BY <4>1, <4>3
    <3>3. l[k].merge_next
      BY <1>2, <3>2
    <3>4. PICK next : next = k + 1
      OBVIOUS
    <3>5. k < n /\ g[next] = g[k] /\ begun[next] = begun[k] \o Inner(l[k].value)
      BY <1>1, <3>3, <3>4
    <3>6. next \in 1..n /\ j - 1 \in Nat /\ j - 1 < j /\ n - (j - 1) = next /\ j - 1 < n
      BY <1>4, <3>2, <3>4, <3>5
    <3>7. Plain(next)
      <4>1. j - 1 \notin Bad
        BY <3>1, <3>6
      <4> QED
        BY <3>6, <4>1
    <3>8. begun[next] \in Seq(Symbol) /\ Inner(l[next].value) \in Seq(Symbol)
      BY <1>1, <3>6
    <3>9. NoDollar(Text(items[g[next]])) => NoDollar(begun[next])
      BY <3>7, <3>8, NoDollarParts
    <3> QED
      BY <3>1, <3>2, <3>5, <3>9
  <2>2. ASSUME NEW k \in 1..n
        PROVE  NoDollar(Text(items[g[k]])) => NoDollar(Inner(l[k].value))
    <3>1. n - k \in Nat /\ n - k < n /\ n - (n - k) = k
      BY <1>4
    <3>2. Plain(k)
      BY <2>1, <3>1
    <3> QED
      BY <1>1, <3>2, NoDollarParts
  <2> QED
    BY <2>2
<1> QED
  BY <1>3, <1>4

\* The tokens q come from the list l of a line, typed at different times.
Looked(l, e, q, P) ==
  /\ q \in Seq(Token) /\ Len(q) = Len(l)
  /\ \A k \in 1..Len(l) :
       \E found \in SUBSET P : q[k] = typealize(quote_handler(l[k], e), found)

\* The word y is x, a word of one part with variables, as the passes after
\* quote_handler see it: replaced in double quotes.
Replaces(y, x, e) ==
  /\ ~ NoDollar(Text(x)) /\ x.kind # "op" /\ y.kind = x.kind /\ ~ Many(x)
  /\ IF x.parts[1].mode = "\""
     THEN /\ y.parts[1].mode = "\"" /\ HasPart(y, Text(y))
          /\ Text(y) = quote_handler_cpy(Text(x), e) /\ Text(y) \notin OpText
     ELSE y = x

\* The token u is one of the word or operator y, which x is behind quote_handler.
QuoteSeen(t, u, x, y, begun, head) ==
  /\ t.merge_next => u.value = Inner(t.value)
  /\ ~ t.merge_next => Text(y) = begun \o u.value
  /\ (u.value \in OpText /\ ~ u.literal) => t.value[1] \in Operator
  /\ t.value[1] \in Operator => u.value = t.value /\ u.value \in OpText /\ ~ u.literal
  /\ (head /\ t.value[1] \notin Operator /\ ~ Many(y) /\ ~ NoDollar(Text(y))) =>
       (u.literal <=> y.parts[1].mode = "'")
  /\ (head /\ t.value[1] \notin Operator /\ ~ y.open) => HasPart(y, u.value)

LEMMA QuoteSees ==
  ASSUME NEW t \in Token, NEW e, EnvOK(e), NEW R, Fits(R, t), NEW u, u = quote_handler(t, e),
         NEW x \in ItemSet, NEW y, NEW begun \in Seq(Symbol), NEW head \in BOOLEAN,
         \/ NoDollar(Inner(t.value)) /\ y = x
         \/ Replaces(y, x, e) /\ ~ t.merge_next /\ head,
         ~ t.merge_next => Text(x) = begun \o Inner(t.value),
         t.merge_next => t.value[1] \notin Operator /\ Many(x),
         head => /\ x.kind = "op" <=> t.value[1] \in Operator
                 /\ Ajar(x) <=> Lone(t.value)
                 /\ t.merge_next \/ Sole(t.value, x)
                 /\ Leading(t.value, x)
                 /\ begun = <<>>
  PROVE  QuoteSeen(t, u, x, y, begun, head)
<1>1. PICK v \in Seq(Symbol) : v = t.value
  BY DEF Fits
<1>2. v # <<>> /\ ~ t.literal /\ (v[1] \in Operator => v \in OpText) /\ Inner(v) \in Seq(Symbol)
  BY <1>1, InnerTyped DEF Fits
<1>3. v[1] \in Operator => Inner(v) = v
  <2>1. Quote \cap Operator = {}
    BY DEF Quote, Operator
  <2> QED
    BY <2>1 DEF Inner
<1>4. begun = <<>> => begun \o Inner(v) = Inner(v)
  BY <1>2, ConcatEmptySeq
<1>5. CASE NoDollar(Inner(v)) /\ y = x
  <2>1. /\ u.value = Inner(v)
        /\ (u.value \in OpText /\ ~ u.literal) <=> v[1] \in Operator
    BY <1>1, <1>5, QuoteReads
  <2>2. (head /\ ~ Many(x)) => NoDollar(Text(x))
    BY <1>1, <1>4, <1>5
  <2>3. ASSUME head, v[1] \notin Operator, ~ x.open
        PROVE  HasPart(x, u.value)
    <3>1. x.parts # <<>> /\ x.parts[1].text = u.value
      BY <1>1, <2>1, <2>3 DEF Leading, Part
    <3>2. x.parts \in Seq(PartSet)
      BY DEF ItemSet
    <3>3. 1 \in DOMAIN x.parts
      BY <3>1, <3>2
    <3> QED
      BY <3>1, <3>3 DEF HasPart
  <2> QED
    BY <1>1, <1>3, <1>5, <2>1, <2>2, <2>3 DEF QuoteSeen
<1>6. CASE Replaces(y, x, e) /\ ~ t.merge_next /\ head
  <2>1. v[1] \notin Operator /\ ~ Lone(v) /\ Text(x) = Inner(v) /\ ~ NoDollar(Inner(v))
    <3>1. ~ Ajar(x)
      BY <1>6 DEF Replaces, Many, Ajar
    <3> QED
      BY <1>1, <1>4, <1>6, <3>1 DEF Replaces
  <2>2. x.parts = <<Part(ModeOf(v), Inner(v))>>
    BY <1>1, <1>6, <2>1 DEF Sole
  <2>3. x.parts[1].mode = ModeOf(v) /\ x.parts[1].text = Inner(v)
    BY <2>2 DEF Part
  <2>4. /\ u.literal <=> ModeOf(v) = "'"
        /\ u.value = IF ModeOf(v) = "\"" THEN quote_handler_cpy(Inner(v), e) ELSE Inner(v)
    BY <1>1, <2>1, QuoteReplaces
  <2>5. PICK m : m = ModeOf(v)
    OBVIOUS
  <2>6. u.value = Text(y)
    BY <1>6, <2>1, <2>3, <2>4, <2>5 DEF Replaces
  <2>7. u.literal <=> y.parts[1].mode = "'"
    BY <1>6, <2>3, <2>4, <2>5 DEF Replaces
  <2>8. ~ (u.value \in OpText /\ ~ u.literal)
    <3>1. CASE m = "\""
      BY <1>6, <2>3, <2>5, <2>6, <3>1 DEF Replaces
    <3>2. CASE m = "'"
      BY <2>4, <2>5, <3>2
    <3>3. CASE m \notin {"\"", "'"}
      <4>1. v[1] \notin Quote
        BY <2>5, <3>3 DEF ModeOf, Quote
      <4>2. u.value = v
        BY <2>4, <2>5, <3>3, <4>1 DEF Inner
      <4> QED
        BY <2>1, <4>2, OpTexts
    <3> QED
      BY <3>1, <3>2, <3>3
  <2>9. begun \o u.value = u.value
    <3>1. u.value \in Seq(Symbol)
      BY <1>2, <2>4, QuotedText
    <3> QED
      BY <1>6, <3>1, ConcatEmptySeq
  <2>10. HasPart(y, u.value)
    <3>1. CASE m = "\""
      BY <1>6, <2>3, <2>5, <2>6, <3>1 DEF Replaces
    <3>2. CASE m # "\""
      <4>1. y = x /\ u.value = x.parts[1].text
        BY <1>6, <2>3, <2>4, <2>5, <3>2 DEF Replaces
      <4>2. 1 \in DOMAIN x.parts
        BY <2>2
      <4> QED
        BY <4>1, <4>2 DEF HasPart
    <3> QED
      BY <3>1, <3>2
  <2> QED
    BY <1>1, <1>6, <2>1, <2>6, <2>7, <2>8, <2>9, <2>10 DEF QuoteSeen
<1> QED
  BY <1>1, <1>5, <1>6

\* ... and behind typealize.
LEMMA TypeSees ==
  ASSUME NEW t, NEW u \in Token, NEW x, NEW y, NEW begun \in Seq(Symbol), NEW head,
         QuoteSeen(t, u, x, y, begun, head), head, y.kind = "op" <=> t.value[1] \in Operator,
         y.kind = "op" => begun = <<>> /\ ~ t.merge_next,
         NEW P, NEW found \in SUBSET P, NEW w, w = typealize(u, found)
  PROVE  Classed(w, y, P)
<1>1. /\ w.value = u.value
      /\ w.coretype \in {"PIPE", "REDIR"} <=> (u.value \in OpText /\ ~ u.literal)
  BY TypeReads
<1>2. PICK v : v = u.value
  OBVIOUS
<1>3. /\ w.literal = u.literal
      /\ ~ (v \in OpText /\ ~ u.literal) =>
              /\ w.type \in {"CMD", "WORD"} /\ w.rank \in {RANK_B, RANK_C}
              /\ v \notin found => w.type = "WORD"
      /\ v = <<"|">> /\ ~ u.literal =>
              w.type = "PIPE" /\ w.coretype = "PIPE" /\ w.rank = RANK_S
      /\ v \in RedirText /\ ~ u.literal =>
              w.type = RedirType(v) /\ w.coretype = "REDIR" /\ w.rank = RANK_A
  BY <1>2, TypeClasses
<1>4. (v \in OpText /\ ~ u.literal) <=> y.kind = "op"
  BY <1>2 DEF QuoteSeen
<1>5. y.kind = "op" => Text(y) = v
  <2> SUFFICES ASSUME y.kind = "op"
               PROVE  Text(y) = v
    OBVIOUS
  <2>1. v \in Seq(Symbol)
    BY <1>4, OpTexts
  <2>2. Text(y) = begun \o v /\ begun = <<>>
    BY <1>2 DEF QuoteSeen
  <2> QED
    BY <2>1, <2>2, ConcatEmptySeq
<1>6. (y.kind # "op" /\ ~ Many(y) /\ ~ NoDollar(Text(y))) => (u.literal <=> y.parts[1].mode = "'")
  BY DEF QuoteSeen
<1>7. (y.kind # "op" /\ ~ y.open) => w.type = "WORD" \/ \E a \in P : HasPart(y, a)
  <2> SUFFICES ASSUME y.kind # "op", ~ y.open, w.type # "WORD"
               PROVE  \E a \in P : HasPart(y, a)
    OBVIOUS
  <2>1. HasPart(y, v)
    BY <1>2 DEF QuoteSeen
  <2>2. v \in found
    BY <1>2, <1>3, <1>4
  <2> QED
    BY <2>1, <2>2
<1> QED
  BY <1>1, <1>2, <1>3, <1>4, <1>5, <1>6, <1>7 DEF Classed

\* What of the items the passes behind quote_handler see.
Sees(l, items, g, seen, plain, e) ==
  /\ seen \in Seq(ItemSet) /\ Len(seen) = Len(items) /\ plain \in BOOLEAN
  /\ \A k \in 1..Len(items) : Ajar(seen[k]) <=> Ajar(items[k])
  /\ plain => \A k \in 1..(Len(l) - 1) :
                \/ NoDollar(Inner(l[k].value)) /\ seen[g[k]] = items[g[k]]
                \/ Replaces(seen[g[k]], items[g[k]], e)

\* Quoted and typed, a token has no arguments yet.
LEMMA NoArgs ==
  ASSUME NEW ln, NEW t \in Cut(ln), NEW e, NEW found,
         NEW u, u = quote_handler(t, e), u \in Token, NEW w, w = typealize(u, found)
  PROVE  w.args = <<>>
<1>1. t \in Token /\ t.args = <<>>
  BY DEF Cut
<1>2. u.args = <<>>
  <2>1. CASE t.value = NULL \/ t.value[1] \notin Quote
    <3>1. u = t
      BY <2>1 DEF quote_handler
    <3> QED
      BY <1>1, <3>1
  <2>2. CASE ~ (t.value = NULL \/ t.value[1] \notin Quote) /\ Len(t.value) = 1
    <3>1. u = [t EXCEPT !.err = TRUE]
      BY <2>2 DEF quote_handler
    <3> QED
      BY <1>1, <3>1 DEF Token
  <2>3. CASE ~ (t.value = NULL \/ t.value[1] \notin Quote) /\ Len(t.value) # 1
    <3>1. PICK literal, value : u = [t EXCEPT !.literal = literal, !.value = value]
      BY <2>3 DEF quote_handler
    <3> QED
      BY <1>1, <3>1 DEF Token
  <2> QED
    BY <2>1, <2>2, <2>3
<1>3. PICK ty, co, ra : w = Typed(u, ty, co, ra)
  BY DEF typealize
<1>4. w.args = u.args
  BY <1>3 DEF Typed, Token
<1> QED
  BY <1>2, <1>4

\* The tokens of a line of several tokens, one of them.
TokenPiece(t, w, x, y, begun, head, plain, P) ==
  /\ w.merge_next = t.merge_next /\ w.value \in Seq(Symbol) /\ w.args = <<>>
  /\ w.err <=> Lone(t.value)
  /\ plain => /\ t.merge_next => w.value = Inner(t.value)
              /\ ~ t.merge_next => Text(y) = begun \o w.value
              /\ head => Classed(w, y, P)

LEMMA TokenSeen ==
  ASSUME NEW ln \in Seq(Symbol), NEW t \in Cut(ln), NEW e, EnvOK(e), NEW R, Fits(R, t),
         NEW P, NEW found \in SUBSET P, NEW w, w = typealize(quote_handler(t, e), found),
         NEW x \in ItemSet, NEW y, NEW begun \in Seq(Symbol), NEW head \in BOOLEAN,
         NEW plain \in BOOLEAN,
         plain => \/ NoDollar(Inner(t.value)) /\ y = x
                  \/ Replaces(y, x, e) /\ ~ t.merge_next /\ head,
         ~ t.merge_next => Text(x) = begun \o Inner(t.value),
         t.merge_next => t.value[1] \notin Operator /\ Many(x),
         head => /\ x.kind = "op" <=> t.value[1] \in Operator
                 /\ Ajar(x) <=> Lone(t.value)
                 /\ t.merge_next \/ Sole(t.value, x)
                 /\ Leading(t.value, x)
                 /\ begun = <<>>
  PROVE  TokenPiece(t, w, x, y, begun, head, plain, P)
<1>1. PICK u : u = quote_handler(t, e)
  OBVIOUS
<1>2. /\ u \in Token /\ u.merge_next = t.merge_next /\ u.value \in Seq(Symbol)
      /\ u.err <=> Lone(t.value)
  BY <1>1, QuoteMarks
<1>3. w = typealize(u, found)
  BY <1>1
<1>4. w.merge_next = u.merge_next /\ w.value = u.value /\ w.err = u.err
  BY <1>2, <1>3, TypeReads
<1>a. w.args = <<>>
  BY <1>1, <1>2, <1>3, NoArgs
<1>5. ASSUME plain
      PROVE  /\ t.merge_next => w.value = Inner(t.value)
             /\ ~ t.merge_next => Text(y) = begun \o w.value
             /\ head => Classed(w, y, P)
  <2>1. \/ NoDollar(Inner(t.value)) /\ y = x
        \/ Replaces(y, x, e) /\ ~ t.merge_next /\ head
    BY <1>5
  <2>2. t \in Token
    BY DEF Cut
  <2>3. QuoteSeen(t, u, x, y, begun, head)
    BY <1>1, <2>1, <2>2, QuoteSees
  <2>4. head => Classed(w, y, P)
    <3> SUFFICES ASSUME head
                 PROVE  Classed(w, y, P)
      OBVIOUS
    <3>1. y.kind = x.kind
      BY <2>1 DEF Replaces
    <3>2. y.kind = "op" <=> t.value[1] \in Operator
      BY <3>1
    <3>3. y.kind = "op" => begun = <<>> /\ ~ t.merge_next
      BY <3>2
    <3> QED
      BY <1>2, <1>3, <2>3, <3>2, <3>3, TypeSees
  <2> QED
    BY <1>4, <2>3, <2>4 DEF QuoteSeen
<1> QED
  BY <1>2, <1>4, <1>5, <1>a DEF TokenPiece

LEMMA LookedPieces ==
  ASSUME NEW ln \in Seq(Symbol), NEW l \in Seq(Cut(ln)), NEW e, EnvOK(e), NEW R, NEW items,
         Tracked(R, l, items), NEW g, NEW begun, Divided(l, items, g, begun),
         NEW seen, NEW plain, Sees(l, items, g, seen, plain, e), NEW q, NEW P, Looked(l, e, q, P)
  PROVE  Pieces(q, seen, g, begun, plain, P)
<1> DEFINE n == Len(l) - 1
           Leads(k) == k = 1 \/ ~ l[k - 1].merge_next
<1>1. /\ n \in Nat /\ n >= 1 /\ Len(q) = n + 1 /\ Len(l) = n + 1 /\ n \in 1..n
      /\ q \in Seq(Token) /\ Len(q) - 1 = n
  BY DEF Divided, Looked
<1>2. /\ seen \in Seq(ItemSet) /\ Len(seen) = Len(items) /\ plain \in BOOLEAN
      /\ \A k \in 1..Len(items) : Ajar(seen[k]) <=> Ajar(items[k])
      /\ plain => \A k \in 1..n : \/ NoDollar(Inner(l[k].value)) /\ seen[g[k]] = items[g[k]]
                                 \/ Replaces(seen[g[k]], items[g[k]], e)
  BY <1>1 DEF Sees
<1>3. \A k \in 1..n : k - 1 \in 1..n \/ k = 1
  BY <1>1
<1> HIDE DEF n
<1>4. ASSUME NEW k \in 1..n
      PROVE  /\ g[k] \in 1..Len(items) /\ items[g[k]] \in ItemSet
             /\ begun[k] \in Seq(Symbol)
             /\ l[k].merge_next =>
                  /\ k < n /\ g[k + 1] = g[k]
                  /\ begun[k + 1] = begun[k] \o Inner(l[k].value) /\ Many(items[g[k]])
                  /\ l[k].value[1] \notin Operator
             /\ ~ l[k].merge_next =>
                  /\ g[k + 1] = g[k] + 1 /\ Text(items[g[k]]) = begun[k] \o Inner(l[k].value)
                  /\ k < n => begun[k + 1] = <<>>
             /\ Leads(k) =>
                  /\ items[g[k]].kind = "op" <=> l[k].value[1] \in Operator
                  /\ Ajar(items[g[k]]) <=> Lone(l[k].value)
                  /\ l[k].merge_next \/ Sole(l[k].value, items[g[k]])
                  /\ Leading(l[k].value, items[g[k]])
  <2>1. Len(l) - 1 = n /\ items \in Seq(ItemSet)
    BY <1>1 DEF Divided
  <2>2. g[k] \in 1..Len(items)
    BY <2>1 DEF Divided
  <2>3. items[g[k]] \in ItemSet
    BY <2>1, <2>2
  <2> QED
    BY <2>1, <2>2, <2>3 DEF Divided
<1>5. ASSUME NEW k \in 1..n
      PROVE  /\ Leads(k) => begun[k] = <<>>
             /\ ~ Many(items[g[k]]) => Leads(k) /\ ~ l[k].merge_next
  <2>1. CASE k = 1
    BY <1>4, <2>1 DEF Divided
  <2>2. CASE k # 1
    <3>1. PICK j : j = k - 1
      OBVIOUS
    <3>2. j \in 1..n /\ j + 1 = k /\ j < n
      BY <1>1, <2>2, <3>1
    <3>3. /\ l[j].merge_next => g[j + 1] = g[j] /\ Many(items[g[j]])
          /\ ~ l[j].merge_next => (j < n => begun[j + 1] = <<>>)
      BY <1>4, <3>2
    <3>4. Leads(k) <=> ~ l[j].merge_next
      BY <2>2, <3>1
    <3> QED
      BY <1>4, <3>2, <3>3, <3>4
  <2> QED
    BY <2>1, <2>2
<1>6. ASSUME NEW k \in 1..n, NEW head \in BOOLEAN, head = Leads(k)
      PROVE  TokenPiece(l[k], q[k], items[g[k]], seen[g[k]], begun[k], head, plain, P)
  <2>1. PICK t : t = l[k]
    OBVIOUS
  <2>2. PICK x : x = items[g[k]]
    OBVIOUS
  <2>3. PICK y : y = seen[g[k]]
    OBVIOUS
  <2>4. PICK b : b = begun[k]
    OBVIOUS
  <2>5. k \in 1..Len(l) /\ t \in Cut(ln)
    <3>1. k \in 1..Len(l)
      BY <1>1
    <3> QED
      BY <2>1, <3>1
  <2>6. PICK found \in SUBSET P : q[k] = typealize(quote_handler(t, e), found)
    BY <2>1, <2>5 DEF Looked
  <2>7. Fits(R, t)
    BY <1>1, <2>1 DEF Tracked
  <2>8. PICK w : w = typealize(quote_handler(t, e), found)
    OBVIOUS
  <2>9. x \in ItemSet /\ b \in Seq(Symbol) /\ plain \in BOOLEAN
    BY <1>2, <1>4, <2>2, <2>4
  <2>10. /\ ~ t.merge_next => Text(x) = b \o Inner(t.value)
         /\ t.merge_next => t.value[1] \notin Operator /\ Many(x)
         /\ head => /\ x.kind = "op" <=> t.value[1] \in Operator
                    /\ Ajar(x) <=> Lone(t.value)
                    /\ t.merge_next \/ Sole(t.value, x)
                    /\ Leading(t.value, x)
                    /\ b = <<>>
    BY <1>4, <1>5, <1>6, <2>1, <2>2, <2>4
  <2>11. plain => \/ NoDollar(Inner(t.value)) /\ y = x
                  \/ Replaces(y, x, e) /\ ~ t.merge_next /\ head
    <3> SUFFICES ASSUME plain
                 PROVE  \/ NoDollar(Inner(t.value)) /\ y = x
                        \/ Replaces(y, x, e) /\ ~ t.merge_next /\ head
      OBVIOUS
    <3>1. \/ NoDollar(Inner(t.value)) /\ y = x
          \/ Replaces(y, x, e)
      BY <1>2, <2>1, <2>2, <2>3
    <3>2. Replaces(y, x, e) => ~ t.merge_next /\ head
      <4>1. Replaces(y, x, e) => ~ Many(x)
        BY DEF Replaces
      <4> QED
        BY <1>5, <1>6, <2>1, <2>2, <4>1
    <3> QED
      BY <3>1, <3>2
  <2>12. TokenPiece(t, w, x, y, b, head, plain, P)
    BY <2>5, <2>7, <2>8, <2>9, <2>10, <2>11, TokenSeen
  <2> QED
    BY <2>1, <2>2, <2>3, <2>4, <2>6, <2>8, <2>12
<1>7. ASSUME NEW k \in 1..n
      PROVE  /\ q[k].merge_next = l[k].merge_next /\ q[k].value \in Seq(Symbol)
             /\ q[k].args = <<>>
             /\ q[k].err <=> Lone(l[k].value)
             /\ plain =>
                  /\ l[k].merge_next => q[k].value = Inner(l[k].value)
                  /\ ~ l[k].merge_next => Text(seen[g[k]]) = begun[k] \o q[k].value
                  /\ Leads(k) => Classed(q[k], seen[g[k]], P)
  <2>1. PICK head \in BOOLEAN : head = Leads(k)
    <3>1. Leads(k) \in BOOLEAN
      OBVIOUS
    <3> QED
      BY <3>1
  <2>2. TokenPiece(l[k], q[k], items[g[k]], seen[g[k]], begun[k], head, plain, P)
    BY <1>6, <2>1
  <2> QED
    BY <2>1, <2>2 DEF TokenPiece
<1> HIDE DEF Leads
<1>8. /\ g[1] = 1 /\ g[Len(q)] = Len(seen) + 1 /\ begun[1] = <<>>
      /\ ~ q[Len(q) - 1].merge_next /\ Len(q) > 1
  <2>1. ~ l[n].merge_next
    BY <1>1 DEF Divided
  <2>2. ~ q[n].merge_next
    BY <1>1, <1>7, <2>1
  <2> QED
    BY <1>1, <1>2, <2>2 DEF Divided
<1>9. ASSUME NEW k \in 1..n
      PROVE  /\ g[k] \in 1..Len(seen) /\ q[k].args = <<>>
             /\ begun[k] \in Seq(Symbol) /\ q[k].value \in Seq(Symbol)
             /\ q[k].merge_next =>
                  /\ k < n /\ g[k + 1] = g[k]
                  /\ plain => begun[k + 1] = begun[k] \o q[k].value
             /\ ~ q[k].merge_next =>
                  /\ g[k + 1] = g[k] + 1
                  /\ plain => Text(seen[g[k]]) = begun[k] \o q[k].value
                  /\ k < n => begun[k + 1] = <<>>
  <2>1. /\ g[k] \in 1..Len(seen) /\ begun[k] \in Seq(Symbol) /\ q[k].value \in Seq(Symbol)
        /\ q[k].args = <<>>
    BY <1>2, <1>4, <1>7
  <2>2. q[k].merge_next => g[k + 1] = g[k] /\ k < n
    BY <1>4, <1>7
  <2>3. ~ q[k].merge_next => g[k + 1] = g[k] + 1 /\ (k < n => begun[k + 1] = <<>>)
    BY <1>4, <1>7
  <2>4. ASSUME q[k].merge_next, plain
        PROVE  begun[k + 1] = begun[k] \o q[k].value
    <3>1. l[k].merge_next
      BY <1>7, <2>4
    <3>2. begun[k + 1] = begun[k] \o Inner(l[k].value)
      BY <1>4, <3>1, Zenon
    <3>3. q[k].value = Inner(l[k].value)
      BY <1>7, <2>4, <3>1, Zenon
    <3> QED
      BY <3>2, <3>3, Zenon
  <2>5. ~ q[k].merge_next /\ plain => Text(seen[g[k]]) = begun[k] \o q[k].value
    BY <1>7
  <2> QED
    BY <2>1, <2>2, <2>3, <2>4, <2>5
<1>10. ASSUME NEW k \in 1..n, k = 1 \/ ~ q[k - 1].merge_next
       PROVE  /\ plain => Classed(q[k], seen[g[k]], P)
              /\ Ajar(seen[g[k]]) <=> q[k].err
  <2>1. Leads(k)
    <3>1. k = 1 \/ ~ l[k - 1].merge_next
      BY <1>3, <1>7, <1>10
    <3> QED
      BY <3>1 DEF Leads
  <2>2. Ajar(items[g[k]]) <=> Lone(l[k].value)
    BY <1>4, <2>1
  <2>3. Ajar(seen[g[k]]) <=> Ajar(items[g[k]])
    BY <1>2, <1>4
  <2> QED
    BY <1>7, <2>1, <2>2, <2>3
<1> QED
  BY <1>1, <1>2, <1>8, <1>9, <1>10 DEF Pieces

\* The sentinel, typed.
Trailing(t) ==
  /\ t.value = NULL /\ t.coretype = "WORD" /\ t.type = "WORD" /\ t.rank = RANK_C

\* The list l, merged, is the items, with a sentinel behind them.
Says(l, items, plain, P) ==
  /\ l \in Seq(Token)
  /\ items = <<>> => l = <<>>
  /\ items # <<>> => Len(l) = Len(items) + 1 /\ Trailing(l[Len(l)])
  /\ \A k \in 1..Len(items) : Agrees(l[k], items[k], plain, P)

LEMMA CutPlain ==
  ASSUME NEW ln \in Seq(Symbol), NoDollar(ln), NEW t \in Cut(ln), t.value \in Seq(Symbol)
  PROVE  NoDollar(Inner(t.value))
<1>1. PICK v \in Seq(Symbol) : v = t.value
  OBVIOUS
<1>2. /\ t.id \in 1..Len(ln) /\ t.id + Len(v) <= Len(ln) + 1
      /\ \A p \in 1..Len(v) : v[p] = ln[t.id + p - 1]
  BY <1>1, NoSuchString DEF Cut
<1>3. \A p \in 1..Len(v) : t.id + p - 1 \in 1..Len(ln)
  BY <1>2
<1>4. NoDollar(v)
  BY <1>2, <1>3 DEF NoDollar
<1> QED
  BY <1>1, <1>4, InnerPlain

\* The items as they are seen.
Seen(ln, items, seen, plain, e) ==
  /\ seen \in Seq(ItemSet) /\ Len(seen) = Len(items) /\ plain \in BOOLEAN
  /\ \A k \in 1..Len(items) : Ajar(seen[k]) <=> Ajar(items[k])
  /\ plain => \/ NoDollar(ln) /\ seen = items
              \/ \A k \in 1..Len(items) :
                   \/ NoDollar(Text(items[k])) /\ seen[k] = items[k]
                   \/ Replaces(seen[k], items[k], e)

LEMMA LineMerged ==
  ASSUME NEW ln \in Seq(Symbol), ln # <<>>, NEW e, EnvOK(e),
         NEW P, NULL \notin P, NEW q, Looked(split_input(ln), e, q, P),
         NEW seen, NEW plain, Seen(ln, Items(ln), seen, plain, e)
  PROVE  Says(merg_tok_excep_cll_revloop(q), seen, plain, P)
<1>1. PICK items : items = Items(ln)
  OBVIOUS
<1>2. PICK l : l = split_input(ln)
  OBVIOUS
<1>3. PICK L : L = merg_tok_excep_cll_revloop(q)
  OBVIOUS
<1>4. PICK R \in ReadersOf(ln) : items = Ended(R[Len(ln)])
  BY <1>1, ReadersExist
<1>5. l \in Seq(Cut(ln))
  BY <1>2, SplitKeeps
<1>6. Looked(l, e, q, P)
  BY <1>2
<1>a. Seen(ln, items, seen, plain, e)
  BY <1>1
<1>7. CASE l = <<>>
  <2>1. items = <<>>
    BY <1>2, <1>4, <1>7, SplitReads
  <2>2. q \in Seq(Token) /\ Len(q) = 0
    BY <1>6, <1>7 DEF Looked
  <2>3. L = q
    BY <1>3, <2>2 DEF merg_tok_excep_cll_revloop
  <2>4. L = <<>> /\ Len(seen) = 0 /\ L \in Seq(Token)
    BY <1>a, <2>1, <2>2, <2>3 DEF Seen
  <2>5. seen = <<>>
    BY <1>a, <2>4 DEF Seen
  <2>6. Says(L, seen, plain, P)
    BY <2>4, <2>5 DEF Says
  <2> QED
    BY <1>3, <2>6
<1>8. CASE l # <<>>
  <2>1. Tracked(R, l, items)
    BY <1>2, <1>4, <1>8, SplitReads
  <2>2. Len(l) \in Nat /\ Len(l) > 1 /\ Len(q) = Len(l) /\ l[Len(l)].value = NULL
    BY <1>5, <1>6, <2>1 DEF Tracked, Looked
  <2>3. ASSUME NEW k \in 1..(Len(l) - 1)
        PROVE  /\ l[k] \in Cut(ln) /\ l[k].value \in Seq(Symbol)
               /\ Came(R, l[k]) \in ReaderSet
    <3>1. PICK t : t = l[k]
      OBVIOUS
    <3>2. k \in 1..Len(l)
      BY <2>2
    <3>3. t \in Cut(ln)
      BY <1>5, <3>1, <3>2
    <3>4. t.value \in Seq(Symbol)
      BY <2>1, <3>1 DEF Tracked, Fits
    <3>5. t.id \in 1..Len(ln)
      BY <3>3, <3>4, NoSuchString DEF Cut
    <3>6. R \in [0..Len(ln) -> Readers] /\ t.id - 1 \in 0..Len(ln)
      BY <3>5 DEF ReadersOf
    <3>7. Came(R, t) \in Readers
      BY <3>6 DEF Came
    <3> QED
      BY <3>1, <3>3, <3>4, <3>7 DEF Readers
  <2>4. PICK g, begun : Divided(l, items, g, begun)
    BY <1>5, <2>1, <2>3, TokensDivide
  <2>5. Sees(l, items, g, seen, plain, e)
    <3>1. ASSUME plain, NEW k \in 1..(Len(l) - 1)
          PROVE  \/ NoDollar(Inner(l[k].value)) /\ seen[g[k]] = items[g[k]]
                 \/ Replaces(seen[g[k]], items[g[k]], e)
      <4>1. CASE NoDollar(ln) /\ seen = items
        BY <2>3, <4>1, CutPlain
      <4>2. CASE \A h \in 1..Len(items) :
                   \/ NoDollar(Text(items[h])) /\ seen[h] = items[h]
                   \/ Replaces(seen[h], items[h], e)
        <5>1. g[k] \in 1..Len(items)
          BY <2>4 DEF Divided
        <5>2. NoDollar(Text(items[g[k]])) => NoDollar(Inner(l[k].value))
          BY <2>4, ItemsPlain
        <5> QED
          BY <4>2, <5>1, <5>2
      <4> QED
        BY <1>a, <3>1, <4>1, <4>2 DEF Seen
    <3> QED
      BY <1>a, <3>1 DEF Seen, Sees
  <2>6. Pieces(q, seen, g, begun, plain, P)
    BY <1>5, <1>6, <2>1, <2>4, <2>5, LookedPieces
  <2>7. /\ L \in Seq(Token) /\ Len(L) = Len(seen) + 1 /\ L[Len(L)] = q[Len(q)]
        /\ \A k \in 1..Len(seen) : Agrees(L[k], seen[k], plain, P)
    BY <1>3, <2>6, MergeReads
  <2>8. Trailing(q[Len(q)])
    <3>1. PICK n : n = Len(l)
      OBVIOUS
    <3>2. n \in 1..Len(l)
      BY <2>2, <3>1
    <3>3. PICK t : t = l[n]
      OBVIOUS
    <3>4. t \in Cut(ln) /\ t.value = NULL
      BY <1>5, <2>2, <3>1, <3>2, <3>3
    <3>5. PICK found \in SUBSET P : q[n] = typealize(quote_handler(t, e), found)
      BY <1>6, <3>2, <3>3 DEF Looked
    <3>6. PICK u : u = quote_handler(t, e)
      OBVIOUS
    <3>7. u = t
      BY <3>4, <3>6 DEF quote_handler
    <3>8. PICK w : w = typealize(u, found)
      OBVIOUS
    <3>9. u \in Token
      BY <3>4, <3>7 DEF Cut
    <3>10. w.value = u.value /\ (w.coretype \in {"PIPE", "REDIR"} => u.value \in OpText)
           /\ w \in Token
      BY <3>8, <3>9, TypeReads
    <3>11. u.value = NULL /\ u.value \notin OpText
      BY <3>4, <3>7, OpTexts
    <3>12. NULL \notin found
      OBVIOUS
    <3>13. w.type = "WORD" /\ w.coretype = "WORD" /\ w.rank = RANK_C
      BY <3>8, <3>9, <3>11, <3>12, TypeClasses
    <3>14. Trailing(w)
      BY <3>10, <3>11, <3>13 DEF Trailing
    <3> QED
      BY <2>2, <3>1, <3>5, <3>6, <3>7, <3>8, <3>14
  <2>9. seen # <<>>
    <3>1. g[1] = 1 /\ 1 \in 1..(Len(l) - 1)
      BY <2>2, <2>4 DEF Divided
    <3>2. g[1] \in 1..Len(items)
      BY <2>4, <3>1 DEF Divided
    <3>3. 1 \in 1..Len(seen)
      BY <1>a, <3>1, <3>2 DEF Seen
    <3> QED
      BY <3>3
  <2>10. Says(L, seen, plain, P)
    BY <2>7, <2>8, <2>9 DEF Says
  <2> QED
    BY <1>3, <2>10
<1> QED
  BY <1>7, <1>8

-----------------------------------------------------------------------------
(* The line and its list, pass after pass *)

\* The tokens before i are typed, those of the list l are quoted.
HalfTyped(l, e, q, n, P) ==
  /\ q \in Seq(Token) /\ Len(q) = Len(l)
  /\ \A k \in 1..Len(l) :
       IF k < n THEN \E found \in SUBSET P : q[k] = typealize(quote_handler(l[k], e), found)
       ELSE q[k] = quote_handler(l[k], e)

\* What the list of the line may be before errors are looked for: the looks in
\* the directories of PATH found what they found.
FromLine(ln, e, m, P) ==
  \E q : Looked(split_input(ln), e, q, P) /\ m = merg_tok_excep_cll_revloop(q)

\* The assignments of that list have been made.
HasAssigned(ln, e, now, m, P) ==
  FromLine(ln, e, m, P) /\ ~ has_parser_error(m) /\ now = AssignedEnv(m, Assignments(m), e)

OfTheLine ==
  /\ pc # "prompt" => line # <<>> /\ EnvOK(before)
  /\ pc \in {"quotes", "types", "errors"} => env = before
  /\ pc = "quotes" => list = split_input(line)
  /\ pc = "types" => HalfTyped(split_input(line), before, list, i, Program(session))
  /\ pc = "errors" => FromLine(line, before, list, Program(session))
  /\ pc \in {"expand", "again", "build", "execute"} =>
       \E m : /\ HasAssigned(line, before, env, m, Program(session))
              /\ pc = "expand" => list = MarkedAssignments(m)

LEMMA TypedFurther ==
  ASSUME NEW l, NEW e, NEW q, NEW n \in 1..Len(q), NEW P, HalfTyped(l, e, q, n, P),
         NEW found \in SUBSET P,
         NEW w, w = typealize(q[n], found), w \in Token, NEW s, s = [q EXCEPT ![n] = w]
  PROVE  HalfTyped(l, e, s, n + 1, P)
<1>1. q \in Seq(Token) /\ Len(q) = Len(l) /\ Len(q) \in Nat /\ DOMAIN q = 1..Len(q)
  BY DEF HalfTyped
<1>2. s \in Seq(Token) /\ Len(s) = Len(q) /\ \A k \in 1..Len(q) : s[k] = IF k = n THEN w ELSE q[k]
  BY <1>1
<1>3. q[n] = quote_handler(l[n], e)
  BY <1>1 DEF HalfTyped
<1>4. ASSUME NEW k \in 1..Len(l)
      PROVE  IF k < n + 1 THEN \E f \in SUBSET P : s[k] = typealize(quote_handler(l[k], e), f)
             ELSE s[k] = quote_handler(l[k], e)
  <2>1. CASE k = n
    BY <1>1, <1>2, <1>3, <2>1
  <2>2. CASE k # n
    <3>1. s[k] = q[k] /\ (k < n + 1 <=> k < n)
      BY <1>1, <1>2, <2>2
    <3>2. IF k < n THEN \E f \in SUBSET P : q[k] = typealize(quote_handler(l[k], e), f)
          ELSE q[k] = quote_handler(l[k], e)
      BY DEF HalfTyped
    <3> QED
      BY <3>1, <3>2
  <2> QED
    BY <2>1, <2>2
<1> QED
  BY <1>1, <1>2, <1>4 DEF HalfTyped

LEMMA OfTheLineKept ==
  ASSUME IInv, OfTheLine, [Next]_vars
  PROVE  OfTheLine'
<1>1. Sound /\ Passed /\ EnvOK(env) /\ line \in Seq(Symbol) /\ Passed'
  BY PassedKept DEF IInv, Sound
<1>2. list \in Seq(Token) /\ Len(list) \in Nat /\ DOMAIN list = 1..Len(list) /\ i \in Nat
  BY <1>1 DEF Passed, Sound
<1>a. session' = session
  BY DEF Next, SplitInput, QuoteHandler, Typealize, Merge, ParseError, Assign,
         ExpandAndAttach, LookAgain, InitYggdrasil, MakeChildren, GoRight, TreeMade,
         Execute, Change, past, vars
<1>b. PICK P : P = Program(session) /\ Program(session)' = P
  BY <1>a
<1>c. search_list(env) \in SUBSET P
  BY <1>1, <1>b DEF search_list, Sound
<1> USE <1>b
<1>3. CASE SplitInput
  <2>1. PICK l \in Line(session) : line' = l /\ list' = split_input(l)
    BY <1>3 DEF SplitInput
  <2>2. l # <<>>
    BY <1>1, <2>1, LineAssumption DEF Sound
  <2>3. pc' = "quotes" /\ env' = env /\ before' = env
    BY <1>3 DEF SplitInput
  <2> QED
    BY <1>1, <2>1, <2>2, <2>3 DEF OfTheLine
<1>4. CASE QuoteHandler
  <2>1. /\ pc = "quotes" /\ pc' = "types" /\ line' = line /\ i' = i /\ before' = before
        /\ env' = env /\ env = before /\ list = split_input(line) /\ i = 1
        /\ list' = quote_handler_call_loop(list, env) /\ line # <<>> /\ EnvOK(before)
    BY <1>1, <1>4 DEF QuoteHandler, past, OfTheLine, Passed
  <2>2. PICK s : s = quote_handler_call_loop(list, env)
    OBVIOUS
  <2>3. s \in Seq(Token)
    BY <1>1, <2>1, <2>2 DEF Passed
  <2>4. Len(s) = Len(list) /\ \A k \in 1..Len(list) : s[k] = quote_handler(list[k], env)
    BY <1>2, <2>2 DEF quote_handler_call_loop
  <2>5. \A k \in 1..Len(list) : ~ (k < 1)
    BY <1>2
  <2>6. HalfTyped(list, before, s, 1, P)
    BY <2>1, <2>3, <2>4, <2>5 DEF HalfTyped
  <2>7. HalfTyped(split_input(line'), before', list', i', P)
    BY <2>1, <2>2, <2>6
  <2> QED
    BY <2>1, <2>7 DEF OfTheLine
<1>5. CASE Typealize
  <2>1. /\ pc = "types" /\ pc' = "types" /\ line' = line /\ i' = i + 1 /\ before' = before
        /\ env' = env /\ env = before /\ i \in 1..Len(list)
        /\ list' = [list EXCEPT ![i] = typealize(@, search_list(env))]
        /\ line # <<>> /\ EnvOK(before) /\ HalfTyped(split_input(line), before, list, i, P)
    BY <1>1, <1>2, <1>5 DEF Typealize, past, OfTheLine, Sound
  <2>2. PICK found \in SUBSET P : found = search_list(env)
    BY <1>c
  <2>3. PICK w : w = typealize(list[i], found)
    OBVIOUS
  <2>4. list' = [list EXCEPT ![i] = w]
    BY <2>1, <2>2, <2>3
  <2>5. list[i] \in Token
    BY <1>2, <2>1
  <2>6. w \in Token
    BY <2>3, <2>5, TypeReads
  <2>7. PICK l : l = split_input(line)
    OBVIOUS
  <2>8. PICK s : s = [list EXCEPT ![i] = w]
    OBVIOUS
  <2>9. HalfTyped(l, before, s, i + 1, P)
    BY <2>1, <2>3, <2>6, <2>7, <2>8, TypedFurther
  <2>10. HalfTyped(split_input(line'), before', list', i', P)
    BY <2>1, <2>4, <2>7, <2>8, <2>9
  <2> QED
    BY <2>1, <2>10 DEF OfTheLine
<1>6. CASE Merge
  <2>1. /\ pc = "types" /\ pc' = "errors" /\ line' = line /\ before' = before
        /\ env' = env /\ env = before /\ i > Len(list)
        /\ list' = merg_tok_excep_cll_revloop(list)
        /\ line # <<>> /\ EnvOK(before) /\ HalfTyped(split_input(line), before, list, i, P)
    BY <1>6 DEF Merge, past, OfTheLine
  <2>2. PICK l : l = split_input(line)
    OBVIOUS
  <2>3. \A k \in 1..Len(l) : k < i
    BY <1>2, <2>1, <2>2 DEF HalfTyped
  <2>4. Looked(l, before, list, P)
    BY <1>2, <2>1, <2>2, <2>3 DEF HalfTyped, Looked
  <2>5. FromLine(line', before', list', P)
    BY <2>1, <2>2, <2>4 DEF FromLine
  <2> QED
    BY <2>1, <2>5 DEF OfTheLine
<1>7. CASE ParseError
  BY <1>7 DEF ParseError, OfTheLine
<1>8. CASE Assign
  <2>1. /\ pc = "errors" /\ pc' = "expand" /\ line' = line /\ before' = before
        /\ env' = AssignedEnv(list, Assignments(list), env) /\ env = before
        /\ list' = MarkedAssignments(list) /\ ~ has_parser_error(list)
        /\ line # <<>> /\ EnvOK(before) /\ FromLine(line, before, list, P)
    BY <1>8 DEF Assign, past, OfTheLine
  <2>2. PICK m : m = list
    OBVIOUS
  <2>3. HasAssigned(line', before', env', m, P) /\ list' = MarkedAssignments(m)
    BY <2>1, <2>2 DEF HasAssigned
  <2> QED
    BY <2>1, <2>3 DEF OfTheLine
<1>9. CASE pc' = "prompt"
  BY <1>9 DEF OfTheLine
<1>10. CASE ExpandAndAttach \/ LookAgain \/ InitYggdrasil \/ MakeChildren \/ GoRight \/ TreeMade
  <2>1. /\ pc \in {"expand", "again", "build", "execute"}
        /\ pc' \in {"again", "build", "execute", "crashed"}
        /\ line' = line /\ before' = before /\ env' = env
    BY <1>10 DEF ExpandAndAttach, LookAgain, InitYggdrasil, MakeChildren, GoRight, TreeMade, past
  <2>2. line # <<>> /\ EnvOK(before) /\ \E m : HasAssigned(line, before, env, m, P)
    BY <2>1 DEF OfTheLine
  <2> QED
    BY <2>1, <2>2 DEF OfTheLine
<1>11. CASE Execute
  BY <1>9, <1>11 DEF Execute
<1>12. CASE Change
  BY <1>12 DEF Change, past, OfTheLine
<1>13. CASE UNCHANGED vars
  BY <1>13 DEF vars, OfTheLine
<1> QED
  BY <1>3, <1>4, <1>5, <1>6, <1>7, <1>8, <1>10, <1>11, <1>12, <1>13 DEF Next

\* At every step the list is what the passes so far make of the line, with the
\* values the variables had when it was read.
THEOREM PassesFollowLine == Spec => []OfTheLine
<1>1. Init => OfTheLine
  BY DEF Init, OfTheLine
<1>2. IInv /\ OfTheLine /\ [Next]_vars => OfTheLine'
  BY OfTheLineKept
<1> QED
  BY <1>1, <1>2, PassesAgree, PTL DEF Spec

-----------------------------------------------------------------------------
(* What stands in the line *)

LEMMA ItemsTyped ==
  ASSUME NEW ln \in Seq(Symbol)
  PROVE  Items(ln) \in Seq(ItemSet)
<1>1. PICK R \in ReadersOf(ln) : Items(ln) = Ended(R[Len(ln)])
  BY ReadersExist
<1>2. R \in [0..Len(ln) -> Readers] /\ Len(ln) \in 0..Len(ln)
  BY <1>1 DEF ReadersOf
<1>3. PICK r \in ReaderSet : r = R[Len(ln)]
  BY <1>2 DEF Readers
<1>4. r.items \in Seq(ItemSet) /\ r.item \in ItemSet
  BY ReaderIs
<1>5. Ended(r) \in Seq(ItemSet)
  BY <1>4 DEF Ended
<1> QED
  BY <1>1, <1>3, <1>5

LEMMA Merging ==
  ASSUME IInv, OfTheLine, NEW m, FromLine(line, before, m, Program(session)), pc # "prompt", NEW plain \in BOOLEAN,
         plain => \/ NoDollar(line)
                  \/ \A k \in 1..Len(Items(line)) : NoDollar(Text(Items(line)[k]))
  PROVE  Says(m, Items(line), plain, Program(session))
<1>1. line \in Seq(Symbol) /\ line # <<>> /\ EnvOK(before)
  BY DEF IInv, Sound, OfTheLine
<1>a. PICK P : P = Program(session)
  OBVIOUS
<1>b. NULL \notin P
  BY <1>a, LineAssumption, NoSuchString DEF IInv, Sound
<1>2. PICK q : Looked(split_input(line), before, q, P) /\ m = merg_tok_excep_cll_revloop(q)
  BY <1>a DEF FromLine
<1>3. PICK ln : ln = line
  OBVIOUS
<1>4. PICK e : e = before
  OBVIOUS
<1>5. PICK seen : seen = Items(ln)
  OBVIOUS
<1>6. Seen(ln, Items(ln), seen, plain, e)
  <2>1. seen \in Seq(ItemSet)
    BY <1>1, <1>3, <1>5, ItemsTyped
  <2> QED
    BY <1>3, <1>5, <2>1 DEF Seen
<1>7. Says(merg_tok_excep_cll_revloop(q), seen, plain, P)
  BY <1>1, <1>2, <1>3, <1>4, <1>6, <1>b, LineMerged
<1> QED
  BY <1>2, <1>3, <1>5, <1>7, <1>a

\* merg_tok_excep_cll_revloop: of every line without a "$", of whatever length,
\* the merged tokens are the words and operators that stand in it; an operator
\* is one that stands bare, an error a word that begins with a quote that is
\* never closed.
THEOREM LinesAreRead == Spec => []WordsRead
<1>1. IInv /\ OfTheLine => WordsRead
  <2> SUFFICES ASSUME IInv, OfTheLine, pc = "errors", "$" \notin Range(line),
                      NEW items, items = Items(line)
               PROVE  /\ Len(list) = Len(items) + (IF items = <<>> THEN 0 ELSE 1)
                      /\ \A k \in DOMAIN items :
                           /\ list[k].value = Text(items[k])
                           /\ Op(items[k]) <=> list[k].coretype \in {"PIPE", "REDIR"}
                           /\ list[k].err <=> items[k].open /\ ~ items[k].glued
    BY DEF WordsRead
  <2>1. line \in Seq(Symbol)
    BY DEF IInv, Sound
  <2>2. NoDollar(line)
    <3>1. DOMAIN line = 1..Len(line)
      BY <2>1
    <3> QED
      BY <3>1 DEF NoDollar, Range
  <2>3. PICK plain \in BOOLEAN : plain = TRUE
    OBVIOUS
  <2>4. FromLine(line, before, list, Program(session))
    BY DEF OfTheLine
  <2>5. Says(list, items, plain, Program(session))
    BY <2>2, <2>4, Merging
  <2>6. items \in Seq(ItemSet) /\ DOMAIN items = 1..Len(items)
    BY <2>1, ItemsTyped
  <2>7. \A k \in 1..Len(items) : Agrees(list[k], items[k], plain, Program(session))
    BY <2>5 DEF Says
  <2>8. \A k \in 1..Len(items) :
          /\ list[k].value = Text(items[k])
          /\ Op(items[k]) <=> list[k].coretype \in {"PIPE", "REDIR"}
          /\ list[k].err <=> items[k].open /\ ~ items[k].glued
    BY <2>3, <2>7 DEF Agrees, Classed, Ajar, Op
  <2>9. Len(list) = Len(items) + (IF items = <<>> THEN 0 ELSE 1)
    BY <2>5, <2>6 DEF Says
  <2> QED
    BY <2>6, <2>8, <2>9
<1> QED
  BY <1>1, PassesAgree, PassesFollowLine, PTL

-----------------------------------------------------------------------------
(* Every item is a word, or an operator with the text of one. *)

Sorted(s) ==
  \A p \in 1..Len(s) : s[p].kind = "word" \/ (s[p].kind = "op" /\ Text(s[p]) \in OpText)

LEMMA TokenKinds ==
  ASSUME NEW R, NEW t, Fits(R, t), Came(R, t) \in ReaderSet, Sorted(Ended(Came(R, t)))
  PROVE  Sorted(Ended(Left(R, t)))
<1>1. PICK r \in ReaderSet : r = Came(R, t)
  OBVIOUS
<1>2. PICK v : v = t.value
  OBVIOUS
<1>3. TokenRead(r, v, Left(R, t)) /\ (v[1] \in Operator => v \in OpText)
  BY <1>1, <1>2 DEF Fits
<1>4. PICK b \in ReaderSet : b = Left(R, t)
  BY <1>3 DEF TokenRead
<1>5. /\ b.item.kind = IF v[1] \in Operator THEN "op" ELSE "word"
      /\ IF r.item.kind = "word" /\ v[1] \notin Operator
         THEN b.items = r.items
         ELSE b.items = Ended(r) /\ Text(b.item) = Inner(v)
  BY <1>3, <1>4 DEF TokenRead
<1>6. b.item.kind = "word" \/ (b.item.kind = "op" /\ Text(b.item) \in OpText)
  <2>1. CASE v[1] \in Operator
    <3>1. Quote \cap Operator = {}
      BY DEF Quote, Operator
    <3>2. Inner(v) = v
      BY <2>1, <3>1 DEF Inner
    <3> QED
      BY <1>3, <1>5, <2>1, <3>2
  <2>2. CASE v[1] \notin Operator
    BY <1>5, <2>2
  <2> QED
    BY <2>1, <2>2
<1>7. Sorted(b.items)
  <2>1. CASE r.item.kind = "word" /\ v[1] \notin Operator
    <3>1. /\ Len(Ended(r)) = Len(r.items) + 1 /\ r.items \in Seq(ItemSet)
          /\ \A p \in 1..Len(r.items) : Ended(r)[p] = r.items[p]
      BY <2>1, EndedIs, ReaderIs
    <3>2. \A p \in 1..Len(r.items) : p \in 1..Len(Ended(r))
      BY <3>1
    <3>3. b.items = r.items
      BY <1>5, <2>1
    <3>4. \A p \in 1..Len(r.items) : LET x == Ended(r)[p] IN
            x.kind = "word" \/ (x.kind = "op" /\ Text(x) \in OpText)
      BY <1>1, <3>2 DEF Sorted
    <3>5. Sorted(r.items)
      BY <3>1, <3>4 DEF Sorted
    <3> QED
      BY <3>3, <3>5
  <2>2. CASE ~ (r.item.kind = "word" /\ v[1] \notin Operator)
    BY <1>1, <1>5, <2>2
  <2> QED
    BY <2>1, <2>2
<1>8. b.item.kind # "none"
  BY <1>6
<1>9. /\ Len(Ended(b)) = Len(b.items) + 1 /\ b.items \in Seq(ItemSet)
      /\ Ended(b)[Len(b.items) + 1] = b.item
      /\ \A p \in 1..Len(b.items) : Ended(b)[p] = b.items[p]
  BY <1>8, EndedIs, ReaderIs
<1>10. PICK s : s = Ended(b)
  OBVIOUS
<1>11. ASSUME NEW p \in 1..Len(s)
       PROVE  s[p].kind = "word" \/ (s[p].kind = "op" /\ Text(s[p]) \in OpText)
  <2>1. p \in 1..Len(b.items) \/ p = Len(b.items) + 1
    BY <1>9, <1>10
  <2>2. CASE p = Len(b.items) + 1
    BY <1>6, <1>9, <1>10, <2>2
  <2>3. CASE p \in 1..Len(b.items)
    BY <1>7, <1>9, <1>10, <2>3 DEF Sorted
  <2> QED
    BY <2>1, <2>2, <2>3
<1> QED
  BY <1>4, <1>10, <1>11 DEF Sorted

LEMMA ItemKinds ==
  ASSUME NEW ln \in Seq(Symbol), ln # <<>>
  PROVE  Sorted(Items(ln))
<1>1. PICK items : items = Items(ln)
  OBVIOUS
<1>2. PICK l : l = split_input(ln)
  OBVIOUS
<1>3. PICK R \in ReadersOf(ln) : items = Ended(R[Len(ln)])
  BY <1>1, ReadersExist
<1>4. l \in Seq(Cut(ln))
  BY <1>2, SplitKeeps
<1>5. \A p \in 1..Len(<<>>) : FALSE
  OBVIOUS
<1>6. CASE l = <<>>
  <2>1. items = <<>>
    BY <1>2, <1>3, <1>6, SplitReads
  <2> QED
    BY <1>1, <1>5, <2>1 DEF Sorted
<1>7. CASE l # <<>>
  <2>1. Tracked(R, l, items)
    BY <1>2, <1>3, <1>7, SplitReads
  <2>2. PICK n \in Nat : n = Len(l) - 1 /\ n >= 1
    BY <1>4, <2>1 DEF Tracked
  <2>3. Len(l) = n + 1 /\ Len(l) - 2 = n - 1
    BY <1>4, <2>2
  <2>4. ASSUME NEW k \in 1..n
        PROVE  Fits(R, l[k]) /\ Came(R, l[k]) \in ReaderSet
    <3>1. PICK t : t = l[k]
      OBVIOUS
    <3>2. k \in 1..Len(l)
      BY <2>3
    <3>3. t \in Cut(ln)
      BY <1>4, <3>1, <3>2
    <3>4. Fits(R, t)
      BY <2>1, <2>2, <3>1 DEF Tracked
    <3>5. t.id \in 1..Len(ln)
      BY <3>3, <3>4, NoSuchString DEF Cut, Fits
    <3>6. R \in [0..Len(ln) -> Readers] /\ t.id - 1 \in 0..Len(ln)
      BY <3>5 DEF ReadersOf
    <3>7. Came(R, t) \in Readers
      BY <3>6 DEF Came
    <3> QED
      BY <3>1, <3>4, <3>7 DEF Readers
  <2> DEFINE T == {k \in 0..(n - 1) : Sorted(Ended(Left(R, l[k + 1])))}
  <2>5. 0 \in T
    <3>1. PICK t : t = l[1]
      OBVIOUS
    <3>2. Fits(R, t) /\ Came(R, t) \in ReaderSet
      BY <2>2, <2>4, <3>1
    <3>3. Ended(Came(R, t)) = <<>>
      BY <2>1, <3>1 DEF Tracked, Untouched
    <3>4. Sorted(Ended(Came(R, t)))
      BY <1>5, <3>3 DEF Sorted
    <3>5. Sorted(Ended(Left(R, t)))
      BY <3>2, <3>4, TokenKinds
    <3> QED
      BY <2>2, <3>1, <3>5
  <2>6. ASSUME NEW k \in 1..(n - 1), k - 1 \in T
        PROVE  k \in T
    <3>1. PICK next : next = k + 1
      OBVIOUS
    <3>2. next \in 1..n /\ k \in 1..n /\ (k - 1) + 1 = k /\ k \in 0..(n - 1)
      BY <2>2, <3>1
    <3>3. PICK t : t = l[k]
      OBVIOUS
    <3>4. PICK u : u = l[next]
      OBVIOUS
    <3>5. Sorted(Ended(Left(R, t)))
      BY <2>6, <3>2, <3>3
    <3>6. Joined(R, t, u)
      BY <2>1, <2>3, <3>1, <3>3, <3>4 DEF Tracked
    <3>7. Ended(Came(R, u)) = Ended(Left(R, t))
      BY <3>6 DEF Joined
    <3>8. Fits(R, u) /\ Came(R, u) \in ReaderSet
      BY <2>4, <3>2, <3>4
    <3>9. Sorted(Ended(Left(R, u)))
      BY <3>5, <3>7, <3>8, TokenKinds
    <3> QED
      BY <3>1, <3>2, <3>4, <3>9
  <2>7. n - 1 \in T
    <3>1. n - 1 \in Nat /\ n - 1 \in 0..(n - 1)
      BY <2>2
    <3> HIDE DEF T
    <3> QED
      BY <2>5, <2>6, <3>1, UpTo
  <2>8. (n - 1) + 1 = n /\ Len(l) - 1 = n
    BY <2>3
  <2>9. items = Ended(Left(R, l[n]))
    BY <2>1, <2>8 DEF Tracked
  <2> QED
    BY <1>1, <2>7, <2>8, <2>9
<1> QED
  BY <1>6, <1>7

-----------------------------------------------------------------------------
(* The assignments a line begins with *)

LEMMA AssignmentIs ==
  ASSUME NEW v \in Seq(Symbol)
  PROVE  /\ is_valid_assignment(v) <=> IsAssignment(v)
         /\ is_valid_assignment(v) =>
              /\ RunLength(v, Name) \in 1..(Len(v) - 1) /\ v[RunLength(v, Name) + 1] = "="
              /\ \A k \in 1..RunLength(v, Name) : v[k] \in Name
<1>1. PICK n : n = RunLength(v, Name)
  OBVIOUS
<1>2. /\ n \in 0..Len(v) /\ Len(v) \in Nat
      /\ \A k \in 1..n : v[k] \in Name
      /\ n < Len(v) => v[n + 1] \notin Name
  BY <1>1, RunLengthIs
<1>3. "=" \notin Name
  BY NamesAreNoPunctuation
<1>4. ASSUME is_valid_assignment(v)
      PROVE  n \in 1..(Len(v) - 1) /\ v[n + 1] = "=" /\ IsAssignment(v)
  <2>1. n > 0 /\ n < Len(v) /\ v[n + 1] = "="
    BY <1>1, <1>4 DEF is_valid_assignment
  <2>2. PICK e : e = n + 1
    OBVIOUS
  <2>3. e \in 2..Len(v) /\ n \in 1..(Len(v) - 1) /\ e - 1 = n
    BY <1>2, <2>1, <2>2
  <2>4. v[e] = "=" /\ \A k \in 1..(e - 1) : v[k] \in Name
    BY <1>2, <2>1, <2>2, <2>3
  <2> QED
    BY <2>1, <2>3, <2>4 DEF IsAssignment
<1>5. ASSUME IsAssignment(v)
      PROVE  is_valid_assignment(v)
  <2>1. PICK e \in 2..Len(v) : v[e] = "=" /\ \A k \in 1..(e - 1) : v[k] \in Name
    BY <1>5 DEF IsAssignment
  <2>2. ~ (e <= n)
    BY <1>2, <1>3, <2>1
  <2>3. ~ (n + 1 < e)
    <3> SUFFICES ASSUME n + 1 < e
                 PROVE  FALSE
      OBVIOUS
    <3>1. n < Len(v) /\ n + 1 \in 1..(e - 1)
      BY <1>2, <2>1
    <3> QED
      BY <1>2, <2>1, <3>1
  <2>4. n + 1 = e /\ n > 0 /\ n < Len(v)
    BY <1>2, <2>1, <2>2, <2>3
  <2> QED
    BY <1>1, <2>1, <2>4 DEF is_valid_assignment
<1> QED
  BY <1>1, <1>2, <1>4, <1>5

LEMMA NullAssigns == ~ is_valid_assignment(NULL)
<1> SUFFICES ASSUME is_valid_assignment(NULL)
             PROVE  FALSE
  OBVIOUS
<1>1. PICK v \in Seq({"NULL"}) : v = NULL /\ Len(v) = 1 /\ v[1] = "NULL"
  <2>1. NULL \in Seq({"NULL"}) /\ Len(NULL) = 1 /\ NULL[1] = "NULL"
    BY DEF NULL
  <2> QED
    BY <2>1
<1>2. RunLength(v, Name) \in 0..1
      /\ \A k \in 1..RunLength(v, Name) : v[k] \in Name
  BY <1>1, RunLengthIs
<1>3. RunLength(v, Name) > 0 /\ RunLength(v, Name) < Len(v)
  BY <1>1 DEF is_valid_assignment
<1> QED
  BY <1>1, <1>2, <1>3

\* Behind the assignments the list goes on with something else.
LEMMA AssignmentsEnd ==
  ASSUME NEW l \in Seq(Token), NEW n, n = Assignments(l), n < Len(l)
  PROVE  ~ is_valid_assignment(l[n + 1].value)
<1> DEFINE f == [k \in DOMAIN l |-> is_valid_assignment(l[k].value)]
<1>1. f \in [DOMAIN l -> BOOLEAN]
  BY DEF is_valid_assignment
<1>2. \A k \in 1..Len(l) : f[k] = is_valid_assignment(l[k].value)
  OBVIOUS
<1>3. n = RunLength(f, {TRUE})
  BY DEF Assignments
<1> HIDE DEF f
<1>4. f \in Seq(BOOLEAN) /\ Len(f) = Len(l)
  BY <1>1, TokenByToken
<1>5. n \in 0..Len(l) /\ f[n + 1] \notin {TRUE}
  <2>1. RunLength(f, {TRUE}) \in 0..Len(f)
    BY <1>4, RunLengthIs
  <2>2. RunLength(f, {TRUE}) < Len(f) => f[RunLength(f, {TRUE}) + 1] \notin {TRUE}
    BY <1>4, RunLengthIs
  <2> QED
    BY <1>3, <1>4, <2>1, <2>2
<1>6. n + 1 \in 1..Len(l)
  BY <1>5
<1>7. f[n + 1] = is_valid_assignment(l[n + 1].value)
  BY <1>2, <1>6
<1> QED
  BY <1>5, <1>7, Zenon

\* An assignment gives a value to one name, the text before its "=".
LEMMA NameGiven ==
  ASSUME NEW v \in Seq(Symbol), is_valid_assignment(v), NEW n \in Seq(Name)
  PROVE  /\ SubSeq(v, 1, Len(n) + 1) = Append(n, "=") <=> SubSeq(v, 1, RunLength(v, Name)) = n
         /\ SubSeq(v, 1, RunLength(v, Name)) = n => Len(n) = RunLength(v, Name)
<1>1. PICK e \in Nat : e = RunLength(v, Name)
  BY RunLengthIs
<1>2. PICK m \in Nat : m = Len(n)
  OBVIOUS
<1>3. PICK a \in Nat : a = Len(v)
  OBVIOUS
<1>4. /\ e \in 1..(a - 1) /\ v[e + 1] = "=" /\ \A k \in 1..e : v[k] \in Name
  BY <1>1, <1>3, AssignmentIs
<1>5. "=" \notin Name
  BY NamesAreNoPunctuation
<1>6. PICK w : w = Append(n, "=")
  OBVIOUS
<1>7. w[m + 1] = "=" /\ \A k \in 1..m : w[k] = n[k] /\ n[k] \in Name
  BY <1>2, <1>6
<1>8. w \in Seq(Name \cup {"="}) /\ Len(w) = m + 1
  BY <1>2, <1>6
<1>9. PICK x : x = SubSeq(v, 1, e)
  OBVIOUS
<1>10. /\ x \in Seq(Symbol) /\ Len(x) = e
       /\ \A k \in 1..e : x[k] = v[k]
  <2>1. 1 \in 1..(Len(v) + 1) /\ e \in (1 - 1)..Len(v) /\ e - 1 + 1 = e
    BY <1>3, <1>4
  <2>2. /\ x \in Seq(Symbol) /\ Len(x) = e - 1 + 1
        /\ \A k \in 1..(e - 1 + 1) : x[k] = v[1 + k - 1]
    BY <1>9, <2>1, PieceIs, SMTT(30)
  <2>3. \A k \in 1..e : 1 + k - 1 = k
    OBVIOUS
  <2> QED
    BY <2>1, <2>2, <2>3
<1>11. PICK y : y = SubSeq(v, 1, m + 1)
  OBVIOUS
<1>12. ASSUME x = n
       PROVE  m = e /\ y = w
  <2>1. m = e
    BY <1>2, <1>10, <1>12
  <2>2. 1 \in 1..(Len(v) + 1) /\ m + 1 \in (1 - 1)..Len(v) /\ (m + 1) - 1 + 1 = m + 1
    BY <1>3, <1>4, <2>1
  <2>3. /\ y \in Seq(Symbol) /\ Len(y) = (m + 1) - 1 + 1
        /\ \A k \in 1..((m + 1) - 1 + 1) : y[k] = v[1 + k - 1]
    BY <1>11, <2>2, PieceIs, SMTT(30)
  <2>4. \A k \in 1..(m + 1) : 1 + k - 1 = k
    OBVIOUS
  <2>5. /\ Len(y) = m + 1 /\ \A k \in 1..(m + 1) : y[k] = v[k]
    BY <2>2, <2>3, <2>4
  <2>6. \A k \in 1..(m + 1) : y[k] = w[k]
    <3> SUFFICES ASSUME NEW k \in 1..(m + 1)
                 PROVE  y[k] = w[k]
      OBVIOUS
    <3>1. CASE k = m + 1
      BY <1>4, <1>7, <2>1, <2>5, <3>1
    <3>2. CASE k # m + 1
      <4>1. k \in 1..m /\ k \in 1..e
        BY <2>1, <3>2
      <4> QED
        BY <1>7, <1>10, <1>12, <2>5, <4>1
    <3> QED
      BY <3>1, <3>2
  <2> QED
    BY <1>8, <2>1, <2>3, <2>5, <2>6, SeqEqual
<1>13. ASSUME y = w
       PROVE  x = n
  <2>1. CASE m < e
    <3>1. 1 \in 1..(Len(v) + 1) /\ m + 1 \in (1 - 1)..Len(v) /\ (m + 1) - 1 + 1 = m + 1
      BY <1>3, <1>4, <2>1
    <3>2. \A k \in 1..((m + 1) - 1 + 1) : y[k] = v[1 + k - 1]
      BY <1>11, <3>1, PieceIs, SMTT(30)
    <3>3. m + 1 \in 1..((m + 1) - 1 + 1) /\ 1 + (m + 1) - 1 = m + 1 /\ m + 1 \in 1..e
      BY <1>4, <2>1
    <3>4. y[m + 1] = v[m + 1] /\ v[m + 1] \in Name
      BY <1>4, <3>2, <3>3
    <3> QED
      BY <1>5, <1>7, <1>13, <3>4
  <2>2. CASE m > e
    <3>1. y[e + 1] = v[e + 1]
      BY <1>4, <1>11, <2>2
    <3>2. e + 1 \in 1..m
      BY <1>4, <2>2
    <3> QED
      BY <1>4, <1>5, <1>7, <1>13, <3>1, <3>2
  <2>3. CASE m = e
    <3>1. 1 \in 1..(Len(v) + 1) /\ m + 1 \in (1 - 1)..Len(v) /\ (m + 1) - 1 + 1 = m + 1
      BY <1>3, <1>4, <2>3
    <3>2. \A k \in 1..((m + 1) - 1 + 1) : y[k] = v[1 + k - 1]
      BY <1>11, <3>1, PieceIs, SMTT(30)
    <3>3. \A k \in 1..e : k \in 1..((m + 1) - 1 + 1) /\ 1 + k - 1 = k /\ k \in 1..m
      BY <2>3
    <3>4. \A k \in 1..e : x[k] = n[k]
      BY <1>7, <1>10, <1>13, <3>2, <3>3
    <3>5. Len(x) = Len(n) /\ \A k \in 1..Len(x) : x[k] = n[k]
      BY <1>2, <1>10, <2>3, <3>4
    <3>6. n \in Seq(Symbol)
      BY SeqMonotonic DEF Symbol
    <3> QED
      BY <1>10, <3>5, <3>6, SeqEqual
  <2> QED
    BY <1>4, <2>1, <2>2, <2>3
<1> QED
  BY <1>1, <1>2, <1>6, <1>9, <1>11, <1>12, <1>13

\* The name of an assignment, and its value.
NameOf(v) == SubSeq(v, 1, RunLength(v, Name))
ValueOf(v) == Rest(v, RunLength(v, Name) + 2)
Names(l, k, a) == NameOf(l[k].value) = a

\* x is what the environment e is behind j assignments: the last of a name
\* decides.
Holding(l, e, j, x) ==
  /\ EnvOK(x)
  /\ \A a : a \in DOMAIN x <=> (a \in DOMAIN e \/ \E k \in 1..j : Names(l, k, a))
  /\ \A a \in DOMAIN x :
       /\ (\A k \in 1..j : ~ Names(l, k, a)) => x[a] = e[a]
       /\ \A k \in 1..j :
            (Names(l, k, a) /\ \A h \in (k + 1)..j : ~ Names(l, h, a)) => x[a] = ValueOf(l[k].value)

\* y is x with the assignment j.
Gains(l, e, b, j, x, y) ==
  /\ Holding(l, e, b, x) /\ j = b + 1 /\ is_valid_assignment(l[j].value)
  /\ y = Assigned(l[j].value, x)

LEMMA HoldingNext ==
  ASSUME NEW l \in Seq(Token), NEW e, NEW b \in Nat, NEW j \in 1..Len(l), NEW x, NEW y,
         Gains(l, e, b, j, x, y)
  PROVE  Holding(l, e, j, y) /\ y \in [DOMAIN y -> Seq(Symbol)] /\ DOMAIN y \in SUBSET Seq(Name)
<1>0. /\ Holding(l, e, b, x) /\ j = b + 1 /\ is_valid_assignment(l[j].value)
      /\ y = Assigned(l[j].value, x)
  BY DEF Gains
<1>1. PICK v : v = l[j].value
  OBVIOUS
<1>2. EnvOK(x)
  BY <1>0 DEF Holding
<1>3. v \in Seq(Symbol) \/ v = NULL
  <2>1. l[j] \in Token
    OBVIOUS
  <2> QED
    BY <1>1, <2>1 DEF Token
<1>4. /\ y \in [DOMAIN y -> Seq(Symbol)] /\ EnvOK(y)
  BY <1>0, <1>1, <1>2, <1>3, AssignStep
<1>5. PICK name : name = NameOf(v)
  OBVIOUS
<1>6. PICK value : value = ValueOf(v)
  OBVIOUS
<1>7. y = [a \in DOMAIN x \cup {name} |-> IF a = name THEN value ELSE x[a]]
  BY <1>0, <1>1, <1>5, <1>6 DEF Assigned, NameOf, ValueOf
<1>8. \A a : Names(l, j, a) <=> name = a
  BY <1>1, <1>5 DEF Names
<1>9. \A k : k \in 1..j <=> (k \in 1..b \/ k = j)
  BY <1>0
<1>10. ASSUME NEW a
       PROVE  a \in DOMAIN y <=> (a \in DOMAIN e \/ \E k \in 1..j : Names(l, k, a))
  <2>1. a \in DOMAIN y <=> (a \in DOMAIN x \/ a = name)
    BY <1>7
  <2>2. a \in DOMAIN x <=> (a \in DOMAIN e \/ \E k \in 1..b : Names(l, k, a))
    BY <1>0 DEF Holding
  <2> QED
    BY <1>8, <1>9, <2>1, <2>2
<1>11. ASSUME NEW a \in DOMAIN y, \A k \in 1..j : ~ Names(l, k, a)
       PROVE  y[a] = e[a]
  <2>1. a # name /\ \A k \in 1..b : ~ Names(l, k, a)
    BY <1>8, <1>9, <1>11
  <2>2. a \in DOMAIN x /\ y[a] = x[a]
    BY <1>7, <1>11, <2>1
  <2>3. x[a] = e[a]
    BY <1>0, <2>1, <2>2 DEF Holding
  <2> QED
    BY <2>2, <2>3
<1>12. ASSUME NEW a \in DOMAIN y, NEW k \in 1..j, Names(l, k, a),
              \A h \in (k + 1)..j : ~ Names(l, h, a)
       PROVE  y[a] = ValueOf(l[k].value)
  <2>1. CASE k = j
    BY <1>1, <1>6, <1>7, <1>8, <1>12, <2>1
  <2>2. CASE k # j
    <3>1. k \in 1..b /\ j \in (k + 1)..j /\ \A h \in (k + 1)..b : h \in (k + 1)..j
      BY <1>0, <2>2
    <3>2. a # name /\ \A h \in (k + 1)..b : ~ Names(l, h, a)
      BY <1>8, <1>12, <3>1
    <3>3. a \in DOMAIN x /\ y[a] = x[a]
      BY <1>7, <3>2
    <3>4. x[a] = ValueOf(l[k].value)
      BY <1>0, <1>12, <3>1, <3>2, <3>3 DEF Holding
    <3> QED
      BY <3>3, <3>4
  <2> QED
    BY <2>1, <2>2
<1>13. DOMAIN y \in SUBSET Seq(Name)
  BY <1>4 DEF EnvOK
<1> QED
  BY <1>4, <1>10, <1>11, <1>12, <1>13 DEF Holding

LEMMA AssignedEnvIs ==
  ASSUME NEW l \in Seq(Token), NEW n \in 0..Len(l), NEW e, EnvOK(e),
         \A k \in 1..n : is_valid_assignment(l[k].value)
  PROVE  Holding(l, e, n, AssignedEnv(l, n, e))
<1> DEFINE U == {e} \cup UNION {[D -> Seq(Symbol)] : D \in SUBSET Seq(Name)}
           A(j) == {x \in U : Holding(l, e, j, x)}
           I == [j \in 0..n |-> A(j)]
           Turn(x, j) == Assigned(l[j].value, x)
           g == [p \in U \X (1..n) |-> Turn(p[1], p[2])]
<1>1. n \in Nat /\ e \in A(0)
  <2>1. \A k \in 1..0 : FALSE
    OBVIOUS
  <2>2. Holding(l, e, 0, e)
    BY <2>1 DEF Holding
  <2> QED
    BY <2>2
<1>2. ASSUME NEW j \in 1..n, NEW x \in A(j - 1)
      PROVE  x \in U /\ Turn(x, j) \in A(j)
  <2>1. j \in 1..Len(l) /\ j - 1 \in Nat /\ j = (j - 1) + 1 /\ is_valid_assignment(l[j].value)
    OBVIOUS
  <2>2. PICK b \in Nat : b = j - 1
    BY <2>1
  <2>3. PICK y : y = Turn(x, j)
    OBVIOUS
  <2>4. Holding(l, e, b, x) /\ j = b + 1 /\ y = Assigned(l[j].value, x)
    BY <2>1, <2>2, <2>3
  <2>5. /\ Holding(l, e, j, y) /\ y \in [DOMAIN y -> Seq(Symbol)]
        /\ DOMAIN y \in SUBSET Seq(Name)
    <3>1. PICK c \in 1..Len(l) : c = j
      BY <2>1
    <3>2. Gains(l, e, b, c, x, y)
      BY <2>1, <2>4, <3>1 DEF Gains
    <3> HIDE DEF Turn, A
    <3>3. /\ Holding(l, e, c, y) /\ y \in [DOMAIN y -> Seq(Symbol)]
          /\ DOMAIN y \in SUBSET Seq(Name)
      BY <3>2, HoldingNext
    <3> QED
      BY <3>1, <3>3
  <2>6. y \in U
    BY <2>5
  <2> QED
    BY <2>3, <2>5, <2>6
<1>4. \A j \in 0..n : I[j] = A(j)
  OBVIOUS
<1>5. /\ \A j \in 0..n : A(j) \subseteq U
      /\ \A j \in 1..n : \A x \in A(j - 1) : g[<<x, j>>] = Turn(x, j) /\ Turn(x, j) \in A(j)
  <2>1. \A x \in U : \A j \in 1..n : g[<<x, j>>] = Turn(x, j)
    BY Zenon
  <2>2. \A j \in 0..n : A(j) \subseteq U
    OBVIOUS
  <2> HIDE DEF A, U, g, Turn
  <2> QED
    BY <1>2, <2>1, <2>2
<1> HIDE DEF A, I, g, U, Turn
<1>a. \A j \in 1..n : j - 1 \in 0..n /\ j \in 0..n
  BY <1>1
<1>b. 0 \in 0..n /\ n \in 0..n
  BY <1>1
<1>6. PICK f : f \in Loops(U, n, I, e, g)
  <2>1. e \in I[0] /\ \A j \in 0..n : I[j] \subseteq U
    BY <1>1, <1>4, <1>5, <1>b
  <2>2. \A j \in 1..n : \A y \in I[j - 1] : g[<<y, j>>] \in I[j]
    BY <1>4, <1>5, <1>a
  <2> QED
    BY <1>1, <2>1, <2>2, Iterates
<1>7. f = [j \in 0..n |-> IF j = 0 THEN e ELSE Turn(f[j - 1], j)]
  <2>1. \A j \in 1..n : f[j] = Turn(f[j - 1], j)
    <3> SUFFICES ASSUME NEW j \in 1..n
                 PROVE  f[j] = Turn(f[j - 1], j)
      OBVIOUS
    <3>1. f[j - 1] \in I[j - 1] /\ f[j] = g[<<f[j - 1], j>>]
      BY <1>6, <1>a DEF Loops
    <3>2. f[j - 1] \in A(j - 1)
      BY <1>4, <1>a, <3>1
    <3> QED
      BY <1>5, <3>1, <3>2
  <2>2. \A j \in 0..n : f[j] = IF j = 0 THEN e ELSE Turn(f[j - 1], j)
    BY <1>1, <1>6, <2>1, SMTT(30) DEF Loops
  <2> QED
    BY <1>6, <2>2 DEF Loops
<1>8. PICK h : /\ h = [j \in 0..n |-> IF j = 0 THEN e ELSE Turn(h[j - 1], j)]
               /\ AssignedEnv(l, n, e) = h[n]
  BY <1>7 DEF AssignedEnv, Turns, Turn
<1> DEFINE T == {j \in 0..n : h[j] \in A(j)}
<1>9. 0 \in T
  BY <1>1, <1>8
<1>10. ASSUME NEW j \in 1..n, j - 1 \in T
       PROVE  j \in T
  <2>1. j \in 0..n /\ j # 0 /\ h[j - 1] \in A(j - 1)
    BY <1>1, <1>10
  <2>2. h[j] = Turn(h[j - 1], j)
    BY <1>8, <2>1
  <2> QED
    BY <1>5, <2>1, <2>2
<1>11. h[n] \in A(n)
  <2>1. \A j \in 0..n : j \in T
    <3> HIDE DEF T
    <3> QED
      BY <1>1, <1>9, <1>10, UpTo
  <2> QED
    BY <1>1, <2>1
<1> QED
  BY <1>8, <1>11 DEF A

\* The assignments a line begins with, as AssignmentsRead has them.
First(items) ==
  {k \in DOMAIN items : \A j \in 1..k : Word(items[j]) /\ IsAssignment(Text(items[j]))}
Gives(items, k, a) == SubSeq(Text(items[k]), 1, Len(a) + 1) = Append(a, "=")

\* The line is the list m, without variables, and begins with n assignments.
Begins(m, items, n) ==
  /\ m \in Seq(Token) /\ items \in Seq(ItemSet) /\ n = Assignments(m)
  /\ n \in 0..Len(m) /\ n <= Len(items) /\ First(items) = 1..n
  /\ \A k \in 1..n : /\ m[k].value = Text(items[k]) /\ m[k].value \in Seq(Symbol)
                     /\ is_valid_assignment(m[k].value)

LEMMA BeginningIs ==
  ASSUME NEW items \in Seq(ItemSet), Sorted(items), NEW plain \in BOOLEAN, plain = TRUE,
         NEW P, NEW m, Says(m, items, plain, P)
  PROVE  Begins(m, items, Assignments(m))
<1>1. PICK n : n = Assignments(m)
  OBVIOUS
<1>2. m \in Seq(Token) /\ DOMAIN items = 1..Len(items) /\ Len(items) \in Nat /\ Len(m) \in Nat
  BY DEF Says
<1>3. n \in 0..Len(m) /\ \A k \in 1..n : is_valid_assignment(m[k].value)
  BY <1>1, <1>2, AssignmentsBound
<1>4. ASSUME NEW k \in 1..Len(items)
      PROVE  /\ m[k].value = Text(items[k]) /\ m[k].value \in Seq(Symbol)
             /\ (Word(items[k]) /\ IsAssignment(Text(items[k]))) <=> is_valid_assignment(m[k].value)
  <2>1. Agrees(m[k], items[k], plain, P)
    BY DEF Says
  <2>2. PICK v : v = Text(items[k])
    OBVIOUS
  <2>3. items[k] \in ItemSet
    OBVIOUS
  <2>4. v \in Seq(Symbol) /\ m[k].value = v
    BY <2>1, <2>2, <2>3, TextIsTyped DEF Agrees
  <2>5. is_valid_assignment(v) <=> IsAssignment(v)
    BY <2>4, AssignmentIs
  <2>6. IsAssignment(v) => Word(items[k])
    <3> SUFFICES ASSUME IsAssignment(v), ~ Word(items[k])
                 PROVE  FALSE
      OBVIOUS
    <3>1. v \in OpText
      BY <2>2 DEF Sorted, Word
    <3>2. v[1] \in Operator
      BY <3>1, OpTexts
    <3>3. RunLength(v, Name) \in 1..(Len(v) - 1) /\ \A j \in 1..RunLength(v, Name) : v[j] \in Name
      BY <2>4, <2>5, AssignmentIs
    <3>4. 1 \in 1..RunLength(v, Name)
      BY <3>3
    <3> QED
      BY <3>2, <3>3, <3>4, NamesAreNoPunctuation
  <2> QED
    BY <2>2, <2>4, <2>5, <2>6
<1>5. n <= Len(items)
  <2>1. CASE items = <<>>
    <3>1. m = <<>> /\ Len(m) = 0 /\ Len(items) = 0
      BY <2>1 DEF Says
    <3> QED
      BY <1>3, <3>1
  <2>2. CASE items # <<>>
    <3> SUFFICES ASSUME n = Len(items) + 1
                 PROVE  FALSE
      <4>1. Len(m) = Len(items) + 1
        BY <2>2 DEF Says
      <4> QED
        BY <1>2, <1>3, <4>1
    <3>1. m[n].value = NULL /\ n \in 1..n
      BY <1>2, <2>2 DEF Says, Trailing
    <3> QED
      BY <1>3, <3>1, NullAssigns
  <2> QED
    BY <2>1, <2>2
<1>6. First(items) = 1..n
  <2>1. ASSUME NEW k \in 1..n
        PROVE  k \in First(items)
    <3>1. k \in 1..Len(items) /\ \A j \in 1..k : j \in 1..n /\ j \in 1..Len(items)
      BY <1>2, <1>3, <1>5
    <3> QED
      BY <1>2, <1>3, <1>4, <3>1 DEF First
  <2>2. ASSUME NEW k \in First(items)
        PROVE  k \in 1..n
    <3>1. k \in 1..Len(items) /\ \A j \in 1..k : Word(items[j]) /\ IsAssignment(Text(items[j]))
      BY <1>2 DEF First
    <3> SUFFICES ASSUME n < k
                 PROVE  FALSE
      BY <1>3, <3>1
    <3>2. PICK j : j = n + 1
      OBVIOUS
    <3>3. j \in 1..k /\ j \in 1..Len(items) /\ n < Len(items)
      BY <1>2, <1>3, <3>1, <3>2
    <3>4. is_valid_assignment(m[j].value)
      BY <1>4, <3>1, <3>3
    <3>5. n < Len(m)
      <4>1. Len(items) # 0
        BY <1>2, <3>3
      <4>2. items # <<>>
        BY <4>1
      <4>3. Len(m) = Len(items) + 1
        BY <4>2 DEF Says
      <4> QED
        BY <1>2, <1>3, <3>3, <4>3
    <3>6. ~ is_valid_assignment(m[n + 1].value)
      BY <1>1, <1>2, <3>5, AssignmentsEnd
    <3> QED
      BY <3>2, <3>4, <3>6
  <2> QED
    BY <2>1, <2>2
<1>7. \A k \in 1..n : k \in 1..Len(items)
  BY <1>2, <1>3, <1>5
<1> QED
  BY <1>1, <1>2, <1>3, <1>4, <1>5, <1>6, <1>7 DEF Begins

\* The environment behind those assignments.
LEMMA EnvironmentRead ==
  ASSUME NEW m, NEW items, NEW n, Begins(m, items, n), NEW e, EnvOK(e),
         NEW now, now = AssignedEnv(m, n, e)
  PROVE  /\ \A a \in DOMAIN now \ DOMAIN e : \E k \in First(items) : Gives(items, k, a)
         /\ \A a \in DOMAIN e : a \in DOMAIN now
         /\ \A a \in DOMAIN now :
              LET K == {k \in First(items) : Gives(items, k, a)}
              IN now[a] = IF K = {} THEN e[a] ELSE Rest(Text(items[Max(K)]), Len(a) + 2)
<1>1. /\ m \in Seq(Token) /\ n \in 0..Len(m) /\ First(items) = 1..n /\ n \in Nat
      /\ \A k \in 1..n : /\ m[k].value = Text(items[k]) /\ m[k].value \in Seq(Symbol)
                         /\ is_valid_assignment(m[k].value)
  BY DEF Begins
<1>2. Holding(m, e, n, now)
  BY <1>1, AssignedEnvIs
<1>3. EnvOK(now) /\ \A a : a \in DOMAIN now <=> (a \in DOMAIN e \/ \E k \in 1..n : Names(m, k, a))
  BY <1>2 DEF Holding
<1>4. ASSUME NEW k \in 1..n, NEW a \in DOMAIN now
      PROVE  /\ Gives(items, k, a) <=> Names(m, k, a)
             /\ Names(m, k, a) => ValueOf(m[k].value) = Rest(Text(items[k]), Len(a) + 2)
  <2>1. a \in Seq(Name)
    BY <1>3 DEF EnvOK
  <2>2. PICK v \in Seq(Symbol) : v = m[k].value
    BY <1>1
  <2>3. is_valid_assignment(v) /\ Text(items[k]) = v
    BY <1>1, <2>2
  <2>4. /\ SubSeq(v, 1, Len(a) + 1) = Append(a, "=") <=> SubSeq(v, 1, RunLength(v, Name)) = a
        /\ SubSeq(v, 1, RunLength(v, Name)) = a => Len(a) = RunLength(v, Name)
    BY <2>1, <2>3, NameGiven
  <2> QED
    BY <2>2, <2>3, <2>4 DEF Gives, Names, NameOf, ValueOf
<1>5. ASSUME NEW a \in DOMAIN now, NEW K, K = {k \in First(items) : Gives(items, k, a)}
      PROVE  now[a] = IF K = {} THEN e[a] ELSE Rest(Text(items[Max(K)]), Len(a) + 2)
  <2>1. \A k \in 1..n : k \in K <=> Names(m, k, a)
    BY <1>1, <1>4, <1>5
  <2>2. CASE K = {}
    <3>1. \A k \in 1..n : ~ Names(m, k, a)
      BY <2>1, <2>2
    <3>2. now[a] = e[a]
      BY <1>2, <3>1 DEF Holding
    <3> QED
      BY <2>2, <3>2
  <2>3. CASE K # {}
    <3>1. K \in SUBSET (0..n) /\ K \subseteq 1..n
      BY <1>1, <1>5
    <3>2. PICK k : k = Max(K)
      OBVIOUS
    <3>3. k \in K /\ \A h \in K : h <= k
      BY <1>1, <2>3, <3>1, <3>2, MaxIsGreatest
    <3>4. k \in 1..n /\ Names(m, k, a)
      BY <2>1, <3>1, <3>3
    <3>5. \A h \in (k + 1)..n : ~ Names(m, h, a)
      <4> SUFFICES ASSUME NEW h \in (k + 1)..n, Names(m, h, a)
                   PROVE  FALSE
        OBVIOUS
      <4>1. h \in 1..n /\ ~ (h <= k)
        BY <1>1, <3>4
      <4> QED
        BY <2>1, <3>3, <4>1
    <3>6. now[a] = ValueOf(m[k].value)
      BY <1>2, <3>4, <3>5 DEF Holding
    <3>7. ValueOf(m[k].value) = Rest(Text(items[k]), Len(a) + 2)
      BY <1>4, <3>4
    <3> QED
      BY <2>3, <3>2, <3>6, <3>7
  <2> QED
    BY <2>2, <2>3
<1>6. ASSUME NEW a \in DOMAIN now \ DOMAIN e
      PROVE  \E k \in First(items) : Gives(items, k, a)
  <2>1. PICK k \in 1..n : Names(m, k, a)
    BY <1>3
  <2> QED
    BY <1>1, <1>4, <2>1
<1> QED
  BY <1>3, <1>5, <1>6

\* No quote of a line that is not refused is left open, but in the middle of a
\* word, and the environment is what the assignments the line begins with, the
\* last one of a name deciding, make of the one before it: for every line, of
\* whatever length, and every environment.
THEOREM AssignmentsTakeEffect == Spec => []AssignmentsRead
<1>1. ASSUME IInv, OfTheLine, pc = "expand", NEW item \in Range(Items(line)), item.open
      PROVE  item.glued
  <2>1. PICK items : items = Items(line)
    OBVIOUS
  <2>2. line \in Seq(Symbol)
    BY <1>1 DEF IInv, Sound
  <2>3. items \in Seq(ItemSet)
    BY <2>1, <2>2, ItemsTyped
  <2>4. PICK k \in 1..Len(items) : item = items[k]
    <3>1. \E x \in DOMAIN items : item = items[x]
      BY <1>1, <2>1 DEF Range
    <3> QED
      BY <2>3, <3>1
  <2>5. PICK m : HasAssigned(line, before, env, m, Program(session))
    BY <1>1 DEF OfTheLine
  <2>6. PICK plain \in BOOLEAN : plain = FALSE
    OBVIOUS
  <2>7. FromLine(line, before, m, Program(session)) /\ ~ has_parser_error(m) /\ pc # "prompt"
    BY <1>1, <2>5 DEF HasAssigned
  <2>8. Says(m, items, plain, Program(session))
    BY <1>1, <2>1, <2>6, <2>7, Merging
  <2>9. m \in Seq(Token) /\ Agrees(m[k], items[k], plain, Program(session))
    BY <2>8 DEF Says
  <2>10. k \in DOMAIN m
    <3>1. items # <<>> /\ Len(items) \in Nat
      BY <2>3, <2>4
    <3>2. Len(m) = Len(items) + 1
      BY <2>8, <3>1 DEF Says
    <3>3. k \in 1..Len(m)
      BY <2>4, <3>1, <3>2
    <3> QED
      BY <2>9, <3>3
  <2>11. ~ m[k].err
    BY <2>7, <2>10 DEF has_parser_error
  <2> QED
    BY <1>1, <2>4, <2>9, <2>11 DEF Agrees, Ajar
<1>2. ASSUME IInv, OfTheLine, pc \in {"expand", "again", "execute"},
             NEW items, items = Items(line),
             \A item \in Range(items) : Word(item) => ~ Has(item, "$")
      PROVE  /\ \A n \in DOMAIN env \ DOMAIN before : \E k \in First(items) : Gives(items, k, n)
             /\ \A n \in DOMAIN before : n \in DOMAIN env
             /\ \A n \in DOMAIN env :
                  LET K == {k \in First(items) : Gives(items, k, n)}
                  IN env[n] = IF K = {} THEN before[n]
                              ELSE Rest(Text(items[Max(K)]), Len(n) + 2)
  <2>1. line \in Seq(Symbol) /\ line # <<>> /\ EnvOK(before)
    BY <1>2 DEF IInv, Sound, OfTheLine
  <2>2. items \in Seq(ItemSet) /\ Sorted(items)
    BY <1>2, <2>1, ItemsTyped, ItemKinds
  <2>3. PICK plain \in BOOLEAN : plain = TRUE
    OBVIOUS
  <2>4. ASSUME NEW k \in 1..Len(items)
        PROVE  NoDollar(Text(items[k]))
    <3>1. items[k] \in ItemSet
      BY <2>2
    <3>2. PICK v \in Seq(Symbol) : v = Text(items[k])
      BY <3>1, TextIsTyped
    <3>3. CASE Word(items[k])
      <4>1. items[k] \in Range(items)
        BY <2>2 DEF Range
      <4>2. "$" \notin Range(v)
        BY <1>2, <3>2, <3>3, <4>1 DEF Has
      <4>3. DOMAIN v = 1..Len(v)
        OBVIOUS
      <4> QED
        BY <3>2, <4>2, <4>3 DEF NoDollar, Range
    <3>4. CASE ~ Word(items[k])
      <4>1. v \in OpText
        BY <2>2, <3>2, <3>4 DEF Sorted, Word
      <4>2. NoDollar(v)
        BY <4>1 DEF OpText, RedirText, NoDollar
      <4> QED
        BY <3>2, <4>2
    <3> QED
      BY <3>3, <3>4
  <2>5. PICK m : HasAssigned(line, before, env, m, Program(session))
    BY <1>2 DEF OfTheLine
  <2>6. FromLine(line, before, m, Program(session)) /\ env = AssignedEnv(m, Assignments(m), before) /\ pc # "prompt"
    BY <1>2, <2>5 DEF HasAssigned
  <2>7. Says(m, items, plain, Program(session))
    BY <1>2, <2>4, <2>6, Merging
  <2>8. PICK n : n = Assignments(m)
    OBVIOUS
  <2>9. Begins(m, items, n)
    BY <2>2, <2>3, <2>7, <2>8, BeginningIs
  <2>10. PICK e : e = before
    OBVIOUS
  <2>11. PICK now : now = env
    OBVIOUS
  <2>12. now = AssignedEnv(m, n, e) /\ EnvOK(e)
    BY <2>1, <2>6, <2>8, <2>10, <2>11
  <2>13. /\ \A a \in DOMAIN now \ DOMAIN e : \E k \in First(items) : Gives(items, k, a)
         /\ \A a \in DOMAIN e : a \in DOMAIN now
         /\ \A a \in DOMAIN now :
              LET K == {k \in First(items) : Gives(items, k, a)}
              IN now[a] = IF K = {} THEN e[a] ELSE Rest(Text(items[Max(K)]), Len(a) + 2)
    BY <2>9, <2>12, EnvironmentRead
  <2> QED
    BY <2>10, <2>11, <2>13
<1>3. IInv /\ OfTheLine => AssignmentsRead
  BY <1>1, <1>2 DEF AssignmentsRead, First, Gives
<1> QED
  BY <1>3, PassesAgree, PassesFollowLine, PTL
=============================================================================
