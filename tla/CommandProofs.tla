---------------------------- MODULE CommandProofs ----------------------------
(***************************************************************************)
(* What a line runs is what its words ask for.                             *)
(***************************************************************************)
EXTENDS ParserProofs

-----------------------------------------------------------------------------
(* Expansion: what the passes put in the place of a variable is what a     *)
(* reader puts there that collects the name symbol by symbol.              *)

SubSet == [out : Seq(Symbol), on : BOOLEAN, name : Seq(Name)]
Sub(out, on, name) == [out |-> out, on |-> on, name |-> name]

\* No value has a "$" in it.
Calm(e) == \A n \in DOMAIN e : NoDollar(e[n])

LEMMA SubIs ==
  ASSUME NEW x \in SubSet
  PROVE  x = Sub(x.out, x.on, x.name) /\ x.out \in Seq(Symbol) /\ x.on \in BOOLEAN
         /\ x.name \in Seq(Name)
BY DEF SubSet, Sub

LEMMA FlushedIs ==
  ASSUME NEW x \in SubSet, NEW e, EnvOK(e)
  PROVE  Flushed(x, e) \in Seq(Symbol)
<1>1. PICK piece : piece = IF x.name = <<>> THEN <<"$">>
                           ELSE IF x.name \in DOMAIN e THEN e[x.name] ELSE <<>>
  OBVIOUS
<1>2. piece \in Seq(Symbol)
  <2>1. <<"$">> \in Seq(Symbol) /\ <<>> \in Seq(Symbol)
    BY DollarIsText
  <2>2. x.name \in DOMAIN e => e[x.name] \in Seq(Symbol)
    BY DEF EnvOK
  <2> QED
    BY <1>1, <2>1, <2>2
<1>3. x.out \in Seq(Symbol)
  BY SubIs
<1>4. x.out \o piece \in Seq(Symbol)
  BY <1>2, <1>3, ConcatProperties
<1>5. Flushed(x, e) = IF ~ x.on THEN x.out ELSE x.out \o piece
  BY <1>1 DEF Flushed
<1> QED
  BY <1>3, <1>4, <1>5

LEMMA SubstituteIs ==
  ASSUME NEW x \in SubSet, NEW s \in Symbol, NEW e, EnvOK(e)
  PROVE  /\ Substitute(x, s, e) \in SubSet
         /\ s = "$" => Substitute(x, s, e) = Sub(Flushed(x, e), TRUE, <<>>)
         /\ s # "$" /\ x.on /\ s \in Name =>
              Substitute(x, s, e) = Sub(x.out, TRUE, Append(x.name, s))
         /\ s # "$" /\ ~ (x.on /\ s \in Name) =>
              Substitute(x, s, e) = Sub(Append(Flushed(x, e), s), FALSE, <<>>)
<1>1. x = Sub(x.out, x.on, x.name) /\ x.out \in Seq(Symbol) /\ x.on \in BOOLEAN
      /\ x.name \in Seq(Name)
  BY SubIs
<1>2. PICK w \in Seq(Symbol) : w = Flushed(x, e)
  BY FlushedIs
<1>3. CASE s = "$"
  <2>1. Substitute(x, s, e) = Sub(w, TRUE, <<>>)
    BY <1>2, <1>3 DEF Substitute, Sub
  <2>2. Sub(w, TRUE, <<>>) \in SubSet
    BY DEF Sub, SubSet
  <2> QED
    BY <1>2, <1>3, <2>1, <2>2
<1>4. CASE s # "$" /\ x.on /\ s \in Name
  <2>1. Substitute(x, s, e) = [x EXCEPT !.name = Append(@, s)]
    BY <1>4 DEF Substitute
  <2>2. Substitute(x, s, e) = Sub(x.out, TRUE, Append(x.name, s))
    BY <1>1, <1>4, <2>1 DEF Sub
  <2>3. Append(x.name, s) \in Seq(Name)
    BY <1>1, <1>4
  <2>4. Sub(x.out, TRUE, Append(x.name, s)) \in SubSet
    BY <1>1, <2>3 DEF Sub, SubSet
  <2> QED
    BY <1>4, <2>2, <2>4
<1>5. CASE s # "$" /\ ~ (x.on /\ s \in Name)
  <2>1. Substitute(x, s, e) = Sub(Append(w, s), FALSE, <<>>)
    BY <1>2, <1>5 DEF Substitute, Sub
  <2>2. Append(w, s) \in Seq(Symbol)
    OBVIOUS
  <2>3. Sub(Append(w, s), FALSE, <<>>) \in SubSet
    BY <2>2 DEF Sub, SubSet
  <2> QED
    BY <1>2, <1>5, <2>1, <2>3
<1> QED
  BY <1>3, <1>4, <1>5

\* The reader, before and after every symbol.
SubsOf(v, e) ==
  {W \in [0..Len(v) -> SubSet] :
     /\ W[0] = Sub(<<>>, FALSE, <<>>)
     /\ \A k \in 1..Len(v) : W[k] = Substitute(W[k - 1], v[k], e)}

LEMMA SubsExist ==
  ASSUME NEW v \in Seq(Symbol), NEW e, EnvOK(e)
  PROVE  \E W \in SubsOf(v, e) : Interpolated(v, e) = Flushed(W[Len(v)], e)
<1> DEFINE n == Len(v)
           I == [j \in 0..n |-> SubSet]
           x == Sub(<<>>, FALSE, <<>>)
           g == [p \in SubSet \X (1..n) |-> Substitute(p[1], v[p[2]], e)]
<1>1. n \in Nat
  OBVIOUS
<1>2. x \in SubSet
  BY DEF Sub, SubSet
<1>3. \A j \in 0..n : I[j] = SubSet
  OBVIOUS
<1>4. \A j \in 1..n : j \in 0..n /\ j - 1 \in 0..n
  BY <1>1
<1>5. \A j \in 1..n : \A y \in SubSet :
        g[<<y, j>>] = Substitute(y, v[j], e) /\ Substitute(y, v[j], e) \in SubSet
  <2>1. \A y \in SubSet : \A j \in 1..n : g[<<y, j>>] = Substitute(y, v[j], e)
    OBVIOUS
  <2>2. ASSUME NEW j \in 1..n, NEW y \in SubSet
        PROVE  Substitute(y, v[j], e) \in SubSet
    <3>1. PICK s \in Symbol : s = v[j]
      OBVIOUS
    <3>2. Substitute(y, s, e) \in SubSet
      BY SubstituteIs
    <3> QED
      BY <3>1, <3>2
  <2> QED
    BY <2>1, <2>2
<1>b. 0 \in 0..n /\ n \in 0..n
  BY <1>1
<1> HIDE DEF I, g, x, n
<1>6. PICK f : f \in Loops(SubSet, n, I, x, g)
  <2>1. x \in I[0] /\ \A j \in 0..n : I[j] \subseteq SubSet
    BY <1>2, <1>3, <1>b
  <2>2. \A j \in 1..n : \A y \in I[j - 1] : g[<<y, j>>] \in I[j]
    <3> SUFFICES ASSUME NEW j \in 1..n, NEW y \in I[j - 1]
                 PROVE  g[<<y, j>>] \in I[j]
      OBVIOUS
    <3>1. y \in SubSet /\ I[j] = SubSet
      BY <1>3, <1>4
    <3> QED
      BY <1>5, <3>1
  <2> QED
    BY <1>1, <2>1, <2>2, Iterates
<1>7. f = [j \in 0..n |-> IF j = 0 THEN x ELSE Substitute(f[j - 1], v[j], e)]
  <2>1. \A j \in 1..n : f[j] = Substitute(f[j - 1], v[j], e)
    BY <1>3, <1>4, <1>5, <1>6 DEF Loops
  <2>2. \A j \in 0..n : f[j] = IF j = 0 THEN x ELSE Substitute(f[j - 1], v[j], e)
    BY <1>1, <1>6, <2>1 DEF Loops
  <2> QED
    BY <1>6, <2>2 DEF Loops
<1>8. PICK W : /\ W = [j \in 0..n |-> IF j = 0 THEN x ELSE Substitute(W[j - 1], v[j], e)]
               /\ Turns(LAMBDA y, p : Substitute(y, v[p], e), x, n) = W[n]
  BY <1>7 DEF Turns
<1>9. \A j \in 0..n : W[j] = IF j = 0 THEN x ELSE Substitute(W[j - 1], v[j], e)
  BY <1>8
<1> DEFINE T == {j \in 0..n : W[j] \in SubSet}
<1>10. 0 \in T
  BY <1>2, <1>9, <1>b
<1>11. ASSUME NEW j \in 1..n, j - 1 \in T
       PROVE  j \in T
  <2>1. j \in 0..n /\ j # 0 /\ W[j - 1] \in SubSet
    BY <1>1, <1>11
  <2>2. W[j] = Substitute(W[j - 1], v[j], e)
    BY <1>9, <2>1
  <2> QED
    BY <1>5, <2>1, <2>2
<1>12. \A j \in 0..n : W[j] \in SubSet
  <2>1. \A j \in 0..n : j \in T
    <3> HIDE DEF T
    <3> QED
      BY <1>1, <1>10, <1>11, UpTo
  <2> QED
    BY <2>1
<1>13. W \in SubsOf(v, e)
  <2>1. W \in [0..n -> SubSet]
    BY <1>8, <1>12
  <2>2. W[0] = Sub(<<>>, FALSE, <<>>)
    BY <1>9, <1>b DEF x
  <2>3. \A j \in 1..n : W[j] = Substitute(W[j - 1], v[j], e)
    <3>1. \A j \in 1..n : j \in 0..n /\ j # 0
      BY <1>1
    <3> QED
      BY <1>9, <3>1
  <2> QED
    BY <2>1, <2>2, <2>3 DEF SubsOf, n
<1>14. Interpolated(v, e) = Flushed(W[n], e)
  BY <1>8 DEF Interpolated, x, n, Sub
<1> QED
  BY <1>13, <1>14 DEF n

\* Behind a "$" the reader collects a name.
NameBehind(v, W, e, a, m) ==
  /\ a \in 1..Len(v) /\ v[a] = "$" /\ m \in Nat /\ a + m <= Len(v)
  /\ \A k \in 1..m : v[a + k] \in Name
NameTaken(v, W, e, a, m) ==
  W[a + m] = Sub(Flushed(W[a - 1], e), TRUE, SubSeq(v, a + 1, a + m))

LEMMA NameRead ==
  ASSUME NEW v \in Seq(Symbol), NEW e, EnvOK(e), NEW W \in SubsOf(v, e),
         NEW a, NEW m, NameBehind(v, W, e, a, m)
  PROVE  NameTaken(v, W, e, a, m)
<1> USE DEF NameBehind, NameTaken
<1>0. a \in Nat /\ a >= 1 /\ Len(v) \in Nat
  OBVIOUS
<1>1. PICK w : w = Flushed(W[a - 1], e)
  OBVIOUS
<1>2. ASSUME NEW k \in 1..Len(v)
      PROVE  W[k - 1] \in SubSet /\ W[k] = Substitute(W[k - 1], v[k], e) /\ v[k] \in Symbol
  <2>1. k - 1 \in 0..Len(v)
    OBVIOUS
  <2>2. W \in [0..Len(v) -> SubSet] /\ \A j \in 1..Len(v) : W[j] = Substitute(W[j - 1], v[j], e)
    BY DEF SubsOf
  <2>3. W[k - 1] \in SubSet
    BY <2>1, <2>2
  <2>4. W[k] = Substitute(W[k - 1], v[k], e)
    BY <2>2
  <2>5. v[k] \in Symbol
    OBVIOUS
  <2> QED
    BY <2>3, <2>4, <2>5
<1> DEFINE T == {k \in 0..m : W[a + k] = Sub(w, TRUE, SubSeq(v, a + 1, a + k))}
<1>3. 0 \in T
  <2>1. PICK x \in SubSet : x = W[a - 1]
    BY <1>2
  <2>2. PICK s \in Symbol : s = v[a]
    BY <1>2
  <2>3. Substitute(x, s, e) = Sub(Flushed(x, e), TRUE, <<>>)
    BY <2>2, SubstituteIs
  <2>4. SubSeq(v, a + 1, a) = <<>>
    BY <1>0, SubSeqEmpty
  <2>5. a + 0 = a /\ 0 \in 0..m
    BY <1>0
  <2> QED
    BY <1>1, <1>2, <2>1, <2>2, <2>3, <2>4, <2>5
<1>4. ASSUME NEW k \in 1..m, k - 1 \in T
      PROVE  k \in T
  <2>1. PICK b : b = a + k
    OBVIOUS
  <2>2. b \in 1..Len(v) /\ b - 1 = a + (k - 1) /\ a + 1 \in 1..Len(v) /\ b \in (a + 1)..Len(v)
        /\ k \in 0..m
    BY <1>0, <2>1
  <2>3. W[b - 1] = Sub(w, TRUE, SubSeq(v, a + 1, b - 1))
    BY <1>4, <2>2
  <2>4. PICK x \in SubSet : x = W[b - 1]
    BY <1>2, <2>2
  <2>5. PICK s \in Symbol : s = v[b]
    BY <1>2, <2>2
  <2>6. s \in Name /\ s # "$"
    BY <2>1, <2>5, NamesAreNoPunctuation
  <2>7. x.on /\ x.out = w /\ x.name = SubSeq(v, a + 1, b - 1)
    <3>1. PICK name : name = SubSeq(v, a + 1, b - 1)
      OBVIOUS
    <3>2. x = Sub(w, TRUE, name)
      BY <2>3, <2>4, <3>1
    <3> QED
      BY <3>1, <3>2 DEF Sub
  <2>8. Substitute(x, s, e) = Sub(w, TRUE, Append(x.name, s))
    BY <2>6, <2>7, SubstituteIs
  <2>9. SubSeq(v, a + 1, b) = Append(x.name, s)
    <3>1. PICK c : c = a + 1
      OBVIOUS
    <3>2. SubSeq(v, c, b) = SubSeq(v, c, b - 1) \o <<v[b]>>
      BY <2>2, <3>1, PieceMore
    <3>3. x.name \in Seq(Name)
      BY SubIs
    <3>4. Append(x.name, s) = x.name \o <<s>>
      BY <2>6, <3>3, AppendIsConcat
    <3> QED
      BY <2>5, <2>7, <3>1, <3>2, <3>4
  <2>10. W[b] = Substitute(x, s, e)
    BY <1>2, <2>2, <2>4, <2>5
  <2> QED
    BY <2>1, <2>2, <2>8, <2>9, <2>10
<1>5. m \in T
  <2>1. m \in 0..m
    OBVIOUS
  <2> HIDE DEF T
  <2> QED
    BY <1>3, <1>4, <2>1, UpTo
<1> QED
  BY <1>1, <1>5
\* The run of S behind the place p is a name.
Named(v, p, S) ==
  /\ RunLength(Rest(v, p + 1), S) = RunLength(Rest(v, p + 1), Name)
  /\ RunLength(Rest(v, p + 1), Name) > 0
AllNamed(v, S) == \A p \in 1..Len(v) : v[p] = "$" => Named(v, p, S)

\* The expansion x is where the reader is behind that many symbols.
Abreast(v, W, e, x) ==
  /\ x.at \in 1..(Len(v) + 1)
  /\ x.text \in Seq(Symbol) /\ x.text = Flushed(W[x.at - 1], e) /\ NoDollar(x.text)
  /\ W[x.at - 1].on /\ x.at <= Len(v) => v[x.at] \notin Name
Moved(v, S, lone, e, x, y) == NextPiece(v, S, lone, e, x) = y

LEMMA NoDollarJoined ==
  ASSUME NEW u \in Seq(Symbol), NEW v \in Seq(Symbol), NoDollar(u), NoDollar(v)
  PROVE  NoDollar(u \o v) /\ u \o v \in Seq(Symbol)
<1>1. /\ u \o v \in Seq(Symbol) /\ Len(u \o v) = Len(u) + Len(v)
      /\ \A p \in 1..(Len(u) + Len(v)) :
           (u \o v)[p] = IF p <= Len(u) THEN u[p] ELSE v[p - Len(u)]
  BY ConcatProperties
<1>2. PICK w : w = u \o v
  OBVIOUS
<1>3. ASSUME NEW p \in 1..Len(w)
      PROVE  w[p] # "$"
  <2>1. PICK a \in Nat : a = Len(u)
    OBVIOUS
  <2>2. PICK b \in Nat : b = Len(v)
    OBVIOUS
  <2>3. p \in 1..(a + b) /\ w[p] = IF p <= a THEN u[p] ELSE v[p - a]
    BY <1>1, <1>2, <2>1, <2>2
  <2>4. CASE p <= a
    <3>1. p \in 1..a
      BY <2>3, <2>4
    <3> QED
      BY <2>1, <2>3, <2>4, <3>1 DEF NoDollar
  <2>5. CASE ~ (p <= a)
    <3>1. p - a \in 1..b
      BY <2>1, <2>2, <2>3, <2>5
    <3> QED
      BY <2>2, <2>3, <2>5, <3>1 DEF NoDollar
  <2> QED
    BY <2>4, <2>5
<1> QED
  BY <1>1, <1>2, <1>3 DEF NoDollar

LEMMA NoDollarMore ==
  ASSUME NEW u \in Seq(Symbol), NoDollar(u), NEW s \in Symbol, s # "$"
  PROVE  NoDollar(Append(u, s)) /\ Append(u, s) \in Seq(Symbol)
<1>1. PICK w : w = <<s>>
  OBVIOUS
<1>2. w \in Seq(Symbol) /\ Len(w) = 1 /\ w[1] = s
  BY <1>1
<1>3. NoDollar(w)
  BY <1>2 DEF NoDollar
<1>4. Append(u, s) = u \o w
  BY <1>1, AppendIsConcat
<1> QED
  BY <1>2, <1>3, <1>4, NoDollarJoined

LEMMA GivenIs ==
  ASSUME NEW e, EnvOK(e), Calm(e), NEW name
  PROVE  get_envar(e, name) \in Seq(Symbol) /\ NoDollar(get_envar(e, name))
<1>1. NoDollar(<<>>) /\ <<>> \in Seq(Symbol)
  BY DEF NoDollar
<1> QED
  BY <1>1 DEF get_envar, EnvOK, Calm

\* One turn of the expansion, and the symbols it goes over.
LEMMA ExpandStep ==
  ASSUME NEW v \in Seq(Symbol), NEW S, NEW lone, NEW e, EnvOK(e), Calm(e), AllNamed(v, S),
         NEW W \in SubsOf(v, e), NEW x \in [at : Nat \ {0}, text : Seq(Symbol)],
         Abreast(v, W, e, x), x.at <= Len(v)
  PROVE  \E y \in [at : Nat \ {0}, text : Seq(Symbol)] :
           Moved(v, S, lone, e, x, y) /\ Abreast(v, W, e, y) /\ y.at >= x.at + 1
<1>1. PICK a \in Nat : a = x.at
  OBVIOUS
<1>2. PICK n \in Nat : n = Len(v)
  OBVIOUS
<1>3. a \in 1..n /\ a - 1 \in 0..n
  BY <1>1, <1>2
<1>4. PICK s \in Symbol : s = v[a]
  BY <1>2, <1>3
<1>5. PICK w \in SubSet : w = W[a - 1]
  BY <1>2, <1>3 DEF SubsOf
<1>6. PICK t : t = x.text
  OBVIOUS
<1>7. /\ t \in Seq(Symbol) /\ t = Flushed(w, e) /\ NoDollar(t)
      /\ w.on => s \notin Name
  BY <1>1, <1>2, <1>3, <1>4, <1>5, <1>6 DEF Abreast
<1>8. CASE s # "$"
  <2>1. PICK u : u = Append(t, s)
    OBVIOUS
  <2>2. u \in Seq(Symbol) /\ NoDollar(u)
    BY <1>7, <1>8, <2>1, NoDollarMore
  <2>3. PICK y : y = [at |-> a + 1, text |-> u]
    OBVIOUS
  <2>4. y \in [at : Nat \ {0}, text : Seq(Symbol)] /\ y.at = a + 1 /\ y.text = u
    BY <2>2, <2>3
  <2>5. Moved(v, S, lone, e, x, y)
    <3>1. ~ (x.at > Len(v)) /\ v[x.at] # "$"
      BY <1>1, <1>2, <1>3, <1>4, <1>8
    <3>2. NextPiece(v, S, lone, e, x) = [at |-> x.at + 1, text |-> Append(x.text, v[x.at])]
      BY <3>1 DEF NextPiece
    <3> QED
      BY <1>1, <1>4, <1>6, <2>1, <2>3, <3>2 DEF Moved
  <2>6. W[a] = Sub(u, FALSE, <<>>)
    <3>1. Substitute(w, s, e) = Sub(Append(Flushed(w, e), s), FALSE, <<>>)
      BY <1>7, <1>8, SubstituteIs
    <3>2. W[a] = Substitute(W[a - 1], v[a], e)
      BY <1>2, <1>3 DEF SubsOf
    <3> QED
      BY <1>4, <1>5, <1>7, <2>1, <3>1, <3>2
  <2>7. Abreast(v, W, e, y)
    <3>1. y.at - 1 = a /\ y.at \in 1..(n + 1)
      BY <1>3, <2>4
    <3>2. ~ W[a].on /\ W[a].out = u
      BY <2>6 DEF Sub
    <3>3. Flushed(W[a], e) = u
      BY <3>2 DEF Flushed
    <3> QED
      BY <1>2, <2>2, <2>4, <3>1, <3>2, <3>3 DEF Abreast
  <2> QED
    BY <1>1, <2>4, <2>5, <2>7
<1>9. CASE s = "$"
  <2>1. PICK z : z = Rest(v, a + 1)
    OBVIOUS
  <2>2. /\ z \in Seq(Symbol) /\ Len(z) = n - a
        /\ \A j \in 1..(n - a) : z[j] = v[a + j]
    <3>1. a + 1 \in 1..(n + 1) /\ n - (a + 1) + 1 = n - a
      BY <1>3
    <3>2. \A j \in 1..(n - a) : (a + 1) + j - 1 = a + j
      BY <1>3
    <3>3. PICK c \in 1..(Len(v) + 1) : c = a + 1
      BY <1>2, <3>1
    <3>4. /\ Rest(v, c) \in Seq(Symbol) /\ Len(Rest(v, c)) = Len(v) - c + 1
          /\ \A j \in 1..(Len(v) - c + 1) : Rest(v, c)[j] = v[c + j - 1]
      BY RestIs
    <3> QED
      BY <1>2, <2>1, <3>1, <3>2, <3>3, <3>4
  <2>3. RunLength(z, S) = RunLength(z, Name) /\ RunLength(z, Name) > 0
    BY <1>2, <1>3, <1>4, <1>9, <2>1 DEF AllNamed, Named
  <2>4. PICK m : m = RunLength(z, Name)
    OBVIOUS
  <2>5. /\ m \in 0..(n - a) /\ m > 0 /\ \A k \in 1..m : z[k] \in Name
        /\ m < n - a => z[m + 1] \notin Name
    BY <2>2, <2>3, <2>4, RunLengthIs
  <2>6. m \in Nat /\ a + m <= n /\ a + 1 \in 1..(n + 1) /\ a + m \in a..n
    BY <1>3, <2>5
  <2>7. \A k \in 1..m : v[a + k] \in Name
    <3>1. \A k \in 1..m : k \in 1..(n - a)
      BY <1>3, <2>5
    <3> QED
      BY <2>2, <2>5, <3>1
  <2>8. PICK name : name = SubSeq(v, a + 1, a + m)
    OBVIOUS
  <2>9. W[a + m] = Sub(t, TRUE, name)
    <3>1. NameBehind(v, W, e, a, m)
      BY <1>2, <1>3, <1>4, <1>9, <2>6, <2>7 DEF NameBehind
    <3>2. NameTaken(v, W, e, a, m)
      BY <3>1, NameRead
    <3> QED
      BY <1>5, <1>7, <2>8, <3>2 DEF NameTaken
  <2>10. name # <<>>
    <3>1. a + m \in ((a + 1) - 1)..Len(v) /\ (a + m) - (a + 1) + 1 = m
      BY <1>2, <1>3, <2>6
    <3>2. Len(name) = m
      BY <1>2, <2>6, <2>8, <3>1, PieceIs
    <3> QED
      BY <2>5, <3>2
  <2>11. PICK r : r = get_envar(e, name)
    OBVIOUS
  <2>12. r \in Seq(Symbol) /\ NoDollar(r)
    BY <2>11, GivenIs
  <2>13. PICK u : u = t \o r
    OBVIOUS
  <2>14. u \in Seq(Symbol) /\ NoDollar(u)
    BY <1>7, <2>12, <2>13, NoDollarJoined
  <2>15. PICK b \in Nat : b = a + m
    BY <2>6
  <2>16. PICK y : y = [at |-> b + 1, text |-> u]
    OBVIOUS
  <2>17. y \in [at : Nat \ {0}, text : Seq(Symbol)] /\ y.at = b + 1 /\ y.text = u
    BY <2>14, <2>16
  <2>18. Moved(v, S, lone, e, x, y)
    <3>1. ~ (x.at > Len(v)) /\ v[x.at] = "$"
      BY <1>1, <1>2, <1>3, <1>4, <1>9
    <3>2. RunLength(Rest(v, x.at + 1), S) = m
      BY <1>1, <2>1, <2>3, <2>4
    <3>3. NextPiece(v, S, lone, e, x) =
            [at |-> x.at + m + 1,
             text |-> x.text \o (IF m = 0 THEN lone ELSE get_envar(e, SubSeq(v, x.at + 1, x.at + m)))]
      BY <3>1, <3>2 DEF NextPiece
    <3>4. m # 0
      BY <2>5
    <3>5. NextPiece(v, S, lone, e, x) = [at |-> a + m + 1, text |-> t \o r]
      BY <1>1, <1>6, <2>8, <2>11, <3>3, <3>4
    <3> QED
      BY <2>13, <2>15, <2>16, <3>5 DEF Moved
  <2>19. Flushed(W[b], e) = u
    <3>1. PICK c : c = W[b]
      OBVIOUS
    <3>2. c.out = t /\ c.on /\ c.name = name
      BY <2>9, <2>15, <3>1 DEF Sub
    <3> QED
      BY <2>10, <2>11, <2>13, <3>1, <3>2 DEF Flushed, get_envar
  <2>20. Abreast(v, W, e, y)
    <3>1. y.at - 1 = b /\ y.at \in 1..(n + 1)
      BY <2>6, <2>15, <2>17
    <3>2. y.at <= n => v[y.at] \notin Name
      <4> SUFFICES ASSUME y.at <= n
                   PROVE  v[y.at] \notin Name
        OBVIOUS
      <4>1. m < n - a /\ m + 1 \in 1..(n - a) /\ a + (m + 1) = b + 1
        BY <1>3, <2>5, <2>15, <2>17
      <4> QED
        BY <2>2, <2>5, <2>17, <4>1
    <3> QED
      BY <1>2, <2>14, <2>17, <2>19, <3>1, <3>2 DEF Abreast
  <2>21. y.at >= a + 1
    BY <2>5, <2>15, <2>17
  <2> QED
    BY <1>1, <2>17, <2>18, <2>20, <2>21
<1> QED
  BY <1>8, <1>9

\* What a pass replaces is what the reader replaces, when a name is behind
\* every "$" and the pass takes that name.
LEMMA ExpandReads ==
  ASSUME NEW v \in Seq(Symbol), NEW S, NEW lone, NEW e, EnvOK(e), Calm(e), AllNamed(v, S)
  PROVE  /\ Expand(v, S, lone, e) = Interpolated(v, e)
         /\ Interpolated(v, e) \in Seq(Symbol) /\ NoDollar(Interpolated(v, e))
<1>0. PICK W \in SubsOf(v, e) : Interpolated(v, e) = Flushed(W[Len(v)], e)
  BY SubsExist
<1> DEFINE n == Len(v)
           U == [at : Nat \ {0}, text : Seq(Symbol)]
           A(j) == {y \in U : Abreast(v, W, e, y) /\ y.at >= j + 1}
           I == [j \in 0..n |-> A(j)]
           x == [at |-> 1, text |-> <<>>]
           Turn(y) == NextPiece(v, S, lone, e, y)
           g == [p \in U \X (1..n) |-> Turn(p[1])]
<1>1. n \in Nat
  OBVIOUS
<1>2. x \in A(0)
  <2>0. <<>> \in Seq(Symbol)
    OBVIOUS
  <2>1. PICK t : t = <<>>
    OBVIOUS
  <2>2. x \in U /\ x.at = 1 /\ x.text = t
    <3>1. x.at = 1 /\ x.text = <<>>
      OBVIOUS
    <3>2. x \in U
      OBVIOUS
    <3> HIDE DEF x, U
    <3> QED
      BY <2>1, <3>1, <3>2
  <2>3. NoDollar(t)
    BY <2>1 DEF NoDollar
  <2>4. PICK w : w = W[0]
    OBVIOUS
  <2>5. w = Sub(<<>>, FALSE, <<>>)
    BY <2>4 DEF SubsOf
  <2>6. ~ w.on /\ Flushed(w, e) = t
    BY <2>1, <2>5 DEF Sub, Flushed
  <2> HIDE DEF x, U
  <2>7. x.at - 1 = 0 /\ x.at \in 1..(Len(v) + 1) /\ x.at >= 0 + 1
    BY <1>1, <2>2
  <2>8. Abreast(v, W, e, x)
    BY <2>0, <2>1, <2>2, <2>3, <2>4, <2>6, <2>7 DEF Abreast
  <2> QED
    BY <2>2, <2>7, <2>8
<1>3. ASSUME NEW j \in 1..n, NEW y \in A(j - 1)
      PROVE  y \in U /\ Turn(y) \in A(j)
  <2>1. y \in U /\ Abreast(v, W, e, y) /\ y.at >= (j - 1) + 1
    OBVIOUS
  <2>2. PICK a \in Nat : a = y.at
    OBVIOUS
  <2>3. CASE a > n
    <3>1. Turn(y) = y
      BY <2>2, <2>3 DEF NextPiece
    <3>2. a >= j + 1
      BY <1>1, <2>3
    <3> HIDE DEF Turn, U
    <3> QED
      BY <2>1, <2>2, <3>1, <3>2
  <2>4. CASE ~ (a > n)
    <3>1. y.at <= Len(v)
      BY <1>1, <2>2, <2>4
    <3>2. PICK z \in [at : Nat \ {0}, text : Seq(Symbol)] :
            Moved(v, S, lone, e, y, z) /\ Abreast(v, W, e, z) /\ z.at >= y.at + 1
      BY <2>1, <3>1, ExpandStep
    <3>3. Turn(y) = z
      BY <3>2 DEF Moved
    <3>4. z.at >= j + 1
      <4>1. PICK b \in Nat : b = z.at
        OBVIOUS
      <4>2. a >= (j - 1) + 1 /\ b >= a + 1
        BY <2>1, <2>2, <3>2, <4>1
      <4>3. b >= j + 1
        BY <4>2
      <4> QED
        BY <4>1, <4>3
    <3>5. z \in U
      OBVIOUS
    <3> HIDE DEF Turn, U
    <3> QED
      BY <2>1, <3>2, <3>3, <3>4, <3>5
  <2> HIDE DEF Turn, U
  <2> QED
    BY <2>3, <2>4
<1>4. \A j \in 0..n : I[j] = A(j) /\ A(j) \subseteq U
  OBVIOUS
<1>5. \A j \in 1..n : \A y \in A(j - 1) :
        y \in U /\ g[<<y, j>>] = Turn(y) /\ Turn(y) \in A(j)
  <2>1. \A y \in U : \A j \in 1..n : g[<<y, j>>] = Turn(y)
    OBVIOUS
  <2> HIDE DEF Turn, U, g, A
  <2> QED
    BY <1>3, <2>1
<1>a. \A j \in 1..n : j \in 0..n /\ j - 1 \in 0..n
  BY <1>1
<1>b. 0 \in 0..n /\ n \in 0..n
  BY <1>1
<1> HIDE DEF A, I, g, x, n, U, Turn
<1>6. PICK f : f \in Loops(U, n, I, x, g)
  <2>1. x \in I[0] /\ \A j \in 0..n : I[j] \subseteq U
    BY <1>2, <1>4, <1>b
  <2>2. \A j \in 1..n : \A y \in I[j - 1] : g[<<y, j>>] \in I[j]
    BY <1>4, <1>5, <1>a
  <2> QED
    BY <1>1, <2>1, <2>2, Iterates
<1>7. f = [j \in 0..n |-> IF j = 0 THEN x ELSE Turn(f[j - 1])]
  <2>1. \A j \in 1..n : f[j] = Turn(f[j - 1])
    BY <1>4, <1>5, <1>6, <1>a DEF Loops
  <2>2. \A j \in 0..n : f[j] = IF j = 0 THEN x ELSE Turn(f[j - 1])
    BY <1>1, <1>6, <2>1 DEF Loops
  <2> QED
    BY <1>6, <2>2 DEF Loops
<1>8. PICK h : /\ h = [j \in 0..n |-> IF j = 0 THEN x ELSE Turn(h[j - 1])]
               /\ Expand(v, S, lone, e) = h[n].text
  BY <1>7 DEF Expand, Turns, n, x, Turn
<1> DEFINE T == {j \in 0..n : h[j] \in A(j)}
<1>9. 0 \in T
  BY <1>2, <1>8, <1>b
<1>10. ASSUME NEW j \in 1..n, j - 1 \in T
       PROVE  j \in T
  <2>1. j \in 0..n /\ j # 0 /\ h[j - 1] \in A(j - 1)
    BY <1>1, <1>10
  <2>2. h[j] = Turn(h[j - 1])
    BY <1>8, <2>1
  <2> QED
    BY <1>5, <2>1, <2>2
<1>11. h[n] \in A(n)
  <2>1. \A j \in 0..n : j \in T
    <3> HIDE DEF T
    <3> QED
      BY <1>1, <1>9, <1>10, UpTo
  <2> QED
    BY <1>b, <2>1
<1>12. PICK y : y = h[n]
  OBVIOUS
<1>13. y \in U /\ Abreast(v, W, e, y) /\ y.at >= n + 1
  BY <1>11, <1>12 DEF A
<1>14. y.at - 1 = n
  <2>1. y.at \in 1..(n + 1)
    BY <1>13 DEF Abreast, n
  <2> QED
    BY <1>1, <1>13, <2>1
<1>15. y.text \in Seq(Symbol) /\ y.text = Flushed(W[n], e) /\ NoDollar(y.text)
  BY <1>13, <1>14 DEF Abreast
<1> QED
  BY <1>0, <1>8, <1>12, <1>15 DEF n

\* A text with no "$" in it stays as it is.
LEMMA PlainStays ==
  ASSUME NEW v \in Seq(Symbol), NEW e, EnvOK(e), Calm(e), NoDollar(v)
  PROVE  Interpolated(v, e) = v
<1>1. AllNamed(v, Name)
  BY DEF AllNamed, NoDollar
<1>2. <<>> \in Seq(Symbol)
  OBVIOUS
<1>3. Expand(v, Name, <<>>, e) = v
  BY <1>2, ExpandIs
<1>4. Expand(v, Name, <<>>, e) = Interpolated(v, e)
  BY <1>1, ExpandReads
<1> QED
  BY <1>3, <1>4

\* The name behind a "$" that stands bare is the one the pass takes.
BareNames(v) == \A p \in 1..Len(v) : v[p] = "$" => RunLength(Rest(v, p + 1), Name) > 0
QuotedNames(v) == \A p \in 1..Len(v) : v[p] = "$" => EndsName(v, p)

LEMMA BareReads ==
  ASSUME NEW v \in Seq(Symbol), NEW e, EnvOK(e), Calm(e), BareNames(v)
  PROVE  expand_variables(v, e) = Interpolated(v, e)
         /\ Interpolated(v, e) \in Seq(Symbol) /\ NoDollar(Interpolated(v, e))
<1>1. AllNamed(v, Name)
  BY DEF BareNames, AllNamed, Named
<1> QED
  BY <1>1, ExpandReads DEF expand_variables

\* What all of a run is in, and nothing behind it, is the run.
LEMMA RunIs ==
  ASSUME NEW X, NEW s \in Seq(X), NEW S, NEW m \in 0..Len(s),
         \A k \in 1..m : s[k] \in S, m < Len(s) => s[m + 1] \notin S
  PROVE  RunLength(s, S) = m
<1>1. PICK r : r = RunLength(s, S)
  OBVIOUS
<1>2. PICK n \in Nat : n = Len(s)
  OBVIOUS
<1>3. /\ r \in 0..n /\ \A k \in 1..r : s[k] \in S
      /\ r < n => s[r + 1] \notin S
  BY <1>1, <1>2, RunLengthIs
<1>4. m \in 0..n /\ m < n => s[m + 1] \notin S
  BY <1>2
<1>5. ~ (r < m)
  <2> SUFFICES ASSUME r < m
               PROVE  FALSE
    OBVIOUS
  <2>1. r + 1 \in 1..m /\ r < n
    BY <1>2, <1>3
  <2> QED
    BY <1>3, <2>1
<1>6. ~ (m < r)
  <2> SUFFICES ASSUME m < r
               PROVE  FALSE
    OBVIOUS
  <2>1. m + 1 \in 1..r /\ m < n
    BY <1>2, <1>3
  <2> QED
    BY <1>2, <1>3, <1>4, <2>1
<1> QED
  BY <1>1, <1>2, <1>3, <1>5, <1>6

LEMMA QuotedReads ==
  ASSUME NEW v \in Seq(Symbol), NEW e, EnvOK(e), Calm(e), QuotedNames(v)
  PROVE  quote_handler_cpy(v, e) = Interpolated(v, e)
         /\ Interpolated(v, e) \in Seq(Symbol) /\ NoDollar(Interpolated(v, e))
<1> DEFINE S == Symbol \ {Space, "'", "$"}
<1>1. ASSUME NEW p \in 1..Len(v), v[p] = "$"
      PROVE  Named(v, p, S) /\ \E j \in 1..Len(v) : j # p /\ v[j] # Space
  <2>1. PICK n \in Nat : n = Len(v)
    OBVIOUS
  <2>2. PICK c \in 1..(Len(v) + 1) : c = p + 1
    OBVIOUS
  <2>3. PICK z : z = Rest(v, c)
    OBVIOUS
  <2>4. /\ z \in Seq(Symbol) /\ Len(z) = n - p
        /\ \A j \in 1..(n - p) : z[j] = v[p + j]
    <3>1. /\ z \in Seq(Symbol) /\ Len(z) = n - c + 1
          /\ \A j \in 1..(n - c + 1) : z[j] = v[c + j - 1]
      BY <2>1, <2>3, RestIs
    <3>2. n - c + 1 = n - p /\ \A j \in 1..(n - p) : c + j - 1 = p + j
      BY <2>1, <2>2
    <3> QED
      BY <3>1, <3>2
  <2>5. PICK m : m = RunLength(z, Name)
    OBVIOUS
  <2>6. m \in 0..(n - p) /\ \A k \in 1..m : z[k] \in Name
    BY <2>1, <2>4, <2>5, RunLengthIs
  <2>7. m > 0 /\ (p + m = n \/ v[p + m + 1] \in {Space, "'", "$"})
    BY <1>1, <2>1, <2>2, <2>3, <2>5 DEF QuotedNames, EndsName
  <2>8. \A k \in 1..m : z[k] \in S
    <3>1. \A s \in Name : s \in S
      BY NamesAreNoPunctuation DEF Symbol, Quote, Space
    <3> HIDE DEF S
    <3> QED
      BY <2>6, <3>1
  <2>9. m < n - p => z[m + 1] \notin S
    <3> SUFFICES ASSUME m < n - p
                 PROVE  z[m + 1] \notin S
      OBVIOUS
    <3>1. m + 1 \in 1..(n - p) /\ p + m # n /\ p + (m + 1) = p + m + 1
      BY <2>1, <2>6
    <3>2. z[m + 1] = v[p + m + 1]
      BY <2>4, <3>1
    <3> QED
      BY <2>7, <3>1, <3>2
  <2>10. RunLength(z, S) = m
    <3> HIDE DEF S
    <3> QED
      BY <2>1, <2>4, <2>6, <2>8, <2>9, RunIs
  <2>11. Named(v, p, S)
    BY <2>2, <2>3, <2>5, <2>7, <2>10 DEF Named
  <2>12. 1 \in 1..m /\ 1 \in 1..(n - p) /\ p + 1 \in 1..n /\ p + 1 # p
    BY <2>1, <2>6, <2>7
  <2>13. v[p + 1] \in Name
    BY <2>4, <2>6, <2>12
  <2>14. v[p + 1] # Space
    BY <2>13, NamesAreNoPunctuation DEF Space
  <2> QED
    BY <2>1, <2>11, <2>12, <2>14
<1>2. ~ LoneDollar(v)
  <2> SUFFICES ASSUME NEW k \in DOMAIN v, v[k] = "$", \A j \in DOMAIN v \ {k} : v[j] = Space
               PROVE  FALSE
    BY DEF LoneDollar
  <2>1. k \in 1..Len(v) /\ DOMAIN v = 1..Len(v)
    OBVIOUS
  <2> HIDE DEF S
  <2> QED
    BY <1>1, <2>1
<1>3. quote_handler_cpy(v, e) = Expand(v, S, <<>>, e)
  BY <1>2 DEF quote_handler_cpy
<1>4. AllNamed(v, S)
  BY <1>1 DEF AllNamed
<1> QED
  BY <1>3, <1>4, ExpandReads

-----------------------------------------------------------------------------
(* What words mean. *)

LEMMA PartsPlain ==
  ASSUME NEW ss \in Seq(Seq(Symbol)), NoDollar(FlattenSeq(ss))
  PROVE  \A k \in 1..Len(ss) : NoDollar(ss[k])
<1>1. PICK n \in Nat : n = Len(ss)
  OBVIOUS
<1>2. PICK f : f \in Growing(Symbol, ss)
  BY Grows
<1>3. FlattenSeq(ss) = f[n]
  BY <1>1, <1>2, FlattenIs
<1>4. f \in [0..n -> Seq(Symbol)] /\ \A k \in 1..n : f[k] = f[k - 1] \o ss[k]
  BY <1>1, <1>2 DEF Growing
<1>5. \A k \in 1..n : ss[k] \in Seq(Symbol)
  BY <1>1
<1>6. ASSUME NEW k \in 1..n, NoDollar(f[k])
      PROVE  NoDollar(f[k - 1]) /\ NoDollar(ss[k])
  <2>1. k - 1 \in 0..n
    OBVIOUS
  <2>2. PICK a \in Seq(Symbol) : a = f[k - 1]
    BY <1>4, <2>1
  <2>3. PICK b \in Seq(Symbol) : b = ss[k]
    BY <1>5
  <2>4. NoDollar(a \o b)
    BY <1>4, <1>6, <2>2, <2>3
  <2> QED
    BY <2>2, <2>3, <2>4, NoDollarParts
<1> DEFINE T == {j \in 0..n : NoDollar(f[n - j])}
<1>7. 0 \in T
  BY <1>3
<1>8. ASSUME NEW j \in 1..n, j - 1 \in T
      PROVE  j \in T
  <2>1. PICK k : k = n - (j - 1)
    OBVIOUS
  <2>2. k \in 1..n /\ k - 1 = n - j /\ NoDollar(f[k])
    BY <1>8, <2>1
  <2>3. NoDollar(f[k - 1])
    BY <1>6, <2>2
  <2> QED
    BY <2>2, <2>3
<1>9. \A j \in 0..n : j \in T
  <2> HIDE DEF T
  <2> QED
    BY <1>7, <1>8, UpTo
<1>10. ASSUME NEW k \in 1..n
       PROVE  NoDollar(ss[k])
  <2>1. PICK j : j = n - k
    OBVIOUS
  <2>2. j \in 0..n /\ n - j = k
    BY <2>1
  <2>3. NoDollar(f[k])
    BY <1>9, <2>2
  <2> QED
    BY <1>6, <2>3
<1> QED
  BY <1>1, <1>10

\* A word without variables means its text.
LEMMA MeaningPlain ==
  ASSUME NEW w \in ItemSet, NEW e, EnvOK(e), Calm(e), NoDollar(Text(w))
  PROVE  Meaning(w, e) = Text(w)
<1>1. PICK parts \in Seq(PartSet) : parts = w.parts
  BY DEF ItemSet
<1>2. PICK n \in Nat : n = Len(parts)
  OBVIOUS
<1>3. PICK ss : ss = [k \in DOMAIN parts |-> parts[k].text]
  OBVIOUS
<1>4. ss \in Seq(Seq(Symbol)) /\ Len(ss) = n /\ \A k \in 1..n : ss[k] = parts[k].text
  BY <1>2, <1>3, TextsAre
<1>5. Text(w) = FlattenSeq(ss)
  BY <1>1, <1>3 DEF Text
<1>6. \A k \in 1..n : NoDollar(ss[k]) /\ ss[k] \in Seq(Symbol)
  <2>1. NoDollar(FlattenSeq(ss))
    BY <1>5
  <2>2. \A k \in 1..Len(ss) : NoDollar(ss[k])
    BY <1>4, <2>1, PartsPlain
  <2> QED
    BY <1>4, <2>2
<1>7. ASSUME NEW k \in 1..n
      PROVE  (IF parts[k].mode = "'" THEN parts[k].text ELSE Interpolated(parts[k].text, e)) = parts[k].text
  <2>1. PICK v \in Seq(Symbol) : v = parts[k].text
    BY <1>4, <1>6
  <2>2. NoDollar(v)
    BY <1>4, <1>6, <2>1
  <2>3. Interpolated(v, e) = v
    BY <2>2, PlainStays
  <2> QED
    BY <2>1, <2>3
<1>8. DOMAIN parts = 1..n
  BY <1>2
<1>9. [k \in DOMAIN parts |-> IF parts[k].mode = "'" THEN parts[k].text
                              ELSE Interpolated(parts[k].text, e)] = ss
  BY <1>3, <1>7, <1>8
<1> QED
  BY <1>1, <1>5, <1>9 DEF Meaning

LEMMA FlattenOne ==
  ASSUME NEW v \in Seq(Symbol), NEW ss, DOMAIN ss = 1..1, ss = [k \in 1..1 |-> v]
  PROVE  FlattenSeq(ss) = v
<1>1. PICK none : none = <<>>
  OBVIOUS
<1>2. none \in Seq(Seq(Symbol))
  BY <1>1
<1>3. FlattenSeq(Append(none, v)) = FlattenSeq(none) \o v
  BY <1>2, FlattenMore
<1>4. Append(none, v) = ss
  BY <1>1
<1>5. FlattenSeq(none) = none
  BY <1>1, FlattenNone
<1> QED
  BY <1>1, <1>3, <1>4, <1>5, ConcatEmptySeq

\* A word of one part.
LEMMA MeaningOne ==
  ASSUME NEW w \in ItemSet, NEW e, EnvOK(e), Len(w.parts) = 1
  PROVE  /\ w.parts[1] \in PartSet /\ Text(w) = w.parts[1].text
         /\ Interpolated(Text(w), e) \in Seq(Symbol) =>
              Meaning(w, e) = IF w.parts[1].mode = "'" THEN Text(w) ELSE Interpolated(Text(w), e)
<1>1. PICK parts \in Seq(PartSet) : parts = w.parts
  BY DEF ItemSet
<1>2. DOMAIN parts = 1..1 /\ parts[1] \in PartSet /\ \A k \in 1..1 : k = 1
  BY <1>1
<1>3. PICK v \in Seq(Symbol) : v = parts[1].text
  BY <1>2 DEF PartSet
<1>4. [k \in DOMAIN parts |-> parts[k].text] = [k \in 1..1 |-> v]
  BY <1>2, <1>3
<1>5. Text(w) = v
  <2>1. PICK ss : ss = [k \in 1..1 |-> v]
    OBVIOUS
  <2>2. FlattenSeq(ss) = v
    BY <2>1, FlattenOne
  <2> QED
    BY <1>1, <1>4, <2>1, <2>2 DEF Text
<1>6. ASSUME Interpolated(v, e) \in Seq(Symbol)
      PROVE  Meaning(w, e) = IF parts[1].mode = "'" THEN v ELSE Interpolated(v, e)
  <2>1. PICK u : u = IF parts[1].mode = "'" THEN v ELSE Interpolated(v, e)
    OBVIOUS
  <2>2. u \in Seq(Symbol)
    BY <1>6, <2>1
  <2>3. PICK ss : ss = [k \in 1..1 |-> u]
    OBVIOUS
  <2>4. FlattenSeq(ss) = u
    BY <2>2, <2>3, FlattenOne
  <2>5. [k \in DOMAIN parts |-> IF parts[k].mode = "'" THEN parts[k].text
                                ELSE Interpolated(parts[k].text, e)] = ss
    BY <1>2, <1>3, <2>1, <2>3
  <2> QED
    BY <1>1, <2>1, <2>4, <2>5 DEF Meaning
<1> QED
  BY <1>1, <1>2, <1>3, <1>5, <1>6

\* What a word with variables can be, where the passes agree about it.
Lonely(w, m) == ~ NoDollar(Text(w)) /\ ~ Many(w) /\ Word(w) /\ w.parts[1].mode = m
InSingle(w, e) == Lonely(w, "'") /\ Meaning(w, e) = Text(w)
InDouble(w, e) ==
  /\ Lonely(w, "\"") /\ NoDollar(Meaning(w, e)) /\ Meaning(w, e) = quote_handler_cpy(Text(w), e)
InNone(w, e) == Lonely(w, "bare") /\ Meaning(w, e) = expand_variables(Text(w), e)
Settled(w, e) ==
  /\ Meaning(w, e) \in Seq(Symbol)
  /\ \/ NoDollar(Text(w)) /\ Meaning(w, e) = Text(w)
     \/ InSingle(w, e) \/ InDouble(w, e) \/ InNone(w, e)

LEMMA HasDollar ==
  ASSUME NEW w \in ItemSet
  PROVE  Has(w, "$") <=> ~ NoDollar(Text(w))
<1>1. PICK v \in Seq(Symbol) : v = Text(w)
  BY TextIsTyped
<1>2. DOMAIN v = 1..Len(v)
  OBVIOUS
<1>3. "$" \in Range(v) <=> \E p \in 1..Len(v) : v[p] = "$"
  BY <1>2 DEF Range
<1> QED
  BY <1>1, <1>3 DEF Has, NoDollar

LEMMA WordSettled ==
  ASSUME NEW w \in ItemSet, Word(w), Agreed(w), NEW e, EnvOK(e), Calm(e)
  PROVE  Settled(w, e)
<1>1. PICK v \in Seq(Symbol) : v = Text(w)
  BY TextIsTyped
<1>2. CASE NoDollar(v)
  <2>1. Meaning(w, e) = Text(w)
    BY <1>1, <1>2, MeaningPlain
  <2> QED
    BY <1>1, <1>2, <2>1 DEF Settled
<1>3. CASE ~ NoDollar(v)
  <2>1. Has(w, "$")
    BY <1>1, <1>3, HasDollar
  <2>2. ~ w.open /\ Len(w.parts) = 1
    BY <2>1 DEF Agreed
  <2>3. PICK x \in PartSet : x = w.parts[1] /\ v = x.text
    BY <1>1, <2>2, MeaningOne
  <2>4. Interpolated(v, e) \in Seq(Symbol) =>
          Meaning(w, e) = IF x.mode = "'" THEN v ELSE Interpolated(v, e)
    BY <1>1, <2>2, <2>3, MeaningOne
  <2>5. ~ Many(w)
    BY <2>2 DEF Many
  <2>6. ASSUME NEW p \in 1..Len(v), v[p] = "$"
        PROVE  CASE x.mode = "'" -> TRUE
                 [] x.mode = "bare" -> RunLength(Rest(v, p + 1), Name) > 0
                 [] OTHER -> EndsName(v, p)
    <3>1. p \in DOMAIN v
      OBVIOUS
    <3> QED
      BY <2>1, <2>3, <2>6, <3>1 DEF Agreed
  <2>7. x.mode \in {"bare", "'", "\""}
    BY <2>3 DEF PartSet, Modes
  <2>8. CASE x.mode = "'"
    <3>1. Meaning(w, e) = v
      <4>1. Meaning(w, e) = FlattenSeq([k \in DOMAIN w.parts |->
                IF w.parts[k].mode = "'" THEN w.parts[k].text
                ELSE Interpolated(w.parts[k].text, e)])
        BY DEF Meaning
      <4>2. PICK parts \in Seq(PartSet) : parts = w.parts
        BY DEF ItemSet
      <4>3. DOMAIN parts = 1..1 /\ \A k \in 1..1 : k = 1
        BY <2>2, <4>2
      <4>4. [k \in DOMAIN parts |-> IF parts[k].mode = "'" THEN parts[k].text
                                    ELSE Interpolated(parts[k].text, e)] = [k \in 1..1 |-> v]
        BY <2>3, <2>8, <4>2, <4>3
      <4>5. PICK ss : ss = [k \in 1..1 |-> v]
        OBVIOUS
      <4>6. FlattenSeq(ss) = v
        BY <4>5, FlattenOne
      <4> QED
        BY <4>1, <4>2, <4>4, <4>5, <4>6
    <3>2. Lonely(w, "'")
      BY <1>1, <1>3, <2>3, <2>5, <2>8 DEF Lonely
    <3>3. InSingle(w, e)
      BY <1>1, <3>1, <3>2 DEF InSingle
    <3> QED
      BY <3>1, <3>3 DEF Settled
  <2>9. CASE x.mode = "bare"
    <3>1. BareNames(v)
      BY <2>6, <2>9 DEF BareNames
    <3>2. /\ expand_variables(v, e) = Interpolated(v, e)
          /\ Interpolated(v, e) \in Seq(Symbol) /\ NoDollar(Interpolated(v, e))
      BY <3>1, BareReads
    <3>3. Meaning(w, e) = Interpolated(v, e)
      BY <2>4, <2>9, <3>2
    <3>4. Lonely(w, "bare")
      BY <1>1, <1>3, <2>3, <2>5, <2>9 DEF Lonely
    <3>5. InNone(w, e)
      BY <1>1, <3>2, <3>3, <3>4 DEF InNone
    <3> QED
      BY <3>2, <3>3, <3>5 DEF Settled
  <2>10. CASE x.mode = "\""
    <3>1. QuotedNames(v)
      BY <2>6, <2>10 DEF QuotedNames
    <3>2. /\ quote_handler_cpy(v, e) = Interpolated(v, e)
          /\ Interpolated(v, e) \in Seq(Symbol) /\ NoDollar(Interpolated(v, e))
      BY <3>1, QuotedReads
    <3>3. Meaning(w, e) = Interpolated(v, e)
      BY <2>4, <2>10, <3>2
    <3>4. Lonely(w, "\"")
      BY <1>1, <1>3, <2>3, <2>5, <2>10 DEF Lonely
    <3>5. InDouble(w, e)
      BY <1>1, <3>2, <3>3, <3>4 DEF InDouble
    <3> QED
      BY <3>2, <3>3, <3>5 DEF Settled
  <2> QED
    BY <2>7, <2>8, <2>9, <2>10
<1> QED
  BY <1>2, <1>3

\* The word as merging sees it.
SeenOf(w, e) ==
  IF InDouble(w, e) THEN It("word", <<Part("\"", Meaning(w, e))>>, w.open, w.glued) ELSE w
EarlyText(w, e) == IF InDouble(w, e) THEN Meaning(w, e) ELSE Text(w)

LEMMA SeenOfIs ==
  ASSUME NEW w \in ItemSet, NEW e, Word(w), Settled(w, e), ~ NoDollar(Text(w)) => EarlyText(w, e) \notin OpText,
         NEW y, y = SeenOf(w, e)
  PROVE  /\ y \in ItemSet /\ y.kind = "word" /\ (Ajar(y) <=> Ajar(w))
         /\ Text(y) = EarlyText(w, e) /\ EarlyText(w, e) \in Seq(Symbol)
         /\ \/ NoDollar(Text(w)) /\ y = w
            \/ Replaces(y, w, e)
         /\ ~ NoDollar(Text(w)) => y.parts[1].mode = w.parts[1].mode /\ ~ Many(y)
<1>1. PICK u \in Seq(Symbol) : u = Meaning(w, e)
  BY DEF Settled
<1>2. CASE InDouble(w, e)
  <2>1. Lonely(w, "\"") /\ u = quote_handler_cpy(Text(w), e) /\ EarlyText(w, e) = u
    BY <1>1, <1>2 DEF InDouble, EarlyText
  <2>2. PICK d \in Modes : d = "\""
    BY DEF Modes
  <2>3. PICK x : x = Part(d, u)
    OBVIOUS
  <2>4. x \in PartSet /\ x.mode = d /\ x.text = u
    BY <2>3, PartIs
  <2>5. PICK parts : parts = <<x>>
    OBVIOUS
  <2>6. parts \in Seq(PartSet) /\ Len(parts) = 1 /\ parts[1] = x /\ DOMAIN parts = 1..1
    BY <2>4, <2>5
  <2>7. w.open \in BOOLEAN /\ w.glued \in BOOLEAN /\ w.kind = "word"
    BY DEF ItemSet, Word
  <2>8. y = It("word", parts, w.open, w.glued)
    BY <1>1, <1>2, <2>2, <2>3, <2>5 DEF SeenOf
  <2>9. y \in ItemSet
    BY <2>6, <2>7, <2>8, ItIs
  <2>10. y.kind = "word" /\ y.parts = parts /\ y.open = w.open /\ y.glued = w.glued
    BY <2>8 DEF It
  <2>11. Text(y) = u
    <3>1. PICK ss : ss = [k \in 1..1 |-> u]
      OBVIOUS
    <3>2. FlattenSeq(ss) = u
      BY <3>1, FlattenOne
    <3>3. [k \in DOMAIN parts |-> parts[k].text] = ss
      <4>1. \A k \in 1..1 : k = 1
        OBVIOUS
      <4> QED
        BY <2>4, <2>6, <3>1, <4>1
    <3> QED
      BY <2>10, <3>2, <3>3 DEF Text
  <2>12. ~ Many(y)
    <3>1. ~ w.open
      BY <2>1 DEF Many, Lonely
    <3>2. ~ y.open /\ Len(y.parts) = 1
      BY <2>6, <2>10, <3>1
    <3>3. ~ (Len(y.parts) > 1)
      BY <3>2
    <3> QED
      BY <3>2, <3>3 DEF Many
  <2>13. y.parts[1].mode = "\"" /\ w.parts[1].mode = "\"" /\ ~ NoDollar(Text(w)) /\ ~ Many(w)
    BY <2>1, <2>2, <2>4, <2>6, <2>10 DEF Lonely
  <2>14. Text(y) \notin OpText
    BY <2>1, <2>11, <2>13
  <2>15. HasPart(y, Text(y))
    <3>1. 1 \in DOMAIN y.parts /\ y.parts[1].text = u
      BY <2>4, <2>6, <2>10
    <3> QED
      BY <2>11, <3>1 DEF HasPart
  <2>16. Replaces(y, w, e)
    BY <2>1, <2>7, <2>10, <2>11, <2>13, <2>14, <2>15 DEF Replaces
  <2> QED
    BY <2>1, <2>9, <2>10, <2>11, <2>12, <2>13, <2>16 DEF Ajar
<1>3. CASE ~ InDouble(w, e)
  <2>1. y = w /\ EarlyText(w, e) = Text(w) /\ w.kind = "word"
    BY <1>3 DEF SeenOf, EarlyText, Word
  <2>2. Text(w) \in Seq(Symbol)
    BY TextIsTyped
  <2>3. CASE NoDollar(Text(w))
    BY <2>1, <2>2, <2>3
  <2>4. CASE ~ NoDollar(Text(w))
    <3>1. InSingle(w, e) \/ InNone(w, e)
      BY <1>3, <2>4 DEF Settled
    <3>2. ~ Many(w) /\ w.parts[1].mode # "\""
      BY <3>1 DEF InSingle, InNone, Lonely
    <3>3. Replaces(y, w, e)
      BY <2>1, <2>4, <3>2 DEF Replaces
    <3> QED
      BY <2>1, <2>2, <2>4, <3>2, <3>3
  <2> QED
    BY <2>3, <2>4
<1> QED
  BY <1>2, <1>3

\* A line the passes agree about.
Agreeable(items, e) ==
  /\ items \in Seq(ItemSet) /\ Sorted(items) /\ items # <<>> /\ EnvOK(e) /\ Calm(e)
  /\ \A k \in 1..Len(items) :
       Word(items[k]) =>
         /\ Settled(items[k], e) /\ ~ items[k].open
         /\ ~ NoDollar(Text(items[k])) => EarlyText(items[k], e) \notin OpText
  /\ Word(items[1]) => ~ IsAssignment(EarlyText(items[1], e))

LEMMA AgreedIs ==
  ASSUME NEW items \in Seq(ItemSet), Sorted(items), AgreedLine(items), EnvOK(before)
  PROVE  Agreeable(items, before)
<1>1. PICK e : e = before
  OBVIOUS
<1>2. EnvOK(e)
  BY <1>1
<1>3. Calm(e)
  <2>1. ASSUME NEW n \in DOMAIN e
        PROVE  NoDollar(e[n])
    <3>1. PICK v \in Seq(Symbol) : v = e[n]
      BY <1>2 DEF EnvOK
    <3>2. DOMAIN v = 1..Len(v)
      OBVIOUS
    <3>3. "$" \notin Range(v)
      BY <1>1, <3>1 DEF AgreedLine, PlainValues
    <3>4. NoDollar(v)
      BY <3>2, <3>3 DEF NoDollar, Range
    <3> QED
      BY <3>1, <3>4
  <2> QED
    BY <2>1 DEF Calm
<1>4. AllOps = OpText
  BY DEF AllOps, OpText
<1>5. DOMAIN items = 1..Len(items) /\ items # <<>>
  BY DEF AgreedLine
<1>6. ASSUME NEW k \in 1..Len(items), Word(items[k])
      PROVE  /\ Settled(items[k], e) /\ EarlyText(items[k], e) = Early(items[k])
             /\ ~ items[k].open
             /\ ~ NoDollar(Text(items[k])) => Early(items[k]) \notin OpText
  <2>1. PICK w \in ItemSet : w = items[k]
    OBVIOUS
  <2>2. Agreed(w) /\ (Has(w, "$") => Early(w) \notin AllOps) /\ Word(w)
    BY <1>5, <1>6, <2>1 DEF AgreedLine
  <2>3. Settled(w, e)
    BY <1>2, <1>3, <2>2, WordSettled
  <2>4. Has(w, "$") <=> ~ NoDollar(Text(w))
    BY HasDollar
  <2>5. InDouble(w, e) <=> Has(w, "$") /\ w.parts[1].mode = "\""
    <3>1. InDouble(w, e) => Has(w, "$") /\ w.parts[1].mode = "\""
      BY <2>4 DEF InDouble, Lonely
    <3>2. ASSUME Has(w, "$"), w.parts[1].mode = "\""
          PROVE  InDouble(w, e)
      <4>1. InSingle(w, e) \/ InDouble(w, e) \/ InNone(w, e)
        BY <2>3, <2>4, <3>2 DEF Settled
      <4>2. ~ InSingle(w, e) /\ ~ InNone(w, e)
        BY <3>2 DEF InSingle, InNone, Lonely
      <4> QED
        BY <4>1, <4>2
    <3> QED
      BY <3>1, <3>2
  <2>6. EarlyText(w, e) = Early(w)
    BY <1>1, <2>5 DEF EarlyText, Early
  <2>7. ~ w.open
    BY <2>2 DEF Agreed
  <2> QED
    BY <1>4, <2>1, <2>2, <2>3, <2>4, <2>6, <2>7
<1>7. Word(items[1]) => ~ IsAssignment(EarlyText(items[1], e))
  <2>1. 1 \in 1..Len(items)
    BY <1>5
  <2>2. Word(items[1]) => ~ IsAssignment(Early(items[1]))
    BY DEF AgreedLine
  <2> QED
    BY <1>6, <2>1, <2>2
<1> QED
  BY <1>1, <1>2, <1>3, <1>5, <1>6, <1>7 DEF Agreeable

-----------------------------------------------------------------------------
(* The list of a line the passes agree about. *)

\* A token of a word, and of an operator.
OfWord(t) ==
  /\ t.coretype \in {"CMD", "WORD"} /\ t.type \in {"CMD", "WORD"}
  /\ t.rank \in {RANK_B, RANK_C} /\ t.args = <<>> /\ t.value \in Seq(Symbol)
OfOp(t, v) ==
  /\ v = <<"|">> => t.type = "PIPE" /\ t.coretype = "PIPE" /\ t.rank = RANK_S
  /\ v \in RedirText => t.type = RedirType(v) /\ t.coretype = "REDIR" /\ t.rank = RANK_A

Understood(m, items, e) ==
  /\ m \in Seq(Token) /\ Len(m) = Len(items) + 1 /\ Trailing(m[Len(m)])
  /\ \A k \in 1..Len(items) :
       /\ Word(items[k]) =>
            /\ OfWord(m[k]) /\ m[k].value = EarlyText(items[k], e)
            /\ ~ NoDollar(m[k].value) => (m[k].literal <=> items[k].parts[1].mode = "'")
       /\ ~ Word(items[k]) => OfOp(m[k], Text(items[k])) /\ m[k].value = Text(items[k])

\* A word with no name of a program in it, P being all there are, is one that
\* may be a file's.
NoneOf(w, P) == NoDollar(Text(w)) /\ \A a \in P : ~ HasPart(w, a)
Filed(x, items, P) ==
  \A k \in 1..Len(items) : Word(items[k]) /\ NoneOf(items[k], P) => x[k].type = "WORD"

LEMMA LineSeen ==
  ASSUME NEW ln \in Seq(Symbol), ln # <<>>, NEW items, items = Items(ln), NEW e, Agreeable(items, e),
         NEW P, NULL \notin P, NEW q, Looked(split_input(ln), e, q, P),
         NEW m, m = merg_tok_excep_cll_revloop(q)
  PROVE  Understood(m, items, e) /\ Filed(m, items, P)
<1>0. PICK plain \in BOOLEAN : plain = TRUE
  OBVIOUS
<1>1. /\ items \in Seq(ItemSet) /\ Sorted(items) /\ items # <<>> /\ EnvOK(e) /\ Calm(e)
      /\ Len(items) \in Nat /\ DOMAIN items = 1..Len(items)
  BY DEF Agreeable
<1> DEFINE seen == [k \in 1..Len(items) |-> IF Word(items[k]) THEN SeenOf(items[k], e) ELSE items[k]]
<1>2. ASSUME NEW k \in 1..Len(items)
      PROVE  /\ seen[k] \in ItemSet /\ seen[k].kind = items[k].kind
             /\ Ajar(seen[k]) <=> Ajar(items[k])
             /\ \/ NoDollar(Text(items[k])) /\ seen[k] = items[k]
                \/ Replaces(seen[k], items[k], e)
             /\ Word(items[k]) =>
                  /\ Text(seen[k]) = EarlyText(items[k], e) /\ EarlyText(items[k], e) \in Seq(Symbol)
                  /\ ~ NoDollar(Text(items[k])) =>
                       seen[k].parts[1].mode = items[k].parts[1].mode /\ ~ Many(seen[k])
             /\ ~ Word(items[k]) => seen[k] = items[k]
  <2>1. PICK w \in ItemSet : w = items[k]
    BY <1>1
  <2>2. CASE Word(w)
    <3>1. Settled(w, e) /\ (~ NoDollar(Text(w)) => EarlyText(w, e) \notin OpText)
      BY <2>1, <2>2 DEF Agreeable
    <3>2. PICK y : y = SeenOf(w, e)
      OBVIOUS
    <3>3. /\ y \in ItemSet /\ y.kind = "word" /\ (Ajar(y) <=> Ajar(w))
          /\ Text(y) = EarlyText(w, e) /\ EarlyText(w, e) \in Seq(Symbol)
          /\ \/ NoDollar(Text(w)) /\ y = w
             \/ Replaces(y, w, e)
          /\ ~ NoDollar(Text(w)) => y.parts[1].mode = w.parts[1].mode /\ ~ Many(y)
      BY <2>2, <3>1, <3>2, SeenOfIs
    <3>4. seen[k] = y /\ w.kind = "word"
      BY <2>1, <2>2, <3>2 DEF Word
    <3> HIDE DEF seen
    <3> QED
      BY <2>1, <2>2, <3>3, <3>4
  <2>3. CASE ~ Word(w)
    <3>1. Text(w) \in OpText
      BY <1>1, <2>1, <2>3 DEF Sorted, Word
    <3>2. NoDollar(Text(w))
      BY <3>1 DEF OpText, RedirText, NoDollar
    <3>3. seen[k] = w
      BY <2>1, <2>3
    <3> HIDE DEF seen
    <3> QED
      BY <2>1, <2>3, <3>2, <3>3
  <2> QED
    BY <2>2, <2>3
<1>3. seen \in Seq(ItemSet) /\ Len(seen) = Len(items)
  <2>1. \A k \in 1..Len(items) : seen[k] \in ItemSet
    BY <1>2
  <2>2. PICK s : s = seen
    OBVIOUS
  <2>3. DOMAIN s = 1..Len(items) /\ s = [k \in 1..Len(items) |-> s[k]]
    BY <2>2
  <2>4. s \in [1..Len(items) -> ItemSet]
    BY <2>1, <2>2, <2>3
  <2>5. s \in Seq(ItemSet) /\ Len(s) = Len(items)
    BY <1>1, <2>3, <2>4
  <2> QED
    BY <2>2, <2>5
<1> HIDE DEF seen
<1>4. Seen(ln, items, seen, plain, e)
  BY <1>0, <1>2, <1>3 DEF Seen
<1>5. Says(m, seen, plain, P)
  BY <1>1, <1>4, LineMerged
<1>6. /\ m \in Seq(Token) /\ Len(m) = Len(items) + 1 /\ Trailing(m[Len(m)])
      /\ \A k \in 1..Len(items) : Agrees(m[k], seen[k], plain, P)
  <2>1. seen # <<>>
    BY <1>1, <1>3
  <2> QED
    BY <1>3, <1>5, <2>1 DEF Says
<1>7. ASSUME NEW k \in 1..Len(items)
      PROVE  /\ Word(items[k]) =>
                  /\ OfWord(m[k]) /\ m[k].value = EarlyText(items[k], e)
                  /\ ~ NoDollar(m[k].value) => (m[k].literal <=> items[k].parts[1].mode = "'")
             /\ ~ Word(items[k]) => OfOp(m[k], Text(items[k])) /\ m[k].value = Text(items[k])
             /\ Word(items[k]) /\ NoneOf(items[k], P) => m[k].type = "WORD"
  <2>1. PICK w : w = items[k]
    OBVIOUS
  <2>2. PICK y : y = seen[k]
    OBVIOUS
  <2>3. PICK t \in Token : t = m[k]
    <3>1. k \in 1..Len(m)
      BY <1>1, <1>6
    <3> QED
      BY <1>6, <3>1
  <2>4. t.args = <<>> /\ t.value = Text(y) /\ Classed(t, y, P)
    BY <1>0, <1>6, <2>2, <2>3 DEF Agrees
  <2>5. CASE Word(w)
    <3>1. y.kind = "word" /\ Text(y) = EarlyText(w, e) /\ EarlyText(w, e) \in Seq(Symbol)
      BY <1>2, <2>1, <2>2, <2>5 DEF Word
    <3>2. /\ t.coretype \notin {"PIPE", "REDIR"} /\ t.type \in {"CMD", "WORD"}
          /\ t.rank \in {RANK_B, RANK_C}
          /\ ~ Many(y) /\ ~ NoDollar(Text(y)) => (t.literal <=> y.parts[1].mode = "'")
          /\ y.open \/ t.type = "WORD" \/ \E a \in P : HasPart(y, a)
      BY <2>4, <3>1 DEF Classed
    <3>3. t.coretype \in {"CMD", "WORD"}
      BY <3>2 DEF Token
    <3>4. OfWord(t) /\ t.value = EarlyText(w, e)
      BY <2>4, <3>1, <3>2, <3>3 DEF OfWord
    <3>5. ~ NoDollar(Text(w)) => y.parts[1].mode = w.parts[1].mode /\ ~ Many(y)
      BY <1>2, <2>1, <2>2, <2>5
    <3>6. ASSUME ~ NoDollar(t.value)
          PROVE  t.literal <=> w.parts[1].mode = "'"
      <4>1. ~ NoDollar(Text(w))
        <5>1. InDouble(w, e) => ~ NoDollar(Text(w))
          BY DEF InDouble, Lonely
        <5>2. ~ InDouble(w, e) => EarlyText(w, e) = Text(w)
          BY DEF EarlyText
        <5> QED
          BY <3>4, <3>6, <5>1, <5>2
      <4> QED
        BY <2>4, <3>2, <3>5, <3>6, <4>1
    <3>7. NoneOf(w, P) => t.type = "WORD"
      <4> SUFFICES ASSUME NoneOf(w, P)
                   PROVE  t.type = "WORD"
        OBVIOUS
      <4>1. NoDollar(Text(w)) /\ \A a \in P : ~ HasPart(w, a)
        BY DEF NoneOf
      <4>2. y = w
        BY <1>2, <2>1, <2>2, <4>1 DEF Replaces
      <4>3. ~ w.open
        BY <2>1, <2>5 DEF Agreeable
      <4> QED
        BY <3>2, <4>1, <4>2, <4>3
    <3> QED
      BY <2>1, <2>3, <2>5, <3>4, <3>6, <3>7
  <2>6. CASE ~ Word(w)
    <3>1. y = w
      BY <1>2, <2>1, <2>2, <2>6
    <3>2. w.kind = "op"
      BY <1>1, <2>1, <2>6 DEF Sorted, Word
    <3>3. OfOp(t, Text(w)) /\ t.value = Text(w)
      BY <2>4, <3>1, <3>2 DEF Classed, OfOp
    <3> QED
      BY <2>1, <2>3, <2>6, <3>3
  <2> QED
    BY <2>5, <2>6
<1> QED
  BY <1>6, <1>7 DEF Understood, Filed

LEMMA NothingAssigned ==
  ASSUME NEW l, NEW e
  PROVE  AssignedEnv(l, 0, e) = e
<1> DEFINE f == [k \in 0..0 |-> e]
<1>1. f = [k \in 0..0 |-> IF k = 0 THEN e ELSE Assigned(l[k].value, f[k - 1])]
  <2>1. \A k \in 0..0 : k = 0
    OBVIOUS
  <2> QED
    BY <2>1
<1> HIDE DEF f
<1>2. PICK h : /\ h = [k \in 0..0 |-> IF k = 0 THEN e ELSE Assigned(l[k].value, h[k - 1])]
               /\ AssignedEnv(l, 0, e) = h[0]
  BY <1>1 DEF AssignedEnv, Turns
<1>3. 0 \in 0..0
  OBVIOUS
<1> QED
  BY <1>2, <1>3

\* A token with another text.
LEMMA TextReplaced ==
  ASSUME NEW t \in Token, NEW v \in Seq(Symbol), NEW u, u = [t EXCEPT !.value = v]
  PROVE  /\ u \in Token /\ u.value = v /\ u.type = t.type /\ u.coretype = t.coretype
         /\ u.rank = t.rank /\ u.args = t.args
BY DEF Token

\* The list of a line is expanded: its words have become what they mean.
Ready(x, items, e) ==
  /\ x \in Seq(Token) /\ Len(x) = Len(items) + 1 /\ Trailing(x[Len(x)])
  /\ \A k \in 1..Len(items) :
       /\ Word(items[k]) => OfWord(x[k]) /\ x[k].value = Meaning(items[k], e)
       /\ ~ Word(items[k]) => OfOp(x[k], Text(items[k]))

\* One token of it.
ExpandedTo(t, e, u) ==
  u = IF t.value = NULL \/ t.literal \/ t.type = "ASSIGNMENT" THEN t
      ELSE [t EXCEPT !.value = expand_variables(@, e)]

LEMMA ExpandedIs ==
  ASSUME NEW t \in Token, NEW e, EnvOK(e), Calm(e), NEW u, ExpandedTo(t, e, u)
  PROVE  /\ u \in Token /\ u.type = t.type /\ u.coretype = t.coretype
         /\ u.rank = t.rank /\ u.args = t.args
         /\ t.value = NULL => u = t
         /\ t.value \in Seq(Symbol) /\ t.type # "ASSIGNMENT" =>
              /\ u.value \in Seq(Symbol)
              /\ NoDollar(t.value) => u.value = t.value
              /\ ~ NoDollar(t.value) =>
                   u.value = IF t.literal THEN t.value ELSE expand_variables(t.value, e)
<1>1. CASE t.value = NULL \/ t.literal \/ t.type = "ASSIGNMENT"
  BY <1>1, NoSuchString DEF ExpandedTo
<1>2. CASE ~ (t.value = NULL \/ t.literal \/ t.type = "ASSIGNMENT")
  <2>1. PICK v \in Seq(Symbol) : v = t.value
    BY <1>2 DEF Token
  <2>2. PICK w : w = expand_variables(v, e)
    OBVIOUS
  <2>3. w \in Seq(Symbol)
    BY <2>2, ExpandedText
  <2>4. NoDollar(v) => w = v
    BY <2>2, DollarIsText, ExpandIs DEF expand_variables
  <2>5. u = [t EXCEPT !.value = w]
    BY <1>2, <2>1, <2>2 DEF ExpandedTo
  <2>6. /\ u \in Token /\ u.value = w /\ u.type = t.type /\ u.coretype = t.coretype
        /\ u.rank = t.rank /\ u.args = t.args
    BY <2>3, <2>5, TextReplaced
  <2> QED
    BY <1>2, <2>1, <2>2, <2>3, <2>4, <2>6
<1> QED
  BY <1>1, <1>2

LEMMA LineReady ==
  ASSUME NEW items, NEW e, Agreeable(items, e), NEW m, Understood(m, items, e),
         NEW P, Filed(m, items, P),
         NEW x, x = expand_token_list_no_assignments(MarkedAssignments(m), e)
  PROVE  Ready(x, items, e) /\ Filed(x, items, P) /\ AssignedEnv(m, Assignments(m), e) = e
<1>1. /\ items \in Seq(ItemSet) /\ Sorted(items) /\ items # <<>> /\ EnvOK(e) /\ Calm(e)
      /\ Len(items) \in Nat /\ 1 \in 1..Len(items)
  BY DEF Agreeable
<1>2. /\ m \in Seq(Token) /\ Len(m) = Len(items) + 1 /\ Trailing(m[Len(m)])
      /\ DOMAIN m = 1..Len(m) /\ Len(m) \in Nat /\ \A k \in 1..Len(m) : m[k] \in Token
  BY <1>1 DEF Understood
<1>3. ~ is_valid_assignment(m[1].value)
  <2>1. CASE Word(items[1])
    <3>1. PICK v : v = EarlyText(items[1], e)
      OBVIOUS
    <3>2. m[1].value = v /\ v \in Seq(Symbol)
      BY <1>1, <2>1, <3>1 DEF Understood, OfWord
    <3>3. ~ IsAssignment(v)
      BY <2>1, <3>1 DEF Agreeable
    <3> QED
      BY <3>2, <3>3, AssignmentIs
  <2>2. CASE ~ Word(items[1])
    <3>1. PICK v : v = Text(items[1])
      OBVIOUS
    <3>2. m[1].value = v
      BY <1>1, <2>2, <3>1 DEF Understood
    <3>3. v \in OpText
      BY <1>1, <2>2, <3>1 DEF Sorted, Word
    <3>4. v \in Seq(Symbol) /\ v[1] \in Operator
      BY <3>3, OpTexts
    <3> SUFFICES ASSUME is_valid_assignment(v)
                 PROVE  FALSE
      BY <3>2
    <3>5. RunLength(v, Name) \in 1..(Len(v) - 1) /\ \A j \in 1..RunLength(v, Name) : v[j] \in Name
      BY <3>4, AssignmentIs
    <3>6. 1 \in 1..RunLength(v, Name)
      BY <3>5
    <3> QED
      BY <3>4, <3>5, <3>6, NamesAreNoPunctuation
  <2> QED
    BY <2>1, <2>2
<1>4. PICK n : n = Assignments(m)
  OBVIOUS
<1>5. n = 0
  <2>1. n \in 0..Len(m) /\ \A k \in 1..n : is_valid_assignment(m[k].value)
    BY <1>2, <1>4, AssignmentsBound
  <2>2. n # 0 => 1 \in 1..n
    BY <1>2, <2>1
  <2> QED
    BY <1>3, <2>1, <2>2
<1>6. AssignedEnv(m, Assignments(m), e) = e
  BY <1>4, <1>5, NothingAssigned
<1>7. MarkedAssignments(m) = m
  <2>1. \A k \in DOMAIN m : ~ (k <= n)
    BY <1>2, <1>5
  <2>2. MarkedAssignments(m) = [k \in DOMAIN m |-> m[k]]
    BY <1>4, <2>1 DEF MarkedAssignments
  <2>3. [k \in DOMAIN m |-> m[k]] = m
    BY <1>2
  <2> QED
    BY <2>2, <2>3
<1>8. DOMAIN x = 1..Len(m) /\ \A k \in 1..Len(m) : ExpandedTo(m[k], e, x[k])
  BY <1>2, <1>7 DEF expand_token_list_no_assignments, ExpandedTo
<1>9. x = [k \in 1..Len(m) |-> x[k]]
  BY <1>2, <1>7 DEF expand_token_list_no_assignments
<1>10. ASSUME NEW k \in 1..Len(m)
       PROVE  x[k] \in Token
  <2>1. PICK t \in Token : t = m[k]
    BY <1>2
  <2>2. PICK u : u = x[k]
    OBVIOUS
  <2>3. ExpandedTo(t, e, u)
    BY <1>8, <2>1, <2>2
  <2> QED
    BY <1>1, <2>2, <2>3, ExpandedIs
<1>11. x \in Seq(Token) /\ Len(x) = Len(m)
  <2>1. x \in [1..Len(m) -> Token]
    BY <1>9, <1>10
  <2> QED
    BY <1>2, <1>8, <2>1
<1>12. Trailing(x[Len(x)])
  <2>1. PICK k : k = Len(m)
    OBVIOUS
  <2>2. k \in 1..Len(m)
    BY <1>1, <1>2, <2>1
  <2>3. PICK t \in Token : t = m[k]
    BY <1>2, <2>2
  <2>4. PICK u : u = x[k]
    OBVIOUS
  <2>5. ExpandedTo(t, e, u)
    BY <1>8, <2>2, <2>3, <2>4
  <2>6. Trailing(t) /\ t.value = NULL
    BY <1>2, <2>1, <2>3 DEF Trailing
  <2>7. u = t
    BY <1>1, <2>5, <2>6, ExpandedIs
  <2> QED
    BY <1>11, <2>1, <2>4, <2>6, <2>7
<1>13. ASSUME NEW k \in 1..Len(items)
       PROVE  /\ Word(items[k]) => OfWord(x[k]) /\ x[k].value = Meaning(items[k], e)
              /\ ~ Word(items[k]) => OfOp(x[k], Text(items[k]))
              /\ Word(items[k]) /\ NoneOf(items[k], P) => x[k].type = "WORD"
  <2>1. k \in 1..Len(m)
    BY <1>1, <1>2
  <2>2. PICK t \in Token : t = m[k]
    BY <1>2, <2>1
  <2>3. PICK u : u = x[k]
    OBVIOUS
  <2>4. ExpandedTo(t, e, u)
    BY <1>8, <2>1, <2>2, <2>3
  <2>5. /\ u \in Token /\ u.type = t.type /\ u.coretype = t.coretype
        /\ u.rank = t.rank /\ u.args = t.args
        /\ t.value \in Seq(Symbol) /\ t.type # "ASSIGNMENT" =>
              /\ u.value \in Seq(Symbol)
              /\ NoDollar(t.value) => u.value = t.value
              /\ ~ NoDollar(t.value) =>
                   u.value = IF t.literal THEN t.value ELSE expand_variables(t.value, e)
    BY <1>1, <2>4, ExpandedIs
  <2>6. PICK w : w = items[k]
    OBVIOUS
  <2>7. CASE Word(w)
    <3>1. /\ OfWord(t) /\ t.value = EarlyText(w, e)
          /\ ~ NoDollar(t.value) => (t.literal <=> w.parts[1].mode = "'")
      BY <2>2, <2>6, <2>7 DEF Understood
    <3>2. t.value \in Seq(Symbol) /\ t.type # "ASSIGNMENT"
      BY <3>1 DEF OfWord
    <3>3. Settled(w, e)
      BY <2>6, <2>7 DEF Agreeable
    <3>4. OfWord(u)
      BY <2>5, <3>1, <3>2 DEF OfWord
    <3>5. u.value = Meaning(w, e)
      <4>1. CASE InDouble(w, e)
        <5>1. t.value = Meaning(w, e) /\ NoDollar(t.value)
          BY <3>1, <4>1 DEF InDouble, EarlyText
        <5> QED
          BY <2>5, <3>2, <5>1
      <4>2. CASE ~ InDouble(w, e)
        <5>1. t.value = Text(w)
          BY <3>1, <4>2 DEF EarlyText
        <5>2. CASE NoDollar(Text(w)) /\ Meaning(w, e) = Text(w)
          BY <2>5, <3>2, <5>1, <5>2
        <5>3. CASE InSingle(w, e)
          <6>1. ~ NoDollar(Text(w)) /\ w.parts[1].mode = "'" /\ Meaning(w, e) = Text(w)
            BY <5>3 DEF InSingle, Lonely
          <6> QED
            BY <2>5, <3>1, <3>2, <5>1, <6>1
        <5>4. CASE InNone(w, e)
          <6>1. /\ ~ NoDollar(Text(w)) /\ w.parts[1].mode # "'"
                /\ Meaning(w, e) = expand_variables(Text(w), e)
            BY <5>4 DEF InNone, Lonely
          <6> QED
            BY <2>5, <3>1, <3>2, <5>1, <6>1
        <5> QED
          BY <3>3, <4>2, <5>2, <5>3, <5>4 DEF Settled
      <4> QED
        BY <4>1, <4>2
    <3>6. NoneOf(w, P) => u.type = "WORD"
      BY <2>2, <2>5, <2>6, <2>7 DEF Filed
    <3> QED
      BY <2>3, <2>6, <2>7, <3>4, <3>5, <3>6
  <2>8. CASE ~ Word(w)
    <3>1. OfOp(t, Text(w))
      BY <2>2, <2>6, <2>8 DEF Understood
    <3>2. OfOp(u, Text(w))
      BY <2>5, <3>1 DEF OfOp
    <3> QED
      BY <2>3, <2>6, <2>8, <3>2
  <2> QED
    BY <2>7, <2>8
<1>14. Ready(x, items, e)
  BY <1>2, <1>11, <1>12, <1>13 DEF Ready
<1>15. Filed(x, items, P)
  BY <1>13 DEF Filed
<1> QED
  BY <1>6, <1>14, <1>15

-----------------------------------------------------------------------------
(* Arguments. *)

\* The texts of the tokens of l from k on, c of them behind k.
Texts(l, k, c) == [h \in 1..(c + 1) |-> l[k + h - 1].value]

\* The token t has taken c arguments.
Given(t, l, k, c) == IF c = 0 THEN t.args = <<>> ELSE t.args = Texts(l, k, c)
Same(t, u) == t.value = u.value /\ t.type = u.type /\ t.coretype = u.coretype /\ t.rank = u.rank

\* No command takes such a token.
Stops(t) == t.rank = RANK_S \/ t.coretype = "REDIR"

\* The token k of l can take the r tokens behind it, and no more.
Absorbs(l, k, r) ==
  /\ l \in Seq(Token) /\ k \in 1..Len(l) /\ r \in Nat /\ k + r <= Len(l)
  /\ l[k].args = <<>> /\ l[k].value \in Seq(Symbol)
  /\ \A h \in 1..r : /\ l[k + h].coretype # "REDIR" /\ l[k + h].rank # RANK_S
                     /\ l[k + h].value \in Seq(Symbol) \/ (h = r /\ l[k + h].value = NULL)
  /\ k + r < Len(l) => Stops(l[k + r + 1])

AllTexts(l, k, c) == c \in Nat /\ k \in Nat /\ \A h \in 0..c : l[k + h].value \in Seq(Symbol)
TextsRead(l, k, c, v) ==
  /\ v \in Seq(Seq(Symbol)) /\ Len(v) = c + 1 /\ v # <<>>
  /\ \A h \in 1..(c + 1) : v[h] = l[k + h - 1].value

LEMMA TextsOf ==
  ASSUME NEW l, NEW k, NEW c, AllTexts(l, k, c), NEW v, v = Texts(l, k, c)
  PROVE  TextsRead(l, k, c, v)
<1>0. c \in Nat /\ k \in Nat /\ \A h \in 0..c : l[k + h].value \in Seq(Symbol)
  BY DEF AllTexts
<1>1. \A h \in 1..(c + 1) : h - 1 \in 0..c /\ k + (h - 1) = k + h - 1
  BY <1>0
<1>2. PICK n \in Nat : n = c + 1
  BY <1>0
<1>3. v = [h \in 1..n |-> l[k + h - 1].value]
  BY <1>2 DEF Texts
<1>4. \A h \in 1..n : l[k + h - 1].value \in Seq(Symbol)
  BY <1>0, <1>1, <1>2
<1>5. v \in [1..n -> Seq(Symbol)]
  BY <1>3, <1>4
<1>6. v \in Seq(Seq(Symbol)) /\ Len(v) = n
  BY <1>3, <1>5
<1>7. v # <<>>
  BY <1>0, <1>2, <1>6
<1> QED
  BY <1>2, <1>3, <1>6, <1>7 DEF TextsRead

\* One more argument.
LEMMA ArgumentGiven ==
  ASSUME NEW l, NEW k \in Nat, NEW h \in Nat, NEW g \in Nat, g = h + 1,
         AllTexts(l, k, g),
         NEW t \in Token, Given(t, l, k, h), t.value = l[k].value,
         NEW arg, arg.value = l[k + g].value, NEW u, u = join_and_split(t, arg)
  PROVE  u \in Token /\ Given(u, l, k, g) /\ u.args # <<>> /\ Same(u, t)
<1>1. PICK v : v = Texts(l, k, g)
  OBVIOUS
<1>2. /\ v \in Seq(Seq(Symbol)) /\ Len(v) = g + 1 /\ v # <<>>
      /\ \A j \in 1..(g + 1) : v[j] = l[k + j - 1].value
  <2>1. TextsRead(l, k, g, v)
    BY <1>1, TextsOf
  <2> QED
    BY <2>1 DEF TextsRead
<1>3. arg.value # NULL /\ arg.value \in Seq(Symbol) /\ t.value \in Seq(Symbol)
  <2>1. g \in 0..g /\ 0 \in 0..g /\ k + 0 = k
    OBVIOUS
  <2> QED
    BY <2>1, NoSuchString DEF AllTexts
<1>4. u = [t EXCEPT !.args = v]
  <2>1. CASE h = 0
    <3>1. t.args = <<>> /\ t.value # NULL
      BY <1>3, <2>1, NoSuchString DEF Given
    <3>2. u = [t EXCEPT !.args = <<t.value, arg.value>>]
      BY <1>3, <3>1 DEF join_and_split
    <3>3. v = <<t.value, arg.value>>
      <4>1. PICK w : w = <<t.value, arg.value>>
        OBVIOUS
      <4>2. w \in Seq(Seq(Symbol)) /\ Len(w) = 2 /\ w[1] = t.value /\ w[2] = arg.value
        BY <1>3, <4>1
      <4>3. Len(v) = 2 /\ v[1] = t.value /\ v[2] = arg.value
        <5>1. g = 1 /\ 1 \in 1..(g + 1) /\ 2 \in 1..(g + 1) /\ k + 1 - 1 = k /\ k + 2 - 1 = k + g
          BY <2>1
        <5> QED
          BY <1>2, <5>1
      <4>4. \A j \in 1..Len(v) : v[j] = w[j]
        <5>1. \A j \in 1..2 : j = 1 \/ j = 2
          OBVIOUS
        <5> QED
          BY <4>2, <4>3, <5>1
      <4>5. v = w
        BY <1>2, <4>2, <4>3, <4>4, SeqEqual
      <4> QED
        BY <4>1, <4>5
    <3> QED
      BY <3>2, <3>3
  <2>2. CASE h # 0
    <3>1. PICK w : w = Texts(l, k, h)
      OBVIOUS
    <3>2. AllTexts(l, k, h)
      <4>1. \A j \in 0..h : j \in 0..g
        OBVIOUS
      <4> QED
        BY <4>1 DEF AllTexts
    <3>3. /\ w \in Seq(Seq(Symbol)) /\ Len(w) = h + 1 /\ w # <<>>
          /\ \A j \in 1..(h + 1) : w[j] = l[k + j - 1].value
      BY <3>1, <3>2, TextsOf DEF TextsRead
    <3>4. t.args = w
      BY <2>2, <3>1 DEF Given
    <3>5. u = [t EXCEPT !.args = Append(w, arg.value)]
      BY <1>3, <3>3, <3>4 DEF join_and_split
    <3>6. Append(w, arg.value) = v
      <4>1. PICK x : x = Append(w, arg.value)
        OBVIOUS
      <4>2. /\ x \in Seq(Seq(Symbol)) /\ Len(x) = h + 2 /\ x[h + 2] = arg.value
            /\ \A j \in 1..(h + 1) : x[j] = w[j]
        BY <1>3, <3>3, <4>1
      <4>3. ASSUME NEW j \in 1..(h + 2)
            PROVE  v[j] = x[j]
        <5>1. CASE j = h + 2
          <6>1. j \in 1..(g + 1) /\ k + j - 1 = k + g
            BY <5>1
          <6> QED
            BY <1>2, <4>2, <5>1, <6>1
        <5>2. CASE j # h + 2
          <6>1. j \in 1..(g + 1) /\ j \in 1..(h + 1)
            BY <5>2
          <6> QED
            BY <1>2, <3>3, <4>2, <6>1
        <5> QED
          BY <5>1, <5>2
      <4>4. Len(v) = h + 2
        BY <1>2
      <4>5. v = x
        BY <1>2, <4>2, <4>3, <4>4, SeqEqual
      <4> QED
        BY <4>1, <4>5
    <3> QED
      BY <3>5, <3>6
  <2> QED
    BY <2>1, <2>2
<1>5. u \in Token /\ u.args = v /\ Same(u, t)
  BY <1>2, <1>4 DEF Token, Same
<1>6. g # 0
  OBVIOUS
<1> QED
  BY <1>1, <1>2, <1>5, <1>6 DEF Given

\* L is the list l whose token k has taken the h behind it, c as arguments.
Folded(l, k, h, c, L) ==
  /\ L \in Seq(Token) /\ Len(L) = Len(l) - h
  /\ \A p \in 1..(k - 1) : L[p] = l[p]
  /\ \A p \in (k + 1)..(Len(l) - h) : L[p] = l[p + h]
  /\ Given(L[k], l, k, c) /\ Same(L[k], l[k])

\* A token without a value is no argument.
Count(l, k, r) == IF r > 0 /\ l[k + r].value = NULL THEN r - 1 ELSE r

\* What cmd_handler_args has after j turns.
TakenTo(l, k, r, j, y) ==
  /\ y \in [list : Seq(Token), on : BOOLEAN]
  /\ j < r => y.on /\ Folded(l, k, j, j, y.list)
  /\ j >= r => Folded(l, k, r, Count(l, k, r), y.list)

Replaced(l, k, u, m) ==
  /\ m \in Seq(Token) /\ Len(m) = Len(l) - 1
  /\ \A p \in 1..(Len(l) - 1) :
        m[p] = IF p < k THEN l[p] ELSE IF p = k THEN u ELSE l[p + 1]

LEMMA ReplacedIs ==
  ASSUME NEW l \in Seq(Token), NEW k \in 1..(Len(l) - 1), NEW u \in Token,
         NEW m, m = Absorbed(l, k, u)
  PROVE  Replaced(l, k, u, m)
<1>1. \A v \in Token :
        /\ Absorbed(l, k, v) \in Seq(Token) /\ Len(Absorbed(l, k, v)) = Len(l) - 1
        /\ \A p \in 1..(Len(l) - 1) :
             Absorbed(l, k, v)[p] = IF p < k THEN l[p] ELSE IF p = k THEN v ELSE l[p + 1]
  <2>1. l \in Seq(Token) /\ k \in 1..(Len(l) - 1)
    OBVIOUS
  <2> QED
    BY <2>1, AbsorbedIs
<1>2. Absorbed(l, k, u) = m
  OBVIOUS
<1>3. m \in Seq(Token) /\ Len(m) = Len(l) - 1
  BY <1>1, <1>2
<1>4. \A p \in 1..(Len(l) - 1) :
        m[p] = IF p < k THEN l[p] ELSE IF p = k THEN u ELSE l[p + 1]
  BY <1>1, <1>2
<1> QED
  BY <1>3, <1>4 DEF Replaced

LEMMA FoldList ==
  ASSUME NEW l, NEW k \in Nat \ {0}, NEW h \in Nat, NEW g \in Nat, g = h + 1, NEW m \in Nat, m = Len(l),
         k + g <= m, l \in Seq(Token), NEW c, NEW d, NEW L, Folded(l, k, h, c, L),
         NEW u \in Token, Given(u, l, k, d), Same(u, L[k]), NEW M, M = Absorbed(L, k, u)
  PROVE  Folded(l, k, g, d, M)
<1>1. /\ L \in Seq(Token) /\ Len(L) = m - h
      /\ \A p \in 1..(k - 1) : L[p] = l[p]
      /\ \A p \in (k + 1)..(m - h) : L[p] = l[p + h]
      /\ Same(L[k], l[k])
  BY DEF Folded
<1>2. k \in 1..(Len(L) - 1)
  BY <1>1
<1>3. /\ M \in Seq(Token) /\ Len(M) = Len(L) - 1
      /\ \A p \in 1..(Len(L) - 1) :
            M[p] = IF p < k THEN L[p] ELSE IF p = k THEN u ELSE L[p + 1]
  <2>1. L \in Seq(Token) /\ k \in 1..(Len(L) - 1) /\ u \in Token
    BY <1>1, <1>2
  <2>2. Replaced(L, k, u, M)
    BY <2>1, ReplacedIs
  <2> QED
    BY <2>2 DEF Replaced
<1>4. Len(M) = m - g
  BY <1>1, <1>3
<1>5. ASSUME NEW p \in 1..(k - 1)
      PROVE  M[p] = l[p]
  <2>1. p \in 1..(Len(L) - 1) /\ p < k
    BY <1>2
  <2> QED
    BY <1>1, <1>3, <2>1
<1>6. ASSUME NEW p \in (k + 1)..(m - g)
      PROVE  M[p] = l[p + g]
  <2>1. p \in 1..(Len(L) - 1) /\ ~ (p < k) /\ p # k
    BY <1>1
  <2>2. M[p] = L[p + 1]
    BY <1>3, <2>1
  <2>3. p + 1 \in (k + 1)..(m - h) /\ p + 1 + h = p + g
    OBVIOUS
  <2> QED
    BY <1>1, <2>2, <2>3
<1>7. M[k] = u
  BY <1>2, <1>3
<1>8. Same(u, l[k])
  BY <1>1 DEF Same
<1> QED
  BY <1>3, <1>4, <1>5, <1>6, <1>7, <1>8 DEF Folded

LEMMA FoldNext ==
  ASSUME NEW l, NEW k \in Nat \ {0}, NEW r \in Nat, Absorbs(l, k, r), NEW j \in Nat, NEW g \in Nat, g = j + 1,
         NEW y, TakenTo(l, k, r, j, y), NEW z, z = TakeArgument(y, k)
  PROVE  TakenTo(l, k, r, g, z)
<1>1. /\ l \in Seq(Token) /\ k + r <= Len(l) /\ Len(l) \in Nat
      /\ l[k].args = <<>> /\ l[k].value \in Seq(Symbol)
      /\ \A h \in 1..r : /\ l[k + h].coretype # "REDIR" /\ l[k + h].rank # RANK_S
                         /\ l[k + h].value \in Seq(Symbol) \/ (h = r /\ l[k + h].value = NULL)
      /\ k + r < Len(l) => Stops(l[k + r + 1])
  BY DEF Absorbs
<1>2. PICK m \in Nat : m = Len(l)
  BY <1>1
<1>3. PICK L : L = y.list
  OBVIOUS
<1>4. y \in [list : Seq(Token), on : BOOLEAN] /\ L \in Seq(Token)
  BY <1>3 DEF TakenTo
<1>5. CASE j >= r
  <2>1. Folded(l, k, r, Count(l, k, r), L)
    BY <1>3, <1>5 DEF TakenTo
  <2>2. Len(L) = m - r /\ \A p \in (k + 1)..(m - r) : L[p] = l[p + r]
    BY <1>2, <2>1 DEF Folded
  <2>3. k = Len(L) \/ Stops(L[k + 1])
    <3>1. CASE k + r = m
      BY <2>2, <3>1
    <3>2. CASE k + r # m
      <4>1. k + r < m /\ k + 1 \in (k + 1)..(m - r) /\ k + 1 + r = k + r + 1
        BY <1>1, <1>2, <3>2
      <4>2. L[k + 1] = l[k + r + 1]
        BY <2>2, <4>1
      <4> QED
        BY <1>1, <1>2, <4>1, <4>2
    <3> QED
      BY <3>1, <3>2
  <2>4. z = y
    BY <1>3, <2>3 DEF TakeArgument, Stops
  <2>5. ~ (g < r) /\ g >= r
    BY <1>5
  <2> QED
    BY <1>3, <1>4, <2>1, <2>4, <2>5 DEF TakenTo
<1>6. CASE j < r
  <2>1. y.on /\ Folded(l, k, j, j, L)
    BY <1>3, <1>6 DEF TakenTo
  <2>2. /\ Len(L) = m - j /\ \A p \in (k + 1)..(m - j) : L[p] = l[p + j]
        /\ Given(L[k], l, k, j) /\ Same(L[k], l[k])
    BY <1>2, <2>1 DEF Folded
  <2>3. g \in 1..r /\ k + g <= m /\ k < m - j
    BY <1>1, <1>2, <1>6
  <2>4. k + 1 \in (k + 1)..(m - j) /\ k + 1 + j = k + g
    BY <2>3
  <2>5. L[k + 1] = l[k + g]
    BY <2>2, <2>4
  <2>6. PICK arg : arg = l[k + g]
    OBVIOUS
  <2>7. /\ arg.coretype # "REDIR" /\ arg.rank # RANK_S
        /\ arg.value \in Seq(Symbol) \/ (g = r /\ arg.value = NULL)
    BY <1>1, <2>3, <2>6
  <2>8. PICK t \in Token : t = L[k]
    <3>1. k \in 1..Len(L)
      BY <2>2, <2>3
    <3> QED
      BY <1>4, <3>1
  <2>9. PICK u : u = join_and_split(t, arg)
    OBVIOUS
  <2>10. z = [list |-> Absorbed(L, k, u), on |-> u.args # <<>>]
    <3>1. k # Len(L)
      BY <2>2, <2>3
    <3> QED
      BY <1>3, <2>1, <2>5, <2>6, <2>7, <2>8, <2>9, <3>1 DEF TakeArgument
  <2>11. PICK M : M = Absorbed(L, k, u)
    OBVIOUS
  <2>12. t.value = l[k].value /\ Given(t, l, k, j) /\ Same(t, L[k])
    BY <2>2, <2>8 DEF Same
  <2>13. CASE arg.value = NULL
    <3>1. u = t /\ g = r /\ arg.value \notin Seq(Symbol)
      BY <2>7, <2>9, <2>13, NoSuchString DEF join_and_split
    <3>2. Folded(l, k, g, j, M)
      BY <1>1, <1>2, <2>1, <2>3, <2>11, <2>12, <3>1, FoldList
    <3>3. Count(l, k, r) = j
      BY <2>6, <2>13, <3>1 DEF Count
    <3>4. z \in [list : Seq(Token), on : BOOLEAN] /\ z.list = M
      BY <2>10, <2>11, <3>2 DEF Folded
    <3> QED
      BY <3>1, <3>2, <3>3, <3>4 DEF TakenTo
  <2>14. CASE arg.value # NULL
    <3>1. AllTexts(l, k, g)
      <4>1. ASSUME NEW h \in 0..g
            PROVE  l[k + h].value \in Seq(Symbol)
        <5>1. CASE h = 0
          <6>1. k + h = k
            BY <5>1
          <6> QED
            BY <1>1, <6>1
        <5>2. CASE h = g
          BY <2>6, <2>7, <2>14, <5>2
        <5>3. CASE h # 0 /\ h # g
          <6>1. h \in 1..r /\ h # r
            BY <2>3, <5>3
          <6> QED
            BY <1>1, <6>1
        <5> QED
          BY <5>1, <5>2, <5>3
      <4> QED
        BY <4>1 DEF AllTexts
    <3>2. u \in Token /\ Given(u, l, k, g) /\ u.args # <<>> /\ Same(u, t)
      <4>1. arg.value = l[k + g].value /\ t.value = l[k].value
        BY <2>6, <2>12
      <4>2. k \in Nat
        OBVIOUS
      <4> QED
        BY <2>9, <2>12, <3>1, <4>1, <4>2, ArgumentGiven
    <3>3. Same(u, L[k])
      BY <2>8, <3>2
    <3>4. Folded(l, k, g, g, M)
      BY <1>1, <1>2, <2>1, <2>3, <2>11, <3>2, <3>3, FoldList
    <3>5. z \in [list : Seq(Token), on : BOOLEAN] /\ z.list = M /\ z.on
      <4>1. M \in Seq(Token)
        BY <3>4 DEF Folded
      <4>2. PICK b \in BOOLEAN : b = (u.args # <<>>)
        OBVIOUS
      <4>3. z = [list |-> M, on |-> b] /\ b
        BY <2>10, <2>11, <3>2, <4>2
      <4> QED
        BY <4>1, <4>3
    <3>6. g >= r => Count(l, k, r) = g /\ g = r
      BY <2>3, <2>6, <2>14 DEF Count
    <3> QED
      BY <3>4, <3>5, <3>6 DEF TakenTo
  <2> QED
    BY <2>13, <2>14
<1> QED
  BY <1>5, <1>6

LEMMA TakesAll ==
  ASSUME NEW l, NEW k \in Nat \ {0}, NEW r \in Nat, Absorbs(l, k, r)
  PROVE  Folded(l, k, r, Count(l, k, r), cmd_handler_args(l, k))
<1>0. /\ l \in Seq(Token) /\ Len(l) \in Nat /\ k + r <= Len(l)
      /\ l[k].args = <<>>
  BY DEF Absorbs
<1> DEFINE n == Len(l) - k
           U == [list : Seq(Token), on : BOOLEAN]
           A(j) == {y \in U : TakenTo(l, k, r, j, y)}
           I == [j \in 0..n |-> A(j)]
           x == [list |-> l, on |-> TRUE]
           g == [p \in U \X (1..n) |-> TakeArgument(p[1], k)]
<1>1. n \in Nat /\ r <= n
  BY <1>0
<1>2. x \in A(0)
  <2>1. x \in U /\ x.on /\ x.list = l
    BY <1>0
  <2>2. Folded(l, k, 0, 0, l)
    <3>1. Given(l[k], l, k, 0) /\ Same(l[k], l[k])
      BY <1>0 DEF Given, Same
    <3>2. \A p \in (k + 1)..(Len(l) - 0) : l[p] = l[p + 0]
      BY <1>0
    <3>3. Len(l) = Len(l) - 0
      BY <1>0
    <3> QED
      BY <1>0, <3>1, <3>2, <3>3 DEF Folded
  <2>3. 0 >= r => r = 0 /\ Count(l, k, r) = 0
    BY DEF Count
  <2> HIDE DEF x
  <2> QED
    BY <2>1, <2>2, <2>3 DEF TakenTo
<1>3. ASSUME NEW j \in 1..n, NEW y \in A(j - 1)
      PROVE  y \in U /\ TakeArgument(y, k) \in A(j)
  <2>1. PICK h \in Nat : h = j - 1
    OBVIOUS
  <2>2. TakenTo(l, k, r, h, y) /\ j = h + 1 /\ j \in Nat
    BY <2>1
  <2>3. PICK z : z = TakeArgument(y, k)
    OBVIOUS
  <2>4. TakenTo(l, k, r, j, z)
    BY <2>2, <2>3, FoldNext
  <2>5. z \in U
    BY <2>4 DEF TakenTo
  <2> HIDE DEF U
  <2> QED
    BY <2>3, <2>4, <2>5
<1>4. \A j \in 0..n : I[j] = A(j)
  OBVIOUS
<1>5. \A j \in 1..n : \A y \in A(j - 1) :
        y \in U /\ g[<<y, j>>] = TakeArgument(y, k) /\ TakeArgument(y, k) \in A(j)
  BY <1>3
<1>6. \A j \in 0..n : A(j) \subseteq U
  OBVIOUS
<1> HIDE DEF A, I, g, x, n, U
<1>7. PICK f : f \in Loops(U, n, I, x, g)
  <2>1. x \in I[0] /\ \A j \in 0..n : I[j] \subseteq U
    BY <1>1, <1>2, <1>4, <1>6
  <2>2. \A j \in 1..n : \A y \in I[j - 1] : g[<<y, j>>] \in I[j]
    <3>1. \A j \in 1..n : j - 1 \in 0..n /\ j \in 0..n
      BY <1>1
    <3> QED
      BY <1>4, <1>5, <3>1
  <2> QED
    BY <1>1, <2>1, <2>2, Iterates
<1>8. f = [j \in 0..n |-> IF j = 0 THEN x ELSE TakeArgument(f[j - 1], k)]
  <2>1. \A j \in 1..n : f[j] = TakeArgument(f[j - 1], k)
    <3> SUFFICES ASSUME NEW j \in 1..n
                 PROVE  f[j] = TakeArgument(f[j - 1], k)
      OBVIOUS
    <3>1. j - 1 \in 0..n
      BY <1>1
    <3> QED
      BY <1>4, <1>5, <1>7, <3>1 DEF Loops
  <2>2. \A j \in 0..n : f[j] = IF j = 0 THEN x ELSE TakeArgument(f[j - 1], k)
    BY <1>1, <1>7, <2>1 DEF Loops
  <2> QED
    BY <1>7, <2>2 DEF Loops
<1>9. PICK h : /\ h = [j \in 0..n |-> IF j = 0 THEN x ELSE TakeArgument(h[j - 1], k)]
               /\ cmd_handler_args(l, k) = h[n].list
  BY <1>8 DEF cmd_handler_args, Turns, n, x
<1> DEFINE T == {j \in 0..n : h[j] \in A(j)}
<1>10. 0 \in T
  BY <1>1, <1>2, <1>9
<1>11. ASSUME NEW j \in 1..n, j - 1 \in T
       PROVE  j \in T
  <2>1. j \in 0..n /\ j # 0 /\ h[j - 1] \in A(j - 1)
    BY <1>1, <1>11
  <2>2. h[j] = TakeArgument(h[j - 1], k)
    BY <1>9, <2>1
  <2> QED
    BY <1>5, <2>1, <2>2
<1>12. h[n] \in A(n)
  <2>1. \A j \in 0..n : j \in T
    <3> HIDE DEF T
    <3> QED
      BY <1>1, <1>10, <1>11, UpTo
  <2> QED
    BY <1>1, <2>1
<1>13. TakenTo(l, k, r, n, h[n])
  BY <1>12 DEF A
<1>14. n >= r
  BY <1>1
<1> QED
  BY <1>9, <1>13, <1>14 DEF TakenTo

\* The token t is the command words ask for.
CommandOf(t, words, e) ==
  /\ t.coretype \in {"CMD", "WORD"} /\ t.type \in {"CMD", "WORD"}
  /\ t.rank \in {RANK_B, RANK_C} /\ t.value \in Seq(Symbol)
  /\ (IF t.args = <<>> THEN <<t.value>> ELSE t.args)
       = [k \in DOMAIN words |-> Meaning(words[k], e)]

\* The tokens of l from k on stand for words.
Speaks(l, k, c, words, e) ==
  /\ k \in Nat /\ c \in Nat /\ DOMAIN words = 1..(c + 1) /\ OfWord(l[k])
  /\ \A h \in 0..c : /\ l[k + h].value \in Seq(Symbol)
                     /\ l[k + h].value = Meaning(words[h + 1], e)

LEMMA FoldedCommand ==
  ASSUME NEW l, NEW k, NEW c, NEW words, NEW e, Speaks(l, k, c, words, e),
         NEW r, NEW L, Folded(l, k, r, c, L), NEW t, t = L[k]
  PROVE  CommandOf(t, words, e)
<1>1. /\ k \in Nat /\ c \in Nat /\ DOMAIN words = 1..(c + 1) /\ OfWord(l[k])
      /\ \A h \in 0..c : /\ l[k + h].value \in Seq(Symbol)
                         /\ l[k + h].value = Meaning(words[h + 1], e)
  BY DEF Speaks
<1>2. Given(t, l, k, c) /\ Same(t, l[k])
  BY DEF Folded
<1>3. /\ t.coretype \in {"CMD", "WORD"} /\ t.type \in {"CMD", "WORD"}
      /\ t.rank \in {RANK_B, RANK_C} /\ t.value \in Seq(Symbol) /\ t.value = l[k].value
  BY <1>1, <1>2 DEF OfWord, Same
<1>4. PICK v : v = [j \in DOMAIN words |-> Meaning(words[j], e)]
  OBVIOUS
<1>5. AllTexts(l, k, c)
  BY <1>1 DEF AllTexts
<1>6. PICK w : w = Texts(l, k, c)
  OBVIOUS
<1>7. w \in Seq(Seq(Symbol)) /\ Len(w) = c + 1 /\ w # <<>> /\ \A j \in 1..(c + 1) : w[j] = l[k + j - 1].value
  <2>1. TextsRead(l, k, c, w)
    BY <1>5, <1>6, TextsOf
  <2> QED
    BY <2>1 DEF TextsRead
<1>8. w = v
  <2>1. PICK n \in Nat : n = c + 1
    BY <1>1
  <2>2. v = [j \in 1..n |-> Meaning(words[j], e)]
    BY <1>1, <1>4, <2>1
  <2>3. ASSUME NEW j \in 1..n
        PROVE  w[j] = Meaning(words[j], e)
    <3>1. PICK h \in 0..c : j = h + 1
      <4>1. j - 1 \in 0..c /\ j = j - 1 + 1
        BY <1>1, <2>1
      <4> QED
        BY <4>1
    <3>2. k + j - 1 = k + h
      BY <1>1, <3>1
    <3> QED
      BY <1>1, <1>7, <2>1, <3>1, <3>2
  <2>4. DOMAIN w = 1..n /\ w = [j \in 1..n |-> w[j]]
    BY <1>1, <1>7, <2>1
  <2> QED
    BY <2>2, <2>3, <2>4
<1>9. (IF t.args = <<>> THEN <<t.value>> ELSE t.args) = w
  <2>1. CASE c = 0
    <3>1. t.args = <<>>
      BY <1>2, <2>1 DEF Given
    <3>2. PICK s \in Seq(Symbol) : s = t.value
      BY <1>3
    <3>3. PICK u : u = <<s>>
      OBVIOUS
    <3>4. u \in Seq(Seq(Symbol)) /\ Len(u) = 1 /\ u[1] = s
      BY <3>2, <3>3
    <3>5. Len(w) = 1 /\ w[1] = s
      <4>1. 1 \in 1..(c + 1) /\ k + 1 - 1 = k
        BY <1>1, <2>1
      <4> QED
        BY <1>3, <1>7, <2>1, <3>2, <4>1
    <3>6. \A j \in 1..Len(w) : w[j] = u[j]
      <4>1. \A j \in 1..1 : j = 1
        OBVIOUS
      <4> QED
        BY <3>4, <3>5, <4>1
    <3>7. w = u
      BY <1>7, <3>4, <3>5, <3>6, SeqEqual
    <3> QED
      BY <3>1, <3>2, <3>3, <3>7
  <2>2. CASE c # 0
    BY <1>2, <1>6, <1>7, <2>2 DEF Given
  <2> QED
    BY <2>1, <2>2
<1> QED
  BY <1>3, <1>4, <1>8, <1>9 DEF CommandOf

\* The loop over the list.
LEMMA AttachLoop ==
  ASSUME NEW l \in Seq(Token), NEW I, l \in I[0],
         \A j \in 0..Len(l) : I[j] \subseteq Seq(Token),
         \A j \in 1..Len(l) : \A y \in I[j - 1] : AttachTo(y, j) \in I[j]
  PROVE  handler_args_file(l) \in I[Len(l)]
<1> DEFINE n == Len(l)
           U == Seq(Token)
           g == [p \in U \X (1..n) |-> AttachTo(p[1], p[2])]
<1>1. n \in Nat
  OBVIOUS
<1>2. \A j \in 1..n : j - 1 \in 0..n
  BY <1>1
<1>3. \A j \in 1..n : \A y \in I[j - 1] : y \in U /\ g[<<y, j>>] = AttachTo(y, j) /\ AttachTo(y, j) \in I[j]
  BY <1>2
<1>4. \A j \in 0..n : I[j] \subseteq U
  OBVIOUS
<1> HIDE DEF g, n, U
<1>5. PICK f : f \in Loops(U, n, I, l, g)
  <2>1. \A j \in 1..n : \A y \in I[j - 1] : g[<<y, j>>] \in I[j]
    BY <1>3
  <2> QED
    BY <1>1, <1>4, <2>1, Iterates
<1>6. f = [j \in 0..n |-> IF j = 0 THEN l ELSE AttachTo(f[j - 1], j)]
  <2>1. \A j \in 1..n : f[j] = AttachTo(f[j - 1], j)
    <3> SUFFICES ASSUME NEW j \in 1..n
                 PROVE  f[j] = AttachTo(f[j - 1], j)
      OBVIOUS
    <3> QED
      BY <1>2, <1>3, <1>5 DEF Loops
  <2>2. \A j \in 0..n : f[j] = IF j = 0 THEN l ELSE AttachTo(f[j - 1], j)
    BY <1>1, <1>5, <2>1 DEF Loops
  <2> QED
    BY <1>5, <2>2 DEF Loops
<1>7. PICK h : /\ h = [j \in 0..n |-> IF j = 0 THEN l ELSE AttachTo(h[j - 1], j)]
               /\ handler_args_file(l) = h[n]
  BY <1>6 DEF handler_args_file, Turns, n
<1> DEFINE T == {j \in 0..n : h[j] \in I[j]}
<1>8. 0 \in T
  BY <1>1, <1>7
<1>9. ASSUME NEW j \in 1..n, j - 1 \in T
      PROVE  j \in T
  <2>1. j \in 0..n /\ j # 0 /\ h[j - 1] \in I[j - 1]
    BY <1>1, <1>9
  <2>2. h[j] = AttachTo(h[j - 1], j)
    BY <1>7, <2>1
  <2> QED
    BY <1>3, <2>1, <2>2
<1>10. h[n] \in I[n]
  <2>1. \A j \in 0..n : j \in T
    <3> HIDE DEF T
    <3> QED
      BY <1>1, <1>8, <1>9, UpTo
  <2> QED
    BY <1>1, <2>1
<1> QED
  BY <1>7, <1>10 DEF n

\* A turn at a command, at a pipe, and past the end.
LEMMA AttachCommand ==
  ASSUME NEW l, NEW k \in Nat \ {0}, NEW r \in Nat, Absorbs(l, k, r), OfWord(l[k]), NEW y, y = AttachTo(l, k)
  PROVE  Folded(l, k, r, Count(l, k, r), y)
<1>1. l \in Seq(Token) /\ Len(l) \in Nat /\ k <= Len(l)
  BY DEF Absorbs
<1>2. l[k].coretype \in {"CMD", "WORD"}
  BY DEF OfWord
<1>3. redir_handler_file(l, k) = l
  BY <1>2 DEF redir_handler_file
<1>4. y = cmd_handler_args(l, k)
  BY <1>1, <1>2, <1>3 DEF AttachTo
<1> QED
  BY <1>4, TakesAll

LEMMA AttachOther ==
  ASSUME NEW l, NEW k, k > Len(l) \/ l[k].coretype = "PIPE"
  PROVE  AttachTo(l, k) = l
<1>1. CASE k > Len(l)
  BY <1>1 DEF AttachTo
<1>2. CASE ~ (k > Len(l)) /\ l[k].coretype = "PIPE"
  BY <1>2 DEF AttachTo, redir_handler_file
<1> QED
  BY <1>1, <1>2

\* What a line of words becomes.
OneCommand(y, items, e) ==
  y \in Seq(Token) /\ Len(y) = 1 /\ CommandOf(y[1], items, e)

LEMMA ReadyWord ==
  ASSUME NEW items, NEW e, NEW x, Ready(x, items, e), NEW k \in 1..Len(items), Word(items[k]),
         NEW t, t = x[k]
  PROVE  /\ OfWord(t) /\ t.value = Meaning(items[k], e)
         /\ t.coretype # "REDIR" /\ t.rank # RANK_S /\ t.args = <<>> /\ t.value \in Seq(Symbol)
<1>1. OfWord(t) /\ t.value = Meaning(items[k], e)
  BY DEF Ready
<1> QED
  BY <1>1 DEF OfWord, RANK_S, RANK_B, RANK_C

LEMMA ReadyEnd ==
  ASSUME NEW items, NEW e, NEW x, Ready(x, items, e), NEW m, m = Len(items) + 1, NEW t, t = x[m]
  PROVE  t.value = NULL /\ t.coretype # "REDIR" /\ t.rank # RANK_S
<1>1. Trailing(t)
  BY DEF Ready
<1> QED
  BY <1>1 DEF Trailing, RANK_S, RANK_B, RANK_C

LEMMA WordsAttached ==
  ASSUME NEW items \in Seq(ItemSet), NEW e, items # <<>>, \A k \in 1..Len(items) : Word(items[k]),
         NEW x, Ready(x, items, e), NEW y, y = handler_args_file(x)
  PROVE  OneCommand(y, items, e)
<1>1. PICK m \in Nat : m = Len(items) /\ m # 0
  <2>1. Len(items) \in Nat /\ Len(items) # 0
    OBVIOUS
  <2> QED
    BY <2>1
<1>2. x \in Seq(Token) /\ Len(x) = m + 1
  BY <1>1 DEF Ready
<1>3. \A k \in 1..m : /\ OfWord(x[k]) /\ x[k].value = Meaning(items[k], e)
                      /\ x[k].coretype # "REDIR" /\ x[k].rank # RANK_S
                      /\ x[k].args = <<>> /\ x[k].value \in Seq(Symbol)
  BY <1>1, ReadyWord
<1>4. x[m + 1].value = NULL /\ x[m + 1].coretype # "REDIR" /\ x[m + 1].rank # RANK_S
  <2>1. PICK q : q = m + 1
    OBVIOUS
  <2>2. x[q].value = NULL /\ x[q].coretype # "REDIR" /\ x[q].rank # RANK_S
    BY <1>1, <2>1, ReadyEnd
  <2> QED
    BY <2>1, <2>2
<1>5. Absorbs(x, 1, m)
  <2>1. 1 \in 1..m /\ 1 \in 1..Len(x) /\ 1 + m <= Len(x) /\ ~ (1 + m < Len(x))
    BY <1>1, <1>2
  <2>2. ASSUME NEW h \in 1..m
        PROVE  /\ x[1 + h].coretype # "REDIR" /\ x[1 + h].rank # RANK_S
               /\ x[1 + h].value \in Seq(Symbol) \/ (h = m /\ x[1 + h].value = NULL)
    <3>1. PICK q : q = 1 + h
      OBVIOUS
    <3>2. CASE h = m
      BY <1>1, <1>4, <3>1, <3>2
    <3>3. CASE h # m
      <4>1. q \in 1..m
        BY <1>1, <3>1, <3>3
      <4> QED
        BY <1>3, <3>1, <4>1
    <3> QED
      BY <3>2, <3>3
  <2> QED
    BY <1>2, <1>3, <2>1, <2>2 DEF Absorbs
<1>6. PICK c \in Nat : m = c + 1
  <2>1. m - 1 \in Nat /\ m = m - 1 + 1
    BY <1>1
  <2> QED
    BY <2>1
<1>7. Speaks(x, 1, c, items, e)
  <2>1. OfWord(x[1]) /\ DOMAIN items = 1..(c + 1)
    <3>1. 1 \in 1..m
      BY <1>1
    <3>2. OfWord(x[1])
      BY <1>3, <3>1
    <3>3. DOMAIN items = 1..Len(items)
      OBVIOUS
    <3> QED
      BY <1>1, <1>6, <3>2, <3>3
  <2>2. ASSUME NEW h \in 0..c
        PROVE  x[1 + h].value \in Seq(Symbol) /\ x[1 + h].value = Meaning(items[h + 1], e)
    <3>1. PICK q \in 1..m : q = h + 1 /\ q = 1 + h
      <4>1. h + 1 \in 1..m /\ h + 1 = 1 + h
        BY <1>6
      <4> QED
        BY <4>1
    <3> QED
      BY <1>3, <3>1
  <2> QED
    BY <1>6, <2>1, <2>2 DEF Speaks
<1>8. ASSUME NEW z, z = AttachTo(x, 1)
      PROVE  OneCommand(z, items, e)
  <2>1. OfWord(x[1])
    BY <1>7 DEF Speaks
  <2>2. Folded(x, 1, m, Count(x, 1, m), z)
    BY <1>5, <1>8, <2>1, AttachCommand
  <2>3. Count(x, 1, m) = c
    <3>1. PICK q : q = m + 1
      OBVIOUS
    <3>2. 1 + m = q /\ m > 0 /\ m - 1 = c
      BY <1>1, <1>6, <3>1
    <3> QED
      BY <1>4, <3>1, <3>2 DEF Count
  <2>4. Folded(x, 1, m, c, z)
    BY <2>2, <2>3
  <2>5. z \in Seq(Token) /\ Len(z) = 1
    <3>1. z \in Seq(Token) /\ Len(z) = Len(x) - m
      BY <2>4 DEF Folded
    <3> QED
      BY <1>1, <1>2, <3>1
  <2>6. CommandOf(z[1], items, e)
    BY <1>7, <2>4, FoldedCommand
  <2> QED
    BY <2>5, <2>6 DEF OneCommand
<1> DEFINE I == [j \in 0..Len(x) |-> IF j = 0 THEN {x} ELSE {z \in Seq(Token) : OneCommand(z, items, e)}]
<1>9. Len(x) \in Nat /\ Len(x) # 0
  BY <1>1, <1>2
<1>10. I[0] = {x} /\ \A j \in 1..Len(x) : I[j] = {z \in Seq(Token) : OneCommand(z, items, e)}
  BY <1>9
<1> HIDE DEF I
<1>11. \A j \in 0..Len(x) : I[j] \subseteq Seq(Token)
  <2>1. \A j \in 0..Len(x) : j = 0 \/ j \in 1..Len(x)
    BY <1>9
  <2> QED
    BY <1>2, <1>10, <2>1
<1>12. ASSUME NEW j \in 1..Len(x), NEW z \in I[j - 1]
       PROVE  AttachTo(z, j) \in I[j]
  <2>1. CASE j = 1
    <3>1. z = x
      BY <1>10, <2>1
    <3>2. OneCommand(AttachTo(z, j), items, e)
      BY <1>8, <2>1, <3>1
    <3> QED
      BY <1>10, <3>2 DEF OneCommand
  <2>2. CASE j # 1
    <3>1. j - 1 \in 1..Len(x)
      BY <1>9, <2>2
    <3>2. z \in Seq(Token) /\ OneCommand(z, items, e)
      BY <1>10, <3>1
    <3>3. j > Len(z)
      BY <2>2, <3>2 DEF OneCommand
    <3>4. AttachTo(z, j) = z
      BY <3>3, AttachOther
    <3> QED
      BY <1>10, <3>2, <3>4
  <2> QED
    BY <2>1, <2>2
<1>13. y \in I[Len(x)]
  BY <1>2, <1>10, <1>11, <1>12, AttachLoop
<1>14. Len(x) \in 1..Len(x)
  BY <1>9
<1> QED
  BY <1>10, <1>13, <1>14

\* What a line with one pipe becomes.
IsPipe(t) == t.type = "PIPE" /\ t.coretype = "PIPE" /\ t.rank = RANK_S
OnePipe(y, left, right, e) ==
  /\ y \in Seq(Token) /\ Len(y) = 3 /\ IsPipe(y[2])
  /\ CommandOf(y[1], left, e) /\ CommandOf(y[3], right, e)

\* Apart from p, items are words, and the tokens of x what they mean.
OnlyCut(items, p) == \A k \in 1..Len(items) : k # p => Word(items[k])
WordsReady(x, items, e, p) ==
  \A k \in 1..Len(items) : k # p =>
     /\ OfWord(x[k]) /\ x[k].value = Meaning(items[k], e)
     /\ x[k].coretype # "REDIR" /\ x[k].rank # RANK_S
     /\ x[k].args = <<>> /\ x[k].value \in Seq(Symbol)

LEMMA ReadyWords ==
  ASSUME NEW items, NEW e, NEW x, Ready(x, items, e), NEW p, OnlyCut(items, p)
  PROVE  WordsReady(x, items, e, p)
BY ReadyWord DEF OnlyCut, WordsReady

\* The list of a line with one operator, and the words on its sides.
Divides(x, items, e, p) ==
  /\ items \in Seq(ItemSet) /\ p \in 2..(Len(items) - 1) /\ OnlyCut(items, p)
  /\ Ready(x, items, e) /\ Stops(x[p])
LeftSide(items, p, r, left) ==
  /\ r \in Nat /\ p = r + 2
  /\ DOMAIN left = 1..(r + 1) /\ \A h \in 1..(r + 1) : left[h] = items[h]
RightSide(items, p, c, right) ==
  /\ c \in Nat /\ Len(items) = p + c + 1
  /\ DOMAIN right = 1..(c + 1) /\ \A h \in 1..(c + 1) : right[h] = items[p + h]

LEMMA LeftSideIs ==
  ASSUME NEW items \in Seq(ItemSet), NEW r \in Nat, NEW p, p = r + 2, p <= Len(items),
         NEW left, left = SubSeq(items, 1, p - 1)
  PROVE  LeftSide(items, p, r, left)
<1>1. PICK q \in 1..Len(items) : q = r + 1
  <2>1. r + 1 \in 1..Len(items)
    OBVIOUS
  <2> QED
    BY <2>1
<1>2. left = SubSeq(items, 1, q)
  BY <1>1
<1>3. left \in Seq(ItemSet) /\ Len(left) = q - 1 + 1 /\ \A h \in 1..(q - 1 + 1) : left[h] = items[1 + h - 1]
  BY <1>2, PieceIs
<1>4. q - 1 + 1 = r + 1 /\ \A h \in 1..(r + 1) : 1 + h - 1 = h
  BY <1>1
<1>5. DOMAIN left = 1..Len(left)
  BY <1>3
<1> QED
  BY <1>3, <1>4, <1>5 DEF LeftSide

\* The turn at the command on the left, and the one at the other.
LEMMA LeftAttached ==
  ASSUME NEW items, NEW e, NEW p, NEW x, Divides(x, items, e, p),
         NEW r, NEW left, LeftSide(items, p, r, left), NEW y, y = AttachTo(x, 1)
  PROVE  Folded(x, 1, r, r, y) /\ CommandOf(y[1], left, e)
<1>a. /\ items \in Seq(ItemSet) /\ p \in 2..(Len(items) - 1) /\ Ready(x, items, e) /\ Stops(x[p])
      /\ OnlyCut(items, p)
  BY DEF Divides
<1>b. /\ r \in Nat /\ p = r + 2
      /\ DOMAIN left = 1..(r + 1) /\ \A h \in 1..(r + 1) : left[h] = items[h]
  BY DEF LeftSide
<1>c. PICK m \in Nat : m = Len(items)
  BY <1>a
<1>d. p \in Nat /\ 2 <= p /\ p < m
  BY <1>a, <1>c
<1> USE <1>a, <1>b, <1>c, <1>d
<1>1. x \in Seq(Token) /\ Len(x) = m + 1
  BY DEF Ready
<1>2. \A k \in 1..m : k # p =>
         /\ OfWord(x[k]) /\ x[k].value = Meaning(items[k], e)
         /\ x[k].coretype # "REDIR" /\ x[k].rank # RANK_S
         /\ x[k].args = <<>> /\ x[k].value \in Seq(Symbol)
  <2>1. WordsReady(x, items, e, p)
    BY ReadyWords
  <2> QED
    BY <2>1 DEF WordsReady
<1>3. \A h \in 0..r : 1 + h \in 1..m /\ 1 + h # p /\ 1 + h = h + 1 /\ h + 1 \in 1..(r + 1)
  OBVIOUS
<1>4. /\ OfWord(x[1]) /\ x[1].args = <<>> /\ x[1].value \in Seq(Symbol)
  <2>1. 1 \in 1..m /\ 1 # p
    OBVIOUS
  <2> QED
    BY <1>2, <2>1
<1>5. Absorbs(x, 1, r)
  <2>1. 1 \in 1..Len(x) /\ 1 + r <= Len(x)
    BY <1>1
  <2>2. ASSUME NEW h \in 1..r
        PROVE  /\ x[1 + h].coretype # "REDIR" /\ x[1 + h].rank # RANK_S
               /\ x[1 + h].value \in Seq(Symbol)
    <3>1. h \in 0..r
      OBVIOUS
    <3> QED
      BY <1>2, <1>3, <3>1
  <2>3. Stops(x[1 + r + 1])
    <3>1. 1 + r + 1 = p
      OBVIOUS
    <3> QED
      BY <3>1
  <2> QED
    BY <1>1, <1>4, <2>1, <2>2, <2>3 DEF Absorbs
<1>6. Count(x, 1, r) = r
  <2>1. CASE r = 0
    BY <2>1 DEF Count
  <2>2. CASE r # 0
    <3>1. r \in 0..r
      OBVIOUS
    <3>2. x[1 + r].value \in Seq(Symbol)
      BY <1>2, <1>3, <3>1
    <3>3. x[1 + r].value # NULL
      BY <3>2, NoSuchString
    <3> QED
      BY <3>3 DEF Count
  <2> QED
    BY <2>1, <2>2
<1>7. Folded(x, 1, r, r, y)
  <2>1. Folded(x, 1, r, Count(x, 1, r), y)
    BY <1>4, <1>5, AttachCommand
  <2> QED
    BY <1>6, <2>1
<1>8. Speaks(x, 1, r, left, e)
  <2>1. ASSUME NEW h \in 0..r
        PROVE  x[1 + h].value \in Seq(Symbol) /\ x[1 + h].value = Meaning(left[h + 1], e)
    <3>1. PICK q \in 1..m : q = 1 + h /\ q = h + 1 /\ q # p /\ q \in 1..(r + 1)
      BY <1>3
    <3>2. left[q] = items[q]
      BY <3>1
    <3> QED
      BY <1>2, <3>1, <3>2
  <2> QED
    BY <1>4, <2>1 DEF Speaks
<1> QED
  BY <1>7, <1>8, FoldedCommand

LEMMA RightAttached ==
  ASSUME NEW items, NEW e, NEW p, NEW x, Divides(x, items, e, p), IsPipe(x[p]),
         NEW r \in Nat, p = r + 2, NEW y, Folded(x, 1, r, r, y),
         NEW left, CommandOf(y[1], left, e),
         NEW c, NEW right, RightSide(items, p, c, right), NEW z, z = AttachTo(y, 3)
  PROVE  OnePipe(z, left, right, e)
<1>a. /\ items \in Seq(ItemSet) /\ p \in 2..(Len(items) - 1) /\ Ready(x, items, e) /\ Stops(x[p])
      /\ OnlyCut(items, p)
  BY DEF Divides
<1>b. /\ c \in Nat /\ Len(items) = p + c + 1
      /\ DOMAIN right = 1..(c + 1) /\ \A h \in 1..(c + 1) : right[h] = items[p + h]
  BY DEF RightSide
<1>c. PICK m \in Nat : m = Len(items)
  BY <1>a
<1>d. p \in Nat /\ 2 <= p /\ p < m /\ m = p + c + 1
  BY <1>a, <1>b, <1>c
<1>e. c \in Nat
  BY <1>b
<1>f. /\ m + 1 - r = c + 4
      /\ c + 4 \in 2..(c + 4) /\ c + 4 + r = m + 1 /\ 2 \in 2..(c + 4) /\ 2 + r = p
      /\ \A h \in 0..c : /\ 3 + h \in 2..(c + 4) /\ 3 + h + r = p + 1 + h
                         /\ p + 1 + h \in 1..m /\ p + 1 + h # p
  BY <1>d, <1>e
<1> USE <1>a, <1>c, <1>d, <1>e, <1>f
<1>1. x \in Seq(Token) /\ Len(x) = m + 1
  BY DEF Ready
<1>2. \A k \in 1..m : k # p =>
         /\ OfWord(x[k]) /\ x[k].value = Meaning(items[k], e)
         /\ x[k].coretype # "REDIR" /\ x[k].rank # RANK_S
         /\ x[k].args = <<>> /\ x[k].value \in Seq(Symbol)
  <2>1. WordsReady(x, items, e, p)
    BY ReadyWords
  <2> QED
    BY <2>1 DEF WordsReady
<1>3. x[m + 1].value = NULL /\ x[m + 1].coretype # "REDIR" /\ x[m + 1].rank # RANK_S
  <2>1. PICK q : q = m + 1
    OBVIOUS
  <2>2. ASSUME NEW t, t = x[q]
        PROVE  t.value = NULL /\ t.coretype # "REDIR" /\ t.rank # RANK_S
    <3>1. Trailing(x[Len(x)])
      BY DEF Ready
    <3>2. Trailing(t)
      BY <1>1, <2>1, <2>2, <3>1
    <3> QED
      BY <3>2 DEF Trailing, RANK_S, RANK_B, RANK_C
  <2> QED
    BY <2>1, <2>2
<1>4. /\ y \in Seq(Token) /\ Len(y) = m + 1 - r
      /\ \A q \in 2..(m + 1 - r) : y[q] = x[q + r]
  <2>1. /\ y \in Seq(Token) /\ Len(y) = Len(x) - r
        /\ \A q \in (1 + 1)..(Len(x) - r) : y[q] = x[q + r]
    BY DEF Folded
  <2>2. 1 + 1 = 2
    OBVIOUS
  <2> QED
    BY <1>1, <2>1, <2>2
<1>5. m + 1 - r = c + 4
  OBVIOUS
<1>6. \A h \in 0..c : y[3 + h] = x[p + 1 + h] /\ p + 1 + h \in 1..m /\ p + 1 + h # p
  <2>1. ASSUME NEW h \in 0..c
        PROVE  y[3 + h] = x[p + 1 + h]
    <3>1. 3 + h \in 2..(m + 1 - r) /\ 3 + h + r = p + 1 + h
      OBVIOUS
    <3> QED
      BY <1>4, <3>1
  <2>2. \A h \in 0..c : p + 1 + h \in 1..m /\ p + 1 + h # p
    OBVIOUS
  <2> QED
    BY <2>1, <2>2
<1>7. y[c + 4] = x[m + 1] /\ y[2] = x[p]
  BY <1>4
<1>8. OfWord(y[3]) /\ y[3].args = <<>> /\ y[3].value \in Seq(Symbol)
  <2>1. PICK q \in 1..m : q = p + 1 + 0 /\ q # p
    OBVIOUS
  <2>2. y[3] = x[q]
    <3>1. 3 \in 2..(c + 4) /\ 3 + r = q
      BY <2>1
    <3> QED
      BY <1>4, <1>5, <3>1
  <2> QED
    BY <1>2, <2>1, <2>2
<1>9. PICK g \in Nat : g = c + 1
  OBVIOUS
<1>10. Absorbs(y, 3, g)
  <2>1. 3 \in 1..Len(y) /\ 3 + g <= Len(y) /\ ~ (3 + g < Len(y))
    <3>1. Len(y) = c + 4
      BY <1>4, <1>5
    <3> QED
      BY <1>9, <3>1
  <2>2. ASSUME NEW h \in 1..g
        PROVE  /\ y[3 + h].coretype # "REDIR" /\ y[3 + h].rank # RANK_S
               /\ y[3 + h].value \in Seq(Symbol) \/ (h = g /\ y[3 + h].value = NULL)
    <3>1. CASE h = g
      <4>1. 3 + h = c + 4
        BY <1>9, <3>1
      <4> QED
        BY <1>3, <1>7, <3>1, <4>1
    <3>2. CASE h # g
      <4>1. h \in 0..c
        BY <1>9, <3>2
      <4>2. PICK q \in 1..m : q = p + 1 + h /\ q # p
        BY <1>6, <4>1
      <4>3. y[3 + h] = x[q]
        BY <1>6, <4>1, <4>2
      <4> QED
        BY <1>2, <4>2, <4>3
    <3> QED
      BY <3>1, <3>2
  <2> QED
    BY <1>4, <1>8, <2>1, <2>2 DEF Absorbs
<1>11. Count(y, 3, g) = c
  <2>1. 3 + g = c + 4 /\ g > 0 /\ g - 1 = c
    BY <1>9
  <2> QED
    BY <1>3, <1>7, <2>1 DEF Count
<1>12. Folded(y, 3, g, c, z)
  <2>1. Folded(y, 3, g, Count(y, 3, g), z)
    BY <1>8, <1>10, AttachCommand
  <2> QED
    BY <1>11, <2>1
<1>13. Speaks(y, 3, c, right, e)
  <2>1. ASSUME NEW h \in 0..c
        PROVE  y[3 + h].value \in Seq(Symbol) /\ y[3 + h].value = Meaning(right[h + 1], e)
    <3>1. PICK q \in 1..m : q = p + 1 + h /\ q # p
      BY <1>6
    <3>2. y[3 + h] = x[q]
      BY <1>6, <3>1
    <3>3. right[h + 1] = items[q]
      <4>1. h + 1 \in 1..(c + 1) /\ p + (h + 1) = q
        BY <3>1
      <4> QED
        BY <1>b, <4>1
    <3> QED
      BY <1>2, <3>1, <3>2, <3>3
  <2> QED
    BY <1>8, <1>b, <2>1 DEF Speaks
<1>14. CommandOf(z[3], right, e)
  BY <1>12, <1>13, FoldedCommand
<1>15. z \in Seq(Token) /\ Len(z) = 3 /\ z[1] = y[1] /\ z[2] = y[2]
  <2>1. z \in Seq(Token) /\ Len(z) = Len(y) - g /\ \A q \in 1..(3 - 1) : z[q] = y[q]
    BY <1>12 DEF Folded
  <2>2. 1 \in 1..(3 - 1) /\ 2 \in 1..(3 - 1)
    OBVIOUS
  <2>3. Len(y) - g = 3
    BY <1>4, <1>5, <1>9
  <2> QED
    BY <2>1, <2>2, <2>3
<1> QED
  BY <1>7, <1>14, <1>15 DEF OnePipe

LEMMA PipeAttached ==
  ASSUME NEW items \in Seq(ItemSet), NEW e, NEW p \in 2..(Len(items) - 1), OnlyCut(items, p),
         ~ Word(items[p]), Text(items[p]) = <<"|">>, NEW x, Ready(x, items, e),
         NEW left, left = SubSeq(items, 1, p - 1), NEW right, right = Rest(items, p + 1),
         NEW y, y = handler_args_file(x)
  PROVE  OnePipe(y, left, right, e)
<1>1. PICK m \in Nat : m = Len(items)
  OBVIOUS
<1>2. p \in Nat /\ 2 <= p /\ p < m /\ p \in 1..m
  BY <1>1
<1>3. x \in Seq(Token) /\ Len(x) = m + 1
  BY <1>1 DEF Ready
<1>4. IsPipe(x[p])
  <2>1. OfOp(x[p], Text(items[p]))
    BY <1>1, <1>2 DEF Ready
  <2> QED
    BY <2>1 DEF OfOp, IsPipe
<1>5. PICK r \in Nat : p = r + 2
  <2>1. p - 2 \in Nat /\ p = p - 2 + 2
    BY <1>2
  <2> QED
    BY <2>1
<1>6. PICK c \in Nat : m = p + c + 1
  <2>1. m - p - 1 \in Nat /\ m = p + (m - p - 1) + 1
    BY <1>2
  <2> QED
    BY <2>1
<1>7. Divides(x, items, e, p)
  BY <1>4 DEF Divides, Stops, IsPipe
<1>8. LeftSide(items, p, r, left)
  <2>1. p <= Len(items)
    BY <1>1, <1>2
  <2> QED
    BY <1>5, <2>1, LeftSideIs
<1>9. RightSide(items, p, c, right)
  <2>0. SUFFICES DOMAIN right = 1..(c + 1) /\ \A h \in 1..(c + 1) : right[h] = items[p + h]
    BY <1>1, <1>6 DEF RightSide
  <2>1. PICK q \in 1..(Len(items) + 1) : q = p + 1
    BY <1>2
  <2>2. right = Rest(items, q)
    BY <2>1
  <2>3. /\ right \in Seq(ItemSet) /\ Len(right) = Len(items) - q + 1
        /\ \A h \in 1..(Len(items) - q + 1) : right[h] = items[q + h - 1]
    <3>1. items \in Seq(ItemSet) /\ q \in 1..(Len(items) + 1)
      OBVIOUS
    <3>2. Rest(items, q) \in Seq(ItemSet) /\ Len(Rest(items, q)) = Len(items) - q + 1
      BY <3>1, RestIs
    <3>3. \A h \in 1..(Len(items) - q + 1) : Rest(items, q)[h] = items[q + h - 1]
      BY <3>1, RestIs
    <3> QED
      BY <2>2, <3>2, <3>3
  <2>4. Len(items) - q + 1 = c + 1 /\ \A h \in 1..(c + 1) : q + h - 1 = p + h
    BY <1>1, <1>2, <1>6, <2>1
  <2>5. DOMAIN right = 1..Len(right)
    BY <2>3
  <2> QED
    BY <2>3, <2>4, <2>5
<1> DEFINE A == {z \in Seq(Token) : Folded(x, 1, r, r, z) /\ CommandOf(z[1], left, e)}
           B == {z \in Seq(Token) : OnePipe(z, left, right, e)}
           I == [j \in 0..Len(x) |-> IF j = 0 THEN {x} ELSE IF j <= 2 THEN A ELSE B]
<1>10. AttachTo(x, 1) \in A
  <2>1. PICK z : z = AttachTo(x, 1)
    OBVIOUS
  <2>2. Folded(x, 1, r, r, z) /\ CommandOf(z[1], left, e)
    BY <1>7, <1>8, <2>1, LeftAttached
  <2>3. z \in Seq(Token)
    BY <2>2 DEF Folded
  <2> QED
    BY <2>1, <2>2, <2>3
<1>11. ASSUME NEW z \in A
       PROVE  AttachTo(z, 2) \in A
  <2>1. Folded(x, 1, r, r, z)
    OBVIOUS
  <2>2. z[2] = x[p]
    <3>1. \A q \in (1 + 1)..(Len(x) - r) : z[q] = x[q + r]
      BY <2>1 DEF Folded
    <3>2. 2 \in (1 + 1)..(m + 1 - r) /\ 2 + r = p
      BY <1>2, <1>5
    <3> QED
      BY <1>3, <3>1, <3>2
  <2>3. AttachTo(z, 2) = z
    BY <1>4, <2>2, AttachOther DEF IsPipe
  <2> QED
    BY <2>3
<1>12. ASSUME NEW z \in A
       PROVE  AttachTo(z, 3) \in B
  <2>1. PICK w : w = AttachTo(z, 3)
    OBVIOUS
  <2>2. Folded(x, 1, r, r, z) /\ CommandOf(z[1], left, e)
    OBVIOUS
  <2>3. OnePipe(w, left, right, e)
    BY <1>4, <1>5, <1>7, <1>9, <2>1, <2>2, RightAttached
  <2> QED
    BY <2>1, <2>3 DEF OnePipe
<1>13. ASSUME NEW z \in B, NEW j \in Nat, j > 3
       PROVE  AttachTo(z, j) = z
  <2>1. j > Len(z)
    BY <1>13 DEF OnePipe
  <2> QED
    BY <2>1, AttachOther
<1>14. Len(x) \in Nat /\ Len(x) >= 3
  BY <1>2, <1>3
<1>15. /\ I[0] = {x} /\ I[1] = A /\ I[2] = A
       /\ \A j \in 3..Len(x) : I[j] = B
  BY <1>14
<1>16. A \subseteq Seq(Token) /\ B \subseteq Seq(Token)
  OBVIOUS
<1> HIDE DEF I, A, B
<1>17. \A j \in 0..Len(x) : j = 0 \/ j = 1 \/ j = 2 \/ j \in 3..Len(x)
  BY <1>14
<1>18. \A j \in 0..Len(x) : I[j] \subseteq Seq(Token)
  BY <1>3, <1>15, <1>16, <1>17
<1>19. ASSUME NEW j \in 1..Len(x), NEW z \in I[j - 1]
       PROVE  AttachTo(z, j) \in I[j]
  <2>1. CASE j = 1
    BY <1>10, <1>15, <2>1
  <2>2. CASE j = 2
    BY <1>11, <1>15, <2>2
  <2>3. CASE j = 3
    <3>1. z \in A /\ I[3] = B
      BY <1>14, <1>15, <2>3
    <3> QED
      BY <1>12, <2>3, <3>1
  <2>4. CASE j > 3
    <3>1. j - 1 \in 3..Len(x) /\ j \in 3..Len(x)
      BY <1>14, <2>4
    <3>2. z \in B /\ I[j] = B
      BY <1>15, <3>1
    <3> QED
      BY <1>13, <2>4, <3>2
  <2>5. j = 1 \/ j = 2 \/ j = 3 \/ j > 3
    BY <1>14
  <2> QED
    BY <2>1, <2>2, <2>3, <2>4, <2>5
<1>20. y \in I[Len(x)]
  BY <1>3, <1>15, <1>18, <1>19, AttachLoop
<1>21. Len(x) \in 3..Len(x)
  BY <1>14
<1> QED
  BY <1>15, <1>20, <1>21 DEF B

-----------------------------------------------------------------------------
(* A line that ends with its only redirection. *)

\* The token is the redirection with the text v, of the file f; what such a
\* line becomes, without a command and with one.
RedirOf(t, v, f) ==
  t.type = RedirType(v) /\ t.coretype = "REDIR" /\ t.rank = RANK_A /\ t.file = f
OneRedir(y, v, f) ==
  y \in Seq(Token) /\ Len(y) = 2 /\ RedirOf(y[1], v, f) /\ Trailing(y[2])
CommandRedir(y, left, v, f, e) ==
  /\ y \in Seq(Token) /\ Len(y) = 3 /\ RedirOf(y[2], v, f) /\ Trailing(y[3])
  /\ CommandOf(y[1], left, e)

\* The redirection behind at most a command, and the word behind it, which P
\* has no name for.
RedirAt(items, p, P) ==
  /\ p \in 1..(Len(items) - 1) /\ Len(items) = p + 1 /\ OnlyCut(items, p)
  /\ ~ Word(items[p]) /\ Text(items[p]) \in RedirText /\ NoneOf(items[p + 1], P)

LEMMA NothingTaken ==
  ASSUME NEW l, Len(l) \in Nat
  PROVE  cmd_handler_args(l, Len(l)) = l
<1>1. PICK x : x = [list |-> l, on |-> TRUE]
  OBVIOUS
<1>2. PICK k \in Nat : k = Len(l)
  OBVIOUS
<1> DEFINE f == [j \in 0..0 |-> x]
<1>3. f = [j \in 0..0 |-> IF j = 0 THEN x ELSE TakeArgument(f[j - 1], k)]
  <2>1. \A j \in 0..0 : j = 0
    OBVIOUS
  <2> QED
    BY <2>1
<1> HIDE DEF f
<1>4. k - k = 0
  OBVIOUS
<1>5. PICK h : /\ h = [j \in 0..0 |-> IF j = 0 THEN x ELSE TakeArgument(h[j - 1], k)]
               /\ cmd_handler_args(l, k) = h[0].list
  BY <1>1, <1>2, <1>3, <1>4 DEF cmd_handler_args, Turns
<1>6. 0 \in 0..0
  OBVIOUS
<1> QED
  BY <1>1, <1>2, <1>5, <1>6

\* A turn at the sentinel, and one at a redirection.
LEMMA EndStays ==
  ASSUME NEW l \in Seq(Token), NEW k, k = Len(l), Trailing(l[k])
  PROVE  AttachTo(l, k) = l
<1>1. Len(l) \in Nat /\ ~ (k > Len(l))
  OBVIOUS
<1>2. redir_handler_file(l, k) = l
  BY DEF redir_handler_file
<1>3. cmd_handler_args(l, k) = l
  BY <1>1, NothingTaken
<1> QED
  BY <1>1, <1>2, <1>3 DEF AttachTo

LEMMA FileTaken ==
  ASSUME NEW l \in Seq(Token), NEW k \in 1..(Len(l) - 1), NEW v \in RedirText, OfOp(l[k], v),
         NEW f, l[k + 1].type = "WORD", l[k + 1].value = f, NEW y, y = AttachTo(l, k)
  PROVE  \E u \in Token : RedirOf(u, v, f) /\ Replaced(l, k, u, y)
<1>1. /\ k < Len(l) /\ ~ (k > Len(l)) /\ k \in 1..Len(l) /\ k + 1 \in 1..Len(l)
  OBVIOUS
<1>2. PICK t \in Token : t = l[k]
  BY <1>1
<1>3. t.type = RedirType(v) /\ t.coretype = "REDIR" /\ t.rank = RANK_A
  BY <1>2 DEF OfOp
<1>4. f \in Seq(Symbol) \cup {NULL}
  <2>1. PICK s \in Token : s = l[k + 1]
    BY <1>1
  <2> QED
    BY <2>1 DEF Token
<1>5. PICK u : u = [t EXCEPT !.file = f]
  OBVIOUS
<1>6. u \in Token /\ RedirOf(u, v, f)
  BY <1>3, <1>4, <1>5 DEF Token, RedirOf
<1>7. PICK m : m = Absorbed(l, k, u)
  OBVIOUS
<1>8. Replaced(l, k, u, m)
  BY <1>6, <1>7, ReplacedIs
<1>9. redir_handler_file(l, k) = m
  BY <1>1, <1>2, <1>3, <1>5, <1>7 DEF redir_handler_file
<1>10. m[k] = u
  BY <1>8 DEF Replaced
<1>11. y = m
  BY <1>1, <1>6, <1>9, <1>10 DEF AttachTo, RedirOf
<1> QED
  BY <1>6, <1>8, <1>11

\* The file's name, and the redirection itself, in the expanded list.
LEMMA FileReady ==
  ASSUME NEW items, NEW e, Agreeable(items, e), NEW P, NEW p \in Nat, RedirAt(items, p, P),
         NEW x, Ready(x, items, e), Filed(x, items, P), NEW q, q = p + 1
  PROVE  /\ x \in Seq(Token) /\ Len(x) = p + 2 /\ OfOp(x[p], Text(items[p]))
         /\ x[q].type = "WORD" /\ x[q].value = Text(items[q]) /\ Trailing(x[p + 2])
<1>1. /\ p \in 1..(Len(items) - 1) /\ Len(items) = p + 1 /\ OnlyCut(items, p)
      /\ ~ Word(items[p]) /\ NoneOf(items[q], P)
  BY DEF RedirAt
<1>2. q \in 1..Len(items) /\ q # p /\ p \in 1..Len(items) /\ Len(items) + 1 = p + 2
  BY <1>1
<1>3. Word(items[q])
  BY <1>1, <1>2 DEF OnlyCut
<1>4. x \in Seq(Token) /\ Len(x) = p + 2 /\ Trailing(x[p + 2]) /\ OfOp(x[p], Text(items[p]))
  BY <1>1, <1>2 DEF Ready
<1>5. x[q].value = Meaning(items[q], e)
  BY <1>2, <1>3 DEF Ready
<1>6. Meaning(items[q], e) = Text(items[q])
  BY <1>1, <1>2, <1>3 DEF Agreeable, Settled, NoneOf, InSingle, InDouble, InNone, Lonely
<1>7. x[q].type = "WORD"
  BY <1>1, <1>2, <1>3 DEF Filed
<1> QED
  BY <1>4, <1>5, <1>6, <1>7

LEMMA RedirAlone ==
  ASSUME NEW items, NEW e, Agreeable(items, e), NEW P, RedirAt(items, 1, P),
         NEW x, Ready(x, items, e), Filed(x, items, P),
         NEW v, v = Text(items[1]), NEW f, f = Text(items[2]), NEW y, y = handler_args_file(x)
  PROVE  OneRedir(y, v, f)
<1>1. /\ x \in Seq(Token) /\ Len(x) = 3 /\ OfOp(x[1], v)
      /\ x[2].type = "WORD" /\ x[2].value = f /\ Trailing(x[3])
  <2>1. PICK p \in Nat : p = 1
    OBVIOUS
  <2>2. PICK q : q = p + 1
    OBVIOUS
  <2>3. /\ x \in Seq(Token) /\ Len(x) = p + 2 /\ OfOp(x[p], Text(items[p]))
        /\ x[q].type = "WORD" /\ x[q].value = Text(items[q]) /\ Trailing(x[p + 2])
    <3>1. RedirAt(items, p, P)
      BY <2>1
    <3> QED
      BY <2>2, <3>1, FileReady
  <2>4. q = 2 /\ p + 2 = 3
    BY <2>1, <2>2
  <2> QED
    BY <2>1, <2>3, <2>4
<1>2. v \in RedirText
  BY DEF RedirAt
<1>3. ASSUME NEW z, z = AttachTo(x, 1)
      PROVE  OneRedir(z, v, f)
  <2>1. 1 \in 1..(Len(x) - 1) /\ 1 + 1 = 2
    BY <1>1
  <2>2. PICK u \in Token : RedirOf(u, v, f) /\ Replaced(x, 1, u, z)
    <3>1. x[1 + 1].type = "WORD" /\ x[1 + 1].value = f
      BY <1>1
    <3> QED
      BY <1>1, <1>2, <1>3, <2>1, <3>1, FileTaken
  <2>3. z \in Seq(Token) /\ Len(z) = 2 /\ z[1] = u /\ z[2] = x[3]
    <3>1. /\ z \in Seq(Token) /\ Len(z) = 3 - 1
          /\ \A p \in 1..(3 - 1) : z[p] = IF p < 1 THEN x[p] ELSE IF p = 1 THEN u ELSE x[p + 1]
      BY <1>1, <2>2 DEF Replaced
    <3>2. 1 \in 1..(3 - 1) /\ 2 \in 1..(3 - 1) /\ 2 + 1 = 3 /\ 3 - 1 = 2 /\ ~ (2 < 1)
      OBVIOUS
    <3> QED
      BY <3>1, <3>2
  <2> QED
    BY <1>1, <2>2, <2>3 DEF OneRedir
<1> DEFINE B == {z \in Seq(Token) : OneRedir(z, v, f)}
           I == [j \in 0..3 |-> IF j = 0 THEN {x} ELSE B]
<1>4. ASSUME NEW z \in B, NEW j \in 2..3
      PROVE  AttachTo(z, j) = z
  <2>1. z \in Seq(Token) /\ Len(z) = 2 /\ Trailing(z[2])
    BY DEF OneRedir
  <2>2. j = 2 \/ j > Len(z)
    BY <2>1
  <2> HIDE DEF B
  <2> QED
    BY <2>1, <2>2, EndStays, AttachOther
<1>5. I[0] = {x} /\ \A j \in 1..3 : I[j] = B
  OBVIOUS
<1>6. B \subseteq Seq(Token) /\ \A z : z \in B <=> OneRedir(z, v, f)
  BY DEF OneRedir
<1> HIDE DEF I, B
<1>7. \A j \in 0..3 : j = 0 \/ j \in 1..3
  OBVIOUS
<1>8. \A j \in 0..Len(x) : I[j] \subseteq Seq(Token)
  BY <1>1, <1>5, <1>6, <1>7
<1>9. ASSUME NEW j \in 1..Len(x), NEW z \in I[j - 1]
      PROVE  AttachTo(z, j) \in I[j]
  <2>1. j \in 1..3
    BY <1>1
  <2>2. CASE j = 1
    <3>1. z = x
      BY <1>5, <2>2
    <3>2. OneRedir(AttachTo(x, 1), v, f)
      BY <1>3
    <3> QED
      BY <1>5, <1>6, <2>1, <2>2, <3>1, <3>2
  <2>3. CASE j # 1
    <3>1. j - 1 \in 1..3 /\ j \in 2..3
      BY <2>1, <2>3
    <3>2. z \in B
      BY <1>5, <3>1
    <3> QED
      BY <1>4, <1>5, <2>1, <3>1, <3>2
  <2> QED
    BY <2>2, <2>3
<1>10. y \in I[Len(x)]
  BY <1>1, <1>5, <1>8, <1>9, AttachLoop
<1>11. 3 \in 1..3
  OBVIOUS
<1> QED
  BY <1>1, <1>5, <1>6, <1>10, <1>11

LEMMA RedirAttached ==
  ASSUME NEW items, NEW e, Agreeable(items, e), NEW P, NEW p \in Nat, p > 1, RedirAt(items, p, P),
         NEW x, Ready(x, items, e), Filed(x, items, P), NEW left, left = SubSeq(items, 1, p - 1),
         NEW v, v = Text(items[p]), NEW f, f = Text(items[p + 1]), NEW y, y = handler_args_file(x)
  PROVE  CommandRedir(y, left, v, f, e)
<1>1. /\ x \in Seq(Token) /\ Len(x) = p + 2 /\ OfOp(x[p], v)
      /\ x[p + 1].type = "WORD" /\ x[p + 1].value = f /\ Trailing(x[p + 2])
  <2>1. PICK q : q = p + 1
    OBVIOUS
  <2>2. /\ x \in Seq(Token) /\ Len(x) = p + 2 /\ OfOp(x[p], Text(items[p]))
        /\ x[q].type = "WORD" /\ x[q].value = Text(items[q]) /\ Trailing(x[p + 2])
    BY <2>1, FileReady
  <2> QED
    BY <2>1, <2>2
<1>2. v \in RedirText /\ OnlyCut(items, p) /\ Len(items) = p + 1 /\ items \in Seq(ItemSet)
  BY DEF RedirAt, Agreeable
<1>3. PICK r \in Nat : p = r + 2
  <2>1. p - 2 \in Nat /\ p = p - 2 + 2
    OBVIOUS
  <2> QED
    BY <2>1
<1>4. Divides(x, items, e, p)
  <2>1. Stops(x[p])
    BY <1>1, <1>2 DEF OfOp, Stops
  <2>2. p \in 2..(Len(items) - 1)
    BY <1>2
  <2> QED
    BY <1>2, <2>1, <2>2 DEF Divides
<1>5. LeftSide(items, p, r, left)
  <2>1. p <= Len(items)
    BY <1>2
  <2> QED
    BY <1>2, <1>3, <2>1, LeftSideIs
<1> DEFINE A == {z \in Seq(Token) : Folded(x, 1, r, r, z) /\ CommandOf(z[1], left, e)}
           B == {z \in Seq(Token) : CommandRedir(z, left, v, f, e)}
           I == [j \in 0..Len(x) |-> IF j = 0 THEN {x} ELSE IF j = 1 THEN A ELSE B]
<1>6. AttachTo(x, 1) \in A
  <2>1. PICK z : z = AttachTo(x, 1)
    OBVIOUS
  <2>2. Folded(x, 1, r, r, z) /\ CommandOf(z[1], left, e)
    BY <1>4, <1>5, <2>1, LeftAttached
  <2>3. z \in Seq(Token)
    BY <2>2 DEF Folded
  <2> QED
    BY <2>1, <2>2, <2>3
<1>7. ASSUME NEW z \in A
      PROVE  AttachTo(z, 2) \in B
  <2>1. z \in Seq(Token) /\ Folded(x, 1, r, r, z) /\ CommandOf(z[1], left, e)
    OBVIOUS
  <2>2. Len(z) = 4 /\ z[2] = x[p] /\ z[3] = x[p + 1] /\ z[4] = x[p + 2]
    <3>1. /\ Len(z) = p + 2 - r
          /\ \A q \in (1 + 1)..(p + 2 - r) : z[q] = x[q + r]
      BY <1>1, <2>1 DEF Folded
    <3>2. p + 2 - r = 4 /\ 2 + r = p /\ 3 + r = p + 1 /\ 4 + r = p + 2
      BY <1>3
    <3>3. 2 \in (1 + 1)..4 /\ 3 \in (1 + 1)..4 /\ 4 \in (1 + 1)..4
      OBVIOUS
    <3> QED
      BY <3>1, <3>2, <3>3
  <2>3. PICK w : w = AttachTo(z, 2)
    OBVIOUS
  <2>4. PICK u \in Token : RedirOf(u, v, f) /\ Replaced(z, 2, u, w)
    <3>1. 2 \in 1..(Len(z) - 1) /\ z[2 + 1].type = "WORD" /\ z[2 + 1].value = f
      BY <1>1, <2>2
    <3>2. OfOp(z[2], v)
      BY <1>1, <2>2
    <3> HIDE DEF A
    <3> QED
      BY <1>2, <2>1, <2>3, <3>1, <3>2, FileTaken
  <2>5. w \in Seq(Token) /\ Len(w) = 3 /\ w[1] = z[1] /\ w[2] = u /\ w[3] = z[4]
    <3>1. /\ w \in Seq(Token) /\ Len(w) = 4 - 1
          /\ \A q \in 1..(4 - 1) : w[q] = IF q < 2 THEN z[q] ELSE IF q = 2 THEN u ELSE z[q + 1]
      BY <2>2, <2>4 DEF Replaced
    <3>2. /\ 1 \in 1..(4 - 1) /\ 2 \in 1..(4 - 1) /\ 3 \in 1..(4 - 1) /\ 4 - 1 = 3 /\ 3 + 1 = 4
          /\ 1 < 2 /\ ~ (3 < 2)
      OBVIOUS
    <3> QED
      BY <3>1, <3>2
  <2>6. CommandRedir(w, left, v, f, e)
    BY <1>1, <2>1, <2>2, <2>4, <2>5 DEF CommandRedir
  <2> QED
    BY <2>3, <2>5, <2>6
<1>8. ASSUME NEW z \in B, NEW j \in Nat, j > 2
      PROVE  AttachTo(z, j) = z
  <2>1. z \in Seq(Token) /\ Len(z) = 3 /\ Trailing(z[3])
    BY DEF CommandRedir
  <2>2. j = 3 \/ j > Len(z)
    BY <1>8, <2>1
  <2> HIDE DEF B
  <2> QED
    BY <2>1, <2>2, EndStays, AttachOther
<1>9. Len(x) \in Nat /\ Len(x) >= 4
  BY <1>1
<1>10. I[0] = {x} /\ I[1] = A /\ \A j \in 2..Len(x) : I[j] = B
  BY <1>9
<1>11. A \subseteq Seq(Token) /\ B \subseteq Seq(Token)
  OBVIOUS
<1> HIDE DEF I, A, B
<1>12. \A j \in 0..Len(x) : j = 0 \/ j = 1 \/ j \in 2..Len(x)
  BY <1>9
<1>13. \A j \in 0..Len(x) : I[j] \subseteq Seq(Token)
  BY <1>1, <1>10, <1>11, <1>12
<1>14. ASSUME NEW j \in 1..Len(x), NEW z \in I[j - 1]
       PROVE  AttachTo(z, j) \in I[j]
  <2>1. CASE j = 1
    BY <1>6, <1>10, <2>1
  <2>2. CASE j = 2
    <3>1. z \in A /\ I[2] = B
      BY <1>9, <1>10, <2>2
    <3> QED
      BY <1>7, <2>2, <3>1
  <2>3. CASE j > 2
    <3>1. j - 1 \in 2..Len(x) /\ j \in 2..Len(x) /\ j \in Nat
      BY <1>9, <2>3
    <3>2. z \in B /\ I[j] = B
      BY <1>10, <3>1
    <3> QED
      BY <1>8, <2>3, <3>1, <3>2
  <2>4. j = 1 \/ j = 2 \/ j > 2
    BY <1>9
  <2> QED
    BY <2>1, <2>2, <2>3, <2>4
<1>15. y \in I[Len(x)]
  BY <1>1, <1>10, <1>13, <1>14, AttachLoop
<1>16. Len(x) \in 2..Len(x)
  BY <1>9
<1> QED
  BY <1>10, <1>15, <1>16 DEF B

-----------------------------------------------------------------------------
(* The second look, and the trees. *)

\* The second look changes nothing that matters here.
LEMMA NoNullBuiltin == NULL \notin Builtin
<1>1. ASSUME NEW n \in Name
      PROVE  <<n>> # NULL
  BY NamesAreNoPunctuation DEF NULL
<1> QED
  BY <1>1, NamesAreNoPunctuation

LEMMA LookKeeps ==
  ASSUME NEW t \in Token, NEW found, NULL \notin found, NEW u, u = parser_cmd_no_found(t, found)
  PROVE  /\ IsPipe(t) \/ t.coretype = "REDIR" \/ Trailing(t) => u = t
         /\ \A words, e : CommandOf(t, words, e) => CommandOf(u, words, e)
<1>1. IsPipe(t) \/ t.coretype = "REDIR" \/ Trailing(t) => u = t
  <2>1. IsPipe(t) \/ t.coretype = "REDIR" => u = t
    BY DEF IsPipe, parser_cmd_no_found
  <2>2. ASSUME Trailing(t)
        PROVE  u = t
    <3>1. t.value \notin found \cup Builtin /\ t.coretype # "REDIR" /\ t.type = "WORD"
      BY <2>2, NoNullBuiltin DEF Trailing
    <3>2. u = [t EXCEPT !.type = "WORD"]
      BY <3>1 DEF parser_cmd_no_found
    <3> QED
      BY <3>1, <3>2 DEF Token
  <2> QED
    BY <2>1, <2>2
<1>2. ASSUME NEW words, NEW e, CommandOf(t, words, e)
      PROVE  CommandOf(u, words, e)
  <2>1. t.coretype \in {"CMD", "WORD"} /\ t.type \in {"CMD", "WORD"} /\ t.rank \in {RANK_B, RANK_C}
    BY <1>2 DEF CommandOf
  <2>2. \/ u = t \/ u = [t EXCEPT !.type = "WORD"]
        \/ u = Typed(t, "CMD", "CMD", RANK_B)
    BY <2>1 DEF parser_cmd_no_found
  <2>3. /\ u.value = t.value /\ u.args = t.args
        /\ u.coretype \in {"CMD", "WORD"} /\ u.type \in {"CMD", "WORD"}
        /\ u.rank \in {RANK_B, RANK_C}
    BY <2>1, <2>2 DEF Typed, Token
  <2> QED
    BY <1>2, <2>3 DEF CommandOf
<1> QED
  BY <1>1, <1>2

\* A list of one command, of two around a pipe, of a redirection, and of a
\* command and a redirection.
Single(l) == l \in Seq(Token) /\ Len(l) = 1 /\ l[1].coretype # "REDIR"
Triple(l) ==
  /\ l \in Seq(Token) /\ Len(l) = 3 /\ IsPipe(l[2])
  /\ l[1].coretype # "REDIR" /\ l[1].rank \in {RANK_B, RANK_C} /\ l[1].value # NULL
  /\ l[3].coretype # "REDIR" /\ l[3].rank \in {RANK_B, RANK_C} /\ l[3].value # NULL
Pair(l) == l \in Seq(Token) /\ Len(l) = 2 /\ l[1].coretype = "REDIR" /\ l[1].rank = RANK_A /\ Trailing(l[2])
Chain(l) ==
  /\ l \in Seq(Token) /\ Len(l) = 3 /\ l[2].coretype = "REDIR" /\ l[2].rank = RANK_A /\ Trailing(l[3])
  /\ l[1].coretype # "REDIR" /\ l[1].rank \in {RANK_B, RANK_C} /\ l[1].value # NULL

\* The trees of the first and the third, and the calls that make them.
Planted(y) == y.root = 1 /\ ~ y.eof /\ y.left[1] = 0 /\ y.right[1] = 0
Idle(y) == y.root = 1 /\ ~ y.eof /\ y.left[1] = 0 /\ y.right[1] \in {0, 2}
OnOne(l) == {c \in Calls(l) : c.t = 1 /\ c.e = 0 /\ c.n = 1}

LEMMA HighestOne ==
  ASSUME NEW l \in Seq(Token), NEW k \in 1..Len(l)
  PROVE  Highest(l, {k}) = k /\ Highest(l, {}) = 0
<1>1. {k} \in SUBSET (1..Len(l)) /\ {k} # {}
  OBVIOUS
<1>2. \E h \in {k} : \A j \in {k} : l[j].rank < l[h].rank \/ (l[j].rank = l[h].rank /\ j <= h)
  BY <1>1, HighestExists
<1> QED
  BY <1>1, <1>2 DEF Highest

LEMMA SingleRoot ==
  ASSUME NEW l, Single(l), NEW y, y = init_yggdrasil(l)
  PROVE  Planted(y) /\ ~ y.crashed /\ Call(1, 0, 1) \in OnOne(l)
<1>1. /\ l \in Seq(Token) /\ Len(l) = 1 /\ l[1].coretype # "REDIR" /\ DOMAIN l = 1..1
      /\ l[1] \in Token
  BY DEF Single
<1>2. \A k : k \in DOMAIN l <=> k = 1
  BY <1>1
<1>3. l[1].rank \in {0, RANK_C, RANK_B, RANK_A, RANK_S}
  BY <1>1 DEF Token
<1>4. l[1].rank <= l[1].rank
  BY <1>3 DEF RANK_C, RANK_B, RANK_A, RANK_S
<1>5. {k \in DOMAIN l : \A j \in DOMAIN l : l[j].rank <= l[k].rank} = {1}
  BY <1>2, <1>4
<1>6. {k \in {1} : l[k].coretype = "REDIR"} = {}
  BY <1>1
<1>7. Min({1}) = 1
  <2>1. {1} \in SUBSET Nat /\ {1} # {}
    OBVIOUS
  <2> QED
    BY <2>1, MinIsLeast
<1>8. Root(l) = 1
  BY <1>5, <1>6, <1>7, Zenon DEF Root
<1>9. ~ SyntaxError(l, 1)
  BY <1>1 DEF SyntaxError
<1>10. y = [NoTree(l) EXCEPT !.root = 1, !.used = {1}]
  BY <1>8, <1>9 DEF init_yggdrasil
<1>11. y.root = 1 /\ ~ y.eof /\ ~ y.crashed /\ y.left[1] = 0 /\ y.right[1] = 0
  <2>1. 1 \in DOMAIN l
    BY <1>2
  <2> QED
    BY <1>10, <2>1 DEF NoTree
<1>12. Call(1, 0, 1) \in OnOne(l)
  BY <1>1 DEF Call, OnOne, Calls
<1> QED
  BY <1>11, <1>12 DEF Planted

LEMMA SingleGrows ==
  ASSUME NEW l, Single(l), NEW y \in Forest(l), Planted(y), NEW c \in OnOne(l),
         NEW z, z = Children(l, y, c)
  PROVE  /\ Planted(z) /\ CallsLeft(l, z, c) = <<>> /\ CallsRight(l, y, c) = <<>>
         /\ [c EXCEPT !.made = TRUE] \in OnOne(l)
<1>1. /\ l \in Seq(Token) /\ Len(l) = 1 /\ l[1].coretype # "REDIR"
  BY DEF Single
<1>2. c.t = 1 /\ c.e = 0 /\ c.n = 1 /\ c \in Calls(l)
  BY DEF OnOne
<1>3. /\ y.left \in [1..1 -> 0..1] /\ y.right \in [1..1 -> 0..1]
      /\ y.left[1] = 0 /\ y.right[1] = 0 /\ y.root = 1 /\ ~ y.eof
      /\ y.used \in SUBSET (1..1)
  BY <1>1 DEF Forest, Planted
<1>4. Highest(l, {}) = 0
  BY DEF Highest
<1>5. \A w : find_left_token(l, w, 1) = 0
  <2>1. \A w : (1..(1 - 1)) \ w.used = {}
    OBVIOUS
  <2> QED
    BY <1>4, <2>1 DEF find_left_token
<1>6. \A w : find_right_token(l, w, 1, 0) = 0
  <2>1. \A w : ((1 + 1)..Len(l)) \ w.used = {}
    BY <1>1
  <2> QED
    BY <1>4, <2>1 DEF find_right_token
<1>7. 0 \notin y.used
  BY <1>3
<1>8. PICK w : w = SetLeft(y, 1, 0)
  OBVIOUS
<1>9. z = SetRight(w, 1, 0)
  BY <1>1, <1>2, <1>5, <1>6, <1>8 DEF Children
<1>10. /\ w.left[1] = 0 /\ w.right[1] = 0 /\ w.root = 1 /\ ~ w.eof /\ w.used = y.used
       /\ w.right = y.right
  <2>1. new_yggnode(y, 0) = 0
    BY DEF new_yggnode
  <2>2. w = [y EXCEPT !.left[1] = 0, !.used = y.used \cup ({0} \ {0})]
    BY <1>8, <2>1 DEF SetLeft
  <2>3. y.used \cup ({0} \ {0}) = y.used
    OBVIOUS
  <2> QED
    BY <1>3, <2>2, <2>3 DEF Forest
<1>11. /\ z.left[1] = 0 /\ z.right[1] = 0 /\ z.root = 1 /\ ~ z.eof
  <2>1. new_yggnode(w, 0) = 0
    BY DEF new_yggnode
  <2>2. z = [w EXCEPT !.right[1] = 0, !.used = w.used \cup ({0} \ {0})]
    BY <1>9, <2>1 DEF SetRight
  <2>3. w \in [left : [1..1 -> 0..1], right : [1..1 -> 0..1], used : SUBSET (1..1), root : 0..1,
               eof : BOOLEAN, crashed : BOOLEAN]
    <3>1. w = [y EXCEPT !.left[1] = 0, !.used = y.used \cup ({0} \ {0})]
      BY <1>8 DEF SetLeft, new_yggnode
    <3> QED
      BY <1>1, <1>3, <3>1 DEF Forest
  <2> QED
    BY <1>10, <2>2, <2>3
<1>12. CallsLeft(l, z, c) = <<>> /\ CallsRight(l, y, c) = <<>>
  BY <1>2, <1>3, <1>11 DEF CallsLeft, CallsRight
<1>13. [c EXCEPT !.made = TRUE] \in OnOne(l)
  BY <1>2 DEF OnOne, Calls
<1> QED
  BY <1>11, <1>12, <1>13 DEF Planted

\* A redirection without a command has only the sentinel below it.
LEMMA PairRoot ==
  ASSUME NEW l, Pair(l), NEW y, y = init_yggdrasil(l)
  PROVE  Idle(y) /\ ~ y.crashed /\ Call(1, 0, 1) \in OnOne(l)
<1>1. /\ l \in Seq(Token) /\ Len(l) = 2 /\ DOMAIN l = 1..2
      /\ l[1].coretype = "REDIR" /\ l[1].rank = RANK_A /\ l[2].rank = RANK_C
      /\ l[2].coretype = "WORD"
  BY DEF Pair, Trailing
<1>2. \A k : k \in DOMAIN l <=> (k = 1 \/ k = 2)
  BY <1>1
<1>3. /\ ~ (l[1].rank <= l[2].rank)
      /\ l[1].rank <= l[1].rank /\ l[2].rank <= l[1].rank
  BY <1>1 DEF RANK_C, RANK_A
<1>4. {k \in DOMAIN l : \A j \in DOMAIN l : l[j].rank <= l[k].rank} = {1}
  BY <1>2, <1>3
<1>5. {k \in {1} : l[k].coretype = "REDIR"} = {1}
  BY <1>1
<1>6. Max({1}) = 1
  <2>1. {1} \in SUBSET (0..1) /\ {1} # {}
    OBVIOUS
  <2> QED
    BY <2>1, MaxIsGreatest
<1>7. Root(l) = 1
  BY <1>4, <1>5, <1>6, Zenon DEF Root
<1>8. ~ SyntaxError(l, 1)
  <2>1. 1 # Len(l) /\ l[1 + 1].coretype = "WORD"
    BY <1>1
  <2> QED
    BY <2>1 DEF SyntaxError
<1>9. y = [NoTree(l) EXCEPT !.root = 1, !.used = {1}]
  BY <1>7, <1>8 DEF init_yggdrasil
<1>10. y.root = 1 /\ ~ y.eof /\ ~ y.crashed /\ y.left[1] = 0 /\ y.right[1] = 0
  <2>1. 1 \in DOMAIN l
    BY <1>2
  <2> QED
    BY <1>9, <2>1 DEF NoTree
<1>11. Call(1, 0, 1) \in OnOne(l)
  BY <1>1 DEF Call, OnOne, Calls
<1> QED
  BY <1>10, <1>11 DEF Idle

LEMMA PairGrows ==
  ASSUME NEW l, Pair(l), NEW y \in Forest(l), Idle(y), NEW c \in OnOne(l),
         NEW z, z = Children(l, y, c)
  PROVE  /\ Idle(z) /\ CallsLeft(l, z, c) = <<>> /\ CallsRight(l, y, c) = <<>>
         /\ [c EXCEPT !.made = TRUE] \in OnOne(l)
<1>1. /\ l \in Seq(Token) /\ Len(l) = 2 /\ l[1].coretype = "REDIR" /\ l[2].value = NULL
      /\ DOMAIN l = 1..2
  BY DEF Pair, Trailing
<1>2. c.t = 1 /\ c.e = 0 /\ c.n = 1 /\ c \in Calls(l)
  BY DEF OnOne
<1>3. /\ y \in [left : [1..2 -> 0..2], right : [1..2 -> 0..2], used : SUBSET (1..2),
                root : 0..2, eof : BOOLEAN, crashed : BOOLEAN]
      /\ y.left[1] = 0 /\ y.right[1] \in {0, 2} /\ y.root = 1 /\ ~ y.eof
  BY <1>1 DEF Forest, Idle
<1>4. PICK w : w = build_command_subtree(l, y, 1, 1)
  OBVIOUS
<1>5. /\ w \in [left : [1..2 -> 0..2], right : [1..2 -> 0..2], used : SUBSET (1..2),
                root : 0..2, eof : BOOLEAN, crashed : BOOLEAN]
      /\ w.left[1] = 0 /\ w.right = y.right /\ w.root = 1 /\ ~ w.eof
  <2>1. {k \in 1..(1 - 1) : k \notin y.used /\ l[k].coretype # "REDIR"} = {}
    OBVIOUS
  <2>2. w = [y EXCEPT !.left[1] = 0,
                      !.right = [k \in DOMAIN l |->
                                   IF k \in {} /\ {j \in {} : j > k} # {}
                                   THEN Min({j \in {} : j > k}) ELSE y.right[k]],
                      !.used = y.used \cup {}]
    BY <1>4, <2>1 DEF build_command_subtree
  <2>3. [k \in DOMAIN l |-> IF k \in {} /\ {j \in {} : j > k} # {}
                            THEN Min({j \in {} : j > k}) ELSE y.right[k]] = y.right
    BY <1>1, <1>3
  <2>4. y.used \cup {} = y.used
    OBVIOUS
  <2>5. w = [y EXCEPT !.left[1] = 0, !.right = y.right, !.used = y.used]
    BY <2>2, <2>3, <2>4
  <2>6. [y.left EXCEPT ![1] = 0] = y.left
    BY <1>3
  <2>7. w = y
    BY <1>3, <2>5, <2>6
  <2> QED
    BY <1>3, <2>7
<1>6. z = IF 2 \notin w.used THEN SetRight(w, 1, 2) ELSE w
  <2>1. 1 < Len(l) /\ 1 + 1 = 2 /\ 1 # 0
    BY <1>1
  <2> QED
    BY <1>1, <1>2, <1>4, <2>1 DEF Children
<1>7. Idle(z)
  <2>1. CASE 2 \in w.used
    BY <1>3, <1>5, <1>6, <2>1 DEF Idle
  <2>2. CASE 2 \notin w.used
    <3>1. new_yggnode(w, 2) = 2
      BY <2>2 DEF new_yggnode
    <3>2. PICK v : v = [w.right EXCEPT ![1] = 2]
      OBVIOUS
    <3>3. PICK t : t = w.used \cup ({2} \ {0})
      OBVIOUS
    <3>4. v[1] = 2
      BY <1>5, <3>2
    <3>5. z = [w EXCEPT !.right[1] = 2, !.used = t]
      BY <1>6, <2>2, <3>1, <3>3 DEF SetRight
    <3>6. z = [[w EXCEPT !.right = v] EXCEPT !.used = t]
      BY <1>5, <3>2, <3>5
    <3>7. z.right = v /\ z.root = w.root /\ z.eof = w.eof /\ z.left = w.left
      BY <1>5, <3>6
    <3> QED
      BY <1>5, <3>4, <3>7 DEF Idle
  <2> QED
    BY <2>1, <2>2
<1>8. CallsLeft(l, z, c) = <<>>
  BY <1>2, <1>7 DEF CallsLeft, Idle
<1>9. CallsRight(l, y, c) = <<>>
  BY <1>1, <1>2, <1>3 DEF CallsRight
<1>10. [c EXCEPT !.made = TRUE] \in OnOne(l)
  BY <1>2 DEF OnOne, Calls
<1> QED
  BY <1>7, <1>8, <1>9, <1>10

\* The tree of a pipe, or of a redirection over a command, before its children
\* are made, and when they are.
RootAlone(y) == y.root = 2 /\ ~ y.eof /\ y.used = {2} /\ \A k \in 1..3 : y.left[k] = 0 /\ y.right[k] = 0
Spread(y) ==
  /\ y.root = 2 /\ ~ y.eof /\ y.used = {1, 2, 3}
  /\ y.left[2] = 1 /\ y.right[2] = 3
  /\ y.left[1] = 0 /\ y.right[1] = 0 /\ y.left[3] = 0 /\ y.right[3] = 0
OnThree(l) ==
  {c \in Calls(l) : \/ c.t = 0 /\ c.n \in {1, 3}
                    \/ c.t = 2 /\ c.n = 2 /\ c.e = 0 /\ c.made}

LEMMA TripleRoot ==
  ASSUME NEW l, Triple(l), NEW y, y = init_yggdrasil(l)
  PROVE  RootAlone(y) /\ ~ y.crashed /\ Call(2, 0, 2) \in Calls(l)
<1>1. /\ l \in Seq(Token) /\ Len(l) = 3 /\ DOMAIN l = 1..3
      /\ l[2].rank = RANK_S /\ l[2].coretype = "PIPE"
      /\ l[1].rank \in {RANK_B, RANK_C} /\ l[3].rank \in {RANK_B, RANK_C}
  BY DEF Triple, IsPipe
<1>2. \A k : k \in DOMAIN l <=> (k = 1 \/ k = 2 \/ k = 3)
  BY <1>1
<1>3. /\ ~ (l[2].rank <= l[1].rank) /\ ~ (l[2].rank <= l[3].rank)
      /\ l[1].rank <= l[2].rank /\ l[2].rank <= l[2].rank /\ l[3].rank <= l[2].rank
  BY <1>1 DEF RANK_C, RANK_B, RANK_S
<1>4. {k \in DOMAIN l : \A j \in DOMAIN l : l[j].rank <= l[k].rank} = {2}
  BY <1>2, <1>3
<1>5. {k \in {2} : l[k].coretype = "REDIR"} = {}
  BY <1>1
<1>6. Min({2}) = 2
  <2>1. {2} \in SUBSET Nat /\ {2} # {}
    OBVIOUS
  <2> QED
    BY <2>1, MinIsLeast
<1>7. Root(l) = 2
  BY <1>4, <1>5, <1>6, Zenon DEF Root
<1>8. ~ SyntaxError(l, 2)
  BY <1>1 DEF SyntaxError
<1>9. y = [NoTree(l) EXCEPT !.root = 2, !.used = {2}]
  BY <1>7, <1>8 DEF init_yggdrasil
<1>10. /\ y.root = 2 /\ ~ y.eof /\ ~ y.crashed /\ y.used = {2}
       /\ \A k \in 1..3 : y.left[k] = 0 /\ y.right[k] = 0
  BY <1>1, <1>9 DEF NoTree
<1>11. Call(2, 0, 2) \in Calls(l)
  BY <1>1 DEF Call, Calls
<1> QED
  BY <1>10, <1>11 DEF RootAlone

\* What the searches find: the two commands, and then nothing.
Three(l) == l \in Seq(Token) /\ Len(l) = 3

LEMMA SidesFound ==
  ASSUME NEW l, Three(l), NEW y
  PROVE  /\ y.used = {2} => find_left_token(l, y, 2) = 1
         /\ y.used = {1, 2} => find_right_token(l, y, 2, 0) = 3
         /\ y.used = {1, 2, 3} =>
              find_left_token(l, y, 2) = 0 /\ find_right_token(l, y, 2, 0) = 0
         /\ find_left_token(l, y, 0) = 0 /\ \A e : find_right_token(l, y, 0, e) = 0
<1>1. l \in Seq(Token) /\ Len(l) = 3
  BY DEF Three
<1>2. Highest(l, {1}) = 1 /\ Highest(l, {3}) = 3 /\ Highest(l, {}) = 0
  <2>1. 1 \in 1..Len(l) /\ 3 \in 1..Len(l)
    BY <1>1
  <2> QED
    BY <1>1, <2>1, HighestOne
<1>3. (1..(2 - 1)) \ {2} = {1} /\ (1..(2 - 1)) \ {1, 2, 3} = {}
  OBVIOUS
<1>4. ((2 + 1)..3) \ {1, 2} = {3} /\ ((2 + 1)..3) \ {1, 2, 3} = {}
  OBVIOUS
<1>5. y.used = {2} => find_left_token(l, y, 2) = 1
  BY <1>2, <1>3 DEF find_left_token
<1>6. y.used = {1, 2} => find_right_token(l, y, 2, 0) = 3
  BY <1>1, <1>2, <1>4 DEF find_right_token
<1>7. y.used = {1, 2, 3} =>
        find_left_token(l, y, 2) = 0 /\ find_right_token(l, y, 2, 0) = 0
  BY <1>1, <1>2, <1>3, <1>4 DEF find_left_token, find_right_token
<1>8. find_left_token(l, y, 0) = 0 /\ \A e : find_right_token(l, y, 0, e) = 0
  BY <1>2 DEF find_left_token, find_right_token
<1> QED
  BY <1>5, <1>6, <1>7, <1>8

\* The tree with the left child, and what follows from it.
Sided(w) ==
  /\ w \in [left : [1..3 -> 0..3], right : [1..3 -> 0..3], used : SUBSET (1..3),
            root : 0..3, eof : BOOLEAN, crashed : BOOLEAN]
  /\ w.used = {1, 2} /\ w.root = 2 /\ ~ w.eof
  /\ w.left[1] = 0 /\ w.left[2] = 1 /\ w.left[3] = 0
  /\ \A k \in 1..3 : w.right[k] = 0

LEMMA RightMade ==
  ASSUME NEW w, Sided(w), NEW z, z = SetRight(w, 2, 3)
  PROVE  Spread(z)
<1>1. /\ w \in [left : [1..3 -> 0..3], right : [1..3 -> 0..3], used : SUBSET (1..3),
                root : 0..3, eof : BOOLEAN, crashed : BOOLEAN]
      /\ w.used = {1, 2} /\ w.root = 2 /\ ~ w.eof
      /\ w.left[1] = 0 /\ w.left[2] = 1 /\ w.left[3] = 0
      /\ \A k \in 1..3 : w.right[k] = 0
  BY DEF Sided
<1>2. z = [w EXCEPT !.right[2] = 3, !.used = {1, 2, 3}]
  <2>1. new_yggnode(w, 3) = 3
    BY <1>1 DEF new_yggnode
  <2>2. w.used \cup ({3} \ {0}) = {1, 2, 3}
    BY <1>1
  <2> QED
    BY <2>1, <2>2 DEF SetRight
<1>3. PICK v : v = [w.right EXCEPT ![2] = 3]
  OBVIOUS
<1>4. v[1] = 0 /\ v[2] = 3 /\ v[3] = 0
  <2>1. w.right \in [1..3 -> 0..3] /\ w.right[1] = 0 /\ w.right[3] = 0
    BY <1>1
  <2> QED
    BY <1>3, <2>1
<1>5. PICK s : s = {1, 2, 3}
  OBVIOUS
<1>6. z = [[w EXCEPT !.right = v] EXCEPT !.used = s]
  BY <1>1, <1>2, <1>3, <1>5
<1>7. z.used = s /\ z.right = v /\ z.root = w.root /\ z.eof = w.eof /\ z.left = w.left
  BY <1>1, <1>6
<1> QED
  BY <1>1, <1>4, <1>5, <1>7 DEF Spread

LEMMA SpreadCalls ==
  ASSUME NEW l, Three(l), l[1].value # NULL, NEW z, Spread(z), NEW c, c = Call(2, 0, 2)
  PROVE  CallsLeft(l, z, c) \in Seq(OnThree(l)) /\ [c EXCEPT !.made = TRUE] \in OnThree(l)
<1>1. l \in Seq(Token) /\ Len(l) = 3
  BY DEF Three
<1>2. c = [t |-> 2, e |-> 0, n |-> 2, made |-> FALSE]
  BY DEF Call
<1>3. CallsLeft(l, z, c) = <<Call(0, 2, 1)>>
  <2>1. z.used = {1, 2, 3} /\ z.left[2] = 1
    BY DEF Spread
  <2>2. find_left_token(l, z, 2) = 0
    BY <2>1, SidesFound
  <2> QED
    BY <1>2, <2>1, <2>2 DEF CallsLeft
<1>4. Call(0, 2, 1) \in OnThree(l)
  BY <1>1 DEF Call, OnThree, Calls
<1>5. [c EXCEPT !.made = TRUE] \in OnThree(l)
  <2>1. c \in Calls(l) /\ c.t = 2 /\ c.n = 2 /\ c.e = 0
    <3>1. Call(2, 0, 2) \in Calls(l)
      BY <1>1 DEF Call, Calls
    <3> QED
      BY <1>2, <3>1
  <2> QED
    BY <2>1 DEF OnThree, Calls
<1>6. PICK d \in OnThree(l) : d = Call(0, 2, 1)
  BY <1>4
<1>7. CallsLeft(l, z, c) \in Seq(OnThree(l))
  <2>1. <<d>> \in Seq(OnThree(l))
    OBVIOUS
  <2> QED
    BY <1>3, <1>6, <2>1
<1> QED
  BY <1>5, <1>7

\* The children of the pipe.
LEMMA TripleGrows ==
  ASSUME NEW l, Triple(l), NEW y \in Forest(l), RootAlone(y), NEW c, c = Call(2, 0, 2),
         NEW z, z = Children(l, y, c)
  PROVE  Spread(z) /\ CallsLeft(l, z, c) \in Seq(OnThree(l)) /\ [c EXCEPT !.made = TRUE] \in OnThree(l)
<1>1. /\ l \in Seq(Token) /\ Len(l) = 3 /\ l[2].coretype = "PIPE" /\ l[1].value # NULL
      /\ Three(l)
  BY DEF Triple, IsPipe, Three
<1>2. c = [t |-> 2, e |-> 0, n |-> 2, made |-> FALSE]
  BY DEF Call
<1>3. /\ y \in [left : [1..3 -> 0..3], right : [1..3 -> 0..3], used : SUBSET (1..3),
                root : 0..3, eof : BOOLEAN, crashed : BOOLEAN]
      /\ y.used = {2} /\ y.root = 2 /\ ~ y.eof
      /\ \A k \in 1..3 : y.left[k] = 0 /\ y.right[k] = 0
  BY <1>1 DEF Forest, RootAlone
<1>4. find_left_token(l, y, 2) = 1
  BY <1>1, <1>3, SidesFound
<1>5. PICK w : w = SetLeft(y, 2, 1)
  OBVIOUS
<1>6. w = [y EXCEPT !.left[2] = 1, !.used = {1, 2}]
  <2>1. new_yggnode(y, 1) = 1
    BY <1>3 DEF new_yggnode
  <2>2. y.used \cup ({1} \ {0}) = {1, 2}
    BY <1>3
  <2> QED
    BY <1>5, <2>1, <2>2 DEF SetLeft
<1>7. /\ w \in [left : [1..3 -> 0..3], right : [1..3 -> 0..3], used : SUBSET (1..3),
                root : 0..3, eof : BOOLEAN, crashed : BOOLEAN]
      /\ w.used = {1, 2} /\ w.root = 2 /\ ~ w.eof /\ w.right = y.right
      /\ w.left[1] = 0 /\ w.left[2] = 1 /\ w.left[3] = 0
  <2>1. PICK v : v = [y.left EXCEPT ![2] = 1]
    OBVIOUS
  <2>2. v \in [1..3 -> 0..3] /\ v[1] = 0 /\ v[2] = 1 /\ v[3] = 0
    BY <1>3, <2>1
  <2>3. PICK s \in SUBSET (1..3) : s = {1, 2}
    <3>1. {1, 2} \in SUBSET (1..3)
      OBVIOUS
    <3> QED
      BY <3>1
  <2>4. w = [[y EXCEPT !.left = v] EXCEPT !.used = s]
    BY <1>3, <1>6, <2>1, <2>3
  <2>5. w \in [left : [1..3 -> 0..3], right : [1..3 -> 0..3], used : SUBSET (1..3),
               root : 0..3, eof : BOOLEAN, crashed : BOOLEAN]
    BY <1>3, <2>2, <2>4
  <2>6. w.used = s /\ w.left = v /\ w.root = y.root /\ w.eof = y.eof /\ w.right = y.right
    BY <1>3, <2>4
  <2> QED
    BY <1>3, <2>2, <2>3, <2>5, <2>6
<1>8. find_right_token(l, w, 2, 0) = 3
  BY <1>1, <1>7, SidesFound
<1>9. z = SetRight(w, 2, 3)
  BY <1>1, <1>2, <1>4, <1>5, <1>8 DEF Children
<1>10. Spread(z)
  <2>1. Sided(w)
    BY <1>3, <1>7 DEF Sided
  <2> QED
    BY <1>9, <2>1, RightMade
<1> QED
  BY <1>1, <1>2, <1>10, SpreadCalls

\* The root and the children of a redirection over a command.
LEMMA ChainRoot ==
  ASSUME NEW l, Chain(l), NEW y, y = init_yggdrasil(l)
  PROVE  RootAlone(y) /\ ~ y.crashed
<1>1. /\ l \in Seq(Token) /\ Len(l) = 3 /\ DOMAIN l = 1..3
      /\ l[2].rank = RANK_A /\ l[2].coretype = "REDIR" /\ l[3].coretype = "WORD"
      /\ l[1].rank \in {RANK_B, RANK_C} /\ l[3].rank = RANK_C
  BY DEF Chain, Trailing
<1>2. \A k : k \in DOMAIN l <=> (k = 1 \/ k = 2 \/ k = 3)
  BY <1>1
<1>3. /\ ~ (l[2].rank <= l[1].rank) /\ ~ (l[2].rank <= l[3].rank)
      /\ l[1].rank <= l[2].rank /\ l[2].rank <= l[2].rank /\ l[3].rank <= l[2].rank
  BY <1>1 DEF RANK_C, RANK_B, RANK_A
<1>4. {k \in DOMAIN l : \A j \in DOMAIN l : l[j].rank <= l[k].rank} = {2}
  BY <1>2, <1>3
<1>5. {k \in {2} : l[k].coretype = "REDIR"} = {2}
  BY <1>1
<1>6. Max({2}) = 2
  <2>1. {2} \in SUBSET (0..2) /\ {2} # {}
    OBVIOUS
  <2> QED
    BY <2>1, MaxIsGreatest
<1>7. Root(l) = 2
  BY <1>4, <1>5, <1>6, Zenon DEF Root
<1>8. ~ SyntaxError(l, 2)
  <2>1. 2 # Len(l) /\ l[2 + 1].coretype = "WORD"
    BY <1>1
  <2> QED
    BY <2>1 DEF SyntaxError
<1>9. y = [NoTree(l) EXCEPT !.root = 2, !.used = {2}]
  BY <1>7, <1>8 DEF init_yggdrasil
<1>10. /\ y.root = 2 /\ ~ y.eof /\ ~ y.crashed /\ y.used = {2}
       /\ \A k \in 1..3 : y.left[k] = 0 /\ y.right[k] = 0
  BY <1>1, <1>9 DEF NoTree
<1> QED
  BY <1>10 DEF RootAlone

LEMMA ChainGrows ==
  ASSUME NEW l, Chain(l), NEW y \in Forest(l), RootAlone(y), NEW c, c = Call(2, 0, 2),
         NEW z, z = Children(l, y, c)
  PROVE  Spread(z) /\ CallsLeft(l, z, c) \in Seq(OnThree(l)) /\ [c EXCEPT !.made = TRUE] \in OnThree(l)
<1>1. /\ l \in Seq(Token) /\ Len(l) = 3 /\ l[2].coretype = "REDIR" /\ l[1].value # NULL
      /\ l[1].coretype # "REDIR" /\ DOMAIN l = 1..3 /\ Three(l)
  BY DEF Chain, Three
<1>2. c = [t |-> 2, e |-> 0, n |-> 2, made |-> FALSE]
  BY DEF Call
<1>3. /\ y \in [left : [1..3 -> 0..3], right : [1..3 -> 0..3], used : SUBSET (1..3),
                root : 0..3, eof : BOOLEAN, crashed : BOOLEAN]
      /\ y.used = {2} /\ y.root = 2 /\ ~ y.eof
      /\ \A k \in 1..3 : y.left[k] = 0 /\ y.right[k] = 0
  BY <1>1 DEF Forest, RootAlone
<1>4. PICK w : w = build_command_subtree(l, y, 2, 2)
  OBVIOUS
<1>5. {k \in 1..(2 - 1) : k \notin y.used /\ l[k].coretype # "REDIR"} = {1}
  <2>1. \A k : k \in 1..(2 - 1) <=> k = 1
    OBVIOUS
  <2> QED
    BY <1>1, <1>3, <2>1
<1>6. Min({1}) = 1
  <2>1. {1} \in SUBSET Nat /\ {1} # {}
    OBVIOUS
  <2> QED
    BY <2>1, MinIsLeast
<1>7. PICK v : v = [k \in DOMAIN l |-> IF k \in {1} /\ {j \in {1} : j > k} # {}
                                       THEN Min({j \in {1} : j > k}) ELSE y.right[k]]
  OBVIOUS
<1>8. v = y.right
  <2>1. \A k \in 1..3 : ~ (k \in {1} /\ {j \in {1} : j > k} # {})
    OBVIOUS
  <2>2. v = [k \in 1..3 |-> y.right[k]]
    BY <1>1, <1>7, <2>1
  <2> QED
    BY <1>3, <2>2
<1>9. w = [y EXCEPT !.left[2] = 1, !.right = v, !.used = y.used \cup {1}]
  BY <1>4, <1>5, <1>6, <1>7 DEF build_command_subtree
<1>10. Sided(w)
  <2>1. PICK a : a = [y.left EXCEPT ![2] = 1]
    OBVIOUS
  <2>2. a \in [1..3 -> 0..3] /\ a[1] = 0 /\ a[2] = 1 /\ a[3] = 0
    BY <1>3, <2>1
  <2>3. PICK s \in SUBSET (1..3) : s = {1, 2}
    <3>1. {1, 2} \in SUBSET (1..3)
      OBVIOUS
    <3> QED
      BY <3>1
  <2>4. y.used \cup {1} = s
    BY <1>3, <2>3
  <2>5. w = [[y EXCEPT !.left = a] EXCEPT !.used = s]
    <3>1. w = [[[y EXCEPT !.left = a] EXCEPT !.right = y.right] EXCEPT !.used = s]
      BY <1>3, <1>8, <1>9, <2>1, <2>4
    <3>2. [[y EXCEPT !.left = a] EXCEPT !.right = y.right] = [y EXCEPT !.left = a]
      BY <1>3
    <3> QED
      BY <3>1, <3>2
  <2>6. w \in [left : [1..3 -> 0..3], right : [1..3 -> 0..3], used : SUBSET (1..3),
               root : 0..3, eof : BOOLEAN, crashed : BOOLEAN]
    BY <1>3, <2>2, <2>5
  <2>7. w.used = s /\ w.left = a /\ w.root = y.root /\ w.eof = y.eof /\ w.right = y.right
    BY <1>3, <2>5
  <2> QED
    BY <1>3, <2>2, <2>3, <2>6, <2>7 DEF Sided
<1>11. z = SetRight(w, 2, 3)
  <2>1. 2 < Len(l) /\ 2 + 1 = 3 /\ 2 # 0 /\ 3 \notin w.used
    BY <1>1, <1>10 DEF Sided
  <2> QED
    BY <1>1, <1>2, <1>4, <2>1 DEF Children
<1>12. Spread(z)
  BY <1>10, <1>11, RightMade
<1> QED
  BY <1>1, <1>12, SpreadCalls

\* Nothing is made behind that.
LEMMA SpreadStays ==
  ASSUME NEW l, Three(l), NEW y \in Forest(l), Spread(y), NEW c \in OnThree(l)
  PROVE  /\ CallsRight(l, y, c) \in Seq(OnThree(l))
         /\ ~ c.made =>
              /\ Spread(Children(l, y, c)) /\ CallsLeft(l, Children(l, y, c), c) = <<>>
              /\ [c EXCEPT !.made = TRUE] \in OnThree(l)
<1>1. l \in Seq(Token) /\ Len(l) = 3
  BY DEF Three
<1>2. /\ c \in Calls(l)
      /\ \/ c.t = 0 /\ c.n \in {1, 3}
         \/ c.t = 2 /\ c.n = 2 /\ c.e = 0 /\ c.made
  BY DEF OnThree
<1>3. /\ y \in [left : [1..3 -> 0..3], right : [1..3 -> 0..3], used : SUBSET (1..3),
                root : 0..3, eof : BOOLEAN, crashed : BOOLEAN]
      /\ y.used = {1, 2, 3} /\ y.root = 2 /\ ~ y.eof
      /\ y.left[2] = 1 /\ y.right[2] = 3
      /\ y.left[1] = 0 /\ y.right[1] = 0 /\ y.left[3] = 0 /\ y.right[3] = 0
  BY <1>1 DEF Forest, Spread
<1>4. <<>> \in Seq(OnThree(l))
  OBVIOUS
<1>5. CallsRight(l, y, c) \in Seq(OnThree(l))
  <2>1. CASE c.t = 0 /\ c.n \in {1, 3}
    <3>1. y.right[c.n] = 0
      BY <1>3, <2>1
    <3> QED
      BY <1>4, <3>1 DEF CallsRight
  <2>2. CASE c.t = 2 /\ c.n = 2 /\ c.e = 0
    <3>1. find_right_token(l, y, 2, 0) = 0
      BY <1>3, SidesFound
    <3>2. CallsRight(l, y, c) = IF l[3].value # NULL THEN <<Call(0, 0, 3)>> ELSE <<>>
      BY <1>1, <1>3, <2>2, <3>1 DEF CallsRight
    <3>3. PICK d \in OnThree(l) : d = Call(0, 0, 3)
      <4>1. Call(0, 0, 3) \in OnThree(l)
        BY <1>1 DEF Call, OnThree, Calls
      <4> QED
        BY <4>1
    <3>4. <<d>> \in Seq(OnThree(l))
      OBVIOUS
    <3> QED
      BY <1>4, <3>2, <3>3, <3>4
  <2> QED
    BY <1>2, <2>1, <2>2
<1>6. ASSUME ~ c.made
      PROVE  /\ Spread(Children(l, y, c)) /\ CallsLeft(l, Children(l, y, c), c) = <<>>
             /\ [c EXCEPT !.made = TRUE] \in OnThree(l)
  <2>1. c.t = 0 /\ c.n \in {1, 3}
    BY <1>2, <1>6
  <2>2. PICK n : n = c.n
    OBVIOUS
  <2>3. n \in {1, 3} /\ y.left[n] = 0 /\ y.right[n] = 0
    BY <1>3, <2>1, <2>2
  <2>4. PICK w : w = SetLeft(y, n, 0)
    OBVIOUS
  <2>5. w = y
    <3>1. new_yggnode(y, 0) = 0
      BY DEF new_yggnode
    <3>2. y.used \cup ({0} \ {0}) = y.used
      OBVIOUS
    <3>3. w = [y EXCEPT !.left[n] = 0, !.used = y.used]
      BY <2>4, <3>1, <3>2 DEF SetLeft
    <3>4. [y.left EXCEPT ![n] = 0] = y.left
      BY <1>3, <2>3
    <3> QED
      BY <1>3, <3>3, <3>4
  <2>6. PICK z : z = Children(l, y, c)
    OBVIOUS
  <2>7. z = SetRight(w, n, 0)
    <3>1. /\ find_left_token(l, y, 0) = 0
          /\ find_right_token(l, w, 0, c.e) = 0
      BY SidesFound
    <3> QED
      BY <2>1, <2>2, <2>4, <2>6, <3>1 DEF Children
  <2>8. z = y
    <3>1. new_yggnode(y, 0) = 0
      BY DEF new_yggnode
    <3>2. y.used \cup ({0} \ {0}) = y.used
      OBVIOUS
    <3>3. z = [y EXCEPT !.right[n] = 0, !.used = y.used]
      BY <2>5, <2>7, <3>1, <3>2 DEF SetRight
    <3>4. [y.right EXCEPT ![n] = 0] = y.right
      BY <1>3, <2>3
    <3> QED
      BY <1>3, <3>3, <3>4
  <2>9. CallsLeft(l, y, c) = <<>>
    BY <2>2, <2>3 DEF CallsLeft
  <2>10. [c EXCEPT !.made = TRUE] \in OnThree(l)
    BY <1>2, <2>1 DEF OnThree, Calls
  <2> QED
    BY <2>6, <2>8, <2>9, <2>10
<1> QED
  BY <1>5, <1>6

\* Lines of one command, and with one pipe; those that end with their only
\* redirection are above.
AsOne(items) == items # <<>> /\ \A k \in 1..Len(items) : Word(items[k])
PipeAt(items, p) ==
  /\ p \in 2..(Len(items) - 1) /\ OnlyCut(items, p)
  /\ ~ Word(items[p]) /\ Text(items[p]) = <<"|">>

\* The list of such a line once arguments are attached, and its tree; P holds
\* the names of all programs there may be.
Redirected(l, items, e, p) ==
  IF p = 1 THEN OneRedir(l, Text(items[1]), Text(items[2]))
  ELSE CommandRedir(l, SubSeq(items, 1, p - 1), Text(items[p]), Text(items[p + 1]), e)
Shaped(l, items, e, P) ==
  /\ AsOne(items) => OneCommand(l, items, e)
  /\ \A p : PipeAt(items, p) =>
              OnePipe(l, SubSeq(items, 1, p - 1), Rest(items, p + 1), e)
  /\ \A p : RedirAt(items, p, P) => Redirected(l, items, e, p)
Grown(l, y, cs) ==
  \/ RootAlone(y) /\ cs = <<Call(2, 0, 2)>>
  \/ Spread(y) /\ cs \in Seq(OnThree(l))
Sprouts(l, items, y, cs, P) ==
  /\ AsOne(items) => Planted(y) /\ cs \in Seq(OnOne(l))
  /\ \A p : PipeAt(items, p) => Grown(l, y, cs)
  /\ \A p : RedirAt(items, p, P) =>
              IF p = 1 THEN Idle(y) /\ cs \in Seq(OnOne(l)) ELSE Grown(l, y, cs)

LEMMA ShapedIs ==
  ASSUME NEW l, NEW items, NEW e, NEW P, Shaped(l, items, e, P)
  PROVE  /\ AsOne(items) => Single(l)
         /\ \A p : PipeAt(items, p) => Triple(l)
         /\ \A p : RedirAt(items, p, P) => IF p = 1 THEN Pair(l) ELSE Chain(l)
<1>1. ASSUME AsOne(items)
      PROVE  Single(l)
  <2>1. OneCommand(l, items, e)
    BY <1>1 DEF Shaped
  <2> QED
    BY <2>1 DEF OneCommand, CommandOf, Single
<1>2. ASSUME NEW t, NEW words, CommandOf(t, words, e)
      PROVE  t.coretype # "REDIR" /\ t.rank \in {RANK_B, RANK_C} /\ t.value # NULL
  BY <1>2, NoSuchString DEF CommandOf
<1>3. ASSUME NEW p, PipeAt(items, p)
      PROVE  Triple(l)
  <2>1. PICK left, right : OnePipe(l, left, right, e)
    BY <1>3 DEF Shaped
  <2>2. /\ l \in Seq(Token) /\ Len(l) = 3 /\ IsPipe(l[2])
        /\ CommandOf(l[1], left, e) /\ CommandOf(l[3], right, e)
    BY <2>1 DEF OnePipe
  <2> QED
    BY <1>2, <2>2 DEF Triple
<1>4. ASSUME NEW p, RedirAt(items, p, P)
      PROVE  IF p = 1 THEN Pair(l) ELSE Chain(l)
  <2>1. Redirected(l, items, e, p)
    BY <1>4 DEF Shaped
  <2>2. CASE p = 1
    BY <2>1, <2>2 DEF Redirected, OneRedir, RedirOf, Pair
  <2>3. CASE p # 1
    <3>1. PICK left, v, f : CommandRedir(l, left, v, f, e)
      BY <2>1, <2>3 DEF Redirected
    <3>2. CommandOf(l[1], left, e)
      BY <3>1 DEF CommandRedir
    <3>3. Chain(l)
      BY <1>2, <3>1, <3>2 DEF CommandRedir, RedirOf, Chain
    <3> QED
      BY <2>3, <3>3
  <2> QED
    BY <2>2, <2>3
<1> QED
  BY <1>1, <1>3, <1>4

LEMMA ShapedAtFirst ==
  ASSUME NEW items, NEW e, Agreeable(items, e), NEW P, NEW x, Ready(x, items, e), Filed(x, items, P),
         NEW l, l = handler_args_file(x)
  PROVE  Shaped(l, items, e, P)
<1>1. items \in Seq(ItemSet) /\ items # <<>>
  BY DEF Agreeable
<1>2. AsOne(items) => OneCommand(l, items, e)
  BY <1>1, WordsAttached DEF AsOne
<1>3. ASSUME NEW p, PipeAt(items, p), NEW left, left = SubSeq(items, 1, p - 1),
             NEW right, right = Rest(items, p + 1)
      PROVE  OnePipe(l, left, right, e)
  <2>1. /\ p \in 2..(Len(items) - 1) /\ OnlyCut(items, p)
        /\ ~ Word(items[p]) /\ Text(items[p]) = <<"|">>
    BY <1>3 DEF PipeAt
  <2> QED
    BY <1>1, <1>3, <2>1, PipeAttached
<1>4. ASSUME NEW p, RedirAt(items, p, P)
      PROVE  Redirected(l, items, e, p)
  <2>1. p \in 1..(Len(items) - 1) /\ p \in Nat
    BY <1>4 DEF RedirAt
  <2>2. CASE p = 1
    <3>1. RedirAt(items, 1, P)
      BY <1>4, <2>2
    <3>2. OneRedir(l, Text(items[1]), Text(items[2]))
      BY <3>1, RedirAlone
    <3> QED
      BY <2>2, <3>2 DEF Redirected
  <2>3. CASE p # 1
    <3>1. p > 1
      BY <2>1, <2>3
    <3>2. PICK left, v, f : left = SubSeq(items, 1, p - 1) /\ v = Text(items[p]) /\ f = Text(items[p + 1])
      OBVIOUS
    <3>3. CommandRedir(l, left, v, f, e)
      BY <1>4, <2>1, <3>1, <3>2, RedirAttached
    <3> QED
      BY <2>3, <3>2, <3>3 DEF Redirected
  <2> QED
    BY <2>2, <2>3
<1> QED
  BY <1>2, <1>3, <1>4 DEF Shaped

LEMMA ShapedLater ==
  ASSUME NEW l \in Seq(Token), NEW items, NEW e, NEW P, Shaped(l, items, e, P), NEW k \in 1..Len(l),
         NEW found, NULL \notin found,
         NEW m, m = [l EXCEPT ![k] = parser_cmd_no_found(@, found)], m \in Seq(Token)
  PROVE  Shaped(m, items, e, P)
<1>1. PICK t \in Token : t = l[k]
  OBVIOUS
<1>2. PICK u : u = parser_cmd_no_found(t, found)
  OBVIOUS
<1>3. IsPipe(t) \/ t.coretype = "REDIR" \/ Trailing(t) => u = t
  BY <1>2, LookKeeps
<1>4. \A words : CommandOf(t, words, e) => CommandOf(u, words, e)
  BY <1>2, LookKeeps
<1>5. Len(m) = Len(l) /\ \A j \in 1..Len(l) : m[j] = IF j = k THEN u ELSE l[j]
  BY <1>1, <1>2
<1>6. ASSUME NEW j \in 1..Len(l)
      PROVE  /\ IsPipe(l[j]) \/ l[j].coretype = "REDIR" \/ Trailing(l[j]) => m[j] = l[j]
             /\ \A words : CommandOf(l[j], words, e) => CommandOf(m[j], words, e)
  <2>1. CASE j = k
    BY <1>1, <1>3, <1>4, <1>5, <2>1
  <2>2. CASE j # k
    BY <1>5, <2>2
  <2> QED
    BY <2>1, <2>2
<1>7. ASSUME NEW words, OneCommand(l, words, e)
      PROVE  OneCommand(m, words, e)
  <2>1. Len(l) = 1 /\ CommandOf(l[1], words, e) /\ 1 \in 1..Len(l)
    BY <1>7 DEF OneCommand
  <2> QED
    BY <1>5, <1>6, <2>1 DEF OneCommand
<1>8. ASSUME NEW left, NEW right, OnePipe(l, left, right, e)
      PROVE  OnePipe(m, left, right, e)
  <2>1. /\ Len(l) = 3 /\ CommandOf(l[1], left, e) /\ IsPipe(l[2]) /\ CommandOf(l[3], right, e)
        /\ 1 \in 1..Len(l) /\ 2 \in 1..Len(l) /\ 3 \in 1..Len(l)
    BY <1>8 DEF OnePipe
  <2> QED
    BY <1>5, <1>6, <2>1 DEF OnePipe
<1>9. ASSUME NEW v, NEW f, OneRedir(l, v, f)
      PROVE  OneRedir(m, v, f)
  <2>1. /\ Len(l) = 2 /\ RedirOf(l[1], v, f) /\ Trailing(l[2]) /\ 1 \in 1..Len(l) /\ 2 \in 1..Len(l)
    BY <1>9 DEF OneRedir
  <2>2. m[1] = l[1] /\ m[2] = l[2]
    BY <1>6, <2>1 DEF RedirOf
  <2> QED
    BY <1>5, <2>1, <2>2 DEF OneRedir
<1>10. ASSUME NEW left, NEW v, NEW f, CommandRedir(l, left, v, f, e)
       PROVE  CommandRedir(m, left, v, f, e)
  <2>1. /\ Len(l) = 3 /\ CommandOf(l[1], left, e) /\ RedirOf(l[2], v, f) /\ Trailing(l[3])
        /\ 1 \in 1..Len(l) /\ 2 \in 1..Len(l) /\ 3 \in 1..Len(l)
    BY <1>10 DEF CommandRedir
  <2>2. CommandOf(m[1], left, e) /\ m[2] = l[2] /\ m[3] = l[3]
    BY <1>6, <2>1 DEF RedirOf
  <2> QED
    BY <1>5, <2>1, <2>2 DEF CommandRedir
<1>11. \A p : Redirected(l, items, e, p) => Redirected(m, items, e, p)
  BY <1>9, <1>10 DEF Redirected
<1> QED
  BY <1>7, <1>8, <1>11 DEF Shaped

LEMMA GrowthStarts ==
  ASSUME NEW l, NEW items, NEW e, NEW P, Shaped(l, items, e, P), NEW y, y = init_yggdrasil(l),
         NEW cs, cs = IF y.crashed \/ y.eof THEN <<>> ELSE <<Call(y.root, 0, y.root)>>
  PROVE  Sprouts(l, items, y, cs, P)
<1>1. ASSUME y.root = 1, ~ y.crashed, ~ y.eof, Call(1, 0, 1) \in OnOne(l)
      PROVE  cs \in Seq(OnOne(l))
  <2>1. PICK c \in OnOne(l) : c = Call(1, 0, 1)
    BY <1>1
  <2>2. cs = <<c>>
    BY <1>1, <2>1
  <2> QED
    BY <2>2
<1>2. ASSUME AsOne(items)
      PROVE  Planted(y) /\ cs \in Seq(OnOne(l))
  <2>1. Single(l)
    BY <1>2, ShapedIs
  <2>2. Planted(y) /\ ~ y.crashed /\ Call(1, 0, 1) \in OnOne(l)
    BY <2>1, SingleRoot
  <2> QED
    BY <1>1, <2>2 DEF Planted
<1>3. ASSUME RootAlone(y), ~ y.crashed
      PROVE  Grown(l, y, cs)
  BY <1>3 DEF RootAlone, Grown
<1>4. ASSUME NEW p, PipeAt(items, p)
      PROVE  Grown(l, y, cs)
  <2>1. Triple(l)
    BY <1>4, ShapedIs
  <2> QED
    BY <1>3, <2>1, TripleRoot
<1>5. ASSUME NEW p, RedirAt(items, p, P)
      PROVE  IF p = 1 THEN Idle(y) /\ cs \in Seq(OnOne(l)) ELSE Grown(l, y, cs)
  <2>1. IF p = 1 THEN Pair(l) ELSE Chain(l)
    BY <1>5, ShapedIs
  <2>2. CASE p = 1
    <3>1. Idle(y) /\ ~ y.crashed /\ Call(1, 0, 1) \in OnOne(l)
      BY <2>1, <2>2, PairRoot
    <3>2. cs \in Seq(OnOne(l))
      BY <1>1, <3>1 DEF Idle
    <3> QED
      BY <2>2, <3>1, <3>2
  <2>3. CASE p # 1
    <3>1. Grown(l, y, cs)
      BY <1>3, <2>1, <2>3, ChainRoot
    <3> QED
      BY <2>3, <3>1
  <2> QED
    BY <2>2, <2>3
<1> QED
  BY <1>2, <1>4, <1>5 DEF Sprouts

LEMMA GrowthGoesOn ==
  ASSUME NEW l, NEW items, NEW e, NEW P, Shaped(l, items, e, P), NEW y \in Forest(l),
         NEW cs, Sprouts(l, items, y, cs, P), cs # <<>>, NEW c, c = Head(cs), ~ c.made,
         NEW z, z = Children(l, y, c),
         NEW ds, ds = CallsLeft(l, z, c) \o <<[c EXCEPT !.made = TRUE]>> \o Tail(cs)
  PROVE  Sprouts(l, items, z, ds, P)
<1>1. PICK s, d, rest : s = CallsLeft(l, z, c) /\ d = [c EXCEPT !.made = TRUE] /\ rest = Tail(cs)
  OBVIOUS
<1>2. ds = s \o <<d>> \o rest
  BY <1>1
<1>3. ASSUME NEW S, s \in Seq(S), d \in S, rest \in Seq(S)
      PROVE  ds \in Seq(S)
  <2>1. PICK w : w = <<d>>
    OBVIOUS
  <2>2. w \in Seq(S)
    BY <1>3, <2>1
  <2>3. s \o w \in Seq(S)
    BY <1>3, <2>2, ConcatProperties
  <2>4. (s \o w) \o rest \in Seq(S)
    BY <1>3, <2>3, ConcatProperties
  <2> QED
    BY <1>2, <2>1, <2>4
<1>4. ASSUME s = <<>>, d \in OnOne(l), rest \in Seq(OnOne(l))
      PROVE  ds \in Seq(OnOne(l))
  <2>1. s \in Seq(OnOne(l))
    BY <1>4
  <2> QED
    BY <1>3, <1>4, <2>1
<1>5. ASSUME AsOne(items)
      PROVE  Planted(z) /\ ds \in Seq(OnOne(l))
  <2>1. Single(l) /\ Planted(y) /\ cs \in Seq(OnOne(l))
    BY <1>5, ShapedIs DEF Sprouts
  <2>2. c \in OnOne(l) /\ rest \in Seq(OnOne(l))
    BY <1>1, <2>1
  <2>3. Planted(z) /\ s = <<>> /\ d \in OnOne(l)
    BY <1>1, <2>1, <2>2, SingleGrows
  <2> QED
    BY <1>4, <2>2, <2>3
<1>6. ASSUME Triple(l) \/ Chain(l), Grown(l, y, cs)
      PROVE  Grown(l, z, ds)
  <2>1. Three(l)
    BY <1>6 DEF Triple, Chain, Three
  <2>2. CASE RootAlone(y) /\ cs = <<Call(2, 0, 2)>>
    <3>1. c = Call(2, 0, 2) /\ rest = <<>>
      BY <1>1, <2>2
    <3>2. Spread(z) /\ s \in Seq(OnThree(l)) /\ d \in OnThree(l)
      BY <1>1, <1>6, <2>2, <3>1, TripleGrows, ChainGrows
    <3>3. rest \in Seq(OnThree(l))
      BY <3>1
    <3>4. ds \in Seq(OnThree(l))
      BY <1>3, <3>2, <3>3
    <3> QED
      BY <3>2, <3>4 DEF Grown
  <2>3. CASE Spread(y) /\ cs \in Seq(OnThree(l))
    <3>1. c \in OnThree(l) /\ rest \in Seq(OnThree(l))
      BY <1>1, <2>3
    <3>2. Spread(z) /\ s = <<>> /\ d \in OnThree(l)
      BY <1>1, <2>1, <2>3, <3>1, SpreadStays
    <3>3. s \in Seq(OnThree(l))
      BY <3>2
    <3>4. ds \in Seq(OnThree(l))
      BY <1>3, <3>1, <3>2, <3>3
    <3> QED
      BY <3>2, <3>4 DEF Grown
  <2> QED
    BY <1>6, <2>2, <2>3 DEF Grown
<1>7. ASSUME NEW p, PipeAt(items, p)
      PROVE  Grown(l, z, ds)
  <2>1. Triple(l) /\ Grown(l, y, cs)
    BY <1>7, ShapedIs DEF Sprouts
  <2> QED
    BY <1>6, <2>1
<1>8. ASSUME NEW p, RedirAt(items, p, P)
      PROVE  IF p = 1 THEN Idle(z) /\ ds \in Seq(OnOne(l)) ELSE Grown(l, z, ds)
  <2>1. /\ IF p = 1 THEN Pair(l) ELSE Chain(l)
        /\ IF p = 1 THEN Idle(y) /\ cs \in Seq(OnOne(l)) ELSE Grown(l, y, cs)
    BY <1>8, ShapedIs DEF Sprouts
  <2>2. CASE p = 1
    <3>1. c \in OnOne(l) /\ rest \in Seq(OnOne(l))
      BY <1>1, <2>1, <2>2
    <3>2. Idle(z) /\ s = <<>> /\ d \in OnOne(l)
      BY <1>1, <2>1, <2>2, <3>1, PairGrows
    <3>3. ds \in Seq(OnOne(l))
      BY <1>4, <3>1, <3>2
    <3> QED
      BY <2>2, <3>2, <3>3
  <2>3. CASE p # 1
    <3>1. Grown(l, z, ds)
      BY <1>6, <2>1, <2>3
    <3> QED
      BY <2>3, <3>1
  <2> QED
    BY <2>2, <2>3
<1> QED
  BY <1>5, <1>7, <1>8 DEF Sprouts

LEMMA GrowthTurns ==
  ASSUME NEW l, NEW items, NEW e, NEW P, Shaped(l, items, e, P), NEW y \in Forest(l),
         NEW cs, Sprouts(l, items, y, cs, P), cs # <<>>, NEW c, c = Head(cs), c.made,
         NEW ds, ds = CallsRight(l, y, c) \o Tail(cs)
  PROVE  Sprouts(l, items, y, ds, P)
<1>1. PICK s, rest : s = CallsRight(l, y, c) /\ rest = Tail(cs)
  OBVIOUS
<1>2. ds = s \o rest
  BY <1>1
<1>3. ASSUME NEW S, s \in Seq(S), rest \in Seq(S)
      PROVE  ds \in Seq(S)
  BY <1>2, <1>3, ConcatProperties
<1>4. ASSUME s = <<>>, rest \in Seq(OnOne(l))
      PROVE  ds \in Seq(OnOne(l))
  <2>1. s \in Seq(OnOne(l))
    BY <1>4
  <2> QED
    BY <1>3, <1>4, <2>1
<1>5. ASSUME AsOne(items)
      PROVE  Planted(y) /\ ds \in Seq(OnOne(l))
  <2>1. Single(l) /\ Planted(y) /\ cs \in Seq(OnOne(l))
    BY <1>5, ShapedIs DEF Sprouts
  <2>2. c \in OnOne(l) /\ rest \in Seq(OnOne(l))
    BY <1>1, <2>1
  <2>3. s = <<>>
    BY <1>1, <2>1, <2>2, SingleGrows
  <2> QED
    BY <1>4, <2>1, <2>2, <2>3
<1>6. ASSUME Triple(l) \/ Chain(l), Grown(l, y, cs)
      PROVE  Grown(l, y, ds)
  <2>1. Three(l)
    BY <1>6 DEF Triple, Chain, Three
  <2>2. cs # <<Call(2, 0, 2)>>
    <3>1. cs = <<Call(2, 0, 2)>> => c = Call(2, 0, 2)
      OBVIOUS
    <3> QED
      BY <3>1 DEF Call
  <2>3. Spread(y) /\ cs \in Seq(OnThree(l))
    BY <1>6, <2>2 DEF Grown
  <2>4. c \in OnThree(l) /\ rest \in Seq(OnThree(l))
    BY <1>1, <2>3
  <2>5. s \in Seq(OnThree(l))
    BY <1>1, <2>1, <2>3, <2>4, SpreadStays
  <2>6. ds \in Seq(OnThree(l))
    BY <1>3, <2>4, <2>5
  <2> QED
    BY <2>3, <2>6 DEF Grown
<1>7. ASSUME NEW p, PipeAt(items, p)
      PROVE  Grown(l, y, ds)
  <2>1. Triple(l) /\ Grown(l, y, cs)
    BY <1>7, ShapedIs DEF Sprouts
  <2> QED
    BY <1>6, <2>1
<1>8. ASSUME NEW p, RedirAt(items, p, P)
      PROVE  IF p = 1 THEN Idle(y) /\ ds \in Seq(OnOne(l)) ELSE Grown(l, y, ds)
  <2>1. /\ IF p = 1 THEN Pair(l) ELSE Chain(l)
        /\ IF p = 1 THEN Idle(y) /\ cs \in Seq(OnOne(l)) ELSE Grown(l, y, cs)
    BY <1>8, ShapedIs DEF Sprouts
  <2>2. CASE p = 1
    <3>1. c \in OnOne(l) /\ rest \in Seq(OnOne(l))
      BY <1>1, <2>1, <2>2
    <3>2. s = <<>>
      BY <1>1, <2>1, <2>2, <3>1, PairGrows
    <3>3. ds \in Seq(OnOne(l))
      BY <1>4, <3>1, <3>2
    <3> QED
      BY <2>1, <2>2, <3>3
  <2>3. CASE p # 1
    <3>1. Grown(l, y, ds)
      BY <1>6, <2>1, <2>3
    <3> QED
      BY <2>3, <3>1
  <2> QED
    BY <2>2, <2>3
<1> QED
  BY <1>5, <1>7, <1>8 DEF Sprouts

\* From the arguments on, list and tree are what a line the passes agree about
\* asks for.
TreeFits ==
  pc \in {"again", "build", "execute"} /\ Agreeable(Items(line), before) =>
    /\ env = before /\ Shaped(list, Items(line), before, Program(session))
    /\ pc # "again" => Sprouts(list, Items(line), tree, calls, Program(session))

LEMMA TreeFitsKept ==
  ASSUME IInv, OfTheLine, TreeFits, [Next]_vars
  PROVE  TreeFits'
<1>1. Sound /\ Passed /\ Built /\ Passed' /\ line \in Seq(Symbol)
  BY PassedKept DEF IInv, Sound
<1>2. list \in Seq(Token) /\ list' \in Seq(Token) /\ Len(list) \in Nat
  BY <1>1 DEF Passed
<1>a. session' = session
  BY DEF Next, SplitInput, QuoteHandler, Typealize, Merge, ParseError, Assign,
         ExpandAndAttach, LookAgain, InitYggdrasil, MakeChildren, GoRight, TreeMade,
         Execute, Change, past, vars
<1>b. PICK P : P = Program(session) /\ Program(session)' = P
  BY <1>a
<1>c. NULL \notin P /\ search_list(env) \in SUBSET P
  BY <1>1, <1>b, LineAssumption, NoSuchString DEF search_list, Sound
<1> USE <1>b
<1>3. CASE SplitInput \/ QuoteHandler \/ Typealize \/ Merge \/ ParseError \/ Assign \/ Execute
  <2>1. pc' \notin {"again", "build", "execute"}
    BY <1>3 DEF SplitInput, QuoteHandler, Typealize, Merge, ParseError, Assign, Execute
  <2> QED
    BY <2>1 DEF TreeFits
<1>4. CASE ExpandAndAttach
  <2>1. /\ pc = "expand" /\ pc' = "again" /\ line' = line /\ before' = before /\ env' = env
        /\ list' = handler_args_file(expand_token_list_no_assignments(list, env))
    BY <1>4 DEF ExpandAndAttach, past
  <2>2. PICK items : items = Items(line)
    OBVIOUS
  <2>3. PICK e : e = before
    OBVIOUS
  <2>4. ASSUME Agreeable(items, e)
        PROVE  env = e /\ Shaped(list', items, e, P)
    <3>1. line # <<>> /\ EnvOK(e)
      BY <2>1, <2>3 DEF OfTheLine
    <3>2. PICK m : HasAssigned(line, before, env, m, P) /\ list = MarkedAssignments(m)
      BY <2>1 DEF OfTheLine
    <3>3. PICK ln \in Seq(Symbol) : ln = line
      BY <1>1
    <3>4. FromLine(ln, e, m, P) /\ env = AssignedEnv(m, Assignments(m), e)
      BY <2>3, <3>2, <3>3 DEF HasAssigned
    <3>5. PICK q : Looked(split_input(ln), e, q, P) /\ m = merg_tok_excep_cll_revloop(q)
      BY <3>4 DEF FromLine
    <3>6. Understood(m, items, e) /\ Filed(m, items, P)
      BY <1>c, <2>2, <2>4, <3>1, <3>3, <3>5, LineSeen
    <3>7. PICK x : x = expand_token_list_no_assignments(MarkedAssignments(m), e)
      OBVIOUS
    <3>8. Ready(x, items, e) /\ Filed(x, items, P) /\ env = e
      BY <2>4, <3>4, <3>6, <3>7, LineReady
    <3>9. PICK l : l = handler_args_file(x)
      OBVIOUS
    <3>10. Shaped(l, items, e, P)
      BY <2>4, <3>8, <3>9, ShapedAtFirst
    <3> QED
      BY <2>1, <3>2, <3>7, <3>8, <3>9, <3>10
  <2> QED
    BY <2>1, <2>2, <2>3, <2>4 DEF TreeFits
<1>5. CASE LookAgain
  <2>1. /\ pc = "again" /\ pc' = "again" /\ line' = line /\ before' = before /\ env' = env
        /\ i \in 1..Len(list)
        /\ list' = [list EXCEPT ![i] = parser_cmd_no_found(@, search_list(env))]
    BY <1>1, <1>2, <1>5 DEF LookAgain, past, Sound
  <2>2. PICK items : items = Items(line)
    OBVIOUS
  <2>3. PICK e : e = before
    OBVIOUS
  <2>4. PICK l, k : l = list /\ k = i
    OBVIOUS
  <2>5. PICK found : found = search_list(env) /\ NULL \notin found
    BY <1>c
  <2>6. PICK m : m = [l EXCEPT ![k] = parser_cmd_no_found(@, found)]
    OBVIOUS
  <2>7. list' = m
    BY <2>1, <2>4, <2>5, <2>6
  <2>8. Shaped(l, items, e, P) => Shaped(m, items, e, P)
    <3>1. l \in Seq(Token) /\ k \in 1..Len(l) /\ m \in Seq(Token)
      BY <1>2, <2>1, <2>4, <2>7
    <3> QED
      BY <2>5, <2>6, <3>1, ShapedLater
  <2> QED
    BY <2>1, <2>2, <2>3, <2>4, <2>7, <2>8 DEF TreeFits
<1>6. CASE InitYggdrasil
  <2>1. /\ pc = "again" /\ line' = line /\ before' = before /\ env' = env /\ list' = list
        /\ tree' = init_yggdrasil(list)
        /\ pc' = IF tree'.crashed THEN "crashed" ELSE IF tree'.eof THEN "execute" ELSE "build"
        /\ calls' = IF pc' = "build" THEN <<Call(tree'.root, 0, tree'.root)>> ELSE <<>>
    BY <1>6 DEF InitYggdrasil, past
  <2>2. PICK items, e, l, y : items = Items(line) /\ e = before /\ l = list /\ y = tree'
    OBVIOUS
  <2>3. PICK cs : cs = calls'
    OBVIOUS
  <2>4. cs = IF y.crashed \/ y.eof THEN <<>> ELSE <<Call(y.root, 0, y.root)>>
    BY <2>1, <2>2, <2>3
  <2>5. y = init_yggdrasil(l)
    BY <2>1, <2>2
  <2>6. Shaped(l, items, e, P) => Sprouts(l, items, y, cs, P)
    BY <2>4, <2>5, GrowthStarts
  <2> QED
    BY <2>1, <2>2, <2>3, <2>6 DEF TreeFits
<1>7. CASE MakeChildren
  <2>1. PICK c : c = Head(calls)
    OBVIOUS
  <2>2. /\ pc = "build" /\ pc' = "build" /\ line' = line /\ before' = before /\ env' = env
        /\ list' = list /\ calls # <<>> /\ ~ c.made
        /\ tree' = Children(list, tree, c)
        /\ calls' = CallsLeft(list, tree', c) \o <<[c EXCEPT !.made = TRUE]>> \o Tail(calls)
    BY <1>7, <2>1 DEF MakeChildren, past
  <2>3. PICK items, e, l, y, cs :
          items = Items(line) /\ e = before /\ l = list /\ y = tree /\ cs = calls
    OBVIOUS
  <2>4. PICK z, ds : z = tree' /\ ds = calls'
    OBVIOUS
  <2>5. y \in Forest(l)
    BY <1>1, <2>2, <2>3 DEF Built
  <2>6. z = Children(l, y, c)
    BY <2>2, <2>3, <2>4
  <2>7. ds = CallsLeft(l, z, c) \o <<[c EXCEPT !.made = TRUE]>> \o Tail(cs)
    BY <2>2, <2>3, <2>4
  <2>8. Shaped(l, items, e, P) /\ Sprouts(l, items, y, cs, P) => Sprouts(l, items, z, ds, P)
    BY <2>1, <2>2, <2>3, <2>5, <2>6, <2>7, GrowthGoesOn
  <2> QED
    BY <2>2, <2>3, <2>4, <2>8 DEF TreeFits
<1>8. CASE GoRight
  <2>1. PICK c : c = Head(calls)
    OBVIOUS
  <2>2. /\ pc = "build" /\ pc' = "build" /\ line' = line /\ before' = before /\ env' = env
        /\ list' = list /\ tree' = tree /\ calls # <<>> /\ c.made
        /\ calls' = CallsRight(list, tree, c) \o Tail(calls)
    BY <1>8, <2>1 DEF GoRight, past
  <2>3. PICK items, e, l, y, cs :
          items = Items(line) /\ e = before /\ l = list /\ y = tree /\ cs = calls
    OBVIOUS
  <2>4. PICK ds : ds = calls'
    OBVIOUS
  <2>5. y \in Forest(l)
    BY <1>1, <2>2, <2>3 DEF Built
  <2>6. ds = CallsRight(l, y, c) \o Tail(cs)
    BY <2>2, <2>3, <2>4
  <2>7. Shaped(l, items, e, P) /\ Sprouts(l, items, y, cs, P) => Sprouts(l, items, y, ds, P)
    BY <2>1, <2>2, <2>3, <2>5, <2>6, GrowthTurns
  <2> QED
    BY <2>2, <2>3, <2>4, <2>7 DEF TreeFits
<1>9. CASE TreeMade
  BY <1>9 DEF TreeMade, past, built, TreeFits
<1>10. CASE Change
  BY <1>10 DEF Change, past, built, TreeFits
<1>11. CASE UNCHANGED vars
  BY <1>11 DEF vars, TreeFits
<1> QED
  BY <1>3, <1>4, <1>5, <1>6, <1>7, <1>8, <1>9, <1>10, <1>11 DEF Next

\* The list and the tree of a line the passes agree about, and the environment
\* it is run in, at every step from the arguments on.
THEOREM TreesFitLines == Spec => []TreeFits
<1>1. Init => TreeFits
  BY DEF Init, TreeFits
<1>2. IInv /\ OfTheLine /\ TreeFits /\ [Next]_vars => TreeFits'
  BY TreeFitsKept
<1> QED
  BY <1>1, <1>2, PassesAgree, PassesFollowLine, PTL DEF Spec

\* A line of words becomes one command, each word one argument of it: whatever
\* quotes, spaces and variables it is put together of, and for every line, of
\* whatever length, every environment and every program installed meanwhile.
THEOREM CommandsAreRead == Spec => []CommandRead
<1>1. ASSUME IInv, OfTheLine, TreeFits, pc = "execute", NEW items, items = Items(line),
             AgreedLine(items), \A k \in DOMAIN items : Word(items[k])
      PROVE  Leaf(tree.root) /\ ~ tree.eof /\ Argv(tree.root) = Asked(items)
  <2>1. line \in Seq(Symbol) /\ EnvOK(before)
    BY <1>1 DEF IInv, Sound, OfTheLine
  <2>2. items \in Seq(ItemSet) /\ Sorted(items) /\ line # <<>>
    BY <1>1, <2>1, ItemsTyped, ItemKinds DEF OfTheLine
  <2>3. Agreeable(items, before)
    BY <1>1, <2>1, <2>2, AgreedIs
  <2>4. /\ env = before /\ Shaped(list, items, before, Program(session))
        /\ Sprouts(list, items, tree, calls, Program(session))
    BY <1>1, <2>3 DEF TreeFits
  <2>5. AsOne(items)
    <3>1. DOMAIN items = 1..Len(items) /\ items # <<>>
      BY <2>2, <2>3 DEF Agreeable
    <3> QED
      BY <1>1, <3>1 DEF AsOne
  <2>6. Planted(tree) /\ OneCommand(list, items, before)
    BY <2>4, <2>5 DEF Sprouts, Shaped
  <2>7. Leaf(tree.root) /\ ~ tree.eof /\ tree.root = 1
    BY <2>6 DEF Planted, Leaf
  <2>8. Argv(1) = Asked(items)
    BY <2>4, <2>6 DEF OneCommand, CommandOf, Argv, Asked
  <2> QED
    BY <2>7, <2>8
<1>2. IInv /\ OfTheLine /\ TreeFits => CommandRead
  BY <1>1 DEF CommandRead
<1> QED
  BY <1>2, PassesAgree, PassesFollowLine, TreesFitLines, PTL

\* A line with one operator has words besides.
LEMMA OneCut ==
  ASSUME NEW items \in Seq(ItemSet), Sorted(items), NEW p, Cuts(items, AllOps) = {p}
  PROVE  OnlyCut(items, p) /\ ~ Word(items[p])
<1>1. DOMAIN items = 1..Len(items)
  OBVIOUS
<1>2. Op(items[p])
  BY DEF Cuts
<1>3. ~ Word(items[p])
  BY <1>2 DEF Op, Word
<1>4. ASSUME NEW k \in 1..Len(items), k # p
      PROVE  Word(items[k])
  <2>1. k \notin Cuts(items, AllOps)
    BY <1>4
  <2>2. ~ Op(items[k]) \/ Text(items[k]) \notin AllOps
    BY <1>1, <2>1 DEF Cuts
  <2>3. AllOps = OpText
    BY DEF AllOps, OpText
  <2>4. ~ Word(items[k]) => Op(items[k]) /\ Text(items[k]) \in OpText
    BY DEF Sorted, Word, Op
  <2> QED
    BY <2>2, <2>3, <2>4
<1> QED
  BY <1>3, <1>4 DEF OnlyCut

\* A line with one pipe becomes that pipe, with the command before it on its
\* left and the one behind it on its right, for every such line.
THEOREM PipelinesAreRead == Spec => []PipelineRead
<1>1. ASSUME IInv, OfTheLine, TreeFits, pc = "execute", NEW items, items = Items(line),
             AgreedLine(items), NEW p \in 2..(Len(items) - 1),
             Cuts(items, AllOps) = {p}, Text(items[p]) = <<"|">>
      PROVE  LET r == tree.root IN
             /\ ~ tree.eof /\ list[r].type = "PIPE"
             /\ Leaf(tree.left[r]) /\ Leaf(tree.right[r])
             /\ Argv(tree.left[r]) = Asked(SubSeq(items, 1, p - 1))
             /\ Argv(tree.right[r]) = Asked(Rest(items, p + 1))
  <2>1. line \in Seq(Symbol) /\ EnvOK(before)
    BY <1>1 DEF IInv, Sound, OfTheLine
  <2>2. items \in Seq(ItemSet) /\ Sorted(items) /\ line # <<>>
    BY <1>1, <2>1, ItemsTyped, ItemKinds DEF OfTheLine
  <2>3. Agreeable(items, before)
    BY <1>1, <2>1, <2>2, AgreedIs
  <2>4. /\ env = before /\ Shaped(list, items, before, Program(session))
        /\ Sprouts(list, items, tree, calls, Program(session))
    BY <1>1, <2>3 DEF TreeFits
  <2>5. PipeAt(items, p)
    <3>1. OnlyCut(items, p) /\ ~ Word(items[p])
      BY <1>1, <2>2, OneCut
    <3> QED
      BY <1>1, <3>1 DEF PipeAt
  <2>6. calls = <<>>
    BY <1>1 DEF IInv, Built
  <2>7. Spread(tree) /\ OnePipe(list, SubSeq(items, 1, p - 1), Rest(items, p + 1), before)
    <3>1. ~ (calls = <<Call(2, 0, 2)>>)
      BY <2>6
    <3> QED
      BY <2>4, <2>5, <3>1 DEF Sprouts, Shaped, Grown
  <2>8. /\ tree.root = 2 /\ ~ tree.eof /\ tree.left[2] = 1 /\ tree.right[2] = 3
        /\ Leaf(1) /\ Leaf(3)
    BY <2>7 DEF Spread, Leaf
  <2>9. list[2].type = "PIPE"
    BY <2>7 DEF OnePipe, IsPipe
  <2>10. /\ Argv(1) = Asked(SubSeq(items, 1, p - 1))
         /\ Argv(3) = Asked(Rest(items, p + 1))
    BY <2>4, <2>7 DEF OnePipe, CommandOf, Argv, Asked
  <2> QED
    BY <2>8, <2>9, <2>10
<1>2. IInv /\ OfTheLine /\ TreeFits => PipelineRead
  BY <1>1 DEF PipelineRead
<1> QED
  BY <1>2, PassesAgree, PassesFollowLine, TreesFitLines, PTL

\* A line that ends with its only redirection becomes that redirection, of its
\* file, over the command before it, for every such line, as long as no program
\* there may ever be has the file's name.
THEOREM RedirectionsAreRead == Spec => []RedirectionRead
<1>1. ASSUME IInv, OfTheLine, TreeFits, pc = "execute", NEW items, items = Items(line),
             AgreedLine(items), NEW p, p = Len(items) - 1, p > 0, Cuts(items, AllOps) = {p},
             Text(items[p]) # <<"|">>, ~ Has(items[p + 1], "$"), NoProgram(items[p + 1])
      PROVE  LET r == tree.root IN
             /\ ~ tree.eof /\ list[r].type = RedirType(Text(items[p]))
             /\ list[r].file = Text(items[p + 1])
             /\ IF p = 1 THEN tree.left[r] = 0
                ELSE Argv(tree.left[r]) = Asked(SubSeq(items, 1, p - 1))
  <2>1. line \in Seq(Symbol) /\ EnvOK(before)
    BY <1>1 DEF IInv, Sound, OfTheLine
  <2>2. items \in Seq(ItemSet) /\ Sorted(items) /\ line # <<>>
    BY <1>1, <2>1, ItemsTyped, ItemKinds DEF OfTheLine
  <2>3. Agreeable(items, before)
    BY <1>1, <2>1, <2>2, AgreedIs
  <2>4. /\ env = before /\ Shaped(list, items, before, Program(session))
        /\ Sprouts(list, items, tree, calls, Program(session))
    BY <1>1, <2>3 DEF TreeFits
  <2>5. DOMAIN items = 1..Len(items) /\ Len(items) \in Nat
    BY <2>2
  <2>6. p \in 1..(Len(items) - 1) /\ Len(items) = p + 1 /\ p \in Nat
    BY <1>1, <2>5
  <2>7. OnlyCut(items, p) /\ ~ Word(items[p])
    BY <1>1, <2>2, OneCut
  <2>8. Text(items[p]) \in RedirText
    BY <1>1 DEF Cuts, AllOps
  <2>9. NoneOf(items[p + 1], Program(session))
    <3>1. PICK w \in ItemSet : w = items[p + 1]
      BY <2>2, <2>6
    <3>2. NoDollar(Text(w))
      BY <1>1, <3>1, HasDollar
    <3>3. \A a \in Program(session) : ~ HasPart(w, a)
      BY <1>1, <3>1 DEF NoProgram, HasPart
    <3> QED
      BY <3>1, <3>2, <3>3 DEF NoneOf
  <2>10. RedirAt(items, p, Program(session))
    BY <2>6, <2>7, <2>8, <2>9 DEF RedirAt
  <2>11. calls = <<>>
    BY <1>1 DEF IInv, Built
  <2>12. CASE p = 1
    <3>1. Idle(tree) /\ OneRedir(list, Text(items[1]), Text(items[2]))
      BY <2>4, <2>10, <2>12 DEF Sprouts, Shaped, Redirected
    <3>2. tree.root = 1 /\ ~ tree.eof /\ tree.left[1] = 0
      BY <3>1 DEF Idle
    <3>3. list[1].type = RedirType(Text(items[1])) /\ list[1].file = Text(items[2])
      BY <3>1 DEF OneRedir, RedirOf
    <3>4. p + 1 = 2
      BY <2>12
    <3> QED
      BY <2>12, <3>2, <3>3, <3>4
  <2>13. CASE p # 1
    <3>1. ~ (calls = <<Call(2, 0, 2)>>)
      BY <2>11
    <3>2. Spread(tree)
      BY <2>4, <2>10, <2>13, <3>1 DEF Sprouts, Grown
    <3>3. CommandRedir(list, SubSeq(items, 1, p - 1), Text(items[p]), Text(items[p + 1]), before)
      BY <2>4, <2>10, <2>13 DEF Shaped, Redirected
    <3>4. tree.root = 2 /\ ~ tree.eof /\ tree.left[2] = 1
      BY <3>2 DEF Spread
    <3>5. list[2].type = RedirType(Text(items[p])) /\ list[2].file = Text(items[p + 1])
      BY <3>3 DEF CommandRedir, RedirOf
    <3>6. Argv(1) = Asked(SubSeq(items, 1, p - 1))
      BY <2>4, <3>3 DEF CommandRedir, CommandOf, Argv, Asked
    <3> QED
      BY <2>13, <3>4, <3>5, <3>6
  <2> QED
    BY <2>12, <2>13
<1>2. IInv /\ OfTheLine /\ TreeFits => RedirectionRead
  BY <1>1 DEF RedirectionRead
<1> QED
  BY <1>2, PassesAgree, PassesFollowLine, TreesFitLines, PTL
=============================================================================
