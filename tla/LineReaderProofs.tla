-------------------------- MODULE LineReaderProofs --------------------------
(***************************************************************************)
(* Theorems about LineReader for every input, every way read cuts it and   *)
(* every bound.                                                            *)
(***************************************************************************)
EXTENDS LineReader, TLAPS, SequenceTheorems, NaturalsInduction,
        WellFoundedInduction

-----------------------------------------------------------------------------
(* What the helpers return. *)

\* A set of naturals that is not empty has a least element.
LEMMA LeastExists ==
  ASSUME NEW S \in SUBSET Nat, S # {}
  PROVE  \E x \in S : \A y \in S : x <= y
<1> DEFINE R == {ss \in Nat \X Nat : ss[1] < ss[2]}
<1>1. IsWellFoundedOn(R, Nat)
  BY NatLessThanWellFounded DEF OpToRel
<1> HIDE DEF R
<1>2. PICK x \in S : \A y \in S : ~ (<<y, x>> \in R)
  BY <1>1, WFMin, Zenon
<1>3. ASSUME NEW y \in S
      PROVE  x <= y
  <2>1. x \in Nat /\ y \in Nat /\ <<y, x>> \notin R
    BY <1>2
  <2>2. ~ (y < x)
    BY <2>1 DEF R
  <2> QED
    BY <2>1, <2>2
<1> QED
  BY <1>3

\* ft_strchr_gnl finds the first place.
LEMMA FirstIsFirst ==
  ASSUME NEW s \in Seq(Item), NEW c, Has(s, c)
  PROVE  /\ First(s, c) \in 1..Len(s) /\ CharAt(s[First(s, c)]) = c
         /\ \A j \in 1..(First(s, c) - 1) : CharAt(s[j]) # c
<1> DEFINE S == {k \in 1..Len(s) : CharAt(s[k]) = c}
<1>0. DOMAIN s = 1..Len(s) /\ Len(s) \in Nat
  OBVIOUS
<1>1. S \in SUBSET Nat /\ S # {}
  BY <1>0 DEF Has
<1>2. PICK x \in S : \A y \in S : x <= y
  BY <1>1, LeastExists
<1>3. /\ x \in DOMAIN s /\ CharAt(s[x]) = c
      /\ \A j \in 1..(x - 1) : CharAt(s[j]) # c
  <2>1. ASSUME NEW j \in 1..(x - 1), CharAt(s[j]) = c
        PROVE  FALSE
    <3>1. j \in S
      BY <1>0, <2>1
    <3> QED
      BY <3>1, <1>2, <2>1
  <2> QED
    BY <1>0, <2>1
<1> QED
  BY <1>0, <1>3 DEF First

\* Without it the place is the one behind the end.
LEMMA FirstBehind ==
  ASSUME NEW s \in Seq(Item), NEW c, ~Has(s, c)
  PROVE  First(s, c) = Len(s) + 1
  BY DEF First

LEMMA FirstType ==
  ASSUME NEW s \in Seq(Item), NEW c
  PROVE  First(s, c) \in 1..(Len(s) + 1)
  BY FirstIsFirst, FirstBehind

LEMMA SubSeqType ==
  ASSUME NEW s \in Seq(Item), NEW m \in Nat \ {0}, NEW n \in Nat, n <= Len(s)
  PROVE  SubSeq(s, m, n) \in Seq(Item)
  BY SubSeqProperties

\* NULL reads as the empty text, and no text is NULL.
LEMMA TextType ==
  /\ Text(NULL) = <<>>
  /\ \A b \in Seq(Item) : b # NULL /\ Text(b) = b
  /\ \A b \in Seq(Item) \cup {NULL} : Text(b) \in Seq(Item)
  BY ReaderAssumption DEF Text

LEMMA TakeType ==
  ASSUME NEW b \in Seq(Item)
  PROVE  /\ ft_take_line(b) \in Seq(Item) \cup {NULL}
         /\ Has(b, NL) => ft_take_line(b) \in Seq(Item)
         /\ ft_rebuffer(b) \in Seq(Item) \cup {NULL}
<1>1. Has(b, NL) => b # <<>>
  BY DEF Has
<1>2. ASSUME Has(b, NL)
      PROVE  /\ SubSeq(b, 1, First(b, NL)) \in Seq(Item)
             /\ SubSeq(b, First(b, NL) + 1, Len(b)) \in Seq(Item)
  BY <1>2, FirstIsFirst, SubSeqType
<1> QED
  BY <1>1, <1>2 DEF ft_take_line, ft_rebuffer

LEMMA Associative ==
  ASSUME NEW s \in Seq(Item), NEW t \in Seq(Item), NEW u \in Seq(Item)
  PROVE  (s \o t) \o u = s \o (t \o u)
<1> DEFINE I == Item
<1>1. s \in Seq(I) /\ t \in Seq(I) /\ u \in Seq(I)
  OBVIOUS
<1> HIDE DEF I
<1> QED
  BY <1>1, ConcatAssociative

\* ft_take_line and ft_rebuffer cut the buffer in two.
LEMMA CutInTwo ==
  ASSUME NEW b \in Seq(Item)
  PROVE  Text(ft_take_line(b)) \o Text(ft_rebuffer(b)) = b
<1>1. CASE Has(b, NL)
  <2>1. b # <<>>
    BY <1>1 DEF Has
  <2>2. First(b, NL) \in 1..Len(b)
    BY <1>1, FirstIsFirst
  <2>3. /\ SubSeq(b, 1, First(b, NL)) \in Seq(Item)
        /\ SubSeq(b, First(b, NL) + 1, Len(b)) \in Seq(Item)
    BY <2>2, SubSeqType
  <2> DEFINE k == First(b, NL)
  <2>4. SubSeq(b, 1, k) \o SubSeq(b, k + 1, Len(b)) = SubSeq(b, 1, Len(b))
    <3>1. /\ 1 \in 1..(Len(b) + 1) /\ k \in (1 - 1)..Len(b)
          /\ Len(b) \in k..Len(b)
      BY <2>2
    <3> HIDE DEF k
    <3> QED
      BY <3>1, ConcatAdjacentSubSeq
  <2>5. SubSeq(b, 1, Len(b)) = b
    BY SubSeqFull
  <2> QED
    BY <1>1, <2>1, <2>3, <2>4, <2>5, TextType DEF ft_take_line, ft_rebuffer
<1>2. CASE ~Has(b, NL)
  <2>1. /\ ft_rebuffer(b) = NULL
        /\ ft_take_line(b) = IF b = <<>> THEN NULL ELSE b
    BY <1>2 DEF ft_take_line, ft_rebuffer
  <2>2. b \o <<>> = b
    BY ConcatEmptySeq
  <2> QED
    BY <2>1, <2>2, TextType
<1> QED
  BY <1>1, <1>2

\* A read gives characters of the input that follow on those read before.
LEMMA ChunkType ==
  ASSUME TypeOK, NEW s \in Source, NEW n \in Chunks(s)
  PROVE  /\ n \in Nat /\ next[s] + n <= Len(input[s])
         /\ ChunkOf(s, n) \in Seq(Item)
         /\ Visible(ChunkOf(s, n)) \in Seq(Item)
<1>1. n \in Nat /\ next[s] \in Nat /\ n <= Rest(s) /\ next[s] <= Len(input[s])
  BY DEF Chunks, TypeOK
<1>2. input[s] \in Seq(Char) /\ Len(input[s]) \in Nat
  BY ReaderAssumption DEF TypeOK
<1>3. ChunkOf(s, n) \in Seq(Item)
  <2>1. \A k \in 1..n : <<s, next[s] + k>> \in Item
    BY <1>1 DEF Item
  <2> QED
    BY <1>1, <2>1 DEF ChunkOf
<1>4. Visible(ChunkOf(s, n)) \in Seq(Item)
  <2>1. /\ First(ChunkOf(s, n), NUL) - 1 \in Nat
        /\ First(ChunkOf(s, n), NUL) - 1 <= Len(ChunkOf(s, n))
    BY <1>3, FirstType
  <2> QED
    BY <1>3, <2>1, SubSeqType DEF Visible
<1> QED
  BY <1>1, <1>2, <1>3, <1>4 DEF Rest
-----------------------------------------------------------------------------
(* Types. *)

LEMMA SourceOfType == \A p \in Process : SourceOf(p) \in Source
  BY DEF SourceOf, Source

LEMMA InitTypes == Init => TypeOK
<1> SUFFICES ASSUME Init PROVE TypeOK
  OBVIOUS
<1>1. \A s \in Source : Len(input[s]) \in Nat
  BY ReaderAssumption DEF Init
<1>2. <<>> \in Seq(Item) /\ Len(<<>>) = 0
  OBVIOUS
<1>3. pc \in [Process -> Location]
  BY DEF Init, Location
<1>4. next \in [Source -> Nat] /\ \A s \in Source : next[s] <= Len(input[s])
  BY <1>1 DEF Init
<1>5. failures \in 0..MaxFailures
  BY ReaderAssumption DEF Init
<1>6. tty \in BOOLEAN /\ eof \in [Process -> BOOLEAN]
  BY Zenon DEF Init
<1> QED
  BY <1>2, <1>3, <1>4, <1>5, <1>6 DEF Init, TypeOK

LEMMA NextTypes == TypeOK /\ [Next]_vars => TypeOK'
<1> SUFFICES ASSUME TypeOK, [Next]_vars PROVE TypeOK'
  OBVIOUS
<1> USE DEF Location
<1>0. Process = {"shell", "left", "right"} /\ Source = {"stdin", "pipe"}
  BY DEF Process, Source
<1>1. CASE Command
  <2>1. PICK n \in 1..Rest("stdin") :
          next' = [next EXCEPT !["stdin"] = @ + n]
    BY <1>1 DEF Command
  <2>2. /\ next["stdin"] \in Nat /\ Len(input["stdin"]) \in Nat
        /\ n \in Nat /\ n <= Rest("stdin")
    BY <1>0, <2>1, ReaderAssumption DEF TypeOK, Rest
  <2>3. next' \in [Source -> Nat] /\ \A s \in Source : next'[s] <= Len(input[s])
    <3>1. "stdin" \in Source /\ next["stdin"] + n <= Len(input["stdin"])
      BY <2>2 DEF Rest, Source
    <3>2. next \in [Source -> Nat] /\ \A s \in Source : next[s] <= Len(input[s])
      BY DEF TypeOK
    <3> QED
      BY <2>1, <2>2, <3>1, <3>2
  <2> QED
    BY <1>1, <2>3 DEF Command, Goto, local, TypeOK
<1>2. CASE Leave
  <2>1. pc' \in [Process -> Location]
    BY <1>2 DEF Leave, Goto, TypeOK
  <2> QED
    BY <1>2, <2>1 DEF Leave, local, TypeOK
<1>3. CASE Fork
  <2>1. pc' \in [Process -> Location] /\ buffer' \in [Process -> Seq(Item) \cup {NULL}]
    BY <1>0, <1>3 DEF Fork, TypeOK
  <2>2. got' \in [Process -> Seq(Item)] /\ handed' \in [Process -> Seq(Item)]
    BY <1>0, <1>3, TextType DEF Fork, TypeOK
  <2> QED
    BY <1>3, <2>1, <2>2 DEF Fork, local, TypeOK
<1>4. CASE Join
  <2>1. pc' \in [Process -> Location] /\ buffer' \in [Process -> Seq(Item) \cup {NULL}]
    BY <1>0, <1>4 DEF Join, TypeOK
  <2>2. got' \in [Process -> Seq(Item)] /\ handed' \in [Process -> Seq(Item)]
    BY <1>0, <1>4, TextType DEF Join, TypeOK
  <2> QED
    BY <1>4, <2>1, <2>2 DEF Join, local, TypeOK
<1>5. ASSUME NEW p \in Process, Step(p)
      PROVE  TypeOK'
  <2> DEFINE b == Text(buffer[p])
  <2>0. b \in Seq(Item)
    BY TextType DEF TypeOK
  <2>1. CASE HereDocument(p)
    BY <2>1 DEF HereDocument, Goto, TypeOK
  <2>2. CASE OtherCommand(p)
    BY <2>2 DEF OtherCommand, Goto, After, local, TypeOK
  <2>3. CASE Call(p)
    BY <2>3 DEF Call, Goto, local, TypeOK
  <2>4. CASE Read(p)
    <3> DEFINE s == SourceOf(p)
    <3>1. PICK n \in Chunks(s) :
            LET joined == b \o Visible(ChunkOf(s, n)) IN
            /\ next' = [next EXCEPT ![s] = @ + n]
            /\ got' = [got EXCEPT ![p] = @ \o ChunkOf(s, n)]
            /\ eof' = [eof EXCEPT ![p] = n = 0]
            /\ buffer' = [buffer EXCEPT ![p] = IF joined = <<>> THEN NULL
                                              ELSE joined]
            /\ line' = [line EXCEPT ![p] = NULL]
            /\ Goto(p, IF joined = <<>> THEN "line"
                       ELSE IF n = 0 \/ Has(joined, NL) THEN "take" ELSE "read")
      BY <2>4 DEF Read
    <3>2. /\ n \in Nat /\ next[s] + n <= Len(input[s])
          /\ ChunkOf(s, n) \in Seq(Item) /\ Visible(ChunkOf(s, n)) \in Seq(Item)
      BY ChunkType, SourceOfType
    <3> DEFINE joined == b \o Visible(ChunkOf(s, n))
    <3>3. joined \in Seq(Item)
      BY <2>0, <3>2, ConcatProperties
    <3>4. got[p] \o ChunkOf(s, n) \in Seq(Item)
      BY <3>2, ConcatProperties DEF TypeOK
    <3>5. s \in Source /\ next[s] \in Nat
      BY SourceOfType DEF TypeOK
    <3> HIDE DEF joined, s, b
    <3>6. next' \in [Source -> Nat] /\ \A t \in Source : next'[t] <= Len(input[t])
      BY <3>1, <3>2, <3>5 DEF TypeOK
    <3>7. got' \in [Process -> Seq(Item)]
      BY <3>1, <3>4 DEF TypeOK
    <3>8. buffer' \in [Process -> Seq(Item) \cup {NULL}]
      BY <3>1, <3>3 DEF TypeOK, joined
    <3>9. eof' \in [Process -> BOOLEAN]
      <4>1. (n = 0) \in BOOLEAN
        OBVIOUS
      <4> QED
        BY <3>1, <4>1, Zenon DEF TypeOK
    <3>10. pc' \in [Process -> Location]
      BY <3>1 DEF Goto, TypeOK, joined
    <3>11. line' \in [Process -> Seq(Item) \cup {NULL}]
      BY <3>1 DEF TypeOK
    <3> QED
      BY <2>4, <3>6, <3>7, <3>8, <3>9, <3>10, <3>11 DEF Read, local, TypeOK
  <2>5. CASE Take(p)
    <3>1. /\ ft_take_line(b) \in Seq(Item) \cup {NULL}
          /\ ft_rebuffer(b) \in Seq(Item) \cup {NULL}
          /\ Text(ft_take_line(b)) \in Seq(Item)
      BY <2>0, TakeType, TextType
    <3>2. handed[p] \o Text(ft_take_line(b)) \in Seq(Item)
      BY <3>1, ConcatProperties DEF TypeOK
    <3> QED
      BY <2>5, <3>1, <3>2 DEF Take, Goto, local, TypeOK
  <2>6. CASE Fail(p)
    <3>1. pc' \in [Process -> Location]
      BY <2>6 DEF Fail, Goto, TypeOK
    <3>2. failures' \in 0..MaxFailures
      BY <2>6, ReaderAssumption DEF Fail, TypeOK
    <3>3. /\ ft_take_line(b) \in Seq(Item) \cup {NULL}
          /\ ft_rebuffer(b) \in Seq(Item) \cup {NULL}
          /\ Has(b, NL) => ft_take_line(b) \in Seq(Item)
      BY <2>0, TakeType
    <3>4. Has(b, NL) => handed[p] \o ft_take_line(b) \in Seq(Item)
      BY <3>3, ConcatProperties DEF TypeOK
    <3> HIDE DEF b
    <3>5. /\ line' \in [Process -> Seq(Item) \cup {NULL}]
          /\ buffer' \in [Process -> Seq(Item) \cup {NULL}]
      <4>1. /\ line \in [Process -> Seq(Item) \cup {NULL}]
            /\ buffer \in [Process -> Seq(Item) \cup {NULL}]
        BY DEF TypeOK
      <4>2. \E l, c \in Seq(Item) \cup {NULL} :
              /\ line' = [line EXCEPT ![p] = l]
              /\ buffer' = [buffer EXCEPT ![p] = c]
        BY <2>6, <3>3, Zenon DEF Fail, b
      <4> QED
        BY <4>1, <4>2
    <3>6. handed' \in [Process -> Seq(Item)]
      BY <2>6, <3>4 DEF Fail, TypeOK, b
    <3>7. next' \in [Source -> Nat] /\ \A s \in Source : next'[s] <= Len(input[s])
      <4>1. CASE next' = next
        BY <4>1 DEF TypeOK
      <4>2. CASE \E n \in Chunks(SourceOf(p)) :
                   next' = [next EXCEPT ![SourceOf(p)] = @ + n]
        <5>1. PICK n \in Chunks(SourceOf(p)) :
                next' = [next EXCEPT ![SourceOf(p)] = @ + n]
          BY <4>2
        <5>2. /\ n \in Nat /\ next[SourceOf(p)] + n <= Len(input[SourceOf(p)])
              /\ SourceOf(p) \in Source /\ next[SourceOf(p)] \in Nat
          BY ChunkType, SourceOfType DEF TypeOK
        <5> QED
          BY <5>1, <5>2 DEF TypeOK
      <4> QED
        BY <2>6, <4>1, <4>2 DEF Fail
    <3> QED
      BY <2>6, <3>1, <3>2, <3>5, <3>6, <3>7 DEF Fail, TypeOK
  <2>7. CASE HereLine(p)
    <3>1. body[p] \in Seq(Item) /\ line[p] \in Seq(Item)
      BY <2>7 DEF HereLine, TypeOK
    <3>2. body[p] \o line[p] \in Seq(Item)
      BY <3>1, ConcatProperties
    <3>3. body' = [body EXCEPT ![p] = body[p] \o line[p]]
      BY <2>7 DEF HereLine
    <3>4. body' \in [Process -> Seq(Item)]
      BY <3>2, <3>3 DEF TypeOK
    <3> QED
      BY <2>7, <3>4 DEF HereLine, Goto, TypeOK
  <2>8. CASE HereEnd(p)
    <3>1. body' \in [Process -> Seq(Item)]
      BY <2>8 DEF HereEnd, TypeOK
    <3>2. eof' \in [Process -> BOOLEAN]
      BY <2>8, Zenon DEF HereEnd, TypeOK
    <3>3. pc' \in [Process -> Location]
      BY <2>8 DEF HereEnd, Goto, After, TypeOK
    <3> QED
      BY <2>8, <3>1, <3>2, <3>3 DEF HereEnd, TypeOK
  <2> QED
    BY <1>5, <2>1, <2>2, <2>3, <2>4, <2>5, <2>6, <2>7, <2>8 DEF Step
<1>6. CASE UNCHANGED vars
  BY <1>6 DEF vars, TypeOK
<1> QED
  BY <1>1, <1>2, <1>3, <1>4, <1>5, <1>6 DEF Next

\* Whatever is read, failed and typed, nothing is read behind the end of an
\* input, and the rest keeps its type.
THEOREM TypeCorrect == Spec => []TypeOK
  BY InitTypes, NextTypes, PTL DEF Spec
-----------------------------------------------------------------------------
(* Nothing is lost. *)

\* Without zero bytes ft_strjoin_gnl sees all of a chunk.
LEMMA AllVisible ==
  ASSUME TypeOK, NoZeroes, NEW s \in Source, NEW n \in Chunks(s)
  PROVE  Visible(ChunkOf(s, n)) = ChunkOf(s, n)
<1> DEFINE chunk == ChunkOf(s, n)
<1>1. /\ n \in Nat /\ next[s] \in Nat /\ next[s] + n <= Len(input[s])
      /\ chunk \in Seq(Item) /\ input[s] \in Seq(Char)
  BY ChunkType, ReaderAssumption DEF TypeOK
<1>2. ~Has(chunk, NUL)
  <2>1. ASSUME NEW k \in 1..n
        PROVE  CharAt(chunk[k]) # NUL
    <3>1. chunk[k] = <<s, next[s] + k>>
      BY DEF ChunkOf
    <3>2. next[s] + k \in DOMAIN input[s]
      BY <1>1
    <3> QED
      BY <3>1, <3>2 DEF CharAt, NoZeroes
  <2>2. DOMAIN chunk = 1..n
    BY DEF ChunkOf
  <2> QED
    BY <2>1, <2>2 DEF Has
<1> HIDE DEF chunk
<1>3. First(chunk, NUL) - 1 = Len(chunk)
  BY <1>1, <1>2, FirstBehind
<1>4. SubSeq(chunk, 1, Len(chunk)) = chunk
  BY <1>1, SubSeqFull
<1> QED
  BY <1>3, <1>4 DEF Visible, chunk

LEMMA InitNothingLost == Init => NothingLost
<1> SUFFICES ASSUME Init, NEW p \in Process
             PROVE  got[p] = handed[p] \o Text(buffer[p])
  BY DEF NothingLost
<1>1. <<>> \o <<>> = <<>>
  OBVIOUS
<1> QED
  BY <1>1, TextType DEF Init

LEMMA NextNothingLost == TypeOK /\ NothingLost /\ [Next]_vars => NothingLost'
<1> SUFFICES ASSUME TypeOK, NothingLost, [Next]_vars, failures' = 0, NoZeroes',
                    NEW q \in Process
             PROVE  got'[q] = handed'[q] \o Text(buffer'[q])
  BY DEF NothingLost, Text
<1>1. input' = input
  BY DEF Next, Command, Leave, Fork, Join, Step, OtherCommand, HereDocument,
         Call, Read, Take, Fail, HereLine, HereEnd, vars
<1>2. NoZeroes
  BY <1>1 DEF NoZeroes
<1>3. /\ got[q] \in Seq(Item) /\ handed[q] \in Seq(Item)
      /\ Text(buffer[q]) \in Seq(Item)
  BY TextType DEF TypeOK
<1>4. failures = 0 => got[q] = handed[q] \o Text(buffer[q])
  BY <1>2 DEF NothingLost
<1>5. <<>> \o <<>> = <<>> /\ \A t \in Seq(Item) : <<>> \o t = t
  BY ConcatEmptySeq
<1>6. CASE got' = got /\ handed' = handed /\ buffer' = buffer /\ failures' = failures
  BY <1>6, <1>4
<1>7. CASE Fork
  <2>1. Text(buffer["shell"]) \in Seq(Item) /\ "shell" \in Process
    BY TextType DEF TypeOK, Process
  <2>2. CASE q = "shell"
    <3>1. /\ got'[q] = got[q] /\ handed'[q] = handed[q]
          /\ buffer'[q] = buffer[q] /\ failures' = failures
      BY <1>7, <2>2 DEF Fork, local
    <3> QED
      BY <3>1, <1>4
  <2>3. CASE q # "shell"
    <3>1. /\ got'[q] = Text(buffer["shell"]) /\ handed'[q] = <<>>
          /\ buffer'[q] = buffer["shell"]
      BY <1>7, <2>3 DEF Fork
    <3> QED
      BY <3>1, <2>1, <1>5
  <2> QED
    BY <2>2, <2>3
<1>8. CASE Join
  <2>1. CASE q = "shell"
    <3>1. /\ got'[q] = got[q] /\ handed'[q] = handed[q]
          /\ buffer'[q] = buffer[q] /\ failures' = failures
      BY <1>8, <2>1 DEF Join, local
    <3> QED
      BY <3>1, <1>4
  <2>2. CASE q # "shell"
    <3>1. got'[q] = <<>> /\ handed'[q] = <<>> /\ buffer'[q] = NULL
      BY <1>8, <2>2 DEF Join
    <3> QED
      BY <3>1, <1>5, TextType
  <2> QED
    BY <2>1, <2>2
<1>9. ASSUME NEW p \in Process, Read(p)
      PROVE  got'[q] = handed'[q] \o Text(buffer'[q])
  <2> DEFINE s == SourceOf(p)
             b == Text(buffer[p])
  <2>1. PICK n \in Chunks(s) :
          LET joined == b \o Visible(ChunkOf(s, n)) IN
          /\ got' = [got EXCEPT ![p] = @ \o ChunkOf(s, n)]
          /\ buffer' = [buffer EXCEPT ![p] = IF joined = <<>> THEN NULL
                                            ELSE joined]
    BY <1>9 DEF Read
  <2>2. /\ Visible(ChunkOf(s, n)) = ChunkOf(s, n) /\ ChunkOf(s, n) \in Seq(Item)
        /\ b \in Seq(Item)
    BY <1>2, AllVisible, ChunkType, SourceOfType, TextType DEF TypeOK
  <2>3. handed' = handed /\ failures' = failures
    BY <1>9 DEF Read, local
  <2>4. got \in [Process -> Seq(Item)] /\ DOMAIN buffer = Process
    BY DEF TypeOK
  <2>5. b \o ChunkOf(s, n) \in Seq(Item)
    BY <2>2, ConcatProperties
  <2> HIDE DEF s, b
  <2>6. CASE q # p
    BY <2>1, <2>3, <2>4, <2>6, <1>4
  <2>7. CASE q = p
    <3> DEFINE joined == b \o ChunkOf(s, n)
    <3>4. /\ got'[q] = got[q] \o ChunkOf(s, n)
          /\ buffer'[q] = IF joined = <<>> THEN NULL ELSE joined
      BY <2>1, <2>2, <2>4, <2>7
    <3>5. Text(buffer'[q]) = joined
      <4> HIDE DEF joined
      <4>1. joined \in Seq(Item)
        BY <2>5 DEF joined
      <4> QED
        BY <3>4, <4>1, TextType
    <3>1. /\ got'[q] = got[q] \o ChunkOf(s, n)
          /\ Text(buffer'[q]) = b \o ChunkOf(s, n)
      BY <3>4, <3>5
    <3>2. got[q] = handed[q] \o b /\ handed'[q] = handed[q]
      BY <1>4, <2>3, <2>7 DEF b
    <3>3. (handed[q] \o b) \o ChunkOf(s, n) = handed[q] \o (b \o ChunkOf(s, n))
      BY <1>3, <2>2, Associative, Zenon
    <3> QED
      BY <3>1, <3>2, <3>3, Zenon
  <2> QED
    BY <2>6, <2>7
<1>10. ASSUME NEW p \in Process, Take(p)
       PROVE  got'[q] = handed'[q] \o Text(buffer'[q])
  <2> DEFINE b == Text(buffer[p])
             l == Text(ft_take_line(b))
             r == Text(ft_rebuffer(b))
  <2>1. b \in Seq(Item)
    BY TextType DEF TypeOK
  <2>2. l \in Seq(Item) /\ r \in Seq(Item) /\ l \o r = b
    BY <2>1, TakeType, CutInTwo, TextType
  <2>3. /\ got' = got /\ failures' = failures
        /\ handed' = [handed EXCEPT ![p] = @ \o l]
        /\ buffer' = [buffer EXCEPT ![p] = ft_rebuffer(b)]
    BY <1>10 DEF Take, local
  <2>4. DOMAIN handed = Process /\ DOMAIN buffer = Process
    BY DEF TypeOK
  <2>5. CASE q # p
    BY <2>3, <2>4, <2>5, <1>4
  <2>6. CASE q = p
    <3>1. handed'[q] = handed[q] \o l /\ Text(buffer'[q]) = r
      BY <2>3, <2>4, <2>6
    <3>2. got[q] = handed[q] \o b
      BY <1>4, <2>3, <2>6
    <3>3. (handed[q] \o l) \o r = handed[q] \o (l \o r)
      BY <1>3, <2>2, Associative, Zenon
    <3>4. got'[q] = got[q] /\ l \o r = b
      BY <2>2, <2>3
    <3> HIDE DEF b, l, r
    <3> QED
      BY <3>1, <3>2, <3>3, <3>4
  <2> QED
    BY <2>5, <2>6
<1>11. ASSUME NEW p \in Process, Fail(p)
       PROVE  FALSE
  BY <1>11 DEF Fail, TypeOK
<1> QED
  BY <1>6, <1>7, <1>8, <1>9, <1>10, <1>11
  DEF Next, Command, Leave, Step, OtherCommand, HereDocument, Call, HereLine,
      HereEnd, local, vars

\* However reads cut the input into lines, whatever documents and descriptors the
\* lines are for, and however the buffer is copied by fork: the lines handed out
\* and the rest in the buffer are the text read, in its order.
THEOREM ReaderLosesNothing == Spec => []NothingLost
<1>1. TypeOK /\ NothingLost /\ [Next]_vars => NothingLost'
  BY NextNothingLost
<1> QED
  BY <1>1, InitNothingLost, TypeCorrect, PTL DEF Spec
-----------------------------------------------------------------------------
(* Nothing is held back, and each line goes where it belongs. *)

\* The children of a pipeline run while the shell waits.
Turns == \A p \in {"left", "right"} : pc[p] # "none" => pc["shell"] = "wait"

\* Between documents there is none.
Quiet == \A p \in Process : ~Reading(p) => body[p] = <<>> /\ ~eof[p]

\* At a terminal the buffer never holds more than a line: this is what makes
\* TerminalHoldsNothing inductive.
AtMostALine ==
  tty => \A p \in {"shell", "left"} :
    /\ pc[p] \notin {"read", "take"} => Text(buffer[p]) = <<>>
    /\ pc[p] = "read" => ~Has(Text(buffer[p]), NL)
    /\ pc[p] = "take" => EndsLine(Text(buffer[p]))

\* There, get_next_line gives a line, or NULL at an end of file only.
GivesLine ==
  exactBar => \A p \in {"shell", "left"} :
    /\ pc[p] = "take" => IsLine(Text(buffer[p]), eof[p])
    /\ pc[p] = "line" => IF line[p] = NULL THEN eof[p] ELSE IsLine(line[p], eof[p])

LEMMA SourceOfStdin == \A p \in {"shell", "left"} : p \in Process /\ SourceOf(p) = "stdin"
  BY DEF Process, SourceOf

\* What does not move a process out of its document or into one.
LEMMA InitTurns == Init => Turns
  BY DEF Init, Turns, Process

LEMMA NextTurns == TypeOK /\ Turns /\ [Next]_vars => Turns'
<1> SUFFICES ASSUME TypeOK, Turns, [Next]_vars PROVE Turns'
  OBVIOUS
<1>0. Process = {"shell", "left", "right"} /\ DOMAIN pc = Process
  BY DEF Process, TypeOK
<1>1. CASE Command
  BY <1>0, <1>1 DEF Command, Goto, Turns
<1>2. CASE Leave
  BY <1>0, <1>2 DEF Leave, Goto, Turns
<1>3. CASE Fork \/ Join
  BY <1>0, <1>3 DEF Fork, Join, Turns
<1>4. ASSUME NEW p \in Process, Step(p)
      PROVE  Turns'
  <2>1. pc[p] \in {"run", "call", "read", "take", "line"}
    BY <1>4 DEF Step, OtherCommand, HereDocument, Call, Read, Take, Fail,
                HereLine, HereEnd
  <2>2. \E l : pc' = [pc EXCEPT ![p] = l]
    BY <1>4, Zenon DEF Step, OtherCommand, HereDocument, Call, Read, Take, Fail,
                HereLine, HereEnd, Goto
  <2> QED
    BY <1>0, <2>1, <2>2 DEF Turns
<1>5. CASE UNCHANGED vars
  BY <1>5 DEF vars, Turns
<1> QED
  BY <1>1, <1>2, <1>3, <1>4, <1>5 DEF Next

LEMMA AlwaysTurns == Spec => []Turns
<1>1. TypeOK /\ Turns /\ [Next]_vars => Turns'
  BY NextTurns
<1> QED
  BY <1>1, InitTurns, TypeCorrect, PTL DEF Spec

LEMMA InitQuiet == Init => Quiet
  BY DEF Init, Quiet

LEMMA NextQuiet == TypeOK /\ Turns /\ Quiet /\ [Next]_vars => Quiet'
<1> SUFFICES ASSUME TypeOK, Turns, Quiet, [Next]_vars PROVE Quiet'
  OBVIOUS
<1>0. /\ Process = {"shell", "left", "right"} /\ DOMAIN pc = Process
      /\ DOMAIN body = Process /\ DOMAIN eof = Process
  BY DEF Process, TypeOK
<1>1. CASE Command \/ Leave
  BY <1>0, <1>1 DEF Command, Leave, Goto, local, Quiet, Reading
<1>3. CASE Fork \/ Join
  BY <1>0, <1>3 DEF Fork, Join, local, Quiet, Reading, Turns
<1>4. ASSUME NEW p \in Process, Step(p)
      PROVE  Quiet'
  <2>1. CASE HereDocument(p) \/ OtherCommand(p)
    BY <1>0, <2>1 DEF HereDocument, OtherCommand, Goto, local, Quiet, Reading
  <2>2. CASE Call(p) \/ Take(p) \/ Fail(p) \/ HereLine(p)
    <3>1. /\ Reading(p) /\ Reading(p)'
          /\ \A q \in Process \ {p} : pc'[q] = pc[q] /\ body'[q] = body[q]
          /\ eof' = eof
      BY <1>0, <2>2 DEF Call, Take, Fail, HereLine, Goto, local, Reading
    <3> QED
      BY <3>1 DEF Quiet, Reading
  <2>3. CASE Read(p)
    <3>1. /\ Reading(p) /\ Reading(p)'
          /\ \A q \in Process \ {p} : pc'[q] = pc[q] /\ body'[q] = body[q]
          /\ \A q \in Process \ {p} : eof'[q] = eof[q]
      BY <1>0, <2>3 DEF Read, Goto, local, Reading
    <3> QED
      BY <3>1 DEF Quiet, Reading
  <2>4. CASE HereEnd(p)
    <3>1. /\ body'[p] = <<>> /\ ~eof'[p]
          /\ \A q \in Process \ {p} :
               pc'[q] = pc[q] /\ body'[q] = body[q] /\ eof'[q] = eof[q]
      BY <1>0, <2>4 DEF HereEnd, Goto
    <3> QED
      BY <3>1 DEF Quiet, Reading
  <2> QED
    BY <1>4, <2>1, <2>2, <2>3, <2>4 DEF Step
<1>5. CASE UNCHANGED vars
  BY <1>5 DEF vars, Quiet, Reading
<1> QED
  BY <1>1, <1>3, <1>4, <1>5 DEF Next

LEMMA AlwaysQuiet == Spec => []Quiet
<1>1. TypeOK /\ Turns /\ Quiet /\ [Next]_vars => Quiet'
  BY NextQuiet
<1> QED
  BY <1>1, InitQuiet, TypeCorrect, AlwaysTurns, PTL DEF Spec

\* What a read from the terminal adds ends with the first newline.
LEMMA JoinedLine ==
  ASSUME TypeOK, tty, NEW b \in Seq(Item), ~Has(b, NL),
         NEW n \in Chunks("stdin")
  PROVE  EndsLine(b \o Visible(ChunkOf("stdin", n)))
<1> DEFINE chunk == ChunkOf("stdin", n)
           m == First(chunk, NUL) - 1
           c == Visible(chunk)
<1>1. n \in Nat /\ chunk \in Seq(Item) /\ c \in Seq(Item)
  BY ChunkType DEF Source
<1>2. Len(chunk) = n /\ m \in 0..n
  <2>1. Len(chunk) = n
    BY <1>1 DEF ChunkOf
  <2> HIDE DEF chunk
  <2> QED
    BY <1>1, <2>1, FirstType
<1>3. \A k \in 1..(n - 1) : CharAt(chunk[k]) # NL
  BY <1>1 DEF Chunks, ChunkOf
<1>4. Len(c) = m /\ \A k \in 1..m : c[k] = chunk[k]
  <2> HIDE DEF chunk
  <2>1. c = SubSeq(chunk, 1, m)
    BY DEF Visible
  <2> HIDE DEF m, c
  <2> QED
    BY <1>1, <1>2, <2>1
<1> HIDE DEF chunk, m, c
<1>5. /\ Len(b \o c) = Len(b) + m
      /\ \A k \in 1..(Len(b) + m) :
           (b \o c)[k] = IF k <= Len(b) THEN b[k] ELSE c[k - Len(b)]
  BY <1>1, <1>4, ConcatProperties
<1>6. ASSUME NEW k \in 1..(Len(b) + m - 1)
      PROVE  CharAt((b \o c)[k]) # NL
  <2>1. CASE k <= Len(b)
    BY <1>2, <1>5, <2>1 DEF Has
  <2>2. CASE k > Len(b)
    <3>1. k - Len(b) \in 1..(m - 1) /\ k - Len(b) \in 1..m /\ k - Len(b) \in 1..(n - 1)
      BY <1>1, <1>2, <2>2
    <3>2. (b \o c)[k] = chunk[k - Len(b)]
      BY <1>2, <1>4, <1>5, <2>2, <3>1
    <3> QED
      BY <1>3, <3>1, <3>2
  <2>3. k <= Len(b) \/ k > Len(b)
    <3>1. k \in Int /\ Len(b) \in Int
      BY <1>1, <1>2
    <3> QED
      BY <3>1
  <2> QED
    BY <2>1, <2>2, <2>3, Zenon
<1>7. EndsLine(b \o c)
  <2>1. \A k \in 1..(Len(b \o c) - 1) : CharAt((b \o c)[k]) # NL
    <3>1. Len(b \o c) - 1 = Len(b) + m - 1
      BY <1>1, <1>2, <1>5
    <3> QED
      BY <1>6, <3>1, Zenon
  <2> QED
    BY <2>1 DEF EndsLine
<1> QED
  BY <1>7 DEF c, chunk

\* Of a line nothing is left over, and all of it is handed out.
LEMMA LineCut ==
  ASSUME NEW b \in Seq(Item), EndsLine(b)
  PROVE  /\ Text(ft_rebuffer(b)) = <<>>
         /\ b # <<>> => ft_take_line(b) = b
<1>1. CASE Has(b, NL)
  <2>1. /\ First(b, NL) \in 1..Len(b) /\ CharAt(b[First(b, NL)]) = NL
    BY <1>1, FirstIsFirst
  <2>2. First(b, NL) = Len(b)
    BY <2>1 DEF EndsLine
  <2>3. SubSeq(b, Len(b) + 1, Len(b)) = <<>>
    BY SubSeqEmpty
  <2>4. SubSeq(b, 1, Len(b)) = b
    BY SubSeqFull
  <2>5. <<>> \in Seq(Item)
    OBVIOUS
  <2> QED
    BY <1>1, <2>2, <2>3, <2>4, <2>5, TextType DEF ft_rebuffer, ft_take_line
<1>2. CASE ~Has(b, NL)
  BY <1>2, TextType DEF ft_rebuffer, ft_take_line
<1> QED
  BY <1>1, <1>2

LEMMA InitAtMostALine == Init => AtMostALine
<1> SUFFICES ASSUME Init, NEW p \in {"shell", "left"}
             PROVE  Text(buffer[p]) = <<>> /\ pc[p] \notin {"read", "take"}
  BY DEF AtMostALine
<1>1. buffer[p] = NULL
  BY SourceOfStdin DEF Init
<1> QED
  BY <1>1, SourceOfStdin, TextType DEF Init

LEMMA NextAtMostALine ==
  TypeOK /\ Turns /\ AtMostALine /\ [Next]_vars => AtMostALine'
<1> DEFINE Neat(l, b) == /\ l \notin {"read", "take"} => b = <<>>
                         /\ l = "read" => ~Has(b, NL)
                         /\ l = "take" => EndsLine(b)
<1> SUFFICES ASSUME TypeOK, Turns, AtMostALine, [Next]_vars PROVE AtMostALine'
  OBVIOUS
<1>0. input' = input /\ tty' = tty
  BY DEF Next, Command, Leave, Fork, Join, Step, OtherCommand, HereDocument,
         Call, Read, Take, Fail, HereLine, HereEnd, vars
<1> SUFFICES ASSUME tty', NEW q \in {"shell", "left"}
             PROVE  Neat(pc'[q], Text(buffer'[q]))
  BY <1>0 DEF AtMostALine, Has, EndsLine, CharAt, Text
<1>1. tty /\ q \in Process /\ "shell" \in Process
  BY <1>0 DEF Process
<1>2. \A p \in {"shell", "left"} : Neat(pc[p], Text(buffer[p]))
  BY <1>1 DEF AtMostALine
<1>3. /\ DOMAIN pc = Process /\ DOMAIN buffer = Process
      /\ Text(buffer[q]) \in Seq(Item)
  BY <1>1, TextType DEF TypeOK
<1>4. ASSUME pc'[q] = pc[q], buffer'[q] = buffer[q]
      PROVE  Neat(pc'[q], Text(buffer'[q]))
  BY <1>2, <1>4
<1>5. ASSUME pc'[q] \notin {"read", "take"}, Text(buffer'[q]) = <<>>
      PROVE  Neat(pc'[q], Text(buffer'[q]))
  BY <1>5
<1>6. ASSUME pc[q] \notin {"read", "take"}
      PROVE  Text(buffer[q]) = <<>>
  BY <1>2, <1>6
<1>7. ~Has(<<>>, NL)
  BY DEF Has
<1> HIDE DEF Neat
<1>8. CASE Command \/ Leave
  <2>1. \/ pc'[q] = pc[q]
        \/ pc[q] \notin {"read", "take"} /\ pc'[q] \notin {"read", "take"}
    <3>1. CASE q = "shell"
      BY <1>1, <1>3, <1>8, <3>1 DEF Command, Leave, Goto
    <3>2. CASE q # "shell"
      BY <1>1, <1>3, <1>8, <3>2 DEF Command, Leave, Goto
    <3> QED
      BY <3>1, <3>2
  <2>2. buffer' = buffer
    BY <1>8 DEF Command, Leave
  <2> QED
    BY <2>1, <2>2, <1>4, <1>5, <1>6
<1>9. CASE Fork
  <2>1. pc'[q] \in {"wait", "run"} /\ buffer'[q] = buffer["shell"]
    BY <1>1, <1>9 DEF Fork
  <2>2. Text(buffer["shell"]) = <<>>
    BY <1>2, <1>9 DEF Fork, Neat
  <2> QED
    BY <2>1, <2>2, <1>5
<1>10. CASE Join
  <2>1. CASE q = "left"
    BY <1>1, <1>10, <2>1, <1>5, TextType DEF Join
  <2>2. CASE q = "shell"
    <3>1. pc'[q] = "prompt" /\ buffer'[q] = buffer[q]
      BY <1>1, <1>10, <2>2 DEF Join
    <3>2. pc[q] = "wait"
      BY <1>10, <2>2 DEF Join, Turns
    <3> QED
      BY <3>1, <3>2, <1>5, <1>6
  <2> QED
    BY <2>1, <2>2
<1>11. ASSUME NEW p \in Process, Step(p)
       PROVE  Neat(pc'[q], Text(buffer'[q]))
  <2> DEFINE b == Text(buffer[p])
  <2>1. CASE q # p
    <3>1. pc'[q] = pc[q] /\ buffer'[q] = buffer[q]
      BY <1>1, <1>3, <1>11, <2>1 DEF Step, OtherCommand, HereDocument, Call, Read, Take,
         Fail, HereLine, HereEnd, Goto
    <3> QED
      BY <3>1, <1>4
  <2> SUFFICES ASSUME q = p PROVE Neat(pc'[q], Text(buffer'[q]))
    BY <2>1
  <2>2. CASE HereDocument(p) \/ OtherCommand(p) \/ HereLine(p) \/ HereEnd(p)
    <3>1. /\ pc[q] \notin {"read", "take"} /\ pc'[q] \notin {"read", "take"}
          /\ buffer' = buffer
      BY <1>3, <2>2 DEF HereDocument, OtherCommand, HereLine, HereEnd, Goto, After
    <3> QED
      BY <3>1, <1>5, <1>6
  <2>3. CASE Call(p)
    <3>1. pc[q] \notin {"read", "take"} /\ buffer' = buffer
      BY <2>3 DEF Call
    <3>2. Text(buffer[q]) = <<>>
      BY <3>1, <1>6
    <3>3. pc'[q] = "read"
      BY <1>3, <1>7, <2>3, <3>2 DEF Call, Goto
    <3> QED
      BY <1>7, <3>1, <3>2, <3>3 DEF Neat
  <2>4. CASE Read(p)
    <3>1. PICK n \in Chunks("stdin") :
            LET joined == b \o Visible(ChunkOf("stdin", n)) IN
            /\ buffer' = [buffer EXCEPT ![p] = IF joined = <<>> THEN NULL
                                              ELSE joined]
            /\ Goto(p, IF joined = <<>> THEN "line"
                       ELSE IF n = 0 \/ Has(joined, NL) THEN "take" ELSE "read")
      BY <2>4, SourceOfStdin DEF Read
    <3> DEFINE joined == b \o Visible(ChunkOf("stdin", n))
    <3>2. ~Has(b, NL) /\ b \in Seq(Item)
      BY <1>2, <1>3, <2>4 DEF Read, Neat
    <3>3. joined \in Seq(Item) /\ EndsLine(joined)
      BY <1>1, <3>2, JoinedLine, ChunkType, ConcatProperties DEF Source
    <3> HIDE DEF joined
    <3>4. /\ buffer'[q] = IF joined = <<>> THEN NULL ELSE joined
          /\ pc'[q] = IF joined = <<>> THEN "line"
                     ELSE IF n = 0 \/ Has(joined, NL) THEN "take" ELSE "read"
      BY <1>3, <1>1, <3>1 DEF Goto, joined
    <3>5. Text(buffer'[q]) = joined
      BY <3>3, <3>4, TextType
    <3> QED
      BY <3>3, <3>4, <3>5 DEF Neat
  <2>5. CASE Take(p) \/ (Fail(p) /\ pc[p] = "take")
    <3>1. b \in Seq(Item) /\ EndsLine(b)
      BY <1>2, <1>3, <2>5 DEF Take, Neat
    <3>2. pc'[q] = "line" /\ buffer'[q] \in {NULL, ft_rebuffer(b)}
      BY <1>1, <1>3, <2>5 DEF Take, Fail, Goto
    <3>3. Text(buffer'[q]) = <<>>
      BY <3>1, <3>2, LineCut, TextType
    <3> QED
      BY <3>2, <3>3, <1>5
  <2>6. CASE Fail(p) /\ pc[p] # "take"
    <3>1. pc'[q] = "line" /\ buffer'[q] = NULL
      BY <1>1, <1>3, <2>6 DEF Fail, Goto
    <3> QED
      BY <3>1, <1>5, TextType
  <2> QED
    BY <1>11, <2>2, <2>3, <2>4, <2>5, <2>6 DEF Step
<1>12. CASE UNCHANGED vars
  BY <1>12, <1>4 DEF vars
<1> QED
  BY <1>8, <1>9, <1>10, <1>11, <1>12 DEF Next

LEMMA AlwaysAtMostALine == Spec => []AtMostALine
<1>1. TypeOK /\ Turns /\ AtMostALine /\ [Next]_vars => AtMostALine'
  BY NextAtMostALine
<1> QED
  BY <1>1, InitAtMostALine, TypeCorrect, AlwaysTurns, PTL DEF Spec

\* Between the documents of a shell that reads a terminal nothing waits in the
\* buffer for the next one, whatever failed.
THEOREM TerminalKeepsNothing == Spec => []TerminalHoldsNothing
<1>1. AtMostALine => TerminalHoldsNothing
  BY DEF AtMostALine, TerminalHoldsNothing, Reading
<1> QED
  BY <1>1, AlwaysAtMostALine, PTL
-----------------------------------------------------------------------------
(* What is given is a line. *)

\* What LinesAreWhole needs of the buffer: it is cut when it has a newline, or
\* has all there is.
Taken ==
  \A p \in Process : pc[p] = "take" =>
    Text(buffer[p]) # <<>> /\ (Has(Text(buffer[p]), NL) \/ eof[p])

LEMMA LineTaken ==
  ASSUME NEW b \in Seq(Item), b # <<>>, NEW e, Has(b, NL) \/ e
  PROVE  ft_take_line(b) # NULL /\ IsLine(ft_take_line(b), e)
<1>1. CASE Has(b, NL)
  <2>1. PICK f \in 1..Len(b) :
          /\ f = First(b, NL) /\ CharAt(b[f]) = NL
          /\ \A j \in 1..(f - 1) : CharAt(b[j]) # NL
    BY <1>1, FirstIsFirst
  <2>2. PICK s : s = SubSeq(b, 1, f)
    OBVIOUS
  <2>3. s \in Seq(Item) /\ Len(s) = f /\ \A k \in 1..f : s[k] = b[k]
    BY <2>2, SubSeqProperties
  <2>4. ft_take_line(b) = s
    BY <1>1, <2>1, <2>2 DEF ft_take_line
  <2>5. s # <<>> /\ f \in DOMAIN s /\ CharAt(s[f]) = NL
    BY <2>1, <2>3
  <2>6. EndsLine(s)
    BY <2>1, <2>3 DEF EndsLine
  <2> QED
    BY <2>3, <2>4, <2>5, <2>6, TextType DEF IsLine, Has
<1>2. CASE ~Has(b, NL)
  <2>1. ft_take_line(b) = b
    BY <1>2 DEF ft_take_line
  <2>2. EndsLine(b)
    BY <1>2 DEF EndsLine, Has
  <2> QED
    BY <1>2, <2>1, <2>2, TextType DEF IsLine
<1> QED
  BY <1>1, <1>2

LEMMA InitWhole == Init => Taken /\ LinesAreWhole
  BY DEF Init, Taken, LinesAreWhole

LEMMA NextWhole ==
  TypeOK /\ Taken /\ LinesAreWhole /\ [Next]_vars => Taken' /\ LinesAreWhole'
<1> DEFINE Gives(l, b, t, e, f) ==
             /\ l = "take" => b # <<>> /\ (Has(b, NL) \/ e)
             /\ l = "line" => IF t = NULL THEN e \/ f > 0 \/ ~NoZeroes
                              ELSE IsLine(t, e)
<1> SUFFICES ASSUME TypeOK, Taken, LinesAreWhole, [Next]_vars
             PROVE  Taken' /\ LinesAreWhole'
  OBVIOUS
<1>0. input' = input
  BY DEF Next, Command, Leave, Fork, Join, Step, OtherCommand, HereDocument,
         Call, Read, Take, Fail, HereLine, HereEnd, vars
<1> SUFFICES ASSUME NEW q \in Process
             PROVE  Gives(pc'[q], Text(buffer'[q]), line'[q], eof'[q], failures')
  BY <1>0 DEF Taken, LinesAreWhole, IsLine, Has, EndsLine, CharAt, Text, NoZeroes
<1>1. failures \in Nat
  BY ReaderAssumption DEF TypeOK
<1>2. Gives(pc[q], Text(buffer[q]), line[q], eof[q], failures)
  BY DEF Taken, LinesAreWhole
<1>3. /\ DOMAIN pc = Process /\ DOMAIN buffer = Process /\ DOMAIN line = Process
      /\ DOMAIN eof = Process /\ Text(buffer[q]) \in Seq(Item)
  BY TextType DEF TypeOK
<1>4. ASSUME pc'[q] \notin {"take", "line"}
      PROVE  Gives(pc'[q], Text(buffer'[q]), line'[q], eof'[q], failures')
  BY <1>4
<1>5. ASSUME pc'[q] = pc[q], buffer'[q] = buffer[q], line'[q] = line[q],
             eof'[q] = eof[q], failures' \in {failures, failures + 1}
      PROVE  Gives(pc'[q], Text(buffer'[q]), line'[q], eof'[q], failures')
  <2>1. failures > 0 => failures' > 0
    BY <1>1, <1>5
  <2> QED
    BY <1>2, <1>5, <2>1
<1>6. CASE Command \/ Leave
  <2>1. CASE q = "shell"
    BY <1>3, <1>4, <1>6, <2>1 DEF Command, Leave, Goto, Process
  <2>2. CASE q # "shell"
    <3>1. pc'[q] = pc[q]
      BY <1>3, <1>6, <2>2 DEF Command, Leave, Goto
    <3> HIDE DEF Gives
    <3> QED
      BY <3>1, <1>5, <1>6 DEF Command, Leave, local
  <2> QED
    BY <2>1, <2>2
<1>7. CASE Fork \/ Join
  <2>1. pc'[q] \in {"wait", "run", "prompt", "none"}
    BY <1>7 DEF Fork, Join
  <2> QED
    BY <2>1, <1>4
<1>8. ASSUME NEW p \in Process, Step(p)
      PROVE  Gives(pc'[q], Text(buffer'[q]), line'[q], eof'[q], failures')
  <2> DEFINE b == Text(buffer[p])
  <2>1. failures' \in {failures, failures + 1}
    BY <1>8 DEF Step, OtherCommand, HereDocument, Call, Read, Take, Fail, HereLine,
       HereEnd, local
  <2>2. CASE q # p
    <3>1. pc'[q] = pc[q] /\ eof'[q] = eof[q]
      BY <1>3, <1>8, <2>2 DEF Step, OtherCommand, HereDocument, Call, Read,
         Take, Fail, HereLine, HereEnd, Goto
    <3>2. buffer'[q] = buffer[q] /\ line'[q] = line[q]
      BY <1>3, <1>8, <2>2 DEF Step, OtherCommand, HereDocument, Call, Read,
         Take, Fail, HereLine, HereEnd
    <3> HIDE DEF Gives
    <3> QED
      BY <3>1, <3>2, <2>1, <1>5
  <2> SUFFICES ASSUME q = p
               PROVE  Gives(pc'[q], Text(buffer'[q]), line'[q], eof'[q], failures')
    BY <2>2
  <2>3. CASE HereDocument(p) \/ OtherCommand(p) \/ HereLine(p) \/ HereEnd(p)
    <3>1. pc'[q] \notin {"take", "line"}
      BY <1>3, <2>3 DEF HereDocument, OtherCommand, HereLine, HereEnd, Goto, After
    <3> QED
      BY <3>1, <1>4
  <2>4. CASE Call(p)
    <3>1. pc'[q] = IF Has(Text(buffer[q]), NL) THEN "take" ELSE "read"
      BY <1>3, <2>4 DEF Call, Goto
    <3>2. buffer'[q] = buffer[q]
      BY <2>4 DEF Call
    <3>3. Has(Text(buffer[q]), NL) => Text(buffer[q]) # <<>>
      BY DEF Has
    <3> QED
      BY <3>1, <3>2, <3>3
  <2>5. CASE Read(p)
    <3> DEFINE s == SourceOf(p)
    <3>1. PICK n \in Chunks(s) :
            LET joined == b \o Visible(ChunkOf(s, n)) IN
            /\ eof' = [eof EXCEPT ![p] = n = 0]
            /\ buffer' = [buffer EXCEPT ![p] = IF joined = <<>> THEN NULL
                                              ELSE joined]
            /\ line' = [line EXCEPT ![p] = NULL]
            /\ Goto(p, IF joined = <<>> THEN "line"
                       ELSE IF n = 0 \/ Has(joined, NL) THEN "take" ELSE "read")
      BY <2>5 DEF Read
    <3> DEFINE chunk == ChunkOf(s, n)
               joined == b \o Visible(chunk)
    <3>2. s \in Source /\ b \in Seq(Item)
      BY <1>3, SourceOfType
    <3>3. joined \in Seq(Item) /\ n \in Nat /\ chunk \in Seq(Item)
      BY <3>2, ChunkType, ConcatProperties
    <3>4. NoZeroes /\ joined = <<>> => n = 0
      <4> SUFFICES ASSUME NoZeroes, joined = <<>> PROVE n = 0
        OBVIOUS
      <4>1. Visible(chunk) = chunk
        BY <3>2, AllVisible
      <4>2. Len(chunk) = n
        BY <3>3 DEF ChunkOf
      <4> HIDE DEF chunk, b
      <4>3. Len(b \o chunk) = Len(b) + n
        BY <3>2, <3>3, <4>2, ConcatProperties
      <4> QED
        BY <3>2, <3>3, <4>1, <4>3
    <3> HIDE DEF joined, chunk, s
    <3>5. /\ buffer'[q] = IF joined = <<>> THEN NULL ELSE joined
          /\ pc'[q] = IF joined = <<>> THEN "line"
                     ELSE IF n = 0 \/ Has(joined, NL) THEN "take" ELSE "read"
          /\ line'[q] = NULL
      BY <1>3, <3>1 DEF Goto, joined, chunk
    <3>6. eof'[q] <=> n = 0
      BY <1>3, <3>1, Zenon
    <3>7. Text(buffer'[q]) = joined
      BY <3>3, <3>5, TextType
    <3> QED
      BY <3>4, <3>5, <3>6, <3>7
  <2>6. CASE Take(p)
    <3>1. b # <<>> /\ (Has(b, NL) \/ eof[q])
      BY <1>2, <2>6 DEF Take
    <3>2. ft_take_line(b) # NULL /\ IsLine(ft_take_line(b), eof[q])
      BY <1>3, <3>1, LineTaken
    <3>3. pc'[q] = "line" /\ line'[q] = ft_take_line(b) /\ eof'[q] = eof[q]
      BY <1>3, <2>6 DEF Take, Goto
    <3> QED
      BY <3>2, <3>3
  <2>7. CASE Fail(p)
    <3>1. pc'[q] = "line" /\ failures' > 0 /\ eof'[q] = eof[q]
      BY <1>1, <1>3, <2>7 DEF Fail, Goto
    <3>2. \/ line'[q] = NULL
          \/ Has(b, NL) /\ line'[q] = ft_take_line(b)
      BY <1>3, <2>7 DEF Fail
    <3>3. Has(b, NL) => IsLine(ft_take_line(b), eof[q])
      BY <1>3, LineTaken DEF Has
    <3> QED
      BY <3>1, <3>2, <3>3
  <2> QED
    BY <1>8, <2>3, <2>4, <2>5, <2>6, <2>7 DEF Step
<1>9. CASE UNCHANGED vars
  <2> HIDE DEF Gives
  <2> QED
    BY <1>9, <1>5 DEF vars
<1> QED
  BY <1>6, <1>7, <1>8, <1>9 DEF Next

LEMMA AlwaysWhole == Spec => [](Taken /\ LinesAreWhole)
<1>1. TypeOK /\ (Taken /\ LinesAreWhole) /\ [Next]_vars => (Taken /\ LinesAreWhole)'
  BY NextWhole
<1> QED
  BY <1>1, InitWhole, TypeCorrect, PTL DEF Spec

\* However read cuts the input and whatever the buffer held before, what
\* get_next_line gives is one line, and NULL is the end of the input, or a failure.
THEOREM WholeLinesGiven == Spec => []LinesAreWhole
  BY AlwaysWhole, PTL

\* At a terminal the line is all that is in the buffer.
LEMMA AlwaysGivesLine == Spec => []GivesLine
<1>1. AtMostALine /\ Taken /\ LinesAreWhole => GivesLine
  <2> SUFFICES ASSUME AtMostALine, Taken, LinesAreWhole, exactBar, NEW p \in {"shell", "left"}
               PROVE  /\ pc[p] = "take" => IsLine(Text(buffer[p]), eof[p])
                      /\ pc[p] = "line" => IF line[p] = NULL THEN eof[p]
                                           ELSE IsLine(line[p], eof[p])
    BY DEF GivesLine
  <2>1. p \in Process /\ tty /\ failures = 0 /\ NoZeroes
    BY SourceOfStdin DEF exactBar
  <2>2. ASSUME pc[p] = "take"
        PROVE  IsLine(Text(buffer[p]), eof[p])
    BY <2>1, <2>2 DEF AtMostALine, Taken, IsLine
  <2>3. ASSUME pc[p] = "line"
        PROVE  IF line[p] = NULL THEN eof[p] ELSE IsLine(line[p], eof[p])
    BY <2>1, <2>3 DEF LinesAreWhole
  <2> QED
    BY <2>2, <2>3
<1> QED
  BY <1>1, AlwaysAtMostALine, AlwaysWhole, PTL
-----------------------------------------------------------------------------
(* What the abstract variables are, with a document being read and without. *)

Glyph == {CharAt(item) : item \in Item}

LEMMA CharsType ==
  ASSUME NEW s \in Seq(Item)
  PROVE  /\ Chars(s) \in Seq(Glyph) /\ Len(Chars(s)) = Len(s)
         /\ \A k \in 1..Len(s) : Chars(s)[k] = CharAt(s[k])
<1>1. \A k \in 1..Len(s) : s[k] \in Item /\ CharAt(s[k]) \in Glyph
  BY DEF Glyph
<1>2. DOMAIN s = 1..Len(s) /\ Len(s) \in Nat
  OBVIOUS
<1> DEFINE c == [k \in 1..Len(s) |-> CharAt(s[k])]
<1>3. Chars(s) = c
  BY <1>2 DEF Chars
<1>4. c \in Seq(Glyph) /\ Len(c) = Len(s)
  BY <1>1, <1>2
<1> QED
  BY <1>2, <1>3, <1>4

LEMMA CharsOfNothing == Chars(<<>>) = <<>>
  BY DEF Chars

LEMMA CharsOfBoth ==
  ASSUME NEW s \in Seq(Item), NEW t \in Seq(Item)
  PROVE  Chars(s \o t) = Chars(s) \o Chars(t)
<1>1. /\ s \o t \in Seq(Item) /\ Len(s \o t) = Len(s) + Len(t)
      /\ \A k \in 1..(Len(s) + Len(t)) :
           (s \o t)[k] = IF k <= Len(s) THEN s[k] ELSE t[k - Len(s)]
  BY ConcatProperties
<1>2. /\ Chars(s) \in Seq(Glyph) /\ Len(Chars(s)) = Len(s)
      /\ Chars(t) \in Seq(Glyph) /\ Len(Chars(t)) = Len(t)
      /\ \A k \in 1..Len(s) : Chars(s)[k] = CharAt(s[k])
      /\ \A k \in 1..Len(t) : Chars(t)[k] = CharAt(t[k])
  BY CharsType
<1>3. /\ Chars(s \o t) \in Seq(Glyph) /\ Len(Chars(s \o t)) = Len(s) + Len(t)
      /\ \A k \in 1..(Len(s) + Len(t)) : Chars(s \o t)[k] = CharAt((s \o t)[k])
  BY <1>1, CharsType
<1> DEFINE a == Chars(s)
           b == Chars(t)
           c == Chars(s \o t)
           st == s \o t
           n == Len(s)
           m == Len(t)
<1>4. n \in Nat /\ m \in Nat
  OBVIOUS
<1>5. /\ a \in Seq(Glyph) /\ Len(a) = n /\ b \in Seq(Glyph) /\ Len(b) = m
      /\ c \in Seq(Glyph) /\ Len(c) = n + m
      /\ \A k \in 1..(n + m) :
           c[k] = IF k <= n THEN CharAt(s[k]) ELSE CharAt(t[k - n])
      /\ \A k \in 1..n : a[k] = CharAt(s[k])
      /\ \A k \in 1..m : b[k] = CharAt(t[k])
  BY <1>1, <1>2, <1>3
<1> HIDE DEF a, b, c, st, n, m
<1>6. /\ a \o b \in Seq(Glyph) /\ Len(a \o b) = n + m
      /\ \A k \in 1..(n + m) : (a \o b)[k] = IF k <= n THEN a[k] ELSE b[k - n]
  BY <1>5, ConcatProperties
<1>7. ASSUME NEW k \in 1..(n + m)
      PROVE  c[k] = (a \o b)[k]
  <2>1. k > n => k - n \in 1..m
    BY <1>4
  <2>2. k <= n => k \in 1..n
    BY <1>4
  <2>3. k > n \/ k <= n
    BY <1>4
  <2>4. CASE k <= n
    BY <1>5, <1>6, <2>2, <2>4
  <2>5. CASE k > n
    <3>1. ~(k <= n)
      BY <1>4, <2>5
    <3> QED
      BY <1>5, <1>6, <2>1, <2>5, <3>1
  <2> QED
    BY <2>3, <2>4, <2>5
<1>8. c = a \o b
  BY <1>5, <1>6, <1>7, SeqEqual
<1> QED
  BY <1>8 DEF a, b, c

\* The characters to come are those of the input that no read has given.
LEMMA ComingType ==
  ASSUME TypeOK
  PROVE  /\ Coming \in Seq(Glyph) /\ Len(Coming) = Rest("stdin") /\ Rest("stdin") \in Nat
         /\ \A k \in 1..Rest("stdin") : Coming[k] = CharAt(<<"stdin", next["stdin"] + k>>)
<1> DEFINE s == input["stdin"]
           n == next["stdin"]
<1>1. s \in Seq(Char) /\ n \in Nat /\ n <= Len(s) /\ Len(s) \in Nat
  BY ReaderAssumption DEF TypeOK, Source
<1>2. \A k \in 1..(Len(s) - n) :
        <<"stdin", n + k>> \in Item /\ CharAt(<<"stdin", n + k>>) = s[n + k]
  BY <1>1 DEF Item, Source, CharAt
<1>3. \A k \in 1..(Len(s) - n) : s[n + k] \in Glyph
  BY <1>2, Zenon DEF Glyph
<1> HIDE DEF s, n
<1>4. /\ Len(SubSeq(s, n + 1, Len(s))) = Len(s) - n
      /\ \A k \in 1..(Len(s) - n) : SubSeq(s, n + 1, Len(s))[k] = s[n + k]
  BY <1>1
<1>5. SubSeq(s, n + 1, Len(s)) \in Seq(Glyph)
  <2>1. SubSeq(s, n + 1, Len(s)) \in Seq(Char)
    BY <1>1
  <2> QED
    BY <1>1, <1>3, <1>4, <2>1
<1>6. Rest("stdin") = Len(s) - n /\ Coming = SubSeq(s, n + 1, Len(s))
  BY DEF Rest, Coming, s, n
<1>7. Len(s) - n \in Nat
  BY <1>1
<1> QED
  BY <1>2, <1>4, <1>5, <1>6, <1>7 DEF n
LEMMA SplitAt ==
  ASSUME NEW S, NEW s \in Seq(S), NEW t \in Seq(S)
  PROVE  /\ SubSeq(s \o t, 1, Len(s)) = s
         /\ SubSeq(s \o t, Len(s) + 1, Len(s \o t)) = t
         /\ Len(s \o t) = Len(s) + Len(t)
         /\ \A k \in 1..Len(s) : (s \o t)[k] = s[k]
<1> DEFINE n == Len(s)
           m == Len(t)
           st == s \o t
<1>1. /\ n \in Nat /\ m \in Nat /\ st \in Seq(S) /\ Len(st) = n + m
      /\ \A k \in 1..(n + m) : st[k] = IF k <= n THEN s[k] ELSE t[k - n]
  BY ConcatProperties
<1> HIDE DEF st
<1>2. SubSeq(st, 1, n) = s
  <2>1. SubSeq(st, 1, n) \in Seq(S) /\ Len(SubSeq(st, 1, n)) = n
    BY <1>1
  <2>2. \A k \in 1..n : SubSeq(st, 1, n)[k] = s[k]
    BY <1>1
  <2> QED
    BY <2>1, <2>2, SeqEqual
<1>3. SubSeq(st, n + 1, n + m) = t
  <2>1. SubSeq(st, n + 1, n + m) \in Seq(S) /\ Len(SubSeq(st, n + 1, n + m)) = m
    BY <1>1
  <2>2. \A k \in 1..m : SubSeq(st, n + 1, n + m)[k] = st[n + k]
    BY <1>1
  <2>3. \A k \in 1..m : n + k \in 1..(n + m) /\ ~(n + k <= n) /\ (n + k) - n = k
    BY <1>1
  <2>4. \A k \in 1..m : SubSeq(st, n + 1, n + m)[k] = t[k]
    BY <1>1, <2>2, <2>3
  <2> QED
    BY <2>1, <2>4, SeqEqual
<1>4. \A k \in 1..n : st[k] = s[k]
  BY <1>1
<1> QED
  BY <1>1, <1>2, <1>3, <1>4 DEF st

\* Outside of documents the input to come is what is unread.
Outside ==
  ~Reading("shell") /\ ~Reading("left") =>
    /\ unreadBar = Coming /\ modeBar = "command" /\ delimBar = <<>>
    /\ bodyBar = <<>> /\ ~eofBar

\* Of the shell and the left child one may be in a document: the user's.
Inside ==
  \A p \in {"shell", "left"} :
    Reading(p) =>
      /\ unreadBar = Chars((IF pc[p] = "line" THEN Text(line[p]) ELSE <<>>)
                             \o Text(buffer[p])) \o Coming
      /\ modeBar = "document" /\ delimBar = delim[p]
      /\ bodyBar = Chars(body[p]) /\ (eofBar <=> eof[p])

LEMMA Bars == TypeOK /\ Turns => Outside /\ Inside
<1> SUFFICES ASSUME TypeOK, Turns PROVE Outside /\ Inside
  OBVIOUS
<1>1. Outside
  <2> SUFFICES ASSUME ~Reading("shell"), ~Reading("left")
               PROVE  /\ unreadBar = Coming /\ modeBar = "command" /\ delimBar = <<>>
                      /\ bodyBar = <<>> /\ ~eofBar
    BY Zenon DEF Outside
  <2>1. ~InDocument
    BY DEF InDocument, Reader
  <2>2. Chars(Held) = <<>>
    BY <2>1, CharsOfNothing DEF Held
  <2>3. <<>> \o Coming = Coming
    BY ComingType, ConcatEmptySeq
  <2> QED
    BY <2>1, <2>2, <2>3 DEF unreadBar, modeBar, delimBar, bodyBar, eofBar
<1>2. Inside
  <2> SUFFICES ASSUME NEW p \in {"shell", "left"}, Reading(p)
               PROVE
      /\ unreadBar = Chars((IF pc[p] = "line" THEN Text(line[p]) ELSE <<>>)
                             \o Text(buffer[p])) \o Coming
      /\ modeBar = "document" /\ delimBar = delim[p]
      /\ bodyBar = Chars(body[p]) /\ (eofBar <=> eof[p])
    BY Zenon DEF Inside
  <2>1. Reader = p
    BY DEF Reader, Reading, Turns
  <2>2. InDocument
    BY <2>1 DEF InDocument
  <2>3. Held = (IF pc[p] = "line" THEN Text(line[p]) ELSE <<>>) \o Text(buffer[p])
    BY <2>1, <2>2 DEF Held
  <2> QED
    BY <2>1, <2>2, <2>3 DEF unreadBar, modeBar, delimBar, bodyBar, eofBar
<1> QED
  BY <1>1, <1>2

\* is_heredoc_delim finds the delimiter, on a line of its own.
LEMMA DelimiterAgrees ==
  ASSUME NEW l \in Seq(Item), EndsLine(l),
         NEW d \in Seq(Char \ {NL, NUL}), Chars(l) \in Seq(Glyph)
  PROVE  is_heredoc_delim(l, d) <=> Chars(l) \in {d, Append(d, NL)}
<1> DEFINE c == Chars(l)
           n == Len(l)
           m == Len(d)
<1>1. /\ n \in Nat /\ m \in Nat /\ DOMAIN d = 1..m
      /\ c \in Seq(Glyph) /\ Len(c) = n /\ \A k \in 1..n : c[k] = CharAt(l[k])
      /\ \A k \in 1..(n - 1) : c[k] # NL
      /\ \A k \in 1..m : d[k] # NL
  BY CharsType DEF EndsLine
<1>2. is_heredoc_delim(l, d) <=>
        /\ m <= n /\ \A k \in 1..m : c[k] = d[k]
        /\ m < n => c[m + 1] = NL
  BY SMTT(30), <1>1 DEF is_heredoc_delim
<1>3. /\ Append(d, NL) \in Seq(Char) /\ Len(Append(d, NL)) = m + 1
      /\ Append(d, NL)[m + 1] = NL /\ \A k \in 1..m : Append(d, NL)[k] = d[k]
      /\ d \in Seq(Char)
  BY ReaderAssumption
<1> HIDE DEF c
<1>4. ASSUME is_heredoc_delim(l, d), ~(m < n)
      PROVE  c = d
  <2>1. n = m /\ \A k \in 1..n : c[k] = d[k]
    BY <1>1, <1>2, <1>4
  <2>2. c \in Seq(Glyph \cup Char) /\ d \in Seq(Glyph \cup Char)
    BY <1>1, <1>3
  <2> QED
    BY <1>1, <2>1, <2>2, SeqEqual
<1>5. ASSUME is_heredoc_delim(l, d), m < n
      PROVE  c = Append(d, NL)
  <2> DEFINE e == Append(d, NL)
  <2>1. n = m + 1
    BY <1>1, <1>2, <1>5
  <2>2. c \in Seq(Glyph \cup Char) /\ e \in Seq(Glyph \cup Char)
    BY <1>1, <1>3
  <2>3. /\ Len(e) = n /\ e[m + 1] = NL /\ \A k \in 1..m : e[k] = d[k]
        /\ c[m + 1] = NL /\ \A k \in 1..m : c[k] = d[k]
    BY <1>2, <1>3, <1>5, <2>1
  <2> HIDE DEF e
  <2>4. \A k \in 1..n : k \in 1..m \/ k = m + 1
    BY <1>1, <2>1
  <2>5. \A k \in 1..n : c[k] = e[k]
    BY <2>3, <2>4
  <2>6. c = e
    BY <1>1, <2>2, <2>3, <2>5, SeqEqual
  <2> QED
    BY <2>6 DEF e
<1>6. ASSUME c = d
      PROVE  is_heredoc_delim(l, d)
  BY <1>1, <1>2, <1>6
<1>7. ASSUME c = Append(d, NL)
      PROVE  is_heredoc_delim(l, d)
  BY <1>1, <1>2, <1>3, <1>7
<1> QED
  BY <1>4, <1>5, <1>6, <1>7 DEF c

\* A read moves characters from those to come to those held.
LEMMA ChunkComes ==
  ASSUME TypeOK, NoZeroes, NEW n \in Chunks("stdin"), NEW b \in Seq(Item),
         input' = input, next' = [next EXCEPT !["stdin"] = @ + n]
  PROVE  Chars(b \o Visible(ChunkOf("stdin", n))) \o Coming' = Chars(b) \o Coming
<1> DEFINE chunk == ChunkOf("stdin", n)
           s == input["stdin"]
           k == next["stdin"]
<1>1. /\ s \in Seq(Char) /\ k \in Nat /\ n \in Nat /\ Len(s) \in Nat
      /\ k + n <= Len(s) /\ chunk \in Seq(Item) /\ Visible(chunk) = chunk
  BY ChunkType, AllVisible, ReaderAssumption DEF TypeOK, Source
<1>2. next'["stdin"] = k + n
  BY DEF TypeOK, Source
<1>3. Chars(chunk) = SubSeq(s, k + 1, k + n)
  <2>1. Chars(chunk) = [i \in 1..n |-> s[k + i]]
    BY <1>1 DEF Chars, ChunkOf, CharAt
  <2> DEFINE c == [i \in 1..n |-> s[k + i]]
  <2> HIDE DEF s, k, chunk
  <2>2. c \in Seq(Char) /\ Len(c) = n /\ \A i \in 1..n : c[i] = s[k + i]
    <3>1. \A i \in 1..n : s[k + i] \in Char
      BY <1>1
    <3> QED
      BY <1>1, <3>1
  <2>3. /\ SubSeq(s, k + 1, k + n) \in Seq(Char) /\ Len(SubSeq(s, k + 1, k + n)) = n
        /\ \A i \in 1..n : SubSeq(s, k + 1, k + n)[i] = s[k + i]
    BY <1>1
  <2> HIDE DEF c
  <2>4. c = SubSeq(s, k + 1, k + n)
    BY <2>2, <2>3, SeqEqual
  <2> QED
    BY <2>1, <2>4 DEF c
<1>4. Coming = SubSeq(s, k + 1, Len(s)) /\ Coming' = SubSeq(s, (k + n) + 1, Len(s))
  BY <1>2 DEF Coming
<1>5. SubSeq(s, k + 1, k + n) \o SubSeq(s, (k + n) + 1, Len(s)) = SubSeq(s, k + 1, Len(s))
  <2> HIDE DEF s, k
  <2>1. /\ k + 1 \in 1..(Len(s) + 1) /\ k + n \in ((k + 1) - 1)..Len(s)
        /\ Len(s) \in (k + n)..Len(s)
    BY <1>1
  <2> QED
    BY <1>1, <2>1, ConcatAdjacentSubSeq
<1>6. Chars(b \o chunk) = Chars(b) \o Chars(chunk)
  BY <1>1, CharsOfBoth
<1>7. (Chars(b) \o Chars(chunk)) \o Coming' = Chars(b) \o (Chars(chunk) \o Coming')
  <2> DEFINE G == Glyph \cup Char
             x == Chars(b)
             y == Chars(chunk)
             z == Coming'
  <2>1. x \in Seq(G) /\ y \in Seq(G) /\ z \in Seq(G)
    <3>1. z \in Seq(Char)
      <4> HIDE DEF s, k
      <4> QED
        BY <1>1, <1>4
    <3>2. x \in Seq(Glyph) /\ y \in Seq(Glyph)
      BY <1>1, CharsType
    <3> QED
      BY <3>1, <3>2
  <2> HIDE DEF x, y, z, G
  <2>2. (x \o y) \o z = x \o (y \o z)
    BY <2>1, ConcatAssociative
  <2> QED
    BY <2>2 DEF x, y, z
<1> HIDE DEF s, k, chunk
<1>8. Chars(chunk) \o Coming' = Coming
  BY <1>3, <1>4, <1>5
<1>9. Visible(ChunkOf("stdin", n)) = chunk
  BY <1>1 DEF chunk
<1> QED
  BY <1>6, <1>7, <1>8, <1>9
-----------------------------------------------------------------------------
(* Every step is one of HereDocuments, or none. *)

Inv == TypeOK /\ Turns /\ Quiet /\ AtMostALine /\ GivesLine /\ Outside /\ Inside

hereBar == <<unreadBar, modeBar, delimBar, bodyBar, eofBar, exactBar>>

LEMMA InitKeeps == TypeOK /\ Init => Promise!HereInit
<1> SUFFICES ASSUME TypeOK, Init PROVE Promise!HereInit
  OBVIOUS
<1>1. Outside
  BY Bars, InitTurns
<1>2. ~Reading("shell") /\ ~Reading("left")
  BY DEF Init, Reading, Process
<1> QED
  BY <1>1, <1>2 DEF Outside, Promise!HereInit

\* What leaves the input and both users of the terminal alone.
LEMMA Stutters ==
  ASSUME Inv, Inv', exactBar <=> exactBar',
         input' = input, next'["stdin"] = next["stdin"],
         \A p \in {"shell", "left"} :
           /\ Reading(p)' <=> Reading(p)
           /\ Reading(p) =>
                /\ delim'[p] = delim[p] /\ body'[p] = body[p] /\ (eof'[p] <=> eof[p])
                /\ ((IF pc[p] = "line" THEN Text(line[p]) ELSE <<>>)
                      \o Text(buffer[p]))'
                   = (IF pc[p] = "line" THEN Text(line[p]) ELSE <<>>)
                      \o Text(buffer[p])
  PROVE  UNCHANGED hereBar
<1>1. Coming' = Coming
  BY DEF Coming
<1>2. exactBar' = exactBar /\ exactBar \in BOOLEAN /\ eofBar \in BOOLEAN /\ eofBar' \in BOOLEAN
  BY Zenon DEF exactBar, eofBar
<1>3. CASE ~Reading("shell") /\ ~Reading("left")
  <2>1. ~Reading("shell")' /\ ~Reading("left")'
    BY <1>3
  <2>2. /\ unreadBar = Coming /\ modeBar = "command" /\ delimBar = <<>>
        /\ bodyBar = <<>> /\ ~eofBar
    BY <1>3, Zenon DEF Inv, Outside
  <2>3. /\ unreadBar' = Coming' /\ modeBar' = "command" /\ delimBar' = <<>>
        /\ bodyBar' = <<>> /\ ~eofBar'
    BY <2>1, Zenon DEF Inv, Outside
  <2> QED
    BY <1>1, <1>2, <2>2, <2>3 DEF hereBar
<1>4. ASSUME NEW p \in {"shell", "left"}, Reading(p)
      PROVE  UNCHANGED hereBar
  <2> DEFINE h == (IF pc[p] = "line" THEN Text(line[p]) ELSE <<>>) \o Text(buffer[p])
  <2>1. /\ unreadBar = Chars(h) \o Coming
        /\ modeBar = "document" /\ delimBar = delim[p]
        /\ bodyBar = Chars(body[p]) /\ (eofBar <=> eof[p])
    BY <1>4 DEF Inv, Inside
  <2>2. /\ unreadBar' = Chars(h)' \o Coming'
        /\ modeBar' = "document" /\ delimBar' = delim'[p]
        /\ bodyBar' = Chars(body[p])' /\ (eofBar' <=> eof'[p])
    BY <1>4 DEF Inv, Inside
  <2>3. h' = h /\ delim'[p] = delim[p] /\ body'[p] = body[p] /\ (eof'[p] <=> eof[p])
    BY <1>4
  <2> HIDE DEF h
  <2>4. Chars(h)' = Chars(h) /\ Chars(body[p])' = Chars(body[p])
    BY <2>3 DEF Chars, CharAt
  <2> QED
    BY <1>1, <1>2, <2>1, <2>2, <2>3, <2>4 DEF hereBar
<1> QED
  BY <1>3, <1>4

LEMMA TailOf ==
  ASSUME NEW S, NEW s \in Seq(S), NEW n \in Nat, n <= Len(s)
  PROVE  /\ SubSeq(s, n + 1, Len(s)) \in Seq(S)
         /\ Len(SubSeq(s, n + 1, Len(s))) = Len(s) - n
         /\ \A i \in 1..(Len(s) - n) : SubSeq(s, n + 1, Len(s))[i] = s[n + i]
  OBVIOUS

LEMMA CommandKeeps ==
  ASSUME Inv, Inv', exactBar, exactBar', Command
  PROVE  Promise!Command
<1>1. /\ Process = {"shell", "left", "right"} /\ DOMAIN pc = Process
      /\ pc["shell"] = "prompt" /\ pc["left"] = "none"
      /\ pc'["shell"] = "run" /\ pc'["left"] = "none"
  <2>1. Process = {"shell", "left", "right"} /\ DOMAIN pc = Process
    BY DEF Process, Inv, TypeOK
  <2> QED
    BY <2>1 DEF Command, Goto, Inv, Turns
<1>2. /\ unreadBar = Coming /\ modeBar = "command" /\ delimBar = <<>>
      /\ bodyBar = <<>> /\ ~eofBar
      /\ unreadBar' = Coming' /\ modeBar' = "command" /\ delimBar' = <<>>
      /\ bodyBar' = <<>> /\ ~eofBar'
  <2>1. ~Reading("shell") /\ ~Reading("left") /\ ~Reading("shell")' /\ ~Reading("left")'
    BY <1>1 DEF Reading
  <2> QED
    BY <2>1, Zenon DEF Inv, Outside
<1>3. PICK n \in 1..Rest("stdin") :
        LET read == [k \in 1..n |-> <<"stdin", next["stdin"] + k>>] IN
        /\ n = First(read, NL) \/ (n = Rest("stdin") /\ ~Has(read, NL))
        /\ next' = [next EXCEPT !["stdin"] = @ + n]
  BY DEF Command
<1> DEFINE read == [k \in 1..n |-> <<"stdin", next["stdin"] + k>>]
<1>4. /\ Coming \in Seq(Glyph) /\ Len(Coming) = Rest("stdin") /\ Rest("stdin") \in Nat
      /\ \A k \in 1..Rest("stdin") : Coming[k] = CharAt(<<"stdin", next["stdin"] + k>>)
      /\ next["stdin"] \in Nat /\ n \in Nat
  <2>1. TypeOK /\ next["stdin"] \in Nat /\ n \in Nat
    BY DEF Inv, TypeOK, Source
  <2> QED
    BY <2>1, ComingType
<1>5. read \in Seq(Item) /\ Len(read) = n /\ DOMAIN read = 1..n
  <2>1. \A k \in 1..n : <<"stdin", next["stdin"] + k>> \in Item
    BY <1>4 DEF Item, Source
  <2> QED
    BY <1>4, <2>1
<1>6. \A k \in 1..n : CharAt(read[k]) = Coming[k]
  BY <1>4
<1>7. /\ n \in 1..Len(Coming) /\ \A k \in 1..(n - 1) : Coming[k] # NL
      /\ Coming[n] = NL \/ n = Len(Coming)
  <2>1. n \in 1..Len(Coming)
    BY <1>3, <1>4
  <2> HIDE DEF read
  <2>2. CASE Has(read, NL)
    <3>1. n = First(read, NL)
      BY <1>3, <2>2 DEF read
    <3>2. CharAt(read[n]) = NL /\ \A k \in 1..(n - 1) : CharAt(read[k]) # NL
      BY <1>5, <2>2, <3>1, FirstIsFirst
    <3> QED
      BY <1>4, <1>6, <2>1, <3>2
  <2>3. CASE ~Has(read, NL)
    <3>1. First(read, NL) = n + 1
      BY <1>5, <2>3, FirstBehind
    <3>2. n = Rest("stdin")
      BY <1>3, <1>4, <2>3, <3>1 DEF read
    <3>3. \A k \in 1..n : CharAt(read[k]) # NL
      BY <1>5, <2>3 DEF Has
    <3> QED
      BY <1>4, <1>6, <2>1, <3>2, <3>3
  <2> QED
    BY <2>2, <2>3
<1>8. Coming' = SubSeq(Coming, n + 1, Len(Coming))
  <2> DEFINE s == input["stdin"]
             k == next["stdin"]
  <2>1. s \in Seq(Char) /\ k \in Nat /\ n \in Nat /\ k + n <= Len(s) /\ Len(s) \in Nat
    BY <1>3, <1>4, ReaderAssumption DEF Inv, TypeOK, Source, Rest
  <2>2. Coming = SubSeq(s, k + 1, Len(s)) /\ Coming' = SubSeq(s, (k + n) + 1, Len(s))
    <3>1. next'["stdin"] = k + n /\ input' = input
      BY <1>3 DEF Inv, TypeOK, Source, Command
    <3> QED
      BY <3>1 DEF Coming
  <2> HIDE DEF s, k
  <2> DEFINE c == SubSeq(s, k + 1, Len(s))
             d == SubSeq(s, (k + n) + 1, Len(s))
  <2>3. /\ c \in Seq(Char) /\ Len(c) = Len(s) - k
        /\ \A i \in 1..(Len(s) - k) : c[i] = s[k + i]
    BY <2>1
  <2>4. /\ d \in Seq(Char) /\ Len(d) = Len(s) - (k + n)
        /\ \A i \in 1..(Len(s) - (k + n)) : d[i] = s[(k + n) + i]
    BY <2>1
  <2> HIDE DEF c, d
  <2> DEFINE e == SubSeq(c, n + 1, Len(c))
  <2>5. /\ e \in Seq(Char) /\ Len(e) = Len(s) - (k + n)
        /\ \A i \in 1..(Len(s) - (k + n)) : e[i] = c[n + i]
    <3>1. Len(c) \in Nat /\ n <= Len(c) /\ Len(c) - n = Len(s) - (k + n)
      BY <2>1, <2>3
    <3>2. /\ SubSeq(c, n + 1, Len(c)) \in Seq(Char)
          /\ Len(SubSeq(c, n + 1, Len(c))) = Len(c) - n
          /\ \A i \in 1..(Len(c) - n) : SubSeq(c, n + 1, Len(c))[i] = c[n + i]
      BY <2>1, <2>3, <3>1, TailOf
    <3> QED
      BY <3>1, <3>2
  <2>6. ASSUME NEW i \in 1..(Len(s) - (k + n))
        PROVE  c[n + i] = s[(k + n) + i]
    <3>1. n + i \in 1..(Len(s) - k) /\ k + (n + i) = (k + n) + i
      BY <2>1
    <3> QED
      BY <2>3, <3>1
  <2> HIDE DEF e
  <2>7. d = e
    BY <2>1, <2>4, <2>5, <2>6, SeqEqual
  <2> QED
    BY <2>2, <2>7 DEF c, d, e
<1> QED
  <2>1. eofBar' = eofBar
    BY <1>2, Zenon DEF eofBar
  <2>2. /\ Promise!LineOf(n, n = Len(unreadBar)) /\ Promise!Use(n)
        /\ n \in 1..Len(unreadBar)
    BY <1>2, <1>7, <1>8 DEF Promise!LineOf, Promise!Use
  <2>3. \E m \in 1..Len(unreadBar) : Promise!LineOf(m, m = Len(unreadBar)) /\ Promise!Use(m)
    BY <2>2, Zenon
  <2> QED
    BY <1>2, <2>1, <2>3, Zenon DEF Promise!Command

LEMMA BeginKeeps ==
  ASSUME Inv, Inv', exactBar, exactBar', NEW p \in {"shell", "left"}, HereDocument(p)
  PROVE  Promise!Begin
<1>1. /\ Process = {"shell", "left", "right"} /\ DOMAIN pc = Process
      /\ DOMAIN delim = Process /\ p \in Process /\ tty'
  BY DEF Process, Inv, TypeOK, exactBar
<1>2. ~Reading("shell") /\ ~Reading("left") /\ pc[p] = "run" /\ pc'[p] = "call"
  BY <1>1 DEF HereDocument, Goto, Reading, Inv, Turns
<1>3. Reading(p)'
  BY <1>2 DEF Reading
<1>4. /\ unreadBar = Coming /\ modeBar = "command" /\ delimBar = <<>>
      /\ bodyBar = <<>> /\ ~eofBar
  BY <1>2, Zenon DEF Inv, Outside
<1>5. Text(buffer[p])' = <<>>
  BY <1>1, <1>2 DEF Inv, AtMostALine, Text
<1>6. /\ unreadBar' = Coming' /\ modeBar' = "document" /\ delimBar' = delim'[p]
      /\ bodyBar' = Chars(body[p])' /\ (eofBar' <=> eof'[p])
  <2>1. /\ unreadBar' = Chars((IF pc[p] = "line" THEN Text(line[p]) ELSE <<>>)
                               \o Text(buffer[p]))' \o Coming'
        /\ modeBar' = "document" /\ delimBar' = delim'[p]
        /\ bodyBar' = Chars(body[p])' /\ (eofBar' <=> eof'[p])
    BY <1>3 DEF Inv, Inside
  <2> DEFINE h == (IF pc[p] = "line" THEN Text(line[p]) ELSE <<>>) \o Text(buffer[p])
  <2>2. h' = <<>>
    <3>1. (IF pc[p] = "line" THEN Text(line[p]) ELSE <<>>)' = <<>>
      BY <1>2
    <3>2. <<>> \o <<>> = <<>>
      OBVIOUS
    <3> QED
      BY <1>5, <3>1, <3>2
  <2>3. Chars(h)' = <<>>
    <3> HIDE DEF h
    <3> QED
      BY <2>2 DEF Chars
  <2>4. <<>> \o Coming' = Coming'
    <3>1. Coming' = Coming
      BY DEF HereDocument, Coming
    <3> QED
      BY <3>1, ComingType, ConcatEmptySeq DEF Inv
  <2> QED
    BY <2>1, <2>3, <2>4
<1>7. Coming' = Coming
  BY DEF HereDocument, Coming
<1>8. delim'[p] \in Delim
  BY <1>1 DEF HereDocument
<1>9. Chars(body[p])' = <<>> /\ ~eof'[p]
  <2>1. body[p] = <<>> /\ ~eof[p] /\ body' = body /\ eof' = eof
    BY <1>1, <1>2 DEF Inv, Quiet, Reading, HereDocument
  <2> QED
    BY <2>1 DEF Chars
<1>10. eofBar' = eofBar
  <2>1. eofBar \in BOOLEAN /\ eofBar' \in BOOLEAN
    BY Zenon DEF eofBar
  <2> QED
    BY <1>4, <1>6, <1>9, <2>1
<1> QED
  BY <1>4, <1>6, <1>7, <1>8, <1>9, <1>10 DEF Promise!Begin
LEMMA ReadKeeps ==
  ASSUME Inv, Inv', exactBar, exactBar', NEW p \in {"shell", "left"}, Read(p)
  PROVE  Promise!EndOfFile \/ UNCHANGED hereBar
<1> DEFINE h == (IF pc[p] = "line" THEN Text(line[p]) ELSE <<>>) \o Text(buffer[p])
           b == Text(buffer[p])
<1>0. /\ TypeOK /\ NoZeroes /\ p \in Process /\ DOMAIN pc = Process
      /\ DOMAIN buffer = Process /\ DOMAIN line = Process /\ DOMAIN eof = Process
      /\ b \in Seq(Item) /\ pc[p] = "read"
  BY SourceOfStdin, TextType DEF Inv, TypeOK, exactBar, Read
<1>1. PICK n \in Chunks("stdin") :
        LET joined == b \o Visible(ChunkOf("stdin", n)) IN
        /\ next' = [next EXCEPT !["stdin"] = @ + n]
        /\ buffer' = [buffer EXCEPT ![p] = IF joined = <<>> THEN NULL ELSE joined]
        /\ line' = [line EXCEPT ![p] = NULL]
        /\ Goto(p, IF joined = <<>> THEN "line"
                   ELSE IF n = 0 \/ Has(joined, NL) THEN "take" ELSE "read")
  BY SourceOfStdin DEF Read
<1> DEFINE joined == b \o Visible(ChunkOf("stdin", n))
<1>2. joined \in Seq(Item)
  BY <1>0, ChunkType, ConcatProperties DEF Source
<1>3. h = b
  <2>1. h = <<>> \o b
    BY <1>0
  <2> HIDE DEF b, h
  <2> QED
    BY <1>0, <2>1, ConcatEmptySeq
<1>4. /\ h' = joined /\ pc'[p] \in {"line", "take", "read"}
  <2> HIDE DEF joined
  <2>1. /\ buffer'[p] = IF joined = <<>> THEN NULL ELSE joined
        /\ line'[p] = NULL /\ pc'[p] \in {"line", "take", "read"}
    BY <1>0, <1>1 DEF Goto, joined
  <2>2. Text(buffer[p])' = joined /\ Text(line[p])' = <<>>
    BY <1>2, <2>1, TextType DEF Text
  <2>3. h' = <<>> \o joined
    BY <2>2
  <2> QED
    BY <1>2, <2>1, <2>3, ConcatEmptySeq
<1>5. Reading(p) /\ Reading(p)'
  BY <1>0, <1>4 DEF Reading
<1>6. /\ unreadBar = Chars(h) \o Coming
      /\ modeBar = "document" /\ delimBar = delim[p]
      /\ bodyBar = Chars(body[p]) /\ (eofBar <=> eof[p])
  BY <1>5 DEF Inv, Inside
<1>7. /\ unreadBar' = Chars(h)' \o Coming'
      /\ modeBar' = "document" /\ delimBar' = delim'[p]
      /\ bodyBar' = Chars(body[p])' /\ (eofBar' <=> eof'[p])
  BY <1>5 DEF Inv, Inside
<1>8. input' = input /\ delim' = delim /\ body' = body
  BY DEF Read, local
<1>9. Chars(joined) \o Coming' = Chars(b) \o Coming
  BY <1>0, <1>1, <1>8, ChunkComes
<1>10. Chars(h)' = Chars(joined) /\ Chars(body[p])' = Chars(body[p])
  <2> HIDE DEF h, joined
  <2> QED
    BY <1>4, <1>8 DEF Chars, CharAt
<1>11. /\ unreadBar' = unreadBar /\ modeBar' = modeBar /\ delimBar' = delimBar
       /\ bodyBar' = bodyBar
  <2> HIDE DEF h, joined, b
  <2> QED
    BY <1>3, <1>6, <1>7, <1>8, <1>9, <1>10
<1>12. /\ eofBar \in BOOLEAN /\ eofBar' \in BOOLEAN
       /\ exactBar' = exactBar
  BY Zenon DEF eofBar, exactBar
<1>13. eofBar' = eofBar \/ eofBar' = ~eofBar
  BY <1>12
<1>14. CASE eofBar' = eofBar
  BY <1>11, <1>12, <1>14, Zenon DEF hereBar
<1>15. CASE eofBar' = ~eofBar
  BY <1>6, <1>11, <1>15, Zenon DEF Promise!EndOfFile
<1> QED
  BY <1>13, <1>14, <1>15

LEMMA CallOrTakeKeeps ==
  ASSUME Inv, Inv', exactBar, exactBar', NEW p \in {"shell", "left"}, Call(p) \/ Take(p)
  PROVE  UNCHANGED hereBar
<1>0. /\ Process = {"shell", "left", "right"} /\ p \in Process /\ DOMAIN pc = Process
      /\ DOMAIN buffer = Process /\ DOMAIN line = Process
      /\ Text(buffer[p]) \in Seq(Item)
  BY SourceOfStdin, TextType DEF Inv, TypeOK, Process
<1>1. /\ input' = input /\ next' = next /\ delim' = delim /\ body' = body /\ eof' = eof
  BY DEF Call, Take, local
<1>2. \A q \in {"shell", "left"} : q # p =>
        pc'[q] = pc[q] /\ buffer'[q] = buffer[q] /\ line'[q] = line[q]
  BY <1>0 DEF Call, Take, Goto
<1>3. Reading(p) /\ Reading(p)'
  BY <1>0 DEF Call, Take, Goto, Reading
<1> DEFINE h(q) == (IF pc[q] = "line" THEN Text(line[q]) ELSE <<>>) \o Text(buffer[q])
<1>4. h(p)' = h(p)
  <2>1. CASE Call(p)
    <3>1. pc[p] # "line" /\ pc'[p] # "line" /\ buffer' = buffer
      BY <1>0, <2>1 DEF Call, Goto
    <3> QED
      BY <3>1
  <2>2. CASE Take(p)
    <3> DEFINE b == Text(buffer[p])
    <3>1. /\ pc[p] = "take" /\ pc'[p] = "line"
          /\ line'[p] = ft_take_line(b) /\ buffer'[p] = ft_rebuffer(b)
      BY <1>0, <2>2 DEF Take, Goto
    <3>2. Text(ft_take_line(b)) \o Text(ft_rebuffer(b)) = b
      BY <1>0, CutInTwo
    <3>3. h(p) = <<>> \o b
      BY <3>1
    <3>4. <<>> \o b = b
      <4> HIDE DEF b
      <4>1. b \in Seq(Item)
        BY <1>0 DEF b
      <4> QED
        BY <4>1, ConcatEmptySeq
    <3>5. h(p)' = Text(ft_take_line(b)) \o Text(ft_rebuffer(b))
      <4>1. h(p)' = Text(line'[p]) \o Text(buffer'[p])
        BY <3>1 DEF Text
      <4> QED
        BY <4>1, <3>1
    <3> QED
      BY <3>2, <3>3, <3>4, <3>5
  <2> QED
    BY <2>1, <2>2
<1>5. \A q \in {"shell", "left"} : q # p => h(q)' = h(q) /\ (Reading(q)' <=> Reading(q))
  BY <1>2 DEF Reading, Text
<1>6. \A q \in {"shell", "left"} : h(q)' = h(q) /\ (Reading(q)' <=> Reading(q))
  BY <1>3, <1>4, <1>5
<1> QED
  BY <1>1, <1>6, Stutters

\* The line get_next_line gave is the next one of what is unread.
LEMMA LineGiven ==
  ASSUME Inv, exactBar, NEW p \in {"shell", "left"}, pc[p] = "line", line[p] # NULL
  PROVE  LET l == line[p]
             n == Len(l)
         IN
         /\ l \in Seq(Item) /\ body[p] \in Seq(Item) /\ Reading(p)
         /\ n \in 1..Len(unreadBar) /\ Promise!LineOf(n, eofBar)
         /\ Promise!Front(n) = Chars(l)
         /\ SubSeq(unreadBar, n + 1, Len(unreadBar)) = Coming
         /\ Promise!Delimiter(Chars(l)) <=> is_heredoc_delim(l, delim[p])
         /\ <<>> \o Coming = Coming
<1> DEFINE h == (IF pc[p] = "line" THEN Text(line[p]) ELSE <<>>) \o Text(buffer[p])
           l == line[p]
           c == Chars(l)
           n == Len(l)
<1>0. /\ TypeOK /\ p \in Process /\ tty /\ body[p] \in Seq(Item)
      /\ delim[p] \in Delim \cup {<<>>}
  BY SourceOfStdin DEF Inv, TypeOK, exactBar
<1>1. /\ l \in Seq(Item) /\ Text(l) = l /\ IsLine(l, eof[p]) /\ Text(buffer[p]) = <<>>
  <2>1. l \in Seq(Item)
    BY <1>0 DEF TypeOK
  <2>2. IsLine(l, eof[p])
    BY <1>0 DEF Inv, GivesLine
  <2>3. Text(buffer[p]) = <<>>
    BY <1>0 DEF Inv, AtMostALine
  <2> QED
    BY <2>1, <2>2, <2>3, TextType
<1>2. h = l
  <2>1. h = l \o <<>>
    BY <1>1
  <2> HIDE DEF l, h
  <2> QED
    BY <1>1, <2>1, ConcatEmptySeq
<1>3. Reading(p)
  BY DEF Reading
<1>4. unreadBar = Chars(h) \o Coming /\ delimBar = delim[p] /\ (eofBar <=> eof[p])
  BY <1>3 DEF Inv, Inside
<1> HIDE DEF h
<1>5. Coming \in Seq(Glyph) /\ <<>> \o Coming = Coming
  BY <1>0, ComingType, ConcatEmptySeq
<1>6. /\ c \in Seq(Glyph) /\ Len(c) = n /\ n \in Nat \ {0}
      /\ \A k \in 1..n : c[k] = CharAt(l[k])
  BY <1>1, CharsType DEF IsLine
<1>7. /\ SubSeq(unreadBar, 1, n) = c
      /\ SubSeq(unreadBar, n + 1, Len(unreadBar)) = Coming
      /\ Len(unreadBar) = n + Len(Coming) /\ Len(Coming) \in Nat
      /\ \A k \in 1..n : unreadBar[k] = c[k]
  <2> HIDE DEF c
  <2>1. unreadBar = c \o Coming
    BY <1>2, <1>4 DEF c
  <2> HIDE DEF n
  <2>2. /\ SubSeq(c \o Coming, 1, Len(c)) = c
        /\ SubSeq(c \o Coming, Len(c) + 1, Len(c \o Coming)) = Coming
        /\ Len(c \o Coming) = Len(c) + Len(Coming)
        /\ \A k \in 1..Len(c) : (c \o Coming)[k] = c[k]
    BY <1>5, <1>6, SplitAt
  <2>3. Len(Coming) \in Nat
    BY <1>5, LenProperties
  <2> QED
    BY <1>6, <2>1, <2>2, <2>3
<1>8. Promise!LineOf(n, eofBar) /\ n \in 1..Len(unreadBar)
  <2>1. \A k \in 1..(n - 1) : unreadBar[k] # NL
    <3>1. \A k \in 1..(n - 1) : k \in 1..n /\ CharAt(l[k]) # NL
      BY <1>1, <1>6 DEF IsLine, EndsLine
    <3> QED
      BY <1>6, <1>7, <3>1
  <2>2. unreadBar[n] = NL \/ eofBar
    <3>1. CASE eof[p]
      BY <1>4, <3>1
    <3>2. CASE Has(l, NL)
      <4>1. PICK k \in DOMAIN l : CharAt(l[k]) = NL
        BY <3>2 DEF Has
      <4>2. k \in 1..n /\ (k = n \/ k \in 1..(n - 1))
        BY <1>1, <1>6, <4>1
      <4>3. k = n
        BY <1>1, <4>1, <4>2 DEF IsLine, EndsLine
      <4> QED
        BY <1>6, <1>7, <4>1, <4>2, <4>3
    <3> QED
      BY <1>1, <3>1, <3>2 DEF IsLine
  <2>3. n \in 1..Len(unreadBar)
    BY <1>6, <1>7
  <2> QED
    BY <2>1, <2>2, <2>3 DEF Promise!LineOf
<1>9. Promise!Delimiter(c) <=> is_heredoc_delim(l, delim[p])
  <2>1. delim[p] \in Seq(Char \ {NL, NUL})
    <3>1. <<>> \in Seq(Char \ {NL, NUL})
      OBVIOUS
    <3> QED
      BY <1>0, <3>1, ReaderAssumption, Zenon
  <2>2. is_heredoc_delim(l, delim[p]) <=> c \in {delim[p], Append(delim[p], NL)}
    BY <1>1, <1>6, <2>1, DelimiterAgrees DEF IsLine
  <2> QED
    BY <1>4, <2>2 DEF Promise!Delimiter
<1>10. Promise!Front(n) = c
  BY <1>7 DEF Promise!Front
<1> QED
  BY <1>0, <1>1, <1>3, <1>5, <1>7, <1>8, <1>9, <1>10

LEMMA LineKeeps ==
  ASSUME Inv, Inv', exactBar, exactBar', NEW p \in {"shell", "left"}, HereLine(p)
  PROVE  Promise!Line
<1> DEFINE h == (IF pc[p] = "line" THEN Text(line[p]) ELSE <<>>) \o Text(buffer[p])
           l == line[p]
           n == Len(l)
<1>0. /\ TypeOK /\ p \in Process /\ DOMAIN pc = Process /\ DOMAIN body = Process
      /\ tty'
  BY SourceOfStdin DEF Inv, TypeOK, exactBar
<1>1. /\ pc[p] = "line" /\ l # NULL /\ ~is_heredoc_delim(l, delim[p]) /\ pc'[p] = "call"
      /\ body'[p] = body[p] \o l /\ input' = input /\ next' = next /\ delim' = delim
      /\ eof' = eof
  BY <1>0 DEF HereLine, Goto
<1>2. /\ l \in Seq(Item) /\ body[p] \in Seq(Item) /\ Reading(p)
      /\ n \in 1..Len(unreadBar) /\ Promise!LineOf(n, eofBar)
      /\ Promise!Front(n) = Chars(l)
      /\ SubSeq(unreadBar, n + 1, Len(unreadBar)) = Coming
      /\ ~Promise!Delimiter(Chars(l)) /\ <<>> \o Coming = Coming
  BY <1>1, LineGiven
<1>3. Reading(p)'
  BY <1>1 DEF Reading
<1>4. /\ modeBar = "document" /\ delimBar = delim[p]
      /\ bodyBar = Chars(body[p]) /\ (eofBar <=> eof[p])
  BY <1>2 DEF Inv, Inside
<1>5. /\ unreadBar' = Chars(h)' \o Coming'
      /\ modeBar' = "document" /\ delimBar' = delim'[p]
      /\ bodyBar' = Chars(body[p])' /\ (eofBar' <=> eof'[p])
  BY <1>3 DEF Inv, Inside
<1>6. unreadBar' = Coming
  <2>1. Text(buffer[p])' = <<>>
    BY <1>0, <1>1 DEF Inv, AtMostALine
  <2>2. h' = <<>>
    <3>1. h' = <<>> \o <<>> /\ <<>> \o <<>> = <<>>
      BY <1>1, <2>1
    <3> QED
      BY <3>1
  <2> HIDE DEF h
  <2>3. Chars(h)' = <<>> /\ Coming' = Coming
    BY <1>1, <2>2 DEF Chars, Coming
  <2> QED
    BY <1>2, <1>5, <2>3
<1>7. bodyBar' = bodyBar \o Chars(l)
  <2>1. Chars(body[p])' = Chars(body[p] \o l)
    BY <1>1 DEF Chars, CharAt
  <2>2. Chars(body[p] \o l) = Chars(body[p]) \o Chars(l)
    BY <1>2, CharsOfBoth
  <2> QED
    BY <1>4, <1>5, <2>1, <2>2
<1>8. /\ eofBar' = eofBar /\ delimBar' = delimBar /\ modeBar' = modeBar
  <2>1. eofBar \in BOOLEAN /\ eofBar' \in BOOLEAN
    BY Zenon DEF eofBar
  <2> QED
    BY <1>1, <1>4, <1>5, <2>1
<1>9. /\ n \in 1..Len(unreadBar) /\ Promise!LineOf(n, eofBar)
      /\ ~Promise!Delimiter(Promise!Front(n)) /\ Promise!Use(n)
      /\ bodyBar' = bodyBar \o Promise!Front(n)
  BY <1>2, <1>6, <1>7 DEF Promise!Use
<1> HIDE DEF n
<1> QED
  BY <1>4, <1>8, <1>9, Zenon DEF Promise!Line

LEMMA EndKeeps ==
  ASSUME Inv, Inv', exactBar, exactBar', NEW p \in {"shell", "left"}, HereEnd(p)
  PROVE  Promise!End
<1> DEFINE h == (IF pc[p] = "line" THEN Text(line[p]) ELSE <<>>) \o Text(buffer[p])
           l == line[p]
           n == Len(l)
<1>0. /\ TypeOK /\ p \in Process /\ DOMAIN pc = Process /\ tty
      /\ Process = {"shell", "left", "right"}
  BY SourceOfStdin DEF Inv, TypeOK, exactBar, Process
<1>1. /\ pc[p] = "line" /\ pc'[p] \in {"prompt", "done"} /\ input' = input /\ next' = next
      /\ l # NULL => is_heredoc_delim(l, delim[p])
      /\ \A q \in {"shell", "left"} : q # p => pc'[q] = pc[q]
  BY <1>0 DEF HereEnd, Goto, After
<1>2. Reading(p)
  BY <1>1 DEF Reading
<1>3. ~Reading("shell")' /\ ~Reading("left")'
  <2>1. \A q \in {"shell", "left"} : q # p => pc[q] \in {"none", "wait"}
    BY <1>1 DEF Inv, Turns
  <2> QED
    BY <1>1, <2>1 DEF Reading
<1>4. /\ unreadBar = Chars(h) \o Coming /\ modeBar = "document" /\ (eofBar <=> eof[p])
  BY <1>2 DEF Inv, Inside
<1>5. /\ unreadBar' = Coming' /\ modeBar' = "command" /\ delimBar' = <<>>
      /\ bodyBar' = <<>> /\ ~eofBar'
  BY <1>3, Zenon DEF Inv, Outside
<1>6. Coming' = Coming
  BY <1>1 DEF Coming
<1>7. \/ \E m \in 1..Len(unreadBar) :
            Promise!LineOf(m, eofBar) /\ Promise!Delimiter(Promise!Front(m)) /\ Promise!Use(m)
      \/ eofBar /\ unreadBar' = unreadBar
  <2>1. CASE l # NULL
    <3>1. /\ n \in 1..Len(unreadBar) /\ Promise!LineOf(n, eofBar)
          /\ Promise!Delimiter(Promise!Front(n))
          /\ SubSeq(unreadBar, n + 1, Len(unreadBar)) = Coming
      BY <1>1, <2>1, LineGiven
    <3>2. Promise!Use(n)
      BY <1>5, <1>6, <3>1 DEF Promise!Use
    <3> HIDE DEF n
    <3> QED
      BY <3>1, <3>2, Zenon
  <2>2. CASE l = NULL
    <3>1. eof[p] /\ Text(buffer[p]) = <<>>
      BY <1>0, <1>1, <2>2 DEF Inv, GivesLine, AtMostALine
    <3>2. h = <<>>
      <4>1. h = <<>> \o <<>> /\ <<>> \o <<>> = <<>>
        BY <1>1, <2>2, <3>1, TextType
      <4> QED
        BY <4>1
    <3> HIDE DEF h
    <3>3. <<>> \o Coming = Coming
      BY <1>0, ComingType, ConcatEmptySeq
    <3>4. unreadBar = Coming
      BY <1>4, <3>2, <3>3, CharsOfNothing
    <3> QED
      BY <1>4, <1>5, <1>6, <3>1, <3>4
  <2> QED
    BY <2>1, <2>2
<1> QED
  BY <1>4, <1>5, <1>7, Zenon DEF Promise!End

\* What concerns neither the input nor the user's documents.
LEMMA RestKeeps ==
  ASSUME Inv, Inv', exactBar, exactBar',
         \/ Leave \/ Fork \/ Join \/ Step("right") \/ UNCHANGED vars
         \/ \E p \in {"shell", "left"} : OtherCommand(p)
  PROVE  UNCHANGED hereBar
<1> DEFINE h(q) == (IF pc[q] = "line" THEN Text(line[q]) ELSE <<>>) \o Text(buffer[q])
<1>0. /\ Process = {"shell", "left", "right"} /\ DOMAIN pc = Process /\ TypeOK /\ Turns
      /\ DOMAIN buffer = Process /\ DOMAIN line = Process /\ DOMAIN eof = Process
      /\ DOMAIN body = Process /\ DOMAIN delim = Process /\ DOMAIN next = Source
      /\ failures' = 0 /\ failures \in Nat
  BY ReaderAssumption DEF Inv, TypeOK, Process, exactBar
<1>1. ASSUME input' = input, next'["stdin"] = next["stdin"],
             \A q \in {"shell", "left"} : ~Reading(q) /\ ~Reading(q)'
      PROVE  UNCHANGED hereBar
  BY <1>1, Stutters
<1>2. CASE Leave
  BY <1>0, <1>1, <1>2 DEF Leave, Goto, Turns, Reading
<1>3. CASE Fork
  BY <1>0, <1>1, <1>3 DEF Fork, Turns, Reading
<1>4. CASE Join
  BY <1>0, <1>1, <1>4 DEF Join, Turns, Reading
<1>5. ASSUME NEW p \in {"shell", "left"}, OtherCommand(p)
      PROVE  UNCHANGED hereBar
  BY <1>0, <1>1, <1>5 DEF OtherCommand, Goto, After, Turns, Reading
<1>6. ASSUME input' = input, next'["stdin"] = next["stdin"],
             \A q \in {"shell", "left"} :
               /\ pc'[q] = pc[q] /\ delim'[q] = delim[q] /\ body'[q] = body[q]
               /\ eof'[q] = eof[q] /\ line'[q] = line[q] /\ buffer'[q] = buffer[q]
      PROVE  UNCHANGED hereBar
  <2>1. \A q \in {"shell", "left"} : h(q)' = h(q) /\ (Reading(q)' <=> Reading(q))
    BY <1>6 DEF Text, Reading
  <2> QED
    BY <1>6, <2>1, Stutters
<1>7. CASE Step("right")
  <2>0. ~Fail("right")
    <3>1. Fail("right") => failures' = failures + 1
      BY Zenon DEF Fail
    <3> QED
      BY <1>0, <3>1
  <2>1. /\ input' = input /\ next'["stdin"] = next["stdin"]
    <3>1. next' = next \/ \E n : next' = [next EXCEPT !["pipe"] = n]
      BY <1>7, <2>0 DEF Step, OtherCommand, HereDocument, Call, Read, Take, HereLine,
                        HereEnd, SourceOf
    <3>2. next'["stdin"] = next["stdin"]
      BY <1>0, <3>1 DEF Source
    <3>3. input' = input
      BY <1>7, <2>0 DEF Step, OtherCommand, HereDocument, Call, Read, Take, HereLine,
                        HereEnd
    <3> QED
      BY <3>2, <3>3
  <2>2. \A q \in {"shell", "left"} :
          /\ pc'[q] = pc[q] /\ delim'[q] = delim[q] /\ body'[q] = body[q]
          /\ eof'[q] = eof[q] /\ line'[q] = line[q] /\ buffer'[q] = buffer[q]
    BY ZenonT(60), <1>0, <1>7, <2>0 DEF Step, OtherCommand, HereDocument, Call, Read, Take, HereLine,
                            HereEnd, Goto, local
  <2> QED
    BY <2>1, <2>2, <1>6
<1>8. CASE UNCHANGED vars
  BY <1>6, <1>8 DEF vars
<1> QED
  BY <1>2, <1>3, <1>4, <1>5, <1>7, <1>8

LEMMA NextKeeps ==
  Inv /\ Inv' /\ [Next]_vars => [Promise!HereNext]_(Promise!hereVars)
<1> SUFFICES ASSUME Inv, Inv', [Next]_vars
             PROVE  [Promise!HereNext]_(Promise!hereVars)
  OBVIOUS
<1>1. CASE ~exactBar'
  BY <1>1 DEF Promise!HereNext
<1>2. CASE exactBar'
  <2>0. exactBar /\ ~(\E p \in Process : Fail(p))
    <3>1. input' = input /\ tty' = tty /\ failures' \in {failures, failures + 1}
      BY DEF Next, Command, Leave, Fork, Join, Step, OtherCommand, HereDocument,
             Call, Read, Take, Fail, HereLine, HereEnd, local, vars
    <3>2. failures \in Nat /\ failures' = 0
      BY <1>2, ReaderAssumption DEF Inv, TypeOK, exactBar
    <3>3. \A p \in Process : Fail(p) => failures' = failures + 1
      BY Zenon DEF Fail
    <3>4. exactBar
      BY <1>2, <3>1, <3>2 DEF exactBar, NoZeroes
    <3> QED
      BY <3>2, <3>3, <3>4
  <2>1. \/ Promise!Command \/ Promise!Begin \/ Promise!Line \/ Promise!End
        \/ Promise!EndOfFile \/ UNCHANGED hereBar
    <3>1. CASE Command
      BY <1>2, <2>0, <3>1, CommandKeeps
    <3>2. ASSUME NEW p \in {"shell", "left"}, HereDocument(p) PROVE Promise!Begin
      BY <1>2, <2>0, <3>2, BeginKeeps
    <3>3. ASSUME NEW p \in {"shell", "left"}, Read(p)
          PROVE  Promise!EndOfFile \/ UNCHANGED hereBar
      BY <1>2, <2>0, <3>3, ReadKeeps
    <3>4. ASSUME NEW p \in {"shell", "left"}, Call(p) \/ Take(p) PROVE UNCHANGED hereBar
      BY <1>2, <2>0, <3>4, CallOrTakeKeeps
    <3>5. ASSUME NEW p \in {"shell", "left"}, HereLine(p) PROVE Promise!Line
      BY <1>2, <2>0, <3>5, LineKeeps
    <3>6. ASSUME NEW p \in {"shell", "left"}, HereEnd(p) PROVE Promise!End
      BY <1>2, <2>0, <3>6, EndKeeps
    <3>7. CASE \/ Leave \/ Fork \/ Join \/ Step("right") \/ UNCHANGED vars
               \/ \E p \in {"shell", "left"} : OtherCommand(p)
      BY <1>2, <2>0, <3>7, RestKeeps
    <3>8. Process = {"shell", "left", "right"}
      BY DEF Process
    <3> QED
      BY <2>0, <3>1, <3>2, <3>3, <3>4, <3>5, <3>6, <3>7, <3>8, Zenon DEF Next, Step
  <2>2. UNCHANGED hereBar => UNCHANGED Promise!hereVars
    BY Zenon DEF hereBar, Promise!hereVars
  <2> QED
    BY <2>0, <2>1, <2>2, Zenon DEF Promise!HereNext
<1> QED
  BY <1>1, <1>2

\* At a terminal where nothing fails, however its lines are cut by reads and
\* passed from process to process: documents are the lines typed for them up to
\* their delimiter or an end of file, and the next command is the line behind.
THEOREM ReaderKeepsOrder == Spec => KeepsOrder
<1>1. TypeOK /\ Init => Promise!HereInit
  BY InitKeeps
<1>2. Inv /\ Inv' /\ [Next]_vars => [Promise!HereNext]_(Promise!hereVars)
  BY NextKeeps
<1>3. TypeOK /\ Turns => Outside /\ Inside
  BY Bars
<1>4. TypeOK /\ Turns /\ Quiet /\ AtMostALine /\ GivesLine /\ Outside /\ Inside => Inv
  BY DEF Inv
<1> QED
  BY <1>1, <1>2, <1>3, <1>4, TypeCorrect, AlwaysTurns, AlwaysQuiet, AlwaysAtMostALine,
     AlwaysGivesLine, PTL DEF Spec, KeepsOrder, Promise!HereSpec
=============================================================================
