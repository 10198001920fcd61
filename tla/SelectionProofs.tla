--------------------------- MODULE SelectionProofs ---------------------------
(***************************************************************************)
(* What is chosen of a list, what a list of lists comes to, and how a set  *)
(* is listed; with the induction these rest on, over sets in place of      *)
(* predicates.                                                             *)
(***************************************************************************)
EXTENDS Selection, SequencesExt, SequenceTheorems, FiniteSetTheorems, WellFoundedInduction, TLAPS

-----------------------------------------------------------------------------
(* Induction *)

\* A set of numbers that is not empty has a least one.
LEMMA LeastNumber ==
  ASSUME NEW T, T \subseteq Nat, T # {}
  PROVE  \E n \in T : \A m \in T : n <= m
<1>1. PICK m \in T : \A k \in T : <<k, m>> \notin OpToRel(<, Nat)
  BY WFMin, NatLessThanWellFounded, Zenon
<1>2. \A k \in T : ~ (k < m)
  BY <1>1, Zenon DEF OpToRel
<1> QED
  BY <1>2

\* A set with 0 and with the successor of each of its numbers has them all.
LEMMA UpFromZero ==
  ASSUME NEW N \in Nat, NEW T, 0 \in T,
         \A n \in 0..N : n # N /\ n \in T => n + 1 \in T
  PROVE  0..N \subseteq T
<1> DEFINE Missing == (0..N) \ T
<1>1. SUFFICES ASSUME Missing # {} PROVE FALSE
  OBVIOUS
<1>2. PICK n \in Missing : \A m \in Missing : n <= m
  <2>1. Missing \subseteq Nat
    OBVIOUS
  <2> HIDE DEF Missing
  <2> QED
    BY <2>1, <1>1, LeastNumber
<1>3. n \in 0..N /\ n # 0 /\ n - 1 \in 0..N /\ n - 1 # N
  BY <1>2
<1>4. n - 1 \in T
  BY <1>2, <1>3
<1>5. (n - 1) + 1 \in T
  BY <1>3, <1>4
<1> QED
  BY <1>2, <1>3, <1>5

\* A set with the empty list and with each of its lists made longer has them
\* all.
LEMMA ByAppending ==
  ASSUME NEW S, NEW T, <<>> \in T,
         \A s \in Seq(S), e \in S : s \in T => Append(s, e) \in T
  PROVE  Seq(S) \subseteq T
<1> DEFINE Missing == {Len(s) : s \in Seq(S) \ T}
<1>1. SUFFICES ASSUME Missing # {} PROVE FALSE
  OBVIOUS
<1>2. PICK n \in Missing : \A m \in Missing : n <= m
  <2>1. Missing \subseteq Nat
    BY LenProperties
  <2> QED
    BY <2>1, <1>1, LeastNumber
<1>3. PICK s \in Seq(S) \ T : n = Len(s)
  BY <1>2
<1>4. PICK t \in Seq(S), e \in S : s = Append(t, e)
  BY <1>3, SequenceEmptyOrAppend
<1>5. Len(t) \in Nat /\ Len(s) = Len(t) + 1
  BY <1>4, AppendProperties, LenProperties
<1>6. t \in T
  BY <1>2, <1>3, <1>5
<1> QED
  BY <1>3, <1>4, <1>6

\* A function that starts somewhere and goes on by a number of steps.
GoesBy(f, base, step, N) == f[0] = base /\ \A n \in 1..N : f[n] = step[n][f[n - 1]]

\* What is defined step by step is defined.
LEMMA StepByStep ==
  ASSUME NEW S, NEW base \in S, NEW N \in Nat, NEW step \in [1..N -> [S -> S]]
  PROVE  \E f \in [0..N -> S] : GoesBy(f, base, step, N)
<1> DEFINE Upto(k, f) == f[0] = base /\ \A n \in 1..k : f[n] = step[n][f[n - 1]]
           T == {k \in 0..N : \E f \in [0..k -> S] : Upto(k, f)}
<1>1. 0 \in T
  <2> DEFINE g == [i \in 0..0 |-> base]
  <2>1. g \in [0..0 -> S] /\ Upto(0, g)
    OBVIOUS
  <2>2. 0 \in 0..N
    OBVIOUS
  <2> HIDE DEF Upto, g
  <2> QED
    BY <2>1, <2>2
<1>2. ASSUME NEW k \in 0..N, k # N, k \in T
      PROVE  k + 1 \in T
  <2>1. PICK f \in [0..k -> S] : Upto(k, f)
    BY <1>2
  <2> DEFINE g == [i \in 0..(k + 1) |-> IF i = k + 1 THEN step[k + 1][f[k]] ELSE f[i]]
  <2>2. k + 1 \in 1..N /\ step[k + 1][f[k]] \in S
    BY <1>2
  <2>3. g \in [0..(k + 1) -> S]
    BY <2>2
  <2>4. g[0] = base /\ g[k + 1] = step[k + 1][g[k]]
    BY <2>1
  <2>5. ASSUME NEW n \in 1..k PROVE g[n] = step[n][g[n - 1]]
    BY <2>1
  <2>6. Upto(k + 1, g)
    <3>1. \A n \in 1..(k + 1) : n = k + 1 \/ n \in 1..k
      OBVIOUS
    <3>2. (k + 1) - 1 = k
      OBVIOUS
    <3> HIDE DEF g
    <3>3. ASSUME NEW n \in 1..(k + 1) PROVE g[n] = step[n][g[n - 1]]
      BY <2>4, <2>5, <3>1, <3>2
    <3> QED
      BY <2>4, <3>3
  <2> HIDE DEF Upto, g
  <2> QED
    BY <2>2, <2>3, <2>6
<1>3. N \in T
  <2>1. \A n \in 0..N : n # N /\ n \in T => n + 1 \in T
    <3> HIDE DEF T
    <3> QED
      BY <1>2
  <2> HIDE DEF T
  <2>2. 0..N \subseteq T
    BY <1>1, <2>1, UpFromZero
  <2> QED
    BY <2>2
<1> QED
  BY <1>3 DEF GoesBy

-----------------------------------------------------------------------------
(* Only *)

\* How far the list has been chosen from, element by element.
Chosen(f, s, A) ==
  /\ f[0] = <<>>
  /\ \A n \in 1..Len(s) : f[n] = IF s[n] \in A THEN Append(f[n - 1], s[n]) ELSE f[n - 1]

\* The list is chosen from element by element.
LEMMA OnlyStepByStep ==
  ASSUME NEW S, NEW s \in Seq(S), NEW A
  PROVE  \E f \in [0..Len(s) -> Seq(S)] : Chosen(f, s, A) /\ Only(s, A) = f[Len(s)]
<1> DEFINE L == Len(s)
           Body(f) == [n \in 0..L |->
                         IF n = 0 THEN <<>>
                         ELSE IF s[n] \in A THEN Append(f[n - 1], s[n]) ELSE f[n - 1]]
           step == [n \in 1..L |-> [r \in Seq(S) |-> IF s[n] \in A THEN Append(r, s[n]) ELSE r]]
           upTo == CHOOSE f : f = Body(f)
<1>1. L \in Nat /\ \A n \in 1..L : s[n] \in S
  BY LenProperties, ElementOfSeq
<1>2. step \in [1..L -> [Seq(S) -> Seq(S)]]
  BY <1>1, AppendProperties
<1>3. PICK f \in [0..L -> Seq(S)] : f[0] = <<>> /\ \A n \in 1..L : f[n] = step[n][f[n - 1]]
  <2>1. <<>> \in Seq(S)
    BY EmptySeq
  <2>2. \E f \in [0..L -> Seq(S)] : GoesBy(f, <<>>, step, L)
    <3> HIDE DEF step, L
    <3> QED
      BY <1>1, <1>2, <2>1, StepByStep
  <2> QED
    BY <2>2 DEF GoesBy
<1>4. f = Body(f)
  <2>1. ASSUME NEW n \in 0..L
        PROVE  f[n] = Body(f)[n]
    <3>1. CASE n = 0
      BY <3>1, <1>3
    <3>2. CASE n # 0
      <4>1. n \in 1..L /\ n - 1 \in 0..L
        BY <1>1, <3>2
      <4>2. f[n - 1] \in Seq(S)
        BY <4>1
      <4> QED
        BY <1>3, <4>1, <4>2, <3>2
    <3> QED
      BY <3>1, <3>2
  <2> HIDE DEF step
  <2> QED
    BY <2>1
<1>5. upTo = Body(upTo)
  <2> HIDE DEF Body
  <2> QED
    BY <1>4
<1>6. Only(s, A) = upTo[L]
  BY DEF Only
<1> HIDE DEF upTo
<1>7. upTo[0] = <<>>
  BY <1>1, <1>5
<1>8. ASSUME NEW n \in 1..L
      PROVE  upTo[n] = IF s[n] \in A THEN Append(upTo[n - 1], s[n]) ELSE upTo[n - 1]
  <2>1. n \in 0..L /\ n # 0
    BY <1>1
  <2>2. upTo[n] = Body(upTo)[n]
    BY <1>5, Zenon
  <2> QED
    BY <2>1, <2>2
<1>9. upTo \in [0..L -> Seq(S)]
  <2> DEFINE T == {n \in 0..L : upTo[n] \in Seq(S)}
  <2>1. 0 \in T
    <3>1. upTo[0] \in Seq(S)
      BY <1>7, EmptySeq
    <3> QED
      BY <1>1, <3>1
  <2>2. ASSUME NEW n \in 0..L, n # L, n \in T PROVE n + 1 \in T
    <3>1. n + 1 \in 1..L /\ (n + 1) - 1 = n /\ upTo[n] \in Seq(S)
      BY <1>1, <2>2
    <3>2. upTo[n + 1] = IF s[n + 1] \in A THEN Append(upTo[n], s[n + 1]) ELSE upTo[n]
      BY <1>8, <3>1
    <3>3. upTo[n + 1] \in Seq(S)
      BY <1>1, <3>1, <3>2, AppendProperties
    <3> QED
      BY <3>1, <3>3
  <2>3. 0..L \subseteq T
    <3> HIDE DEF T, L
    <3> QED
      BY <1>1, <2>1, <2>2, UpFromZero
  <2>4. DOMAIN upTo = 0..L
    BY <1>5
  <2>5. upTo = [n \in 0..L |-> upTo[n]]
    BY <1>5
  <2> QED
    BY <2>3, <2>5
<1> QED
  BY <1>6, <1>7, <1>8, <1>9 DEF Chosen

\* Of a list that is longer by one the last element is chosen last.
LEMMA OnlyOfAppend ==
  ASSUME NEW S, NEW s \in Seq(S), NEW e \in S, NEW A
  PROVE  Only(Append(s, e), A) = IF e \in A THEN Append(Only(s, A), e) ELSE Only(s, A)
<1> DEFINE t == Append(s, e)
           L == Len(s)
<1>1. /\ t \in Seq(S) /\ L \in Nat /\ Len(t) = L + 1 /\ t[L + 1] = e
      /\ \A i \in 1..L : t[i] = s[i]
  BY AppendProperties, LenProperties
<1>2. PICK f \in [0..L -> Seq(S)] : Chosen(f, s, A) /\ Only(s, A) = f[L]
  BY OnlyStepByStep
<1>3. PICK g \in [0..(L + 1) -> Seq(S)] : Chosen(g, t, A) /\ Only(t, A) = g[L + 1]
  <2> HIDE DEF t
  <2>1. PICK g \in [0..Len(t) -> Seq(S)] : Chosen(g, t, A) /\ Only(t, A) = g[Len(t)]
    BY <1>1, OnlyStepByStep
  <2> QED
    BY <1>1, <2>1
<1>a. /\ f[0] = <<>> /\ g[0] = <<>>
      /\ \A n \in 1..L : f[n] = IF s[n] \in A THEN Append(f[n - 1], s[n]) ELSE f[n - 1]
      /\ \A n \in 1..(L + 1) : g[n] = IF t[n] \in A THEN Append(g[n - 1], t[n]) ELSE g[n - 1]
  BY <1>1, <1>2, <1>3 DEF Chosen
<1> HIDE DEF t, L
<1>4. g[L] = f[L]
  <2> DEFINE T == {n \in 0..L : g[n] = f[n]}
  <2>1. 0 \in T
    BY <1>1, <1>a
  <2>2. ASSUME NEW n \in 0..L, n # L, n \in T PROVE n + 1 \in T
    <3>1. /\ n + 1 \in 0..L /\ n + 1 \in 1..L /\ n + 1 \in 1..(L + 1)
          /\ (n + 1) - 1 = n /\ g[n] = f[n]
      BY <1>1, <2>2
    <3>2. g[n + 1] = f[n + 1]
      BY <1>1, <1>a, <3>1
    <3> QED
      BY <3>1, <3>2
  <2>3. 0..L \subseteq T
    <3> HIDE DEF T
    <3> QED
      BY <1>1, <2>1, <2>2, UpFromZero
  <2>4. L \in 0..L
    BY <1>1
  <2> QED
    BY <2>3, <2>4
<1>5. L + 1 \in 1..(L + 1) /\ (L + 1) - 1 = L
  BY <1>1
<1>6. g[L + 1] = IF e \in A THEN Append(g[L], e) ELSE g[L]
  BY <1>1, <1>a, <1>5
<1> QED
  BY <1>2, <1>3, <1>4, <1>6 DEF t

\* Of nothing nothing is chosen.
LEMMA OnlyOfEmpty ==
  ASSUME NEW A
  PROVE  Only(<<>>, A) = <<>>
<1>1. <<>> \in Seq({}) /\ Len(<<>>) = 0
  BY EmptySeq
<1>2. PICK f \in [0..Len(<<>>) -> Seq({})] : Chosen(f, <<>>, A) /\ Only(<<>>, A) = f[Len(<<>>)]
  BY <1>1, OnlyStepByStep
<1> QED
  BY <1>1, <1>2 DEF Chosen

\* What is chosen is a list of the same kind.
LEMMA OnlyType ==
  ASSUME NEW S, NEW s \in Seq(S), NEW A
  PROVE  Only(s, A) \in Seq(S)
<1>1. PICK f \in [0..Len(s) -> Seq(S)] : Only(s, A) = f[Len(s)]
  BY OnlyStepByStep
<1>2. Len(s) \in 0..Len(s)
  BY LenProperties
<1> QED
  BY <1>1, <1>2

\* The elements of a list that is longer by one.
LEMMA RangeOfAppend ==
  ASSUME NEW S, NEW s \in Seq(S), NEW e \in S
  PROVE  Range(Append(s, e)) = Range(s) \cup {e}
<1>1. /\ Append(s, e) \in Seq(S) /\ Len(s) \in Nat /\ Len(Append(s, e)) = Len(s) + 1
      /\ \A i \in 1..Len(s) : Append(s, e)[i] = s[i]
      /\ Append(s, e)[Len(s) + 1] = e
  BY AppendProperties, LenProperties
<1>2. /\ Range(Append(s, e)) = {Append(s, e)[i] : i \in 1..(Len(s) + 1)}
      /\ Range(s) = {s[i] : i \in 1..Len(s)}
  BY <1>1, RangeEquality
<1>3. \A i \in 1..(Len(s) + 1) : i = Len(s) + 1 \/ i \in 1..Len(s)
  BY <1>1
<1>4. Len(s) + 1 \in 1..(Len(s) + 1) /\ \A i \in 1..Len(s) : i \in 1..(Len(s) + 1)
  BY <1>1
<1>5. ASSUME NEW x \in Range(Append(s, e)) PROVE x \in Range(s) \cup {e}
  BY <1>1, <1>2, <1>3
<1>6. ASSUME NEW x \in Range(s) \cup {e} PROVE x \in Range(Append(s, e))
  BY <1>1, <1>2, <1>4
<1> QED
  BY <1>5, <1>6

\* The empty list is the one without elements.
LEMMA RangeOfEmpty ==
  /\ Range(<<>>) = {}
  /\ \A S : \A s \in Seq(S) : Range(s) = {} => s = <<>>
<1>1. Range(<<>>) = {}
  BY DEF Range
<1>2. ASSUME NEW S, NEW s \in Seq(S), s # <<>>
      PROVE  Range(s) # {}
  <2>1. PICK t \in Seq(S), e \in S : s = Append(t, e)
    BY <1>2, SequenceEmptyOrAppend
  <2>2. Range(s) = Range(t) \cup {e}
    BY <2>1, RangeOfAppend
  <2> QED
    BY <2>2, Zenon
<1> QED
  BY <1>1, <1>2

\* Exactly the elements that are wanted are chosen.
LEMMA RangeOfOnly ==
  ASSUME NEW S, NEW s \in Seq(S), NEW A
  PROVE  Range(Only(s, A)) = Range(s) \cap A
<1> DEFINE T == {t \in Seq(S) : Range(Only(t, A)) = Range(t) \cap A}
<1>1. <<>> \in T
  BY OnlyOfEmpty, RangeOfEmpty, EmptySeq
<1>2. ASSUME NEW t \in Seq(S), NEW e \in S, t \in T
      PROVE  Append(t, e) \in T
  <2>1. Append(t, e) \in Seq(S) /\ Range(Append(t, e)) = Range(t) \cup {e}
    BY AppendProperties, RangeOfAppend
  <2>2. Only(t, A) \in Seq(S) /\ Range(Append(Only(t, A), e)) = Range(Only(t, A)) \cup {e}
    BY OnlyType, RangeOfAppend
  <2>3. Only(Append(t, e), A) = IF e \in A THEN Append(Only(t, A), e) ELSE Only(t, A)
    BY OnlyOfAppend
  <2> QED
    BY <1>2, <2>1, <2>2, <2>3
<1> HIDE DEF T
<1>3. Seq(S) \subseteq T
  BY <1>1, <1>2, ByAppending
<1> QED
  BY <1>3 DEF T

\* Where everything is wanted everything is chosen.
LEMMA OnlyOfAll ==
  ASSUME NEW S, NEW s \in Seq(S), NEW A, Range(s) \subseteq A
  PROVE  Only(s, A) = s
<1> DEFINE T == {t \in Seq(S) : Range(t) \subseteq A => Only(t, A) = t}
<1>1. <<>> \in T
  BY OnlyOfEmpty, EmptySeq
<1>2. ASSUME NEW t \in Seq(S), NEW e \in S, t \in T
      PROVE  Append(t, e) \in T
  <2>1. Append(t, e) \in Seq(S) /\ Range(Append(t, e)) = Range(t) \cup {e}
    BY AppendProperties, RangeOfAppend
  <2>2. Only(Append(t, e), A) = IF e \in A THEN Append(Only(t, A), e) ELSE Only(t, A)
    BY OnlyOfAppend
  <2> QED
    BY <1>2, <2>1, <2>2
<1> HIDE DEF T
<1>3. Seq(S) \subseteq T
  BY <1>1, <1>2, ByAppending
<1> QED
  BY <1>3 DEF T

\* Choosing twice is choosing what is wanted both times.
LEMMA OnlyOfOnly ==
  ASSUME NEW S, NEW s \in Seq(S), NEW A, NEW B
  PROVE  Only(Only(s, A), B) = Only(s, A \cap B)
<1> DEFINE T == {t \in Seq(S) : Only(Only(t, A), B) = Only(t, A \cap B)}
<1>1. <<>> \in T
  BY OnlyOfEmpty, EmptySeq
<1>2. ASSUME NEW t \in Seq(S), NEW e \in S, t \in T
      PROVE  Append(t, e) \in T
  <2>1. Append(t, e) \in Seq(S)
    BY AppendProperties
  <2>2. /\ Only(Append(t, e), A) = IF e \in A THEN Append(Only(t, A), e) ELSE Only(t, A)
        /\ Only(Append(t, e), A \cap B) =
             IF e \in A \cap B THEN Append(Only(t, A \cap B), e) ELSE Only(t, A \cap B)
    BY OnlyOfAppend
  <2>3. Only(t, A) \in Seq(S)
    BY OnlyType
  <2>4. Only(Append(Only(t, A), e), B) =
          IF e \in B THEN Append(Only(Only(t, A), B), e) ELSE Only(Only(t, A), B)
    BY <2>3, OnlyOfAppend
  <2>5. Only(Only(t, A), B) = Only(t, A \cap B)
    BY <1>2
  <2>6. Only(Only(Append(t, e), A), B) = Only(Append(t, e), A \cap B)
    <3>1. CASE e \in A /\ e \in B
      <4>1. e \in A \cap B
        BY <3>1
      <4> QED
        BY <3>1, <4>1, <2>2, <2>4, <2>5
    <3>2. CASE e \in A /\ e \notin B
      <4>1. e \notin A \cap B
        BY <3>2
      <4> QED
        BY <3>2, <4>1, <2>2, <2>4, <2>5
    <3>3. CASE e \notin A
      <4>1. e \notin A \cap B
        BY <3>3
      <4> QED
        BY <3>3, <4>1, <2>2, <2>5
    <3> QED
      BY <3>1, <3>2, <3>3
  <2> QED
    BY <2>1, <2>6
<1> HIDE DEF T
<1>3. Seq(S) \subseteq T
  BY <1>1, <1>2, ByAppending
<1> QED
  BY <1>3 DEF T

\* What is chosen of two lists one after the other.
LEMMA OnlyOfConcat ==
  ASSUME NEW S, NEW r \in Seq(S), NEW s \in Seq(S), NEW A
  PROVE  Only(r \o s, A) = Only(r, A) \o Only(s, A)
<1> DEFINE T == {t \in Seq(S) : Only(r \o t, A) = Only(r, A) \o Only(t, A)}
<1>1. <<>> \in T
  <2>1. r \o <<>> = r /\ Only(r, A) \o <<>> = Only(r, A)
    BY OnlyType, ConcatEmptySeq
  <2> QED
    BY <2>1, OnlyOfEmpty, EmptySeq
<1>2. ASSUME NEW t \in Seq(S), NEW e \in S, t \in T
      PROVE  Append(t, e) \in T
  <2>1. Append(t, e) \in Seq(S) /\ r \o t \in Seq(S)
    BY AppendProperties, ConcatProperties
  <2>2. \A u, v \in Seq(S) : u \o Append(v, e) = Append(u \o v, e)
    <3>1. ASSUME NEW u \in Seq(S), NEW v \in Seq(S)
          PROVE  u \o Append(v, e) = Append(u \o v, e)
      <4>1. <<e>> \in Seq(S) /\ u \o v \in Seq(S)
        BY ConcatProperties
      <4>2. Append(v, e) = v \o <<e>> /\ Append(u \o v, e) = (u \o v) \o <<e>>
        BY <4>1, AppendIsConcat
      <4> QED
        BY <4>1, <4>2, ConcatAssociative
    <3> QED
      BY <3>1
  <2>3. /\ Only(Append(r \o t, e), A) =
             IF e \in A THEN Append(Only(r \o t, A), e) ELSE Only(r \o t, A)
        /\ Only(Append(t, e), A) = IF e \in A THEN Append(Only(t, A), e) ELSE Only(t, A)
    BY <2>1, OnlyOfAppend
  <2>4. Only(r, A) \in Seq(S) /\ Only(t, A) \in Seq(S)
    BY OnlyType
  <2>5. Only(Append(r \o t, e), A) = Only(r, A) \o Only(Append(t, e), A)
    BY <1>2, <2>2, <2>3, <2>4
  <2>6. r \o Append(t, e) = Append(r \o t, e)
    BY <2>2
  <2> QED
    BY <2>1, <2>5, <2>6
<1> HIDE DEF T
<1>3. Seq(S) \subseteq T
  BY <1>1, <1>2, ByAppending
<1> QED
  BY <1>3 DEF T

-----------------------------------------------------------------------------
(* Lists of lists, and lists of sets *)

\* Lists one after the other are a list.
LEMMA FlattenType ==
  ASSUME NEW S, NEW lists \in Seq(Seq(S))
  PROVE  FlattenSeq(lists) \in Seq(S)
<1> DEFINE L == Len(lists)
           Body(f) == [i \in 1..L |-> IF i = 1 THEN lists[i] ELSE f[i - 1] \o lists[i]]
           step == [i \in 1..L |-> [r \in Seq(S) |-> r \o lists[i]]]
           flatten == CHOOSE f : f = Body(f)
<1>1. L \in Nat /\ \A i \in 1..L : lists[i] \in Seq(S)
  BY LenProperties, ElementOfSeq
<1>2. CASE L = 0
  <2>1. lists = <<>>
    BY <1>2, EmptySeq
  <2> QED
    BY <2>1, EmptySeq DEF FlattenSeq
<1>3. CASE L # 0
  <2>1. step \in [1..L -> [Seq(S) -> Seq(S)]]
    BY <1>1, ConcatProperties
  <2>2. PICK f \in [0..L -> Seq(S)] : GoesBy(f, <<>>, step, L)
    <3>1. <<>> \in Seq(S)
      BY EmptySeq
    <3> HIDE DEF step, L
    <3> QED
      BY <1>1, <2>1, <3>1, StepByStep
  <2> DEFINE g == [i \in 1..L |-> f[i]]
  <2>3. ASSUME NEW i \in 1..L
        PROVE  f[i] = IF i = 1 THEN lists[i] ELSE f[i - 1] \o lists[i]
    <3>1. i - 1 \in 0..L /\ f[i - 1] \in Seq(S)
      <4> HIDE DEF L
      <4>1. i - 1 \in 0..L
        BY <1>1
      <4> QED
        BY <4>1
    <3>2. f[i] = f[i - 1] \o lists[i]
      BY <2>2, <3>1 DEF GoesBy
    <3>3. CASE i = 1
      <4>1. f[i - 1] = <<>>
        BY <2>2, <3>3 DEF GoesBy
      <4>2. <<>> \o lists[i] = lists[i]
        BY <1>1, ConcatEmptySeq
      <4> QED
        BY <3>2, <3>3, <4>1, <4>2
    <3> QED
      BY <3>2, <3>3
  <2>4. g = Body(g)
    <3>1. ASSUME NEW i \in 1..L
          PROVE  g[i] = IF i = 1 THEN lists[i] ELSE g[i - 1] \o lists[i]
      <4>1. i # 1 => i - 1 \in 1..L
        BY <1>1
      <4> QED
        BY <2>3, <4>1
    <3> HIDE DEF L
    <3> QED
      BY <2>3, <3>1
  <2>5. flatten = Body(flatten)
    <3> HIDE DEF Body, g
    <3> QED
      BY <2>4
  <2>6. FlattenSeq(lists) = flatten[L]
    BY <1>3 DEF FlattenSeq
  <2> HIDE DEF flatten
  <2>7. ASSUME NEW i \in 1..L
        PROVE  flatten[i] = IF i = 1 THEN lists[i] ELSE flatten[i - 1] \o lists[i]
    <3>1. flatten[i] = Body(flatten)[i]
      BY <2>5, Zenon
    <3> QED
      BY <3>1
  <2> DEFINE T == {n \in 0..L : n # 0 => flatten[n] \in Seq(S)}
  <2>8. 0 \in T
    BY <1>1
  <2>9. ASSUME NEW n \in 0..L, n # L, n \in T PROVE n + 1 \in T
    <3>1. n + 1 \in 1..L /\ (n + 1) - 1 = n /\ lists[n + 1] \in Seq(S)
      BY <1>1, <2>9
    <3>2. flatten[n + 1] = IF n + 1 = 1 THEN lists[n + 1] ELSE flatten[n] \o lists[n + 1]
      BY <2>7, <3>1
    <3>3. CASE n = 0
      BY <3>1, <3>2, <3>3
    <3>4. CASE n # 0
      <4>1. flatten[n] \in Seq(S) /\ n + 1 # 1
        BY <2>9, <3>4
      <4>2. flatten[n + 1] \in Seq(S)
        BY <3>1, <3>2, <4>1, ConcatProperties
      <4> QED
        BY <3>1, <4>2
    <3> QED
      BY <3>3, <3>4
  <2>10. 0..L \subseteq T
    <3> HIDE DEF T, L
    <3> QED
      BY <1>1, <2>8, <2>9, UpFromZero
  <2>11. L \in T
    <3> HIDE DEF T
    <3> QED
      BY <1>1, <2>10
  <2> QED
    BY <1>3, <2>6, <2>11
<1> QED
  BY <1>2, <1>3

\* A finite set is listed with each of its elements, and each only once.
LEMMA SetAsList ==
  ASSUME NEW S, IsFiniteSet(S)
  PROVE  SetToSeq(S) \in Seq(S) /\ Range(SetToSeq(S)) = S /\ IsInjective(SetToSeq(S))
<1> DEFINE n == Cardinality(S)
           f == SetToSeq(S)
<1>1. n \in Nat /\ ExistsBijection(1..n, S)
  BY FS_CardinalityType
<1>2. \E g \in [1..n -> S] : IsInjective(g)
  BY <1>1 DEF ExistsBijection, Bijection, Injection
<1>3. f \in [1..n -> S] /\ IsInjective(f)
  BY <1>2 DEF SetToSeq
<1> HIDE DEF f
<1>4. f \in Surjection(1..n, S)
  <2>1. IsFiniteSet(1..n) /\ Cardinality(1..n) = n
    BY <1>1, FS_Interval
  <2>2. f \in Injection(1..n, S)
    BY <1>3 DEF Injection
  <2> QED
    BY <2>1, <2>2, FS_Injection
<1>5. Range(f) = S
  BY <1>3, <1>4 DEF Surjection, Range
<1>6. f \in Seq(S)
  BY <1>1, <1>3, SeqDef
<1> QED
  BY <1>3, <1>5, <1>6 DEF f

\* The image of a list is finite.
LEMMA RangeIsFinite ==
  ASSUME NEW S, NEW s \in Seq(S)
  PROVE  IsFiniteSet(Range(s))
<1>1. Len(s) \in Nat /\ s \in [1..Len(s) -> S] /\ DOMAIN s = 1..Len(s)
  BY LenProperties
<1>2. s \in Surjection(1..Len(s), Range(s))
  BY <1>1 DEF Surjection, Range
<1>3. IsFiniteSet(1..Len(s))
  BY <1>1, FS_Interval
<1> QED
  BY <1>2, <1>3, FS_Surjection

\* What is chosen by the wider of two tests is no shorter.
LEMMA WiderIsLonger ==
  ASSUME NEW S, NEW A, NEW B, A \subseteq B
  PROVE  \A s \in Seq(S) : Len(Only(s, A)) <= Len(Only(s, B))
<1> DEFINE T == {s \in Seq(S) : Len(Only(s, A)) <= Len(Only(s, B))}
<1>1. <<>> \in T
  BY OnlyOfEmpty, EmptySeq
<1>2. ASSUME NEW t \in Seq(S), NEW e \in S, t \in T PROVE Append(t, e) \in T
  <2>1. /\ Only(t, A) \in Seq(S) /\ Len(Only(t, A)) \in Nat
        /\ Only(t, B) \in Seq(S) /\ Len(Only(t, B)) \in Nat
    BY OnlyType, LenProperties
  <2>2. /\ Len(Append(Only(t, A), e)) = Len(Only(t, A)) + 1
        /\ Len(Append(Only(t, B), e)) = Len(Only(t, B)) + 1
    BY <2>1, AppendProperties
  <2>3. /\ Only(Append(t, e), A) = IF e \in A THEN Append(Only(t, A), e) ELSE Only(t, A)
        /\ Only(Append(t, e), B) = IF e \in B THEN Append(Only(t, B), e) ELSE Only(t, B)
    BY OnlyOfAppend
  <2>4. Append(t, e) \in Seq(S)
    BY AppendProperties
  <2> QED BY <1>2, <2>1, <2>2, <2>3, <2>4
<1> HIDE DEF T
<1>3. Seq(S) \subseteq T
  BY <1>1, <1>2, ByAppending
<1> QED BY <1>3 DEF T

\* What is chosen of a list of one.
LEMMA OnlyOfOne ==
  ASSUME NEW e, NEW A
  PROVE  Only(<<e>>, A) = IF e \in A THEN <<e>> ELSE <<>>
<1> DEFINE nil == <<>>
           S == {e}
<1>1. nil \in Seq(S) /\ e \in S /\ Append(nil, e) = <<e>> /\ Only(nil, A) = nil
  BY EmptySeq, OnlyOfEmpty
<1> HIDE DEF nil, S
<1>2. Only(Append(nil, e), A) = IF e \in A THEN Append(Only(nil, A), e) ELSE Only(nil, A)
  BY <1>1, OnlyOfAppend
<1>3. Only(<<e>>, A) = IF e \in A THEN <<e>> ELSE nil
  BY <1>1, <1>2, Zenon
<1> QED BY <1>3 DEF nil

\* The k-th of the chosen stands somewhere in the list, with k - 1 of them
\* before it.
LEMMA PlaceOfChosen ==
  ASSUME NEW S, NEW A
  PROVE  \A s \in Seq(S) : \A k \in 1..Len(Only(s, A)) :
           \E n \in 1..Len(s) : s[n] \in A /\ Len(Only(SubSeq(s, 1, n), A)) = k
<1> DEFINE Place(s, k, n) == s[n] \in A /\ Len(Only(SubSeq(s, 1, n), A)) = k
           T == {s \in Seq(S) : \A k \in 1..Len(Only(s, A)) : \E n \in 1..Len(s) : Place(s, k, n)}
<1>1. <<>> \in T
  <2>1. <<>> \in Seq(S) /\ Len(Only(<<>>, A)) = 0
    BY OnlyOfEmpty, EmptySeq
  <2> QED BY <2>1
<1>2. ASSUME NEW t \in Seq(S), NEW e \in S, t \in T PROVE Append(t, e) \in T
  <2> DEFINE u == Append(t, e)
  <2>1. /\ u \in Seq(S) /\ Len(u) = Len(t) + 1 /\ Len(t) \in Nat /\ u[Len(t) + 1] = e
        /\ \A i \in 1..Len(t) : u[i] = t[i]
    BY AppendProperties, LenProperties
  <2>2. /\ Only(t, A) \in Seq(S) /\ Len(Only(t, A)) \in Nat
        /\ Only(u, A) = IF e \in A THEN Append(Only(t, A), e) ELSE Only(t, A)
        /\ Len(Append(Only(t, A), e)) = Len(Only(t, A)) + 1
    BY OnlyType, OnlyOfAppend, LenProperties, AppendProperties
  <2>3. \A n \in 1..Len(t) : SubSeq(u, 1, n) = SubSeq(t, 1, n)
    <3> SUFFICES ASSUME NEW n \in 1..Len(t) PROVE SubSeq(u, 1, n) = SubSeq(t, 1, n)
      OBVIOUS
    <3> HIDE DEF u
    <3>1. \A i \in 1..n : u[i] \in S /\ t[i] \in S /\ u[i] = t[i]
      BY <2>1, ElementOfSeq
    <3>2. /\ SubSeq(u, 1, n) \in Seq(S) /\ Len(SubSeq(u, 1, n)) = n
          /\ \A i \in 1..n : SubSeq(u, 1, n)[i] = u[i]
      BY <2>1, <3>1, SubSeqProperties
    <3>3. /\ SubSeq(t, 1, n) \in Seq(S) /\ Len(SubSeq(t, 1, n)) = n
          /\ \A i \in 1..n : SubSeq(t, 1, n)[i] = t[i]
      BY <2>1, <3>1, SubSeqProperties
    <3> QED BY <3>1, <3>2, <3>3, SeqEqual
  <2>4. SubSeq(u, 1, Len(u)) = u
    BY <2>1, SubSeqFull
  <2> HIDE DEF u
  <2>5. ASSUME NEW k \in 1..Len(Only(u, A)) PROVE \E n \in 1..Len(u) : Place(u, k, n)
    <3>1. CASE k \in 1..Len(Only(t, A))
      <4>1. PICK n \in 1..Len(t) : Place(t, k, n)
        BY <1>2, <3>1
      <4>2. n \in 1..Len(u)
        BY <2>1
      <4>3. Place(u, k, n)
        BY <2>1, <2>3, <4>1, Zenon
      <4> QED BY <4>2, <4>3
    <3>2. CASE k \notin 1..Len(Only(t, A))
      <4>1. e \in A /\ k = Len(Only(t, A)) + 1
        BY <2>2, <3>2
      <4>2. Len(u) \in 1..Len(u) /\ u[Len(u)] \in A
        BY <2>1, <4>1
      <4>3. Len(Only(u, A)) = k
        BY <2>2, <4>1
      <4>4. Place(u, k, Len(u))
        BY <2>4, <4>2, <4>3, Zenon
      <4> QED BY <4>2, <4>4
    <3> QED BY <3>1, <3>2
  <2> QED BY <2>1, <2>5 DEF u
<1> HIDE DEF T
<1>3. Seq(S) \subseteq T
  BY <1>1, <1>2, ByAppending
<1> QED BY <1>3 DEF T

-----------------------------------------------------------------------------
(* One place of a list *)

\* A list is what is before a place, what is there, and what is after.
LEMMA CutAt ==
  ASSUME NEW S, NEW s \in Seq(S), NEW n \in 1..Len(s)
  PROVE  LET before == SubSeq(s, 1, n - 1)
             after == SubSeq(s, n + 1, Len(s))
         IN  /\ before \in Seq(S) /\ Len(before) = n - 1 /\ after \in Seq(S)
             /\ s = (before \o <<s[n]>>) \o after
             /\ RemoveAt(s, n) = before \o after
<1> DEFINE before == SubSeq(s, 1, n - 1)
           after == SubSeq(s, n + 1, Len(s))
<1>1. Len(s) \in Nat /\ \A i \in 1..Len(s) : s[i] \in S
  BY LenProperties, ElementOfSeq
<1>2. before \in Seq(S) /\ Len(before) = n - 1
  <2>1. \A i \in 1..(n - 1) : s[i] \in S
    BY <1>1
  <2>2. n - 1 \in Int /\ (n - 1 = 0 \/ 1 <= n - 1)
    BY <1>1
  <2>3. before \in Seq(S) /\ Len(before) = IF 1 <= n - 1 THEN (n - 1) - 1 + 1 ELSE 0
    BY <2>1, <2>2, SubSeqProperties
  <2> QED BY <2>2, <2>3
<1>3. after \in Seq(S)
  <2>1. \A i \in (n + 1)..Len(s) : s[i] \in S
    BY <1>1
  <2> QED BY <1>1, <2>1, SubSeqProperties
<1>4. SubSeq(s, 1, n) = before \o <<s[n]>>
  BY <1>1, SubSeqRecursiveSecond
<1>5. SubSeq(s, 1, n) \o after = SubSeq(s, 1, Len(s))
  BY <1>1, ConcatAdjacentSubSeq
<1>6. SubSeq(s, 1, Len(s)) = s
  BY SubSeqFull
<1>7. RemoveAt(s, n) = before \o after
  BY DEF RemoveAt
<1> HIDE DEF before, after
<1> QED BY <1>2, <1>3, <1>4, <1>5, <1>6, <1>7 DEF before, after

\* What changes at one place changes nothing before it or after.
LEMMA ChangedAt ==
  ASSUME NEW S, NEW s \in Seq(S), NEW n \in 1..Len(s), NEW e \in S
  PROVE  /\ [s EXCEPT ![n] = e] \in Seq(S)
         /\ [s EXCEPT ![n] = e] = (SubSeq(s, 1, n - 1) \o <<e>>) \o SubSeq(s, n + 1, Len(s))
<1> DEFINE t == [s EXCEPT ![n] = e]
<1>1. Len(s) \in Nat /\ \A i \in 1..Len(s) : s[i] \in S
  BY LenProperties, ElementOfSeq
<1>2. /\ t \in Seq(S) /\ Len(t) = Len(s)
      /\ \A j \in 1..Len(s) : t[j] = IF j = n THEN e ELSE s[j]
  BY ExceptSeq
<1> HIDE DEF t
<1>3. ASSUME NEW a \in Int, NEW b \in Int, \A i \in a..b : i \in 1..Len(s) /\ i # n
      PROVE  SubSeq(t, a, b) = SubSeq(s, a, b)
  <2>1. \A i \in a..b : s[i] \in S /\ t[i] \in S /\ t[i] = s[i]
    BY <1>1, <1>2, <1>3
  <2>2. /\ SubSeq(s, a, b) \in Seq(S) /\ Len(SubSeq(s, a, b)) = IF a <= b THEN b - a + 1 ELSE 0
        /\ \A i \in 1..(b - a + 1) : SubSeq(s, a, b)[i] = s[a + i - 1]
    BY <2>1, SubSeqProperties
  <2>3. /\ SubSeq(t, a, b) \in Seq(S) /\ Len(SubSeq(t, a, b)) = IF a <= b THEN b - a + 1 ELSE 0
        /\ \A i \in 1..(b - a + 1) : SubSeq(t, a, b)[i] = t[a + i - 1]
    BY <2>1, SubSeqProperties
  <2>4. \A i \in 1..Len(SubSeq(s, a, b)) : i \in 1..(b - a + 1) /\ a + i - 1 \in a..b
    BY <2>2
  <2>5. \A i \in 1..Len(SubSeq(s, a, b)) : SubSeq(t, a, b)[i] = SubSeq(s, a, b)[i]
    BY <2>1, <2>2, <2>3, <2>4
  <2>6. Len(SubSeq(t, a, b)) = Len(SubSeq(s, a, b))
    BY <2>2, <2>3
  <2>7. \A i \in 1..Len(SubSeq(t, a, b)) : SubSeq(t, a, b)[i] = SubSeq(s, a, b)[i]
    BY <2>5, <2>6
  <2> QED BY <2>2, <2>3, <2>6, <2>7, SeqEqual
<1>4. SubSeq(t, 1, n - 1) = SubSeq(s, 1, n - 1) /\ SubSeq(t, n + 1, Len(t)) = SubSeq(s, n + 1, Len(s))
  BY <1>1, <1>2, <1>3
<1>5. t[n] = e
  BY <1>2
<1>6. t = (SubSeq(t, 1, n - 1) \o <<t[n]>>) \o SubSeq(t, n + 1, Len(t))
  BY <1>2, CutAt
<1>7. t = (SubSeq(s, 1, n - 1) \o <<e>>) \o SubSeq(s, n + 1, Len(s))
  BY <1>4, <1>5, <1>6
<1> QED BY <1>2, <1>7 DEF t

\* A list put together around a place: what is there, before it and after it.
LEMMA PutTogether ==
  ASSUME NEW S, NEW l \in Seq(S), NEW r \in Seq(S), NEW x \in S
  PROVE  LET s == (l \o <<x>>) \o r
             n == Len(l) + 1
         IN  /\ s \in Seq(S) /\ n \in 1..Len(s) /\ s[n] = x
             /\ SubSeq(s, 1, n - 1) = l /\ SubSeq(s, n + 1, Len(s)) = r
<1> DEFINE m == l \o <<x>>
           s == m \o r
           n == Len(l) + 1
<1>1. /\ <<x>> \in Seq(S) /\ Len(<<x>>) = 1 /\ <<x>>[1] = x /\ Len(l) \in Nat /\ Len(r) \in Nat
  BY LenProperties
<1> DEFINE one == <<x>>
<1>2. one \in Seq(S) /\ Len(one) = 1 /\ one[1] = x
  BY <1>1
<1>3. /\ m \in Seq(S) /\ Len(m) = n /\ m[n] = x /\ \A i \in 1..Len(l) : m[i] = l[i]
  <2> HIDE DEF one
  <2>1. /\ l \o one \in Seq(S) /\ Len(l \o one) = Len(l) + Len(one)
        /\ \A i \in 1..(Len(l) + Len(one)) :
             (l \o one)[i] = IF i <= Len(l) THEN l[i] ELSE one[i - Len(l)]
    BY <1>2, ConcatProperties
  <2>2. n \in 1..(Len(l) + 1) /\ ~ (n <= Len(l)) /\ n - Len(l) = 1
    BY <1>1
  <2>3. (l \o one)[n] = x
    BY <1>2, <2>1, <2>2
  <2>4. \A i \in 1..Len(l) : (l \o one)[i] = l[i]
    <3>1. \A i \in 1..Len(l) : i \in 1..(Len(l) + 1) /\ i <= Len(l)
      BY <1>1
    <3> QED BY <1>2, <2>1, <3>1
  <2>5. m = l \o one
    BY DEF one
  <2> QED BY <1>2, <2>1, <2>3, <2>4, <2>5
<1> HIDE DEF m
<1>4. /\ s \in Seq(S) /\ Len(s) = n + Len(r) /\ s[n] = x
      /\ \A i \in 1..Len(l) : s[i] = l[i]
      /\ \A i \in 1..Len(r) : s[n + i] = r[i]
  <2>1. /\ m \o r \in Seq(S) /\ Len(m \o r) = Len(m) + Len(r)
        /\ \A i \in 1..(Len(m) + Len(r)) :
             (m \o r)[i] = IF i <= Len(m) THEN m[i] ELSE r[i - Len(m)]
    BY <1>3, ConcatProperties
  <2>2. /\ n \in 1..(n + Len(r))
        /\ \A i \in 1..Len(l) : i \in 1..(n + Len(r)) /\ i <= n
        /\ \A i \in 1..Len(r) : n + i \in 1..(n + Len(r)) /\ ~ (n + i <= n) /\ (n + i) - n = i
    BY <1>1
  <2> QED BY <1>3, <2>1, <2>2
<1> HIDE DEF s
<1>5. n \in 1..Len(s)
  BY <1>1, <1>4
<1>6. SubSeq(s, 1, n - 1) = l
  <2>1. n - 1 = Len(l) /\ \A i \in 1..Len(l) : s[i] \in S
    BY <1>1, <1>4, ElementOfSeq
  <2>2. /\ SubSeq(s, 1, Len(l)) \in Seq(S)
        /\ Len(SubSeq(s, 1, Len(l))) = IF 1 <= Len(l) THEN Len(l) - 1 + 1 ELSE 0
        /\ \A i \in 1..(Len(l) - 1 + 1) : SubSeq(s, 1, Len(l))[i] = s[1 + i - 1]
    BY <1>1, <2>1, SubSeqProperties
  <2>3. Len(SubSeq(s, 1, Len(l))) = Len(l) /\ \A i \in 1..Len(l) : SubSeq(s, 1, Len(l))[i] = l[i]
    BY <1>1, <1>4, <2>2
  <2> QED BY <2>1, <2>2, <2>3, SeqEqual
<1>7. SubSeq(s, n + 1, Len(s)) = r
  <2>1. \A i \in (n + 1)..Len(s) : s[i] \in S
    BY <1>1, <1>4, ElementOfSeq
  <2> DEFINE t == SubSeq(s, n + 1, Len(s))
  <2>2. /\ t \in Seq(S) /\ Len(t) = IF n + 1 <= Len(s) THEN Len(s) - (n + 1) + 1 ELSE 0
        /\ \A i \in 1..(Len(s) - (n + 1) + 1) : t[i] = s[n + 1 + i - 1]
    BY <1>1, <1>4, <2>1, SubSeqProperties
  <2> HIDE DEF t
  <2>3. Len(t) = Len(r) /\ \A i \in 1..Len(r) : t[i] = r[i]
    <3>1. /\ Len(s) - (n + 1) + 1 = Len(r) /\ \A i \in 1..Len(r) : n + 1 + i - 1 = n + i
          /\ n + 1 <= Len(s) \/ Len(r) = 0
      BY <1>1, <1>4
    <3>2. Len(t) = Len(r)
      BY <1>1, <1>4, <2>2, <3>1
    <3>3. \A i \in 1..Len(r) : t[i] = s[n + i]
      BY <2>2, <3>1
    <3> QED BY <1>4, <3>2, <3>3
  <2>4. t = r
    BY <2>2, <2>3, SeqEqual
  <2> QED BY <2>4 DEF t
<1> HIDE DEF n
<1>8. s = (l \o <<x>>) \o r
  BY DEF s, m
<1> QED BY <1>4, <1>5, <1>6, <1>7, <1>8 DEF n

-----------------------------------------------------------------------------
(* Numbers *)

\* The greater of two numbers.
LEMMA MaxOfTwo ==
  ASSUME NEW a \in Int, NEW b \in Int
  PROVE  Max({a, b}) = IF a >= b THEN a ELSE b
<1> DEFINE greatest(x) == x \in {a, b} /\ \A y \in {a, b} : x >= y
           m == IF a >= b THEN a ELSE b
<1>1. greatest(m)
  OBVIOUS
<1>2. ASSUME NEW x, greatest(x) PROVE x = m
  BY <1>2
<1>3. Max({a, b}) = CHOOSE x : greatest(x)
  BY DEF Max
<1> HIDE DEF greatest, m
<1>4. greatest(CHOOSE x : greatest(x))
  BY <1>1
<1>5. Max({a, b}) = m
  BY <1>2, <1>3, <1>4
<1> QED BY <1>5 DEF m

\* The lesser of two numbers.
LEMMA MinOfTwo ==
  ASSUME NEW a \in Int, NEW b \in Int
  PROVE  Min({a, b}) = IF a <= b THEN a ELSE b
<1> DEFINE least(x) == x \in {a, b} /\ \A y \in {a, b} : x =< y
           m == IF a <= b THEN a ELSE b
<1>1. least(m)
  OBVIOUS
<1>2. ASSUME NEW x, least(x) PROVE x = m
  BY <1>2
<1>3. Min({a, b}) = CHOOSE x : least(x)
  BY DEF Min
<1> HIDE DEF least, m
<1>4. least(CHOOSE x : least(x))
  BY <1>1
<1>5. Min({a, b}) = m
  BY <1>2, <1>3, <1>4
<1> QED BY <1>5 DEF m

\* A row is a place of the highlight if it is one of the rows there are, or the
\* first.
LEMMA RowFits ==
  ASSUME NEW n \in Nat, NEW row \in Nat, row < n \/ row = 0
  PROVE  row \in 0 .. Max({0, n - 1})
<1>1. Max({0, n - 1}) = IF 0 >= n - 1 THEN 0 ELSE n - 1
  BY MaxOfTwo
<1> QED BY <1>1

\* Moving past either end of a list comes out at the other.
LEMMA RemainderFits ==
  ASSUME NEW n \in Nat, n # 0, NEW x \in Int
  PROVE  x % n \in Nat /\ x % n < n
OBVIOUS
=============================================================================
