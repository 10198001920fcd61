-------------------------- MODULE EvaluatorProofs --------------------------
(***************************************************************************)
(* What `bpe test` answers, for any rules in any order and any paths: the  *)
(* verdict of the pattern that decides among the rules as written, and the *)
(* same whatever their identity templates stand for.                       *)
(***************************************************************************)
EXTENDS Evaluator, SelectionProofs

-----------------------------------------------------------------------------
(* Strings: prefixes and endings *)

\* A string is a prefix of another if it says the same as far as it goes.
LEMMA PrefixByPlaces ==
  ASSUME NEW S, NEW s \in Seq(S), NEW t \in Seq(S)
  PROVE  IsPrefix(s, t) <=> Len(s) <= Len(t) /\ \A i \in 1..Len(s) : s[i] = t[i]
<1>1. Len(s) \in Nat /\ Len(t) \in Nat
  BY LenProperties
<1>2. SubSeq(s, 1, Len(s)) = s
  BY SubSeqFull
<1>3. ASSUME Len(s) <= Len(t)
      PROVE  (SubSeq(t, 1, Len(s)) = s) <=> \A i \in 1..Len(s) : s[i] = t[i]
  <2> DEFINE u == SubSeq(t, 1, Len(s))
  <2>1. \A i \in 1..Len(s) : t[i] \in S
    BY <1>1, <1>3, ElementOfSeq
  <2>2. u \in Seq(S) /\ Len(u) = Len(s) /\ \A i \in 1..Len(s) : u[i] = t[i]
    <3>1. /\ u \in Seq(S) /\ Len(u) = IF 1 <= Len(s) THEN Len(s) - 1 + 1 ELSE 0
          /\ \A i \in 1..(Len(s) - 1 + 1) : u[i] = t[1 + i - 1]
      BY <1>1, <2>1, SubSeqProperties
    <3> HIDE DEF u
    <3> QED BY <1>1, <3>1
  <2> HIDE DEF u
  <2>3. (\A i \in 1..Len(s) : s[i] = t[i]) => u = s
    <3> SUFFICES ASSUME \A i \in 1..Len(s) : s[i] = t[i] PROVE u = s
      OBVIOUS
    <3>1. \A i \in 1..Len(s) : s[i] = u[i]
      BY <2>2
    <3> QED BY <2>2, <3>1, SeqEqual
  <2> QED BY <2>2, <2>3 DEF u
<1> QED BY <1>2, <1>3 DEF IsPrefix

\* What is put after a string leaves it a prefix, and what a prefix is a prefix
\* of goes on from it.
LEMMA PrefixOfConcat ==
  ASSUME NEW S, NEW s \in Seq(S), NEW t \in Seq(S)
  PROVE  s \o t \in Seq(S) /\ IsPrefix(s, s \o t)
<1>1. Len(s) \in Nat /\ Len(t) \in Nat
  BY LenProperties
<1>2. /\ s \o t \in Seq(S) /\ Len(s \o t) = Len(s) + Len(t)
      /\ \A i \in 1..(Len(s) + Len(t)) : (s \o t)[i] = IF i <= Len(s) THEN s[i] ELSE t[i - Len(s)]
  BY ConcatProperties
<1>3. \A i \in 1..Len(s) : s[i] = (s \o t)[i]
  BY <1>1, <1>2
<1>4. IsPrefix(s, s \o t) <=> Len(s) <= Len(s \o t) /\ \A i \in 1..Len(s) : s[i] = (s \o t)[i]
  BY <1>2, PrefixByPlaces, Zenon
<1> QED BY <1>1, <1>2, <1>3, <1>4

\* A prefix goes on to the string it is of.
LEMMA PrefixGoesOn ==
  ASSUME NEW S, NEW s \in Seq(S), NEW t \in Seq(S), IsPrefix(s, t)
  PROVE  \E u \in Seq(S) : t = s \o u
<1>1. Len(s) \in Nat /\ Len(t) \in Nat /\ Len(s) <= Len(t) /\ \A i \in 1..Len(s) : s[i] = t[i]
  BY LenProperties, PrefixByPlaces
<1> DEFINE u == SubSeq(t, Len(s) + 1, Len(t))
<1>2. \A i \in (Len(s) + 1)..Len(t) : t[i] \in S
  BY <1>1, ElementOfSeq
<1>3. /\ u \in Seq(S) /\ Len(u) = Len(t) - Len(s)
      /\ \A i \in 1..(Len(t) - Len(s)) : u[i] = t[Len(s) + i]
  <2>1. /\ u \in Seq(S)
        /\ Len(u) = IF Len(s) + 1 <= Len(t) THEN Len(t) - (Len(s) + 1) + 1 ELSE 0
        /\ \A i \in 1..(Len(t) - (Len(s) + 1) + 1) : u[i] = t[Len(s) + 1 + i - 1]
    BY <1>1, <1>2, SubSeqProperties
  <2> HIDE DEF u
  <2> QED BY <1>1, <2>1
<1> HIDE DEF u
<1>4. /\ s \o u \in Seq(S) /\ Len(s \o u) = Len(s) + Len(u)
      /\ \A i \in 1..(Len(s) + Len(u)) : (s \o u)[i] = IF i <= Len(s) THEN s[i] ELSE u[i - Len(s)]
  BY <1>3, ConcatProperties
<1>5. \A i \in 1..Len(t) : t[i] = (s \o u)[i]
  BY <1>1, <1>3, <1>4
<1>6. t = s \o u
  BY <1>1, <1>3, <1>4, <1>5, SeqEqual
<1> QED BY <1>3, <1>6

\* A prefix of a prefix is a prefix.
LEMMA PrefixOfPrefix ==
  ASSUME NEW S, NEW s \in Seq(S), NEW t \in Seq(S), NEW u \in Seq(S),
         IsPrefix(s, t), IsPrefix(t, u)
  PROVE  IsPrefix(s, u)
<1>1. Len(s) \in Nat /\ Len(t) \in Nat /\ Len(u) \in Nat
  BY LenProperties
<1> QED BY <1>1, PrefixByPlaces

\* Two prefixes of a string that are as long as each other are the same.
LEMMA PrefixesAsLong ==
  ASSUME NEW S, NEW s \in Seq(S), NEW t \in Seq(S), NEW u \in Seq(S),
         IsPrefix(s, u), IsPrefix(t, u), Len(s) = Len(t)
  PROVE  s = t
<1>1. \A i \in 1..Len(s) : s[i] = t[i]
  BY PrefixByPlaces
<1> QED BY <1>1, SeqEqual

\* A string that ends in a character is what comes before it, and that.
LEMMA EndingIn ==
  ASSUME NEW S, NEW s \in Seq(S), NEW c \in S, NEW d \in S
  PROVE  /\ EndsIn(Append(s, c), <<d>>) <=> c = d
         /\ TrimSuffix(Append(s, c), <<c>>) = s
         /\ ~ EndsIn(<<>>, <<c>>)
<1> DEFINE t == Append(s, c)
           L == Len(s)
<1>1. L \in Nat /\ t \in Seq(S) /\ Len(t) = L + 1 /\ t[L + 1] = c /\ \A i \in 1..L : t[i] = s[i]
  BY LenProperties, AppendProperties
<1>2. \A i \in (L + 1)..(L + 1) : t[i] \in S
  BY <1>1
<1>3. Len(<<d>>) = 1 /\ Len(<<c>>) = 1 /\ <<d>>[1] = d
  OBVIOUS
<1> DEFINE e == SubSeq(t, L + 1, L + 1)
<1>4. e \in Seq(S) /\ Len(e) = 1 /\ e[1] = c
  <2>1. /\ e \in Seq(S) /\ Len(e) = IF L + 1 <= L + 1 THEN (L + 1) - (L + 1) + 1 ELSE 0
        /\ \A i \in 1..((L + 1) - (L + 1) + 1) : e[i] = t[L + 1 + i - 1]
    <3> HIDE DEF t, L
    <3> QED BY <1>1, <1>2, SubSeqProperties
  <2> HIDE DEF e, t, L
  <2> QED BY <1>1, <2>1
<1>5. e = <<d>> <=> c = d
  <2> <<d>> \in Seq(S)
    OBVIOUS
  <2> HIDE DEF e
  <2> QED BY <1>3, <1>4, SeqEqual
<1> DEFINE f == SubSeq(t, 1, L)
<1>6. f = s
  <2>1. \A i \in 1..L : t[i] \in S
    BY <1>1, ElementOfSeq
  <2>2. /\ f \in Seq(S) /\ Len(f) = IF 1 <= L THEN L - 1 + 1 ELSE 0
        /\ \A i \in 1..(L - 1 + 1) : f[i] = t[1 + i - 1]
    <3> HIDE DEF t, L
    <3> QED BY <1>1, <2>1, SubSeqProperties
  <2>3. Len(f) = L /\ \A i \in 1..L : f[i] = s[i]
    <3> HIDE DEF f, t, L
    <3> QED BY <1>1, <2>2
  <2> HIDE DEF f
  <2> QED BY <2>2, <2>3, SeqEqual
<1>7. \A x \in S : EndsIn(t, <<x>>) <=> SubSeq(t, L + 1, L + 1) = <<x>>
  <2> HIDE DEF t, L
  <2>1. \A x : Len(<<x>>) = 1
    OBVIOUS
  <2>2. (L + 1) - 1 + 1 = L + 1 /\ 1 <= L + 1
    BY <1>1
  <2> QED BY <1>1, <2>1, <2>2 DEF EndsIn
<1>8. EndsIn(t, <<d>>) <=> c = d
  BY <1>5, <1>7
<1>9. EndsIn(t, <<c>>)
  <2> HIDE DEF e, t, L
  <2>1. e = <<c>>
    <3> <<c>> \in Seq(S)
      OBVIOUS
    <3> QED BY <1>3, <1>4, SeqEqual
  <2> QED BY <1>7, <2>1 DEF e
<1>10. TrimSuffix(t, <<c>>) = SubSeq(t, 1, Len(t) - Len(<<c>>))
  BY <1>9 DEF TrimSuffix
<1>11. Len(t) - Len(<<c>>) = L
  <2> HIDE DEF t, L
  <2> QED BY <1>1, <1>3
<1>12. ~ EndsIn(<<>>, <<c>>)
  <2>1. Len(<<>>) = 0
    OBVIOUS
  <2> QED BY <1>3, <2>1 DEF EndsIn
<1> QED BY <1>6, <1>8, <1>10, <1>11, <1>12

\* A string without its last character, when it is the given one.
LEMMA WithoutEnding ==
  ASSUME NEW S, NEW s \in Seq(S), NEW c \in S
  PROVE  /\ TrimSuffix(s, <<c>>) \in Seq(S)
         /\ EndsIn(s, <<c>>) => s = Append(TrimSuffix(s, <<c>>), c)
         /\ ~ EndsIn(s, <<c>>) => TrimSuffix(s, <<c>>) = s
<1>1. CASE s = <<>>
  <2>1. ~ EndsIn(s, <<c>>)
    BY <1>1, EndingIn
  <2> QED BY <2>1 DEF TrimSuffix
<1>2. CASE s # <<>>
  <2>1. PICK t \in Seq(S), d \in S : s = Append(t, d)
    BY <1>2, SequenceEmptyOrAppend
  <2>2. EndsIn(s, <<c>>) <=> d = c
    BY <2>1, EndingIn
  <2>3. d = c => TrimSuffix(s, <<c>>) = t
    BY <2>1, EndingIn
  <2>4. ~ EndsIn(s, <<c>>) => TrimSuffix(s, <<c>>) = s
    BY DEF TrimSuffix
  <2> QED BY <2>1, <2>2, <2>3, <2>4
<1> QED BY <1>1, <1>2

-----------------------------------------------------------------------------
(* Strings: splitting *)

\* What there is between slashes, and the segments of a path.
Name == {x \in String : \A i \in 1..Len(x) : x[i] # "/"}
Segmented == Seq(Name) \ {<<>>}

\* Names grow by characters that are not slashes.
LEMMA Names ==
  /\ <<>> \in Name /\ Name \subseteq String /\ <<>> \in String
  /\ \A x \in Name, c \in Char \ {"/"} : Append(x, c) \in Name
  /\ \A x \in String : x \in Name <=> \A i \in 1..Len(x) : x[i] # "/"
  /\ \A x \in String, c \in Char : Append(x, c) \in Name => c # "/" /\ x \in Name
<1>1. <<>> \in String /\ Len(<<>>) = 0
  BY EmptySeq DEF String
<1>2. <<>> \in Name
  BY <1>1 DEF Name
<1>3. ASSUME NEW x \in String, NEW c \in Char
      PROVE  /\ x \in Name /\ c # "/" => Append(x, c) \in Name
             /\ Append(x, c) \in Name => c # "/" /\ x \in Name
  <2>1. /\ Append(x, c) \in String /\ Len(x) \in Nat /\ Len(Append(x, c)) = Len(x) + 1
        /\ \A i \in 1..Len(x) : Append(x, c)[i] = x[i]
        /\ Append(x, c)[Len(x) + 1] = c
    BY AppendProperties, LenProperties DEF String
  <2>2. \A i \in 1..(Len(x) + 1) : i = Len(x) + 1 \/ i \in 1..Len(x)
    BY <2>1
  <2>3. Len(x) + 1 \in 1..(Len(x) + 1) /\ \A i \in 1..Len(x) : i \in 1..(Len(x) + 1)
    BY <2>1
  <2> QED BY <2>1, <2>2, <2>3 DEF Name
<1> QED BY <1>1, <1>2, <1>3 DEF Name

\* What follows a segmented path when a character is read.
LEMMA LongerBy ==
  ASSUME NEW a \in Seq(Name), NEW x \in Name, NEW c \in Char
  PROVE  /\ Append(a, x) \in Segmented
         /\ Longer(Append(a, x), c) =
              IF c = "/" THEN Append(Append(a, x), <<>>) ELSE Append(a, Append(x, c))
         /\ Longer(Append(a, x), c) \in Segmented
<1> DEFINE b == Append(a, x)
<1>1. /\ b \in Seq(Name) /\ b # <<>> /\ Len(a) \in Nat /\ Len(b) = Len(a) + 1
      /\ b[Len(a) + 1] = x /\ \A i \in 1..Len(a) : b[i] = a[i]
  BY AppendProperties, LenProperties
<1>2. CASE c = "/"
  <2>1. Append(b, <<>>) \in Segmented
    BY <1>1, Names, AppendProperties DEF Segmented
  <2> QED BY <1>1, <1>2, <2>1 DEF Longer, Segmented
<1>3. CASE c # "/"
  <2>1. Append(x, c) \in Name
    BY <1>3, Names
  <2> DEFINE y == Append(x, c)
             d == Append(a, y)
             e == [b EXCEPT ![Len(a) + 1] = y]
  <2>2. /\ d \in Seq(Name) /\ d # <<>> /\ Len(d) = Len(a) + 1 /\ d[Len(a) + 1] = y
        /\ \A i \in 1..Len(a) : d[i] = a[i]
    BY <2>1, AppendProperties
  <2> HIDE DEF y, d, b
  <2>3. Len(a) + 1 \in 1..Len(b)
    BY <1>1
  <2>4. /\ e \in Seq(Name) /\ Len(e) = Len(b)
        /\ \A j \in 1..Len(b) : e[j] = IF j = Len(a) + 1 THEN y ELSE b[j]
    BY <1>1, <2>1, <2>3, ExceptSeq DEF y
  <2> HIDE DEF e
  <2>5. \A i \in 1..Len(e) : e[i] = d[i]
    BY <1>1, <2>2, <2>4
  <2>6. e = d
    BY <1>1, <2>2, <2>4, <2>5, SeqEqual
  <2>7. Longer(b, c) = e
    BY <1>1, <1>3 DEF Longer, e, y
  <2> QED BY <1>1, <1>3, <2>2, <2>6, <2>7 DEF Segmented, b, d, y
<1> QED BY <1>2, <1>3

\* A segmented path has a last segment.
LEMMA LastSegment ==
  ASSUME NEW a \in Segmented
  PROVE  \E b \in Seq(Name), x \in Name : a = Append(b, x)
BY SequenceEmptyOrAppend DEF Segmented

\* Segments are never none.
LEMMA LongerIs ==
  ASSUME NEW a \in Segmented, NEW c \in Char
  PROVE  Longer(a, c) \in Segmented
<1>1. PICK b \in Seq(Name), x \in Name : a = Append(b, x)
  BY LastSegment
<1> QED BY <1>1, LongerBy

\* How a path is split, character by character.
Spelt(f, s) == f[0] = <<(<<>>)>> /\ \A n \in 1..Len(s) : f[n] = Longer(f[n - 1], s[n])

\* A path is split character by character.
LEMMA SplitStepByStep ==
  ASSUME NEW s \in String
  PROVE  \E f \in [0..Len(s) -> Segmented] : Spelt(f, s) /\ Split(s) = f[Len(s)]
<1> DEFINE L == Len(s)
           base == <<(<<>>)>>
           Body(f) == [n \in 0..L |-> IF n = 0 THEN base ELSE Longer(f[n - 1], s[n])]
           step == [n \in 1..L |-> [a \in Segmented |-> Longer(a, s[n])]]
           upTo == CHOOSE f : f = Body(f)
<1>1. L \in Nat /\ \A n \in 1..L : s[n] \in Char
  BY LenProperties, ElementOfSeq DEF String
<1>2. step \in [1..L -> [Segmented -> Segmented]]
  BY <1>1, LongerIs
<1>a. base \in Segmented
  BY Names DEF Segmented
<1> HIDE DEF base
<1>3. PICK f \in [0..L -> Segmented] : f[0] = base /\ \A n \in 1..L : f[n] = step[n][f[n - 1]]
  <2>2. \E f \in [0..L -> Segmented] : GoesBy(f, base, step, L)
    <3> HIDE DEF step, L
    <3> QED BY <1>1, <1>2, <1>a, StepByStep
  <2> QED BY <2>2 DEF GoesBy
<1>4. f = Body(f)
  <2>1. ASSUME NEW n \in 0..L
        PROVE  f[n] = Body(f)[n]
    <3>1. CASE n = 0
      BY <3>1, <1>3
    <3>2. CASE n # 0
      <4>1. n \in 1..L /\ n - 1 \in 0..L
        BY <1>1, <3>2
      <4>2. f[n - 1] \in Segmented
        BY <4>1
      <4> QED BY <1>3, <4>1, <4>2, <3>2
    <3> QED BY <3>1, <3>2
  <2> HIDE DEF step
  <2> QED BY <2>1
<1>5. upTo = Body(upTo)
  <2> HIDE DEF Body
  <2> QED BY <1>4
<1>6. Split(s) = upTo[L]
  BY DEF Split, base
<1> HIDE DEF upTo
<1>7. upTo[0] = base
  BY <1>1, <1>5
<1>8. ASSUME NEW n \in 1..L PROVE upTo[n] = Longer(upTo[n - 1], s[n])
  <2>1. n \in 0..L /\ n # 0
    BY <1>1
  <2>2. upTo[n] = Body(upTo)[n]
    BY <1>5, Zenon
  <2> QED BY <2>1, <2>2
<1>9. upTo \in [0..L -> Segmented]
  <2> DEFINE T == {n \in 0..L : upTo[n] \in Segmented}
  <2>1. 0 \in T
    BY <1>1, <1>7, <1>a
  <2>2. ASSUME NEW n \in 0..L, n # L, n \in T PROVE n + 1 \in T
    <3>1. n + 1 \in 1..L /\ (n + 1) - 1 = n /\ upTo[n] \in Segmented
      BY <1>1, <2>2
    <3>2. upTo[n + 1] = Longer(upTo[n], s[n + 1])
      BY <1>8, <3>1
    <3>3. upTo[n + 1] \in Segmented
      BY <1>1, <3>1, <3>2, LongerIs
    <3> QED BY <3>1, <3>3
  <2>3. 0..L \subseteq T
    <3> HIDE DEF T, L
    <3> QED BY <1>1, <2>1, <2>2, UpFromZero
  <2>4. DOMAIN upTo = 0..L
    BY <1>5
  <2>5. upTo = [n \in 0..L |-> upTo[n]]
    BY <1>5
  <2> QED BY <2>3, <2>5
<1> QED BY <1>6, <1>7, <1>8, <1>9 DEF Spelt, base

\* One character more makes the segments longer.
LEMMA SplitOfAppend ==
  ASSUME NEW s \in String, NEW c \in Char
  PROVE  Split(Append(s, c)) = Longer(Split(s), c)
<1> DEFINE t == Append(s, c)
           L == Len(s)
<1>1. /\ t \in String /\ L \in Nat /\ Len(t) = L + 1 /\ t[L + 1] = c
      /\ \A i \in 1..L : t[i] = s[i]
  BY AppendProperties, LenProperties DEF String
<1>2. PICK f \in [0..L -> Segmented] : Spelt(f, s) /\ Split(s) = f[L]
  BY SplitStepByStep
<1>3. PICK g \in [0..(L + 1) -> Segmented] : Spelt(g, t) /\ Split(t) = g[L + 1]
  <2> HIDE DEF t
  <2>1. PICK g \in [0..Len(t) -> Segmented] : Spelt(g, t) /\ Split(t) = g[Len(t)]
    BY <1>1, SplitStepByStep
  <2> QED BY <1>1, <2>1
<1>a. /\ f[0] = <<(<<>>)>> /\ g[0] = <<(<<>>)>>
      /\ \A n \in 1..L : f[n] = Longer(f[n - 1], s[n])
      /\ \A n \in 1..(L + 1) : g[n] = Longer(g[n - 1], t[n])
  BY <1>1, <1>2, <1>3 DEF Spelt
<1> HIDE DEF t, L
<1>4. g[L] = f[L]
  <2> DEFINE T == {n \in 0..L : g[n] = f[n]}
  <2>1. 0 \in T
    BY <1>1, <1>a
  <2>2. ASSUME NEW n \in 0..L, n # L, n \in T PROVE n + 1 \in T
    <3>1. /\ n + 1 \in 0..L /\ n + 1 \in 1..L /\ n + 1 \in 1..(L + 1)
          /\ (n + 1) - 1 = n /\ g[n] = f[n]
      BY <1>1, <2>2
    <3>2. g[n + 1] = f[n + 1]
      BY <1>1, <1>a, <3>1
    <3> QED BY <3>1, <3>2
  <2>3. 0..L \subseteq T
    <3> HIDE DEF T
    <3> QED BY <1>1, <2>1, <2>2, UpFromZero
  <2>4. L \in 0..L
    BY <1>1
  <2> QED BY <2>3, <2>4
<1>5. L + 1 \in 1..(L + 1) /\ (L + 1) - 1 = L
  BY <1>1
<1>6. g[L + 1] = Longer(g[L], c)
  BY <1>1, <1>a, <1>5
<1> QED BY <1>2, <1>3, <1>4, <1>6 DEF t

\* A path is split into names, the empty one into one.
LEMMA SplitIs ==
  /\ Split(<<>>) = <<(<<>>)>>
  /\ \A s \in String : Split(s) \in Segmented
<1>1. <<>> \in String /\ Len(<<>>) = 0
  BY EmptySeq DEF String
<1>2. PICK f \in [0..Len(<<>>) -> Segmented] : Spelt(f, <<>>) /\ Split(<<>>) = f[Len(<<>>)]
  BY <1>1, SplitStepByStep
<1>3. ASSUME NEW s \in String PROVE Split(s) \in Segmented
  <2>1. PICK g \in [0..Len(s) -> Segmented] : Split(s) = g[Len(s)]
    BY SplitStepByStep
  <2>2. Len(s) \in 0..Len(s)
    BY LenProperties DEF String
  <2> QED BY <2>1, <2>2
<1> QED BY <1>1, <1>2, <1>3 DEF Spelt

-----------------------------------------------------------------------------
(* Strings: joining *)

\* How segments are joined, one after another.
Joint(f, a) ==
  /\ f[0] = <<>>
  /\ \A n \in 1..Len(a) : f[n] = IF n = 1 THEN a[1] ELSE f[n - 1] \o <<"/">> \o a[n]

\* A slash is a string.
LEMMA SlashIsString == "/" \in Char /\ <<"/">> \in String
<1>1. "/" \in Char
  BY CharactersAreOrdered
<1> QED BY <1>1 DEF String

\* Strings after one another are a string.
LEMMA StringsConcat ==
  ASSUME NEW s \in String, NEW t \in String
  PROVE  s \o t \in String
BY ConcatProperties DEF String

\* Segments are joined one by one.
LEMMA JoinStepByStep ==
  ASSUME NEW a \in Seq(Name)
  PROVE  \E f \in [0..Len(a) -> String] : Joint(f, a) /\ Join(a) = f[Len(a)]
<1> DEFINE L == Len(a)
           Next1(n, x) == IF n = 1 THEN a[1] ELSE x \o <<"/">> \o a[n]
           Body(f) == [k \in 0..L |-> IF k = 0 THEN <<>>
                                      ELSE IF k = 1 THEN a[1] ELSE f[k - 1] \o <<"/">> \o a[k]]
           step == [n \in 1..L |-> [x \in String |-> Next1(n, x)]]
           upTo == CHOOSE f : f = Body(f)
<1>1. L \in Nat /\ \A n \in 1..L : a[n] \in String
  BY LenProperties, ElementOfSeq, Names
<1>n. ASSUME NEW n \in 1..L, NEW x \in String PROVE Next1(n, x) \in String
  <2>1. CASE n = 1
    BY <1>1, <2>1
  <2>2. CASE n # 1
    <3>1. x \o <<"/">> \in String
      BY SlashIsString, StringsConcat
    <3>2. x \o <<"/">> \o a[n] \in String
      BY <1>1, <3>1, StringsConcat
    <3> QED BY <2>2, <3>2
  <2> QED BY <2>1, <2>2
<1>2. step \in [1..L -> [String -> String]]
  <2> HIDE DEF Next1
  <2> QED BY <1>1, <1>n
<1>3. PICK f \in [0..L -> String] : f[0] = <<>> /\ \A n \in 1..L : f[n] = step[n][f[n - 1]]
  <2>2. \E f \in [0..L -> String] : GoesBy(f, <<>>, step, L)
    <3> HIDE DEF step, L
    <3> QED BY <1>1, <1>2, Names, StepByStep
  <2> QED BY <2>2 DEF GoesBy
<1>4. f = Body(f)
  <2>1. ASSUME NEW n \in 0..L
        PROVE  f[n] = Body(f)[n]
    <3>1. CASE n = 0
      BY <3>1, <1>3
    <3>2. CASE n # 0
      <4>1. n \in 1..L /\ n - 1 \in 0..L
        BY <1>1, <3>2
      <4>2. f[n - 1] \in String
        BY <4>1
      <4>3. f[n] = Next1(n, f[n - 1])
        <5> HIDE DEF Next1
        <5> QED BY <1>3, <4>1, <4>2
      <4>4. Body(f)[n] = Next1(n, f[n - 1])
        BY <4>1, <3>2
      <4> QED BY <4>3, <4>4
    <3> QED BY <3>1, <3>2
  <2> HIDE DEF step, Next1
  <2> QED BY <2>1
<1>5. upTo = Body(upTo)
  <2> HIDE DEF Body
  <2> QED BY <1>4
<1>6. Join(a) = upTo[L]
  BY DEF Join
<1> HIDE DEF upTo
<1>7. upTo[0] = <<>>
  BY <1>1, <1>5
<1>8. ASSUME NEW n \in 1..L PROVE upTo[n] = Next1(n, upTo[n - 1])
  <2>1. n \in 0..L /\ n # 0
    BY <1>1
  <2>2. upTo[n] = Body(upTo)[n]
    BY <1>5, Zenon
  <2> QED BY <2>1, <2>2
<1>9. upTo \in [0..L -> String]
  <2> DEFINE T == {n \in 0..L : upTo[n] \in String}
  <2>1. 0 \in T
    BY <1>1, <1>7, Names
  <2>2. ASSUME NEW n \in 0..L, n # L, n \in T PROVE n + 1 \in T
    <3>1. n + 1 \in 1..L /\ (n + 1) - 1 = n /\ upTo[n] \in String
      BY <1>1, <2>2
    <3>2. upTo[n + 1] = Next1(n + 1, upTo[n])
      BY <1>8, <3>1
    <3> HIDE DEF Next1
    <3>3. upTo[n + 1] \in String
      BY <1>n, <3>1, <3>2
    <3> QED BY <3>1, <3>3
  <2>3. 0..L \subseteq T
    <3> HIDE DEF T, L
    <3> QED BY <1>1, <2>1, <2>2, UpFromZero
  <2>4. DOMAIN upTo = 0..L
    BY <1>5
  <2>5. upTo = [n \in 0..L |-> upTo[n]]
    BY <1>5
  <2> QED BY <2>3, <2>5
<1> QED BY <1>6, <1>7, <1>8, <1>9 DEF Joint

\* Segments with one more are what they come to, a slash, and that one.
LEMMA JoinOfAppend ==
  ASSUME NEW a \in Seq(Name), NEW x \in Name
  PROVE  /\ Join(a) \in String
         /\ Join(Append(a, x)) = IF a = <<>> THEN x ELSE Join(a) \o <<"/">> \o x
<1> DEFINE b == Append(a, x)
           L == Len(a)
<1>1. /\ b \in Seq(Name) /\ L \in Nat /\ Len(b) = L + 1 /\ b[L + 1] = x
      /\ \A i \in 1..L : b[i] = a[i]
  BY AppendProperties, LenProperties
<1>2. PICK f \in [0..L -> String] : Joint(f, a) /\ Join(a) = f[L]
  BY JoinStepByStep
<1>3. PICK g \in [0..(L + 1) -> String] : Joint(g, b) /\ Join(b) = g[L + 1]
  <2> HIDE DEF b
  <2>1. PICK g \in [0..Len(b) -> String] : Joint(g, b) /\ Join(b) = g[Len(b)]
    BY <1>1, JoinStepByStep
  <2> QED BY <1>1, <2>1
<1>a. /\ f[0] = <<>> /\ g[0] = <<>>
      /\ \A n \in 1..L : f[n] = IF n = 1 THEN a[1] ELSE f[n - 1] \o <<"/">> \o a[n]
      /\ \A n \in 1..(L + 1) : g[n] = IF n = 1 THEN b[1] ELSE g[n - 1] \o <<"/">> \o b[n]
  BY <1>1, <1>2, <1>3 DEF Joint
<1>e. a = <<>> <=> L = 0
  BY EmptySeq
<1> HIDE DEF b, L
<1>4. g[L] = f[L]
  <2> DEFINE T == {n \in 0..L : g[n] = f[n]}
  <2>1. 0 \in T
    BY <1>1, <1>a
  <2>2. ASSUME NEW n \in 0..L, n # L, n \in T PROVE n + 1 \in T
    <3>1. /\ n + 1 \in 0..L /\ n + 1 \in 1..L /\ n + 1 \in 1..(L + 1)
          /\ (n + 1) - 1 = n /\ g[n] = f[n]
      BY <1>1, <2>2
    <3>2. /\ f[n + 1] = IF n + 1 = 1 THEN a[1] ELSE f[n] \o <<"/">> \o a[n + 1]
          /\ g[n + 1] = IF n + 1 = 1 THEN b[1] ELSE g[n] \o <<"/">> \o b[n + 1]
          /\ b[n + 1] = a[n + 1]
      BY <1>1, <1>a, <3>1
    <3>3. g[n + 1] = f[n + 1]
      BY <3>1, <3>2
    <3> QED BY <3>1, <3>3
  <2>3. 0..L \subseteq T
    <3> HIDE DEF T
    <3> QED BY <1>1, <2>1, <2>2, UpFromZero
  <2>4. L \in 0..L
    BY <1>1
  <2> QED BY <2>3, <2>4
<1>5. L + 1 \in 1..(L + 1) /\ (L + 1) - 1 = L /\ L \in 0..L /\ (L + 1 = 1 <=> L = 0)
  BY <1>1
<1>6. g[L + 1] = IF L + 1 = 1 THEN x ELSE g[L] \o <<"/">> \o x
  BY <1>1, <1>a, <1>5
<1>7. f[L] \in String
  BY <1>5
<1> QED BY <1>2, <1>3, <1>4, <1>5, <1>6, <1>7, <1>e DEF b

\* A segment that grows makes the path grow as much.
LEMMA JoinOfConcat ==
  ASSUME NEW a \in Seq(Name), NEW x \in Name, NEW y \in String, x \o y \in Name
  PROVE  Join(Append(a, x \o y)) = Join(Append(a, x)) \o y
<1>1. x \in String
  BY Names
<1>2. CASE a = <<>>
  BY <1>2, JoinOfAppend
<1>3. CASE a # <<>>
  <2>1. Join(a) \o <<"/">> \in String
    BY JoinOfAppend, SlashIsString, StringsConcat
  <2> DEFINE z == Join(a) \o <<"/">>
  <2> HIDE DEF z
  <2>2. (z \o x) \o y = z \o (x \o y)
    BY <1>1, <2>1, ConcatAssociative DEF z, String
  <2>3. Join(Append(a, x)) = z \o x /\ Join(Append(a, x \o y)) = z \o (x \o y)
    BY <1>3, JoinOfAppend DEF z
  <2> QED BY <2>2, <2>3
<1> QED BY <1>2, <1>3

\* Joining undoes a step of splitting.
LEMMA JoinOfLonger ==
  ASSUME NEW a \in Segmented, NEW c \in Char
  PROVE  Join(Longer(a, c)) = Append(Join(a), c)
<1>1. PICK b \in Seq(Name), x \in Name : a = Append(b, x)
  BY LastSegment
<1>2. a \in Seq(Name) /\ a # <<>> /\ Join(a) \in String /\ Join(a) \o <<c>> = Append(Join(a), c)
  BY JoinOfAppend, Names, AppendIsConcat DEF Segmented, String
<1>3. CASE c = "/"
  <2>1. Join(Append(a, <<>>)) = Join(a) \o <<"/">> \o <<>>
    BY <1>2, Names, JoinOfAppend
  <2>2. Join(a) \o <<"/">> \o <<>> = Join(a) \o <<"/">>
    <3>1. Join(a) \o <<"/">> \in String
      BY <1>2, SlashIsString, StringsConcat
    <3> QED BY <3>1, ConcatEmptySeq DEF String
  <2> QED BY <1>1, <1>2, <1>3, <2>1, <2>2, LongerBy
<1>4. CASE c # "/"
  <2>1. Append(x, c) = x \o <<c>> /\ Append(x, c) \in Name /\ <<c>> \in String
    BY <1>4, Names, AppendIsConcat DEF String
  <2>2. Join(Append(b, x \o <<c>>)) = Join(Append(b, x)) \o <<c>>
    BY <2>1, JoinOfConcat
  <2> QED BY <1>1, <1>2, <1>4, <2>1, <2>2, LongerBy
<1> QED BY <1>3, <1>4

\* A path is its segments, joined.
LEMMA JoinOfSplit ==
  ASSUME NEW s \in String
  PROVE  Join(Split(s)) = s
<1> DEFINE T == {t \in String : Join(Split(t)) = t}
<1>1. <<>> \in T
  <2>1. Append(<<>>, <<>>) = <<(<<>>)>> /\ <<>> \in Seq(Name)
    OBVIOUS
  <2>2. Join(<<(<<>>)>>) = <<>>
    BY <2>1, Names, JoinOfAppend
  <2> QED BY <2>2, Names, SplitIs
<1>2. ASSUME NEW t \in Seq(Char), NEW c \in Char, t \in T PROVE Append(t, c) \in T
  <2>1. Split(Append(t, c)) = Longer(Split(t), c) /\ Split(t) \in Segmented
    BY <1>2, SplitOfAppend, SplitIs
  <2>2. Join(Longer(Split(t), c)) = Append(t, c)
    BY <1>2, <2>1, JoinOfLonger
  <2> QED BY <2>1, <2>2, AppendProperties DEF String
<1>3. String \subseteq T
  <2> HIDE DEF T
  <2> QED BY <1>1, <1>2, ByAppending DEF String
<1> QED BY <1>3

\* What is read without a slash goes into the last segment.
LEMMA SplitOfName ==
  ASSUME NEW s \in String, NEW a \in Seq(Name), NEW y \in Name, Split(s) = Append(a, y),
         NEW x \in Name
  PROVE  y \o x \in Name /\ Split(s \o x) = Append(a, y \o x)
<1> DEFINE T == {z \in String : z \in Name => y \o z \in Name /\ Split(s \o z) = Append(a, y \o z)}
<1>0. y \in String
  BY Names
<1>1. <<>> \in T
  BY <1>0, Names, ConcatEmptySeq DEF String
<1>2. ASSUME NEW z \in Seq(Char), NEW c \in Char, z \in T PROVE Append(z, c) \in T
  <2> SUFFICES ASSUME Append(z, c) \in Name
               PROVE  y \o Append(z, c) \in Name
                      /\ Split(s \o Append(z, c)) = Append(a, y \o Append(z, c))
    BY AppendProperties DEF String
  <2>1. z \in Name /\ c # "/" /\ z \in String
    BY Names DEF String
  <2>2. y \o z \in Name /\ Split(s \o z) = Append(a, y \o z)
    BY <1>2, <2>1
  <2>3. Append(z, c) = z \o <<c>> /\ <<c>> \in String
    BY AppendIsConcat DEF String
  <2>4. /\ y \o (z \o <<c>>) = (y \o z) \o <<c>> /\ s \o (z \o <<c>>) = (s \o z) \o <<c>>
        /\ y \o z \in String /\ s \o z \in String
    BY <1>0, <2>1, <2>3, ConcatAssociative, StringsConcat DEF String
  <2>5. (y \o z) \o <<c>> = Append(y \o z, c) /\ (s \o z) \o <<c>> = Append(s \o z, c)
    BY <2>4, AppendIsConcat DEF String
  <2>6. Append(y \o z, c) \in Name
    BY <2>1, <2>2, Names
  <2>7. Split(Append(s \o z, c)) = Append(a, Append(y \o z, c))
    <3>1. Split(Append(s \o z, c)) = Longer(Append(a, y \o z), c)
      BY <2>2, <2>4, SplitOfAppend
    <3>2. Longer(Append(a, y \o z), c) = Append(a, Append(y \o z, c))
      BY <2>1, <2>2, LongerBy, Zenon
    <3> QED BY <3>1, <3>2
  <2> QED BY <2>3, <2>4, <2>5, <2>6, <2>7
<1>3. String \subseteq T
  <2> HIDE DEF T
  <2> QED BY <1>1, <1>2, ByAppending DEF String
<1> QED BY <1>3, Names

\* Segments, joined, are split into themselves.
LEMMA SplitOfJoin ==
  ASSUME NEW a \in Segmented
  PROVE  Split(Join(a)) = a
<1> DEFINE T == {b \in Seq(Name) : b # <<>> => Split(Join(b)) = b}
<1>1. <<>> \in T
  OBVIOUS
<1>2. ASSUME NEW b \in Seq(Name), NEW x \in Name, b \in T PROVE Append(b, x) \in T
  <2>0. Append(b, x) \in Seq(Name) /\ x \in String /\ <<>> \o x = x
    BY AppendProperties, Names, ConcatEmptySeq DEF String
  <2>1. CASE b = <<>>
    <3>1. Join(Append(b, x)) = x
      BY <2>1, JoinOfAppend
    <3>2. Append(b, <<>>) = <<(<<>>)>> /\ Split(<<>>) = <<(<<>>)>>
      BY <2>1, SplitIs
    <3>a. <<>> \in String /\ <<>> \in Name /\ Split(<<>>) = Append(b, <<>>)
      BY <3>2, Names
    <3>3. Split(<<>> \o x) = Append(b, <<>> \o x)
      BY <3>a, SplitOfName, Zenon
    <3> QED BY <2>0, <3>1, <3>3
  <2>2. CASE b # <<>>
    <3> DEFINE s == Join(b)
    <3>1. s \in String /\ Split(s) = b /\ s \o <<"/">> = Append(s, "/")
      BY <1>2, <2>2, JoinOfAppend, SlashIsString, AppendIsConcat DEF String
    <3> HIDE DEF s
    <3>2. PICK c \in Seq(Name), y \in Name : b = Append(c, y)
      BY <2>2, LastSegment DEF Segmented
    <3>a. Split(Append(s, "/")) = Longer(b, "/")
      BY <3>1, SlashIsString, SplitOfAppend
    <3>b. Longer(b, "/") = Append(b, <<>>)
      BY <3>2, SlashIsString, LongerBy, Zenon
    <3>3. Append(s, "/") \in String /\ <<>> \in Name /\ Split(Append(s, "/")) = Append(b, <<>>)
      BY <3>1, <3>a, <3>b, Names, SlashIsString, AppendProperties DEF String
    <3>4. Split(Append(s, "/") \o x) = Append(b, <<>> \o x)
      BY <3>3, SplitOfName, Zenon
    <3>5. Join(Append(b, x)) = Append(s, "/") \o x
      BY <2>2, <3>1, JoinOfAppend DEF s
    <3> QED BY <2>0, <3>4, <3>5
  <2> QED BY <2>1, <2>2
<1>3. Seq(Name) \subseteq T
  <2> HIDE DEF T
  <2> QED BY <1>1, <1>2, ByAppending
<1> QED BY <1>3 DEF Segmented

-----------------------------------------------------------------------------
(* Strings: prefixes by segments *)

\* One segmented path begins another: its last segment may go on.
Begins(a, b) ==
  /\ Len(a) <= Len(b)
  /\ \A i \in 1..Len(a) : a[i] = b[i] \/ (i = Len(a) /\ IsPrefix(a[i], b[i]))

\* What comes after the same text keeps its prefixes.
LEMMA PrefixAfter ==
  ASSUME NEW s \in String, NEW x \in String, NEW y \in String, IsPrefix(x, y)
  PROVE  IsPrefix(s \o x, s \o y)
<1>1. PICK u \in String : y = x \o u
  BY PrefixGoesOn DEF String
<1>2. s \o y = (s \o x) \o u /\ s \o x \in String
  BY <1>1, ConcatAssociative, StringsConcat DEF String
<1> QED BY <1>2, PrefixOfConcat DEF String

\* A string is a prefix of itself.
LEMMA PrefixOfItself ==
  ASSUME NEW s \in String
  PROVE  IsPrefix(s, s)
<1>1. Len(s) \in Nat
  BY LenProperties DEF String
<1> QED BY <1>1 DEF IsPrefix

\* Segments that begin others are joined to a prefix of them.
LEMMA BeginningIsPrefix ==
  ASSUME NEW a \in Segmented, NEW b \in Segmented, Begins(a, b)
  PROVE  IsPrefix(Join(a), Join(b))
<1> DEFINE T == {d \in Seq(Name) : \A c \in Segmented : Begins(c, d) => IsPrefix(Join(c), Join(d))}
<1>1. <<>> \in T
  <2>1. ASSUME NEW c \in Segmented, Begins(c, <<>>) PROVE FALSE
    <3>1. Len(c) \in Nat \ {0} /\ Len(<<>>) = 0
      BY EmptySeq DEF Segmented
    <3>2. Len(c) <= Len(<<>>)
      BY <2>1 DEF Begins
    <3> QED BY <3>1, <3>2
  <2> QED BY <2>1, EmptySeq
<1>2. ASSUME NEW d \in Seq(Name), NEW y \in Name, d \in T PROVE Append(d, y) \in T
  <2> DEFINE e == Append(d, y)
             L == Len(d)
  <2>0. /\ e \in Seq(Name) /\ L \in Nat /\ Len(e) = L + 1 /\ e[L + 1] = y
        /\ (\A i \in 1..L : e[i] = d[i]) /\ (d = <<>> <=> L = 0) /\ Join(e) \in String
    <3>1. e \in Seq(Name) /\ L \in Nat /\ Len(e) = L + 1 /\ e[L + 1] = y /\ \A i \in 1..L : e[i] = d[i]
      BY AppendProperties, LenProperties
    <3>2. d = <<>> <=> L = 0
      BY EmptySeq
    <3>3. Join(e) \in String
      <4> HIDE DEF e
      <4> QED BY <3>1, JoinOfAppend, Names
    <3> QED BY <3>1, <3>2, <3>3
  <2> SUFFICES ASSUME NEW c \in Segmented, Begins(c, e) PROVE IsPrefix(Join(c), Join(e))
    BY <2>0
  <2> HIDE DEF e
  <2>1. PICK c0 \in Seq(Name), x \in Name : c = Append(c0, x)
    BY LastSegment
  <2>2. /\ Len(c0) \in Nat /\ Len(c) = Len(c0) + 1 /\ c[Len(c0) + 1] = x
        /\ \A i \in 1..Len(c0) : c[i] = c0[i]
    BY <2>1, AppendProperties, LenProperties
  <2>3. /\ Len(c) <= L + 1
        /\ \A i \in 1..Len(c) : c[i] = e[i] \/ (i = Len(c) /\ IsPrefix(c[i], e[i]))
    BY <2>0 DEF Begins
  <2>x. x \in String /\ y \in String
    BY Names
  <2>4. CASE Len(c) <= L
    <3>1. Begins(c, d)
      BY <2>0, <2>2, <2>3, <2>4 DEF Begins
    <3>2. d # <<>>
      BY <2>0, <2>2, <2>4
    <3>3. Join(e) = Join(d) \o <<"/">> \o y /\ Join(d) \in String /\ Join(c) \in String
      BY <2>1, <3>2, JoinOfAppend DEF e, Segmented
    <3>4. <<"/">> \o y \in String /\ Join(d) \o <<"/">> \o y = Join(d) \o (<<"/">> \o y)
      BY <2>x, <3>3, SlashIsString, StringsConcat, ConcatAssociative DEF String
    <3>5. IsPrefix(Join(d), Join(e))
      BY <3>3, <3>4, PrefixOfConcat DEF String
    <3>6. IsPrefix(Join(c), Join(d))
      BY <1>2, <3>1
    <3> QED BY <2>0, <3>3, <3>5, <3>6, PrefixOfPrefix DEF String
  <2>5. CASE Len(c) = L + 1
    <3>1. Len(c0) = L /\ \A i \in 1..L : c0[i] = d[i]
      BY <2>0, <2>2, <2>3, <2>5
    <3>2. c0 = d
      BY <3>1, SeqEqual
    <3>3. x = y \/ IsPrefix(x, y)
      BY <2>0, <2>2, <2>3, <2>5, <3>1
    <3>4. IsPrefix(x, y)
      BY <2>x, <3>3, PrefixOfItself
    <3>5. CASE d = <<>>
      BY <2>1, <3>2, <3>4, <3>5, JoinOfAppend DEF e
    <3>6. CASE d # <<>>
      <4>1. Join(d) \o <<"/">> \in String
        BY JoinOfAppend, SlashIsString, StringsConcat
      <4>2. Join(c) = (Join(d) \o <<"/">>) \o x /\ Join(e) = (Join(d) \o <<"/">>) \o y
        BY <2>1, <3>2, <3>6, JoinOfAppend DEF e
      <4> QED BY <2>x, <3>4, <4>1, <4>2, PrefixAfter
    <3> QED BY <3>5, <3>6
  <2> QED BY <2>0, <2>2, <2>3, <2>4, <2>5
<1>3. Seq(Name) \subseteq T
  <2> HIDE DEF T
  <2> QED BY <1>1, <1>2, ByAppending
<1> QED BY <1>3 DEF Segmented

\* A character more leaves the beginning.
LEMMA BeginsLonger ==
  ASSUME NEW a \in Segmented, NEW b \in Segmented, Begins(a, b), NEW c \in Char
  PROVE  Begins(a, Longer(b, c))
<1>1. PICK d \in Seq(Name), x \in Name : b = Append(d, x)
  BY LastSegment
<1>2. /\ b \in Seq(Name) /\ Len(d) \in Nat /\ Len(b) = Len(d) + 1 /\ b[Len(d) + 1] = x
      /\ \A i \in 1..Len(d) : b[i] = d[i]
  BY <1>1, AppendProperties, LenProperties
<1>3. a \in Seq(Name) /\ Len(a) \in Nat /\ x \in String
  BY LenProperties, Names DEF Segmented
<1>4. CASE c = "/"
  <2> DEFINE e == Append(b, <<>>)
  <2>1. Len(e) = Len(b) + 1 /\ \A i \in 1..Len(b) : e[i] = b[i]
    BY <1>2, Names, AppendProperties
  <2>2. Longer(b, c) = e
    BY <1>1, <1>4, LongerBy, Zenon
  <2> HIDE DEF e
  <2>3. Begins(a, e)
    BY <1>2, <1>3, <2>1 DEF Begins
  <2> QED BY <2>2, <2>3
<1>5. CASE c # "/"
  <2> DEFINE y == Append(x, c)
             e == Append(d, y)
  <2>1. Longer(b, c) = e
    BY <1>1, <1>5, LongerBy, Zenon
  <2>2. y \in Name /\ y \in String /\ IsPrefix(x, y)
    <3>1. y \in Name
      BY <1>5, Names
    <3>2. y = x \o <<c>> /\ <<c>> \in String
      BY <1>3, AppendIsConcat DEF String
    <3>3. IsPrefix(x, x \o <<c>>)
      BY <1>3, <3>2, PrefixOfConcat DEF String
    <3> QED BY <3>1, <3>2, <3>3, Names
  <2>3. Len(e) = Len(d) + 1 /\ e[Len(d) + 1] = y /\ \A i \in 1..Len(d) : e[i] = d[i]
    BY <2>2, AppendProperties
  <2> HIDE DEF y, e
  <2>4. ASSUME NEW i \in 1..Len(a)
        PROVE  a[i] = e[i] \/ (i = Len(a) /\ IsPrefix(a[i], e[i]))
    <3>1. a[i] = b[i] \/ (i = Len(a) /\ IsPrefix(a[i], b[i]))
      BY DEF Begins
    <3>2. i \in 1..Len(d) \/ (i = Len(d) + 1 /\ i = Len(a))
      BY <1>2, <1>3 DEF Begins
    <3>3. CASE i \in 1..Len(d)
      BY <1>2, <2>3, <3>1, <3>3
    <3>4. CASE i = Len(d) + 1 /\ i = Len(a)
      <4>1. IsPrefix(a[i], x)
        BY <1>2, <1>3, <3>1, <3>4, PrefixOfItself
      <4>2. a[i] \in String
        BY <1>3, Names, ElementOfSeq
      <4>3. IsPrefix(a[i], y)
        BY <1>3, <2>2, <4>1, <4>2, PrefixOfPrefix DEF String
      <4> QED BY <2>3, <3>4, <4>3
    <3> QED BY <3>2, <3>3, <3>4
  <2>5. Begins(a, e)
    BY <1>2, <2>3, <2>4 DEF Begins
  <2> QED BY <2>1, <2>5
<1> QED BY <1>4, <1>5

\* The segments of a prefix begin those of the path.
LEMMA PrefixBegins ==
  ASSUME NEW s \in String, NEW t \in String, IsPrefix(s, t)
  PROVE  Begins(Split(s), Split(t))
<1>1. PICK u \in String : t = s \o u
  BY PrefixGoesOn DEF String
<1> DEFINE T == {v \in String : Begins(Split(s), Split(s \o v))}
<1>2. <<>> \in T
  <2>1. s \o <<>> = s
    BY ConcatEmptySeq DEF String
  <2>2. Split(s) \in Seq(Name) /\ Len(Split(s)) \in Nat
    BY SplitIs, LenProperties DEF Segmented
  <2>3. Begins(Split(s), Split(s))
    BY <2>2 DEF Begins
  <2> QED BY <2>1, <2>3, Names
<1>3. ASSUME NEW v \in Seq(Char), NEW c \in Char, v \in T PROVE Append(v, c) \in T
  <2>1. v \in String /\ <<c>> \in String /\ Append(v, c) = v \o <<c>> /\ Append(v, c) \in String
    BY AppendIsConcat, AppendProperties DEF String
  <2>2. s \o (v \o <<c>>) = (s \o v) \o <<c>> /\ s \o v \in String
    BY <2>1, ConcatAssociative, StringsConcat DEF String
  <2>3. (s \o v) \o <<c>> = Append(s \o v, c)
    BY <2>2, AppendIsConcat DEF String
  <2>4. Split(Append(s \o v, c)) = Longer(Split(s \o v), c) /\ Split(s \o v) \in Segmented
        /\ Split(s) \in Segmented
    BY <2>2, SplitOfAppend, SplitIs
  <2>5. Begins(Split(s), Longer(Split(s \o v), c))
    BY <1>3, <2>4, BeginsLonger
  <2> QED BY <2>1, <2>2, <2>3, <2>4, <2>5
<1>4. String \subseteq T
  <2> HIDE DEF T
  <2> QED BY <1>2, <1>3, ByAppending DEF String
<1> QED BY <1>1, <1>4

\* Segments, joined, are a path or its beginning if its own segments are, or
\* are begun by, them.
LEMMA JoinedAndSplit ==
  ASSUME NEW a \in Segmented, NEW s \in String
  PROVE  /\ Join(a) \in String
         /\ Join(a) = s <=> a = Split(s)
         /\ IsPrefix(Join(a), s) <=> Begins(a, Split(s))
<1>1. Split(s) \in Segmented /\ Join(Split(s)) = s /\ Join(a) \in String /\ Split(Join(a)) = a
  BY SplitIs, JoinOfSplit, SplitOfJoin, JoinOfAppend, Names DEF Segmented
<1>2. IsPrefix(Join(a), s) => Begins(a, Split(s))
  BY <1>1, PrefixBegins
<1>3. Begins(a, Split(s)) => IsPrefix(Join(a), s)
  BY <1>1, BeginningIsPrefix
<1> QED BY <1>1, <1>2, <1>3

-----------------------------------------------------------------------------
(* Places and segments *)

\* The characters patterns are read by, and the texts of them.
LEMMA Characters ==
  /\ {"/", "+", "*", "{", "}"} \subseteq Char
  /\ Slash \in String /\ Plus \in String /\ Star \in String
  /\ Open \in String /\ Close \in String
  /\ Plus \in Name
<1>1. {"/", "+", "*", "{", "}"} \subseteq Char
  <2>1. {"+", "*", "{", "}"} \subseteq Char
    BY ConstantsAssumption, Zenon
  <2>2. "/" \in Char
    BY SlashIsString
  <2>3. \A c \in {"/", "+", "*", "{", "}"} : c = "/" \/ c \in {"+", "*", "{", "}"}
    OBVIOUS
  <2> QED BY <2>1, <2>2, <2>3, Zenon
<1>2. /\ Slash \in String /\ Plus \in String /\ Star \in String
      /\ Open \in String /\ Close \in String
  <2>1. \A c, d \in Char : <<c>> \in Seq(Char) /\ <<c, d>> \in Seq(Char)
    OBVIOUS
  <2>2. "/" \in Char /\ "+" \in Char /\ "*" \in Char /\ "{" \in Char /\ "}" \in Char
    BY <1>1, Zenon
  <2> QED BY <2>1, <2>2, Zenon DEF Slash, Plus, Star, Open, Close, String
<1>3. Append(<<>>, "+") = Plus
  BY DEF Plus
<1>4. Plus \in Name
  BY <1>1, <1>3, Names
<1> QED BY <1>1, <1>2, <1>4

-----------------------------------------------------------------------------
(* Places *)

\* Where a text occurs in another.
LEMMA PlacesMean ==
  ASSUME NEW s \in String, NEW t \in String, t # <<>>
  PROVE  /\ Places(s, t) \subseteq Nat
         /\ \A i \in Nat :
              i \in Places(s, t) <=>
                i >= 1 /\ i + Len(t) - 1 <= Len(s) /\ \A j \in 1..Len(t) : s[i + j - 1] = t[j]
<1> DEFINE L == Len(t)
<1>1. L \in Nat \ {0} /\ Len(s) \in Nat
  BY EmptySeq, LenProperties DEF String
<1>2. ASSUME NEW i \in Nat
      PROVE  i \in Places(s, t) <=>
               i >= 1 /\ i + L - 1 <= Len(s) /\ \A j \in 1..L : s[i + j - 1] = t[j]
  <2>1. CASE ~ (i >= 1 /\ i + L - 1 <= Len(s))
    <3>1. i \notin 1..(Len(s) - L + 1)
      BY <1>1, <2>1
    <3> QED BY <2>1, <3>1 DEF Places
  <2>2. CASE i >= 1 /\ i + L - 1 <= Len(s)
    <3> DEFINE u == SubSeq(s, i, i + L - 1)
    <3>1. \A k \in i..(i + L - 1) : s[k] \in Char
      BY <1>1, <2>2, ElementOfSeq DEF String
    <3>2. /\ u \in Seq(Char)
          /\ Len(u) = IF i <= i + L - 1 THEN (i + L - 1) - i + 1 ELSE 0
          /\ \A j \in 1..((i + L - 1) - i + 1) : u[j] = s[i + j - 1]
      <4> HIDE DEF L
      <4>1. i \in Int /\ i + L - 1 \in Int
        BY <1>1
      <4> QED BY <3>1, <4>1, SubSeqProperties
    <3> HIDE DEF u, L
    <3>3. Len(u) = L /\ \A j \in 1..L : u[j] = s[i + j - 1]
      BY <1>1, <2>2, <3>2
    <3>4. u = t <=> \A j \in 1..L : s[i + j - 1] = t[j]
      <4>1. (\A j \in 1..L : u[j] = t[j]) => u = t
        BY <3>2, <3>3, SeqEqual DEF L, String
      <4> QED BY <3>3, <4>1
    <3>5. i \in 1..(Len(s) - L + 1)
      BY <1>1, <2>2
    <3>6. i \in Places(s, t) <=> u = t
      BY <3>5 DEF Places, L, u
    <3> QED BY <2>2, <3>4, <3>6
  <2> QED BY <2>1, <2>2
<1>3. Places(s, t) \subseteq Nat
  BY <1>1 DEF Places
<1> QED BY <1>2, <1>3

\* What occurs in a part occurs in the whole.
LEMMA PlaceWithin ==
  ASSUME NEW s \in String, NEW t \in String, t # <<>>, NEW x \in String, NEW u \in String,
         IsPrefix(u \o x, s), NEW i \in Places(x, t)
  PROVE  Len(u) + i \in Places(s, t)
<1>1. /\ Len(u) \in Nat /\ Len(x) \in Nat /\ Len(s) \in Nat /\ Len(t) \in Nat \ {0}
  BY EmptySeq, LenProperties DEF String
<1>2. /\ u \o x \in String /\ Len(u \o x) = Len(u) + Len(x)
      /\ \A k \in 1..(Len(u) + Len(x)) : (u \o x)[k] = IF k <= Len(u) THEN u[k] ELSE x[k - Len(u)]
  BY ConcatProperties DEF String
<1>3. Len(u) + Len(x) <= Len(s) /\ \A k \in 1..(Len(u) + Len(x)) : (u \o x)[k] = s[k]
  <2> DEFINE w == u \o x
  <2>1. w \in Seq(Char) /\ s \in Seq(Char) /\ Len(w) = Len(u) + Len(x) /\ IsPrefix(w, s)
    BY <1>2 DEF String
  <2> HIDE DEF w
  <2>2. Len(w) <= Len(s) /\ \A k \in 1..Len(w) : w[k] = s[k]
    BY <2>1, PrefixByPlaces
  <2> QED BY <2>1, <2>2 DEF w
<1>4. i \in Nat /\ i >= 1 /\ i + Len(t) - 1 <= Len(x) /\ \A j \in 1..Len(t) : x[i + j - 1] = t[j]
  BY PlacesMean
<1>5. ASSUME NEW j \in 1..Len(t) PROVE s[(Len(u) + i) + j - 1] = t[j]
  <2> DEFINE k == Len(u) + (i + j - 1)
  <2>1. k \in 1..(Len(u) + Len(x)) /\ ~ (k <= Len(u)) /\ k - Len(u) = i + j - 1
        /\ k = (Len(u) + i) + j - 1
    BY <1>1, <1>4
  <2> HIDE DEF k
  <2>2. s[k] = x[i + j - 1]
    BY <1>2, <1>3, <2>1
  <2> QED BY <1>4, <2>1, <2>2
<1>6. Len(u) + i \in Nat /\ Len(u) + i >= 1 /\ (Len(u) + i) + Len(t) - 1 <= Len(s)
  BY <1>1, <1>3, <1>4
<1> QED BY <1>5, <1>6, PlacesMean

\* What a part of a text includes, the text includes.
LEMMA IncludedWithin ==
  ASSUME NEW s \in String, NEW t \in String, t # <<>>, NEW x \in String, NEW u \in String,
         IsPrefix(u \o x, s), Includes(x, t)
  PROVE  Includes(s, t)
<1>1. PICK i : i \in Places(x, t)
  BY DEF Includes
<1> QED BY <1>1, PlaceWithin DEF Includes

\* A text includes itself.
LEMMA IncludesItself ==
  ASSUME NEW s \in String, s # <<>>
  PROVE  Includes(s, s)
<1>1. Len(s) \in Nat \ {0}
  BY EmptySeq DEF String
<1>2. 1 \in Nat /\ 1 >= 1 /\ 1 + Len(s) - 1 <= Len(s) /\ \A j \in 1..Len(s) : s[1 + j - 1] = s[j]
  BY <1>1
<1>3. 1 \in Places(s, s)
  BY <1>2, PlacesMean
<1> QED BY <1>3 DEF Includes

\* Texts of one and two characters.
LEMMA Pairs ==
  ASSUME NEW c \in Char, NEW d \in Char
  PROVE  /\ <<c>> \in String /\ <<c, d>> \in String /\ <<c, d>> # <<>> /\ Len(<<c, d>>) = 2
         /\ <<c>> \o <<d>> = <<c, d>> /\ Includes(<<c, d>>, <<c, d>>)
<1>1. <<c>> \in String /\ <<c, d>> \in String /\ <<c, d>> # <<>> /\ Len(<<c, d>>) = 2
  BY DEF String
<1>2. <<c>> \o <<d>> = <<c, d>>
  <2> DEFINE s == <<c>>
             t == Append(s, d)
             u == <<c, d>>
  <2>1. s \in Seq(Char) /\ Len(s) = 1 /\ s[1] = c
    BY <1>1 DEF String
  <2>2. u \in Seq(Char) /\ Len(u) = 2 /\ u[1] = c /\ u[2] = d
    <3>1. u[1] = c /\ u[2] = d
      OBVIOUS
    <3> QED BY <1>1, <3>1 DEF String
  <2> HIDE DEF s, u
  <2>3. t \in Seq(Char) /\ Len(t) = 2 /\ t[1] = c /\ t[2] = d
    <3>1. /\ t \in Seq(Char) /\ Len(t) = Len(s) + 1 /\ t[Len(s) + 1] = d
          /\ \A i \in 1..Len(s) : t[i] = s[i]
      BY <2>1, AppendProperties
    <3>2. 1 \in 1..Len(s) /\ Len(s) + 1 = 2
      BY <2>1
    <3> HIDE DEF t
    <3> QED BY <2>1, <3>1, <3>2
  <2> HIDE DEF t
  <2>4. \A i \in 1..2 : t[i] = u[i]
    BY <2>2, <2>3
  <2>5. t = u
    BY <2>2, <2>3, <2>4, SeqEqual
  <2>6. s \o <<d>> = t
    BY <2>1, AppendIsConcat DEF t
  <2> QED BY <2>5, <2>6 DEF s, u
<1> QED BY <1>1, <1>2, IncludesItself

-----------------------------------------------------------------------------
(* Segments within their path *)

\* Where the segments of a path are in it.
LEMMA SegmentsJoined ==
  ASSUME NEW a \in Segmented
  PROVE  /\ \A i \in 2..Len(a) : \E u \in String : IsPrefix((u \o <<"/">>) \o a[i], Join(a))
         /\ IF Len(a) = 1 THEN Join(a) = a[1] ELSE IsPrefix(a[1] \o <<"/">>, Join(a))
<1> DEFINE Good(b) ==
             /\ \A i \in 2..Len(b) : \E u \in String : IsPrefix((u \o <<"/">>) \o b[i], Join(b))
             /\ IF Len(b) = 1 THEN Join(b) = b[1] ELSE IsPrefix(b[1] \o <<"/">>, Join(b))
           T == {b \in Seq(Name) : b # <<>> => Good(b)}
<1>1. <<>> \in T
  OBVIOUS
<1>2. ASSUME NEW b \in Seq(Name), NEW x \in Name, b \in T PROVE Append(b, x) \in T
  <2> DEFINE e == Append(b, x)
             L == Len(b)
  <2>1. e \in Seq(Name) /\ L \in Nat /\ Len(e) = L + 1 /\ e[L + 1] = x /\ \A i \in 1..L : e[i] = b[i]
    BY AppendProperties, LenProperties
  <2>2. b = <<>> <=> L = 0
    BY EmptySeq
  <2>3. /\ \A i \in 1..L : b[i] \in String
        /\ x \in String /\ <<"/">> \in String /\ Join(b) \in String
    BY ElementOfSeq, Names, SlashIsString, JoinOfAppend
  <2>4. CASE b = <<>>
    <3>1. Join(e) = x
      BY <2>4, JoinOfAppend
    <3> HIDE DEF e, L
    <3>2. Good(e)
      BY <2>1, <2>2, <2>4, <3>1
    <3> QED BY <2>1, <3>2 DEF e
  <2>5. CASE b # <<>>
    <3>1. Good(b)
      BY <1>2, <2>5
    <3> DEFINE z == Join(b) \o <<"/">>
    <3>2. z \in String /\ Join(e) = z \o x /\ Join(e) \in String
      <4>1. z \in String
        BY <2>3, StringsConcat
      <4>2. Join(e) = z \o x
        BY <2>5, JoinOfAppend
      <4> HIDE DEF z, e
      <4> QED BY <2>3, <4>1, <4>2, StringsConcat
    <3>3. IsPrefix(z, Join(e)) /\ IsPrefix(Join(b), z) /\ IsPrefix(z \o x, Join(e))
      <4>1. IsPrefix(Join(b), z)
        BY <2>3, PrefixOfConcat DEF String
      <4> HIDE DEF z, e
      <4>2. IsPrefix(z, z \o x)
        BY <2>3, <3>2, PrefixOfConcat DEF String
      <4>3. IsPrefix(z \o x, z \o x)
        BY <3>2, PrefixOfItself
      <4> QED BY <3>2, <4>1, <4>2, <4>3
    <3>4. IsPrefix(Join(b), Join(e))
      <4> HIDE DEF z, e
      <4> QED BY <2>3, <3>2, <3>3, PrefixOfPrefix DEF String
    <3>5. \A s \in String : IsPrefix(s, Join(b)) => IsPrefix(s, Join(e))
      <4> HIDE DEF z, e
      <4> QED BY <2>3, <3>2, <3>4, PrefixOfPrefix DEF String
    <3>6. ASSUME NEW i \in 2..Len(e)
          PROVE  \E u \in String : IsPrefix((u \o <<"/">>) \o e[i], Join(e))
      <4>1. CASE i = L + 1
        <5>1. IsPrefix((Join(b) \o <<"/">>) \o e[i], Join(e))
          <6> HIDE DEF e, L
          <6> QED BY <2>1, <3>3, <4>1
        <5> HIDE DEF e
        <5> QED BY <2>3, <5>1
      <4>2. CASE i # L + 1
        <5>1. i \in 2..L /\ i \in 1..L
          BY <2>1, <4>2
        <5>2. PICK u \in String : IsPrefix((u \o <<"/">>) \o b[i], Join(b))
          BY <3>1, <5>1
        <5>3. (u \o <<"/">>) \o b[i] \in String
          BY <2>3, <5>1, StringsConcat
        <5>4. IsPrefix((u \o <<"/">>) \o b[i], Join(e))
          BY <3>5, <5>2, <5>3
        <5> QED BY <2>1, <5>1, <5>4
      <4> QED BY <4>1, <4>2
    <3>7. IsPrefix(e[1] \o <<"/">>, Join(e)) /\ Len(e) # 1
      <4>1. 1 \in 1..L /\ e[1] = b[1] /\ Len(e) # 1
        BY <2>1, <2>2, <2>5
      <4>2. CASE L = 1
        BY <2>1, <3>1, <3>3, <4>1, <4>2
      <4>3. CASE L # 1
        <5>1. b[1] \o <<"/">> \in String /\ IsPrefix(b[1] \o <<"/">>, Join(b))
          BY <2>3, <3>1, <4>1, <4>3, StringsConcat
        <5> QED BY <3>5, <4>1, <5>1
      <4> QED BY <4>1, <4>2, <4>3
    <3> HIDE DEF e
    <3>8. Good(e)
      BY <3>6, <3>7
    <3> QED BY <2>1, <3>8 DEF e
  <2> QED BY <2>4, <2>5
<1>3. Seq(Name) \subseteq T
  <2> HIDE DEF T
  <2> QED BY <1>1, <1>2, ByAppending
<1> QED BY <1>3 DEF Segmented

\* A segment of a path is in it.
LEMMA SegmentWithin ==
  ASSUME NEW s \in String, NEW i \in 1..Len(Split(s))
  PROVE  /\ Split(s)[i] \in Name /\ Split(s)[i] \in String
         /\ \E u \in String : IsPrefix(u \o Split(s)[i], s)
<1> DEFINE a == Split(s)
<1>1. a \in Segmented /\ a \in Seq(Name) /\ Join(a) = s /\ Len(a) \in Nat
  BY SplitIs, JoinOfSplit, LenProperties DEF Segmented
<1> HIDE DEF a
<1>2. a[i] \in Name /\ a[i] \in String
  BY <1>1, ElementOfSeq, Names DEF a
<1>3. CASE i # 1
  <2>1. i \in 2..Len(a)
    BY <1>1, <1>3 DEF a
  <2>2. PICK u \in String : IsPrefix((u \o <<"/">>) \o a[i], s)
    BY <1>1, <2>1, SegmentsJoined
  <2>3. u \o <<"/">> \in String
    BY SlashIsString, StringsConcat
  <2> QED BY <1>2, <2>2, <2>3 DEF a
<1>4. CASE i = 1
  <2>1. <<>> \in String /\ <<>> \o a[1] = a[1] /\ a[1] \in String
    BY <1>2, <1>4, Names, ConcatEmptySeq DEF String
  <2>2. IsPrefix(a[1], s)
    <3>1. CASE Len(a) = 1
      BY <1>1, <2>1, <3>1, SegmentsJoined, PrefixOfItself
    <3>2. CASE Len(a) # 1
      <4>1. IsPrefix(a[1] \o <<"/">>, s)
        BY <1>1, <3>2, SegmentsJoined
      <4>2. IsPrefix(a[1], a[1] \o <<"/">>) /\ a[1] \o <<"/">> \in String
        BY <2>1, SlashIsString, PrefixOfConcat DEF String
      <4> QED BY <2>1, <4>1, <4>2, PrefixOfPrefix DEF String
    <3> QED BY <3>1, <3>2
  <2>3. IsPrefix(<<>> \o a[1], s)
    BY <2>1, <2>2
  <2> QED BY <1>2, <1>4, <2>1, <2>3 DEF a
<1> QED BY <1>3, <1>4

-----------------------------------------------------------------------------
(* What a pattern covers *)

\* A pattern without its final "*", and its segments.
TextOf(p) == TrimSuffix(p, Star)
SegmentsOf(p) == Split(TextOf(p))

\* What a pattern says before its final "*".
LEMMA TextIs ==
  ASSUME NEW p \in String
  PROVE  /\ TextOf(p) \in String /\ SegmentsOf(p) \in Segmented
         /\ Join(SegmentsOf(p)) = TextOf(p)
         /\ EndsIn(p, Star) => p = Append(TextOf(p), "*")
         /\ ~ EndsIn(p, Star) => TextOf(p) = p
<1>1. /\ TextOf(p) \in String
      /\ EndsIn(p, Star) => p = Append(TextOf(p), "*")
      /\ ~ EndsIn(p, Star) => TextOf(p) = p
  BY Characters, WithoutEnding DEF TextOf, Star, String
<1> QED BY <1>1, SplitIs, JoinOfSplit DEF SegmentsOf

\* The segments of a pattern with each "+" as in a path.
FilledIn(mine, theirs) ==
  [i \in DOMAIN mine |-> IF mine[i] = Plus /\ i \in DOMAIN theirs THEN theirs[i] ELSE mine[i]]

\* A segment filled in is the path's for a "+", the pattern's otherwise.
LEMMA FilledInIs ==
  ASSUME NEW mine \in Segmented, NEW theirs \in Segmented
  PROVE  /\ FilledIn(mine, theirs) \in Segmented /\ Len(FilledIn(mine, theirs)) = Len(mine)
         /\ Len(mine) \in Nat /\ Len(theirs) \in Nat
         /\ DOMAIN mine = 1..Len(mine) /\ DOMAIN theirs = 1..Len(theirs)
         /\ \A i \in 1..Len(mine) :
              FilledIn(mine, theirs)[i] =
                IF mine[i] = Plus /\ i <= Len(theirs) THEN theirs[i] ELSE mine[i]
<1> DEFINE f == FilledIn(mine, theirs)
           L == Len(mine)
<1>1. /\ L \in Nat \ {0} /\ Len(theirs) \in Nat /\ DOMAIN mine = 1..L /\ DOMAIN theirs = 1..Len(theirs)
      /\ \A i \in 1..L : mine[i] \in Name
      /\ \A i \in 1..Len(theirs) : theirs[i] \in Name
  BY EmptySeq, LenProperties, ElementOfSeq DEF Segmented
<1>2. /\ f = [i \in 1..L |-> IF mine[i] = Plus /\ i \in 1..Len(theirs) THEN theirs[i] ELSE mine[i]]
  BY <1>1 DEF FilledIn
<1> HIDE DEF f, L
<1>3. f \in [1..L -> Name]
  BY <1>1, <1>2
<1>4. f \in Seq(Name)
  BY <1>1, <1>3, SeqDef
<1>5. Len(f) = L
  <2>1. DOMAIN f = 1..Len(f) /\ DOMAIN f = 1..L /\ Len(f) \in Nat
    BY <1>2, <1>4, LenProperties
  <2>2. L \in 1..Len(f)
    BY <1>1, <2>1
  <2>3. Len(f) \in 1..L
    BY <2>1, <2>2
  <2>4. L <= Len(f) /\ Len(f) <= L /\ Len(f) \in Nat
    BY <2>1, <2>2, <2>3
  <2> QED BY <1>1, <2>4
<1>6. f # <<>>
  BY <1>1, <1>5, EmptySeq
<1>7. \A i \in 1..L : f[i] = IF mine[i] = Plus /\ i <= Len(theirs) THEN theirs[i] ELSE mine[i]
  BY <1>1, <1>2
<1> QED BY <1>1, <1>4, <1>5, <1>6, <1>7 DEF Segmented, f, L

\* The reference's "covers", segment by segment.
LEMMA CoversIs ==
  ASSUME NEW p \in String, NEW path \in String
  PROVE  /\ EndsIn(p, Star) =>
              (Covers(p, path) <=> Begins(FilledIn(SegmentsOf(p), Split(path)), Split(path)))
         /\ ~ EndsIn(p, Star) =>
              (Covers(p, path) <=> FilledIn(SegmentsOf(p), Split(path)) = Split(path))
<1> DEFINE mine == SegmentsOf(p)
           theirs == Split(path)
           f == FilledIn(mine, theirs)
<1>1. mine \in Segmented /\ theirs \in Segmented
  BY TextIs, SplitIs
<1>2. f \in Segmented
  <2> HIDE DEF mine, theirs
  <2> QED BY <1>1, FilledInIs
<1>3. Covers(p, path) <=> IF EndsIn(p, Star) THEN IsPrefix(Join(f), path) ELSE Join(f) = path
  BY Zenon DEF Covers, f, mine, theirs, SegmentsOf, TextOf, FilledIn
<1> HIDE DEF f
<1>4. Join(f) = path <=> f = theirs
  BY <1>2, JoinedAndSplit
<1>5. IsPrefix(Join(f), path) <=> Begins(f, theirs)
  BY <1>2, JoinedAndSplit
<1> QED BY <1>3, <1>4, <1>5 DEF f

\* How the code matches segments (segmentWildcardMatches).
Matched(p, path) ==
  LET mine == SegmentsOf(p)
      theirs == Split(path)
  IN /\ Len(mine) <= Len(theirs)
     /\ EndsIn(p, Star) \/ Len(mine) = Len(theirs)
     /\ \A i \in 1..Len(mine) :
          \/ mine[i] \in {Plus, theirs[i]}
          \/ EndsIn(p, Star) /\ i = Len(mine) /\ IsPrefix(mine[i], theirs[i])

\* Matching segment by segment is covering.
LEMMA MatchedIsCovered ==
  ASSUME NEW p \in String, NEW path \in String
  PROVE  Matched(p, path) <=> Covers(p, path)
<1> DEFINE mine == SegmentsOf(p)
           theirs == Split(path)
           f == FilledIn(mine, theirs)
           star == EndsIn(p, Star)
<1>1. mine \in Segmented /\ theirs \in Segmented
  BY TextIs, SplitIs
<1> HIDE DEF mine, theirs
<1>2. /\ f \in Segmented /\ Len(f) = Len(mine) /\ Len(mine) \in Nat /\ Len(theirs) \in Nat
      /\ \A i \in 1..Len(mine) :
           f[i] = IF mine[i] = Plus /\ i <= Len(theirs) THEN theirs[i] ELSE mine[i]
  BY <1>1, FilledInIs
<1>3. /\ star => (Covers(p, path) <=> Begins(f, theirs))
      /\ ~ star => (Covers(p, path) <=> f = theirs)
  BY CoversIs DEF mine, theirs
<1>4. Matched(p, path) <=>
        /\ Len(mine) <= Len(theirs)
        /\ star \/ Len(mine) = Len(theirs)
        /\ \A i \in 1..Len(mine) :
             \/ mine[i] \in {Plus, theirs[i]}
             \/ star /\ i = Len(mine) /\ IsPrefix(mine[i], theirs[i])
  BY Zenon DEF Matched, mine, theirs
<1> HIDE DEF f, star
<1>s. \A i \in 1..Len(theirs) : IsPrefix(theirs[i], theirs[i])
  BY <1>1, ElementOfSeq, Names, PrefixOfItself DEF Segmented
<1>5. CASE star
  <2>1. Begins(f, theirs) <=>
          /\ Len(mine) <= Len(theirs)
          /\ \A i \in 1..Len(mine) : f[i] = theirs[i] \/ (i = Len(mine) /\ IsPrefix(f[i], theirs[i]))
    BY <1>2 DEF Begins
  <2>2. ASSUME Len(mine) <= Len(theirs), NEW i \in 1..Len(mine)
        PROVE  (f[i] = theirs[i] \/ (i = Len(mine) /\ IsPrefix(f[i], theirs[i])))
                 <=> \/ mine[i] \in {Plus, theirs[i]}
                     \/ star /\ i = Len(mine) /\ IsPrefix(mine[i], theirs[i])
    <3>1. i \in 1..Len(theirs)
      BY <1>2, <2>2
    <3>2. CASE mine[i] = Plus
      BY <1>2, <1>s, <2>2, <3>1, <3>2
    <3>3. CASE mine[i] # Plus
      BY <1>2, <1>5, <3>3
    <3> QED BY <3>2, <3>3
  <2> QED BY <1>3, <1>4, <1>5, <2>1, <2>2
<1>6. CASE ~ star
  <2>1. f = theirs <=> Len(f) = Len(theirs) /\ \A i \in 1..Len(f) : f[i] = theirs[i]
    BY <1>1, <1>2, SeqEqual DEF Segmented
  <2>2. ASSUME Len(mine) = Len(theirs), NEW i \in 1..Len(mine)
        PROVE  f[i] = theirs[i] <=> mine[i] \in {Plus, theirs[i]}
    BY <1>2, <2>2
  <2> QED BY <1>2, <1>3, <1>4, <1>6, <2>1, <2>2
<1> QED BY <1>5, <1>6

\* The text before a final "*" has no segment "+" in a prefix pattern.
LEMMA NoPlusInPrefix ==
  ASSUME NEW p \in String, EndsIn(p, Star), ~ HasSegmentWildcards(p), ~ Includes(p, <<"+", "*">>),
         NEW i \in 1..Len(SegmentsOf(p))
  PROVE  SegmentsOf(p)[i] # Plus
<1> DEFINE a == SegmentsOf(p)
           t == TextOf(p)
<1>1. /\ a \in Segmented /\ Join(a) = t /\ t \in String /\ p = Append(t, "*")
      /\ p = t \o <<"*">> /\ <<"*">> \in String /\ IsPrefix(t, p)
  <2>1. a \in Segmented /\ Join(a) = t /\ t \in String /\ p = Append(t, "*")
    BY TextIs
  <2> HIDE DEF t, a
  <2>2. <<"*">> \in String /\ "*" \in Char
    BY Characters DEF Star
  <2>3. p = t \o <<"*">>
    BY <2>1, <2>2, AppendIsConcat DEF String
  <2> QED BY <2>1, <2>2, <2>3, PrefixOfConcat DEF String
<1>2. Len(a) \in Nat /\ Len(Plus) = 1 /\ Plus[1] = "+" /\ "+" \in Char /\ "/" \in Char
  BY <1>1, LenProperties, Characters DEF Plus, Segmented
<1> HIDE DEF a, t
<1>3. SUFFICES ASSUME a[i] = Plus PROVE FALSE
  BY DEF a
<1>4. CASE i # 1
  <2>1. i \in 2..Len(a)
    BY <1>2, <1>4 DEF a
  <2>2. PICK u \in String : IsPrefix((u \o <<"/">>) \o Plus, t)
    BY <1>1, <1>3, <2>1, SegmentsJoined
  <2> DEFINE x == <<"/", "+">>
  <2>3. x \in String /\ x # <<>> /\ Includes(x, x) /\ x = <<"/">> \o Plus
    BY <1>2, Pairs DEF Plus
  <2>4. (u \o <<"/">>) \o Plus = u \o x
    <3>1. u \in Seq(Char) /\ <<"/">> \in Seq(Char) /\ Plus \in Seq(Char)
      BY SlashIsString, Characters DEF String
    <3>2. (u \o <<"/">>) \o Plus = u \o (<<"/">> \o Plus)
      BY <3>1, ConcatAssociative
    <3> HIDE DEF x
    <3> QED BY <2>3, <3>2
  <2> HIDE DEF x
  <2>5. IsPrefix(u \o x, t) /\ u \o x \in String
    BY <2>2, <2>3, <2>4, StringsConcat
  <2>6. IsPrefix(u \o x, p)
    BY <1>1, <2>5, PrefixOfPrefix DEF String
  <2>8. Includes(p, x)
    BY <1>1, <2>3, <2>6, IncludedWithin
  <2> QED BY <2>8 DEF HasSegmentWildcards, x
<1>5. CASE i = 1 /\ Len(a) # 1
  <2> DEFINE x == <<"+", "/">>
  <2>1. Plus \o <<"/">> = x /\ x \in String
    BY <1>2, Pairs DEF Plus
  <2>2. IsPrefix(x, t)
    BY <1>1, <1>3, <1>5, <2>1, SegmentsJoined
  <2> HIDE DEF x
  <2>3. IsPrefix(x, p)
    BY <1>1, <2>1, <2>2, PrefixOfPrefix DEF String
  <2> QED BY <2>3 DEF HasSegmentWildcards, x
<1>6. CASE i = 1 /\ Len(a) = 1
  <2>1. t = Plus
    BY <1>1, <1>3, <1>6, SegmentsJoined
  <2> DEFINE x == <<"+", "*">>
  <2>2. "*" \in Char
    BY Characters
  <2>3. Plus \o <<"*">> = x /\ Includes(x, x)
    BY <1>2, <2>2, Pairs DEF Plus
  <2> HIDE DEF x
  <2>4. p = x
    BY <1>1, <2>1, <2>3
  <2> QED BY <2>3, <2>4 DEF x
<1> QED BY <1>4, <1>5, <1>6

\* A prefix pattern covers the paths that start with its text.
LEMMA PrefixIsCovering ==
  ASSUME NEW p \in String, EndsIn(p, Star), ~ HasSegmentWildcards(p), ~ Includes(p, <<"+", "*">>),
         NEW path \in String
  PROVE  IsPrefix(TextOf(p), path) <=> Covers(p, path)
<1> DEFINE mine == SegmentsOf(p)
           theirs == Split(path)
           f == FilledIn(mine, theirs)
<1>1. mine \in Segmented /\ theirs \in Segmented /\ Join(mine) = TextOf(p)
  BY TextIs, SplitIs
<1>2. \A i \in 1..Len(mine) : mine[i] # Plus
  BY NoPlusInPrefix
<1>3. Covers(p, path) <=> Begins(f, theirs)
  BY CoversIs
<1>4. IsPrefix(TextOf(p), path) <=> Begins(mine, theirs)
  <2> HIDE DEF mine
  <2> QED BY <1>1, JoinedAndSplit DEF theirs
<1> HIDE DEF mine, theirs
<1>5. /\ f \in Segmented /\ Len(f) = Len(mine)
      /\ \A i \in 1..Len(mine) :
           f[i] = IF mine[i] = Plus /\ i <= Len(theirs) THEN theirs[i] ELSE mine[i]
  BY <1>1, FilledInIs
<1> HIDE DEF f
<1>6. f = mine
  BY <1>1, <1>2, <1>5, SeqEqual DEF Segmented
<1> QED BY <1>3, <1>4, <1>6

-----------------------------------------------------------------------------
(* The order of strings *)

\* Strings that are as long as each other differ first where one is less.
LEMMA AsLongLess ==
  ASSUME NEW s \in String, NEW t \in String, Len(s) = Len(t)
  PROVE  StringLess(s, t) <=>
           \E i \in 1..Len(s) : Code[s[i]] < Code[t[i]] /\ \A j \in 1..(i - 1) : s[j] = t[j]
<1>1. DOMAIN s = 1..Len(s) /\ DOMAIN t = 1..Len(s) /\ Len(s) \in Nat
  BY LenProperties DEF String
<1>2. ~ IsStrictPrefix(s, t)
  <2>1. SubSeq(s, 1, Len(s)) = s /\ SubSeq(t, 1, Len(t)) = t
    BY SubSeqFull DEF String
  <2> QED BY <2>1 DEF IsStrictPrefix, IsPrefix
<1> QED BY <1>1, <1>2 DEF StringLess

\* Strings that are as long as each other are ordered.
LEMMA StringOrder ==
  ASSUME NEW s \in String, NEW t \in String, NEW u \in String
  PROVE  /\ ~ StringLess(s, s)
         /\ Len(s) = Len(t) /\ Len(t) = Len(u) /\ StringLess(s, t) /\ StringLess(t, u) =>
              StringLess(s, u)
         /\ Len(s) = Len(t) => s = t \/ StringLess(s, t) \/ StringLess(t, s)
<1>1. Len(s) \in Nat /\ Len(t) \in Nat /\ Len(u) \in Nat
  BY LenProperties DEF String
<1>2. \A x \in String : \A i \in 1..Len(x) : x[i] \in Char /\ Code[x[i]] \in Nat
  <2>1. \A x \in String : \A i \in 1..Len(x) : x[i] \in Char
    BY ElementOfSeq DEF String
  <2>2. \A c \in Char : Code[c] \in Nat
    BY CharactersAreOrdered
  <2> QED BY <2>1, <2>2
<1>3. ~ StringLess(s, s)
  <2> SUFFICES ASSUME NEW i \in 1..Len(s), Code[s[i]] < Code[s[i]] PROVE FALSE
    BY AsLongLess
  <2> QED BY <1>2
<1>4. ASSUME Len(s) = Len(t), Len(t) = Len(u), StringLess(s, t), StringLess(t, u)
      PROVE  StringLess(s, u)
  <2>1. PICK i \in 1..Len(s) : Code[s[i]] < Code[t[i]] /\ \A j \in 1..(i - 1) : s[j] = t[j]
    BY <1>4, AsLongLess
  <2>2. PICK k \in 1..Len(s) : Code[t[k]] < Code[u[k]] /\ \A j \in 1..(k - 1) : t[j] = u[j]
    BY <1>4, AsLongLess
  <2>3. /\ Code[s[i]] \in Nat /\ Code[t[i]] \in Nat /\ Code[u[i]] \in Nat
        /\ Code[s[k]] \in Nat /\ Code[t[k]] \in Nat /\ Code[u[k]] \in Nat
    BY <1>2, <1>4
  <2>4. CASE i <= k
    <3>1. Code[s[i]] < Code[u[i]]
      <4>1. CASE i = k
        BY <2>1, <2>2, <2>3, <4>1
      <4>2. CASE i < k
        <5>1. i \in 1..(k - 1)
          BY <4>2
        <5> QED BY <2>1, <2>2, <5>1
      <4> QED BY <2>4, <4>1, <4>2
    <3>2. \A j \in 1..(i - 1) : j \in 1..(k - 1)
      BY <2>4
    <3>3. \A j \in 1..(i - 1) : s[j] = u[j]
      BY <2>1, <2>2, <3>2
    <3> QED BY <1>4, <3>1, <3>3, AsLongLess
  <2>5. CASE k < i
    <3>1. k \in 1..(i - 1) /\ \A j \in 1..(k - 1) : j \in 1..(i - 1)
      BY <2>5
    <3>2. Code[s[k]] < Code[u[k]] /\ \A j \in 1..(k - 1) : s[j] = u[j]
      BY <2>1, <2>2, <3>1
    <3> QED BY <1>4, <3>2, AsLongLess
  <2> QED BY <2>4, <2>5
<1>5. ASSUME Len(s) = Len(t), s # t
      PROVE  StringLess(s, t) \/ StringLess(t, s)
  <2> DEFINE differ == {i \in 1..Len(s) : s[i] # t[i]}
  <2>1. differ # {}
    BY <1>5, SeqEqual DEF String
  <2>2. differ \subseteq Nat
    OBVIOUS
  <2>3. PICK i \in differ : \A m \in differ : i <= m
    <3> HIDE DEF differ
    <3> QED BY <2>1, <2>2, LeastNumber
  <2>4. i \in 1..Len(s) /\ s[i] # t[i] /\ \A j \in 1..(i - 1) : s[j] = t[j]
    <3>1. \A j \in 1..(i - 1) : j \in 1..Len(s) /\ ~ (i <= j)
      BY <1>1
    <3> QED BY <2>3, <3>1
  <2>5. Code[s[i]] # Code[t[i]]
    <3>1. s[i] \in Char /\ t[i] \in Char
      BY <1>2, <1>5, <2>4
    <3> QED BY <2>4, <3>1, CharactersAreOrdered
  <2>6. Code[s[i]] < Code[t[i]] \/ Code[t[i]] < Code[s[i]]
    BY <1>2, <1>5, <2>4, <2>5
  <2>7. \A j \in 1..(i - 1) : t[j] = s[j]
    BY <2>4
  <2> QED BY <1>5, <2>4, <2>6, <2>7, AsLongLess
<1> QED BY <1>3, <1>4, <1>5

-----------------------------------------------------------------------------
(* What patterns are ranked by *)

Ranked == DOMAIN Candidate
Below(p, q) == PriorityLess(Candidate[p], Candidate[q])

PlusesOf(p) == {i \in DOMAIN SegmentsOf(p) : SegmentsOf(p)[i] = Plus}
FirstOf(p) == IF HasSegmentWildcards(p) THEN Index(p, Plus) ELSE Len(TextOf(p))

\* An index is a number.
LEMMA IndexIsNumber ==
  ASSUME NEW s \in String, NEW t \in String, t # <<>>
  PROVE  Index(s, t) \in Int
<1>1. CASE Places(s, t) = {}
  BY <1>1 DEF Index
<1>2. CASE Places(s, t) # {}
  <2>1. Places(s, t) \subseteq Nat
    BY PlacesMean
  <2>2. PICK n \in Places(s, t) : \A m \in Places(s, t) : n <= m
    BY <1>2, <2>1, LeastNumber
  <2>3. \E k \in Places(s, t) : \A m \in Places(s, t) : k =< m
    BY <2>2
  <2>4. Min(Places(s, t)) \in Places(s, t)
    BY <2>3 DEF Min
  <2> QED BY <1>2, <2>1, <2>4 DEF Index
<1> QED BY <1>1, <1>2

\* The patterns that are compared, and what they are compared by.
LEMMA Fields ==
  ASSUME NEW p \in Ranked
  PROVE  /\ p \in Patterns /\ p \in String /\ TextOf(p) \in String
         /\ Candidate[p].first = FirstOf(p) /\ FirstOf(p) \in Int
         /\ Candidate[p].star \in BOOLEAN /\ (Candidate[p].star <=> EndsIn(p, Star))
         /\ Candidate[p].text = TextOf(p) /\ Len(TextOf(p)) \in Nat
         /\ Candidate[p].wildcards \in Int /\ Cardinality(PlusesOf(p)) \in Int
         /\ p \notin Malformed => Candidate[p].wildcards = Cardinality(PlusesOf(p))
<1>1. /\ p \in PrefixPatterns \cup WildcardPatterns
      /\ Candidate[p] = IF p \in PrefixPatterns THEN PrefixCandidate(p) ELSE WildcardCandidate(p)
  BY DEF Ranked, Candidate
<1>2. p \in Patterns /\ p \in String
  BY <1>1, ConstantsAssumption DEF PrefixPatterns, WildcardPatterns
<1>3. /\ TextOf(p) \in String /\ Len(TextOf(p)) \in Nat
      /\ SegmentsOf(p) \in Segmented /\ Segments[p] = SegmentsOf(p)
  <2>1. TextOf(p) \in String /\ SegmentsOf(p) \in Segmented
    BY <1>2, TextIs
  <2>2. Segments[p] = SegmentsOf(p)
    BY <1>2 DEF Segments, SegmentsOf, TextOf
  <2> QED BY <2>1, <2>2, LenProperties DEF String
<1>4. Index(p, Plus) \in Int
  <2>1. Plus # <<>>
    BY DEF Plus
  <2> QED BY <1>2, <2>1, Characters, IndexIsNumber
<1>5. /\ DOMAIN SegmentsOf(p) = 1..Len(SegmentsOf(p)) /\ IsFiniteSet(PlusesOf(p))
      /\ Cardinality(PlusesOf(p)) \in Nat
  <2>1. DOMAIN SegmentsOf(p) = 1..Len(SegmentsOf(p)) /\ Len(SegmentsOf(p)) \in Nat
    BY <1>3, LenProperties DEF Segmented
  <2>2. IsFiniteSet(1..Len(SegmentsOf(p)))
    BY <2>1, FS_Interval
  <2>3. IsFiniteSet(PlusesOf(p))
    BY <2>1, <2>2, FS_Subset DEF PlusesOf
  <2> QED BY <2>1, <2>3, FS_CardinalityType
<1>6. FirstOf(p) \in Int
  BY <1>3, <1>4 DEF FirstOf
<1>7. CASE p \in PrefixPatterns
  <2>1. EndsIn(p, Star) /\ ~ HasSegmentWildcards(p) /\ MatchPath(p) = TextOf(p)
    BY <1>7 DEF PrefixPatterns, IsPrefixPattern, MatchPath, TextOf
  <2>2. Candidate[p] = [pattern |-> p, first |-> Len(TextOf(p)), star |-> TRUE, wildcards |-> 0,
                        text |-> TextOf(p)]
    BY <1>1, <1>7, <2>1, Zenon DEF PrefixCandidate
  <2>3. ASSUME p \notin Malformed PROVE Cardinality(PlusesOf(p)) = 0
    <3>1. ~ Includes(p, <<"+", "*">>)
      BY <1>2, <2>3 DEF Malformed
    <3>2. PlusesOf(p) = {}
      BY <1>2, <1>5, <2>1, <3>1, NoPlusInPrefix DEF PlusesOf
    <3> QED BY <3>2, FS_EmptySet
  <2>4. FirstOf(p) = Len(TextOf(p))
    BY <2>1 DEF FirstOf
  <2>5. /\ Candidate[p].first = Len(TextOf(p)) /\ Candidate[p].star = TRUE
        /\ Candidate[p].wildcards = 0 /\ Candidate[p].text = TextOf(p)
    BY <2>2
  <2>6. Candidate[p].star \in BOOLEAN /\ (Candidate[p].star <=> EndsIn(p, Star))
    BY <2>1, <2>5
  <2>7. Candidate[p].first = FirstOf(p) /\ Candidate[p].wildcards \in Int
    BY <2>4, <2>5
  <2>8. p \notin Malformed => Candidate[p].wildcards = Cardinality(PlusesOf(p))
    BY <2>3, <2>5
  <2>9. Candidate[p].text = TextOf(p) /\ Cardinality(PlusesOf(p)) \in Int
    BY <1>5, <2>5
  <2> QED BY <1>2, <1>3, <1>6, <2>6, <2>7, <2>8, <2>9, Zenon
<1>8. CASE p \notin PrefixPatterns
  <2>1. HasSegmentWildcards(p)
    BY <1>1, <1>8 DEF WildcardPatterns
  <2> DEFINE star == EndsIn(p, Star)
             n == Cardinality(PlusesOf(p))
  <2>2. star \in BOOLEAN
    BY DEF EndsIn
  <2>3. Candidate[p] = [pattern |-> p, first |-> Index(p, Plus), star |-> star,
                        wildcards |-> n, text |-> TextOf(p)]
    BY <1>1, <1>3, <1>8, Zenon DEF WildcardCandidate, TextOf, PlusesOf
  <2> HIDE DEF star, n
  <2>4. /\ Candidate[p].first = Index(p, Plus) /\ Candidate[p].star = star
        /\ Candidate[p].wildcards = n /\ Candidate[p].text = TextOf(p)
    BY <2>3
  <2>5. FirstOf(p) = Index(p, Plus)
    BY <2>1 DEF FirstOf
  <2>6. Candidate[p].star \in BOOLEAN /\ (Candidate[p].star <=> EndsIn(p, Star))
    BY <2>2, <2>4 DEF star
  <2>7. Candidate[p].wildcards = Cardinality(PlusesOf(p))
    BY <2>4 DEF n
  <2> QED BY <1>2, <1>3, <1>5, <1>6, <2>4, <2>5, <2>6, <2>7
<1> QED BY <1>7, <1>8

\* priorityLess is a strict order in which any two patterns compare.
LEMMA PriorityIsAnOrder ==
  ASSUME NEW p \in Ranked, NEW q \in Ranked, NEW r \in Ranked
  PROVE  /\ ~ Below(p, p)
         /\ Below(p, q) /\ Below(q, r) => Below(p, r)
         /\ p # q => Below(p, q) \/ Below(q, p)
<1> DEFINE a == Candidate[p]
           b == Candidate[q]
           c == Candidate[r]
<1>1. /\ a.first \in Int /\ a.wildcards \in Int /\ Len(a.text) \in Nat /\ a.star \in BOOLEAN
      /\ b.first \in Int /\ b.wildcards \in Int /\ Len(b.text) \in Nat /\ b.star \in BOOLEAN
      /\ c.first \in Int /\ c.wildcards \in Int /\ Len(c.text) \in Nat /\ c.star \in BOOLEAN
      /\ a.text \in String /\ b.text \in String /\ c.text \in String
  BY Fields
<1>2. a.text = b.text /\ a.star = b.star => p = q
  <2>1. /\ a.text = TextOf(p) /\ b.text = TextOf(q) /\ p \in String /\ q \in String
        /\ (a.star <=> EndsIn(p, Star)) /\ (b.star <=> EndsIn(q, Star))
    BY Fields
  <2>2. /\ EndsIn(p, Star) => p = Append(TextOf(p), "*")
        /\ ~ EndsIn(p, Star) => TextOf(p) = p
        /\ EndsIn(q, Star) => q = Append(TextOf(q), "*")
        /\ ~ EndsIn(q, Star) => TextOf(q) = q
    BY <2>1, TextIs
  <2> HIDE DEF a, b
  <2> QED BY <2>1, <2>2
<1> HIDE DEF a, b, c
<1>3. /\ ~ StringLess(a.text, a.text)
      /\ Len(a.text) = Len(b.text) /\ Len(b.text) = Len(c.text)
           /\ StringLess(a.text, b.text) /\ StringLess(b.text, c.text) => StringLess(a.text, c.text)
      /\ Len(a.text) = Len(b.text) =>
           a.text = b.text \/ StringLess(a.text, b.text) \/ StringLess(b.text, a.text)
  BY <1>1, StringOrder
<1>4. ~ PriorityLess(a, a)
  BY <1>1, <1>3 DEF PriorityLess
<1>5. PriorityLess(a, b) /\ PriorityLess(b, c) => PriorityLess(a, c)
  BY <1>1, <1>3 DEF PriorityLess
<1>6. p # q => PriorityLess(a, b) \/ PriorityLess(b, a)
  BY <1>1, <1>2, <1>3 DEF PriorityLess
<1> QED BY <1>4, <1>5, <1>6 DEF Below, a, b, c

\* Ranks are compared from the first number to the last.
LEMMA FirstDifference ==
  ASSUME NEW a, NEW b, \A i \in 1..4 : a[i] \in Int /\ b[i] \in Int
  PROVE  (\E i \in 1..4 : a[i] > b[i] /\ \A j \in 1..(i - 1) : a[j] = b[j]) <=>
            IF a[1] # b[1] THEN a[1] > b[1] ELSE IF a[2] # b[2] THEN a[2] > b[2]
            ELSE IF a[3] # b[3] THEN a[3] > b[3] ELSE a[4] > b[4]
<1>1. 1..4 = {1, 2, 3, 4} /\ 1..0 = {} /\ 1..1 = {1} /\ 1..2 = {1, 2} /\ 1..3 = {1, 2, 3}
      /\ 1 - 1 = 0 /\ 2 - 1 = 1 /\ 3 - 1 = 2 /\ 4 - 1 = 3
  OBVIOUS
<1> DEFINE First(i) == a[i] > b[i] /\ \A j \in 1..(i - 1) : a[j] = b[j]
<1>2. /\ First(1) <=> a[1] > b[1]
      /\ First(2) <=> a[2] > b[2] /\ a[1] = b[1]
      /\ First(3) <=> a[3] > b[3] /\ a[1] = b[1] /\ a[2] = b[2]
      /\ First(4) <=> a[4] > b[4] /\ a[1] = b[1] /\ a[2] = b[2] /\ a[3] = b[3]
  BY <1>1
<1>3. /\ a[1] \in Int /\ a[2] \in Int /\ a[3] \in Int /\ a[4] \in Int
      /\ b[1] \in Int /\ b[2] \in Int /\ b[3] \in Int /\ b[4] \in Int
  BY <1>1
<1> HIDE DEF First
<1>4. (\E i \in 1..4 : First(i)) <=> First(1) \/ First(2) \/ First(3) \/ First(4)
  BY <1>1
<1> QED BY <1>2, <1>3, <1>4 DEF First

\* The reference's order of importance is the code's priority.
LEMMA OutrankingIsPriority ==
  ASSUME NEW p \in Ranked \ Malformed, NEW q \in Ranked \ Malformed
  PROVE  Outranks(p, q) <=> Below(q, p)
<1> DEFINE a == Candidate[p]
           b == Candidate[q]
           x == Rank(p)
           y == Rank(q)
           Degree(star) == IF star THEN 0 ELSE 1
<1>1. ASSUME NEW r \in Ranked \ Malformed
      PROVE  Rank(r) = <<Candidate[r].first, Degree(Candidate[r].star), - Candidate[r].wildcards,
                         Len(Candidate[r].text)>>
  <2>1. /\ Candidate[r].first = FirstOf(r) /\ (Candidate[r].star <=> EndsIn(r, Star))
        /\ Candidate[r].star \in BOOLEAN
        /\ Candidate[r].text = TextOf(r) /\ Candidate[r].wildcards = Cardinality(PlusesOf(r))
    BY <1>1, Fields
  <2>2. Rank(r) = <<FirstOf(r), IF EndsIn(r, Star) THEN 0 ELSE 1, - Cardinality(PlusesOf(r)),
                    Len(TextOf(r))>>
    BY Zenon DEF Rank, FirstOf, PlusesOf, SegmentsOf, TextOf
  <2>3. Degree(Candidate[r].star) = IF EndsIn(r, Star) THEN 0 ELSE 1
    BY <2>1
  <2> QED BY <2>1, <2>2, <2>3, Zenon
<1>2. /\ a.first \in Int /\ a.wildcards \in Int /\ Len(a.text) \in Nat /\ a.star \in BOOLEAN
      /\ b.first \in Int /\ b.wildcards \in Int /\ Len(b.text) \in Nat /\ b.star \in BOOLEAN
      /\ a.text = TextOf(p) /\ b.text = TextOf(q)
  BY Fields
<1>3. /\ x = <<a.first, Degree(a.star), - a.wildcards, Len(a.text)>>
      /\ y = <<b.first, Degree(b.star), - b.wildcards, Len(b.text)>>
  BY <1>1
<1>4. Outranks(p, q) <=>
        \/ \E i \in 1..4 : x[i] > y[i] /\ \A j \in 1..(i - 1) : x[j] = y[j]
        \/ x = y /\ StringLess(b.text, a.text)
  BY <1>2 DEF Outranks, TextOf
<1> HIDE DEF a, b, x, y
<1>5. Degree(a.star) \in Int /\ Degree(b.star) \in Int
      /\ - a.wildcards \in Int /\ - b.wildcards \in Int
  BY <1>2
<1>6. /\ (\E i \in 1..4 : x[i] > y[i] /\ \A j \in 1..(i - 1) : x[j] = y[j]) <=>
           IF a.first # b.first THEN a.first > b.first
           ELSE IF Degree(a.star) # Degree(b.star) THEN Degree(a.star) > Degree(b.star)
           ELSE IF - a.wildcards # - b.wildcards THEN - a.wildcards > - b.wildcards
           ELSE Len(a.text) > Len(b.text)
      /\ x = y <=> /\ a.first = b.first /\ Degree(a.star) = Degree(b.star)
                   /\ - a.wildcards = - b.wildcards /\ Len(a.text) = Len(b.text)
  <2> DEFINE m == - a.wildcards
             n == - b.wildcards
  <2> HIDE DEF Degree, m, n
  <2>1. /\ x[1] = a.first /\ x[2] = Degree(a.star) /\ x[3] = m /\ x[4] = Len(a.text)
        /\ y[1] = b.first /\ y[2] = Degree(b.star) /\ y[3] = n /\ y[4] = Len(b.text)
    BY <1>3 DEF m, n
  <2>2. x = y <=> x[1] = y[1] /\ x[2] = y[2] /\ x[3] = y[3] /\ x[4] = y[4]
    <3>1. x = <<x[1], x[2], x[3], x[4]>> /\ y = <<y[1], y[2], y[3], y[4]>>
      BY <1>3, <2>1 DEF m, n
    <3> QED BY <3>1
  <2>3. /\ x[1] \in Int /\ x[2] \in Int /\ x[3] \in Int /\ x[4] \in Int
        /\ y[1] \in Int /\ y[2] \in Int /\ y[3] \in Int /\ y[4] \in Int
    BY <1>2, <1>5, <2>1 DEF m, n
  <2>4. \A i \in 1..4 : x[i] \in Int /\ y[i] \in Int
    <3>1. \A i \in 1..4 : i = 1 \/ i = 2 \/ i = 3 \/ i = 4
      OBVIOUS
    <3> QED BY <2>3, <3>1
  <2>5. (\E i \in 1..4 : x[i] > y[i] /\ \A j \in 1..(i - 1) : x[j] = y[j]) <=>
            IF x[1] # y[1] THEN x[1] > y[1] ELSE IF x[2] # y[2] THEN x[2] > y[2]
            ELSE IF x[3] # y[3] THEN x[3] > y[3] ELSE x[4] > y[4]
    BY <2>4, FirstDifference
  <2> QED BY <2>1, <2>2, <2>5 DEF m, n
<1>7. /\ Degree(a.star) # Degree(b.star) <=> a.star # b.star
      /\ a.star # b.star => (Degree(a.star) > Degree(b.star) <=> b.star)
      /\ - a.wildcards # - b.wildcards <=> a.wildcards # b.wildcards
      /\ - a.wildcards > - b.wildcards <=> b.wildcards > a.wildcards
  BY <1>2
<1>8. PriorityLess(b, a) <=>
        IF b.first # a.first THEN b.first < a.first
        ELSE IF b.star # a.star THEN b.star
        ELSE IF b.wildcards # a.wildcards THEN b.wildcards > a.wildcards
        ELSE IF Len(b.text) # Len(a.text) THEN Len(b.text) < Len(a.text)
        ELSE StringLess(b.text, a.text)
  BY Zenon DEF PriorityLess
<1> HIDE DEF Degree
<1> QED BY <1>2, <1>4, <1>6, <1>7, <1>8 DEF Below, a, b

-----------------------------------------------------------------------------
(* Compiling *)

\* The rules of a pattern, and the policies that grant a capability by them.
RulesOf(p) == {r \in taken : r.path = p}
Granters(rules, c) == {r.source : r \in {q \in rules : c \in q.caps}}

\* What rules say together.
Denied(rules) == \E r \in rules : "deny" \in r.caps
Granted(rules) == UNION {r.caps : r \in rules}
Constrained(rules) == \E r \in rules : r.constrained

\* What a compiled rule says of a set of rules: MergedAsASet, of one pattern.
MergeOf(target, rules) ==
  IF Denied(rules)
  THEN /\ target.effective = {"deny"} /\ ~ target.constrained
       /\ target.granting["deny"] \subseteq Granters(rules, "deny")
  ELSE /\ target.effective = Granted(rules)
       /\ target.constrained <=> Constrained(rules)
       /\ \A c \in target.effective : target.granting[c] = Granters(rules, c)

\* A compiled rule keeps sources for the capabilities in effect, and only known
\* ones.
IsCompiled(t) ==
  /\ t = [effective |-> t.effective, constrained |-> t.constrained, granting |-> t.granting]
  /\ t.effective \subseteq Known /\ t.constrained \in BOOLEAN
  /\ t.granting \in [t.effective -> (SUBSET Sources) \ {{}}]

\* The patterns of the rules, none of them malformed, are compiled, each to what
\* its rules come to.
IInv ==
  /\ taken \subseteq Rule
  /\ DOMAIN compiled = Labels(taken)
  /\ DOMAIN compiled \subseteq Patterns \ Malformed
  /\ \A p \in DOMAIN compiled : IsCompiled(compiled[p]) /\ MergeOf(compiled[p], RulesOf(p))

-----------------------------------------------------------------------------
(* mergeRule *)

\* The fields of a rule.
LEMMA RuleFields ==
  ASSUME NEW r \in Rule
  PROVE  r.path \in Patterns /\ r.source \in Sources /\ r.constrained \in BOOLEAN
<1>1. PICK p \in Patterns, g \in Grants, l \in Lives, s \in Sources :
        r = [path |-> p, caps |-> g.caps, constrained |-> g.constrained, live |-> l, source |-> s]
  BY DEF Rule
<1> QED
  BY <1>1, ConstantsAssumption

\* One more rule grants what it says, and every capability has one source more
\* if the rule grants it.
LEMMA OneMoreGranter ==
  ASSUME NEW rules \in SUBSET Rule, NEW rule \in Rule, NEW c \in Known
  PROVE  Granters(rules \cup {rule}, c)
           = Granters(rules, c) \cup (IF c \in rule.caps THEN {rule.source} ELSE {})
BY DEF Granters

\* Nothing is granted by nobody.
LEMMA GrantedBySomebody ==
  ASSUME NEW rules \in SUBSET Rule, NEW c \in Known, c \notin Granted(rules)
  PROVE  Granters(rules, c) = {}
BY DEF Granters, Granted

\* What rules say, with one more.
LEMMA OneMoreRule ==
  ASSUME NEW rules \in SUBSET Rule, NEW rule \in Rule
  PROVE  /\ Denied(rules \cup {rule}) <=> Denied(rules) \/ "deny" \in rule.caps
         /\ Granted(rules \cup {rule}) = Granted(rules) \cup rule.caps
         /\ Constrained(rules \cup {rule}) <=> Constrained(rules) \/ rule.constrained
         /\ "deny" \in Granted(rules) <=> Denied(rules)
BY DEF Denied, Granted, Constrained

\* The rule of a pattern nothing has been said of.
LEMMA NewRuleIsNothing == IsCompiled(NewRule) /\ MergeOf(NewRule, {})
<1>1. /\ NewRule.effective = {} /\ NewRule.constrained = FALSE /\ NewRule.granting = <<>>
      /\ NewRule = [effective |-> NewRule.effective, constrained |-> NewRule.constrained,
                    granting |-> NewRule.granting]
  BY DEF NewRule
<1>2. NewRule.granting \in [{} -> (SUBSET Sources) \ {{}}]
  BY <1>1
<1>3. ~ Denied({}) /\ Granted({}) = {} /\ ~ Constrained({})
  BY DEF Denied, Granted, Constrained
<1> QED
  BY <1>1, <1>2, <1>3 DEF IsCompiled, MergeOf

\* The three ways a rule is merged.
LEMMA Merging ==
  ASSUME NEW target, NEW rule
  PROVE  /\ "deny" \in target.effective => MergeRule(target, rule) = target
         /\ "deny" \notin target.effective /\ "deny" \in rule.caps =>
              MergeRule(target, rule) =
                [effective |-> {"deny"}, constrained |-> FALSE,
                 granting |-> [c \in {"deny"} |-> {rule.source}]]
         /\ "deny" \notin target.effective /\ "deny" \notin rule.caps =>
              MergeRule(target, rule) =
                [effective |-> target.effective \cup rule.caps,
                 constrained |-> target.constrained \/ rule.constrained,
                 granting |-> [c \in target.effective \cup rule.caps |->
                        (IF c \in target.effective THEN target.granting[c] ELSE {})
                          \cup (IF c \in rule.caps THEN {rule.source} ELSE {})]]
BY DEF MergeRule

\* Merging a rule gives the merge of the rules there were and that one.
LEMMA MergeAddsOne ==
  ASSUME NEW rules \in SUBSET Rule, NEW rule \in Rule, rule.caps \subseteq Known,
         NEW target, IsCompiled(target), MergeOf(target, rules)
  PROVE  /\ IsCompiled(MergeRule(target, rule))
         /\ MergeOf(MergeRule(target, rule), rules \cup {rule})
<1>0. rule.source \in Sources /\ rule.constrained \in BOOLEAN
  BY RuleFields
<1> "deny" \in Known
  BY DEF Known
<1>1. "deny" \in target.effective <=> Denied(rules)
  BY OneMoreRule DEF MergeOf
<1>2. CASE "deny" \in target.effective
  <2>1. Denied(rules) /\ Denied(rules \cup {rule}) /\ MergeRule(target, rule) = target
    BY <1>1, <1>2, OneMoreRule, Merging
  <2>2. Granters(rules, "deny") \subseteq Granters(rules \cup {rule}, "deny")
    BY OneMoreGranter
  <2> QED
    BY <1>1, <1>2, <2>1, <2>2 DEF MergeOf
<1>3. CASE "deny" \notin target.effective /\ "deny" \in rule.caps
  <2>1. PICK merged : merged = [effective |-> {"deny"}, constrained |-> FALSE,
                                granting |-> [c \in {"deny"} |-> {rule.source}]]
    OBVIOUS
  <2>2. Denied(rules \cup {rule}) /\ MergeRule(target, rule) = merged
    <3>1. Denied(rules \cup {rule})
      BY <1>3, OneMoreRule
    <3>2. MergeRule(target, rule) = merged
      BY <1>3, <2>1, Zenon DEF MergeRule
    <3> QED
      BY <3>1, <3>2
  <2>3. rule.source \in Granters(rules \cup {rule}, "deny")
    BY <1>3, OneMoreGranter
  <2>4. IsCompiled(merged)
    BY <1>0, <1>3, <2>1 DEF IsCompiled, Known
  <2>5. MergeOf(merged, rules \cup {rule})
    BY <2>1, <2>2, <2>3 DEF MergeOf
  <2> QED
    BY <2>2, <2>4, <2>5
<1>4. CASE "deny" \notin target.effective /\ "deny" \notin rule.caps
  <2> DEFINE sources(c) == (IF c \in target.effective THEN target.granting[c] ELSE {})
                             \cup (IF c \in rule.caps THEN {rule.source} ELSE {})
             sourcesOf == [c \in target.effective \cup rule.caps |-> sources(c)]
  <2>1. /\ target.effective = Granted(rules)
        /\ target.constrained <=> Constrained(rules)
        /\ \A c \in target.effective : target.granting[c] = Granters(rules, c)
    BY <1>1, <1>4 DEF MergeOf
  <2>2. PICK b \in BOOLEAN : b = (target.constrained \/ rule.constrained)
    BY <1>0 DEF IsCompiled
  <2>3. ASSUME NEW c \in target.effective \cup rule.caps
        PROVE  sources(c) = Granters(rules \cup {rule}, c)
    <3>1. c \in Known
      BY DEF IsCompiled
    <3>2. (IF c \in target.effective THEN target.granting[c] ELSE {}) = Granters(rules, c)
      <4>1. CASE c \in target.effective
        BY <2>1, <4>1
      <4>2. CASE c \notin target.effective
        BY <2>1, <3>1, <4>2, GrantedBySomebody
      <4> QED
        BY <4>1, <4>2
    <3>3. Granters(rules \cup {rule}, c)
            = Granters(rules, c) \cup (IF c \in rule.caps THEN {rule.source} ELSE {})
      BY <3>1, OneMoreGranter
    <3> QED
      BY <3>2, <3>3, Zenon
  <2>4. \A c \in target.effective \cup rule.caps : sources(c) \in (SUBSET Sources) \ {{}}
    BY <1>0 DEF IsCompiled
  <2> HIDE DEF sources
  <2>5. sourcesOf \in [target.effective \cup rule.caps -> (SUBSET Sources) \ {{}}]
    BY <2>4
  <2>6. \A c \in target.effective \cup rule.caps :
          sourcesOf[c] = Granters(rules \cup {rule}, c)
    BY <2>3
  <2>7. MergeRule(target, rule) = [effective |-> target.effective \cup rule.caps,
                                   constrained |-> b, granting |-> sourcesOf]
    BY <1>4, <2>2, Merging DEF sources
  <2>8. /\ ~ Denied(rules \cup {rule})
        /\ Granted(rules \cup {rule}) = target.effective \cup rule.caps
        /\ Constrained(rules \cup {rule}) <=> b
    BY <1>1, <1>4, <2>1, <2>2, OneMoreRule
  <2> HIDE DEF sourcesOf
  <2>9. target.effective \subseteq Known
    BY DEF IsCompiled
  <2>10. PICK merged : merged = [effective |-> target.effective \cup rule.caps,
                                 constrained |-> b, granting |-> sourcesOf]
    OBVIOUS
  <2>11. /\ merged.effective = target.effective \cup rule.caps
         /\ merged.constrained = b /\ merged.granting = sourcesOf
         /\ merged = [effective |-> merged.effective, constrained |-> merged.constrained,
                      granting |-> merged.granting]
    BY <2>10
  <2>12. IsCompiled(merged)
    BY <2>2, <2>5, <2>9, <2>11 DEF IsCompiled
  <2>13. MergeOf(merged, rules \cup {rule})
    BY <2>6, <2>8, <2>11 DEF MergeOf
  <2> QED
    BY <2>7, <2>10, <2>12, <2>13
<1> QED
  BY <1>2, <1>3, <1>4

-----------------------------------------------------------------------------
(* Compile *)

\* A rule that is taken, and one that is not, leave every pattern compiled to
\* what its rules come to.
LEMMA CompileKeeps ==
  ASSUME IInv, NEW rule \in Rule, CompileRule(rule)
  PROVE  IInv'
<1> USE DEF IInv
<1>1. CASE UNCHANGED <<compiled, taken>>
  BY <1>1 DEF RulesOf
<1>2. CASE /\ rule.caps \subseteq Known /\ rule.path \notin Malformed
           /\ compiled' = [p \in DOMAIN compiled \cup {rule.path} |->
                             IF p = rule.path THEN MergeRule(Found(p), rule) ELSE compiled[p]]
           /\ taken' = taken \cup {rule}
  <2>1. rule.path \in Patterns
    BY RuleFields
  <2>2. /\ taken' \subseteq Rule /\ DOMAIN compiled' \subseteq Patterns \ Malformed
        /\ DOMAIN compiled' = Labels(taken')
    BY <1>2, <2>1 DEF Labels
  <2>3. ASSUME NEW p \in DOMAIN compiled', p # rule.path
        PROVE  IsCompiled(compiled'[p]) /\ MergeOf(compiled'[p], RulesOf(p)')
    <3>1. compiled'[p] = compiled[p] /\ p \in DOMAIN compiled
      BY <1>2, <2>3
    <3>2. RulesOf(p)' = RulesOf(p)
      BY <1>2, <2>3 DEF RulesOf
    <3> QED
      BY <3>1, <3>2
  <2>4. ASSUME NEW p \in DOMAIN compiled', p = rule.path
        PROVE  IsCompiled(compiled'[p]) /\ MergeOf(compiled'[p], RulesOf(p)')
    <3>1. compiled'[p] = MergeRule(Found(p), rule)
      BY <1>2, <2>4
    <3>2. RulesOf(p)' = RulesOf(p) \cup {rule} /\ RulesOf(p) \in SUBSET Rule
      BY <1>2, <2>4 DEF RulesOf
    <3>3. IsCompiled(Found(p)) /\ MergeOf(Found(p), RulesOf(p))
      <4>1. CASE p \in DOMAIN compiled
        BY <4>1 DEF Found
      <4>2. CASE p \notin DOMAIN compiled
        <5>1. RulesOf(p) = {} /\ Found(p) = NewRule
          BY <4>2 DEF RulesOf, Found, Labels
        <5> QED
          BY <5>1, NewRuleIsNothing
      <4> QED
        BY <4>1, <4>2
    <3>4. PICK t : t = Found(p)
      OBVIOUS
    <3>5. IsCompiled(MergeRule(t, rule)) /\ MergeOf(MergeRule(t, rule), RulesOf(p) \cup {rule})
      BY <1>2, <3>2, <3>3, <3>4, MergeAddsOne
    <3> QED
      BY <3>1, <3>2, <3>4, <3>5
  <2> QED
    BY <2>2, <2>3, <2>4
<1> QED
  BY <1>1, <1>2 DEF CompileRule

\* The invariant holds before, between and after the rules.
LEMMA Inductive == Spec => []IInv
<1>1. Init => IInv
  BY DEF Init, IInv, Labels
<1>2. IInv /\ [Next]_vars => IInv'
  <2> SUFFICES ASSUME IInv, [Next]_vars PROVE IInv'
    OBVIOUS
  <2>1. CASE UNCHANGED <<compiled, taken>>
    BY <2>1 DEF IInv, RulesOf
  <2>2. ASSUME NEW path \in Requested, NEW cap \in Asked, Evaluate(path, cap)
        PROVE  UNCHANGED <<compiled, taken>>
    BY <2>2 DEF Evaluate
  <2> QED
    BY <2>1, <2>2, CompileKeeps DEF Next, vars
<1> QED
  BY <1>1, <1>2, PTL DEF Spec

\* mergeRule's claim, "the overall RESULT is order-independent": whatever rules
\* there are of a pattern and in whatever order they come, the compiled rule is
\* what they come to as a set - denied if any denies, with a source that does;
\* otherwise all they grant, each grant with exactly the policies it came from.
THEOREM OrderDoesNotMatter == Spec => []MergedAsASet
<1>1. IInv => MergedAsASet
  <2> SUFFICES ASSUME IInv, NEW p \in DOMAIN compiled
               PROVE  LET rules == {r \in taken : r.path = p}
                          granters(c) == {r.source : r \in {q \in rules : c \in q.caps}}
                      IN IF \E r \in rules : "deny" \in r.caps
                         THEN /\ compiled[p].effective = {"deny"} /\ ~ compiled[p].constrained
                              /\ compiled[p].granting["deny"] \subseteq granters("deny")
                         ELSE /\ compiled[p].effective = UNION {r.caps : r \in rules}
                              /\ compiled[p].constrained = (\E r \in rules : r.constrained)
                              /\ \A c \in compiled[p].effective :
                                   compiled[p].granting[c] = granters(c)
    BY DEF MergedAsASet
  <2>1. MergeOf(compiled[p], RulesOf(p)) /\ compiled[p].constrained \in BOOLEAN
    BY DEF IInv, IsCompiled
  <2>2. \A c : Granters(RulesOf(p), c)
                 = {r.source : r \in {q \in {r \in taken : r.path = p} : c \in q.caps}}
    BY DEF Granters, RulesOf
  <2>3. /\ Denied(RulesOf(p)) <=> \E r \in {r \in taken : r.path = p} : "deny" \in r.caps
        /\ Granted(RulesOf(p)) = UNION {r.caps : r \in {r \in taken : r.path = p}}
        /\ Constrained(RulesOf(p)) <=> \E r \in {r \in taken : r.path = p} : r.constrained
    BY DEF Denied, Granted, Constrained, RulesOf
  <2> QED
    BY <2>1, <2>2, <2>3 DEF MergeOf
<1> QED
  BY <1>1, Inductive, PTL

\* Every compiled rule keeps at least one granting source for each capability
\* in effect, and for no other (evaluator.go, compiledRule).
THEOREM SourcesAreKept == Spec => [](\A p \in DOMAIN compiled : IsCompiled(compiled[p]))
<1>1. IInv => \A p \in DOMAIN compiled : IsCompiled(compiled[p])
  BY DEF IInv
<1> QED
  BY <1>1, Inductive, PTL

-----------------------------------------------------------------------------
(* The winner *)

\* An order in which everything is less than something, among the members of a
\* set, has no finite set but the empty one.
LEMMA OneIsGreatest ==
  ASSUME NEW S, IsFiniteSet(S), S # {}, NEW R,
         \A p \in S : <<p, p>> \notin R,
         \A p, q, r \in S : <<p, q>> \in R /\ <<q, r>> \in R => <<p, r>> \in R
  PROVE  \E p \in S : \A q \in S : <<p, q>> \notin R
<1> DEFINE above(p) == {q \in S : <<p, q>> \in R}
           counts == {Cardinality(above(p)) : p \in S}
<1>1. \A p \in S : IsFiniteSet(above(p)) /\ Cardinality(above(p)) \in Nat
  BY FS_Subset, FS_CardinalityType
<1>2. counts \subseteq Nat /\ counts # {}
  <2>1. PICK p : p \in S
    OBVIOUS
  <2> HIDE DEF above
  <2>2. Cardinality(above(p)) \in counts
    BY <2>1
  <2> QED BY <1>1, <2>2
<1>3. PICK n \in counts : \A m \in counts : n <= m
  BY <1>2, LeastNumber
<1>4. PICK p \in S : n = Cardinality(above(p))
  BY <1>3
<1>5. ASSUME NEW q \in S, <<p, q>> \in R PROVE FALSE
  <2>1. above(q) \subseteq above(p) /\ above(q) # above(p)
    BY <1>5
  <2> HIDE DEF above
  <2>2. Cardinality(above(q)) < Cardinality(above(p))
    BY <1>1, <2>1, FS_Subset
  <2>3. Cardinality(above(q)) \in counts
    OBVIOUS
  <2> QED BY <1>1, <1>2, <1>3, <1>4, <2>2, <2>3
<1> QED BY <1>4, <1>5

\* The candidates no other one is preferred to.
Unbeaten(path) ==
  {p \in Candidates(path) : \A q \in Candidates(path) \ {p} : ~ Below(p, q)}

\* matchNonExact has one winner, so the order it looks at the patterns in, which
\* is the order of the rules, does not matter.
LEMMA OneWinner ==
  ASSUME NEW path, NEW stage, IsFiniteSet(Candidates(path)), Candidates(path) \subseteq Ranked,
         Candidates(path) # {}
  PROVE  LET found == MatchNonExact(stage, path)
         IN  /\ found.pattern \in Candidates(path) /\ Unbeaten(path) = {found.pattern}
             /\ found.stage = stage
             /\ found.losers = (Candidates(path) \ {found.pattern}) \cup ShorterPrefixes(path)
<1> DEFINE C == Candidates(path)
           R == {pair \in Ranked \X Ranked : Below(pair[1], pair[2])}
           unbeaten(p) == \A q \in C \ {p} : ~ Below(p, q)
           best == CHOOSE p \in C : unbeaten(p)
<1>1. \A p, q \in Ranked : <<p, q>> \in R <=> Below(p, q)
  OBVIOUS
<1>2. \E p \in C : unbeaten(p)
  <2> HIDE DEF C, R
  <2>1. /\ \A p \in C : <<p, p>> \notin R
        /\ \A p, q, r \in C : <<p, q>> \in R /\ <<q, r>> \in R => <<p, r>> \in R
    BY <1>1, PriorityIsAnOrder DEF C
  <2>2. PICK p \in C : \A q \in C : <<p, q>> \notin R
    BY <2>1, OneIsGreatest DEF C
  <2>3. \A q \in C : ~ Below(p, q)
    BY <1>1, <2>2 DEF C
  <2> QED BY <2>2, <2>3
<1>3. best \in C /\ unbeaten(best)
  <2> HIDE DEF C, unbeaten
  <2> QED BY <1>2
<1>4. \A p \in C : unbeaten(p) => p = best
  <2> HIDE DEF best
  <2> QED BY <1>3, PriorityIsAnOrder
<1>5. Unbeaten(path) = {best}
  <2> HIDE DEF best
  <2> QED BY <1>3, <1>4 DEF Unbeaten
<1>6. MatchNonExact(stage, path) =
        [stage |-> stage, pattern |-> best, losers |-> (C \ {best}) \cup ShorterPrefixes(path)]
  BY Zenon DEF MatchNonExact, Below
<1> HIDE DEF best, C
<1>7. /\ MatchNonExact(stage, path).stage = stage /\ MatchNonExact(stage, path).pattern = best
      /\ MatchNonExact(stage, path).losers = (C \ {best}) \cup ShorterPrefixes(path)
  BY <1>6
<1> QED BY <1>3, <1>5, <1>7 DEF C

\* The candidates are compiled patterns that can be compared.
LEMMA CandidatesAre ==
  ASSUME NEW path \in Forms, DOMAIN compiled \subseteq Patterns, IsFiniteSet(DOMAIN compiled)
  PROVE  /\ Candidates(path) \subseteq DOMAIN compiled /\ Candidates(path) \subseteq Ranked
         /\ IsFiniteSet(Candidates(path)) /\ ShorterPrefixes(path) \subseteq DOMAIN compiled
<1>1. /\ Prefixing[path] \subseteq PrefixPatterns /\ WildcardMatching[path] \subseteq WildcardPatterns
  BY DEF Prefixing, WildcardMatching
<1>2. MatchingPrefixes(path) \subseteq DOMAIN compiled \cap PrefixPatterns
  BY <1>1 DEF MatchingPrefixes
<1>3. Longest(MatchingPrefixes(path)) \subseteq MatchingPrefixes(path)
  BY DEF Longest
<1>4. /\ Candidates(path) \subseteq DOMAIN compiled
      /\ Candidates(path) \subseteq PrefixPatterns \cup WildcardPatterns
  BY <1>1, <1>2, <1>3 DEF Candidates
<1>5. Ranked = PrefixPatterns \cup WildcardPatterns
  BY DEF Ranked, Candidate
<1>6. IsFiniteSet(Candidates(path))
  BY <1>4, FS_Subset
<1> QED BY <1>2, <1>4, <1>5, <1>6 DEF ShorterPrefixes

\* The form of the path a pattern that is not exact was matched with.
MatchedWith(found, path) == IF found.stage = "pattern" THEN path ELSE TrimSuffix(path, Slash)

\* What is found is compiled, or nothing; and a pattern that is not exact is the
\* one that no other candidate is preferred to.
IsFound(found, path) ==
  /\ found.stage \in Stages /\ found.losers \subseteq Patterns
  /\ found.pattern = None \/ found.pattern \in DOMAIN compiled
  /\ found.stage \in {"pattern", "pattern trimmed"} =>
       Unbeaten(MatchedWith(found, path)) = {found.pattern}

\* What is looked up is found among the compiled patterns.
LEMMA LookupFinds ==
  ASSUME NEW path \in Requested, NEW cap, DOMAIN compiled \subseteq Patterns,
         IsFiniteSet(DOMAIN compiled)
  PROVE  IsFound(LookupLiteral(path, cap), path)
<1> DEFINE trimmed == TrimSuffix(path, Slash)
           found == LookupLiteral(path, cap)
<1>1. path \in Forms /\ trimmed \in Forms
  BY DEF Forms
<1>2. ASSUME NEW form \in Forms, NEW stage \in {"pattern", "pattern trimmed"},
             Candidates(form) # {}, form = IF stage = "pattern" THEN path ELSE trimmed
      PROVE  IsFound(MatchNonExact(stage, form), path)
  <2> DEFINE match == MatchNonExact(stage, form)
  <2>1. /\ Candidates(form) \subseteq DOMAIN compiled /\ Candidates(form) \subseteq Ranked
        /\ IsFiniteSet(Candidates(form)) /\ ShorterPrefixes(form) \subseteq DOMAIN compiled
    BY <1>2, CandidatesAre
  <2>2. /\ match.pattern \in Candidates(form) /\ Unbeaten(form) = {match.pattern}
        /\ match.stage = stage
        /\ match.losers = (Candidates(form) \ {match.pattern}) \cup ShorterPrefixes(form)
    BY <1>2, <2>1, OneWinner
  <2> HIDE DEF match
  <2>3. match.losers \subseteq Patterns /\ match.pattern \in DOMAIN compiled
    BY <2>1, <2>2
  <2>4. MatchedWith(match, path) = form
    BY <1>2, <2>2 DEF MatchedWith
  <2> QED BY <2>2, <2>3, <2>4 DEF IsFound, Stages, match
<1>3. ASSUME NEW stage \in {"exact", "exact trimmed"}, NEW p \in DOMAIN compiled
      PROVE  IsFound(Exact(stage, p), path)
  BY DEF IsFound, Exact, Stages
<1>4. IsFound(NothingFound, path)
  BY DEF IsFound, NothingFound, Stages
<1>5. Exacts \subseteq DOMAIN compiled
  BY DEF Exacts
<1>6. found = IF path \in Exacts THEN Exact("exact", path)
              ELSE IF ListOrScan(cap) /\ trimmed \in Exacts THEN Exact("exact trimmed", trimmed)
              ELSE IF Candidates(path) # {} THEN MatchNonExact("pattern", path)
              ELSE IF ListOrScan(cap) /\ Candidates(trimmed) # {}
              THEN MatchNonExact("pattern trimmed", trimmed)
              ELSE NothingFound
  BY Zenon DEF LookupLiteral
<1>7. Candidates(path) # {} => IsFound(MatchNonExact("pattern", path), path)
  BY <1>1, <1>2
<1>8. Candidates(trimmed) # {} => IsFound(MatchNonExact("pattern trimmed", trimmed), path)
  BY <1>1, <1>2
<1> HIDE DEF found, trimmed
<1> QED BY <1>3, <1>4, <1>5, <1>6, <1>7, <1>8 DEF found

-----------------------------------------------------------------------------
(* Looking up *)

\* A path without its leading slashes is a path.
LEMMA TrimmedIsString ==
  ASSUME NEW s \in String
  PROVE  TrimLeadingSlashes(s) \in String
<1> DEFINE L == Len(s)
           suffixes == {SubSeq(s, i, L) : i \in 1..(L + 1)}
           Trimmed(t) == ~ IsPrefix(<<"/">>, t) /\ \A i \in 1..(L - Len(t)) : s[i] = "/"
           ends == {i \in 1..(L + 1) : i = L + 1 \/ s[i] # "/"}
<1>1. L \in Nat
  BY LenProperties DEF String
<1>2. ASSUME NEW i \in 1..(L + 1)
      PROVE  /\ SubSeq(s, i, L) \in String /\ Len(SubSeq(s, i, L)) = L - i + 1
             /\ \A j \in 1..(L - i + 1) : SubSeq(s, i, L)[j] = s[i + j - 1]
  <2>1. \A j \in i..L : s[j] \in Char
    BY <1>1, ElementOfSeq DEF String
  <2>2. /\ SubSeq(s, i, L) \in Seq(Char) /\ Len(SubSeq(s, i, L)) = IF i <= L THEN L - i + 1 ELSE 0
        /\ \A j \in 1..(L - i + 1) : SubSeq(s, i, L)[j] = s[i + j - 1]
    <3> HIDE DEF L
    <3> QED BY <1>1, <2>1, SubSeqProperties
  <2> HIDE DEF L
  <2>3. (IF i <= L THEN L - i + 1 ELSE 0) = L - i + 1
    BY <1>1
  <2> QED BY <2>2, <2>3 DEF String
<1> HIDE DEF L
<1>3. PICK n \in ends : \A m \in ends : n <= m
  <2>1. L + 1 \in ends /\ ends \subseteq Nat
    BY <1>1
  <2> HIDE DEF ends
  <2>2. ends # {}
    BY <2>1
  <2> QED BY <2>1, <2>2, LeastNumber
<1>4. n \in 1..(L + 1) /\ (n = L + 1 \/ s[n] # "/")
  OBVIOUS
<1> DEFINE t == SubSeq(s, n, L)
<1>5. t \in String /\ Len(t) = L - n + 1 /\ \A j \in 1..(L - n + 1) : t[j] = s[n + j - 1]
  BY <1>2, <1>4
<1> HIDE DEF t
<1>6. ~ IsPrefix(<<"/">>, t)
  <2>1. Len(<<"/">>) = 1 /\ <<"/">>[1] = "/" /\ <<"/">> \in String
    BY SlashIsString
  <2> DEFINE slash == <<"/">>
  <2>2. ASSUME IsPrefix(slash, t) PROVE 1 <= Len(t) /\ t[1] = "/"
    <3> HIDE DEF slash
    <3>0. slash \in Seq(Char) /\ t \in Seq(Char)
      BY <1>5, <2>1 DEF String, slash
    <3>1. Len(slash) <= Len(t) /\ \A i \in 1..Len(slash) : slash[i] = t[i]
      BY <2>2, <3>0, PrefixByPlaces
    <3>2. Len(slash) = 1 /\ slash[1] = "/" /\ 1 \in 1..Len(slash)
      BY <2>1 DEF slash
    <3> QED BY <3>1, <3>2
  <2>3. n + 1 - 1 = n /\ (1 <= L - n + 1 => n # L + 1 /\ 1 \in 1..(L - n + 1))
    BY <1>1, <1>4
  <2> QED BY <1>4, <1>5, <2>2, <2>3
<1>7. \A i \in 1..(L - Len(t)) : s[i] = "/"
  <2>1. L - Len(t) = n - 1
    BY <1>1, <1>4, <1>5
  <2>2. ASSUME NEW i \in 1..(n - 1), s[i] # "/" PROVE FALSE
    <3>1. i \in ends /\ ~ (n <= i)
      BY <1>1, <1>4, <2>2
    <3> HIDE DEF ends
    <3> QED BY <1>3, <3>1
  <2> QED BY <2>1, <2>2
<1>8. t \in suffixes /\ Trimmed(t)
  BY <1>4, <1>6, <1>7 DEF t
<1>9. TrimLeadingSlashes(s) = CHOOSE x \in suffixes : Trimmed(x)
  BY DEF TrimLeadingSlashes, L
<1>10. suffixes \subseteq String
  BY <1>2
<1> HIDE DEF suffixes, Trimmed
<1>11. TrimLeadingSlashes(s) \in suffixes
  BY <1>8, <1>9
<1> QED BY <1>10, <1>11

\* The forms of a path are strings.
LEMMA FormsAreStrings == Forms \subseteq String /\ Requested \subseteq Forms
<1>1. Paths \subseteq String
  BY ConstantsAssumption
<1>2. Requested \subseteq String
  BY <1>1, TrimmedIsString DEF Requested
<1>3. \A path \in Requested : TrimSuffix(path, Slash) \in String
  BY <1>2, SlashIsString, WithoutEnding DEF Slash, String
<1> QED BY <1>2, <1>3 DEF Forms

-----------------------------------------------------------------------------
(* Rivals *)

\* The patterns the code finds are those that cover the path.
LEMMA RivalsAre ==
  ASSUME IInv, NEW path \in Forms
  PROVE  /\ Rivals(taken, path)
              = MatchingPrefixes(path) \cup (DOMAIN compiled \cap WildcardMatching[path])
         /\ Rivals(taken, path) \subseteq Ranked \ Malformed
         /\ MatchingPrefixes(path) \cap WildcardPatterns = {}
         /\ MatchingPrefixes(path) \subseteq PrefixPatterns
<1>1. /\ DOMAIN compiled = Labels(taken) /\ path \in String
      /\ \A p \in DOMAIN compiled : p \in Patterns /\ p \in String /\ p \notin Malformed
  BY FormsAreStrings, ConstantsAssumption DEF IInv
<1>2. ASSUME NEW p \in DOMAIN compiled
      PROVE  p \in MatchingPrefixes(path) <=> p \in PrefixPatterns /\ Covers(p, path)
  <2>1. p \in MatchingPrefixes(path) <=> p \in PrefixPatterns /\ IsPrefix(MatchPath(p), path)
    BY DEF MatchingPrefixes, Prefixing
  <2>2. ASSUME p \in PrefixPatterns
        PROVE  IsPrefix(MatchPath(p), path) <=> Covers(p, path)
    <3>1. EndsIn(p, Star) /\ ~ HasSegmentWildcards(p) /\ MatchPath(p) = TextOf(p)
      BY <2>2 DEF PrefixPatterns, IsPrefixPattern, MatchPath, TextOf
    <3>2. ~ Includes(p, <<"+", "*">>)
      BY <1>1 DEF Malformed
    <3> QED BY <1>1, <3>1, <3>2, PrefixIsCovering
  <2> QED BY <2>1, <2>2
<1>3. ASSUME NEW p \in DOMAIN compiled
      PROVE  p \in WildcardMatching[path] <=> p \in WildcardPatterns /\ Covers(p, path)
  <2>1. p \in WildcardMatching[path] <=> p \in WildcardPatterns /\ SegmentsMatch(p, path)
    BY DEF WildcardMatching
  <2>2. Segments[p] = SegmentsOf(p)
    BY <1>1 DEF Segments, SegmentsOf, TextOf
  <2>3. SegmentsMatch(p, path) <=> Matched(p, path)
    BY <2>2, Zenon DEF SegmentsMatch, Matched
  <2>4. Matched(p, path) <=> Covers(p, path)
    BY <1>1, MatchedIsCovered
  <2> QED BY <2>1, <2>3, <2>4
<1>4. ASSUME NEW p \in DOMAIN compiled
      PROVE  ~ IsExact(p) <=> p \in PrefixPatterns \/ p \in WildcardPatterns
  BY <1>1 DEF IsExact, PrefixPatterns, IsPrefixPattern, WildcardPatterns
<1>5. /\ MatchingPrefixes(path) \subseteq DOMAIN compiled /\ MatchingPrefixes(path) \subseteq PrefixPatterns
  BY DEF MatchingPrefixes, Prefixing
<1>6. \A p : p \in Rivals(taken, path) <=> p \in DOMAIN compiled /\ ~ IsExact(p) /\ Covers(p, path)
  BY <1>1 DEF Rivals
<1>7. Rivals(taken, path)
        = MatchingPrefixes(path) \cup (DOMAIN compiled \cap WildcardMatching[path])
  BY <1>2, <1>3, <1>4, <1>5, <1>6
<1>8. Ranked = PrefixPatterns \cup WildcardPatterns
  BY DEF Ranked, Candidate
<1>9. PrefixPatterns \cap WildcardPatterns = {}
  BY DEF PrefixPatterns, IsPrefixPattern, WildcardPatterns
<1> QED BY <1>1, <1>4, <1>5, <1>6, <1>7, <1>8, <1>9

\* Of prefixes of which one is longer, the longer one has priority.
LEMMA LongerHasPriority ==
  ASSUME NEW p \in PrefixPatterns \ Malformed, NEW q \in PrefixPatterns \ Malformed, Len(p) < Len(q)
  PROVE  Below(p, q)
<1>1. p \in Ranked /\ q \in Ranked
  BY DEF Ranked, Candidate
<1>2. /\ EndsIn(p, Star) /\ ~ HasSegmentWildcards(p)
      /\ EndsIn(q, Star) /\ ~ HasSegmentWildcards(q)
  BY DEF PrefixPatterns, IsPrefixPattern
<1>3. /\ Candidate[p].first = Len(TextOf(p)) /\ Candidate[q].first = Len(TextOf(q))
      /\ Len(TextOf(p)) \in Nat /\ Len(TextOf(q)) \in Nat
      /\ p \in String /\ q \in String /\ TextOf(p) \in String /\ TextOf(q) \in String
  BY <1>1, <1>2, Fields DEF FirstOf
<1>4. "*" \in Char /\ p = Append(TextOf(p), "*") /\ q = Append(TextOf(q), "*")
  BY <1>2, <1>3, TextIs, Characters
<1>5. Len(p) = Len(TextOf(p)) + 1 /\ Len(q) = Len(TextOf(q)) + 1
  BY <1>3, <1>4, AppendProperties DEF String
<1>6. Candidate[p].first < Candidate[q].first
  BY <1>3, <1>5
<1> HIDE DEF Candidate
<1> QED BY <1>3, <1>6 DEF Below, PriorityLess

\* Of patterns some are longest, and every other is shorter than those.
LEMMA LongestAre ==
  ASSUME NEW S, IsFiniteSet(S), S # {}, S \subseteq String
  PROVE  /\ Longest(S) # {} /\ Longest(S) \subseteq S
         /\ \A p \in S \ Longest(S), q \in Longest(S) : Len(p) < Len(q)
<1> DEFINE R == {pair \in S \X S : Len(pair[1]) < Len(pair[2])}
<1>1. \A p, q \in S : <<p, q>> \in R <=> Len(p) < Len(q)
  OBVIOUS
<1>2. \A p \in S : Len(p) \in Nat
  BY LenProperties DEF String
<1> HIDE DEF R
<1>3. PICK p \in S : \A q \in S : <<p, q>> \notin R
  <2>1. /\ \A x \in S : <<x, x>> \notin R
        /\ \A x, y, z \in S : <<x, y>> \in R /\ <<y, z>> \in R => <<x, z>> \in R
    BY <1>1, <1>2
  <2> QED BY <2>1, OneIsGreatest
<1>4. p \in Longest(S)
  <2>1. ASSUME NEW q \in S PROVE Len(q) <= Len(p)
    <3>1. ~ (Len(p) < Len(q))
      BY <1>1, <1>3, Zenon
    <3> QED BY <1>2, <3>1
  <2> QED BY <2>1 DEF Longest
<1>5. ASSUME NEW x \in S \ Longest(S), NEW y \in Longest(S) PROVE Len(x) < Len(y)
  <2>1. PICK q \in S : ~ (Len(q) <= Len(x))
    BY <1>5 DEF Longest
  <2>2. y \in S /\ Len(q) <= Len(y)
    BY DEF Longest
  <2> QED BY <1>2, <1>5, <2>1, <2>2
<1> QED BY <1>4, <1>5 DEF Longest

\* The winner of the candidates outranks every pattern that covers the path,
\* and the losers are the others.
LEMMA WinnerIsBest ==
  ASSUME IInv, IsFiniteSet(DOMAIN compiled), NEW path \in Forms, NEW stage
  PROVE  /\ Candidates(path) # {} <=> Rivals(taken, path) # {}
         /\ Candidates(path) # {} =>
              LET found == MatchNonExact(stage, path)
              IN /\ found.stage = stage /\ found.pattern \in DOMAIN compiled
                 /\ {found.pattern} = Best(Rivals(taken, path))
                 /\ found.losers = Rivals(taken, path) \ {found.pattern}
<1> DEFINE M == MatchingPrefixes(path)
           W == DOMAIN compiled \cap WildcardMatching[path]
           C == Candidates(path)
           S == Rivals(taken, path)
<1>1. S = M \cup W /\ S \subseteq Ranked \ Malformed /\ M \cap W = {} /\ M \subseteq PrefixPatterns
      /\ S \subseteq DOMAIN compiled
  <2>1. W \subseteq WildcardPatterns
    BY DEF WildcardMatching
  <2>2. S \subseteq DOMAIN compiled
    BY DEF Rivals, IInv
  <2> QED BY <2>1, <2>2, RivalsAre
<1>2. C = Longest(M) \cup W
  BY DEF Candidates
<1>3. IsFiniteSet(M) /\ IsFiniteSet(C) /\ C \subseteq Ranked /\ M \subseteq String /\ S \subseteq String
  <2>1. DOMAIN compiled \subseteq Patterns
    BY DEF IInv
  <2>2. IsFiniteSet(C) /\ C \subseteq Ranked
    BY <2>1, CandidatesAre
  <2>3. M \subseteq DOMAIN compiled
    BY DEF MatchingPrefixes
  <2>4. S \subseteq String /\ M \subseteq String
    BY <1>1, <2>1, <2>3, ConstantsAssumption
  <2> QED BY <2>2, <2>3, <2>4, FS_Subset
<1>4. Longest(M) \subseteq M /\ (M # {} => Longest(M) # {})
      /\ \A p \in M \ Longest(M), q \in Longest(M) : Len(p) < Len(q)
  <2>1. CASE M = {}
    BY <2>1 DEF Longest
  <2>2. CASE M # {}
    BY <1>3, <2>2, LongestAre
  <2> QED BY <2>1, <2>2
<1> HIDE DEF M, W, C, S
<1>5. C # {} <=> S # {}
  BY <1>1, <1>2, <1>4
<1>6. ASSUME C # {}
      PROVE  LET found == MatchNonExact(stage, path)
              IN /\ found.stage = stage /\ found.pattern \in DOMAIN compiled
                 /\ {found.pattern} = Best(S) /\ found.losers = S \ {found.pattern}
  <2> DEFINE found == MatchNonExact(stage, path)
             w == found.pattern
  <2>1. /\ w \in C /\ Unbeaten(path) = {w} /\ found.stage = stage
        /\ found.losers = (C \ {w}) \cup ShorterPrefixes(path)
    BY <1>3, <1>6, OneWinner DEF C
  <2> HIDE DEF found, w
  <2>2. ShorterPrefixes(path) = M \ Longest(M)
    BY DEF ShorterPrefixes, M
  <2>3. found.losers = S \ {w}
    BY <1>1, <1>2, <1>4, <2>1, <2>2
  <2>4. w \in S /\ w \in Ranked
    BY <1>1, <1>2, <1>4, <2>1
  <2>5. \A q \in C \ {w} : ~ Below(w, q)
    BY <2>1 DEF Unbeaten, C
  <2>6. ASSUME NEW q \in C, q # w PROVE Below(q, w)
    BY <1>3, <2>4, <2>5, <2>6, PriorityIsAnOrder
  <2>7. ASSUME NEW q \in S, q # w PROVE Below(q, w)
    <3>1. CASE q \in C
      BY <2>6, <2>7, <3>1
    <3>2. CASE q \notin C
      <4>1. q \in M \ Longest(M)
        BY <1>1, <1>2, <3>2
      <4>2. PICK l : l \in Longest(M)
        BY <1>4, <4>1
      <4>3. Len(q) < Len(l) /\ q \in PrefixPatterns \ Malformed /\ l \in PrefixPatterns \ Malformed
            /\ l \in C /\ l \in Ranked /\ q \in Ranked
        BY <1>1, <1>2, <1>4, <4>1, <4>2
      <4>4. Below(q, l)
        BY <4>3, LongerHasPriority
      <4>5. l = w \/ Below(l, w)
        BY <2>6, <4>3
      <4> QED BY <2>4, <4>3, <4>4, <4>5, PriorityIsAnOrder
    <3> QED BY <3>1, <3>2
  <2>8. \A p, q \in S : Outranks(p, q) <=> Below(q, p)
    BY <1>1, OutrankingIsPriority
  <2>9. Best(S) = {w}
    <3>1. w \in Best(S)
      BY <2>4, <2>7, <2>8 DEF Best
    <3>2. ASSUME NEW p \in Best(S), p # w PROVE FALSE
      <4>1. p \in S /\ Outranks(p, w)
        BY <2>4, <3>2 DEF Best
      <4>2. Below(w, p) /\ Below(p, w) /\ p \in Ranked
        BY <1>1, <2>4, <2>7, <2>8, <3>2, <4>1
      <4> QED BY <2>4, <4>2, PriorityIsAnOrder
    <3> QED BY <3>1, <3>2
  <2>10. w \in DOMAIN compiled
    BY <1>1, <2>4
  <2> QED BY <2>1, <2>3, <2>9, <2>10 DEF found, w
<1> QED BY <1>5, <1>6 DEF C, S

-----------------------------------------------------------------------------
(* The pattern that decides *)

\* What is found is the pattern that decides by the reference, and what it wins
\* over.
IsDeciding(found, path, cap) ==
  /\ {found.pattern} \ {None} = Deciding(taken, path, cap)
  /\ found.pattern = None \/ found.pattern \in DOMAIN compiled
  /\ found.stage \in {"pattern", "pattern trimmed"} =>
       found.losers = Rivals(taken, MatchedWith(found, path)) \ {found.pattern}

\* What the code looks up is what decides by the reference.
LEMMA LookupDecides ==
  ASSUME IInv, IsFiniteSet(DOMAIN compiled), NEW path \in Requested, NEW cap
  PROVE  IsDeciding(LookupLiteral(path, cap), path, cap)
<1> DEFINE trimmed == TrimSuffix(path, Slash)
           found == LookupLiteral(path, cap)
           second == IF ListOrScan(cap) THEN trimmed ELSE path
           exact == {p \in {path, second} \cap Labels(taken) : IsExact(p)}
<1>1. path \in Forms /\ trimmed \in Forms /\ second \in Forms
  BY DEF Forms
<1>2. Deciding(taken, path, cap) =
        IF path \in exact THEN {path}
        ELSE IF exact # {} THEN exact
        ELSE IF Rivals(taken, path) # {} THEN Best(Rivals(taken, path))
        ELSE Best(Rivals(taken, second))
  BY Zenon DEF Deciding
<1>3. /\ DOMAIN compiled = Labels(taken) /\ DOMAIN compiled \subseteq Patterns
      /\ None \notin DOMAIN compiled
  BY ConstantsAssumption DEF IInv
<1>4. \A p : p \in Exacts <=> p \in Labels(taken) /\ IsExact(p)
  BY <1>3 DEF Exacts, ExactPatterns
<1>5. /\ path \in exact <=> path \in Exacts
      /\ exact # {} <=> path \in Exacts \/ second \in Exacts
      /\ path \notin Exacts /\ second \in Exacts => exact = {second}
      /\ Exacts \subseteq DOMAIN compiled
  BY <1>3, <1>4
<1>6. found = IF path \in Exacts THEN Exact("exact", path)
              ELSE IF ListOrScan(cap) /\ trimmed \in Exacts THEN Exact("exact trimmed", trimmed)
              ELSE IF Candidates(path) # {} THEN MatchNonExact("pattern", path)
              ELSE IF ListOrScan(cap) /\ Candidates(trimmed) # {}
              THEN MatchNonExact("pattern trimmed", trimmed)
              ELSE NothingFound
  BY Zenon DEF LookupLiteral
<1>7. ListOrScan(cap) => second = trimmed
  OBVIOUS
<1>8. ~ ListOrScan(cap) => second = path
  OBVIOUS
<1>9. \A form \in Forms : Candidates(form) # {} <=> Rivals(taken, form) # {}
  BY WinnerIsBest
<1> HIDE DEF found, trimmed, second, exact
<1>10. CASE path \in Exacts
  <2>1. found.pattern = path /\ found.stage = "exact"
    BY <1>6, <1>10 DEF Exact
  <2> QED BY <1>2, <1>3, <1>5, <1>10, <2>1 DEF IsDeciding, found
<1>11. CASE path \notin Exacts /\ second \in Exacts
  <2>1. ListOrScan(cap) /\ second = trimmed
    BY <1>7, <1>8, <1>11
  <2>2. found.pattern = second /\ found.stage = "exact trimmed"
    BY <1>6, <1>11, <2>1 DEF Exact
  <2>3. Deciding(taken, path, cap) = {second}
    BY <1>2, <1>5, <1>11
  <2> QED BY <1>3, <1>5, <1>11, <2>2, <2>3 DEF IsDeciding, found
<1>12. CASE path \notin Exacts /\ second \notin Exacts /\ Rivals(taken, path) # {}
  <2> DEFINE m == MatchNonExact("pattern", path)
  <2>1. Candidates(path) # {}
    BY <1>1, <1>9, <1>12
  <2>2. /\ m.stage = "pattern" /\ m.pattern \in DOMAIN compiled
        /\ {m.pattern} = Best(Rivals(taken, path)) /\ m.losers = Rivals(taken, path) \ {m.pattern}
    BY <1>1, <2>1, WinnerIsBest
  <2> HIDE DEF m
  <2>3. found = m
    BY <1>6, <1>7, <1>12, <2>1 DEF m
  <2>4. Deciding(taken, path, cap) = Best(Rivals(taken, path))
    BY <1>2, <1>5, <1>12
  <2>5. MatchedWith(found, path) = path
    BY <2>2, <2>3 DEF MatchedWith
  <2> QED BY <1>3, <2>2, <2>3, <2>4, <2>5 DEF IsDeciding, found
<1>13. CASE /\ path \notin Exacts /\ second \notin Exacts /\ Rivals(taken, path) = {}
            /\ ListOrScan(cap) /\ Rivals(taken, trimmed) # {}
  <2> DEFINE m == MatchNonExact("pattern trimmed", trimmed)
  <2>1. Candidates(path) = {} /\ Candidates(trimmed) # {}
    BY <1>1, <1>9, <1>13
  <2>2. /\ m.stage = "pattern trimmed" /\ m.pattern \in DOMAIN compiled
        /\ {m.pattern} = Best(Rivals(taken, trimmed)) /\ m.losers = Rivals(taken, trimmed) \ {m.pattern}
    BY <1>1, <2>1, WinnerIsBest
  <2> HIDE DEF m
  <2>3. found = m
    BY <1>6, <1>7, <1>13, <2>1 DEF m
  <2>4. Deciding(taken, path, cap) = Best(Rivals(taken, trimmed))
    BY <1>2, <1>5, <1>7, <1>13
  <2>5. MatchedWith(found, path) = trimmed
    BY <2>2, <2>3 DEF MatchedWith, trimmed
  <2> QED BY <1>3, <2>2, <2>3, <2>4, <2>5 DEF IsDeciding, found
<1>14. CASE /\ path \notin Exacts /\ second \notin Exacts /\ Rivals(taken, path) = {}
            /\ ~ (ListOrScan(cap) /\ Rivals(taken, trimmed) # {})
  <2>1. Candidates(path) = {} /\ ~ (ListOrScan(cap) /\ Candidates(trimmed) # {})
    BY <1>1, <1>9, <1>14
  <2>2. found = NothingFound
    BY <1>6, <1>7, <1>14, <2>1
  <2>3. found.pattern = None /\ found.stage = "default deny"
    BY <2>2 DEF NothingFound
  <2>4. Rivals(taken, second) = {}
    BY <1>7, <1>8, <1>14
  <2>5. Deciding(taken, path, cap) = {}
    BY <1>2, <1>5, <1>14, <2>4 DEF Best
  <2> QED BY <2>3, <2>5 DEF IsDeciding, found
<1> QED BY <1>10, <1>11, <1>12, <1>13, <1>14

-----------------------------------------------------------------------------
(* Deciding *)

\* What a decision answers.
Verdict(decision) ==
  IF decision.incomplete THEN "incomplete"
  ELSE IF decision.denied THEN "denied"
  ELSE IF decision.allowed THEN "allowed" ELSE "not granted"

\* A definite decision is what the rules of the pattern say together, and the
\* pattern has no template.
LEMMA DecideSays ==
  ASSUME IInv, NEW pattern, pattern = None \/ pattern \in DOMAIN compiled, NEW cap,
         ~ Decide(pattern, cap).incomplete
  PROVE  /\ Verdict(Decide(pattern, cap))
              = Says({r \in taken : r.path \in {pattern} \ {None}}, cap)
         /\ pattern # None => pattern \notin TemplatedPatterns
<1> DEFINE rule == compiled[pattern]
           decision == Decide(pattern, cap)
           rules == {r \in taken : r.path \in {pattern} \ {None}}
<1>1. /\ ~ NotGranted.incomplete /\ ~ NotGranted.denied /\ ~ NotGranted.allowed
      /\ [NotGranted EXCEPT !.incomplete = TRUE].incomplete
      /\ \A s : LET d == [NotGranted EXCEPT !.denied = TRUE, !.sources = s]
                IN ~ d.incomplete /\ d.denied
      /\ \A s : LET d == [NotGranted EXCEPT !.allowed = TRUE, !.sources = s]
                IN ~ d.incomplete /\ ~ d.denied /\ d.allowed
  BY DEF NotGranted
<1>2. decision =
        IF pattern = None THEN NotGranted
        ELSE IF pattern \in TemplatedPatterns THEN [NotGranted EXCEPT !.incomplete = TRUE]
        ELSE IF "deny" \in rule.effective
        THEN [NotGranted EXCEPT !.denied = TRUE, !.sources = rule.granting["deny"]]
        ELSE IF cap \notin rule.effective THEN NotGranted
        ELSE IF rule.constrained THEN [NotGranted EXCEPT !.incomplete = TRUE]
        ELSE [NotGranted EXCEPT !.allowed = TRUE, !.sources = rule.granting[cap]]
  BY Zenon DEF Decide
<1>3. Says(rules, cap) = IF Denied(rules) THEN "denied"
                         ELSE IF \A r \in rules : cap \notin r.caps THEN "not granted"
                         ELSE IF Constrained(rules) THEN "depends on parameters" ELSE "allowed"
  BY Zenon DEF Says, Denied, Constrained
<1> HIDE DEF decision
<1>4. ~ decision.incomplete
  BY DEF decision
<1>5. CASE pattern = None
  <2>1. rules = {}
    BY <1>5
  <2>2. Says(rules, cap) = "not granted"
    BY <1>3, <2>1 DEF Denied
  <2>3. Verdict(decision) = "not granted"
    BY <1>1, <1>2, <1>5 DEF Verdict
  <2> QED BY <1>5, <2>2, <2>3 DEF decision
<1>6. CASE pattern # None
  <2>1. pattern \in DOMAIN compiled /\ rules = RulesOf(pattern)
    BY <1>6 DEF RulesOf
  <2>2. IsCompiled(rule) /\ MergeOf(rule, rules)
    BY <2>1 DEF IInv
  <2> HIDE DEF rules, rule
  <2>3. pattern \notin TemplatedPatterns
    BY <1>1, <1>2, <1>4, <1>6
  <2>4. "deny" \in Granted(rules) <=> Denied(rules)
    BY DEF Denied, Granted
  <2>5. cap \in Granted(rules) <=> ~ \A r \in rules : cap \notin r.caps
    BY DEF Granted
  <2>6. CASE Denied(rules)
    <3>1. rule.effective = {"deny"}
      BY <2>2, <2>6 DEF MergeOf
    <3>2. decision = [NotGranted EXCEPT !.denied = TRUE, !.sources = rule.granting["deny"]]
      BY <1>2, <1>6, <2>3, <3>1
    <3>3. Verdict(decision) = "denied"
      BY <1>1, <3>2 DEF Verdict
    <3> QED BY <1>3, <2>3, <2>6, <3>3 DEF decision, rules
  <2>7. CASE ~ Denied(rules)
    <3>1. rule.effective = Granted(rules) /\ (rule.constrained <=> Constrained(rules))
      BY <2>2, <2>7 DEF MergeOf
    <3>2. "deny" \notin rule.effective
      BY <2>4, <2>7, <3>1
    <3>3. CASE cap \notin rule.effective
      <4>1. decision = NotGranted
        BY <1>2, <1>6, <2>3, <3>2, <3>3
      <4>2. Verdict(decision) = "not granted"
        BY <1>1, <4>1 DEF Verdict
      <4> QED BY <1>3, <2>3, <2>5, <2>7, <3>1, <3>3, <4>2 DEF decision, rules
    <3>4. CASE cap \in rule.effective
      <4>1. ~ rule.constrained
        BY <1>1, <1>2, <1>4, <1>6, <2>3, <3>2, <3>4
      <4>2. decision = [NotGranted EXCEPT !.allowed = TRUE, !.sources = rule.granting[cap]]
        BY <1>2, <1>6, <2>3, <3>2, <3>4, <4>1
      <4>3. Verdict(decision) = "allowed"
        BY <1>1, <4>2 DEF Verdict
      <4> QED BY <1>3, <2>3, <2>5, <2>7, <3>1, <3>4, <4>1, <4>3 DEF decision, rules
    <3> QED BY <3>3, <3>4
  <2> QED BY <2>6, <2>7
<1> QED BY <1>5, <1>6

-----------------------------------------------------------------------------
(* What is before and after a text *)

\* A character that does not end a text makes no new place for it.
LEMMA PlacesOfAppend ==
  ASSUME NEW s \in String, NEW c \in Char, NEW t \in String, t # <<>>, t[Len(t)] # c
  PROVE  Places(Append(s, c), t) = Places(s, t)
<1> DEFINE e == Append(s, c)
           L == Len(t)
<1>1. /\ e \in String /\ Len(s) \in Nat /\ Len(e) = Len(s) + 1 /\ e[Len(s) + 1] = c
      /\ (\A i \in 1..Len(s) : e[i] = s[i]) /\ L \in Nat \ {0}
  BY AppendProperties, LenProperties, EmptySeq DEF String
<1> HIDE DEF e, L
<1>2. \A i \in Nat : i \in Places(e, t) <=>
        i >= 1 /\ i + L - 1 <= Len(e) /\ \A j \in 1..L : e[i + j - 1] = t[j]
  BY <1>1, PlacesMean DEF L
<1>3. \A i \in Nat : i \in Places(s, t) <=>
        i >= 1 /\ i + L - 1 <= Len(s) /\ \A j \in 1..L : s[i + j - 1] = t[j]
  BY <1>1, PlacesMean DEF L
<1>4. ASSUME NEW i \in Nat, i >= 1
      PROVE  i \in Places(e, t) <=> i \in Places(s, t)
  <2>1. CASE i + L - 1 <= Len(s)
    <3>1. \A j \in 1..L : i + j - 1 \in 1..Len(s)
      BY <1>1, <1>4, <2>1
    <3>2. \A j \in 1..L : e[i + j - 1] = s[i + j - 1]
      BY <1>1, <3>1
    <3>3. i + L - 1 <= Len(e)
      BY <1>1, <2>1
    <3> QED BY <1>2, <1>3, <1>4, <2>1, <3>2, <3>3
  <2>2. CASE i + L - 1 = Len(s) + 1
    <3>1. L \in 1..L /\ e[i + L - 1] = c
      BY <1>1, <2>2
    <3>2. e[i + L - 1] # t[L]
      BY <3>1 DEF L
    <3>3. i \notin Places(e, t)
      BY <1>2, <3>1, <3>2
    <3>4. i \notin Places(s, t)
      BY <1>1, <1>3, <2>2
    <3> QED BY <3>3, <3>4
  <2>3. CASE i + L - 1 > Len(s) + 1
    BY <1>1, <1>2, <1>3, <2>3
  <2> QED BY <1>1, <2>1, <2>2, <2>3
<1>5. /\ Places(e, t) \subseteq Nat /\ Places(s, t) \subseteq Nat
      /\ \A i \in Places(e, t) \cup Places(s, t) : i >= 1
  <2>1. Places(e, t) \subseteq Nat /\ Places(s, t) \subseteq Nat
    BY <1>1, PlacesMean
  <2> QED BY <1>2, <1>3, <2>1
<1> QED BY <1>4, <1>5 DEF e

\* The first place and the last one.
LEMMA FirstAndLast ==
  ASSUME NEW s \in String, NEW t \in String, t # <<>>, Includes(s, t)
  PROVE  /\ Min(Places(s, t)) \in Places(s, t) /\ Max(Places(s, t)) \in Places(s, t)
         /\ \A i \in Places(s, t) : Max(Places(s, t)) >= i
         /\ \A i \in Places(s, t) : i \in 1..Len(s) /\ i + Len(t) \in 2..(Len(s) + 1)
<1> DEFINE P == Places(s, t)
           back == {Len(s) - i : i \in P}
<1>1. /\ Len(s) \in Nat /\ Len(t) \in Nat \ {0} /\ P \subseteq Nat /\ P # {}
      /\ \A i \in P : i >= 1 /\ i + Len(t) - 1 <= Len(s)
  <2>1. P \subseteq Nat
    BY PlacesMean
  <2>2. Len(s) \in Nat /\ Len(t) \in Nat \ {0}
    BY LenProperties, EmptySeq DEF String
  <2>3. \A i \in P : i >= 1 /\ i + Len(t) - 1 <= Len(s)
    BY <2>1, PlacesMean
  <2> QED BY <2>1, <2>2, <2>3 DEF Includes
<1> HIDE DEF P
<1>2. \A i \in P : i \in 1..Len(s) /\ i + Len(t) \in 2..(Len(s) + 1)
  BY <1>1
<1>3. PICK n \in P : \A m \in P : n <= m
  BY <1>1, LeastNumber
<1>4. back \subseteq Nat /\ back # {}
  BY <1>1, <1>2
<1>5. PICK b \in back : \A m \in back : b <= m
  <2> HIDE DEF back
  <2> QED BY <1>4, LeastNumber
<1>6. PICK l \in P : b = Len(s) - l
  BY <1>5
<1>7. \A m \in P : l >= m
  <2> SUFFICES ASSUME NEW m \in P PROVE l >= m
    OBVIOUS
  <2>1. b <= Len(s) - m
    BY <1>5
  <2> QED BY <1>1, <1>6, <2>1
<1>8. Min(P) \in P
  <2>1. \E k \in P : \A m \in P : k =< m
    BY <1>3
  <2> QED BY <2>1 DEF Min
<1>9. Max(P) \in P /\ \A m \in P : Max(P) >= m
  <2>1. \E k \in P : \A m \in P : k >= m
    BY <1>7
  <2> QED BY <2>1 DEF Max
<1> QED BY <1>2, <1>8, <1>9 DEF P

\* What comes before and after is part of the string.
LEMMA BeforeAndAfter ==
  ASSUME NEW s \in String, NEW t \in String, t # <<>>, Includes(s, t)
  PROVE  /\ Before(s, t) \in String /\ After(s, t) \in String
         /\ s \in Name => Before(s, t) \in Name /\ After(s, t) \in Name
         /\ \A i \in 1..Len(After(s, t)) :
              After(s, t)[i] = s[Len(s) - Len(After(s, t)) + i]
         /\ Len(After(s, t)) <= Len(s)
<1> DEFINE L == Len(s)
           m == Min(Places(s, t))
           n == Max(Places(s, t)) + Len(t)
<1>1. L \in Nat /\ m \in 1..L /\ n \in 2..(L + 1) /\ \A i \in 1..L : s[i] \in Char
  <2>1. \A i \in 1..L : s[i] \in Char
    BY ElementOfSeq DEF String
  <2> QED BY <2>1, FirstAndLast, LenProperties DEF String
<1> DEFINE b == SubSeq(s, 1, m - 1)
           a == SubSeq(s, n, L)
<1>2. Before(s, t) = b /\ After(s, t) = a
  BY DEF Before, After
<1> HIDE DEF L, m, n
<1>3. b \in String /\ Len(b) = m - 1 /\ \A i \in 1..(m - 1) : b[i] = s[i]
  <2>1. \A i \in 1..(m - 1) : s[i] \in Char
    BY <1>1
  <2>2. 1 \in Int /\ m - 1 \in Int
    BY <1>1
  <2>3. /\ b \in Seq(Char) /\ Len(b) = IF 1 <= m - 1 THEN m - 1 - 1 + 1 ELSE 0
        /\ \A i \in 1..(m - 1 - 1 + 1) : b[i] = s[1 + i - 1]
    BY <2>1, <2>2, SubSeqProperties
  <2> HIDE DEF b
  <2>4. Len(b) = m - 1 /\ \A i \in 1..(m - 1) : i \in 1..(m - 1 - 1 + 1) /\ 1 + i - 1 = i
    BY <1>1, <2>3
  <2> QED BY <2>3, <2>4 DEF String
<1>4. a \in String /\ Len(a) = L - n + 1 /\ \A i \in 1..(L - n + 1) : a[i] = s[n + i - 1]
  <2>1. \A i \in n..L : s[i] \in Char
    BY <1>1
  <2>2. n \in Int /\ L \in Int
    BY <1>1
  <2>3. /\ a \in Seq(Char) /\ Len(a) = IF n <= L THEN L - n + 1 ELSE 0
        /\ \A i \in 1..(L - n + 1) : a[i] = s[n + i - 1]
    BY <2>1, <2>2, SubSeqProperties
  <2> HIDE DEF a
  <2>4. Len(a) = L - n + 1
    BY <1>1, <2>3
  <2> QED BY <2>3, <2>4 DEF String
<1> HIDE DEF a, b
<1>5. ASSUME s \in Name PROVE b \in Name /\ a \in Name
  <2>1. \A i \in 1..L : s[i] # "/"
    BY <1>5 DEF Name, L
  <2>2. \A i \in 1..Len(b) : b[i] # "/"
    BY <1>1, <1>3, <2>1
  <2>3. \A i \in 1..Len(a) : a[i] # "/"
    <3>1. \A i \in 1..Len(a) : n + i - 1 \in 1..L
      BY <1>1, <1>4
    <3> QED BY <1>4, <2>1, <3>1
  <2> QED BY <1>3, <1>4, <2>2, <2>3 DEF Name
<1>6. \A i \in 1..Len(a) : a[i] = s[L - Len(a) + i]
  <2> SUFFICES ASSUME NEW i \in 1..Len(a) PROVE a[i] = s[L - Len(a) + i]
    OBVIOUS
  <2>1. L - Len(a) + i = n + i - 1 /\ i \in 1..(L - n + 1)
    BY <1>1, <1>4
  <2> QED BY <1>4, <2>1
<1>7. Len(a) <= L
  BY <1>1, <1>4
<1> QED BY <1>2, <1>3, <1>4, <1>5, <1>6, <1>7 DEF L

\* A character more, that does not end the text, comes after it.
LEMMA BeforeAndAfterAppend ==
  ASSUME NEW s \in String, NEW c \in Char, NEW t \in String, t # <<>>, t[Len(t)] # c
  PROVE  /\ Includes(Append(s, c), t) <=> Includes(s, t)
         /\ Includes(s, t) => /\ Before(Append(s, c), t) = Before(s, t)
                              /\ After(Append(s, c), t) = Append(After(s, t), c)
<1>1. Places(Append(s, c), t) = Places(s, t)
  BY PlacesOfAppend
<1>2. Includes(Append(s, c), t) <=> Includes(s, t)
  BY <1>1 DEF Includes
<1>3. ASSUME Includes(s, t)
      PROVE  /\ Before(Append(s, c), t) = Before(s, t)
             /\ After(Append(s, c), t) = Append(After(s, t), c)
  <2> DEFINE L == Len(s)
             e == Append(s, c)
             m == Min(Places(s, t))
             n == Max(Places(s, t)) + Len(t)
  <2>1. L \in Nat /\ m \in 1..L /\ n \in 2..(L + 1)
    BY <1>3, FirstAndLast, LenProperties DEF String
  <2>2. e \in String /\ Len(e) = L + 1 /\ e[L + 1] = c /\ \A i \in 1..L : e[i] = s[i]
    BY AppendProperties DEF String
  <2> HIDE DEF L, m, n, e
  <2>3. SubSeq(e, 1, m - 1) = SubSeq(s, 1, m - 1)
    <3> DEFINE x == SubSeq(e, 1, m - 1)
               y == SubSeq(s, 1, m - 1)
    <3>1. \A i \in 1..(m - 1) : e[i] \in Char /\ s[i] \in Char /\ e[i] = s[i]
      <4>1. \A i \in 1..L : s[i] \in Char
        BY ElementOfSeq DEF String, L
      <4> QED BY <2>1, <2>2, <4>1
    <3>2. 1 \in Int /\ m - 1 \in Int
      BY <2>1
    <3>3. /\ x \in Seq(Char) /\ Len(x) = IF 1 <= m - 1 THEN m - 1 - 1 + 1 ELSE 0
          /\ \A i \in 1..(m - 1 - 1 + 1) : x[i] = e[1 + i - 1]
      BY <3>1, <3>2, SubSeqProperties
    <3>4. /\ y \in Seq(Char) /\ Len(y) = IF 1 <= m - 1 THEN m - 1 - 1 + 1 ELSE 0
          /\ \A i \in 1..(m - 1 - 1 + 1) : y[i] = s[1 + i - 1]
      BY <3>1, <3>2, SubSeqProperties
    <3> HIDE DEF x, y
    <3>5. Len(x) = m - 1 /\ Len(y) = m - 1 /\ (m - 1) - 1 + 1 = m - 1
      BY <2>1, <3>3, <3>4
    <3>6. \A i \in 1..(m - 1) : x[i] = y[i]
      <4>1. \A i \in 1..(m - 1) : 1 + i - 1 = i
        OBVIOUS
      <4> QED BY <3>1, <3>3, <3>4, <3>5, <4>1
    <3> QED BY <3>3, <3>4, <3>5, <3>6, SeqEqual DEF x, y
  <2>4. SubSeq(e, n, L + 1) = Append(SubSeq(s, n, L), c)
    <3> DEFINE x == SubSeq(e, n, L + 1)
               y == SubSeq(s, n, L)
               z == Append(y, c)
    <3>1. /\ \A i \in n..(L + 1) : e[i] \in Char
          /\ \A i \in n..L : s[i] \in Char
      <4>1. /\ \A i \in 1..L : s[i] \in Char
            /\ \A i \in 1..(L + 1) : e[i] \in Char
        BY <2>2, ElementOfSeq DEF String, L
      <4> QED BY <2>1, <4>1
    <3>2. n \in Int /\ L \in Int /\ L + 1 \in Int
      BY <2>1
    <3>3. /\ x \in Seq(Char) /\ Len(x) = IF n <= L + 1 THEN (L + 1) - n + 1 ELSE 0
          /\ \A i \in 1..((L + 1) - n + 1) : x[i] = e[n + i - 1]
      BY <3>1, <3>2, SubSeqProperties
    <3>4. /\ y \in Seq(Char) /\ Len(y) = IF n <= L THEN L - n + 1 ELSE 0
          /\ \A i \in 1..(L - n + 1) : y[i] = s[n + i - 1]
      BY <3>1, <3>2, SubSeqProperties
    <3> HIDE DEF x, y
    <3>5. Len(y) = L - n + 1 /\ Len(x) = L - n + 2
      BY <2>1, <3>3, <3>4
    <3>6. z \in Seq(Char) /\ Len(z) = Len(y) + 1 /\ z[Len(y) + 1] = c /\ \A i \in 1..Len(y) : z[i] = y[i]
      BY <3>4, AppendProperties
    <3> HIDE DEF z
    <3>7. ASSUME NEW i \in 1..Len(x) PROVE x[i] = z[i]
      <4>1. x[i] = e[n + i - 1]
        BY <2>1, <3>3, <3>5
      <4>2. CASE i = L - n + 2
        <5>1. n + i - 1 = L + 1
          BY <2>1, <4>2
        <5> QED BY <2>1, <2>2, <3>5, <3>6, <4>1, <4>2, <5>1
      <4>3. CASE i # L - n + 2
        <5>1. i \in 1..(L - n + 1) /\ n + i - 1 \in 1..L
          BY <2>1, <3>5, <4>3
        <5> QED BY <2>2, <3>4, <3>5, <3>6, <4>1, <5>1
      <4> QED BY <4>2, <4>3
    <3>8. Len(x) = Len(z)
      BY <2>1, <3>5, <3>6
    <3> QED BY <3>3, <3>6, <3>7, <3>8, SeqEqual DEF x, y, z
  <2> QED BY <1>1, <2>2, <2>3, <2>4 DEF Before, After, L, m, n, e
<1> QED BY <1>2, <1>3

-----------------------------------------------------------------------------
(* Templates resolved *)

\* How a string ends is its last character, and every string ends in nothing.
LEMMA LastCharacter ==
  ASSUME NEW s \in String
  PROVE  /\ EndsIn(s, Star) <=> s # <<>> /\ s[Len(s)] = "*"
         /\ EndsIn(s, <<>>)
<1>1. EndsIn(s, Star) <=> s # <<>> /\ s[Len(s)] = "*"
  <2>1. CASE s = <<>>
    BY <2>1, EndingIn, Characters DEF Star, String
  <2>2. CASE s # <<>>
    <3>1. PICK t \in String, c \in Char : s = Append(t, c)
      BY <2>2, SequenceEmptyOrAppend DEF String
    <3>2. EndsIn(s, Star) <=> c = "*"
      BY <3>1, EndingIn, Characters DEF Star, String
    <3>3. s[Len(s)] = c
      BY <3>1, AppendProperties DEF String
    <3> QED BY <2>2, <3>2, <3>3
  <2> QED BY <2>1, <2>2
<1>2. EndsIn(s, <<>>)
  <2>1. Len(s) \in Nat /\ Len(<<>>) = 0
    BY LenProperties, EmptySeq DEF String
  <2>2. SubSeq(s, Len(s) + 1, Len(s)) = <<>>
    BY <2>1, SubSeqEmpty
  <2>3. Len(s) - 0 + 1 = Len(s) + 1 /\ 0 <= Len(s)
    BY <2>1
  <2> QED BY <2>1, <2>2, <2>3 DEF EndsIn
<1> QED BY <1>1, <1>2

\* A text after another is what both end in.
LEMMA EndsInSuffix ==
  ASSUME NEW s \in String, NEW t \in String
  PROVE  EndsIn(s \o t, t)
<1> DEFINE w == s \o t
           u == SubSeq(w, Len(s) + 1, Len(w))
<1>1. /\ Len(s) \in Nat /\ Len(t) \in Nat /\ Len(w) = Len(s) + Len(t) /\ w \in Seq(Char)
      /\ \A i \in 1..Len(w) : w[i] = IF i <= Len(s) THEN s[i] ELSE t[i - Len(s)]
  BY LenProperties, ConcatProperties DEF String
<1>2. \A i \in (Len(s) + 1)..Len(w) : w[i] \in Char
  <2> HIDE DEF w
  <2>1. \A i \in 1..Len(w) : w[i] \in Char
    BY <1>1, ElementOfSeq
  <2> QED BY <1>1, <2>1
<1> HIDE DEF w
<1>3. Len(s) + 1 \in Int /\ Len(w) \in Int
  BY <1>1
<1>4. /\ u \in Seq(Char)
      /\ Len(u) = IF Len(s) + 1 <= Len(w) THEN Len(w) - (Len(s) + 1) + 1 ELSE 0
      /\ \A i \in 1..(Len(w) - (Len(s) + 1) + 1) : u[i] = w[Len(s) + 1 + i - 1]
  BY <1>2, <1>3, SubSeqProperties
<1> HIDE DEF u
<1>5. Len(u) = Len(t)
  BY <1>1, <1>4
<1>6. \A i \in 1..Len(t) : u[i] = t[i]
  <2> SUFFICES ASSUME NEW i \in 1..Len(t) PROVE u[i] = t[i]
    OBVIOUS
  <2>1. /\ i \in 1..(Len(w) - (Len(s) + 1) + 1) /\ Len(s) + 1 + i - 1 = Len(s) + i
        /\ Len(s) + i \in 1..Len(w) /\ ~ Len(s) + i <= Len(s) /\ Len(s) + i - Len(s) = i
    BY <1>1
  <2>2. u[i] = w[Len(s) + i]
    BY <1>4, <2>1
  <2>3. w[Len(s) + i] = t[i]
    BY <1>1, <2>1
  <2> QED BY <2>2, <2>3
<1>7. u = t
  <2>1. /\ u \in [1..Len(u) -> Char] /\ t \in [1..Len(t) -> Char]
    BY <1>4, LenProperties DEF String
  <2> QED BY <1>5, <1>6, <2>1
<1>8. Len(w) - Len(t) + 1 = Len(s) + 1 /\ Len(t) <= Len(w)
  BY <1>1
<1>9. EndsIn(w, t)
  BY <1>7, <1>8 DEF EndsIn, u
<1> QED BY <1>9 DEF w

\* A segment of a pattern once its templates stand for a value, and all of them.
ResolvedSegment(s, v) ==
  IF ~ LooksTemplated(s) THEN s ELSE Before(s, Open) \o v \o After(s, Close)
ResolvedSegments(segments, v) == [i \in DOMAIN segments |-> ResolvedSegment(segments[i], v)]

\* What a value is: a name with a first and a last character, neither of which
\* is that of a wildcard.
LEMMA ValueIs ==
  ASSUME NEW v \in Values
  PROVE  /\ v \in Name /\ v \in String /\ Len(v) \in Nat \ {0}
         /\ v[1] # "+" /\ v[Len(v)] # "*"
<1>1. v \in String /\ v # <<>> /\ Range(v) \cap {"/", "+", "*"} = {}
  BY ValuesAreNames
<1>2. Len(v) \in Nat \ {0} /\ DOMAIN v = 1..Len(v)
  BY <1>1, EmptySeq, LenProperties DEF String
<1>3. \A i \in 1..Len(v) : v[i] \in Range(v)
  BY <1>2 DEF Range
<1>4. \A i \in 1..Len(v) : v[i] \notin {"/", "+", "*"}
  BY <1>1, <1>3
<1>5. v \in Name
  BY <1>1, <1>4 DEF Name
<1> QED BY <1>1, <1>2, <1>4, <1>5

\* The two marks of a template.
LEMMA Marks ==
  /\ Open # <<>> /\ Close # <<>> /\ Open \in String /\ Close \in String
  /\ Len(Open) = 2 /\ Len(Close) = 2 /\ Open[2] # "*" /\ Close[2] # "*"
<1>1. Open # <<>> /\ Close # <<>> /\ Len(Open) = 2 /\ Len(Close) = 2
  BY DEF Open, Close
<1>2. Open[2] # "*" /\ Close[2] # "*"
  BY DEF Open, Close
<1> QED BY <1>1, <1>2, Characters

\* What a templated segment becomes.
LEMMA TemplateIs ==
  ASSUME NEW x \in Name, NEW v \in Values, LooksTemplated(x)
  PROVE  /\ Before(x, Open) \in Name /\ After(x, Close) \in Name
         /\ Before(x, Open) \in String /\ After(x, Close) \in String
         /\ ResolvedSegment(x, v) = (Before(x, Open) \o v) \o After(x, Close)
         /\ Before(x, Open) \o v \in String
         /\ ResolvedSegment(x, v) \in Name /\ ResolvedSegment(x, v) # Plus
         /\ EndsIn(ResolvedSegment(x, v), Star) <=> EndsIn(x, Star)
<1> DEFINE b == Before(x, Open)
           a == After(x, Close)
           u == b \o v
           w == u \o a
<1>1. Includes(x, Open) /\ Includes(x, Close) /\ x \in String
  BY Names DEF LooksTemplated
<1>2. b \in Name /\ a \in Name /\ b \in String /\ a \in String
  BY <1>1, BeforeAndAfter, Marks
<1>3. Len(a) <= Len(x) /\ \A i \in 1..Len(a) : a[i] = x[Len(x) - Len(a) + i]
  BY <1>1, BeforeAndAfter, Marks
<1>4. ResolvedSegment(x, v) = w
  BY DEF ResolvedSegment
<1> HIDE DEF a, b
<1>5. /\ v \in Name /\ v \in String /\ Len(v) \in Nat \ {0}
      /\ v[1] # "+" /\ v[Len(v)] # "*"
  BY ValueIs
<1>6. /\ u \in String /\ Len(u) = Len(b) + Len(v)
      /\ Len(b) \in Nat /\ Len(a) \in Nat /\ Len(x) \in Nat
      /\ \A i \in 1..(Len(b) + Len(v)) : u[i] = IF i <= Len(b) THEN b[i] ELSE v[i - Len(b)]
  BY <1>2, <1>5, <1>1, ConcatProperties, LenProperties DEF String
<1> HIDE DEF u
<1>7. /\ w \in String /\ Len(w) = Len(u) + Len(a)
      /\ \A i \in 1..(Len(u) + Len(a)) : w[i] = IF i <= Len(u) THEN u[i] ELSE a[i - Len(u)]
  <2>1. u \in Seq(Char) /\ a \in Seq(Char)
    BY <1>2, <1>6 DEF String
  <2> QED BY <2>1, ConcatProperties DEF String
<1> HIDE DEF w
<1>8. w \in Name
  <2>1. /\ \A i \in 1..Len(b) : b[i] # "/"
        /\ \A i \in 1..Len(v) : v[i] # "/"
        /\ \A i \in 1..Len(a) : a[i] # "/"
    BY <1>2, <1>5 DEF Name
  <2>2. \A i \in 1..Len(u) : u[i] # "/"
    <3> SUFFICES ASSUME NEW i \in 1..Len(u) PROVE u[i] # "/"
      OBVIOUS
    <3>1. CASE i <= Len(b)
      BY <1>6, <2>1, <3>1
    <3>2. CASE ~ i <= Len(b)
      <4>1. i - Len(b) \in 1..Len(v) /\ u[i] = v[i - Len(b)]
        BY <1>5, <1>6, <3>2
      <4> QED BY <2>1, <4>1
    <3> QED BY <3>1, <3>2
  <2>3. \A i \in 1..Len(w) : w[i] # "/"
    <3> SUFFICES ASSUME NEW i \in 1..Len(w) PROVE w[i] # "/"
      OBVIOUS
    <3>0. Len(u) \in Nat
      BY <1>5, <1>6
    <3>1. CASE i <= Len(u)
      BY <1>7, <2>2, <3>0, <3>1
    <3>2. CASE ~ i <= Len(u)
      <4>1. i - Len(u) \in 1..Len(a) /\ w[i] = a[i - Len(u)]
        BY <1>6, <1>7, <3>0, <3>2
      <4> QED BY <2>1, <4>1
    <3> QED BY <3>1, <3>2
  <2> QED BY <1>7, <2>3 DEF Name
<1>9. w # Plus
  <2> SUFFICES ASSUME w = Plus PROVE FALSE
    OBVIOUS
  <2>1. Len(w) = 1 /\ w[1] = "+"
    BY DEF Plus
  <2>2. Len(b) = 0 /\ Len(v) = 1 /\ Len(u) = 1 /\ Len(a) = 0
    <3> DEFINE lb == Len(b)
               lv == Len(v)
               la == Len(a)
    <3>1. 1 = lb + lv + la /\ lb \in Nat /\ lv \in Nat \ {0} /\ la \in Nat
      BY <1>5, <1>6, <1>7, <2>1
    <3> HIDE DEF lb, lv, la
    <3>2. lb = 0 /\ lv = 1 /\ la = 0
      BY <3>1
    <3> QED BY <1>6, <3>2 DEF lb, lv, la
  <2>3. w[1] = u[1] /\ u[1] = v[1]
    <3>1. 1 \in 1..(Len(u) + Len(a)) /\ 1 \in 1..(Len(b) + Len(v)) /\ 1 <= Len(u) /\ ~ 1 <= Len(b)
          /\ 1 - Len(b) = 1
      BY <2>2
    <3> QED BY <1>6, <1>7, <3>1
  <2> QED BY <1>5, <2>1, <2>3
<1>10. EndsIn(w, Star) <=> EndsIn(x, Star)
  <2>1. Len(x) \in Nat \ {0} /\ x # <<>>
    <3>1. x # <<>>
      <4> SUFFICES ASSUME x = <<>> PROVE FALSE
        OBVIOUS
      <4>1. \E i \in Places(x, Open) : i \in 1..Len(x)
        BY <1>1, FirstAndLast, Marks
      <4>2. Len(x) = 0
        BY EmptySeq
      <4> QED BY <4>1, <4>2
    <3> QED BY <1>1, <3>1, EmptySeq DEF String
  <2>2. EndsIn(x, Star) <=> x[Len(x)] = "*"
    BY <1>1, <2>1, LastCharacter
  <2>3. Len(w) > 0 /\ w # <<>>
    <3>1. Len(w) > 0
      BY <1>5, <1>6, <1>7
    <3> QED BY <3>1, EmptySeq
  <2>4. EndsIn(w, Star) <=> w[Len(w)] = "*"
    BY <1>7, <2>3, LastCharacter
  <2>5. CASE Len(a) > 0
    <3>1. w[Len(w)] = a[Len(a)]
      <4>1. /\ Len(w) \in 1..(Len(u) + Len(a)) /\ ~ Len(w) <= Len(u) /\ Len(w) - Len(u) = Len(a)
        BY <1>5, <1>6, <1>7, <2>5
      <4> QED BY <1>7, <4>1
    <3>2. a[Len(a)] = x[Len(x)]
      <4>1. Len(a) \in 1..Len(a) /\ Len(x) - Len(a) + Len(a) = Len(x)
        BY <1>6, <2>5
      <4> QED BY <1>3, <4>1
    <3> QED BY <2>2, <2>4, <3>1, <3>2
  <2>6. CASE ~ Len(a) > 0
    <3>1. Len(a) = 0 /\ a = <<>>
      BY <1>2, <1>6, <2>6, EmptySeq DEF String
    <3>2. w[Len(w)] = v[Len(v)]
      <4>1. /\ Len(w) = Len(u) /\ Len(w) \in 1..(Len(u) + Len(a)) /\ Len(w) <= Len(u)
            /\ Len(u) \in 1..(Len(b) + Len(v)) /\ ~ Len(u) <= Len(b) /\ Len(u) - Len(b) = Len(v)
        BY <1>5, <1>6, <1>7, <3>1
      <4>2. w[Len(w)] = u[Len(u)]
        BY <1>7, <4>1
      <4>3. u[Len(u)] = v[Len(v)]
        BY <1>6, <4>1
      <4> QED BY <4>2, <4>3
    <3>3. x[Len(x)] # "*"
      <4> SUFFICES ASSUME x[Len(x)] = "*" PROVE FALSE
        OBVIOUS
      <4>1. PICK t \in String : x = Append(t, "*")
        <5>1. EndsIn(x, Star)
          BY <2>2
        <5> QED BY <5>1, <1>1, WithoutEnding, Characters DEF Star, String
      <4>2. "*" \in Char /\ Close[Len(Close)] # "*"
        BY Characters, Marks
      <4>3. Includes(t, Close)
        BY <1>1, <4>1, <4>2, Marks, BeforeAndAfterAppend
      <4>4. a = Append(After(t, Close), "*") /\ After(t, Close) \in String
        BY <4>1, <4>2, <4>3, Marks, BeforeAndAfterAppend, BeforeAndAfter DEF a
      <4>5. a # <<>>
        BY <4>2, <4>4, AppendProperties DEF String
      <4> QED BY <3>1, <4>5
    <3> QED BY <1>5, <2>2, <2>4, <3>2, <3>3
  <2> QED BY <2>5, <2>6
<1> QED BY <1>2, <1>4, <1>6, <1>8, <1>9, <1>10 DEF a, b, u, w

\* What a segment becomes: it ends in "*" if the segment does, and a final "*"
\* stays where it is.
LEMMA ResolvedSegmentIs ==
  ASSUME NEW x \in Name, NEW v \in Values
  PROVE  /\ ResolvedSegment(x, v) \in Name
         /\ EndsIn(ResolvedSegment(x, v), Star) <=> EndsIn(x, Star)
         /\ Append(x, "*") \in Name /\ (LooksTemplated(Append(x, "*")) <=> LooksTemplated(x))
         /\ ResolvedSegment(Append(x, "*"), v) = Append(ResolvedSegment(x, v), "*")
<1> DEFINE e == Append(x, "*")
<1>1. x \in String /\ "*" \in Char /\ e \in Name
  BY Names, Characters
<1>2. "*" # Open[Len(Open)] /\ "*" # Close[Len(Close)]
  BY Marks
<1>3. LooksTemplated(e) <=> LooksTemplated(x)
  BY <1>1, <1>2, BeforeAndAfterAppend, Marks DEF LooksTemplated
<1>4. CASE LooksTemplated(x)
  <2>1. Before(e, Open) = Before(x, Open) /\ After(e, Close) = Append(After(x, Close), "*")
    BY <1>1, <1>2, <1>4, BeforeAndAfterAppend, Marks DEF LooksTemplated
  <2>2. /\ Before(x, Open) \o v \in String /\ After(x, Close) \in String
        /\ ResolvedSegment(x, v) = (Before(x, Open) \o v) \o After(x, Close)
        /\ ResolvedSegment(x, v) \in Name
        /\ EndsIn(ResolvedSegment(x, v), Star) <=> EndsIn(x, Star)
    BY <1>4, TemplateIs
  <2> DEFINE u == Before(x, Open) \o v
             a == After(x, Close)
  <2>3. ResolvedSegment(e, v) = u \o Append(a, "*")
    BY <1>3, <1>4, <2>1 DEF ResolvedSegment
  <2> HIDE DEF u, a
  <2>4. u \o Append(a, "*") = Append(u \o a, "*")
    <3>1. u \in Seq(Char) /\ a \in Seq(Char) /\ u \o a \in Seq(Char) /\ <<"*">> \in Seq(Char)
      BY <1>1, <2>2, ConcatProperties DEF u, a, String
    <3>2. Append(a, "*") = a \o <<"*">> /\ Append(u \o a, "*") = (u \o a) \o <<"*">>
      BY <1>1, <3>1, AppendIsConcat
    <3> QED BY <3>1, <3>2, ConcatAssociative
  <2> QED BY <1>1, <1>3, <2>2, <2>3, <2>4 DEF u, a
<1>5. CASE ~ LooksTemplated(x)
  <2>1. ResolvedSegment(e, v) = e /\ ResolvedSegment(x, v) = x
    BY <1>3, <1>5 DEF ResolvedSegment
  <2> QED BY <1>1, <1>3, <2>1
<1> QED BY <1>4, <1>5

\* What is joined ends in "*" if its last segment does.
LEMMA EndOfJoin ==
  ASSUME NEW a \in Seq(Name), NEW x \in Name
  PROVE  EndsIn(Join(Append(a, x)), Star) <=> EndsIn(x, Star)
<1>1. x \in String /\ "*" \in Char /\ "/" \in Char /\ "/" # "*"
  BY Names, Characters
<1>2. CASE x = <<>>
  <2>1. ~ EndsIn(x, Star)
    BY <1>1, <1>2, EndingIn DEF Star, String
  <2>2. CASE a = <<>>
    BY <1>2, <2>1, <2>2, JoinOfAppend
  <2>3. CASE a # <<>>
    <3>1. Join(a) \in String /\ Join(Append(a, x)) = Join(a) \o <<"/">> \o x
      BY <2>3, JoinOfAppend
    <3>2. Join(a) \o <<"/">> = Append(Join(a), "/") /\ Append(Join(a), "/") \in String
      BY <1>1, <3>1, AppendIsConcat, AppendProperties DEF String
    <3>3. Join(Append(a, x)) = Append(Join(a), "/")
      BY <1>2, <3>1, <3>2, ConcatEmptySeq DEF String
    <3>4. ~ EndsIn(Append(Join(a), "/"), Star)
      BY <1>1, <3>1, EndingIn DEF Star, String
    <3> QED BY <2>1, <3>3, <3>4
  <2> QED BY <2>2, <2>3
<1>3. CASE x # <<>>
  <2>1. PICK y \in String, c \in Char : x = Append(y, c)
    BY <1>1, <1>3, SequenceEmptyOrAppend DEF String
  <2>2. y \in Name /\ x = y \o <<c>> /\ <<c>> \in String
    BY <2>1, Names, AppendIsConcat DEF String
  <2>3. Append(a, y) \in Seq(Name) /\ Join(Append(a, y)) \in String
    <3>1. Append(a, y) \in Seq(Name)
      BY <2>2, AppendProperties
    <3> QED BY <3>1, <2>2, JoinOfAppend
  <2>4. Join(Append(a, x)) = Append(Join(Append(a, y)), c)
    <3>1. Join(Append(a, x)) = Join(Append(a, y)) \o <<c>>
      BY <2>2, JoinOfConcat
    <3>2. Append(Join(Append(a, y)), c) = Join(Append(a, y)) \o <<c>>
      BY <2>3, AppendIsConcat DEF String
    <3> QED BY <3>1, <3>2
  <2>5. /\ EndsIn(Append(Join(Append(a, y)), c), Star) <=> c = "*"
        /\ EndsIn(Append(y, c), Star) <=> c = "*"
    <3> DEFINE j == Join(Append(a, y))
    <3>1. j \in Seq(Char) /\ y \in Seq(Char)
      BY <2>3 DEF String
    <3> HIDE DEF j
    <3>2. /\ EndsIn(Append(j, c), Star) <=> c = "*"
          /\ EndsIn(Append(y, c), Star) <=> c = "*"
      BY <1>1, <3>1, EndingIn DEF Star
    <3> QED BY <3>2 DEF j
  <2> QED BY <2>1, <2>4, <2>5
<1> QED BY <1>2, <1>3

\* Segments are resolved one by one.
LEMMA ResolvedSegmentsAre ==
  ASSUME NEW a \in Seq(Name), NEW x \in Name, NEW v \in Values
  PROVE  /\ ResolvedSegments(a, v) \in Seq(Name)
         /\ ResolvedSegments(Append(a, x), v)
              = Append(ResolvedSegments(a, v), ResolvedSegment(x, v))
         /\ Len(ResolvedSegments(a, v)) = Len(a) /\ DOMAIN a = 1..Len(a)
         /\ \A i \in 1..Len(a) : ResolvedSegments(a, v)[i] = ResolvedSegment(a[i], v)
<1> DEFINE L == Len(a)
           b == Append(a, x)
           r == ResolvedSegments(a, v)
           z == ResolvedSegment(x, v)
           e == Append(r, z)
<1>1. L \in Nat /\ DOMAIN a = 1..L /\ \A i \in 1..L : a[i] \in Name
  BY LenProperties, ElementOfSeq
<1>2. \A y \in Name : ResolvedSegment(y, v) \in Name
  BY ResolvedSegmentIs
<1>3. r = [i \in 1..L |-> ResolvedSegment(a[i], v)]
  BY <1>1 DEF ResolvedSegments
<1> HIDE DEF L, r
<1>4. r \in [1..L -> Name] /\ \A i \in 1..L : r[i] = ResolvedSegment(a[i], v)
  BY <1>1, <1>2, <1>3
<1>5. r \in Seq(Name) /\ Len(r) = L
  BY <1>1, <1>4
<1>6. /\ b \in Seq(Name) /\ Len(b) = L + 1 /\ b[L + 1] = x /\ \A i \in 1..L : b[i] = a[i]
  BY AppendProperties DEF L
<1>7. z \in Name
  BY <1>2
<1> HIDE DEF z
<1>8. /\ e \in Seq(Name) /\ Len(e) = L + 1 /\ e[L + 1] = z /\ \A i \in 1..L : e[i] = r[i]
  BY <1>5, <1>7, AppendProperties
<1>9. DOMAIN b = 1..(L + 1) /\ e \in [1..(L + 1) -> Name]
  <2> HIDE DEF b, e
  <2> QED BY <1>6, <1>8, LenProperties
<1>10. \A i \in 1..(L + 1) : e[i] = ResolvedSegment(b[i], v)
  <2> SUFFICES ASSUME NEW i \in 1..(L + 1) PROVE e[i] = ResolvedSegment(b[i], v)
    OBVIOUS
  <2> HIDE DEF b, e
  <2>1. CASE i = L + 1
    BY <1>6, <1>8, <2>1 DEF z
  <2>2. CASE i # L + 1
    <3>1. i \in 1..L
      BY <1>1, <2>2
    <3> QED BY <1>4, <1>6, <1>8, <3>1
  <2> QED BY <2>1, <2>2
<1>11. ResolvedSegments(b, v) = e
  <2>1. ResolvedSegments(b, v) = [i \in 1..(L + 1) |-> ResolvedSegment(b[i], v)]
    BY <1>9 DEF ResolvedSegments
  <2> HIDE DEF b, e
  <2> QED BY <2>1, <1>9, <1>10
<1> QED BY <1>1, <1>4, <1>5, <1>11 DEF L, r, z

\* What a pattern becomes: its segments are those of the pattern resolved, and
\* it ends in "*" if the pattern does.
LEMMA ResolvedIs ==
  ASSUME NEW p \in String, NEW v \in Values
  PROVE  /\ Resolved(p, v) \in String
         /\ EndsIn(Resolved(p, v), Star) <=> EndsIn(p, Star)
         /\ SegmentsOf(Resolved(p, v)) = ResolvedSegments(SegmentsOf(p), v)
<1> DEFINE w == Resolved(p, v)
<1>1. w = Join(ResolvedSegments(Split(p), v))
  BY DEF Resolved, ResolvedSegments, ResolvedSegment
<1>2. PICK a \in Seq(Name), x \in Name : Split(p) = Append(a, x)
  BY SplitIs, LastSegment
<1> DEFINE ra == ResolvedSegments(a, v)
           rx == ResolvedSegment(x, v)
<1>3. /\ ra \in Seq(Name) /\ rx \in Name /\ ResolvedSegments(Split(p), v) = Append(ra, rx)
  <2>1. /\ ResolvedSegments(a, v) \in Seq(Name)
        /\ ResolvedSegments(Append(a, x), v) = Append(ResolvedSegments(a, v), ResolvedSegment(x, v))
    BY ResolvedSegmentsAre
  <2>2. ResolvedSegment(x, v) \in Name
    BY ResolvedSegmentIs
  <2> QED BY <1>2, <2>1, <2>2
<1> HIDE DEF w
<1>4. w = Join(Append(ra, rx)) /\ w \in String
  <2>1. Append(ra, rx) \in Seq(Name)
    BY <1>3, AppendProperties
  <2>2. Join(Append(ra, rx)) \in String
    BY <2>1, <1>3, JoinOfAppend
  <2> QED BY <1>1, <1>3, <2>2
<1>5. EndsIn(w, Star) <=> EndsIn(p, Star)
  <2>1. p = Join(Append(a, x))
    BY <1>2, JoinOfSplit
  <2>2. EndsIn(p, Star) <=> EndsIn(x, Star)
    BY <2>1, EndOfJoin
  <2>3. EndsIn(w, Star) <=> EndsIn(rx, Star)
    <3> HIDE DEF ra, rx
    <3> QED BY <1>3, <1>4, EndOfJoin
  <2>4. EndsIn(rx, Star) <=> EndsIn(x, Star)
    BY ResolvedSegmentIs
  <2> QED BY <2>2, <2>3, <2>4
<1>6. CASE ~ EndsIn(p, Star)
  <2>1. SegmentsOf(p) = Split(p) /\ SegmentsOf(w) = Split(w)
    BY <1>4, <1>5, <1>6, TextIs DEF SegmentsOf
  <2>2. Split(w) = Append(ra, rx)
    <3> HIDE DEF ra, rx
    <3>1. Append(ra, rx) \in Segmented
      BY <1>3, AppendProperties DEF Segmented
    <3> QED BY <1>4, <3>1, SplitOfJoin
  <2> QED BY <1>3, <1>4, <1>5, <2>1, <2>2 DEF w
<1>7. CASE EndsIn(p, Star)
  <2> DEFINE t == TextOf(p)
  <2>1. t \in String /\ p = Append(t, "*") /\ "*" \in Char
    BY <1>7, TextIs, Characters
  <2>2. PICK b \in Seq(Name), y \in Name : Split(t) = Append(b, y)
    BY <2>1, SplitIs, LastSegment
  <2> HIDE DEF t
  <2> DEFINE rb == ResolvedSegments(b, v)
             ry == ResolvedSegment(y, v)
  <2>3. Split(p) = Append(b, Append(y, "*")) /\ Append(y, "*") \in Name
    <3>1. Split(Append(t, "*")) = Longer(Split(t), "*")
      BY <2>1, SplitOfAppend
    <3>2. "*" # "/" /\ Longer(Append(b, y), "*") = Append(b, Append(y, "*"))
      BY <2>1, LongerBy
    <3>3. Append(y, "*") \in Name
      BY ResolvedSegmentIs
    <3> QED BY <2>1, <2>2, <3>1, <3>2, <3>3
  <2>4. /\ rb \in Seq(Name) /\ ry \in Name
        /\ ResolvedSegments(Split(t), v) = Append(rb, ry)
        /\ ResolvedSegments(Split(p), v) = Append(rb, Append(ry, "*"))
    <3>1. ResolvedSegment(Append(y, "*"), v) = Append(ry, "*") /\ ry \in Name
      BY ResolvedSegmentIs
    <3> DEFINE z == Append(y, "*")
    <3>2. /\ rb \in Seq(Name) /\ ResolvedSegments(Append(b, y), v) = Append(rb, ry)
      BY ResolvedSegmentsAre
    <3> HIDE DEF z, rb, ry
    <3>3. ResolvedSegments(Append(b, z), v) = Append(rb, ResolvedSegment(z, v))
      BY <2>3, ResolvedSegmentsAre DEF rb, z
    <3> QED BY <2>2, <2>3, <3>1, <3>2, <3>3 DEF z
  <2> HIDE DEF rb, ry
  <2>5. w = Append(Join(Append(rb, ry)), "*") /\ Join(Append(rb, ry)) \in String
    <3>1. Append(rb, ry) \in Seq(Name)
      BY <2>4, AppendProperties
    <3>2. Join(Append(rb, ry)) \in String
      BY <3>1, <2>4, JoinOfAppend
    <3>3. Append(ry, "*") = ry \o <<"*">> /\ Append(ry, "*") \in Name /\ <<"*">> \in String
      <4>1. ry \in String /\ "*" # "/"
        BY <2>4, Names
      <4>2. Append(ry, "*") \in Name
        BY <2>1, <2>4, <4>1, Names
      <4>3. <<"*">> \in String
        BY Characters DEF Star
      <4> QED BY <2>1, <4>1, <4>2, <4>3, AppendIsConcat DEF String
    <3>4. Join(Append(rb, Append(ry, "*"))) = Join(Append(rb, ry)) \o <<"*">>
      <4> DEFINE z == <<"*">>
      <4>1. z \in String /\ ry \o z \in Name /\ Append(ry, "*") = ry \o z
        BY <3>3
      <4> HIDE DEF z
      <4>2. Join(Append(rb, ry \o z)) = Join(Append(rb, ry)) \o z
        BY <2>4, <4>1, JoinOfConcat
      <4> QED BY <4>1, <4>2 DEF z
    <3>5. Join(Append(rb, ry)) \o <<"*">> = Append(Join(Append(rb, ry)), "*")
      BY <2>1, <3>2, AppendIsConcat DEF String
    <3> QED BY <1>1, <2>4, <3>2, <3>4, <3>5
  <2>6. TextOf(w) = Join(Append(rb, ry))
    BY <2>1, <2>5, EndingIn DEF TextOf, Star, String
  <2>7. Split(Join(Append(rb, ry))) = Append(rb, ry)
    <3>1. Append(rb, ry) \in Segmented
      BY <2>4, AppendProperties DEF Segmented
    <3> QED BY <3>1, SplitOfJoin
  <2>8. SegmentsOf(w) = ResolvedSegments(SegmentsOf(p), v)
    BY <2>4, <2>6, <2>7 DEF SegmentsOf, t
  <2> QED BY <1>4, <1>5, <2>8 DEF w
<1> QED BY <1>6, <1>7

\* A pattern without a template stays as it is.
LEMMA Untemplated ==
  ASSUME NEW p \in String, NEW v \in Values, ~ LooksTemplated(p)
  PROVE  Resolved(p, v) = p
<1> DEFINE a == Split(p)
<1>1. a \in Segmented /\ a \in Seq(Name) /\ Join(a) = p
  BY SplitIs, JoinOfSplit DEF Segmented
<1>2. DOMAIN a = 1..Len(a) /\ a \in [1..Len(a) -> Name]
  <2> HIDE DEF a
  <2> QED BY <1>1, LenProperties
<1>3. ASSUME NEW i \in 1..Len(a) PROVE ResolvedSegment(a[i], v) = a[i]
  <2>1. a[i] \in String /\ \E u \in String : IsPrefix(u \o a[i], p)
    BY SegmentWithin
  <2>2. ~ LooksTemplated(a[i])
    <3> HIDE DEF a
    <3> QED BY <2>1, IncludedWithin, Marks DEF LooksTemplated
  <2> HIDE DEF a
  <2> QED BY <2>2 DEF ResolvedSegment
<1>4. ResolvedSegments(a, v) = a
  <2> HIDE DEF a
  <2>1. ResolvedSegments(a, v) = [i \in 1..Len(a) |-> ResolvedSegment(a[i], v)]
    BY <1>2 DEF ResolvedSegments
  <2> QED BY <1>2, <1>3, <2>1
<1>5. Resolved(p, v) = Join(ResolvedSegments(a, v))
  BY DEF Resolved, ResolvedSegments, ResolvedSegment
<1> QED BY <1>1, <1>4, <1>5

\* Nothing is after the last "}}" of a segment that ends in it.
LEMMA NothingAfter ==
  ASSUME NEW x \in Name, LooksTemplated(x), EndsIn(Append(x, "*"), Close \o Star)
  PROVE  After(x, Close) = <<>>
<1> DEFINE e == Append(x, "*")
           t == Close \o Star
           L == Len(x)
           u == SubSeq(e, L - 1, L + 1)
<1>1. x \in String /\ "*" \in Char /\ L \in Nat
  BY Names, Characters, LenProperties DEF String
<1>2. /\ e \in Seq(Char) /\ Len(e) = L + 1 /\ \A i \in 1..L : e[i] = x[i]
  BY <1>1, AppendProperties DEF String
<1>3. Len(t) = 3 /\ t[1] = "}" /\ t[2] = "}"
  <2>1. Len(Close) = 2 /\ Close[1] = "}" /\ Close[2] = "}" /\ Len(Star) = 1
    BY DEF Close, Star
  <2>2. Close \in Seq(Char) /\ Star \in Seq(Char)
    BY Characters DEF String
  <2>3. /\ Len(t) = Len(Close) + Len(Star)
        /\ \A i \in 1..(Len(Close) + Len(Star)) :
             t[i] = IF i <= Len(Close) THEN Close[i] ELSE Star[i - Len(Close)]
    BY <2>2, ConcatProperties
  <2> HIDE DEF t
  <2>4. Len(t) = 3
    <3>1. Len(Close) = 2 /\ Len(Star) = 1 /\ Len(t) = Len(Close) + Len(Star)
      BY <2>1, <2>3
    <3> QED BY <3>1
  <2>5. t[1] = Close[1] /\ t[2] = Close[2]
    <3>1. Len(Close) = 2 /\ Len(Star) = 1
      BY <2>1
    <3>2. /\ 1 \in 1..(Len(Close) + Len(Star)) /\ 1 <= Len(Close)
          /\ 2 \in 1..(Len(Close) + Len(Star)) /\ 2 <= Len(Close)
      BY <3>1
    <3> QED BY <2>3, <3>2
  <2> QED BY <2>1, <2>4, <2>5
<1> HIDE DEF e, t, L
<1>4. L >= 2 /\ u = t
  <2>1. EndsIn(e, t)
    BY DEF e, t
  <2>2. Len(t) <= Len(e) /\ SubSeq(e, Len(e) - Len(t) + 1, Len(e)) = t
    BY <2>1 DEF EndsIn
  <2>3. Len(e) = L + 1 /\ Len(t) = 3 /\ L \in Nat /\ Len(t) <= Len(e)
    BY <1>1, <1>2, <1>3, <2>2
  <2>4. Len(e) - Len(t) + 1 = L - 1 /\ L >= 2
    BY <2>3
  <2> QED BY <2>2, <2>3, <2>4
<1>5. u[1] = e[L - 1] /\ u[2] = e[L]
  <2>1. \A i \in (L - 1)..(L + 1) : e[i] \in Char
    <3>1. \A i \in 1..Len(e) : e[i] \in Char
      BY <1>2, ElementOfSeq
    <3> QED BY <1>1, <1>2, <1>4, <3>1
  <2>2. \A i \in 1..(L + 1 - (L - 1) + 1) : u[i] = e[L - 1 + i - 1]
    <3> DEFINE m == L - 1
               n == L + 1
    <3>1. m \in Int /\ n \in Int
      BY <1>1
    <3> HIDE DEF m, n
    <3>2. \A i \in m..n : e[i] \in Char
      BY <2>1 DEF m, n
    <3>3. \A i \in 1..(n - m + 1) : SubSeq(e, m, n)[i] = e[m + i - 1]
      BY <3>1, <3>2, SubSeqProperties
    <3>4. n - m + 1 = L + 1 - (L - 1) + 1 /\ \A i \in 1..(n - m + 1) : m + i - 1 = L - 1 + i - 1
      BY <1>1 DEF m, n
    <3> QED BY <3>3, <3>4 DEF m, n
  <2> HIDE DEF u
  <2>3. /\ 1 \in 1..(L + 1 - (L - 1) + 1) /\ 2 \in 1..(L + 1 - (L - 1) + 1)
        /\ L - 1 + 1 - 1 = L - 1 /\ L - 1 + 2 - 1 = L
    BY <1>1
  <2> QED BY <2>2, <2>3
<1>6. x[L - 1] = "}" /\ x[L] = "}"
  <2>1. L - 1 \in 1..L /\ L \in 1..L
    BY <1>1, <1>4
  <2> QED BY <1>2, <1>3, <1>4, <1>5, <2>1
<1>7. L - 1 \in Places(x, Close)
  <2>1. Len(Close) = 2 /\ Close[1] = "}" /\ Close[2] = "}"
    BY DEF Close
  <2>0. L \in Nat /\ L >= 2 /\ Len(Close) = 2
    BY <1>1, <1>4, <2>1
  <2>2. L - 1 >= 1 /\ L - 1 + Len(Close) - 1 <= L /\ L - 1 \in Nat
    BY <2>0
  <2>3. \A j \in 1..Len(Close) : x[L - 1 + j - 1] = Close[j]
    <3>1. \A j \in 1..Len(Close) : (j = 1 /\ L - 1 + j - 1 = L - 1) \/ (j = 2 /\ L - 1 + j - 1 = L)
      BY <2>0
    <3> QED BY <1>6, <2>1, <3>1
  <2> QED BY <1>1, <2>2, <2>3, PlacesMean, Marks DEF L
<1>8. Max(Places(x, Close)) = L - 1
  <2>1. /\ Max(Places(x, Close)) \in Places(x, Close)
        /\ \A i \in Places(x, Close) : Max(Places(x, Close)) >= i
        /\ \A i \in Places(x, Close) : i \in 1..L /\ i + Len(Close) \in 2..(L + 1)
    BY <1>1, FirstAndLast, Marks DEF LooksTemplated, L
  <2> QED BY <1>1, <1>7, <2>1, Marks
<1>9. After(x, Close) = SubSeq(x, L + 1, L)
  <2>1. L - 1 + Len(Close) = L + 1
    BY <1>1, Marks
  <2> QED BY <1>8, <2>1 DEF After, L
<1> QED BY <1>1, <1>9, SubSeqEmpty

\* A templated pattern without text before its final "*" that covers a path
\* once its templates stand for a value is one couldTemplatedRuleMatch finds.
LEMMA TemplateCovers ==
  ASSUME NEW p \in Patterns, NEW v \in Values, NEW path \in String, ~ TextBeforeStar(p),
         Covers(Resolved(p, v), path)
  PROVE  CouldTemplatedRuleMatch(p, path)
<1> DEFINE w == Resolved(p, v)
           star == EndsIn(p, Star)
           mine == SegmentsOf(p)
           made == SegmentsOf(w)
           theirs == Split(path)
<1>1. p \in String /\ Segments[p] = mine
  BY ConstantsAssumption DEF Segments, SegmentsOf, TextOf
<1>2. w \in String /\ (EndsIn(w, Star) <=> star) /\ made = ResolvedSegments(mine, v)
  BY <1>1, ResolvedIs
<1>3. mine \in Seq(Name) /\ theirs \in Seq(Name) /\ Len(mine) \in Nat /\ Len(theirs) \in Nat
  <2>1. mine \in Seq(Name) /\ theirs \in Seq(Name)
    BY <1>1, TextIs, SplitIs DEF Segmented
  <2> HIDE DEF mine, theirs
  <2> QED BY <2>1, LenProperties
<1>4. Matched(w, path)
  BY <1>2, MatchedIsCovered
<1>5. /\ Len(made) <= Len(theirs)
      /\ EndsIn(w, Star) \/ Len(made) = Len(theirs)
      /\ \A i \in 1..Len(made) :
           \/ made[i] \in {Plus, theirs[i]}
           \/ EndsIn(w, Star) /\ i = Len(made) /\ IsPrefix(made[i], theirs[i])
  BY <1>4, Zenon DEF Matched
<1>6. Len(made) = Len(mine) /\ \A i \in 1..Len(mine) : made[i] = ResolvedSegment(mine[i], v)
  <2> HIDE DEF mine, made
  <2>1. /\ Len(ResolvedSegments(mine, v)) = Len(mine)
        /\ \A i \in 1..Len(mine) : ResolvedSegments(mine, v)[i] = ResolvedSegment(mine[i], v)
    BY <1>3, Names, ResolvedSegmentsAre
  <2> QED BY <1>2, <2>1
<1>7. ASSUME star, LooksTemplated(mine[Len(mine)]) PROVE After(mine[Len(mine)], Close) = <<>>
  <2>1. TextOf(p) \in String /\ p = Append(TextOf(p), "*") /\ "*" \in Char
    BY <1>1, <1>7, TextIs, Characters
  <2>2. PICK b \in Seq(Name), y \in Name : mine = Append(b, y)
    BY <2>1, SplitIs, LastSegment DEF SegmentsOf
  <2>3. mine[Len(mine)] = y
    <3> HIDE DEF mine
    <3> QED BY <2>2, AppendProperties
  <2>4. Last(Split(p)) = Append(y, "*")
    <3>1. Split(p) = Longer(mine, "*")
      BY <2>1, SplitOfAppend DEF SegmentsOf
    <3>2. "*" # "/" /\ Longer(Append(b, y), "*") = Append(b, Append(y, "*"))
      BY <2>1, LongerBy
    <3>3. Append(y, "*") \in Name
      BY <2>1, <3>2, Names
    <3> DEFINE z == Append(y, "*")
    <3> HIDE DEF mine, z
    <3>4. Len(Append(b, z)) = Len(b) + 1 /\ Append(b, z)[Len(b) + 1] = z
      BY <3>3, AppendProperties DEF z
    <3> QED BY <2>2, <3>1, <3>2, <3>4 DEF Last, z
  <2>5. LooksTemplated(Append(y, "*")) /\ EndsIn(Append(y, "*"), Star)
    <3>1. LooksTemplated(Append(y, "*")) <=> LooksTemplated(y)
      BY ResolvedSegmentIs
    <3>2. y \in Seq(Char)
      BY Names DEF String
    <3>3. EndsIn(Append(y, "*"), Star)
      BY <2>1, <3>2, EndingIn DEF Star
    <3> QED BY <1>7, <2>3, <3>1, <3>3
  <2>6. EndsIn(Append(y, "*"), Close \o Star)
    BY <2>4, <2>5 DEF TextBeforeStar
  <2> HIDE DEF mine
  <2> QED BY <1>7, <2>3, <2>6, NothingAfter
<1> HIDE DEF mine, made, theirs, star
<1>8. ASSUME NEW i \in 1..Len(mine)
      PROVE  \/ mine[i] = Plus
             \/ /\ LooksTemplated(mine[i])
                /\ IsPrefix(Before(mine[i], Open), theirs[i])
                /\ EndsIn(theirs[i], After(mine[i], Close))
             \/ /\ ~ LooksTemplated(mine[i])
                /\ \/ star /\ i = Len(mine) /\ IsPrefix(mine[i], theirs[i])
                   \/ mine[i] = theirs[i]
  <2>1. i \in 1..Len(theirs)
    BY <1>3, <1>5, <1>6
  <2>2. mine[i] \in Name /\ theirs[i] \in Name /\ theirs[i] \in String
    BY <1>3, <2>1, ElementOfSeq, Names
  <2>3. \/ made[i] \in {Plus, theirs[i]}
        \/ star /\ i = Len(mine) /\ IsPrefix(made[i], theirs[i])
    BY <1>2, <1>5, <1>6
  <2>4. CASE ~ LooksTemplated(mine[i])
    <3>1. made[i] = mine[i]
      BY <1>6, <2>4 DEF ResolvedSegment
    <3> QED BY <2>3, <2>4, <3>1
  <2>5. CASE LooksTemplated(mine[i])
    <3> DEFINE b == Before(mine[i], Open)
               a == After(mine[i], Close)
    <3>1. /\ b \in String /\ a \in String /\ v \in String /\ b \o v \in String
          /\ made[i] = (b \o v) \o a /\ made[i] # Plus /\ made[i] \in String
      <4>1. made[i] \in Name /\ v \in String
        BY <1>6, <2>2, <2>5, TemplateIs, ValueIs
      <4> QED BY <1>6, <2>2, <2>5, <4>1, TemplateIs, Names
    <3> HIDE DEF a, b
    <3>2. IsPrefix(b, made[i]) /\ EndsIn(made[i], a)
      <4>1. IsPrefix(b, b \o v)
        BY <3>1, PrefixOfConcat DEF String
      <4> DEFINE u == b \o v
      <4> HIDE DEF u
      <4>2. u \in String /\ made[i] = u \o a
        BY <3>1 DEF u
      <4>3. IsPrefix(u, u \o a)
        BY <3>1, <4>2, PrefixOfConcat DEF String
      <4>4. EndsIn(u \o a, a)
        BY <3>1, <4>2, EndsInSuffix
      <4>5. IsPrefix(b, u)
        BY <4>1 DEF u
      <4>6. b \in Seq(Char) /\ u \in Seq(Char) /\ made[i] \in Seq(Char)
        BY <3>1, <4>2 DEF String
      <4>7. IsPrefix(b, made[i])
        BY <4>2, <4>3, <4>5, <4>6, PrefixOfPrefix
      <4> QED BY <4>2, <4>4, <4>7
    <3>3. CASE made[i] = theirs[i]
      BY <2>5, <3>2, <3>3 DEF a, b
    <3>4. CASE star /\ i = Len(mine) /\ IsPrefix(made[i], theirs[i])
      <4>1. a = <<>>
        BY <1>7, <2>5, <3>4 DEF a
      <4>2. EndsIn(theirs[i], a)
        BY <2>2, <4>1, LastCharacter
      <4>3. IsPrefix(b, theirs[i])
        <5>1. b \in Seq(Char) /\ made[i] \in Seq(Char) /\ theirs[i] \in Seq(Char)
          BY <2>2, <3>1 DEF String
        <5> QED BY <3>2, <3>4, <5>1, PrefixOfPrefix
      <4> QED BY <2>5, <4>2, <4>3 DEF a, b
    <3> QED BY <2>3, <3>1, <3>3, <3>4
  <2> QED BY <2>4, <2>5
<1>9. Len(mine) <= Len(theirs) /\ (star \/ Len(mine) = Len(theirs))
  BY <1>2, <1>5, <1>6
<1> QED
  <2>1. CouldTemplatedRuleMatch(p, path)
          <=> /\ Len(mine) <= Len(theirs)
              /\ star \/ Len(mine) = Len(theirs)
              /\ \A i \in 1..Len(mine) :
                   \/ mine[i] = Plus
                   \/ /\ LooksTemplated(mine[i])
                      /\ IsPrefix(Before(mine[i], Open), theirs[i])
                      /\ EndsIn(theirs[i], After(mine[i], Close))
                   \/ /\ ~ LooksTemplated(mine[i])
                      /\ \/ star /\ i = Len(mine) /\ IsPrefix(mine[i], theirs[i])
                         \/ mine[i] = theirs[i]
    BY <1>1, Zenon DEF CouldTemplatedRuleMatch, theirs, star
  <2> QED BY <1>8, <1>9, <2>1

\* A pattern that does not end in "*" covers itself.
LEMMA CoversItself ==
  ASSUME NEW p \in String, ~ EndsIn(p, Star)
  PROVE  Covers(p, p)
<1> DEFINE mine == SegmentsOf(p)
           f == FilledIn(mine, Split(p))
<1>1. mine = Split(p) /\ mine \in Segmented
  BY TextIs, SplitIs DEF SegmentsOf
<1>2. /\ f \in Segmented /\ Len(f) = Len(mine) /\ Len(mine) \in Nat
      /\ \A i \in 1..Len(mine) :
           f[i] = IF mine[i] = Plus /\ i <= Len(mine) THEN mine[i] ELSE mine[i]
  <2> HIDE DEF mine
  <2> QED BY <1>1, FilledInIs
<1>3. f = mine
  <2> HIDE DEF f, mine
  <2>1. f \in [1..Len(mine) -> Name] /\ mine \in [1..Len(mine) -> Name]
    BY <1>1, <1>2, LenProperties DEF Segmented
  <2> QED BY <1>2, <2>1
<1> QED BY <1>1, <1>3, CoversIs

-----------------------------------------------------------------------------
(* Independence of the templates *)

\* The rules taken, once their templates stand for a value.
ResolvedRules(v) == {[r EXCEPT !.path = Resolved(r.path, v)] : r \in taken}

\* The forms of a path a request for it is decided by.
FormsOf(path, cap) == {path, IF ListOrScan(cap) THEN TrimSuffix(path, Slash) ELSE path}

\* What the comparison with the templates has established: none of them is near
\* the path, and no rule taken is one the comparison does not see.
NoneIsNear(path, cap) ==
  ~ Uncertain(path, cap) /\ \A r \in taken : ~ TextBeforeStar(r.path)

\* A rule changes only its path when its templates are resolved, and not at all
\* when it has none.
LEMMA ResolvedRule ==
  ASSUME NEW r \in Rule, NEW v \in Values
  PROVE  /\ [r EXCEPT !.path = Resolved(r.path, v)].path = Resolved(r.path, v)
         /\ r.path \notin TemplatedPatterns =>
              /\ Resolved(r.path, v) = r.path
              /\ [r EXCEPT !.path = Resolved(r.path, v)] = r
<1>1. PICK p \in Patterns, g \in Grants, l \in Lives, s \in Sources :
        r = [path |-> p, caps |-> g.caps, constrained |-> g.constrained, live |-> l, source |-> s]
  BY DEF Rule
<1>2. /\ \A x : [r EXCEPT !.path = x].path = x
      /\ [r EXCEPT !.path = r.path] = r
  BY <1>1
<1>3. ASSUME r.path \notin TemplatedPatterns PROVE Resolved(r.path, v) = r.path
  <2>1. r.path \in Patterns /\ r.path \in String
    BY RuleFields, ConstantsAssumption
  <2>2. ~ LooksTemplated(r.path)
    BY <1>3, <2>1 DEF TemplatedPatterns
  <2> QED BY <2>1, <2>2, Untemplated
<1> QED BY <1>2, <1>3

\* A rule that covers a form of the path once resolved has no template.
LEMMA NoTemplateCovers ==
  ASSUME IInv, NEW path \in Requested, NEW cap, NEW v \in Values, NoneIsNear(path, cap),
         NEW form \in FormsOf(path, cap), NEW r \in taken, Covers(Resolved(r.path, v), form)
  PROVE  r.path \notin TemplatedPatterns
<1>1. r.path \in Patterns /\ r.path \in DOMAIN compiled
  BY RuleFields DEF IInv, Labels
<1>2. form \in Forms /\ form \in String
  BY FormsAreStrings DEF FormsOf, Forms
<1>3. CouldTemplatedRuleMatch(r.path, form)
  BY <1>1, <1>2, TemplateCovers DEF NoneIsNear
<1>4. ~ NearMiss(form)
  <2>1. CASE form = path
    BY <2>1 DEF NoneIsNear, Uncertain
  <2>2. CASE form # path
    <3>1. ListOrScan(cap) /\ form = TrimSuffix(path, Slash)
      BY <2>2 DEF FormsOf
    <3>2. EndsIn(path, Slash)
      BY <2>2, <3>1 DEF TrimSuffix
    <3> QED BY <3>1, <3>2 DEF NoneIsNear, Uncertain
  <2> QED BY <2>1, <2>2
<1> QED BY <1>1, <1>2, <1>3, <1>4 DEF NearMiss, Plausible

\* The labels of the resolved rules that cover a form of the path are those of
\* the rules taken without a template, and they say the same.
LEMMA CoveringRules ==
  ASSUME IInv, NEW path \in Requested, NEW cap, NEW v \in Values, NoneIsNear(path, cap),
         NEW form \in FormsOf(path, cap), NEW p, Covers(p, form)
  PROVE  /\ p \in Labels(ResolvedRules(v)) <=>
              p \in Labels(taken) /\ p \notin TemplatedPatterns
         /\ p \in Labels(ResolvedRules(v)) =>
              {q \in ResolvedRules(v) : q.path = p} = {r \in taken : r.path = p}
<1> DEFINE made(r) == [r EXCEPT !.path = Resolved(r.path, v)]
<1>1. \A r \in taken :
        /\ made(r).path = Resolved(r.path, v)
        /\ r.path \notin TemplatedPatterns => made(r).path = r.path /\ made(r) = r
  BY ResolvedRule DEF IInv
<1>2. \A q : q \in ResolvedRules(v) <=> \E r \in taken : q = made(r)
  BY DEF ResolvedRules
<1> HIDE DEF made
<1>3. ASSUME NEW r \in taken, made(r).path = p
      PROVE  r.path = p /\ p \notin TemplatedPatterns /\ made(r) = r
  <2>1. Covers(Resolved(r.path, v), form)
    BY <1>1, <1>3
  <2>2. r.path \notin TemplatedPatterns
    BY <2>1, NoTemplateCovers
  <2> QED BY <1>1, <1>3, <2>2
<1>4. ASSUME NEW r \in taken, r.path = p, p \notin TemplatedPatterns
      PROVE  made(r) = r
  BY <1>1, <1>4
<1>5. p \in Labels(ResolvedRules(v)) <=> \E r \in taken : made(r).path = p
  BY <1>2 DEF Labels
<1>6. p \in Labels(ResolvedRules(v)) <=> p \in Labels(taken) /\ p \notin TemplatedPatterns
  BY <1>1, <1>3, <1>4, <1>5 DEF Labels
<1>7. ASSUME p \in Labels(ResolvedRules(v))
      PROVE  {q \in ResolvedRules(v) : q.path = p} = {r \in taken : r.path = p}
  <2>1. p \notin TemplatedPatterns
    BY <1>6, <1>7
  <2>2. \A q : q \in ResolvedRules(v) /\ q.path = p => q \in taken /\ q.path = p
    BY <1>2, <1>3
  <2>3. \A r : r \in taken /\ r.path = p => r \in ResolvedRules(v) /\ r.path = p
    BY <1>2, <1>4, <2>1
  <2> QED BY <2>2, <2>3
<1> QED BY <1>6, <1>7

\* The best of patterns is the best of fewer of them.
LEMMA BestOfFewer ==
  ASSUME NEW S, S \subseteq Ranked \ Malformed, NEW R \in SUBSET S, NEW w \in R, Best(S) = {w}
  PROVE  Best(R) = {w}
<1>1. \A q \in S \ {w} : Outranks(w, q)
  BY DEF Best
<1>2. w \in Best(R)
  BY <1>1 DEF Best
<1>3. ASSUME NEW p \in Best(R), p # w PROVE FALSE
  <2>1. p \in Ranked \ Malformed /\ w \in Ranked \ Malformed
    BY <1>3 DEF Best
  <2>2. Outranks(p, w) /\ Outranks(w, p)
    BY <1>1, <1>3 DEF Best
  <2>3. Below(w, p) /\ Below(p, w)
    BY <2>1, <2>2, OutrankingIsPriority
  <2> QED BY <2>1, <2>3, PriorityIsAnOrder
<1> QED BY <1>2, <1>3

\* When no template is near the path and the deciding pattern has none, the same
\* pattern decides among the resolved rules, by the same rules.
LEMMA TheSameDecides ==
  ASSUME IInv, IsFiniteSet(DOMAIN compiled), NEW path \in Requested, NEW cap, NEW v \in Values,
         NoneIsNear(path, cap), NEW w, {w} \ {None} = Deciding(taken, path, cap),
         w # None => w \notin TemplatedPatterns
  PROVE  /\ Deciding(ResolvedRules(v), path, cap) = Deciding(taken, path, cap)
         /\ \A D \in {Deciding(taken, path, cap)} :
              {q \in ResolvedRules(v) : q.path \in D} = {r \in taken : r.path \in D}
<1> DEFINE rules == ResolvedRules(v)
           second == IF ListOrScan(cap) THEN TrimSuffix(path, Slash) ELSE path
           D == Deciding(taken, path, cap)
           exact(labels) == {p \in {path, second} \cap labels : IsExact(p)}
           given == exact(Labels(taken))
           made == exact(Labels(rules))
<1>1. /\ path \in FormsOf(path, cap) /\ second \in FormsOf(path, cap)
      /\ path \in Forms /\ second \in Forms /\ path \in String /\ second \in String
  BY FormsAreStrings DEF FormsOf, Forms
<1>2. /\ D = IF path \in given THEN {path}
             ELSE IF given # {} THEN given
             ELSE IF Rivals(taken, path) # {} THEN Best(Rivals(taken, path))
             ELSE Best(Rivals(taken, second))
      /\ Deciding(rules, path, cap) =
           IF path \in made THEN {path}
           ELSE IF made # {} THEN made
           ELSE IF Rivals(rules, path) # {} THEN Best(Rivals(rules, path))
           ELSE Best(Rivals(rules, second))
  BY Zenon DEF Deciding
<1>3. \A p \in D : p = w /\ p \notin TemplatedPatterns
  OBVIOUS
<1> HIDE DEF rules, second, D
<1>4. \A p : p \in made <=> p \in given /\ p \notin TemplatedPatterns
  <2> SUFFICES ASSUME NEW p \in {path, second}, IsExact(p)
               PROVE  p \in Labels(rules) <=> p \in Labels(taken) /\ p \notin TemplatedPatterns
    OBVIOUS
  <2>1. Covers(p, p)
    BY <1>1, CoversItself DEF IsExact
  <2> QED BY <1>1, <2>1, CoveringRules DEF rules
<1>5. ASSUME NEW form \in {path, second}
      PROVE  /\ Rivals(rules, form) = {p \in Rivals(taken, form) : p \notin TemplatedPatterns}
             /\ Rivals(taken, form) \subseteq Ranked \ Malformed
             /\ Rivals(taken, form) # {} => \E p : Best(Rivals(taken, form)) = {p}
  <2>1. \A p : Covers(p, form) =>
          (p \in Labels(rules) <=> p \in Labels(taken) /\ p \notin TemplatedPatterns)
    BY <1>1, CoveringRules DEF rules
  <2>2. Rivals(taken, form) \subseteq Ranked \ Malformed
    BY <1>1, RivalsAre
  <2>3. Rivals(taken, form) # {} => \E p : Best(Rivals(taken, form)) = {p}
    BY <1>1, WinnerIsBest, Zenon
  <2> QED BY <2>1, <2>2, <2>3 DEF Rivals
<1>6. ASSUME NEW form \in {path, second}, D = Best(Rivals(taken, form))
      PROVE  /\ Best(Rivals(rules, form)) = D
             /\ Rivals(taken, form) # {} <=> Rivals(rules, form) # {}
             /\ D \subseteq Rivals(taken, form)
  <2>0. D \subseteq Rivals(taken, form)
    BY <1>6 DEF Best
  <2>1. CASE Rivals(taken, form) = {}
    <3>1. Rivals(rules, form) = {}
      BY <1>5, <2>1
    <3> QED BY <1>6, <2>0, <2>1, <3>1
  <2>2. CASE Rivals(taken, form) # {}
    <3>1. D = {w}
      BY <1>3, <1>5, <1>6, <2>2
    <3>2. w \in Rivals(taken, form) /\ w \notin TemplatedPatterns
      BY <1>3, <3>1, <2>0
    <3>3. w \in Rivals(rules, form) /\ Rivals(rules, form) \in SUBSET Rivals(taken, form)
      BY <1>5, <3>2
    <3>4. Best(Rivals(rules, form)) = {w}
      <4> DEFINE S == Rivals(taken, form)
                 R == Rivals(rules, form)
      <4>1. S \subseteq Ranked \ Malformed /\ Best(S) = {w} /\ w \in R /\ R \in SUBSET S
        BY <1>5, <1>6, <3>1, <3>3
      <4> HIDE DEF S, R
      <4>2. Best(R) = {w}
        BY <4>1, BestOfFewer
      <4> QED BY <4>2 DEF R
    <3> QED BY <2>0, <2>2, <3>1, <3>3, <3>4
  <2> QED BY <2>1, <2>2
<1>7. /\ Deciding(rules, path, cap) = D
      /\ \A p \in D : p \in Labels(taken) /\ \E form \in FormsOf(path, cap) : Covers(p, form)
  <2>1. \A p \in given : p \in Labels(taken) /\ p \in {path, second} /\ Covers(p, p)
    BY <1>1, CoversItself DEF IsExact
  <2>2. \A form \in {path, second} : \A p \in Rivals(taken, form) :
          p \in Labels(taken) /\ Covers(p, form)
    BY DEF Rivals
  <2> HIDE DEF given, made
  <2>3. CASE path \in given
    <3>1. D = {path}
      BY <1>2, <2>3
    <3>2. path \in made
      BY <1>3, <1>4, <2>3, <3>1
    <3> QED BY <1>1, <1>2, <2>1, <2>3, <3>1, <3>2
  <2>4. CASE path \notin given /\ given # {}
    <3>1. D = given
      BY <1>2, <2>4
    <3>2. made = given
      BY <1>3, <1>4, <3>1
    <3> QED BY <1>1, <1>2, <2>1, <2>4, <3>1, <3>2
  <2>5. CASE given = {} /\ Rivals(taken, path) # {}
    <3>1. D = Best(Rivals(taken, path))
      BY <1>2, <2>5
    <3>2. made = {}
      BY <1>4, <2>5
    <3>3. /\ Best(Rivals(rules, path)) = D /\ Rivals(rules, path) # {}
          /\ D \subseteq Rivals(taken, path)
      BY <1>6, <2>5, <3>1
    <3>4. Deciding(rules, path, cap) = D
      BY <1>2, <3>2, <3>3
    <3> QED BY <1>1, <2>2, <3>3, <3>4
  <2>6. CASE given = {} /\ Rivals(taken, path) = {}
    <3>1. D = Best(Rivals(taken, second))
      BY <1>2, <2>6
    <3>2. made = {} /\ Rivals(rules, path) = {}
      BY <1>4, <1>5, <2>6
    <3>3. Best(Rivals(rules, second)) = D /\ D \subseteq Rivals(taken, second)
      BY <1>6, <3>1
    <3>4. Deciding(rules, path, cap) = D
      BY <1>2, <3>2, <3>3
    <3> QED BY <1>1, <2>2, <3>3, <3>4
  <2> QED BY <2>3, <2>4, <2>5, <2>6
<1>8. {q \in rules : q.path \in D} = {r \in taken : r.path \in D}
  <2>1. CASE D = {}
    BY <2>1
  <2>2. CASE D # {}
    <3>1. D = {w} /\ w \in Labels(taken) /\ w \notin TemplatedPatterns
      BY <1>3, <1>7, <2>2
    <3>2. PICK form \in FormsOf(path, cap) : Covers(w, form)
      BY <1>7, <3>1
    <3>3. {q \in rules : q.path = w} = {r \in taken : r.path = w}
      BY <3>1, <3>2, CoveringRules DEF rules
    <3> QED BY <3>1, <3>3
  <2> QED BY <2>1, <2>2
<1> QED BY <1>7, <1>8 DEF rules, D

-----------------------------------------------------------------------------
(* The answer *)

Decision ==
  [allowed : BOOLEAN, denied : BOOLEAN, incomplete : BOOLEAN, sources : SUBSET Sources]

\* A decision by a compiled pattern, or by none, names granting policies.
LEMMA DecideType ==
  ASSUME IInv, NEW pattern, pattern = None \/ pattern \in DOMAIN compiled, NEW cap
  PROVE  Decide(pattern, cap) \in Decision
<1> DEFINE rule == compiled[pattern]
           none == NotGranted
<1>1. none \in Decision
  BY DEF NotGranted, Decision
<1>2. [none EXCEPT !.incomplete = TRUE] \in Decision
  BY DEF NotGranted, Decision
<1>3. ASSUME NEW s \in SUBSET Sources
      PROVE  /\ [none EXCEPT !.denied = TRUE, !.sources = s] \in Decision
             /\ [none EXCEPT !.allowed = TRUE, !.sources = s] \in Decision
  BY DEF NotGranted, Decision
<1>4. ASSUME pattern # None, NEW c \in rule.effective PROVE rule.granting[c] \in SUBSET Sources
  <2>1. IsCompiled(rule)
    BY <1>4 DEF IInv
  <2>2. rule.granting \in [rule.effective -> (SUBSET Sources) \ {{}}]
    BY <2>1 DEF IsCompiled
  <2> HIDE DEF rule
  <2> QED BY <1>4, <2>2
<1>5. Decide(pattern, cap) =
        IF pattern = None THEN none
        ELSE IF pattern \in TemplatedPatterns THEN [none EXCEPT !.incomplete = TRUE]
        ELSE IF "deny" \in rule.effective
        THEN [none EXCEPT !.denied = TRUE, !.sources = rule.granting["deny"]]
        ELSE IF cap \notin rule.effective THEN none
        ELSE IF rule.constrained THEN [none EXCEPT !.incomplete = TRUE]
        ELSE [none EXCEPT !.allowed = TRUE, !.sources = rule.granting[cap]]
  BY Zenon DEF Decide
<1> HIDE DEF rule, none
<1> QED BY <1>1, <1>2, <1>3, <1>4, <1>5, Zenon

\* An answer is of the request, found and decided by what is compiled.
IsAnswer ==
  /\ answer.path \in Requested /\ answer.capability \in Asked
  /\ IsFound(answer.found, answer.path)
  /\ answer.decision \in Decision

\* What an answer means: the deciding pattern is found, and what it wins over;
\* a definite one is what its rules say together, whatever their templates
\* stand for.
Means(rules, path, cap, found, decision) ==
  /\ {found.pattern} \ {None} = Deciding(rules, path, cap)
  /\ found.stage \in {"pattern", "pattern trimmed"} =>
       found.losers = Rivals(rules, MatchedWith(found, path)) \ {found.pattern}
  /\ Verdict(decision) # "incomplete" =>
       Verdict(decision) = Says({r \in rules : r.path \in Deciding(rules, path, cap)}, cap)
  /\ Verdict(decision) # "incomplete" /\ (\A r \in rules : ~ TextBeforeStar(r.path)) =>
       \A v \in Values :
         \A made \in {{[r EXCEPT !.path = Resolved(r.path, v)] : r \in rules}} :
           Verdict(decision) = Says({r \in made : r.path \in Deciding(made, path, cap)}, cap)

IsMeant ==
  status = "answered" =>
    Means(taken, answer.path, answer.capability, answer.found, answer.decision)

AnswerInv ==
  /\ IInv
  /\ IsFiniteSet(DOMAIN compiled)
  /\ status \in {"compiling", "answered", "unknown capability", "malformed pattern"}
  /\ status = "answered" => IsAnswer
  /\ IsMeant

\* An answer answers what its decision does.
LEMMA VerdictIsAnswered == Answered = Verdict(answer.decision)
BY Zenon DEF Answered, Verdict

\* What is looked up, decided and weakened means what it should.
LEMMA DecisionIsMeant ==
  ASSUME IInv, IsFiniteSet(DOMAIN compiled), NEW path \in Requested, NEW cap,
         NEW found, found = LookupLiteral(path, cap),
         NEW decision, ~ decision.incomplete =>
           /\ decision = Decide(found.pattern, cap) /\ ~ Uncertain(path, cap)
  PROVE  Means(taken, path, cap, found, decision)
<1> DEFINE D == Deciding(taken, path, cap)
<1>1. /\ {found.pattern} \ {None} = D
      /\ found.pattern = None \/ found.pattern \in DOMAIN compiled
      /\ found.stage \in {"pattern", "pattern trimmed"} =>
           found.losers = Rivals(taken, MatchedWith(found, path)) \ {found.pattern}
  BY LookupDecides DEF IsDeciding
<1>2. ASSUME Verdict(decision) # "incomplete"
      PROVE  /\ Verdict(decision) = Says({r \in taken : r.path \in D}, cap)
             /\ found.pattern # None => found.pattern \notin TemplatedPatterns
             /\ ~ Uncertain(path, cap)
  <2>1. ~ decision.incomplete
    BY <1>2 DEF Verdict
  <2>2. decision = Decide(found.pattern, cap) /\ ~ Uncertain(path, cap)
    BY <2>1
  <2> DEFINE w == found.pattern
  <2>3. ~ Decide(w, cap).incomplete /\ (w = None \/ w \in DOMAIN compiled)
    BY <1>1, <2>1, <2>2
  <2> HIDE DEF w
  <2>4. /\ Verdict(Decide(w, cap)) = Says({r \in taken : r.path \in {w} \ {None}}, cap)
        /\ w # None => w \notin TemplatedPatterns
    BY <2>3, DecideSays
  <2> QED BY <1>1, <2>2, <2>4 DEF w
<1>3. ASSUME \A r \in taken : ~ TextBeforeStar(r.path), Verdict(decision) # "incomplete",
             NEW v \in Values
      PROVE  Verdict(decision)
               = Says({r \in ResolvedRules(v) :
                         r.path \in Deciding(ResolvedRules(v), path, cap)}, cap)
  <2> DEFINE w == found.pattern
  <2>1. NoneIsNear(path, cap)
    BY <1>2, <1>3 DEF NoneIsNear
  <2>2. {w} \ {None} = Deciding(taken, path, cap) /\ (w # None => w \notin TemplatedPatterns)
    BY <1>1, <1>2, <1>3
  <2> HIDE DEF w
  <2>3. /\ Deciding(ResolvedRules(v), path, cap) = D
        /\ {q \in ResolvedRules(v) : q.path \in D} = {r \in taken : r.path \in D}
    BY <2>1, <2>2, TheSameDecides
  <2> HIDE DEF D
  <2> QED BY <1>2, <1>3, <2>3
<1> QED BY <1>1, <1>2, <1>3 DEF Means, ResolvedRules

\* Evaluating keeps the invariant: it gives an answer of its kind, which means
\* what it should.
LEMMA EvaluateKeeps ==
  ASSUME AnswerInv, NEW path \in Requested, NEW cap \in Asked, Evaluate(path, cap)
  PROVE  AnswerInv'
<1>1. /\ IInv /\ IsFiniteSet(DOMAIN compiled) /\ DOMAIN compiled \subseteq Patterns
      /\ compiled' = compiled /\ taken' = taken
  BY DEF AnswerInv, IInv, Evaluate
<1>2. IInv' /\ IsFiniteSet(DOMAIN compiled')
  BY <1>1 DEF IInv, RulesOf
<1>3. CASE cap \notin Known
  <2>1. status' = "unknown capability"
    BY <1>3 DEF Evaluate
  <2>2. IsMeant'
    BY <2>1 DEF IsMeant
  <2> QED BY <1>2, <2>1, <2>2 DEF AnswerInv
<1>4. CASE cap \in Known
  <2> DEFINE found == LookupLiteral(path, cap)
             decided == Decide(found.pattern, cap)
             weakened == [decided EXCEPT !.incomplete = TRUE, !.allowed = FALSE, !.denied = FALSE]
             decision == IF ~ decided.incomplete /\ Uncertain(path, cap) THEN weakened ELSE decided
  <2>1. IsFound(found, path)
    BY <1>1, LookupFinds
  <2>2. decided \in Decision
    BY <1>1, <2>1, DecideType DEF IsFound
  <2>3. decision \in Decision
    <3> HIDE DEF decided
    <3>1. weakened \in Decision
      BY <2>2 DEF Decision
    <3> HIDE DEF weakened
    <3> QED BY <2>2, <3>1
  <2>4. /\ status' = "answered"
        /\ answer' = [path |-> path, capability |-> cap, found |-> found, decision |-> decision]
    BY <1>4, Zenon DEF Evaluate
  <2>5. /\ answer'.path = path /\ answer'.capability = cap /\ answer'.found = found
        /\ answer'.decision = decision
    <3> HIDE DEF found, decision
    <3> QED BY <2>4
  <2> HIDE DEF found, decision
  <2>6. IsAnswer'
    BY <1>1, <2>1, <2>3, <2>5
       DEF IsAnswer, IsFound, Unbeaten, Candidates, MatchingPrefixes
  <2>7. IsMeant'
    <3>1. ~ decision.incomplete => decision = decided /\ ~ Uncertain(path, cap)
      <4>1. weakened.incomplete
        BY <2>2 DEF Decision
      <4> HIDE DEF weakened, decided
      <4> QED BY <4>1 DEF decision
    <3>2. found = LookupLiteral(path, cap)
      BY DEF found
    <3>3. Means(taken, path, cap, found, decision)
      BY <1>1, <3>1, <3>2, DecisionIsMeant
    <3> HIDE DEF decided
    <3> QED BY <1>1, <2>5, <3>3, Zenon DEF IsMeant
  <2> QED BY <1>2, <2>4, <2>6, <2>7 DEF AnswerInv
<1> QED BY <1>3, <1>4

\* The invariant of the answers holds throughout.
LEMMA AnswerInductive == Spec => []AnswerInv
<1>1. Init => AnswerInv
  <2> SUFFICES ASSUME Init PROVE AnswerInv
    OBVIOUS
  <2>1. DOMAIN compiled = {}
    BY DEF Init
  <2>2. IsFiniteSet(DOMAIN compiled)
    BY <2>1, FS_EmptySet
  <2> QED BY <2>1, <2>2 DEF Init, AnswerInv, IInv, IsMeant, Labels
<1>2. AnswerInv /\ [Next]_vars => AnswerInv'
  <2> SUFFICES ASSUME AnswerInv, [Next]_vars PROVE AnswerInv'
    OBVIOUS
  <2>1. ASSUME NEW rule \in Rule, CompileRule(rule) PROVE AnswerInv'
    <3>1. IInv'
      BY <2>1, CompileKeeps DEF AnswerInv
    <3>2. IsFiniteSet(DOMAIN compiled')
      <4>1. DOMAIN compiled' = DOMAIN compiled \/ DOMAIN compiled' = DOMAIN compiled \cup {rule.path}
        BY <2>1 DEF CompileRule
      <4> QED BY <4>1, FS_AddElement DEF AnswerInv
    <3>3. status' \in {"compiling", "unknown capability", "malformed pattern"}
      BY <2>1 DEF CompileRule
    <3> QED BY <3>1, <3>2, <3>3 DEF AnswerInv, IsMeant
  <2>2. CASE UNCHANGED vars
    <3>1. IInv'
      BY <2>2 DEF AnswerInv, IInv, RulesOf, vars
    <3>2. status' = "answered" => IsAnswer'
      BY <2>2 DEF AnswerInv, vars, IsAnswer, IsFound, Unbeaten, Candidates, MatchingPrefixes
    <3>3. IsMeant'
      BY <2>2 DEF AnswerInv, vars, IsMeant
    <3> QED BY <2>2, <3>1, <3>2, <3>3 DEF AnswerInv, vars
  <2> QED BY <2>1, <2>2, EvaluateKeeps DEF Next
<1> QED BY <1>1, <1>2, PTL DEF Spec

\* TypeOK: the compiled rules and the answers are of the kinds the code
\* declares, for any patterns, paths, rules and capabilities.
THEOREM TypeCorrect == Spec => []TypeOK
<1>1. AnswerInv => TypeOK
  BY DEF AnswerInv, IInv, IsCompiled, IsAnswer, IsFound, Decision, TypeOK
<1> QED BY <1>1, AnswerInductive, PTL

\* The pattern that decides is the one candidate no other is preferred to, so
\* the answer does not depend on the order in which matchNonExact compares the
\* candidates, which is that of the rules in the policies (match.go:243).
THEOREM WinnerIsUnbeaten ==
  Spec => [](status = "answered" /\ answer.found.stage \in {"pattern", "pattern trimmed"} =>
               Unbeaten(MatchedWith(answer.found, answer.path)) = {answer.found.pattern})
<1>1. AnswerInv =>
        (status = "answered" /\ answer.found.stage \in {"pattern", "pattern trimmed"} =>
           Unbeaten(MatchedWith(answer.found, answer.path)) = {answer.found.pattern})
  BY DEF AnswerInv, IsAnswer, IsFound
<1> QED BY <1>1, AnswerInductive, PTL
\* The answer is that of OpenBao's order of lookup over the rules as written:
\* the pattern found is the one the reference decides by, and a definite answer
\* is what that pattern's rules say together (Evaluate, priorityLess).
THEOREM AnswersByThePattern == Spec => []AnswerIsOfTheDecidingPattern
<1>1. AnswerInv => AnswerIsOfTheDecidingPattern
  <2> SUFFICES ASSUME AnswerInv, status = "answered"
               PROVE  /\ {answer.found.pattern} \ {None}
                           = Deciding(taken, answer.path, answer.capability)
                      /\ Verdict(answer.decision) # "incomplete" =>
                           Verdict(answer.decision)
                             = Says({r \in taken : r.path \in
                                      Deciding(taken, answer.path, answer.capability)},
                                    answer.capability)
    BY VerdictIsAnswered DEF AnswerIsOfTheDecidingPattern
  <2> QED BY DEF AnswerInv, IsMeant, Means
<1> QED BY <1>1, AnswerInductive, PTL

\* A winning pattern is listed with every other pattern that covers the path it
\* was matched with, and with no other (LosingCandidates).
THEOREM LosersAreTheOthers == Spec => []LosersAccountedFor
<1>1. AnswerInv => LosersAccountedFor
  BY DEF AnswerInv, IsMeant, Means, MatchedWith, LosersAccountedFor
<1> QED BY <1>1, AnswerInductive, PTL

\* A definite answer stays the same whatever the identity templates of the
\* rules stand for, unless a rule has text between its template and its final
\* "*" (evaluator.go:527).
THEOREM TemplatesDoNotMatter == Spec => []IndependentUnlessTextBeforeStar
<1>1. AnswerInv => IndependentUnlessTextBeforeStar
  <2> SUFFICES ASSUME AnswerInv, \A r \in taken : ~ TextBeforeStar(r.path),
                      status = "answered", Answered # "incomplete", NEW v \in Values,
                      NEW rules, rules = {[r EXCEPT !.path = Resolved(r.path, v)] : r \in taken},
                      NEW deciding, deciding = Deciding(rules, answer.path, answer.capability)
               PROVE  Answered = Says({r \in rules : r.path \in deciding}, answer.capability)
    BY DEF IndependentUnlessTextBeforeStar, IndependentOfTemplates
  <2>1. Means(taken, answer.path, answer.capability, answer.found, answer.decision)
    BY DEF AnswerInv, IsMeant
  <2>2. \A w \in Values : \A made \in {{[r EXCEPT !.path = Resolved(r.path, w)] : r \in taken}} :
          Answered = Says({r \in made : r.path \in Deciding(made, answer.path, answer.capability)},
                          answer.capability)
    BY <2>1, VerdictIsAnswered, Zenon DEF Means
  <2> QED BY <2>2
<1> QED BY <1>1, AnswerInductive, PTL

=============================================================================
