--------------------------- MODULE RuleListProofs ----------------------------
(***************************************************************************)
(* That the rule the screen names is the rule that is changed, and that it *)
(* is on the screen, for any documents, however many blocks of other kinds *)
(* stand between their rules, and for terminals of any size.               *)
(***************************************************************************)
EXTENDS RuleList, SelectionProofs

-----------------------------------------------------------------------------
(* The inductive invariant *)

IsRule(subject) ==
  subject.ref \in 0 .. RuleCount - 1 /\ subject.text = Rules[subject.ref + 1]

\* A form and a question are about a rule there is, which still says what they
\* showed; and there is never one of each.
IInv ==
  /\ TypeOK
  /\ form # None => form \in Subjects /\ (form.ref = None \/ IsRule(form))
  /\ dialog # None => dialog \in Subjects /\ IsRule(dialog)

-----------------------------------------------------------------------------
(* The rules of a document *)

RulesIn(list) == TextsOf(Only(list, PathBlocks))
OthersIn(list) == Only(list, OtherBlocks)

\* Every block is a rule or none.
LEMMA Kinds ==
  /\ PathBlocks \subseteq Blocks /\ OtherBlocks \subseteq Blocks
  /\ \A b \in Blocks : b.path \in BOOLEAN /\ b.text \in Texts
                       /\ (b.path <=> b \in PathBlocks) /\ (b \in OtherBlocks <=> ~b.path)
BY DEF Blocks, PathBlocks, OtherBlocks

\* The texts of a list of blocks.
LEMMA TextsType ==
  ASSUME NEW list \in Seq(Blocks)
  PROVE  /\ TextsOf(list) \in Seq(Texts) /\ Len(TextsOf(list)) = Len(list) /\ Len(list) \in Nat
         /\ \A i \in 1..Len(list) : TextsOf(list)[i] = list[i].text
<1>1. /\ Len(list) \in Nat /\ DOMAIN list = 1..Len(list)
      /\ \A i \in 1..Len(list) : list[i].text \in Texts
  BY LenProperties, ElementOfSeq, Kinds
<1>2. TextsOf(list) = [i \in 1..Len(list) |-> list[i].text]
  BY <1>1 DEF TextsOf
<1>3. TextsOf(list) \in [1..Len(list) -> Texts]
  BY <1>1, <1>2
<1> QED BY <1>1, <1>2, <1>3

\* The texts of two lists, one after the other.
LEMMA TextsOfConcat ==
  ASSUME NEW l \in Seq(Blocks), NEW r \in Seq(Blocks)
  PROVE  TextsOf(l \o r) = TextsOf(l) \o TextsOf(r)
<1>1. /\ l \o r \in Seq(Blocks) /\ Len(l \o r) = Len(l) + Len(r)
      /\ \A i \in 1..(Len(l) + Len(r)) : (l \o r)[i] = IF i <= Len(l) THEN l[i] ELSE r[i - Len(l)]
  BY ConcatProperties
<1>2. /\ TextsOf(l) \in Seq(Texts) /\ Len(TextsOf(l)) = Len(l) /\ Len(l) \in Nat
      /\ \A i \in 1..Len(l) : TextsOf(l)[i] = l[i].text
  BY TextsType
<1>3. /\ TextsOf(r) \in Seq(Texts) /\ Len(TextsOf(r)) = Len(r) /\ Len(r) \in Nat
      /\ \A i \in 1..Len(r) : TextsOf(r)[i] = r[i].text
  BY TextsType
<1> DEFINE u == l \o r
           tl == TextsOf(l)
           tr == TextsOf(r)
           tu == TextsOf(u)
<1>4. /\ tu \in Seq(Texts) /\ Len(tu) = Len(l) + Len(r)
      /\ \A i \in 1..(Len(l) + Len(r)) : tu[i] = u[i].text
  BY <1>1, TextsType
<1>5. /\ tl \o tr \in Seq(Texts) /\ Len(tl \o tr) = Len(tl) + Len(tr)
      /\ \A i \in 1..(Len(tl) + Len(tr)) : (tl \o tr)[i] = IF i <= Len(tl) THEN tl[i] ELSE tr[i - Len(tl)]
  BY <1>2, <1>3, ConcatProperties
<1> HIDE DEF u, tl, tr, tu
<1>6. ASSUME NEW i \in 1..(Len(l) + Len(r)) PROVE tu[i] = (tl \o tr)[i]
  <2>1. CASE i <= Len(l)
    <3>1. i \in 1..Len(l)
      BY <1>2, <1>3, <2>1
    <3>2. tu[i] = l[i].text /\ tl[i] = l[i].text
      BY <1>1, <1>2, <1>4, <2>1, <3>1 DEF u, tl
    <3>3. (tl \o tr)[i] = tl[i]
      BY <1>2, <1>3, <1>5, <2>1 DEF tl, tr
    <3> QED BY <3>2, <3>3
  <2>2. CASE ~(i <= Len(l))
    <3>1. i - Len(l) \in 1..Len(r)
      BY <1>2, <1>3, <2>2
    <3>2. tu[i] = r[i - Len(l)].text /\ tr[i - Len(l)] = r[i - Len(l)].text
      BY <1>1, <1>3, <1>4, <2>2, <3>1 DEF u, tr
    <3>3. (tl \o tr)[i] = tr[i - Len(l)]
      BY <1>2, <1>3, <1>5, <2>2 DEF tl, tr
    <3> QED BY <3>2, <3>3
  <2> QED BY <2>1, <2>2
<1>7. Len(tl) = Len(l) /\ Len(tr) = Len(r)
  BY <1>2, <1>3 DEF tl, tr
<1>8. tu = tl \o tr
  BY <1>4, <1>5, <1>6, <1>7, SeqEqual
<1> QED BY <1>8 DEF u, tl, tr, tu

\* The texts of a list of one, and of none.
LEMMA TextsOfOne ==
  ASSUME NEW b \in Blocks
  PROVE  TextsOf(<<b>>) = <<b.text>> /\ TextsOf(<<>>) = <<>>
BY DEF TextsOf

\* What the rules and the other blocks are, around one block.
LEMMA Around ==
  ASSUME NEW l \in Seq(Blocks), NEW r \in Seq(Blocks), NEW b \in Blocks
  PROVE  LET s == (l \o <<b>>) \o r
         IN  /\ s \in Seq(Blocks) /\ Len(s) = Len(l) + 1 + Len(r)
             /\ b.path => /\ RulesIn(s) = (RulesIn(l) \o <<b.text>>) \o RulesIn(r)
                          /\ OthersIn(s) = OthersIn(l) \o OthersIn(r)
<1> DEFINE one == <<b>>
           m == l \o one
           s == m \o r
<1>1. one \in Seq(Blocks) /\ Len(one) = 1
  OBVIOUS
<1>2. Only(one, PathBlocks) = (IF b \in PathBlocks THEN one ELSE <<>>)
      /\ Only(one, OtherBlocks) = (IF b \in OtherBlocks THEN one ELSE <<>>)
  BY OnlyOfOne
<1>3. TextsOf(one) = <<b.text>>
  BY TextsOfOne
<1> HIDE DEF one
<1>4. /\ m \in Seq(Blocks) /\ Len(m) = Len(l) + 1 /\ s \in Seq(Blocks) /\ Len(s) = Len(l) + 1 + Len(r)
  <2>1. m \in Seq(Blocks) /\ Len(m) = Len(l) + 1
    BY <1>1, ConcatProperties
  <2> HIDE DEF m
  <2>2. s \in Seq(Blocks) /\ Len(s) = Len(m) + Len(r)
    BY <2>1, ConcatProperties
  <2> QED BY <2>1, <2>2
<1>5. ASSUME NEW A PROVE Only(s, A) = (Only(l, A) \o Only(one, A)) \o Only(r, A)
  <2>1. Only(m, A) = Only(l, A) \o Only(one, A)
    BY <1>1, OnlyOfConcat
  <2> HIDE DEF m
  <2>2. Only(s, A) = Only(m, A) \o Only(r, A)
    BY <1>4, OnlyOfConcat
  <2> QED BY <2>1, <2>2
<1>6. ASSUME b.path
      PROVE  /\ RulesIn(s) = (RulesIn(l) \o <<b.text>>) \o RulesIn(r)
             /\ OthersIn(s) = OthersIn(l) \o OthersIn(r)
  <2>1. b \in PathBlocks /\ b \notin OtherBlocks
    BY <1>6, Kinds
  <2>2. Only(s, PathBlocks) = (Only(l, PathBlocks) \o one) \o Only(r, PathBlocks)
    BY <1>2, <1>5, <2>1
  <2>3. Only(s, OtherBlocks) = (Only(l, OtherBlocks) \o <<>>) \o Only(r, OtherBlocks)
    BY <1>2, <1>5, <2>1
  <2>4. Only(l, OtherBlocks) \o <<>> = Only(l, OtherBlocks)
    BY OnlyType, ConcatEmptySeq
  <2> DEFINE ol == Only(l, PathBlocks)
             or == Only(r, PathBlocks)
             om == ol \o one
  <2>5. ol \in Seq(Blocks) /\ or \in Seq(Blocks)
    BY OnlyType
  <2> HIDE DEF ol, or
  <2>6. om \in Seq(Blocks) /\ TextsOf(om) = TextsOf(ol) \o TextsOf(one)
    BY <1>1, <2>5, ConcatProperties, TextsOfConcat
  <2> HIDE DEF om
  <2>7. TextsOf(om \o or) = TextsOf(om) \o TextsOf(or)
    BY <2>5, <2>6, TextsOfConcat
  <2>8. Only(s, PathBlocks) = om \o or
    BY <2>2 DEF om, ol, or
  <2>9. RulesIn(s) = (TextsOf(ol) \o <<b.text>>) \o TextsOf(or)
    BY <1>3, <2>6, <2>7, <2>8 DEF RulesIn
  <2>10. TextsOf(ol) = RulesIn(l) /\ TextsOf(or) = RulesIn(r)
    BY DEF RulesIn, ol, or
  <2>11. OthersIn(s) = OthersIn(l) \o OthersIn(r)
    BY <2>3, <2>4 DEF OthersIn
  <2> QED BY <2>9, <2>10, <2>11
<1> QED BY <1>4, <1>6 DEF one

\* The rules of a document, and their number.
LEMMA RulesType ==
  ASSUME NEW list \in Seq(Blocks)
  PROVE  RulesIn(list) \in Seq(Texts) /\ Len(RulesIn(list)) \in Nat
         /\ Len(RulesIn(list)) = Len(Only(list, PathBlocks))
<1>1. Only(list, PathBlocks) \in Seq(Blocks)
  BY OnlyType
<1> QED BY <1>1, TextsType DEF RulesIn

\* The n-th rule of the list is the n-th `path` block of the file: that many
\* rules come before the block its number stands for.
LEMMA BlockOfRule ==
  ASSUME blocks \in Seq(Blocks), NEW ref \in 0 .. RuleCount - 1
  PROVE  LET p == PathBlock(ref)
             l == SubSeq(blocks, 1, p - 1)
         IN  /\ p \in 1..Len(blocks) /\ blocks[p] \in Blocks /\ blocks[p].path
             /\ Len(RulesIn(l)) = ref
<1> DEFINE p == PathBlock(ref)
           l == SubSeq(blocks, 1, p - 1)
           Right(b) == blocks[b].path /\ Len(Only(SubSeq(blocks, 1, b), PathBlocks)) = ref + 1
<1>1. /\ Len(blocks) \in Nat /\ DOMAIN blocks = 1..Len(blocks)
      /\ \A i \in 1..Len(blocks) : blocks[i] \in Blocks
  BY LenProperties, ElementOfSeq
<1>2. RuleCount = Len(Only(blocks, PathBlocks)) /\ RuleCount \in Nat
  BY RulesType DEF RuleCount, Rules, RulesIn
<1>3. ref + 1 \in 1..Len(Only(blocks, PathBlocks)) /\ ref \in Nat
  BY <1>2
<1>4. \E b \in DOMAIN blocks : Right(b)
  <2>1. PICK n \in 1..Len(blocks) :
          blocks[n] \in PathBlocks /\ Len(Only(SubSeq(blocks, 1, n), PathBlocks)) = ref + 1
    BY <1>3, PlaceOfChosen
  <2>2. blocks[n].path
    BY <2>1 DEF PathBlocks
  <2> QED BY <1>1, <2>1, <2>2
<1>5. p \in DOMAIN blocks /\ Right(p)
  <2>1. p = CHOOSE b \in DOMAIN blocks : Right(b)
    BY DEF PathBlock
  <2> HIDE DEF p, Right
  <2> QED BY <1>4, <2>1
<1>6. blocks[p] \in PathBlocks /\ blocks[p] \in Blocks
  BY <1>1, <1>5, Kinds
<1> HIDE DEF p
<1>7. /\ l \in Seq(Blocks) /\ SubSeq(blocks, 1, p) = l \o <<blocks[p]>>
  BY <1>1, <1>5, CutAt, SubSeqRecursiveSecond
<1> DEFINE one == <<blocks[p]>>
<1>8. one \in Seq(Blocks) /\ Len(one) = 1 /\ Only(one, PathBlocks) = one
  BY <1>6, OnlyOfOne
<1> HIDE DEF one, l
<1>9. Only(l \o one, PathBlocks) = Only(l, PathBlocks) \o one
  <2>1. l \in Seq(Blocks) /\ one \in Seq(Blocks)
    BY <1>7, <1>8
  <2>2. Only(l \o one, PathBlocks) = Only(l, PathBlocks) \o Only(one, PathBlocks)
    BY <2>1, OnlyOfConcat
  <2> QED BY <1>8, <2>2, Zenon
<1>10. Only(l, PathBlocks) \in Seq(Blocks) /\ Len(Only(l, PathBlocks)) \in Nat
  BY <1>7, OnlyType, LenProperties
<1>11. Len(Only(l, PathBlocks) \o one) = Len(Only(l, PathBlocks)) + 1
  <2>1. Only(l, PathBlocks) \in Seq(Blocks) /\ one \in Seq(Blocks)
    BY <1>8, <1>10
  <2>2. Len(Only(l, PathBlocks) \o one) = Len(Only(l, PathBlocks)) + Len(one)
    BY <2>1, ConcatProperties
  <2> QED BY <1>8, <2>2
<1>12. Len(Only(l, PathBlocks) \o one) = ref + 1
  BY <1>5, <1>7, <1>9 DEF one
<1>13. Len(RulesIn(l)) = ref
  BY <1>3, <1>7, <1>10, <1>11, <1>12, RulesType
<1> QED BY <1>1, <1>5, <1>6, <1>13 DEF p, l

\* What is done to the block a rule's number stands for is done to that rule,
\* and to nothing else.
LEMMA RuleChanged ==
  ASSUME blocks \in Seq(Blocks), NEW ref \in 0 .. RuleCount - 1
  PROVE  /\ RemoveRule(ref) \in Seq(Blocks) /\ Len(RemoveRule(ref)) <= Len(blocks)
         /\ RulesIn(RemoveRule(ref)) = RemoveAt(Rules, ref + 1)
         /\ OthersIn(RemoveRule(ref)) = OthersIn(blocks)
         /\ \A text \in Texts :
              /\ EditRule(ref, text) \in Seq(Blocks) /\ Len(EditRule(ref, text)) = Len(blocks)
              /\ RulesIn(EditRule(ref, text)) = [Rules EXCEPT ![ref + 1] = text]
              /\ OthersIn(EditRule(ref, text)) = OthersIn(blocks)
         /\ blocks[PathBlock(ref)] \in Blocks /\ blocks[PathBlock(ref)].path
         /\ blocks[PathBlock(ref)].text = Rules[ref + 1]
<1> DEFINE p == PathBlock(ref)
           b == blocks[p]
           l == SubSeq(blocks, 1, p - 1)
           r == SubSeq(blocks, p + 1, Len(blocks))
           changed(text) == [b EXCEPT !.text = text]
<1>1. p \in 1..Len(blocks) /\ b \in Blocks /\ b.path /\ Len(RulesIn(l)) = ref
  BY BlockOfRule
<1>2. /\ RemoveRule(ref) = RemoveAt(blocks, p)
      /\ \A text : EditRule(ref, text) = [blocks EXCEPT ![p].text = text]
  BY DEF RemoveRule, EditRule
<1> HIDE DEF p
<1>3. /\ l \in Seq(Blocks) /\ r \in Seq(Blocks)
      /\ blocks = (l \o <<b>>) \o r /\ RemoveAt(blocks, p) = l \o r
  BY <1>1, CutAt
<1>4. ASSUME NEW text \in Texts
      PROVE  /\ changed(text) \in Blocks /\ changed(text).path /\ changed(text).text = text
             /\ EditRule(ref, text) = (l \o <<changed(text)>>) \o r
  <2>1. changed(text) \in Blocks /\ changed(text).path /\ changed(text).text = text
    BY <1>1 DEF Blocks
  <2>2. EditRule(ref, text) = [blocks EXCEPT ![p] = changed(text)]
    BY <1>2
  <2> DEFINE e == changed(text)
  <2>3. e \in Blocks
    BY <2>1
  <2> HIDE DEF changed, b, e
  <2>4. [blocks EXCEPT ![p] = e] = (l \o <<e>>) \o r
    BY <1>1, <2>3, ChangedAt
  <2>5. EditRule(ref, text) = (l \o <<changed(text)>>) \o r
    BY <2>2, <2>4, Zenon DEF e
  <2> QED BY <2>1, <2>5
<1> HIDE DEF l, r, b, changed
<1> DEFINE rl == RulesIn(l)
           rr == RulesIn(r)
           x == b.text
<1>5. rl \in Seq(Texts) /\ Len(rl) = ref /\ rr \in Seq(Texts) /\ x \in Texts
  BY <1>1, <1>3, RulesType, Kinds
<1>6. /\ Rules = (rl \o <<x>>) \o rr
      /\ OthersIn(blocks) = OthersIn(l) \o OthersIn(r)
      /\ Len(blocks) = Len(l) + 1 + Len(r)
  BY <1>1, <1>3, Around DEF Rules, RulesIn
<1>7. /\ Len(l) \in Nat /\ Len(r) \in Nat
      /\ l \o r \in Seq(Blocks) /\ Len(l \o r) = Len(l) + Len(r)
  BY <1>3, LenProperties, ConcatProperties
<1>8. /\ RulesIn(l \o r) = rl \o rr
      /\ OthersIn(l \o r) = OthersIn(l) \o OthersIn(r)
  <2>1. /\ Only(l \o r, PathBlocks) = Only(l, PathBlocks) \o Only(r, PathBlocks)
        /\ Only(l \o r, OtherBlocks) = Only(l, OtherBlocks) \o Only(r, OtherBlocks)
    BY <1>3, OnlyOfConcat
  <2>2. Only(l, PathBlocks) \in Seq(Blocks) /\ Only(r, PathBlocks) \in Seq(Blocks)
    BY <1>3, OnlyType
  <2>3. TextsOf(Only(l, PathBlocks) \o Only(r, PathBlocks))
          = TextsOf(Only(l, PathBlocks)) \o TextsOf(Only(r, PathBlocks))
    BY <2>2, TextsOfConcat
  <2> QED BY <2>1, <2>3 DEF RulesIn, OthersIn
<1> HIDE DEF rl, rr, x
<1>9. /\ Rules[ref + 1] = x /\ RemoveAt(Rules, ref + 1) = rl \o rr
      /\ \A text \in Texts : [Rules EXCEPT ![ref + 1] = text] = (rl \o <<text>>) \o rr
  <2>1. rl \in Seq(Texts) /\ rr \in Seq(Texts) /\ x \in Texts
    BY <1>5
  <2> DEFINE s == (rl \o <<x>>) \o rr
             n == Len(rl) + 1
  <2>2. /\ s \in Seq(Texts) /\ n \in 1..Len(s) /\ s[n] = x
        /\ SubSeq(s, 1, n - 1) = rl /\ SubSeq(s, n + 1, Len(s)) = rr
    BY <2>1, PutTogether
  <2>3. Rules = s /\ ref + 1 = n
    BY <1>5, <1>6
  <2> HIDE DEF s, n
  <2>4. RemoveAt(s, n) = rl \o rr
    BY <2>2, CutAt
  <2>5. ASSUME NEW text \in Texts PROVE [s EXCEPT ![n] = text] = (rl \o <<text>>) \o rr
    <3>1. [s EXCEPT ![n] = text] = (SubSeq(s, 1, n - 1) \o <<text>>) \o SubSeq(s, n + 1, Len(s))
      BY <2>2, ChangedAt
    <3> QED BY <2>2, <3>1
  <2> QED BY <2>2, <2>3, <2>4, <2>5
<1>10. ASSUME NEW text \in Texts
       PROVE  /\ EditRule(ref, text) \in Seq(Blocks) /\ Len(EditRule(ref, text)) = Len(blocks)
              /\ RulesIn(EditRule(ref, text)) = [Rules EXCEPT ![ref + 1] = text]
              /\ OthersIn(EditRule(ref, text)) = OthersIn(blocks)
  <2> DEFINE c == changed(text)
             s == (l \o <<c>>) \o r
  <2>1. c \in Blocks /\ c.path /\ c.text = text /\ EditRule(ref, text) = s
    BY <1>4
  <2> HIDE DEF c
  <2>2. /\ s \in Seq(Blocks) /\ Len(s) = Len(l) + 1 + Len(r)
        /\ RulesIn(s) = (RulesIn(l) \o <<c.text>>) \o RulesIn(r)
        /\ OthersIn(s) = OthersIn(l) \o OthersIn(r)
    BY <1>3, <2>1, Around
  <2> HIDE DEF s
  <2> QED BY <1>6, <1>9, <2>1, <2>2 DEF rl, rr
<1>11. /\ RemoveRule(ref) \in Seq(Blocks) /\ Len(RemoveRule(ref)) <= Len(blocks)
       /\ RulesIn(RemoveRule(ref)) = RemoveAt(Rules, ref + 1)
       /\ OthersIn(RemoveRule(ref)) = OthersIn(blocks)
  <2>1. RemoveRule(ref) = l \o r
    BY <1>2, <1>3
  <2>2. Len(l \o r) <= Len(blocks)
    BY <1>6, <1>7
  <2>3. RulesIn(l \o r) = RemoveAt(Rules, ref + 1) /\ OthersIn(l \o r) = OthersIn(blocks)
    BY <1>6, <1>8, <1>9, Zenon
  <2> DEFINE u == l \o r
  <2>4. u \in Seq(Blocks)
    BY <1>7
  <2> HIDE DEF u
  <2> QED BY <2>1, <2>2, <2>3, <2>4, Zenon DEF u
<1> QED BY <1>1, <1>9, <1>10, <1>11 DEF p, b, x

\* A block that is added is the last rule.
LEMMA RuleAdded ==
  ASSUME blocks \in Seq(Blocks), NEW b \in PathBlocks
  PROVE  LET s == Append(blocks, b)
         IN  /\ s \in Seq(Blocks) /\ Len(s) = Len(blocks) + 1
             /\ RulesIn(s) = Append(Rules, b.text)
             /\ OthersIn(s) = OthersIn(blocks)
<1> DEFINE s == Append(blocks, b)
           chosen == Only(blocks, PathBlocks)
<1>1. b \in Blocks /\ b \in PathBlocks /\ b \notin OtherBlocks
  BY Kinds DEF PathBlocks
<1>2. s \in Seq(Blocks) /\ Len(s) = Len(blocks) + 1
  BY <1>1, AppendProperties
<1>3. Only(s, PathBlocks) = Append(chosen, b) /\ Only(s, OtherBlocks) = Only(blocks, OtherBlocks)
  BY <1>1, OnlyOfAppend
<1>4. chosen \in Seq(Blocks)
  BY OnlyType
<1> HIDE DEF chosen
<1>5. TextsOf(Append(chosen, b)) = Append(TextsOf(chosen), b.text)
  <2> DEFINE longer == Append(chosen, b)
             texts == TextsOf(chosen)
  <2>1. /\ longer \in Seq(Blocks) /\ Len(longer) = Len(chosen) + 1 /\ Len(chosen) \in Nat
        /\ \A i \in 1..Len(chosen) : longer[i] = chosen[i]
        /\ longer[Len(chosen) + 1] = b
    BY <1>1, <1>4, AppendProperties, LenProperties
  <2>2. /\ texts \in Seq(Texts) /\ Len(texts) = Len(chosen) /\ b.text \in Texts
        /\ \A i \in 1..Len(chosen) : texts[i] = chosen[i].text
    BY <1>1, <1>4, TextsType, Kinds
  <2> HIDE DEF longer, texts
  <2>3. /\ TextsOf(longer) \in Seq(Texts) /\ Len(TextsOf(longer)) = Len(chosen) + 1
        /\ \A i \in 1..(Len(chosen) + 1) : TextsOf(longer)[i] = longer[i].text
    BY <2>1, TextsType
  <2>4. /\ Append(texts, b.text) \in Seq(Texts) /\ Len(Append(texts, b.text)) = Len(chosen) + 1
        /\ \A i \in 1..Len(chosen) : Append(texts, b.text)[i] = texts[i]
        /\ Append(texts, b.text)[Len(chosen) + 1] = b.text
    BY <2>2, AppendProperties
  <2>5. \A i \in 1..(Len(chosen) + 1) : i \in 1..Len(chosen) \/ i = Len(chosen) + 1
    BY <2>1
  <2>6. \A i \in 1..(Len(chosen) + 1) : TextsOf(longer)[i] = Append(texts, b.text)[i]
    BY <2>1, <2>2, <2>3, <2>4, <2>5
  <2>7. TextsOf(longer) = Append(texts, b.text)
    BY <2>3, <2>4, <2>6, SeqEqual
  <2> QED BY <2>7 DEF longer, texts
<1>6. RulesIn(s) = Append(Rules, b.text) /\ OthersIn(s) = OthersIn(blocks)
  BY <1>3, <1>5 DEF RulesIn, OthersIn, Rules, chosen
<1> QED BY <1>2, <1>6

-----------------------------------------------------------------------------
(* Every step keeps the invariant *)

\* The rules, of this state and of the next one.
LEMMA RulesAre ==
  /\ Rules = RulesIn(blocks) /\ RuleCount = Len(Rules)
  /\ Rules' = RulesIn(blocks') /\ RuleCount' = Len(Rules')
BY DEF Rules, RuleCount, RulesIn

\* What the types say of the highlight.
LEMMA Highlight ==
  ASSUME TypeOK
  PROVE  /\ blocks \in Seq(Blocks) /\ Rules \in Seq(Texts) /\ RuleCount \in Nat
         /\ selected \in Nat /\ (selected < RuleCount \/ selected = 0)
<1>1. blocks \in Seq(Blocks) /\ selected \in 0 .. Max({0, RuleCount - 1})
  BY DEF TypeOK
<1>2. Rules \in Seq(Texts) /\ RuleCount \in Nat
  BY <1>1, RulesAre, RulesType, LenProperties
<1>3. Max({0, RuleCount - 1}) = IF 0 >= RuleCount - 1 THEN 0 ELSE RuleCount - 1
  BY <1>2, MaxOfTwo
<1> QED BY <1>1, <1>2, <1>3

\* A highlight that has to fit fewer rules does.
LEMMA ClampFits ==
  ASSUME TypeOK, NEW count \in Nat
  PROVE  Clamp(count) \in 0 .. Max({0, count - 1})
<1>1. selected \in Nat
  BY Highlight
<1> DEFINE m == Max({0, count - 1})
<1>2. m \in Nat
  BY MaxOfTwo
<1> HIDE DEF m
<1>3. Min({selected, m}) \in 0 .. m
  BY <1>1, <1>2, MinOfTwo
<1> QED BY <1>3 DEF Clamp, m

\* At the start.
LEMMA InitInv == Init => IInv
<1> SUFFICES ASSUME Init PROVE IInv
  OBVIOUS
<1>1. PICK d \in Documents : blocks = d.blocks /\ parses = d.parses
  BY DEF Init
<1>2. blocks \in Seq(Blocks) /\ Len(blocks) <= MaxBlocks /\ parses \in BOOLEAN
  BY <1>1, RuleListAssumption
<1>3. RuleCount \in Nat
  BY <1>2, RulesAre, RulesType
<1>4. 0 \in 0 .. Max({0, RuleCount - 1})
  BY <1>3, RowFits
<1> QED BY <1>2, <1>4 DEF Init, IInv, TypeOK

\* A step that leaves the document and the rules in question as they are.
LEMMA SameDocument ==
  ASSUME IInv, UNCHANGED document, UNCHANGED <<form, dialog>>,
         selected' \in 0 .. Max({0, RuleCount - 1}),
         screen' \in {"editor", "form", "elsewhere"}, screen' = "form" <=> form # None,
         dialog # None => screen' = "editor",
         busy' \in BOOLEAN, busy' => screen' = "elsewhere",
         warnings' \in BOOLEAN, size' \in Sizes
  PROVE  IInv'
<1>1. blocks' = blocks /\ parses' = parses /\ form' = form /\ dialog' = dialog
  BY DEF document
<1>2. Rules' = Rules /\ RuleCount' = RuleCount
  BY <1>1, RulesAre
<1>3. blocks' \in Seq(Blocks) /\ Len(blocks') <= MaxBlocks /\ parses' \in BOOLEAN
  BY <1>1 DEF IInv, TypeOK
<1>4. TypeOK'
  BY <1>1, <1>2, <1>3 DEF TypeOK
<1>5. /\ form' # None => form' \in Subjects /\ (form'.ref = None \/ IsRule(form)')
      /\ dialog' # None => dialog' \in Subjects /\ IsRule(dialog)'
  BY <1>1, <1>2 DEF IInv, IsRule
<1> QED BY <1>4, <1>5 DEF IInv

\* A step to another document, after which no rule is in question.
LEMMA OtherDocument ==
  ASSUME IInv, blocks' \in Seq(Blocks), Len(blocks') <= MaxBlocks, parses' \in BOOLEAN,
         selected' \in 0 .. Max({0, RuleCount' - 1}),
         screen' = "editor", form' = None, dialog' = None, busy' = FALSE,
         warnings' \in BOOLEAN, size' \in Sizes
  PROVE  IInv'
BY DEF IInv, TypeOK

\* The steps that move the highlight, the size of the terminal, the other
\* screens and their requests.
LEMMA ScreenInv ==
  IInv /\ (\/ Resize \/ (\E y \in 0 .. Max(Heights) - 1 : Click(y))
           \/ (\E delta \in {-1, 1} : Move(delta)) \/ Home \/ End
           \/ Leave \/ Return \/ StartRequest \/ EndRequest) => IInv'
<1> SUFFICES ASSUME IInv,
                    \/ Resize \/ (\E y \in 0 .. Max(Heights) - 1 : Click(y))
                    \/ (\E delta \in {-1, 1} : Move(delta)) \/ Home \/ End
                    \/ Leave \/ Return \/ StartRequest \/ EndRequest
             PROVE  IInv'
  OBVIOUS
<1>1. TypeOK /\ RuleCount \in Nat /\ selected \in Nat
  BY Highlight DEF IInv
<1>2. /\ screen \in {"editor", "form", "elsewhere"} /\ (screen = "form" <=> form # None)
      /\ (dialog # None => screen = "editor")
      /\ busy \in BOOLEAN /\ (busy => screen = "elsewhere")
      /\ warnings \in BOOLEAN /\ size \in Sizes
      /\ selected \in 0 .. Max({0, RuleCount - 1})
  BY <1>1 DEF TypeOK
<1>3. ASSUME NEW row \in Nat, row < RuleCount \/ row = 0, Select(row) PROVE IInv'
  <2>1. row \in 0 .. Max({0, RuleCount - 1})
    BY <1>1, <1>3, RowFits
  <2>2. /\ selected' = row /\ UNCHANGED document /\ UNCHANGED <<screen, form, dialog>>
        /\ UNCHANGED <<busy, warnings, size>>
    BY <1>3 DEF Select, terminal
  <2> QED BY <1>2, <2>1, <2>2, SameDocument
<1>4. CASE Resize
  BY <1>2, <1>4, SameDocument DEF Resize, document
<1>5. ASSUME NEW y, Click(y) PROVE IInv'
  <2> DEFINE row == Clicked(y)
  <2>1. row \in 0 .. RuleCount - 1 /\ Select(row)
    BY <1>5 DEF Click
  <2> HIDE DEF row
  <2> QED BY <1>1, <1>3, <2>1
<1>6. ASSUME NEW delta \in {-1, 1}, Move(delta) PROVE IInv'
  <2>1. CASE RuleCount = 0
    <3>1. Select(0)
      BY <1>6, <2>1 DEF Move
    <3> QED BY <1>3, <3>1
  <2>2. CASE RuleCount # 0
    <3> DEFINE row == (selected + delta + RuleCount) % RuleCount
    <3>1. selected + delta + RuleCount \in Int
      BY <1>1
    <3>2. row \in Nat /\ row < RuleCount
      BY <1>1, <2>2, <3>1, RemainderFits
    <3>3. Select(row)
      BY <1>6, <2>2 DEF Move
    <3> HIDE DEF row
    <3> QED BY <1>3, <3>2, <3>3
  <2> QED BY <2>1, <2>2
<1>7. CASE Home
  BY <1>3, <1>7 DEF Home
<1>8. CASE End
  <2> DEFINE row == Max({0, RuleCount - 1})
  <2>1. row = IF 0 >= RuleCount - 1 THEN 0 ELSE RuleCount - 1
    BY <1>1, MaxOfTwo
  <2>2. Select(row)
    BY <1>8 DEF End
  <2> HIDE DEF row
  <2>3. row \in Nat /\ (row < RuleCount \/ row = 0)
    BY <1>1, <2>1
  <2> QED BY <1>3, <2>2, <2>3
<1>9. CASE Leave \/ Return
  BY <1>2, <1>9, SameDocument DEF Leave, Return, Goto, Editing
<1>10. CASE StartRequest \/ EndRequest
  BY <1>2, <1>10, SameDocument DEF StartRequest, EndRequest
<1> QED BY <1>4, <1>5, <1>6, <1>7, <1>8, <1>9, <1>10

\* A form and a question are opened on the highlighted rule.
LEMMA OpenInv ==
  IInv /\ (OpenEditForm \/ OpenAddForm \/ RequestRemove \/ DeclineRemove \/ CancelForm) => IInv'
<1> SUFFICES ASSUME IInv,
                    OpenEditForm \/ OpenAddForm \/ RequestRemove \/ DeclineRemove \/ CancelForm
             PROVE  IInv'
  OBVIOUS
<1>1. /\ TypeOK /\ RuleCount \in Nat /\ selected \in Nat /\ Rules \in Seq(Texts)
      /\ RuleCount = Len(Rules)
  BY Highlight, RulesAre DEF IInv
<1>2. UNCHANGED document /\ UNCHANGED selected /\ UNCHANGED terminal
  BY DEF OpenEditForm, OpenAddForm, RequestRemove, DeclineRemove, CancelForm
<1>3. Rules' = Rules /\ RuleCount' = RuleCount
  BY <1>2, RulesAre DEF document
<1> DEFINE one == [ref |-> selected, text |-> Rules[selected + 1]]
<1>4. ASSUME OnSelected PROVE one \in Subjects /\ IsRule(one) /\ one # None
  <2>1. selected \in 0 .. RuleCount - 1 /\ selected + 1 \in 1 .. Len(Rules)
    BY <1>1, <1>4 DEF OnSelected
  <2>2. Rules[selected + 1] \in Texts
    BY <1>1, <2>1, ElementOfSeq
  <2>3. one \in Subjects
    BY <1>1, <2>2 DEF Subjects
  <2> QED BY <2>1, <2>3, RuleListAssumption DEF IsRule
<1> HIDE DEF one
<1>5. ASSUME screen' = "form" <=> form' # None, screen' \in {"editor", "form", "elsewhere"},
             dialog' # None => screen' = "editor"
      PROVE  TypeOK'
  BY <1>1, <1>2, <1>3, <1>5, Zenon
     DEF TypeOK, document, terminal, OpenEditForm, OpenAddForm, RequestRemove, DeclineRemove,
         CancelForm, LeaveForm, OnSelected, Editing
<1>6. CASE OpenEditForm
  <2>1. /\ form' = one /\ screen' = "form" /\ dialog' = None /\ one \in Subjects /\ IsRule(one)
        /\ one # None
    BY <1>4, <1>6 DEF OpenEditForm, OnSelected, Editing, one
  <2>2. IsRule(form)'
    BY <1>3, <2>1 DEF IsRule
  <2> QED BY <1>5, <2>1, <2>2 DEF IInv
<1>7. CASE OpenAddForm
  <2>1. form' = [ref |-> None, text |-> None] /\ screen' = "form" /\ dialog' = None
    BY <1>7 DEF OpenAddForm, Editing
  <2>2. form' \in Subjects /\ form'.ref = None
    BY <2>1 DEF Subjects
  <2> QED BY <1>5, <2>1, <2>2, RuleListAssumption DEF IInv
<1>8. CASE RequestRemove
  <2>1. /\ dialog' = one /\ screen' = "editor" /\ form' = None /\ one \in Subjects /\ IsRule(one)
        /\ one # None
    BY <1>1, <1>4, <1>8 DEF RequestRemove, OnSelected, Editing, one, TypeOK
  <2>2. IsRule(dialog)'
    BY <1>3, <2>1 DEF IsRule
  <2> QED BY <1>5, <2>1, <2>2 DEF IInv
<1>9. CASE DeclineRemove
  <2>1. dialog' = None /\ screen' = "editor" /\ form' = None
    BY <1>1, <1>9 DEF DeclineRemove, TypeOK
  <2> QED BY <1>5, <2>1 DEF IInv
<1>10. CASE CancelForm
  <2>1. dialog' = None /\ screen' = "editor" /\ form' = None
    BY <1>1, <1>10 DEF CancelForm, LeaveForm, TypeOK
  <2> QED BY <1>5, <2>1 DEF IInv
<1> QED BY <1>6, <1>7, <1>8, <1>9, <1>10

\* What is done to a rule leaves a document, and a highlight in it.
LEMMA ChangeInv ==
  IInv /\ (DuplicateSelected \/ ConfirmRemove \/ ApplyNew \/ ApplyEdit) => IInv'
<1> SUFFICES ASSUME IInv, DuplicateSelected \/ ConfirmRemove \/ ApplyNew \/ ApplyEdit
             PROVE  IInv'
  OBVIOUS
<1>1. /\ TypeOK /\ blocks \in Seq(Blocks) /\ RuleCount \in Nat /\ selected \in Nat
      /\ selected \in 0 .. Max({0, RuleCount - 1}) /\ Len(blocks) \in Nat
      /\ MaxBlocks \in Nat /\ Len(blocks) <= MaxBlocks /\ Rules \in Seq(Texts)
  BY Highlight, LenProperties, RuleListAssumption DEF IInv, TypeOK
<1>2. /\ screen' = "editor" /\ form' = None /\ dialog' = None /\ busy' = FALSE
      /\ warnings' \in BOOLEAN /\ size' \in Sizes /\ parses' \in BOOLEAN
  BY <1>1 DEF TypeOK, DuplicateSelected, ConfirmRemove, ApplyNew, ApplyEdit, LeaveForm,
              OnSelected, Editing, terminal
<1>3. ASSUME NEW b \in PathBlocks, Len(blocks) < MaxBlocks, blocks' = Append(blocks, b),
             selected' = RuleCount' - 1
      PROVE  IInv'
  <2>1. /\ blocks' \in Seq(Blocks) /\ Len(blocks') = Len(blocks) + 1
        /\ Rules' = Append(Rules, b.text)
    BY <1>1, <1>3, RuleAdded, RulesAre
  <2>2. RuleCount' = RuleCount + 1
    BY <1>1, <2>1, RulesAre, Kinds, AppendProperties DEF PathBlocks
  <2>3. Len(blocks') <= MaxBlocks
    BY <1>1, <1>3, <2>1
  <2>4. selected' \in 0 .. Max({0, RuleCount' - 1})
    <3>1. RuleCount' \in Nat /\ selected' \in Nat /\ selected' < RuleCount'
      BY <1>1, <1>3, <2>2
    <3> QED BY <3>1, RowFits
  <2> QED BY <1>2, <2>1, <2>3, <2>4, OtherDocument
<1>4. CASE DuplicateSelected
  <2>1. selected \in 0 .. RuleCount - 1
    BY <1>1, <1>4 DEF DuplicateSelected, OnSelected
  <2>2. blocks[PathBlock(selected)] \in PathBlocks
    BY <1>1, <2>1, RuleChanged, Kinds
  <2> QED BY <1>3, <1>4, <2>2 DEF DuplicateSelected, DuplicateRule
<1>5. CASE ApplyNew
  <2>1. PICK text \in Texts : blocks' = Append(blocks, [path |-> TRUE, text |-> text])
    BY <1>5 DEF ApplyNew, AddRule
  <2>2. [path |-> TRUE, text |-> text] \in PathBlocks
    BY DEF PathBlocks
  <2> QED BY <1>3, <1>5, <2>1, <2>2 DEF ApplyNew
<1>6. CASE ConfirmRemove
  <2>1. dialog.ref \in 0 .. RuleCount - 1 /\ blocks' = RemoveRule(dialog.ref)
        /\ selected' = Clamp(RuleCount')
    BY <1>6 DEF ConfirmRemove, IInv, IsRule
  <2>2. blocks' \in Seq(Blocks) /\ Len(blocks') <= Len(blocks)
    BY <1>1, <2>1, RuleChanged
  <2>3. RuleCount' \in Nat /\ Len(blocks') \in Nat
    BY <2>2, RulesAre, RulesType, LenProperties
  <2>4. selected' \in 0 .. Max({0, RuleCount' - 1})
    BY <1>1, <2>1, <2>3, ClampFits
  <2>5. Len(blocks') <= MaxBlocks
    BY <1>1, <2>2, <2>3
  <2> QED BY <1>2, <2>2, <2>4, <2>5, OtherDocument
<1>7. CASE ApplyEdit
  <2>1. PICK text \in Texts : blocks' = EditRule(form.ref, text)
    BY <1>7 DEF ApplyEdit
  <2>2. form.ref \in 0 .. RuleCount - 1
    BY <1>1, <1>7 DEF ApplyEdit, LeaveForm, IInv, IsRule, TypeOK
  <2>3. /\ blocks' \in Seq(Blocks) /\ Len(blocks') = Len(blocks)
        /\ Rules' = [Rules EXCEPT ![form.ref + 1] = text]
    BY <1>1, <2>1, <2>2, RuleChanged, RulesAre
  <2>4. RuleCount' = RuleCount
    <3> DEFINE i == form.ref + 1
               s == Rules
    <3>1. s \in Seq(Texts) /\ i \in 1 .. Len(s) /\ text \in Texts /\ RuleCount = Len(s)
      BY <1>1, <2>2, RulesAre
    <3>2. Rules' = [s EXCEPT ![i] = text]
      BY <2>3
    <3> HIDE DEF i, s
    <3>3. Len([s EXCEPT ![i] = text]) = Len(s)
      BY <3>1, ExceptSeq
    <3> QED BY <3>1, <3>2, <3>3, RulesAre
  <2>5. selected' = selected
    BY <1>7 DEF ApplyEdit
  <2>6. selected' \in 0 .. Max({0, RuleCount' - 1})
    BY <1>1, <2>4, <2>5
  <2> QED BY <1>1, <1>2, <2>3, <2>6, OtherDocument
<1> QED BY <1>4, <1>5, <1>6, <1>7

\* Another document, or this one again.
LEMMA AdoptInv == IInv /\ (AdoptSession \/ Reload) => IInv'
<1> SUFFICES ASSUME IInv, AdoptSession \/ Reload PROVE IInv'
  OBVIOUS
<1>1. TypeOK /\ screen = "elsewhere"
  BY DEF IInv, AdoptSession, Reload
<1>2. /\ screen' = "editor" /\ form' = None /\ dialog' = None /\ busy' = FALSE
      /\ warnings' \in BOOLEAN /\ size' \in Sizes
  BY <1>1 DEF TypeOK, AdoptSession, Reload, Goto
<1>3. PICK d \in Documents : blocks' = d.blocks /\ parses' = d.parses
  BY DEF AdoptSession, Reload
<1>4. blocks' \in Seq(Blocks) /\ Len(blocks') <= MaxBlocks /\ parses' \in BOOLEAN
  BY <1>3, RuleListAssumption
<1>5. RuleCount' \in Nat
  BY <1>4, RulesAre, RulesType
<1>6. selected' \in 0 .. Max({0, RuleCount' - 1})
  <2>1. CASE AdoptSession
    BY <1>5, <2>1, RowFits DEF AdoptSession
  <2>2. CASE Reload
    BY <1>1, <1>5, <2>2, ClampFits DEF Reload
  <2> QED BY <2>1, <2>2
<1> QED BY <1>2, <1>4, <1>6, OtherDocument

\* Every step.
LEMMA NextInv == IInv /\ [Next]_vars => IInv'
<1>1. IInv /\ Next => IInv'
  BY ScreenInv, OpenInv, ChangeInv, AdoptInv DEF Next
<1>2. IInv /\ UNCHANGED vars => IInv'
  <2> SUFFICES ASSUME IInv, UNCHANGED vars PROVE IInv'
    OBVIOUS
  <2> QED BY SameDocument DEF vars, document, IInv, TypeOK
<1> QED BY <1>1, <1>2

\* The invariant holds in every reachable state.
THEOREM Inductive == Spec => []IInv
BY InitInv, NextInv, PTL DEF Spec

-----------------------------------------------------------------------------
(* What the run checks *)

\* TypeOK: a rule is highlighted whenever there is one, after every removal,
\* reload and change of document, for any documents.
THEOREM TypeCorrect == Spec => []TypeOK
<1>1. IInv => TypeOK
  BY DEF IInv
<1> QED BY <1>1, Inductive, PTL

\* SelectedIsDrawn: the window follows the highlight, in documents of any
\* length and terminals of any size with room for three rules.
THEOREM HighlightIsDrawn == Spec => []SelectedIsDrawn
<1>1. IInv => SelectedIsDrawn
  <2> SUFFICES ASSUME IInv, screen = "editor", RuleCount > 0, size.height >= HeaderLines + 5
               PROVE  Shown(selected) \/ (Banner /\ RowOf(selected) = size.height - 3)
    BY DEF SelectedIsDrawn
  <2>1. RuleCount \in Nat /\ selected \in Nat /\ selected < RuleCount
    BY Highlight DEF IInv
  <2>2. HeaderLines \in {1, 2} /\ size.height \in Nat /\ size.narrow \in BOOLEAN
    BY RuleListAssumption DEF HeaderLines, IInv, TypeOK, Sizes
  <2>3. BodyHeight = size.height - HeaderLines - 2 /\ BodyHeight >= 3
    <3>1. BodyHeight = IF 3 >= size.height - HeaderLines - 2 THEN 3 ELSE size.height - HeaderLines - 2
      BY <2>2, MaxOfTwo DEF BodyHeight
    <3> QED BY <2>2, <3>1
  <2>4. ListWindow \in 3 .. BodyHeight
    <3>1. Max({3, BodyHeight \div 2}) = IF 3 >= BodyHeight \div 2 THEN 3 ELSE BodyHeight \div 2
      BY <2>2, <2>3, MaxOfTwo
    <3> QED BY <2>2, <2>3, <3>1 DEF ListWindow
  <2>5. Top \in Nat /\ selected \in Top .. Bottom /\ selected - Top < ListWindow
    <3> DEFINE half == selected - ListWindow \div 2
    <3>1. half \in Int /\ half <= selected /\ selected - half < ListWindow
      BY <2>1, <2>2, <2>3, <2>4
    <3> HIDE DEF half
    <3>2. Max({0, half}) = IF 0 >= half THEN 0 ELSE half
      BY <3>1, MaxOfTwo
    <3> DEFINE first == Max({0, half})
    <3>3. first \in Nat /\ first <= selected /\ selected - first < ListWindow
      BY <2>1, <2>2, <2>3, <2>4, <3>1, <3>2
    <3>4. Top = IF RuleCount <= ListWindow THEN 0 ELSE Min({first, RuleCount - ListWindow})
      BY DEF Top, ScrollStart, half
    <3> HIDE DEF first
    <3>5. Top = IF RuleCount <= ListWindow THEN 0
                ELSE IF first <= RuleCount - ListWindow THEN first ELSE RuleCount - ListWindow
      BY <2>1, <2>2, <2>3, <2>4, <3>3, <3>4, MinOfTwo
    <3>6. Top \in Nat /\ Top <= selected /\ selected - Top < ListWindow
      BY <2>1, <2>2, <2>3, <2>4, <3>3, <3>5
    <3>7. Bottom = (IF RuleCount <= Top + ListWindow THEN RuleCount ELSE Top + ListWindow) - 1
      BY <2>1, <2>2, <2>3, <2>4, <3>6, MinOfTwo DEF Bottom
    <3> QED BY <2>1, <2>2, <2>3, <2>4, <3>6, <3>7
  <2>6. RowOf(selected) \in Nat /\ RowOf(selected) <= size.height - 3
    BY <2>1, <2>2, <2>3, <2>4, <2>5 DEF RowOf
  <2>7. Available = size.height - (IF Banner THEN 3 ELSE 2)
    <3>1. /\ Max({1, size.height - 3}) = IF 1 >= size.height - 3 THEN 1 ELSE size.height - 3
          /\ Max({1, size.height - 2}) = IF 1 >= size.height - 2 THEN 1 ELSE size.height - 2
      BY <2>2, MaxOfTwo
    <3> QED BY <2>2, <3>1 DEF Available
  <2> QED BY <2>2, <2>5, <2>6, <2>7 DEF Shown
<1> QED BY <1>1, Inductive, PTL

\* The list but its last is what was there before the last was added.
LEMMA FrontOfAppend ==
  ASSUME NEW S, NEW s \in Seq(S), NEW x \in S
  PROVE  Front(Append(s, x)) = s
<1> DEFINE t == Append(s, x)
<1>1. /\ t \in Seq(S) /\ Len(t) = Len(s) + 1 /\ Len(s) \in Nat
      /\ \A i \in 1 .. Len(s) : t[i] = s[i] /\ s[i] \in S
  BY AppendProperties, LenProperties, ElementOfSeq
<1> HIDE DEF t
<1>2. Front(t) = SubSeq(t, 1, Len(t) - 1)
  BY DEF Front
<1>3. Len(t) - 1 = Len(s) /\ \A i \in 1 .. Len(s) : t[i] \in S
  BY <1>1
<1> DEFINE f == SubSeq(t, 1, Len(s))
<1>4. /\ f \in Seq(S) /\ Len(f) = IF 1 <= Len(s) THEN Len(s) - 1 + 1 ELSE 0
      /\ \A i \in 1 .. (Len(s) - 1 + 1) : f[i] = t[1 + i - 1]
  BY <1>1, <1>3, SubSeqProperties
<1> HIDE DEF f
<1>5. Len(f) = Len(s) /\ \A i \in 1 .. Len(s) : f[i] = s[i]
  BY <1>1, <1>4
<1>6. f = s
  BY <1>4, <1>5, SeqEqual
<1> QED BY <1>2, <1>3, <1>6 DEF f, t

\* WhatIsNamedIsChanged: the rule the screen named is the one the user changes,
\* and the only thing, for any documents.
THEOREM NamedIsChanged == Spec => WhatIsNamedIsChanged
<1> DEFINE changed == Rules' # Rules
           others == Only(blocks, OtherBlocks)
           Removed == /\ Rules[dialog.ref + 1] = dialog.text
                      /\ Rules' = RemoveAt(Rules, dialog.ref + 1)
           Edited == /\ form # None /\ form.ref # None
                     /\ Rules[form.ref + 1] = form.text
                     /\ \E text \in Texts : Rules' = [Rules EXCEPT ![form.ref + 1] = text]
           Added == /\ \/ form = None /\ Rules' = Append(Rules, Rules[selected + 1])
                       \/ form # None /\ form.ref = None /\ Front(Rules') = Rules
                    /\ selected' = RuleCount' - 1
           Kept == screen \in {"editor", "form"} =>
                     /\ others' = others
                     /\ dialog # None /\ changed => Removed
                     /\ dialog = None /\ changed => Edited \/ Added
<1>1. IInv /\ [Next]_vars => Kept
  <2> SUFFICES ASSUME IInv, [Next]_vars, screen \in {"editor", "form"}
               PROVE  /\ others' = others
                      /\ dialog # None /\ changed => Removed
                      /\ dialog = None /\ changed => Edited \/ Added
    OBVIOUS
  <2>1. /\ TypeOK /\ blocks \in Seq(Blocks) /\ Rules \in Seq(Texts) /\ RuleCount = Len(Rules)
        /\ RuleCount \in Nat /\ selected \in Nat
        /\ others = OthersIn(blocks) /\ others' = OthersIn(blocks')
    BY Highlight, RulesAre DEF IInv, OthersIn
  <2>2. (screen = "form" <=> form # None) /\ (dialog # None => screen = "editor")
    BY <2>1 DEF TypeOK
  <2> HIDE DEF others
  <2>3. CASE blocks' = blocks
    BY <2>1, <2>3, RulesAre
  <2>4. CASE ConfirmRemove
    <3>1. dialog # None /\ IsRule(dialog) /\ blocks' = RemoveRule(dialog.ref)
      BY <2>4 DEF ConfirmRemove, IInv
    <3>2. dialog.ref \in 0 .. RuleCount - 1
      BY <3>1 DEF IsRule
    <3>3. /\ OthersIn(blocks') = OthersIn(blocks)
          /\ Rules' = RemoveAt(Rules, dialog.ref + 1)
      BY <2>1, <3>1, <3>2, RuleChanged, RulesAre
    <3> QED BY <2>1, <3>1, <3>3 DEF IsRule
  <2>5. CASE ApplyEdit
    <3>1. form # None /\ form.ref # None /\ dialog = None
      BY <2>2, <2>5 DEF ApplyEdit, LeaveForm
    <3>2. IsRule(form)
      BY <3>1 DEF IInv
    <3>3. form.ref \in 0 .. RuleCount - 1 /\ Rules[form.ref + 1] = form.text
      BY <3>2 DEF IsRule
    <3>4. PICK text \in Texts : blocks' = EditRule(form.ref, text)
      BY <2>5 DEF ApplyEdit
    <3>5. /\ OthersIn(blocks') = OthersIn(blocks)
          /\ Rules' = [Rules EXCEPT ![form.ref + 1] = text]
      BY <2>1, <3>3, <3>4, RuleChanged, RulesAre
    <3>6. \E other \in Texts : Rules' = [Rules EXCEPT ![form.ref + 1] = other]
      BY <3>5, Zenon
    <3>7. Edited
      BY <3>1, <3>3, <3>6
    <3> HIDE DEF Edited, Added, Removed, changed
    <3> QED BY <2>1, <3>1, <3>5, <3>7
  <2>6. CASE ApplyNew
    <3>1. /\ form # None /\ form.ref = None /\ dialog = None /\ selected' = RuleCount' - 1
      BY <2>2, <2>6 DEF ApplyNew, LeaveForm
    <3>2. PICK text \in Texts : blocks' = Append(blocks, [path |-> TRUE, text |-> text])
      BY <2>6 DEF ApplyNew, AddRule
    <3> DEFINE b == [path |-> TRUE, text |-> text]
    <3>3. b \in PathBlocks /\ b.text = text
      BY DEF PathBlocks
    <3>4. OthersIn(blocks') = OthersIn(blocks) /\ Rules' = Append(Rules, text)
      <4> HIDE DEF b
      <4>1. blocks' = Append(blocks, b)
        BY <3>2 DEF b
      <4> QED BY <2>1, <3>3, <4>1, RuleAdded, RulesAre
    <3>5. Front(Rules') = Rules
      BY <2>1, <3>4, FrontOfAppend
    <3>6. Added
      BY <3>1, <3>5
    <3> HIDE DEF Edited, Added, Removed, changed
    <3> QED BY <2>1, <3>1, <3>4, <3>6
  <2>7. CASE DuplicateSelected
    <3>1. /\ dialog = None /\ form = None /\ selected' = RuleCount' - 1
          /\ selected \in 0 .. RuleCount - 1
          /\ blocks' = Append(blocks, blocks[PathBlock(selected)])
      BY <2>1, <2>2, <2>7 DEF DuplicateSelected, DuplicateRule, OnSelected, Editing
    <3> DEFINE b == blocks[PathBlock(selected)]
    <3>2. b \in PathBlocks /\ b.text = Rules[selected + 1]
      BY <2>1, <3>1, RuleChanged, Kinds
    <3>3. OthersIn(blocks') = OthersIn(blocks) /\ Rules' = Append(Rules, b.text)
      <4> HIDE DEF b
      <4>1. blocks' = Append(blocks, b)
        BY <3>1 DEF b
      <4> QED BY <2>1, <3>2, <4>1, RuleAdded, RulesAre
    <3>4. Added
      BY <3>1, <3>2, <3>3
    <3> HIDE DEF Edited, Added, Removed, changed
    <3> QED BY <2>1, <3>1, <3>3, <3>4
  <2>8. ~AdoptSession /\ ~Reload
    BY DEF AdoptSession, Reload
  <2>9. CASE UNCHANGED vars
    BY <2>3, <2>9 DEF vars
  <2>10. CASE \/ Resize \/ (\E y \in 0 .. Max(Heights) - 1 : Click(y))
              \/ (\E delta \in {-1, 1} : Move(delta)) \/ Home \/ End
    <3>1. blocks' = blocks
      BY <2>10 DEF Resize, Click, Move, Home, End, Select, document
    <3> QED BY <2>3, <3>1
  <2>11. CASE Leave \/ Return \/ StartRequest \/ EndRequest
    BY <2>3, <2>11 DEF Leave, Return, StartRequest, EndRequest, document
  <2>12. CASE OpenEditForm \/ OpenAddForm \/ RequestRemove \/ DeclineRemove \/ CancelForm
    BY <2>3, <2>12
       DEF OpenEditForm, OpenAddForm, RequestRemove, DeclineRemove, CancelForm, document
  <2> QED BY <2>4, <2>5, <2>6, <2>7, <2>8, <2>9, <2>10, <2>11, <2>12 DEF Next
<1>2. IInv /\ [Next]_vars => [Kept]_vars
  BY <1>1
<1> HIDE DEF Kept
<1>3. Spec => [][Kept]_vars
  BY <1>2, Inductive, PTL DEF Spec
<1> QED BY <1>3, PTL DEF WhatIsNamedIsChanged, Kept
=============================================================================
