----------------------- MODULE RestructureGotoProofs -----------------------
(***************************************************************************)
(* What the goto pass does to every function body.                         *)
(***************************************************************************)
EXTENDS GotoTreeLaws, FlattenProofs
-----------------------------------------------------------------------------
(***************************************************************************)
(* What a round looks for, and the list it leaves                          *)
(***************************************************************************)
\* A set of positions has a first and a last one, which Min and Max choose.
LEMMA FirstPosition ==
  ASSUME NEW P, P \subseteq Nat, P # {}
  PROVE  Min(P) \in P /\ \A x \in P : Min(P) <= x
<1>1. \E n \in P : \A m \in P : n <= m
  BY Least
<1> QED  BY <1>1 DEF Min

\* A set of positions has a greatest one.
LEMMA LastPosition ==
  ASSUME NEW n \in Nat, NEW P, P \subseteq 1 .. n, P # {}
  PROVE  Max(P) \in P /\ \A x \in P : x <= Max(P)
<1> DEFINE Q == {m \in Nat : n - m \in P}
<1>1. Q # {}
  <2>1. PICK x \in P : TRUE
    OBVIOUS
  <2>2. n - x \in Nat /\ n - (n - x) = x
    BY <2>1
  <2> QED  BY <2>1, <2>2
<1>2. PICK m \in Q : \A q \in Q : m <= q
  BY <1>1, Least
<1>3. \A x \in P : x <= n - m
  <2> SUFFICES ASSUME NEW x \in P PROVE x <= n - m
    OBVIOUS
  <2>1. x \in 1 .. n /\ n - x \in Nat /\ n - (n - x) = x
    OBVIOUS
  <2>2. m <= n - x
    BY <1>2, <2>1
  <2> QED  BY <2>1, <2>2
<1>4. n - m \in P
  OBVIOUS
<1> HIDE DEF Q
<1>5. \E x \in P : \A y \in P : x >= y
  BY <1>3, <1>4
<1>6. Max(P) \in P /\ \A y \in P : Max(P) >= y
  BY <1>5, Zenon DEF Max
<1> QED  BY <1>6

\* The loop takes the last label that is not skipped.
LEMMA LabelIdxIs ==
  ASSUME NEW list \in Seq(Stmt), NEW skip
  PROVE  /\ LabelIdx(list, skip) \in 0 .. Len(list)
         /\ LabelIdx(list, skip) # 0 =>
              /\ list[LabelIdx(list, skip)].kind = "label"
              /\ list[LabelIdx(list, skip)].name \notin skip
         /\ \A k \in 1 .. Len(list) :
              list[k].kind = "label" /\ list[k].name \notin skip => k <= LabelIdx(list, skip)
<1> DEFINE Found == {k \in 1 .. Len(list) : list[k].kind = "label" /\ list[k].name \notin skip}
<1>1. LabelIdx(list, skip) = IF Found # {} THEN Max(Found) ELSE 0
  BY DEF LabelIdx, SelectLastInSeq
<1>2. Found # {} => Max(Found) \in Found /\ \A k \in Found : k <= Max(Found)
  <2>1. Len(list) \in Nat /\ Found \subseteq 1 .. Len(list)
    OBVIOUS
  <2> HIDE DEF Found
  <2> QED  BY <2>1, LastPosition
<1>3. LabelIdx(list, skip) = 0 \/ LabelIdx(list, skip) \in Found
  BY <1>1, <1>2
<1>4. \A k \in Found : k <= LabelIdx(list, skip)
  BY <1>1, <1>2
<1> QED  BY <1>3, <1>4

\* The block begins at the first statement that holds a goto to the label.
LEMMA FirstGotoIs ==
  ASSUME NEW list \in Seq(Stmt), NEW at \in 1 .. Len(list)
  PROVE  /\ FirstGoto(list, at) \in 0 .. at - 1
         /\ FirstGoto(list, at) # 0 => HasGoto(list[FirstGoto(list, at)], list[at].name)
         /\ \A k \in 1 .. at - 1 :
              HasGoto(list[k], list[at].name) => FirstGoto(list, at) # 0 /\ FirstGoto(list, at) <= k
<1> DEFINE Found == {k \in 1 .. at - 1 : HasGoto(list[k], list[at].name)}
<1>1. FirstGoto(list, at) = IF Found # {} THEN Min(Found) ELSE 0
  BY DEF FirstGoto, SelectInSubSeq
<1>2. Found # {} => Min(Found) \in Found /\ \A k \in Found : Min(Found) <= k
  <2>1. Found \subseteq Nat
    OBVIOUS
  <2> HIDE DEF Found
  <2> QED  BY <2>1, FirstPosition
<1>3. FirstGoto(list, at) = 0 \/ FirstGoto(list, at) \in Found
  BY <1>1, <1>2
<1>4. \A k \in Found : FirstGoto(list, at) # 0 /\ FirstGoto(list, at) <= k
  BY <1>1, <1>2
<1> QED  BY <1>3, <1>4

\* A label has the same first goto in lists that hold the same gotos up to it.
LEMMA SameFirstGoto ==
  ASSUME NEW s \in Seq(Stmt), NEW t \in Seq(Stmt), NEW at \in 1 .. Len(s), at \in 1 .. Len(t),
         s[at].name = t[at].name,
         \A k \in 1 .. at - 1 : HasGoto(s[k], s[at].name) <=> HasGoto(t[k], t[at].name)
  PROVE  FirstGoto(s, at) = FirstGoto(t, at)
<1> DEFINE f == FirstGoto(s, at)
           g == FirstGoto(t, at)
<1>1. /\ f \in 0 .. at - 1 /\ (f # 0 => HasGoto(s[f], s[at].name))
      /\ \A k \in 1 .. at - 1 : HasGoto(s[k], s[at].name) => f # 0 /\ f <= k
  BY FirstGotoIs
<1>2. /\ g \in 0 .. at - 1 /\ (g # 0 => HasGoto(t[g], t[at].name))
      /\ \A k \in 1 .. at - 1 : HasGoto(t[k], t[at].name) => g # 0 /\ g <= k
  BY FirstGotoIs
<1> HIDE DEF f, g
<1>3. f # 0 => g # 0 /\ g <= f
  BY <1>1, <1>2
<1>4. g # 0 => f # 0 /\ f <= g
  BY <1>1, <1>2
<1>5. f = g
  BY <1>1, <1>2, <1>3, <1>4
<1> QED  BY <1>5 DEF f, g
-----------------------------------------------------------------------------
(***************************************************************************)
(* The laws, for one statement                                             *)
(***************************************************************************)
\* A statement and its fields
LEMMA StmtIs ==
  ASSUME StmtsAreTrees, NEW s \in Stmt
  PROVE  /\ s \in [kind : Kinds, name : Name, subs : Seq(Seq(Stmt))]
         /\ s.kind \in Kinds /\ s.name \in Name /\ s.subs \in Seq(Seq(Stmt))
         /\ \A j \in DOMAIN s.subs : s.subs[j] \in Seq(Stmt)
         /\ s.kind = "label" => s.subs = << >>
<1>1. s \in [kind : Kinds, name : Name, subs : Seq(Seq(Stmt))]
  BY DEF StmtsAreTrees, StmtsAreRecords
<1>2. s.subs \in Seq(Seq(Stmt))
  BY <1>1
<1>3. \A j \in DOMAIN s.subs : s.subs[j] \in Seq(Stmt)
  BY <1>2
<1>4. s.kind = "label" => s.subs = << >>
  BY DEF StmtsAreTrees, StmtsAreRecords
<1> QED  BY <1>1, <1>2, <1>3, <1>4

\* The list a round leaves is known position by position.
Body(list, start, at) == SubSeq(list, start, at - 1)

(***************************************************************************)
(* The positions a round moves: at becomes the position of a label and      *)
(* start that of its first goto, in a list of n statements.                *)
(***************************************************************************)
LEMMA Positions ==
  ASSUME NEW n \in Nat, NEW at \in 1 .. n, NEW start \in 1 .. at - 1
  PROVE  /\ 1 \in 1 .. at - start /\ start + 1 - 1 = start
         /\ start - 1 \in 0 .. n - (at - start) /\ n - (at - start) \in start .. n
         /\ \A k \in start + 1 .. n - (at - start) : k + (at - start) \in at + 1 .. n
         /\ \A i \in 1 .. at - start : start + i - 1 \in start .. at - 1
<1>1. n \in Int /\ at \in Int /\ start \in Int /\ at <= n /\ 1 <= start /\ start < at
  OBVIOUS
<1>2. /\ 1 \in 1 .. at - start /\ start + 1 - 1 = start
      /\ start - 1 \in 0 .. n - (at - start) /\ n - (at - start) \in start .. n
  BY <1>1
<1>3. ASSUME NEW k \in start + 1 .. n - (at - start) PROVE k + (at - start) \in at + 1 .. n
  <2>1. k \in Int /\ start + 1 <= k /\ k <= n - (at - start)
    BY <1>1
  <2> QED  BY <1>1, <2>1
<1>4. ASSUME NEW i \in 1 .. at - start PROVE start + i - 1 \in start .. at - 1
  <2>1. i \in Int /\ 1 <= i /\ i <= at - start
    BY <1>1
  <2> QED  BY <1>1, <2>1
<1> QED  BY <1>2, <1>3, <1>4

\* The body of the new block: the statements up to the label.
LEMMA BodyIs ==
  ASSUME NEW list \in Seq(Stmt), NEW at \in 1 .. Len(list), NEW start \in 1 .. at - 1
  PROVE  /\ Body(list, start, at) \in Seq(Stmt)
         /\ Len(Body(list, start, at)) = at - start
         /\ \A k \in 1 .. at - start : Body(list, start, at)[k] = list[start + k - 1]
<1>1. \A i \in start .. at - 1 : list[i] \in Stmt
  OBVIOUS
<1>2. start \in Int /\ at - 1 \in Int /\ start <= at - 1 /\ at - 1 - start + 1 = at - start
  OBVIOUS
<1>3. /\ SubSeq(list, start, at - 1) \in Seq(Stmt)
      /\ Len(SubSeq(list, start, at - 1)) = at - start
      /\ \A i \in 1 .. at - 1 - start + 1 : SubSeq(list, start, at - 1)[i] = list[start + i - 1]
  BY <1>1, <1>2, SubSeqProperties
<1> QED  BY <1>2, <1>3 DEF Body

\* The list after a splice, statement by statement.
LEMMA SpliceIs ==
  ASSUME StmtsAreTrees,
         NEW list \in Seq(Stmt), NEW at \in 1 .. Len(list), NEW start \in 1 .. at - 1
  PROVE  /\ Splice(list, start, at) \in Seq(Stmt)
         /\ Len(Splice(list, start, at)) = Len(list) - (at - start)
         /\ \A k \in 1 .. start - 1 : Splice(list, start, at)[k] = list[k]
         /\ Splice(list, start, at)[start] = Block(list[at].name, Body(list, start, at))
         /\ \A k \in start + 1 .. Len(list) - (at - start) :
              Splice(list, start, at)[k] = list[k + (at - start)]
<1> DEFINE a == SubSeq(list, 1, start - 1)
           b == <<Block(list[at].name, Body(list, start, at))>>
           c == SubSeq(list, at + 1, Len(list))
<1>1. /\ a \in Seq(Stmt) /\ Len(a) = start - 1
      /\ \A k \in 1 .. start - 1 : a[k] = list[k]
  <2>1. /\ \A i \in 1 .. start - 1 : list[i] \in Stmt
        /\ 1 \in Int /\ start - 1 \in Int
    OBVIOUS
  <2> QED  BY <2>1, SubSeqProperties
<1>2. b \in Seq(Stmt) /\ Len(b) = 1 /\ b[1] = Block(list[at].name, Body(list, start, at))
  <2>1. list[at] \in Stmt /\ list[at].name \in Name
    BY StmtIs
  <2>2. Block(list[at].name, Body(list, start, at)) \in Stmt
    BY <2>1, BodyIs DEF StmtsAreTrees, StmtsAreRecords
  <2> QED  BY <2>2
<1>3. /\ c \in Seq(Stmt) /\ Len(c) = Len(list) - at
      /\ \A k \in 1 .. Len(list) - at : c[k] = list[at + k]
  <2>1. /\ \A i \in at + 1 .. Len(list) : list[i] \in Stmt
        /\ at + 1 \in Int /\ Len(list) \in Int /\ Len(list) - (at + 1) + 1 = Len(list) - at
    OBVIOUS
  <2>2. /\ c \in Seq(Stmt) /\ Len(c) = IF at + 1 <= Len(list) THEN Len(list) - (at + 1) + 1 ELSE 0
        /\ \A k \in 1 .. Len(list) - (at + 1) + 1 : c[k] = list[at + 1 + k - 1]
    BY <2>1, SubSeqProperties
  <2>3. Len(c) = Len(list) - at
    BY <2>2
  <2>4. ASSUME NEW k \in 1 .. Len(list) - at PROVE c[k] = list[at + k]
    <3>1. k \in 1 .. Len(list) - (at + 1) + 1 /\ at + 1 + k - 1 = at + k
      OBVIOUS
    <3> QED  BY <2>2, <3>1
  <2> QED  BY <2>2, <2>3, <2>4
<1>4. Splice(list, start, at) = (a \o b) \o c
  BY DEF Splice, Body
<1> HIDE DEF a, b, c
<1>5. /\ a \o b \in Seq(Stmt) /\ Len(a \o b) = start
      /\ \A k \in 1 .. start : (a \o b)[k] = IF k <= start - 1 THEN a[k] ELSE b[k - (start - 1)]
  <2>1. /\ a \o b \in Seq(Stmt) /\ Len(a \o b) = Len(a) + Len(b)
        /\ \A k \in 1 .. Len(a) + Len(b) : (a \o b)[k] = IF k <= Len(a) THEN a[k] ELSE b[k - Len(a)]
    BY <1>1, <1>2, ConcatProperties
  <2>2. Len(a) + Len(b) = start
    BY <1>1, <1>2
  <2> QED  BY <1>1, <2>1, <2>2
<1>6. /\ (a \o b) \o c \in Seq(Stmt)
      /\ Len((a \o b) \o c) = Len(list) - (at - start)
      /\ \A k \in 1 .. Len(list) - (at - start) :
           ((a \o b) \o c)[k] = IF k <= start THEN (a \o b)[k] ELSE c[k - start]
  <2> DEFINE ab == a \o b
  <2>0. ab \in Seq(Stmt) /\ Len(ab) = start
    BY <1>5
  <2> HIDE DEF ab
  <2>1. /\ ab \o c \in Seq(Stmt) /\ Len(ab \o c) = Len(ab) + Len(c)
        /\ \A k \in 1 .. Len(ab) + Len(c) : (ab \o c)[k] = IF k <= Len(ab) THEN ab[k] ELSE c[k - Len(ab)]
    BY <1>3, <2>0, ConcatProperties
  <2>2. Len(ab) + Len(c) = Len(list) - (at - start)
    BY <1>3, <2>0
  <2> QED  BY <2>0, <2>1, <2>2 DEF ab
<1>7. ASSUME NEW k \in 1 .. start - 1 PROVE Splice(list, start, at)[k] = list[k]
  BY <1>1, <1>4, <1>5, <1>6
<1>8. Splice(list, start, at)[start] = Block(list[at].name, Body(list, start, at))
  BY <1>2, <1>4, <1>5, <1>6
<1>9. ASSUME NEW k \in start + 1 .. Len(list) - (at - start)
      PROVE  Splice(list, start, at)[k] = list[k + (at - start)]
  <2>1. k \in 1 .. Len(list) - (at - start) /\ ~(k <= start) /\ k - start \in 1 .. Len(list) - at
    OBVIOUS
  <2>2. at + (k - start) = k + (at - start)
    OBVIOUS
  <2> QED  BY <1>3, <1>4, <1>6, <2>1, <2>2
<1> QED  BY <1>4, <1>6, <1>7, <1>8, <1>9
-----------------------------------------------------------------------------
(***************************************************************************)
(* Induction over statements, and the text                                 *)
(***************************************************************************)
\* What holds of a list if it holds of the lists nested in its statements holds
\* of every list.
LEMMA ByHeight ==
  ASSUME StmtsAreTrees, NEW T,
         \A list \in Seq(Stmt) :
           (\A k \in DOMAIN list : \A j \in DOMAIN list[k].subs : list[k].subs[j] \in T) => list \in T
  PROVE  \A list \in Seq(Stmt) : list \in T
<1>1. PICK height \in [Seq(Stmt) -> Nat] :
        \A list \in Seq(Stmt) : \A k \in DOMAIN list : \A j \in DOMAIN list[k].subs :
          height[list[k].subs[j]] < height[list]
  BY DEF StmtsAreTrees, StmtsAreFinite
<1> DEFINE N == {n \in Nat : \A list \in Seq(Stmt) : height[list] = n => list \in T}
<1>2. ASSUME NEW n \in Nat, \A m \in Nat : m < n => m \in N
      PROVE  n \in N
  <2> SUFFICES ASSUME NEW list \in Seq(Stmt), height[list] = n PROVE list \in T
    OBVIOUS
  <2>1. ASSUME NEW k \in DOMAIN list, NEW j \in DOMAIN list[k].subs PROVE list[k].subs[j] \in T
    <3>1. list[k] \in Stmt
      OBVIOUS
    <3>2. list[k].subs[j] \in Seq(Stmt)
      BY <3>1, StmtIs
    <3>3. height[list[k].subs[j]] \in Nat /\ height[list[k].subs[j]] < n
      BY <1>1, <3>2
    <3>4. height[list[k].subs[j]] \in N
      BY <1>2, <3>3
    <3> QED  BY <3>2, <3>4
  <2> QED  BY <2>1
<1>3. Nat \subseteq N
  <2> HIDE DEF N
  <2> QED  BY <1>2, EveryNumberAtOnce
<1> SUFFICES ASSUME NEW list \in Seq(Stmt) PROVE list \in T
  OBVIOUS
<1>4. height[list] \in N
  BY <1>1, <1>3
<1> QED  BY <1>4

Entry == (Kinds \cup {"end"}) \X Name

EachWritten(list) == [k \in DOMAIN list |-> Written(list[k])]
EachText(lists) == [j \in DOMAIN lists |-> Text(lists[j])]

\* The text of a list is that of its statements.
LEMMA TextIs ==
  ASSUME NEW list PROVE Text(list) = FlattenSeq(EachWritten(list))
BY DEF Text, EachWritten

\* The text of a statement is that of the lists nested in it, between its ends.
LEMMA WrittenIs ==
  ASSUME StmtsAreTrees, NEW s \in Stmt
  PROVE  Written(s) = (Opening(s) \o FlattenSeq(EachText(s.subs))) \o Closing(s)
BY DEF StmtsAreTrees, Equations, WrittenLaw, EachText

\* A statement is written as a sequence of entries, and so is a list.
LEMMA WrittenIsText ==
  ASSUME StmtsAreTrees, NEW s \in Stmt,
         \A j \in DOMAIN s.subs : Text(s.subs[j]) \in Seq(Entry)
  PROVE  Written(s) \in Seq(Entry)
<1>1. EachText(s.subs) \in Seq(Seq(Entry))
  <2>1. s.subs \in Seq(Seq(Stmt))
    BY StmtIs
  <2>2. DOMAIN s.subs = 1 .. Len(s.subs) /\ Len(s.subs) \in Nat
    BY <2>1
  <2> QED  BY <2>2 DEF EachText
<1>2. Opening(s) \in Seq(Entry) /\ Closing(s) \in Seq(Entry)
  <2>1. s.kind \in Kinds /\ s.name \in Name
    BY StmtIs
  <2>2. <<s.kind, s.name>> \in Entry /\ <<"label", s.name>> \in Entry /\ <<"end", s.name>> \in Entry
    BY <2>1 DEF Entry, Kinds
  <2> QED  BY <2>2 DEF Opening, Closing
<1>3. FlattenSeq(EachText(s.subs)) \in Seq(Entry)
  BY <1>1, FlattenType
<1> DEFINE x == FlattenSeq(EachText(s.subs))
           p == Opening(s)
           q == Closing(s)
<1>4. Written(s) = (p \o x) \o q
  BY WrittenIs
<1> HIDE DEF x, p, q
<1>5. x \in Seq(Entry) /\ p \in Seq(Entry) /\ q \in Seq(Entry)
  BY <1>2, <1>3 DEF x, p, q
<1>6. p \o x \in Seq(Entry)
  BY <1>5
<1> QED  BY <1>4, <1>5, <1>6

\* Texts of lists and statements are sequences of entries.
LEMMA TextType ==
  ASSUME StmtsAreTrees
  PROVE  /\ \A list \in Seq(Stmt) : Text(list) \in Seq(Entry)
         /\ \A s \in Stmt : Written(s) \in Seq(Entry)
         /\ \A list \in Seq(Stmt) : EachWritten(list) \in Seq(Seq(Entry))
<1> DEFINE T == {list \in Seq(Stmt) : Text(list) \in Seq(Entry)}
<1>1. ASSUME NEW list \in Seq(Stmt), \A k \in DOMAIN list : Written(list[k]) \in Seq(Entry)
      PROVE  EachWritten(list) \in Seq(Seq(Entry))
  <2>1. DOMAIN list = 1 .. Len(list) /\ Len(list) \in Nat
    OBVIOUS
  <2> QED  BY <1>1, <2>1 DEF EachWritten
<1>2. ASSUME NEW list \in Seq(Stmt),
             \A k \in DOMAIN list : \A j \in DOMAIN list[k].subs : list[k].subs[j] \in T
      PROVE  list \in T
  <2>1. ASSUME NEW k \in DOMAIN list PROVE Written(list[k]) \in Seq(Entry)
    <3>1. list[k] \in Stmt
      OBVIOUS
    <3>2. \A j \in DOMAIN list[k].subs : Text(list[k].subs[j]) \in Seq(Entry)
      BY <1>2
    <3> QED  BY <3>1, <3>2, WrittenIsText
  <2>2. EachWritten(list) \in Seq(Seq(Entry))
    BY <1>1, <2>1
  <2>3. Text(list) \in Seq(Entry)
    BY <2>2, TextIs, FlattenType
  <2> QED  BY <2>3
<1>3. \A list \in Seq(Stmt) : list \in T
  <2> HIDE DEF T
  <2> QED  BY <1>2, ByHeight
<1>4. \A list \in Seq(Stmt) : Text(list) \in Seq(Entry)
  BY <1>3
<1>5. ASSUME NEW s \in Stmt PROVE Written(s) \in Seq(Entry)
  <2>1. \A j \in DOMAIN s.subs : Text(s.subs[j]) \in Seq(Entry)
    BY <1>4, StmtIs
  <2> QED  BY <2>1, WrittenIsText
<1>6. ASSUME NEW list \in Seq(Stmt) PROVE EachWritten(list) \in Seq(Seq(Entry))
  <2>1. \A k \in DOMAIN list : list[k] \in Stmt
    OBVIOUS
  <2> QED  BY <1>1, <1>5, <2>1
<1> QED  BY <1>4, <1>5, <1>6

\* The text of two lists, of one statement, of a block and of a label
LEMMA TextConcat ==
  ASSUME StmtsAreTrees, NEW a \in Seq(Stmt), NEW b \in Seq(Stmt)
  PROVE  Text(a \o b) = Text(a) \o Text(b)
<1>1. EachWritten(a) \in Seq(Seq(Entry)) /\ EachWritten(b) \in Seq(Seq(Entry))
  BY TextType
<1>2. a \o b \in Seq(Stmt) /\ Len(a \o b) = Len(a) + Len(b)
  BY ConcatProperties
<1>3. EachWritten(a \o b) \in Seq(Seq(Entry))
  BY <1>2, TextType
<1>4. \A list \in Seq(Stmt) :
        /\ Len(EachWritten(list)) = Len(list)
        /\ \A k \in 1 .. Len(list) : EachWritten(list)[k] = Written(list[k])
  <2> SUFFICES ASSUME NEW list \in Seq(Stmt)
               PROVE  /\ Len(EachWritten(list)) = Len(list)
                      /\ \A k \in 1 .. Len(list) : EachWritten(list)[k] = Written(list[k])
    OBVIOUS
  <2>1. DOMAIN list = 1 .. Len(list) /\ Len(list) \in Nat
    OBVIOUS
  <2>2. EachWritten(list) \in Seq(Seq(Entry))
    BY TextType
  <2> QED  BY <2>1, <2>2 DEF EachWritten
<1>5. EachWritten(a \o b) = EachWritten(a) \o EachWritten(b)
  <2>1. /\ EachWritten(a) \o EachWritten(b) \in Seq(Seq(Entry))
        /\ Len(EachWritten(a) \o EachWritten(b)) = Len(a) + Len(b)
        /\ \A k \in 1 .. Len(a) + Len(b) : (EachWritten(a) \o EachWritten(b))[k] =
              IF k <= Len(a) THEN EachWritten(a)[k] ELSE EachWritten(b)[k - Len(a)]
    <3> DEFINE x == EachWritten(a)
               y == EachWritten(b)
    <3>1. x \in Seq(Seq(Entry)) /\ y \in Seq(Seq(Entry)) /\ Len(x) = Len(a) /\ Len(y) = Len(b)
      BY <1>1, <1>4
    <3> HIDE DEF x, y
    <3>2. /\ x \o y \in Seq(Seq(Entry)) /\ Len(x \o y) = Len(x) + Len(y)
          /\ \A k \in 1 .. Len(x) + Len(y) : (x \o y)[k] = IF k <= Len(x) THEN x[k] ELSE y[k - Len(x)]
      BY ONLY <3>1, ConcatProperties
    <3> QED  BY <3>1, <3>2 DEF x, y
  <2>2. \A k \in 1 .. Len(a) + Len(b) : (a \o b)[k] = IF k <= Len(a) THEN a[k] ELSE b[k - Len(a)]
    BY ConcatProperties
  <2>3. ASSUME NEW k \in 1 .. Len(a) + Len(b)
        PROVE  EachWritten(a \o b)[k] = (EachWritten(a) \o EachWritten(b))[k]
    <3>1. EachWritten(a \o b)[k] = Written((a \o b)[k])
      BY <1>2, <1>4
    <3>2. CASE k <= Len(a)
      <4>1. k \in 1 .. Len(a)
        BY <3>2
      <4>2. EachWritten(a)[k] = Written(a[k])
        BY <1>4, <4>1
      <4> QED  BY <2>1, <2>2, <3>1, <3>2, <4>2
    <3>3. CASE ~(k <= Len(a))
      <4>1. k - Len(a) \in 1 .. Len(b)
        BY <3>3
      <4>2. EachWritten(b)[k - Len(a)] = Written(b[k - Len(a)])
        BY <1>4, <4>1
      <4> QED  BY <2>1, <2>2, <3>1, <3>3, <4>2
    <3> QED  BY <3>2, <3>3
  <2> QED  BY <1>2, <1>3, <1>4, <2>1, <2>3, SeqEqual
<1>6. FlattenSeq(EachWritten(a) \o EachWritten(b)) = FlattenSeq(EachWritten(a)) \o FlattenSeq(EachWritten(b))
  BY <1>1, FlattenConcat
<1> QED  BY <1>5, <1>6, TextIs

\* The text of a list of one statement.
LEMMA TextOne ==
  ASSUME StmtsAreTrees, NEW s \in Stmt
  PROVE  Text(<<s>>) = Written(s)
<1>1. EachWritten(<<s>>) = <<Written(s)>>
  BY DEF EachWritten
<1> QED  BY <1>1, TextIs, TextType, FlattenOne

\* A label is one entry.
LEMMA WrittenLabel ==
  ASSUME StmtsAreTrees, NEW s \in Stmt, s.kind = "label"
  PROVE  Written(s) = <<<<"label", s.name>>>>
<1>1. s.subs = << >>
  BY StmtIs
<1>2. EachText(<< >>) = << >>
  BY DEF EachText
<1>3. Opening(s) = <<<<"label", s.name>>>> /\ Closing(s) = << >>
  BY <1>1 DEF Opening, Closing
<1>4. Written(s) = (<<<<"label", s.name>>>> \o << >>) \o << >>
  BY <1>1, <1>2, <1>3, WrittenIs, FlattenNone
<1> DEFINE x == <<<<"label", s.name>>>>
<1>5. x \in Seq({<<"label", s.name>>})
  OBVIOUS
<1> HIDE DEF x
<1>6. x \o << >> = x
  BY <1>5, ConcatEmptySeq
<1> QED  BY <1>4, <1>6 DEF x

\* A block is its body and its label.
LEMMA WrittenBlock ==
  ASSUME StmtsAreTrees, NEW l \in Name, NEW body \in Seq(Stmt)
  PROVE  Written(Block(l, body)) = Text(body) \o <<<<"label", l>>>>
<1> DEFINE s == Block(l, body)
<1>1. s \in Stmt
  BY DEF StmtsAreTrees, StmtsAreRecords
<1>2. s.kind = "block" /\ s.name = l /\ s.subs = <<body>>
  BY DEF Block
<1> HIDE DEF s
<1>3. EachText(<<body>>) = <<Text(body)>>
  BY DEF EachText
<1>4. Text(body) \in Seq(Entry)
  BY TextType
<1>5. FlattenSeq(<<Text(body)>>) = Text(body)
  BY <1>4, FlattenOne
<1>6. Opening(s) = << >> /\ Closing(s) = <<<<"label", l>>>>
  BY <1>2 DEF Opening, Closing
<1>7. << >> \o Text(body) = Text(body)
  BY <1>4, ConcatEmptySeq
<1>8. Written(s) = (<< >> \o Text(body)) \o <<<<"label", l>>>>
  BY <1>1, <1>2, <1>3, <1>5, <1>6, WrittenIs
<1> QED  BY <1>7, <1>8 DEF s

Regroup(a, b, c, d) == (a \o (b \o c)) \o d = (a \o b) \o (c \o d)

\* Regrouping keeps a text.
LEMMA Regrouped ==
  ASSUME NEW S, NEW a, NEW b, NEW c, NEW d,
         a \in Seq(S), b \in Seq(S), c \in Seq(S), d \in Seq(S)
  PROVE  Regroup(a, b, c, d)
<1>1. Associates(a, b, c)
  BY Associative
<1>2. Associates(a \o b, c, d)
  <2>1. a \o b \in Seq(S)
    BY ONLY a \in Seq(S), b \in Seq(S), ConcatProperties
  <2> QED  BY ONLY <2>1, c \in Seq(S), d \in Seq(S), Associative
<1> QED  BY <1>1, <1>2 DEF Associates, Regroup

\* Turning a list up to a label into a block leaves the text as it is.
LEMMA SpliceKeepsText ==
  ASSUME StmtsAreTrees,
         NEW list \in Seq(Stmt), NEW at \in 1 .. Len(list), NEW start \in 1 .. at - 1,
         list[at].kind = "label"
  PROVE  Text(Splice(list, start, at)) = Text(list)
<1> DEFINE a == SubSeq(list, 1, start - 1)
           b == Body(list, start, at)
           c == SubSeq(list, at + 1, Len(list))
           lab == list[at]
           blk == Block(lab.name, b)
<1>1. /\ a \in Seq(Stmt) /\ Len(a) = start - 1
      /\ \A k \in 1 .. start - 1 : a[k] = list[k]
  <2>1. /\ \A i \in 1 .. start - 1 : list[i] \in Stmt
        /\ 1 \in Int /\ start - 1 \in Int
    OBVIOUS
  <2> QED  BY <2>1, SubSeqProperties
<1>2. /\ b \in Seq(Stmt) /\ Len(b) = at - start
      /\ \A k \in 1 .. at - start : b[k] = list[start + k - 1]
  BY BodyIs
<1>3. c \in Seq(Stmt) /\ SubSeq(list, at, Len(list)) = <<lab>> \o c
  <2>1. at \in 1 .. Len(list) /\ Len(list) \in at .. Len(list)
    OBVIOUS
  <2>2. SubSeq(list, at, Len(list)) = <<lab>> \o c
    BY <2>1, SubSeqRecursiveFirst
  <2>3. \A i \in at + 1 .. Len(list) : list[i] \in Stmt
    OBVIOUS
  <2>4. at + 1 \in Int /\ Len(list) \in Int
    OBVIOUS
  <2> QED  BY <2>2, <2>3, <2>4, SubSeqProperties
<1>4. lab \in Stmt /\ lab.name \in Name
  BY StmtIs
<1>5. blk \in Stmt
  BY <1>2, <1>4 DEF StmtsAreTrees, StmtsAreRecords
<1>6. Splice(list, start, at) = (a \o <<blk>>) \o c
  BY DEF Splice, Body
<1>7. list = (a \o b) \o (<<lab>> \o c)
  <2> DEFINE n == Len(list)
  <2>1. /\ n \in Nat /\ 1 \in 1 .. n + 1 /\ start - 1 \in 0 .. n /\ at - 1 \in start - 1 .. n
        /\ n \in at - 1 .. n /\ start - 1 + 1 = start /\ at - 1 + 1 = at /\ 1 - 1 = 0
    OBVIOUS
  <2> HIDE DEF n
  <2>2. SubSeq(list, 1, start - 1) \o SubSeq(list, start - 1 + 1, at - 1) = SubSeq(list, 1, at - 1)
    BY <2>1, ConcatAdjacentSubSeq DEF n
  <2>3. SubSeq(list, 1, at - 1) \o SubSeq(list, at - 1 + 1, n) = SubSeq(list, 1, n)
    <3>1. at - 1 \in 1 - 1 .. Len(list) /\ n \in at - 1 .. Len(list) /\ 1 \in 1 .. Len(list) + 1
      BY <2>1 DEF n
    <3> QED  BY <3>1, ConcatAdjacentSubSeq
  <2>4. SubSeq(list, 1, n) = list
    BY SubSeqFull DEF n
  <2> QED  BY <1>3, <2>1, <2>2, <2>3, <2>4 DEF n, Body
<1> DEFINE ta == Text(a)
           tb == Text(b)
           tc == Text(c)
           tl == <<<<"label", lab.name>>>>
<1>8. ta \in Seq(Entry) /\ tb \in Seq(Entry) /\ tc \in Seq(Entry) /\ tl \in Seq(Entry)
  <2>1. <<"label", lab.name>> \in Entry
    BY <1>4 DEF Entry, Kinds
  <2> HIDE DEF a, b, c, lab
  <2> QED  BY <1>1, <1>2, <1>3, <2>1, TextType
<1>9. Text(<<lab>>) = tl /\ Text(<<blk>>) = tb \o tl
  BY <1>2, <1>4, <1>5, TextOne, WrittenLabel, WrittenBlock
<1>10. <<lab>> \in Seq(Stmt) /\ <<blk>> \in Seq(Stmt)
  BY <1>4, <1>5
<1> HIDE DEF a, b, c, lab, blk, ta, tb, tc, tl
<1>11. Text((a \o <<blk>>) \o c) = (ta \o (tb \o tl)) \o tc
  <2>1. a \o <<blk>> \in Seq(Stmt)
    BY <1>1, <1>10
  <2>2. Text((a \o <<blk>>) \o c) = Text(a \o <<blk>>) \o Text(c)
    BY <1>3, <2>1, TextConcat
  <2>3. Text(a \o <<blk>>) = Text(a) \o Text(<<blk>>)
    BY <1>1, <1>10, TextConcat
  <2> QED  BY <1>9, <2>2, <2>3 DEF ta, tc
<1>12. Text((a \o b) \o (<<lab>> \o c)) = (ta \o tb) \o (tl \o tc)
  <2>1. a \o b \in Seq(Stmt) /\ <<lab>> \o c \in Seq(Stmt)
    BY <1>1, <1>2, <1>3, <1>10
  <2>2. Text((a \o b) \o (<<lab>> \o c)) = Text(a \o b) \o Text(<<lab>> \o c)
    BY <2>1, TextConcat
  <2>3. Text(a \o b) = Text(a) \o Text(b) /\ Text(<<lab>> \o c) = Text(<<lab>>) \o Text(c)
    BY <1>1, <1>2, <1>3, <1>10, TextConcat
  <2> QED  BY <1>9, <2>2, <2>3 DEF ta, tb, tc
<1>13. (ta \o (tb \o tl)) \o tc = (ta \o tb) \o (tl \o tc)
  <2>1. Regroup(ta, tb, tl, tc)
    BY <1>8, Regrouped
  <2> QED  BY <2>1 DEF Regroup
<1> QED  BY <1>6, <1>7, <1>11, <1>12, <1>13
-----------------------------------------------------------------------------
(***************************************************************************)
(* Gotos, labels and nested lists                                          *)
(***************************************************************************)
Jumps(list, l) == \E k \in DOMAIN list : HasGoto(list[k], l)

\* A goto in a statement is the statement or in a list nested in it.
LEMMA HasGotoIs ==
  ASSUME StmtsAreTrees, NEW s \in Stmt, NEW l \in Name
  PROVE  HasGoto(s, l) <=>
           \/ s.kind = "goto" /\ s.name = l
           \/ \E j \in DOMAIN s.subs : Jumps(s.subs[j], l)
BY DEF StmtsAreTrees, Equations, HasGotoLaw, Jumps

\* A label holds no goto, and a block those of its body.
LEMMA LabelHasNoGoto ==
  ASSUME StmtsAreTrees, NEW s \in Stmt, NEW l \in Name, s.kind = "label"
  PROVE  ~HasGoto(s, l)
<1>1. s.subs = << >> /\ DOMAIN << >> = {}
  BY StmtIs
<1> QED  BY <1>1, HasGotoIs

\* A block is a statement with the gotos of its body.
LEMMA BlockIs ==
  ASSUME StmtsAreTrees, NEW n \in Name, NEW body \in Seq(Stmt)
  PROVE  /\ Block(n, body) \in Stmt
         /\ Block(n, body).kind = "block" /\ Block(n, body).name = n /\ Block(n, body).subs = <<body>>
         /\ \A l \in Name : HasGoto(Block(n, body), l) <=> Jumps(body, l)
<1> DEFINE s == Block(n, body)
<1>1. s \in Stmt
  BY DEF StmtsAreTrees, StmtsAreRecords
<1>2. s.kind = "block" /\ s.name = n /\ s.subs = <<body>>
  BY DEF Block
<1> HIDE DEF s
<1>3. DOMAIN <<body>> = {1} /\ <<body>>[1] = body
  OBVIOUS
<1>4. ASSUME NEW l \in Name PROVE HasGoto(s, l) <=> Jumps(body, l)
  BY <1>1, <1>2, <1>3, HasGotoIs
<1> QED  BY <1>1, <1>2, <1>4 DEF s

\* A round neither adds nor loses a goto.
LEMMA SpliceKeepsJumps ==
  ASSUME StmtsAreTrees,
         NEW list \in Seq(Stmt), NEW at \in 1 .. Len(list), NEW start \in 1 .. at - 1,
         list[at].kind = "label", NEW l \in Name
  PROVE  Jumps(Splice(list, start, at), l) <=> Jumps(list, l)
<1> DEFINE new == Splice(list, start, at)
           body == Body(list, start, at)
           n == Len(list) - (at - start)
<1>1. /\ new \in Seq(Stmt) /\ Len(new) = n
      /\ \A k \in 1 .. start - 1 : new[k] = list[k]
      /\ new[start] = Block(list[at].name, body)
      /\ \A k \in start + 1 .. n : new[k] = list[k + (at - start)]
  BY SpliceIs
<1>2. /\ body \in Seq(Stmt) /\ Len(body) = at - start
      /\ \A k \in 1 .. at - start : body[k] = list[start + k - 1]
  BY BodyIs
<1>3. list[at] \in Stmt /\ list[at].name \in Name
  BY StmtIs
<1>4. HasGoto(new[start], l) <=> Jumps(body, l)
  BY <1>1, <1>2, <1>3, BlockIs
<1>5. ~HasGoto(list[at], l)
  BY <1>3, LabelHasNoGoto
<1> HIDE DEF new, body
<1>6. DOMAIN new = 1 .. n /\ DOMAIN body = 1 .. at - start /\ DOMAIN list = 1 .. Len(list)
  BY <1>1, <1>2
<1>7. ASSUME Jumps(new, l) PROVE Jumps(list, l)
  <2>1. PICK k \in 1 .. n : HasGoto(new[k], l)
    BY <1>6, <1>7 DEF Jumps
  <2>2. CASE k < start
    <3>1. k \in 1 .. start - 1 /\ k \in 1 .. Len(list)
      BY <2>2
    <3> QED  BY <1>1, <1>6, <2>1, <3>1 DEF Jumps
  <2>3. CASE k = start
    <3>1. PICK i \in 1 .. at - start : HasGoto(body[i], l)
      BY <1>4, <1>6, <2>1, <2>3 DEF Jumps
    <3>2. start + i - 1 \in 1 .. Len(list)
      OBVIOUS
    <3> QED  BY <1>2, <1>6, <3>1, <3>2 DEF Jumps
  <2>4. CASE k > start
    <3>1. k \in start + 1 .. n /\ k + (at - start) \in 1 .. Len(list)
      BY <2>4
    <3> QED  BY <1>1, <1>6, <2>1, <3>1 DEF Jumps
  <2> QED  BY <2>2, <2>3, <2>4
<1>8. ASSUME Jumps(list, l) PROVE Jumps(new, l)
  <2>1. PICK k \in 1 .. Len(list) : HasGoto(list[k], l)
    BY <1>6, <1>8 DEF Jumps
  <2>2. CASE k < start
    <3>1. k \in 1 .. start - 1 /\ k \in 1 .. n
      BY <2>2
    <3> QED  BY <1>1, <1>6, <2>1, <3>1 DEF Jumps
  <2>3. CASE k \in start .. at - 1
    <3>1. k - start + 1 \in 1 .. at - start /\ start + (k - start + 1) - 1 = k /\ start \in 1 .. n
      BY <2>3
    <3>2. HasGoto(body[k - start + 1], l)
      BY <1>2, <2>1, <3>1
    <3>3. Jumps(body, l)
      BY <1>6, <3>1, <3>2 DEF Jumps
    <3> QED  BY <1>4, <1>6, <3>1, <3>3 DEF Jumps
  <2>4. CASE k > at
    <3>1. k - (at - start) \in start + 1 .. n /\ k - (at - start) + (at - start) = k /\ k - (at - start) \in 1 .. n
      BY <2>4
    <3>2. HasGoto(new[k - (at - start)], l)
      BY <1>1, <2>1, <3>1
    <3> QED  BY <1>6, <3>1, <3>2 DEF Jumps
  <2>5. k # at
    BY <1>5, <2>1
  <2> QED  BY <2>2, <2>3, <2>4, <2>5
<1> QED  BY <1>7, <1>8 DEF new

\* The lists of a list and of the lists nested in its statements
LEMMA ListsOfIs ==
  ASSUME StmtsAreTrees, NEW list \in Seq(Stmt), NEW l
  PROVE  l \in ListsOf(list) <=>
           \/ l = list
           \/ \E k \in DOMAIN list : \E j \in DOMAIN list[k].subs : l \in ListsOf(list[k].subs[j])
<1>1. \A k \in DOMAIN list : NestedLists(list[k]) = UNION {ListsOf(list[k].subs[j]) : j \in DOMAIN list[k].subs}
  <2> SUFFICES ASSUME NEW k \in DOMAIN list
               PROVE  NestedLists(list[k]) = UNION {ListsOf(list[k].subs[j]) : j \in DOMAIN list[k].subs}
    OBVIOUS
  <2>1. list[k] \in Stmt
    OBVIOUS
  <2> QED  BY <2>1 DEF StmtsAreTrees, Equations, NestedListsLaw
<1>2. l \in ListsOf(list) <=> l = list \/ \E k \in DOMAIN list : l \in NestedLists(list[k])
  BY DEF ListsOf
<1> QED  BY <1>1, <1>2

\* The labels of a list are those of its statements.
LEMMA LabelsInIs ==
  ASSUME StmtsAreTrees, NEW list \in Seq(Stmt), NEW n
  PROVE  n \in LabelsIn(list) <=> \E k \in DOMAIN list : n \in LabelsOf(list[k])
<1>1. n \in LabelsIn(list) <=>
        \/ n \in LabelsAmong(list)
        \/ \E k \in DOMAIN list : \E l \in NestedLists(list[k]) : n \in LabelsAmong(l)
  BY DEF LabelsIn, ListsOf
<1>2. n \in LabelsAmong(list) <=> \E k \in DOMAIN list : n \in LabelsAmong(<<list[k]>>)
  <2>1. \A s : n \in LabelsAmong(<<s>>) <=> s.kind = "label" /\ n = s.name
    BY DEF LabelsAmong
  <2>2. n \in LabelsAmong(list) <=> \E k \in DOMAIN list : list[k].kind = "label" /\ n = list[k].name
    BY DEF LabelsAmong
  <2> QED  BY <2>1, <2>2
<1>3. \A k \in DOMAIN list : n \in LabelsOf(list[k]) <=>
        n \in LabelsAmong(<<list[k]>>) \/ \E l \in NestedLists(list[k]) : n \in LabelsAmong(l)
  BY DEF LabelsOf
<1> QED  BY <1>1, <1>2, <1>3

\* The labels of a statement: its own name, or those of the lists nested in it
LEMMA LabelsOfIs ==
  ASSUME StmtsAreTrees, NEW s \in Stmt, NEW n
  PROVE  /\ s.kind = "label" => (n \in LabelsOf(s) <=> n = s.name)
         /\ s.kind # "label" =>
              (n \in LabelsOf(s) <=> \E j \in DOMAIN s.subs : n \in LabelsIn(s.subs[j]))
<1>1. NestedLists(s) = UNION {ListsOf(s.subs[j]) : j \in DOMAIN s.subs}
  BY DEF StmtsAreTrees, Equations, NestedListsLaw
<1>2. n \in LabelsOf(s) <=>
        \/ n \in LabelsAmong(<<s>>)
        \/ \E j \in DOMAIN s.subs : n \in LabelsIn(s.subs[j])
  BY <1>1 DEF LabelsOf, LabelsIn
<1>3. n \in LabelsAmong(<<s>>) <=> s.kind = "label" /\ n = s.name
  BY DEF LabelsAmong
<1>4. s.kind = "label" => DOMAIN s.subs = {}
  BY StmtIs
<1> QED  BY <1>2, <1>3, <1>4

\* The labels of a block are those of its body.
LEMMA LabelsOfBlock ==
  ASSUME StmtsAreTrees, NEW l \in Name, NEW body \in Seq(Stmt), NEW n
  PROVE  n \in LabelsOf(Block(l, body)) <=> n \in LabelsIn(body)
<1> DEFINE s == Block(l, body)
<1>1. s \in Stmt /\ s.kind = "block" /\ s.subs = <<body>>
  BY BlockIs
<1> HIDE DEF s
<1>2. DOMAIN <<body>> = {1} /\ <<body>>[1] = body
  OBVIOUS
<1>3. n \in LabelsOf(s) <=> n \in LabelsIn(body)
  BY <1>1, <1>2, LabelsOfIs
<1> QED  BY <1>3 DEF s

\* No label is added by a round.
LEMMA SpliceAddsNoLabels ==
  ASSUME StmtsAreTrees,
         NEW list \in Seq(Stmt), NEW at \in 1 .. Len(list), NEW start \in 1 .. at - 1
  PROVE  LabelsIn(Splice(list, start, at)) \subseteq LabelsIn(list)
<1> DEFINE new == Splice(list, start, at)
           body == Body(list, start, at)
           m == Len(list) - (at - start)
<1> SUFFICES ASSUME NEW n, n \in LabelsIn(new) PROVE n \in LabelsIn(list)
  OBVIOUS
<1>1. /\ new \in Seq(Stmt) /\ Len(new) = m
      /\ \A k \in 1 .. start - 1 : new[k] = list[k]
      /\ new[start] = Block(list[at].name, body)
      /\ \A k \in start + 1 .. m : new[k] = list[k + (at - start)]
  BY SpliceIs
<1>2. /\ body \in Seq(Stmt) /\ Len(body) = at - start
      /\ \A k \in 1 .. at - start : body[k] = list[start + k - 1]
  BY BodyIs
<1>3. list[at].name \in Name
  BY StmtIs
<1> HIDE DEF new, body
<1>4. DOMAIN new = 1 .. m /\ DOMAIN body = 1 .. at - start /\ DOMAIN list = 1 .. Len(list)
  BY <1>1, <1>2
<1>5. PICK k \in 1 .. m : n \in LabelsOf(new[k])
  BY <1>1, <1>4, LabelsInIs
<1>6. \E i \in 1 .. Len(list) : n \in LabelsOf(list[i])
  <2>1. CASE k < start
    <3>1. k \in 1 .. start - 1 /\ k \in 1 .. Len(list)
      BY <2>1
    <3> QED  BY <1>1, <1>5, <3>1
  <2>2. CASE k = start
    <3>1. n \in LabelsIn(body)
      BY <1>1, <1>2, <1>3, <1>5, <2>2, LabelsOfBlock
    <3>2. PICK i \in 1 .. at - start : n \in LabelsOf(body[i])
      BY <1>2, <1>4, <3>1, LabelsInIs
    <3>3. start + i - 1 \in 1 .. Len(list)
      OBVIOUS
    <3> QED  BY <1>2, <3>2, <3>3
  <2>3. CASE k > start
    <3>1. k \in start + 1 .. m /\ k + (at - start) \in 1 .. Len(list)
      BY <2>3
    <3> QED  BY <1>1, <1>5, <3>1
  <2> QED  BY <2>1, <2>2, <2>3
<1> QED  BY <1>4, <1>6, LabelsInIs

\* The list and the body of a round, all that is needed of them below
Spliced(list, start, at, new, body) ==
  /\ new \in Seq(Stmt) /\ Len(new) = Len(list) - (at - start)
  /\ \A k \in 1 .. start - 1 : new[k] = list[k]
  /\ new[start] = Block(list[at].name, body) /\ new[start].kind = "block"
  /\ \A k \in start + 1 .. Len(list) - (at - start) : new[k] = list[k + (at - start)]
  /\ body \in Seq(Stmt) /\ Len(body) = at - start
  /\ \A k \in 1 .. at - start : body[k] = list[start + k - 1]

\* A splice is what Spliced says.
LEMMA RoundIs ==
  ASSUME StmtsAreTrees,
         NEW list \in Seq(Stmt), NEW at \in 1 .. Len(list), NEW start \in 1 .. at - 1
  PROVE  Spliced(list, start, at, Splice(list, start, at), Body(list, start, at))
<1> DEFINE new == Splice(list, start, at)
           body == Body(list, start, at)
<1>1. /\ new \in Seq(Stmt) /\ Len(new) = Len(list) - (at - start)
      /\ \A k \in 1 .. start - 1 : new[k] = list[k]
      /\ new[start] = Block(list[at].name, body)
      /\ \A k \in start + 1 .. Len(list) - (at - start) : new[k] = list[k + (at - start)]
  BY SpliceIs
<1>2. /\ body \in Seq(Stmt) /\ Len(body) = at - start
      /\ \A k \in 1 .. at - start : body[k] = list[start + k - 1]
  BY BodyIs
<1>3. list[at].name \in Name
  BY StmtIs
<1> HIDE DEF new, body
<1>4. new[start].kind = "block"
  BY <1>1, <1>2, <1>3, BlockIs
<1>5. Spliced(list, start, at, new, body)
  BY <1>1, <1>2, <1>4 DEF Spliced
<1> QED  BY <1>5 DEF new, body

\* The lists of a list are tight, and so are those a round leaves.
AllTight(list) == \A l \in ListsOf(list) : Tight(l)

\* All blocks of a list are tight if its own are and those nested in it.
LEMMA AllTightIs ==
  ASSUME StmtsAreTrees, NEW list \in Seq(Stmt)
  PROVE  AllTight(list) <=>
           /\ Tight(list)
           /\ \A k \in DOMAIN list : \A j \in DOMAIN list[k].subs : AllTight(list[k].subs[j])
BY ListsOfIs DEF AllTight

\* A splice at the first goto keeps all blocks tight.
LEMMA SpliceIsTight ==
  ASSUME StmtsAreTrees,
         NEW list \in Seq(Stmt), NEW at \in 1 .. Len(list), NEW start \in 1 .. at - 1,
         start = FirstGoto(list, at), AllTight(list)
  PROVE  AllTight(Splice(list, start, at))
<1> DEFINE new == Splice(list, start, at)
           body == Body(list, start, at)
           m == Len(list) - (at - start)
<1>0. Spliced(list, start, at, new, body)
  BY RoundIs
<1> HIDE DEF new, body
<1>1. /\ new \in Seq(Stmt) /\ Len(new) = m
      /\ \A k \in 1 .. start - 1 : new[k] = list[k]
      /\ new[start] = Block(list[at].name, body)
      /\ \A k \in start + 1 .. m : new[k] = list[k + (at - start)]
  BY <1>0 DEF Spliced
<1>2. /\ body \in Seq(Stmt) /\ Len(body) = at - start
      /\ \A k \in 1 .. at - start : body[k] = list[start + k - 1]
  BY <1>0 DEF Spliced
<1>3. \A k \in 1 .. Len(list) : list[k] \in Stmt /\ list[k].name \in Name
  BY StmtIs
<1>4. /\ new[start].kind = "block" /\ new[start].name = list[at].name /\ new[start].subs = <<body>>
      /\ \A l \in Name : HasGoto(new[start], l) <=> Jumps(body, l)
  BY <1>1, <1>2, <1>3, BlockIs
<1>5. /\ HasGoto(list[start], list[at].name)
      /\ \A k \in 1 .. start - 1 : ~HasGoto(list[k], list[at].name)
  BY FirstGotoIs
<1>p. /\ 1 \in 1 .. at - start /\ start + 1 - 1 = start
      /\ \A k \in start + 1 .. m : k + (at - start) \in at + 1 .. Len(list)
      /\ \A i \in 1 .. at - start : start + i - 1 \in start .. at - 1
  <2>1. Len(list) \in Nat
    OBVIOUS
  <2> QED  BY <2>1, Positions
<1>6. DOMAIN new = 1 .. m /\ DOMAIN body = 1 .. at - start /\ DOMAIN list = 1 .. Len(list)
  BY <1>1, <1>2
<1>7. \A k \in 1 .. Len(list) : list[k].kind = "block" =>
        /\ HasGoto(list[k].subs[1][1], list[k].name)
        /\ \A j \in 1 .. k - 1 : ~HasGoto(list[j], list[k].name)
  BY <1>6, AllTightIs DEF Tight
<1>8. \A k \in 1 .. Len(list) : \A j \in DOMAIN list[k].subs : AllTight(list[k].subs[j])
  BY <1>6, AllTightIs
<1>9. AllTight(body)
  <2>1. Tight(body)
    <3> SUFFICES ASSUME NEW k \in 1 .. at - start, body[k].kind = "block"
                 PROVE  /\ HasGoto(body[k].subs[1][1], body[k].name)
                        /\ \A j \in 1 .. k - 1 : ~HasGoto(body[j], body[k].name)
      BY <1>6 DEF Tight
    <3>1. start + k - 1 \in 1 .. Len(list) /\ body[k] = list[start + k - 1]
      BY <1>2
    <3>2. ASSUME NEW j \in 1 .. k - 1 PROVE ~HasGoto(body[j], body[k].name)
      <4>1. /\ start + j - 1 \in 1 .. (start + k - 1) - 1
            /\ j \in 1 .. at - start
        OBVIOUS
      <4> QED  BY <1>2, <1>7, <3>1, <4>1
    <3> QED  BY <1>7, <3>1, <3>2
  <2>2. ASSUME NEW k \in 1 .. at - start PROVE \A j \in DOMAIN body[k].subs : AllTight(body[k].subs[j])
    <3>1. start + k - 1 \in 1 .. Len(list) /\ body[k] = list[start + k - 1]
      BY <1>2
    <3> QED  BY <1>8, <3>1
  <2> QED  BY <1>2, <1>6, <2>1, <2>2, AllTightIs
<1>10. Tight(new)
  <2> SUFFICES ASSUME NEW k \in 1 .. m, new[k].kind = "block"
               PROVE  /\ HasGoto(new[k].subs[1][1], new[k].name)
                      /\ \A j \in 1 .. k - 1 : ~HasGoto(new[j], new[k].name)
    BY <1>6 DEF Tight
  <2>1. CASE k < start
    <3>1. k \in 1 .. start - 1 /\ k \in 1 .. Len(list) /\ \A j \in 1 .. k - 1 : j \in 1 .. start - 1
      BY <2>1
    <3> QED  BY <1>1, <1>7, <3>1
  <2>2. CASE k = start
    <3>1. body[1] = list[start]
      BY <1>2, <1>p
    <3>2. new[k].subs[1][1] = list[start] /\ new[k].name = list[at].name
      <4>1. <<body>>[1] = body
        OBVIOUS
      <4> QED  BY <1>4, <2>2, <3>1, <4>1
    <3> QED  BY <1>1, <1>5, <2>2, <3>2
  <2>3. CASE k > start
    <3> DEFINE i == k + (at - start)
    <3>1. k \in start + 1 .. m /\ i \in 1 .. Len(list) /\ i > at /\ new[k] = list[i]
      <4>1. k \in start + 1 .. m
        BY <2>3
      <4>2. i \in at + 1 .. Len(list)
        BY <1>p, <4>1
      <4>3. new[k] = list[i]
        BY <1>1, <4>1
      <4> QED  BY <4>1, <4>2, <4>3
    <3> HIDE DEF i
    <3>2. /\ HasGoto(list[i].subs[1][1], list[i].name)
          /\ \A j \in 1 .. i - 1 : ~HasGoto(list[j], list[i].name)
      BY <1>7, <3>1
    <3>3. ASSUME NEW j \in 1 .. k - 1 PROVE ~HasGoto(new[j], list[i].name)
      <4>1. CASE j < start
        <5>1. j \in 1 .. start - 1 /\ j \in 1 .. i - 1
          BY <3>1, <4>1
        <5> QED  BY <1>1, <3>2, <5>1
      <4>2. CASE j = start
        <5>1. ASSUME NEW p \in 1 .. at - start PROVE start + p - 1 \in 1 .. i - 1
          <6>1. start + p - 1 \in start .. at - 1
            BY <1>p
          <6> QED  BY <3>1, <6>1
        <5>2. ~Jumps(body, list[i].name)
          BY <1>2, <1>6, <3>2, <5>1 DEF Jumps
        <5> QED  BY <1>3, <1>4, <3>1, <4>2, <5>2
      <4>3. CASE j > start
        <5>1. j \in start + 1 .. m /\ j + (at - start) \in 1 .. i - 1
          BY <4>3 DEF i
        <5> QED  BY <1>1, <3>2, <5>1
      <4> QED  BY <4>1, <4>2, <4>3
    <3> QED  BY <3>1, <3>2, <3>3
  <2> QED  BY <2>1, <2>2, <2>3
<1>11. ASSUME NEW k \in 1 .. m, NEW j \in DOMAIN new[k].subs PROVE AllTight(new[k].subs[j])
  <2>1. CASE k < start
    <3>1. k \in 1 .. start - 1 /\ k \in 1 .. Len(list)
      BY <2>1
    <3> QED  BY <1>1, <1>8, <1>11, <3>1
  <2>2. CASE k = start
    <3>1. DOMAIN <<body>> = {1} /\ <<body>>[1] = body
      OBVIOUS
    <3> QED  BY <1>4, <1>9, <1>11, <2>2, <3>1
  <2>3. CASE k > start
    <3>1. k \in start + 1 .. m /\ k + (at - start) \in 1 .. Len(list)
      BY <2>3
    <3> QED  BY <1>1, <1>8, <1>11, <3>1
  <2> QED  BY <2>1, <2>2, <2>3
<1> QED  BY <1>1, <1>6, <1>10, <1>11, AllTightIs DEF new
-----------------------------------------------------------------------------
(***************************************************************************)
(* The loop, from a list whose nested lists are restructured.  It works    *)
(* from the end: there is a place up to which the list is as it was, and   *)
(* after which every label at its top level is one it skips.  If no label  *)
(* occurs twice and the blocks the labels need do not overlap, a label     *)
(* after that place is one the loop may leave: it is nested in a statement *)
(* of the list, or no goto precedes it.                                    *)
(***************************************************************************)
Once(list) == \A p, q \in DOMAIN list : p # q => LabelsOf(list[p]) \cap LabelsOf(list[q]) = {}
Apart(list) == \A p, q \in Spans(list) : p = q \/ p[2] < q[1] \/ q[2] < p[1]

Kept(list, n) ==
  \E p \in 1 .. Len(list) :
    \/ list[p].kind # "label" /\ n \in LabelsOf(list[p])
    \/ list[p].kind = "label" /\ n = list[p].name /\ FirstGoto(list, p) = 0

Done(nested, list, skip, c) ==
  /\ c <= Len(nested) /\ c <= Len(list)
  /\ \A k \in 1 .. c : list[k] = nested[k]
  /\ \A k \in c + 1 .. Len(list) : list[k].kind = "label" => list[k].name \in skip
  /\ \A n \in skip : \E p \in c + 1 .. Len(nested) : nested[p].kind = "label" /\ nested[p].name = n
  /\ \A k \in c + 1 .. Len(list) : \A n \in LabelsOf(list[k]) : Kept(nested, n)

LoopInv(nested, list, skip) ==
  /\ list \in Seq(Stmt) /\ skip \in SUBSET Name
  /\ Text(list) = Text(nested)
  /\ \A l \in Name : Jumps(list, l) <=> Jumps(nested, l)
  /\ LabelsIn(list) \subseteq LabelsIn(nested)
  /\ AllTight(nested) => AllTight(list)
  /\ Once(nested) /\ Apart(nested) => \E c \in Nat : Done(nested, list, skip, c)

\* The loop starts with the invariant, nothing being done.
LEMMA LoopStarts ==
  ASSUME StmtsAreTrees, NEW nested \in Seq(Stmt)
  PROVE  LoopInv(nested, nested, {})
<1>1. Len(nested) \in Nat /\ Done(nested, nested, {}, Len(nested))
  BY DEF Done
<1> QED  BY <1>1 DEF LoopInv

\* A label not skipped yet lies before that place, where the list is as it was,
\* so it has the same first goto; no label lies between the two.
LEMMA LabelBeforePlace ==
  ASSUME StmtsAreTrees,
         NEW nested \in Seq(Stmt), NEW list \in Seq(Stmt), NEW skip \in SUBSET Name, NEW c \in Nat,
         Once(nested), Done(nested, list, skip, c), NEW at \in 1 .. Len(list),
         at = LabelIdx(list, skip)
  PROVE  /\ at <= c /\ list[at] = nested[at] /\ list[at].kind = "label"
         /\ FirstGoto(list, at) = FirstGoto(nested, at)
         /\ \A k \in at + 1 .. c : nested[k].kind # "label"
<1>1. list[at].kind = "label" /\ list[at].name \notin skip
  BY LabelIdxIs
<1>2. at <= c
  <2> SUFFICES ASSUME ~(at <= c) PROVE FALSE
    OBVIOUS
  <2>1. at \in c + 1 .. Len(list)
    OBVIOUS
  <2> QED  BY <1>1, <2>1 DEF Done
<1>3. /\ c <= Len(nested) /\ c <= Len(list)
      /\ \A k \in 1 .. c : list[k] = nested[k]
  BY DEF Done
<1>4. at \in 1 .. Len(nested) /\ \A k \in 1 .. at : list[k] = nested[k]
  BY <1>2, <1>3
<1>5. FirstGoto(list, at) = FirstGoto(nested, at)
  <2>1. at \in 1 .. at /\ \A k \in 1 .. at - 1 : k \in 1 .. at
    OBVIOUS
  <2> QED  BY <1>4, <2>1, SameFirstGoto
<1>6. ASSUME NEW k \in at + 1 .. c, nested[k].kind = "label" PROVE FALSE
  <2>1. k \in 1 .. c /\ k \in 1 .. Len(list) /\ k \in 1 .. Len(nested) /\ ~(k <= at)
    BY <1>3
  <2>2. list[k] = nested[k]
    BY <1>3, <2>1
  <2>3. nested[k].name \in skip
    BY <1>6, <2>1, <2>2, LabelIdxIs
  <2>4. PICK p \in c + 1 .. Len(nested) : nested[p].kind = "label" /\ nested[p].name = nested[k].name
    BY <2>3 DEF Done
  <2>5. p \in 1 .. Len(nested) /\ p # k /\ nested[p] \in Stmt /\ nested[k] \in Stmt
    BY <2>1
  <2>6. nested[k].name \in LabelsOf(nested[k]) /\ nested[k].name \in LabelsOf(nested[p])
    BY <1>6, <2>4, <2>5, LabelsOfIs
  <2> QED  BY <2>1, <2>5, <2>6 DEF Once
<1> QED  BY <1>1, <1>2, <1>4, <1>5, <1>6

\* What is nested in a statement that is no label is kept.
LEMMA NestedIsKept ==
  ASSUME NEW list \in Seq(Stmt), NEW k \in 1 .. Len(list), list[k].kind # "label",
         NEW n \in LabelsOf(list[k])
  PROVE  Kept(list, n)
BY DEF Kept

\* A label without a goto before it is done when it is skipped.
LEMMA PlaceAfterSkip ==
  ASSUME StmtsAreTrees,
         NEW nested \in Seq(Stmt), NEW list \in Seq(Stmt), NEW skip \in SUBSET Name, NEW c \in Nat,
         Once(nested), Done(nested, list, skip, c), NEW at \in 1 .. Len(list),
         at = LabelIdx(list, skip), FirstGoto(list, at) = 0
  PROVE  Done(nested, list, skip \cup {list[at].name}, at - 1)
<1>1. /\ at <= c /\ list[at] = nested[at] /\ list[at].kind = "label"
      /\ FirstGoto(list, at) = FirstGoto(nested, at)
      /\ \A k \in at + 1 .. c : nested[k].kind # "label"
  BY LabelBeforePlace
<1>2. /\ c <= Len(nested) /\ c <= Len(list)
      /\ \A k \in 1 .. c : list[k] = nested[k]
      /\ \A k \in c + 1 .. Len(list) : list[k].kind = "label" => list[k].name \in skip
      /\ \A n \in skip : \E p \in c + 1 .. Len(nested) : nested[p].kind = "label" /\ nested[p].name = n
      /\ \A k \in c + 1 .. Len(list) : \A n \in LabelsOf(list[k]) : Kept(nested, n)
  BY DEF Done
<1>3. at - 1 <= Len(nested) /\ at - 1 <= Len(list) /\ at \in 1 .. Len(nested)
  BY <1>1, <1>2
<1>4. \A k \in 1 .. at - 1 : list[k] = nested[k]
  BY <1>1, <1>2
<1>5. ASSUME NEW k \in at - 1 + 1 .. Len(list)
      PROVE  k = at \/ (k \in at + 1 .. c /\ k \in 1 .. c /\ k \in 1 .. Len(nested)) \/ k \in c + 1 .. Len(list)
  <2>1. at \in Int /\ k \in Int /\ at <= k /\ k <= Len(list) /\ 1 <= at
    OBVIOUS
  <2>2. c \in Int /\ at <= c /\ c <= Len(nested) /\ Len(nested) \in Int /\ Len(list) \in Int
    BY <1>1, <1>2
  <2> QED  BY ONLY <2>1, <2>2
<1>6. ASSUME NEW k \in at - 1 + 1 .. Len(list), list[k].kind = "label"
      PROVE  list[k].name \in skip \cup {list[at].name}
  BY <1>1, <1>2, <1>5, <1>6
<1>7. ASSUME NEW n \in skip \cup {list[at].name}
      PROVE  \E p \in at - 1 + 1 .. Len(nested) : nested[p].kind = "label" /\ nested[p].name = n
  <2>1. CASE n = list[at].name
    <3>1. at \in at - 1 + 1 .. Len(nested)
      BY <1>3
    <3> QED  BY <1>1, <2>1, <3>1
  <2>2. CASE n \in skip
    <3>1. PICK p \in c + 1 .. Len(nested) : nested[p].kind = "label" /\ nested[p].name = n
      BY <1>2, <2>2
    <3>2. p \in at - 1 + 1 .. Len(nested)
      BY <1>1
    <3> QED  BY <3>1, <3>2
  <2> QED  BY <2>1, <2>2
<1>8. ASSUME NEW k \in at - 1 + 1 .. Len(list), NEW n \in LabelsOf(list[k])
      PROVE  Kept(nested, n)
  <2>1. CASE k = at
    <3>1. list[at] \in Stmt
      OBVIOUS
    <3>2. n = nested[at].name
      BY <1>1, <2>1, <3>1, LabelsOfIs
    <3> QED  BY <1>1, <1>3, <3>2 DEF Kept
  <2>2. CASE k \in at + 1 .. c /\ k \in 1 .. c /\ k \in 1 .. Len(nested)
    <3>1. list[k] = nested[k] /\ nested[k].kind # "label"
      BY <1>1, <1>2, <2>2
    <3> QED  BY <2>2, <3>1, NestedIsKept
  <2>3. CASE k \in c + 1 .. Len(list)
    BY <1>2, <2>3
  <2> QED  BY <1>5, <2>1, <2>2, <2>3
<1> QED  BY <1>3, <1>4, <1>6, <1>7, <1>8 DEF Done

\* What the block of a label takes in is kept, because no other block is needed
\* that overlaps it.
LEMMA BodyIsKept ==
  ASSUME StmtsAreTrees,
         NEW nested \in Seq(Stmt), NEW at \in 1 .. Len(nested), nested[at].kind = "label",
         Apart(nested), NEW start \in 1 .. at - 1, start = FirstGoto(nested, at),
         NEW k \in start .. at - 1, NEW n \in LabelsOf(nested[k])
  PROVE  Kept(nested, n)
<1>1. k \in 1 .. Len(nested) /\ nested[k] \in Stmt
  OBVIOUS
<1>2. CASE nested[k].kind # "label"
  BY <1>1, <1>2, NestedIsKept
<1>3. CASE nested[k].kind = "label"
  <2>1. n = nested[k].name
    BY <1>1, <1>3, LabelsOfIs
  <2>2. FirstGoto(nested, k) = 0
    <3> SUFFICES ASSUME FirstGoto(nested, k) # 0 PROVE FALSE
      OBVIOUS
    <3> DEFINE f == FirstGoto(nested, k)
    <3>1. f \in 0 .. k - 1
      BY <1>1, FirstGotoIs
    <3>2. <<start, at>> \in Spans(nested) /\ <<f, k>> \in Spans(nested)
      <4>1. DOMAIN nested = 1 .. Len(nested)
        OBVIOUS
      <4> QED  BY <1>1, <1>3, <4>1 DEF Spans
    <3> DEFINE p == <<start, at>>
               q == <<f, k>>
    <3>3. p = q \/ p[2] < q[1] \/ q[2] < p[1]
      BY <3>2 DEF Apart
    <3>4. p[1] = start /\ p[2] = at /\ q[1] = f /\ q[2] = k
      OBVIOUS
    <3> HIDE DEF p, q, f
    <3>5. k < at /\ k >= start /\ f < k /\ f \in Int /\ start \in Int /\ at \in Int /\ k \in Int
      BY <3>1
    <3>6. k = at \/ at < f \/ k < start
      BY <3>3, <3>4
    <3> QED  BY <3>5, <3>6
  <2> QED  BY <1>1, <1>3, <2>1, <2>2 DEF Kept
<1> QED  BY <1>2, <1>3

\* A label is done when its block is made.
LEMMA PlaceAfterSplice ==
  ASSUME StmtsAreTrees,
         NEW nested \in Seq(Stmt), NEW list \in Seq(Stmt), NEW skip \in SUBSET Name, NEW c \in Nat,
         Once(nested), Apart(nested), Done(nested, list, skip, c),
         NEW at \in 1 .. Len(list), at = LabelIdx(list, skip),
         NEW start \in 1 .. at - 1, start = FirstGoto(list, at)
  PROVE  Done(nested, Splice(list, start, at), skip, start - 1)
<1> DEFINE new == Splice(list, start, at)
           body == Body(list, start, at)
           m == Len(list) - (at - start)
<1>1. /\ at <= c /\ list[at] = nested[at] /\ list[at].kind = "label"
      /\ FirstGoto(list, at) = FirstGoto(nested, at)
      /\ \A k \in at + 1 .. c : nested[k].kind # "label"
  BY LabelBeforePlace
<1>2. /\ c <= Len(nested) /\ c <= Len(list)
      /\ \A k \in 1 .. c : list[k] = nested[k]
      /\ \A k \in c + 1 .. Len(list) : list[k].kind = "label" => list[k].name \in skip
      /\ \A n \in skip : \E p \in c + 1 .. Len(nested) : nested[p].kind = "label" /\ nested[p].name = n
      /\ \A k \in c + 1 .. Len(list) : \A n \in LabelsOf(list[k]) : Kept(nested, n)
  BY DEF Done
<1>3. Spliced(list, start, at, new, body)
  BY RoundIs
<1>5. list[at].name \in Name
  BY StmtIs
<1> HIDE DEF new, body
<1>4. /\ new \in Seq(Stmt) /\ Len(new) = m
      /\ \A k \in 1 .. start - 1 : new[k] = list[k]
      /\ new[start] = Block(list[at].name, body) /\ new[start].kind = "block"
      /\ \A k \in start + 1 .. m : new[k] = list[k + (at - start)]
  BY <1>3 DEF Spliced
<1>6. /\ body \in Seq(Stmt) /\ Len(body) = at - start
      /\ \A k \in 1 .. at - start : body[k] = list[start + k - 1]
  BY <1>3 DEF Spliced
<1>7. start - 1 <= Len(nested) /\ start - 1 <= Len(new) /\ at \in 1 .. Len(nested)
  <2>1. Len(list) \in Nat /\ Len(nested) \in Nat
    OBVIOUS
  <2>2. start - 1 <= Len(list) - (at - start)
    BY <2>1, Positions
  <2>3. start - 1 <= Len(new)
    BY ONLY <1>4, <2>2
  <2>4. at <= Len(nested)
    BY <1>1, <1>2, <2>1
  <2>5. start - 1 <= Len(nested) /\ at \in 1 .. Len(nested)
    BY <2>1, <2>4
  <2> QED  BY <2>3, <2>5
<1>8. \A k \in 1 .. start - 1 : new[k] = nested[k]
  BY <1>1, <1>2, <1>4
<1>9. ASSUME NEW k \in start - 1 + 1 .. Len(new)
      PROVE  \/ k = start
             \/ \E i \in 1 .. c : i \in 1 .. Len(nested) /\ new[k] = nested[i] /\ nested[i].kind # "label"
             \/ \E i \in c + 1 .. Len(list) : new[k] = list[i]
  <2>1. CASE k > start
    <3>1. k \in start + 1 .. m /\ k + (at - start) \in at + 1 .. Len(list)
      <4>1. k \in start + 1 .. m
        BY <1>4, <2>1
      <4>2. Len(list) \in Nat
        OBVIOUS
      <4> QED  BY <4>1, <4>2, Positions
    <3> DEFINE i == k + (at - start)
    <3>2. new[k] = list[i] /\ i \in at + 1 .. Len(list)
      BY <1>4, <3>1
    <3> HIDE DEF i
    <3>3. CASE i <= c
      <4>1. i \in at + 1 .. c /\ i \in 1 .. c /\ i \in 1 .. Len(nested)
        BY <1>2, <3>2, <3>3
      <4> QED  BY <1>1, <1>2, <3>2, <4>1
    <3>4. CASE i > c
      <4>1. i \in c + 1 .. Len(list)
        BY <3>2, <3>4
      <4> QED  BY <3>2, <4>1
    <3> QED  BY <3>2, <3>3, <3>4
  <2> QED  BY <2>1
<1>10. ASSUME NEW k \in start - 1 + 1 .. Len(new), new[k].kind = "label"
       PROVE  new[k].name \in skip
  <2>1. k # start
    BY <1>4, <1>10
  <2>2. PICK i \in c + 1 .. Len(list) : new[k] = list[i]
    BY <1>9, <1>10, <2>1
  <2> QED  BY <1>2, <1>10, <2>2
<1>11. ASSUME NEW n \in skip
       PROVE  \E p \in start - 1 + 1 .. Len(nested) : nested[p].kind = "label" /\ nested[p].name = n
  <2>1. PICK p \in c + 1 .. Len(nested) : nested[p].kind = "label" /\ nested[p].name = n
    BY <1>2
  <2>2. p \in start - 1 + 1 .. Len(nested)
    BY <1>1
  <2> QED  BY <2>1, <2>2
<1>12. ASSUME NEW k \in start - 1 + 1 .. Len(new), NEW n \in LabelsOf(new[k])
       PROVE  Kept(nested, n)
  <2>1. CASE k = start
    <3>1. n \in LabelsIn(body)
      BY <1>4, <1>6, <1>5, <1>12, <2>1, LabelsOfBlock
    <3>2. DOMAIN body = 1 .. at - start
      BY <1>6
    <3>3. PICK i \in 1 .. at - start : n \in LabelsOf(body[i])
      BY <1>6, <3>1, <3>2, LabelsInIs
    <3>4. start + i - 1 \in start .. at - 1 /\ start + i - 1 \in 1 .. c
      <4>1. start + i - 1 \in start .. at - 1
        <5>1. i \in Int /\ at \in Int /\ start \in Int /\ 1 <= i /\ i <= at - start
          OBVIOUS
        <5> QED  BY ONLY <5>1
      <4>2. at - 1 < c /\ 1 <= start /\ at \in Int /\ start \in Int /\ c \in Int
        BY <1>1
      <4> QED  BY ONLY <4>1, <4>2
    <3>5. body[i] = nested[start + i - 1]
      BY <1>2, <1>6, <3>4
    <3>6. n \in LabelsOf(nested[start + i - 1])
      BY <3>3, <3>5
    <3> QED  BY <1>1, <1>7, <3>4, <3>6, BodyIsKept
  <2>2. CASE \E i \in 1 .. c : i \in 1 .. Len(nested) /\ new[k] = nested[i] /\ nested[i].kind # "label"
    BY <1>12, <2>2, NestedIsKept
  <2>3. CASE \E i \in c + 1 .. Len(list) : new[k] = list[i]
    BY <1>2, <1>12, <2>3
  <2> QED  BY <1>9, <2>1, <2>2, <2>3
<1>13. Done(nested, new, skip, start - 1)
  BY <1>7, <1>8, <1>10, <1>11, <1>12 DEF Done
<1> QED  BY <1>13 DEF new

\* The two rounds keep the invariant of the loop, and each works nearer the
\* front of the list than the one before it.
LEMMA SkipKeepsLoopInv ==
  ASSUME StmtsAreTrees,
         NEW nested \in Seq(Stmt), NEW list, NEW skip, LoopInv(nested, list, skip),
         NEW at, at = LabelIdx(list, skip), at # 0, FirstGoto(list, at) = 0
  PROVE  /\ LoopInv(nested, list, skip \cup {list[at].name})
         /\ LabelIdx(list, skip \cup {list[at].name}) < at
<1>1. list \in Seq(Stmt) /\ skip \in SUBSET Name
  BY DEF LoopInv
<1>2. at \in 1 .. Len(list) /\ list[at].kind = "label" /\ list[at].name \in Name
  <2>1. at \in 1 .. Len(list) /\ list[at].kind = "label"
    BY <1>1, LabelIdxIs
  <2> QED  BY <1>1, <2>1, StmtIs
<1> DEFINE more == skip \cup {list[at].name}
<1>3. more \in SUBSET Name
  BY <1>1, <1>2
<1>4. Once(nested) /\ Apart(nested) => \E c \in Nat : Done(nested, list, more, c)
  <2> SUFFICES ASSUME Once(nested), Apart(nested) PROVE \E c \in Nat : Done(nested, list, more, c)
    OBVIOUS
  <2>1. PICK c \in Nat : Done(nested, list, skip, c)
    BY DEF LoopInv
  <2>2. Done(nested, list, more, at - 1)
    BY <1>1, <1>2, <2>1, PlaceAfterSkip
  <2>3. at - 1 \in Nat
    BY <1>2
  <2> QED  BY <2>2, <2>3
<1>5. LabelIdx(list, more) < at
  <2> DEFINE next == LabelIdx(list, more)
  <2>1. /\ next \in 0 .. Len(list)
        /\ next # 0 => list[next].kind = "label" /\ list[next].name \notin more
    BY <1>1, LabelIdxIs
  <2>2. next # 0 => next # at /\ next <= at
    <3>1. \A k \in 1 .. Len(list) : list[k].kind = "label" /\ list[k].name \notin skip => k <= at
      BY <1>1, LabelIdxIs
    <3> QED  BY <2>1, <3>1
  <2> HIDE DEF next
  <2>3. next < at
    BY <1>2, <2>1, <2>2
  <2> QED  BY <2>3 DEF next
<1> HIDE DEF more
<1>6. LoopInv(nested, list, more)
  BY <1>3, <1>4 DEF LoopInv
<1> QED  BY <1>5, <1>6 DEF more

\* A splice keeps the invariant of the loop and moves on to an earlier label.
LEMMA SpliceKeepsLoopInv ==
  ASSUME StmtsAreTrees,
         NEW nested \in Seq(Stmt), NEW list, NEW skip, LoopInv(nested, list, skip),
         NEW at, at = LabelIdx(list, skip), at # 0,
         NEW start, start = FirstGoto(list, at), start # 0
  PROVE  /\ LoopInv(nested, Splice(list, start, at), skip)
         /\ LabelIdx(Splice(list, start, at), skip) < at
<1>1. list \in Seq(Stmt) /\ skip \in SUBSET Name
  BY DEF LoopInv
<1>2. at \in 1 .. Len(list) /\ list[at].kind = "label" /\ list[at].name \in Name
  <2>1. at \in 1 .. Len(list) /\ list[at].kind = "label"
    BY <1>1, LabelIdxIs
  <2> QED  BY <1>1, <2>1, StmtIs
<1>3. start \in 1 .. at - 1
  <2>1. start \in 0 .. at - 1
    BY <1>1, <1>2, FirstGotoIs
  <2> QED  BY <2>1
<1> DEFINE new == Splice(list, start, at)
           m == Len(list) - (at - start)
<1>4. /\ new \in Seq(Stmt) /\ Len(new) = m
      /\ new[start].kind = "block"
      /\ \A k \in start + 1 .. m : new[k] = list[k + (at - start)]
  <2>1. Spliced(list, start, at, new, Body(list, start, at))
    BY <1>1, <1>2, <1>3, RoundIs
  <2> QED  BY <2>1 DEF Spliced
<1>6. Text(new) = Text(nested)
  BY <1>1, <1>2, <1>3, SpliceKeepsText DEF LoopInv
<1>7. \A l \in Name : Jumps(new, l) <=> Jumps(nested, l)
  BY <1>1, <1>2, <1>3, SpliceKeepsJumps DEF LoopInv
<1>8. LabelsIn(new) \subseteq LabelsIn(nested)
  <2>1. LabelsIn(new) \subseteq LabelsIn(list)
    BY <1>1, <1>2, <1>3, SpliceAddsNoLabels
  <2> QED  BY <2>1 DEF LoopInv
<1>9. AllTight(nested) => AllTight(new)
  <2>1. AllTight(list) => AllTight(new)
    BY <1>1, <1>2, <1>3, SpliceIsTight
  <2> QED  BY <2>1 DEF LoopInv
<1>10. Once(nested) /\ Apart(nested) => \E c \in Nat : Done(nested, new, skip, c)
  <2> SUFFICES ASSUME Once(nested), Apart(nested) PROVE \E c \in Nat : Done(nested, new, skip, c)
    OBVIOUS
  <2>1. PICK c \in Nat : Done(nested, list, skip, c)
    BY DEF LoopInv
  <2>2. Done(nested, new, skip, start - 1)
    BY <1>1, <1>2, <1>3, <2>1, PlaceAfterSplice
  <2>3. start - 1 \in Nat
    BY <1>3
  <2> QED  BY <2>2, <2>3
<1> HIDE DEF new
<1>5. /\ Len(list) \in Nat /\ at \in Int /\ start \in Int /\ 1 <= start /\ start < at /\ at <= Len(list)
      /\ m \in Int /\ m = Len(list) - (at - start)
  BY <1>1, <1>2, <1>3
<1>11. LabelIdx(new, skip) < at
  <2> DEFINE next == LabelIdx(new, skip)
  <2>1. /\ next \in 0 .. m
        /\ next # 0 => new[next].kind = "label" /\ new[next].name \notin skip
    BY <1>4, LabelIdxIs
  <2>2. \A k \in 1 .. Len(list) : list[k].kind = "label" /\ list[k].name \notin skip => k <= at
    BY <1>1, LabelIdxIs
  <2> HIDE DEF next
  <2>3. ASSUME next > start PROVE FALSE
    <3>1. next \in start + 1 .. m /\ next # 0 /\ next + (at - start) \in 1 .. Len(list) /\ next + (at - start) > at
      <4>1. next \in start + 1 .. m /\ next # 0
        BY <1>5, <2>1, <2>3
      <4>2. \A k \in start + 1 .. m : k + (at - start) \in at + 1 .. Len(list)
        BY <1>2, <1>3, <1>5, Positions
      <4>3. next + (at - start) \in at + 1 .. Len(list)
        BY <4>1, <4>2
      <4>4. 0 < at /\ at \in Int /\ Len(list) \in Int
        BY <1>5
      <4> HIDE DEF m
      <4> QED  BY ONLY <4>1, <4>3, <4>4
    <3>2. new[next] = list[next + (at - start)]
      BY <1>4, <3>1
    <3> DEFINE i == next + (at - start)
    <3>3. i \in 1 .. Len(list) /\ ~(i <= at) /\ new[next] = list[i]
      BY <1>5, <3>1, <3>2
    <3> HIDE DEF i
    <3> QED  BY <2>1, <2>2, <3>1, <3>3
  <2>4. next <= start
    BY <1>5, <2>1, <2>3
  <2>5. next < at
    BY <1>5, <2>1, <2>4
  <2> QED  BY <2>5 DEF next
<1>12. LoopInv(nested, new, skip)
  BY <1>1, <1>4, <1>6, <1>7, <1>8, <1>9, <1>10 DEF LoopInv
<1> QED  BY <1>11, <1>12 DEF new

\* What the loop leaves: when it finds no label, those left are ones it may leave.
Left(nested, list) ==
  /\ list \in Seq(Stmt)
  /\ Text(list) = Text(nested)
  /\ \A l \in Name : Jumps(list, l) <=> Jumps(nested, l)
  /\ LabelsIn(list) \subseteq LabelsIn(nested)
  /\ AllTight(nested) => AllTight(list)
  /\ Once(nested) /\ Apart(nested) => \A n \in LabelsIn(list) : Kept(nested, n)

\* When no label is left to look at, what is left is what the loop promises.
LEMMA LoopEnds ==
  ASSUME StmtsAreTrees,
         NEW nested \in Seq(Stmt), NEW list, NEW skip, LoopInv(nested, list, skip),
         LabelIdx(list, skip) = 0
  PROVE  Left(nested, list)
<1>1. list \in Seq(Stmt) /\ skip \in SUBSET Name
  BY DEF LoopInv
<1>2. \A k \in 1 .. Len(list) : list[k].kind = "label" => list[k].name \in skip
  BY <1>1, LabelIdxIs
<1>3. ASSUME Once(nested), Apart(nested), NEW n \in LabelsIn(list) PROVE Kept(nested, n)
  <2>1. PICK c \in Nat : Done(nested, list, skip, c)
    BY <1>3 DEF LoopInv
  <2>2. PICK k \in 1 .. Len(list) : n \in LabelsOf(list[k])
    <3>1. DOMAIN list = 1 .. Len(list)
      BY <1>1
    <3> QED  BY <1>1, <1>3, <3>1, LabelsInIs
  <2>3. CASE k > c
    <3>1. k \in c + 1 .. Len(list)
      BY <2>3
    <3> QED  BY <2>1, <2>2, <3>1 DEF Done
  <2>4. CASE k <= c
    <3>1. k \in 1 .. c /\ k \in 1 .. Len(nested) /\ list[k] = nested[k]
      BY <2>1, <2>4 DEF Done
    <3>2. nested[k].kind # "label"
      <4> SUFFICES ASSUME nested[k].kind = "label" PROVE FALSE
        OBVIOUS
      <4>1. nested[k].name \in skip
        BY <1>2, <3>1
      <4>2. PICK p \in c + 1 .. Len(nested) : nested[p].kind = "label" /\ nested[p].name = nested[k].name
        BY <2>1, <4>1 DEF Done
      <4>3. p \in 1 .. Len(nested) /\ p # k /\ nested[p] \in Stmt /\ nested[k] \in Stmt
        BY <3>1
      <4>4. nested[k].name \in LabelsOf(nested[k]) /\ nested[k].name \in LabelsOf(nested[p])
        BY <4>2, <4>3, LabelsOfIs
      <4> QED  BY <1>3, <3>1, <4>3, <4>4 DEF Once
    <3> QED  BY <2>2, <3>1, <3>2, NestedIsKept
  <2> QED  BY <2>3, <2>4
<1> QED  BY <1>3 DEF LoopInv, Left

\* So whatever the loop starts from, it leaves what it may leave.
LEMMA LoopLeaves ==
  ASSUME StmtsAreTrees, NEW nested \in Seq(Stmt)
  PROVE  \A list, skip : LoopInv(nested, list, skip) => Left(nested, Rounds(list, skip))
<1> DEFINE T == {n \in Nat : \A list, skip :
                  LoopInv(nested, list, skip) /\ LabelIdx(list, skip) = n => Left(nested, Rounds(list, skip))}
<1>1. ASSUME NEW n \in Nat, \A i \in Nat : i < n => i \in T
      PROVE  n \in T
  <2> SUFFICES ASSUME NEW list, NEW skip, LoopInv(nested, list, skip), LabelIdx(list, skip) = n
               PROVE  Left(nested, Rounds(list, skip))
    OBVIOUS
  <2> DEFINE start == FirstGoto(list, n)
  <2>1. list \in Seq(Stmt) /\ skip \in SUBSET Name
    BY DEF LoopInv
  <2>2. Rounds(list, skip) =
          IF n = 0 THEN list
          ELSE IF start = 0 THEN Rounds(list, skip \cup {list[n].name})
          ELSE Rounds(Splice(list, start, n), skip)
    BY <2>1 DEF StmtsAreTrees, Equations, RoundsLaw
  <2> HIDE DEF start
  <2>3. CASE n = 0
    BY <2>2, <2>3, LoopEnds
  <2>4. CASE n # 0 /\ start = 0
    <3> DEFINE more == skip \cup {list[n].name}
    <3>1. LoopInv(nested, list, more) /\ LabelIdx(list, more) < n
      BY <2>4, SkipKeepsLoopInv DEF start
    <3>2. LabelIdx(list, more) \in Nat
      BY <2>1, LabelIdxIs
    <3>3. LabelIdx(list, more) \in T
      BY <1>1, <3>1, <3>2
    <3> QED  BY <2>2, <2>4, <3>1, <3>3
  <2>5. CASE n # 0 /\ start # 0
    <3> DEFINE new == Splice(list, start, n)
    <3>1. LoopInv(nested, new, skip) /\ LabelIdx(new, skip) < n
      BY <2>5, SpliceKeepsLoopInv DEF start
    <3>2. LabelIdx(new, skip) \in Nat
      <4>1. new \in Seq(Stmt)
        BY <3>1 DEF LoopInv
      <4> QED  BY <4>1, LabelIdxIs
    <3>3. LabelIdx(new, skip) \in T
      BY <1>1, <3>1, <3>2
    <3> QED  BY <2>2, <2>5, <3>1, <3>3
  <2> QED  BY <2>3, <2>4, <2>5
<1>2. Nat \subseteq T
  <2> HIDE DEF T
  <2> QED  BY <1>1, EveryNumberAtOnce
<1> SUFFICES ASSUME NEW list, NEW skip, LoopInv(nested, list, skip)
             PROVE  Left(nested, Rounds(list, skip))
  OBVIOUS
<1>3. LabelIdx(list, skip) \in T
  <2>1. list \in Seq(Stmt)
    BY DEF LoopInv
  <2>2. LabelIdx(list, skip) \in 0 .. Len(list)
    BY <2>1, LabelIdxIs
  <2> QED  BY <1>2, <2>1, <2>2
<1> QED  BY <1>3
-----------------------------------------------------------------------------
(***************************************************************************)
(* The whole pass on a list: the nested lists, then the loop               *)
(***************************************************************************)
Results(list, new) ==
  /\ new \in Seq(Stmt)
  /\ Text(new) = Text(list)
  /\ \A l \in Name : Jumps(new, l) <=> Jumps(list, l)
  /\ LabelsIn(new) \subseteq LabelsIn(list)
  /\ NoBlocks(list) => AllTight(new)
  /\ LabelsOnce(list) /\ SpansApart(list) => LabelsIn(new) \cap ForwardIn(list) = {}

Good(list) == Results(list, RestructuredList(list))
NestedAreGood(list) == \A k \in DOMAIN list : \A j \in DOMAIN list[k].subs : Good(list[k].subs[j])

\* A statement whose nested lists are restructured differs only in those.
LEMMA RestructuredIs ==
  ASSUME StmtsAreTrees, NEW s \in Stmt, \A j \in DOMAIN s.subs : Good(s.subs[j])
  PROVE  /\ Restructured(s) \in Stmt
         /\ Restructured(s).kind = s.kind /\ Restructured(s).name = s.name
         /\ DOMAIN Restructured(s).subs = DOMAIN s.subs
         /\ \A j \in DOMAIN s.subs : Restructured(s).subs[j] = RestructuredList(s.subs[j])
         /\ (Restructured(s).subs = << >>) <=> (s.subs = << >>)
<1> DEFINE new == [j \in DOMAIN s.subs |-> RestructuredList(s.subs[j])]
<1>1. s \in [kind : Kinds, name : Name, subs : Seq(Seq(Stmt))] /\ s.subs \in Seq(Seq(Stmt))
  BY StmtIs
<1>2. DOMAIN s.subs = 1 .. Len(s.subs) /\ Len(s.subs) \in Nat
  BY <1>1
<1>3. \A j \in DOMAIN s.subs : RestructuredList(s.subs[j]) \in Seq(Stmt)
  BY DEF Good, Results
<1>4. new \in Seq(Seq(Stmt)) /\ Len(new) = Len(s.subs)
  BY <1>2, <1>3
<1>5. Restructured(s) = [s EXCEPT !.subs = new]
  BY DEF StmtsAreTrees, Equations, RestructuredLaw
<1>6. Restructured(s) \in Stmt
  BY <1>4, <1>5 DEF StmtsAreTrees, StmtsAreRecords
<1>7. /\ Restructured(s).kind = s.kind /\ Restructured(s).name = s.name
      /\ Restructured(s).subs = new
  <2> HIDE DEF new
  <2> QED  BY <1>1, <1>5
<1>8. (new = << >>) <=> (s.subs = << >>)
  <2>1. \A t \in Seq(Seq(Stmt)) : t = << >> <=> Len(t) = 0
    BY EmptySeq
  <2> HIDE DEF new
  <2> QED  BY <1>1, <1>4, <2>1
<1> QED  BY <1>6, <1>7, <1>8

\* It has the same text, the same gotos and no labels of its own.
LEMMA RestructuredKeeps ==
  ASSUME StmtsAreTrees, NEW s \in Stmt, \A j \in DOMAIN s.subs : Good(s.subs[j])
  PROVE  /\ Written(Restructured(s)) = Written(s)
         /\ \A l \in Name : HasGoto(Restructured(s), l) <=> HasGoto(s, l)
         /\ \A n \in LabelsOf(Restructured(s)) : n \in LabelsOf(s)
<1> DEFINE r == Restructured(s)
<1>1. /\ r \in Stmt /\ r.kind = s.kind /\ r.name = s.name /\ DOMAIN r.subs = DOMAIN s.subs
      /\ \A j \in DOMAIN s.subs : r.subs[j] = RestructuredList(s.subs[j])
      /\ (r.subs = << >>) <=> (s.subs = << >>)
  BY RestructuredIs
<1> HIDE DEF r
<1>2. \A j \in DOMAIN s.subs : /\ Text(r.subs[j]) = Text(s.subs[j])
                               /\ \A l \in Name : Jumps(r.subs[j], l) <=> Jumps(s.subs[j], l)
                               /\ LabelsIn(r.subs[j]) \subseteq LabelsIn(s.subs[j])
  BY <1>1 DEF Good, Results
<1>3. EachText(r.subs) = EachText(s.subs)
  BY <1>1, <1>2 DEF EachText
<1>4. Opening(r) = Opening(s) /\ Closing(r) = Closing(s)
  BY <1>1 DEF Opening, Closing
<1>5. Written(r) = Written(s)
  BY <1>1, <1>3, <1>4, WrittenIs
<1>6. ASSUME NEW l \in Name PROVE HasGoto(r, l) <=> HasGoto(s, l)
  <2>1. (\E j \in DOMAIN r.subs : Jumps(r.subs[j], l)) <=> \E j \in DOMAIN s.subs : Jumps(s.subs[j], l)
    BY <1>1, <1>2
  <2> QED  BY <1>1, <2>1, HasGotoIs
<1>7. ASSUME NEW n \in LabelsOf(r) PROVE n \in LabelsOf(s)
  <2>1. CASE s.kind = "label"
    BY <1>1, <1>7, <2>1, LabelsOfIs
  <2>2. CASE s.kind # "label"
    <3>1. PICK j \in DOMAIN r.subs : n \in LabelsIn(r.subs[j])
      BY <1>1, <1>7, <2>2, LabelsOfIs
    <3>2. j \in DOMAIN s.subs /\ n \in LabelsIn(s.subs[j])
      BY <1>1, <1>2, <3>1
    <3> QED  BY <2>2, <3>2, LabelsOfIs
  <2> QED  BY <2>1, <2>2
<1> QED  BY <1>5, <1>6, <1>7 DEF r

\* So it is with a list of such statements.
Prepared(list, nested) ==
  /\ nested \in Seq(Stmt) /\ Len(nested) = Len(list)
  /\ \A k \in 1 .. Len(list) :
       /\ nested[k] \in Stmt /\ nested[k].kind = list[k].kind /\ nested[k].name = list[k].name
       /\ DOMAIN nested[k].subs = DOMAIN list[k].subs
       /\ \A j \in DOMAIN list[k].subs : nested[k].subs[j] = RestructuredList(list[k].subs[j])
       /\ Written(nested[k]) = Written(list[k])
       /\ \A l \in Name : HasGoto(nested[k], l) <=> HasGoto(list[k], l)
       /\ \A n \in LabelsOf(nested[k]) : n \in LabelsOf(list[k])

\* If the nested lists are restructured well, the list is prepared for the loop.
LEMMA EachIsPrepared ==
  ASSUME StmtsAreTrees, NEW list \in Seq(Stmt), NestedAreGood(list)
  PROVE  Prepared(list, EachRestructured(list))
<1> DEFINE nested == EachRestructured(list)
<1>1. DOMAIN list = 1 .. Len(list) /\ Len(list) \in Nat /\ \A k \in 1 .. Len(list) : list[k] \in Stmt
  OBVIOUS
<1>2. \A k \in 1 .. Len(list) : nested[k] = Restructured(list[k])
  BY <1>1 DEF EachRestructured
<1>3. \A k \in 1 .. Len(list) : \A j \in DOMAIN list[k].subs : Good(list[k].subs[j])
  BY <1>1 DEF NestedAreGood
<1>4. \A k \in 1 .. Len(list) : Restructured(list[k]) \in Stmt
  BY <1>1, <1>3, RestructuredIs
<1>5. nested \in Seq(Stmt) /\ Len(nested) = Len(list)
  BY <1>1, <1>4 DEF EachRestructured
<1> HIDE DEF nested
<1>6. ASSUME NEW k \in 1 .. Len(list)
      PROVE  /\ nested[k] \in Stmt /\ nested[k].kind = list[k].kind /\ nested[k].name = list[k].name
             /\ DOMAIN nested[k].subs = DOMAIN list[k].subs
             /\ \A j \in DOMAIN list[k].subs : nested[k].subs[j] = RestructuredList(list[k].subs[j])
             /\ Written(nested[k]) = Written(list[k])
             /\ \A l \in Name : HasGoto(nested[k], l) <=> HasGoto(list[k], l)
             /\ \A n \in LabelsOf(nested[k]) : n \in LabelsOf(list[k])
  BY <1>1, <1>2, <1>3, RestructuredIs, RestructuredKeeps
<1>7. Prepared(list, nested)
  BY <1>5, <1>6 DEF Prepared
<1> QED  BY <1>7 DEF nested

\* The lists nested in a statement of a list are among its lists.
LEMMA Inherited ==
  ASSUME StmtsAreTrees, NEW list \in Seq(Stmt),
         NEW k \in 1 .. Len(list), NEW j \in DOMAIN list[k].subs
  PROVE  /\ list \in ListsOf(list)
         /\ list[k].subs[j] \in Seq(Stmt)
         /\ ListsOf(list[k].subs[j]) \subseteq ListsOf(list)
         /\ NoBlocks(list) => NoBlocks(list[k].subs[j])
         /\ LabelsOnce(list) => LabelsOnce(list[k].subs[j])
         /\ SpansApart(list) => SpansApart(list[k].subs[j])
<1>1. k \in DOMAIN list /\ list[k] \in Stmt
  OBVIOUS
<1>2. ListsOf(list[k].subs[j]) \subseteq ListsOf(list)
  BY <1>1, ListsOfIs
<1>3. list \in ListsOf(list)
  BY ListsOfIs
<1>4. list[k].subs[j] \in Seq(Stmt)
  BY <1>1, StmtIs
<1>5. NoBlocks(list) => NoBlocks(list[k].subs[j])
  BY <1>2 DEF NoBlocks
<1>6. LabelsOnce(list) => LabelsOnce(list[k].subs[j])
  BY <1>2 DEF LabelsOnce
<1>7. SpansApart(list) => SpansApart(list[k].subs[j])
  BY <1>2 DEF SpansApart
<1> QED  BY <1>2, <1>3, <1>4, <1>5, <1>6, <1>7

\* Labels that occur once in a body do so in a list and in those nested in it.
LEMMA OnceIs ==
  ASSUME NEW list \in Seq(Stmt), LabelsOnce(list)
  PROVE  /\ Once(list)
         /\ \A p \in 1 .. Len(list) : \A i, j \in DOMAIN list[p].subs :
              i # j => LabelsIn(list[p].subs[i]) \cap LabelsIn(list[p].subs[j]) = {}
<1>1. list \in ListsOf(list) /\ DOMAIN list = 1 .. Len(list)
  BY DEF ListsOf
<1> QED  BY <1>1 DEF LabelsOnce, Once

\* Spans that are apart in a body are so in its own list.
LEMMA ApartIs ==
  ASSUME NEW list, SpansApart(list)
  PROVE  Apart(list)
<1>1. list \in ListsOf(list)
  BY DEF ListsOf
<1> QED  BY <1>1 DEF SpansApart, Apart

\* A prepared list has the text, the gotos and the spans of the list it was made of.
LEMMA PreparedKeeps ==
  ASSUME StmtsAreTrees, NEW list \in Seq(Stmt), NEW nested, Prepared(list, nested),
         NestedAreGood(list)
  PROVE  /\ Text(nested) = Text(list)
         /\ \A l \in Name : Jumps(nested, l) <=> Jumps(list, l)
         /\ LabelsIn(nested) \subseteq LabelsIn(list)
         /\ NoBlocks(list) => AllTight(nested)
         /\ \A k \in 1 .. Len(list) : FirstGoto(nested, k) = FirstGoto(list, k)
         /\ LabelsOnce(list) => Once(nested)
         /\ SpansApart(list) => Apart(nested)
<1>1. /\ nested \in Seq(Stmt) /\ Len(nested) = Len(list)
      /\ DOMAIN nested = 1 .. Len(list) /\ DOMAIN list = 1 .. Len(list)
      /\ \A k \in 1 .. Len(list) : list[k] \in Stmt /\ list[k].name \in Name
  <2>1. nested \in Seq(Stmt) /\ Len(nested) = Len(list)
    BY DEF Prepared
  <2> QED  BY <2>1, StmtIs
<1>2. \A k \in 1 .. Len(list) :
        /\ nested[k] \in Stmt /\ nested[k].kind = list[k].kind /\ nested[k].name = list[k].name
        /\ DOMAIN nested[k].subs = DOMAIN list[k].subs
        /\ \A j \in DOMAIN list[k].subs : nested[k].subs[j] = RestructuredList(list[k].subs[j])
        /\ Written(nested[k]) = Written(list[k])
        /\ \A l \in Name : HasGoto(nested[k], l) <=> HasGoto(list[k], l)
        /\ \A n \in LabelsOf(nested[k]) : n \in LabelsOf(list[k])
  BY DEF Prepared
<1>3. Text(nested) = Text(list)
  <2>1. EachWritten(nested) = EachWritten(list)
    BY <1>1, <1>2 DEF EachWritten
  <2> QED  BY <2>1, TextIs
<1>4. ASSUME NEW l \in Name PROVE Jumps(nested, l) <=> Jumps(list, l)
  BY <1>1, <1>2 DEF Jumps
<1>5. LabelsIn(nested) \subseteq LabelsIn(list)
  BY <1>1, <1>2, LabelsInIs
<1>6. ASSUME NoBlocks(list) PROVE AllTight(nested)
  <2>1. \A k \in 1 .. Len(list) : list[k].kind # "block"
    <3>1. list \in ListsOf(list)
      BY DEF ListsOf
    <3> QED  BY <1>1, <1>6, <3>1 DEF NoBlocks
  <2>2. Tight(nested)
    BY <1>1, <1>2, <2>1 DEF Tight
  <2>3. ASSUME NEW k \in 1 .. Len(list), NEW j \in DOMAIN list[k].subs
        PROVE  AllTight(nested[k].subs[j])
    <3>1. NoBlocks(list[k].subs[j])
      BY <1>6, Inherited
    <3>2. Good(list[k].subs[j])
      BY <1>1 DEF NestedAreGood
    <3> QED  BY <1>2, <3>1, <3>2 DEF Good, Results
  <2> QED  BY <1>1, <1>2, <2>2, <2>3, AllTightIs
<1>7. ASSUME NEW k \in 1 .. Len(list) PROVE FirstGoto(nested, k) = FirstGoto(list, k)
  <2>1. /\ k \in 1 .. Len(nested) /\ nested[k].name = list[k].name
        /\ \A i \in 1 .. k - 1 : HasGoto(nested[i], nested[k].name) <=> HasGoto(list[i], list[k].name)
    BY <1>1, <1>2
  <2> QED  BY <1>1, <2>1, SameFirstGoto
<1>8. ASSUME LabelsOnce(list) PROVE Once(nested)
  <2>1. Once(list)
    BY <1>8, OnceIs
  <2> QED  BY <1>1, <1>2, <2>1 DEF Once
<1>9. ASSUME SpansApart(list) PROVE Apart(nested)
  <2>1. Apart(list)
    BY <1>9, ApartIs
  <2>2. Spans(nested) = Spans(list)
    <3>1. \A k \in 1 .. Len(list) : nested[k].kind = list[k].kind /\ FirstGoto(nested, k) = FirstGoto(list, k)
      BY <1>2, <1>7
    <3>2. {k \in DOMAIN nested : nested[k].kind = "label" /\ FirstGoto(nested, k) # 0}
            = {k \in DOMAIN list : list[k].kind = "label" /\ FirstGoto(list, k) # 0}
      BY <1>1, <3>1
    <3> QED  BY <1>1, <3>1, <3>2 DEF Spans
  <2> QED  BY <2>1, <2>2 DEF Apart
<1> QED  BY <1>3, <1>4, <1>5, <1>6, <1>7, <1>8, <1>9

\* A label that a goto precedes is there once, and is none the loop may leave.
LEMMA ForwardIsNotLeft ==
  ASSUME StmtsAreTrees, NEW list \in Seq(Stmt), NEW nested, Prepared(list, nested),
         NestedAreGood(list), LabelsOnce(list), SpansApart(list),
         NEW n \in ForwardIn(list)
  PROVE  ~Kept(nested, n)
<1>1. /\ nested \in Seq(Stmt) /\ Len(nested) = Len(list) /\ DOMAIN list = 1 .. Len(list)
      /\ \A k \in 1 .. Len(list) : list[k] \in Stmt
      /\ \A k \in 1 .. Len(list) :
           /\ nested[k] \in Stmt /\ nested[k].kind = list[k].kind /\ nested[k].name = list[k].name
           /\ DOMAIN nested[k].subs = DOMAIN list[k].subs
           /\ \A j \in DOMAIN list[k].subs : nested[k].subs[j] = RestructuredList(list[k].subs[j])
           /\ \A m \in LabelsOf(nested[k]) : m \in LabelsOf(list[k])
  <2>1. DOMAIN list = 1 .. Len(list) /\ \A k \in 1 .. Len(list) : list[k] \in Stmt
    OBVIOUS
  <2> QED  BY <2>1 DEF Prepared
<1>2. \A k \in 1 .. Len(list) : FirstGoto(nested, k) = FirstGoto(list, k)
  BY PreparedKeeps
<1>3. /\ Once(list)
      /\ \A p \in 1 .. Len(list) : \A i, j \in DOMAIN list[p].subs :
           i # j => LabelsIn(list[p].subs[i]) \cap LabelsIn(list[p].subs[j]) = {}
  BY OnceIs
<1>4. PICK l \in ListsOf(list) : \E sp \in Spans(l) : n = l[sp[2]].name
  BY DEF ForwardIn
<1>5. PICK at \in DOMAIN l : l[at].kind = "label" /\ FirstGoto(l, at) # 0 /\ n = l[at].name
  BY <1>4 DEF Spans
<1> SUFFICES ASSUME Kept(nested, n) PROVE FALSE
  OBVIOUS
<1>6. PICK p \in 1 .. Len(list) :
        \/ list[p].kind # "label" /\ n \in LabelsOf(nested[p])
        \/ list[p].kind = "label" /\ n = list[p].name /\ FirstGoto(list, p) = 0
  BY <1>1, <1>2 DEF Kept
<1>7. n \in LabelsOf(list[p])
  BY <1>1, <1>6, LabelsOfIs
<1>8. CASE l = list
  <2>1. at \in 1 .. Len(list) /\ n \in LabelsOf(list[at])
    BY <1>1, <1>5, <1>8, LabelsOfIs
  <2>2. p = at
    BY <1>1, <1>3, <1>7, <2>1 DEF Once
  <2> QED  BY <1>5, <1>6, <1>8, <2>2
<1>9. CASE l # list
  <2>0. PICK k \in 1 .. Len(list) : \E j \in DOMAIN list[k].subs : l \in ListsOf(list[k].subs[j])
    BY <1>1, <1>4, <1>9, ListsOfIs
  <2>1. PICK j \in DOMAIN list[k].subs : l \in ListsOf(list[k].subs[j])
    BY <2>0
  <2> DEFINE sub == list[k].subs[j]
  <2>2. n \in LabelsIn(sub)
    <3>1. n \in LabelsAmong(l)
      BY <1>5 DEF LabelsAmong
    <3> QED  BY <2>1, <3>1 DEF LabelsIn
  <2>3. list[k].kind # "label" /\ n \in LabelsOf(list[k])
    <3>1. list[k].kind # "label"
      BY <1>1, <2>1, StmtIs
    <3> QED  BY <1>1, <2>1, <2>2, <3>1, LabelsOfIs
  <2>4. p = k
    BY <1>1, <1>3, <1>7, <2>3 DEF Once
  <2>5. n \in LabelsOf(nested[k])
    BY <1>6, <2>3, <2>4
  <2>6. PICK i \in DOMAIN list[k].subs : n \in LabelsIn(nested[k].subs[i])
    BY <1>1, <2>3, <2>5, LabelsOfIs
  <2>7. /\ nested[k].subs[i] = RestructuredList(list[k].subs[i])
        /\ Good(list[k].subs[i])
    BY <1>1 DEF NestedAreGood
  <2>8. n \in LabelsIn(list[k].subs[i])
    BY <2>6, <2>7 DEF Good, Results
  <2>9. i = j
    BY <1>3, <2>2, <2>8
  <2>10. LabelsOnce(sub) /\ SpansApart(sub)
    BY <2>1, Inherited
  <2>11. n \in ForwardIn(sub)
    BY <1>4, <2>1 DEF ForwardIn
  <2> QED  BY <2>6, <2>7, <2>9, <2>10, <2>11 DEF Good, Results
<1> QED  BY <1>8, <1>9

\* What the loop leaves is the result promised for the list.
LEMMA LeftIsResult ==
  ASSUME StmtsAreTrees, NEW list \in Seq(Stmt), NestedAreGood(list),
         NEW new, Left(EachRestructured(list), new)
  PROVE  Results(list, new)
<1> DEFINE nested == EachRestructured(list)
<1>1. Prepared(list, nested)
  BY EachIsPrepared
<1> HIDE DEF nested
<1>2. /\ Text(nested) = Text(list)
      /\ \A l \in Name : Jumps(nested, l) <=> Jumps(list, l)
      /\ LabelsIn(nested) \subseteq LabelsIn(list)
      /\ NoBlocks(list) => AllTight(nested)
      /\ LabelsOnce(list) => Once(nested)
      /\ SpansApart(list) => Apart(nested)
  BY <1>1, PreparedKeeps
<1>3. Left(nested, new)
  BY DEF nested
<1>4. ASSUME LabelsOnce(list), SpansApart(list), NEW n \in LabelsIn(new), n \in ForwardIn(list)
      PROVE  FALSE
  <2>1. Kept(nested, n)
    BY <1>2, <1>3, <1>4 DEF Left
  <2> QED  BY <1>1, <1>4, <2>1, ForwardIsNotLeft
<1> QED  BY <1>2, <1>3, <1>4 DEF Left, Results

\* Whatever is nested in a list, what the pass makes of it is good.
LEMMA EveryListIsGood ==
  ASSUME StmtsAreTrees
  PROVE  \A list \in Seq(Stmt) : Good(list)
<1> DEFINE T == {list \in Seq(Stmt) : Good(list)}
<1>1. ASSUME NEW list \in Seq(Stmt),
             \A k \in DOMAIN list : \A j \in DOMAIN list[k].subs : list[k].subs[j] \in T
      PROVE  list \in T
  <2>1. NestedAreGood(list)
    BY <1>1 DEF NestedAreGood
  <2>2. EachRestructured(list) \in Seq(Stmt)
    BY <2>1, EachIsPrepared DEF Prepared
  <2>3. Left(EachRestructured(list), Rounds(EachRestructured(list), {}))
    BY <2>2, LoopStarts, LoopLeaves
  <2>4. RestructuredList(list) = Rounds(EachRestructured(list), {})
    BY DEF StmtsAreTrees, Equations, RestructuredListLaw
  <2>5. Good(list)
    BY <2>1, <2>3, <2>4, LeftIsResult DEF Good
  <2> QED  BY <2>5
<1>2. \A list \in Seq(Stmt) : list \in T
  <2> HIDE DEF T
  <2> QED  BY <1>1, ByHeight
<1> QED  BY <1>2
-----------------------------------------------------------------------------
(***************************************************************************)
(* The state machine                                                       *)
(***************************************************************************)
\* Before the loop the list is the body; from then on the invariant of the loop
\* holds, from the body with its nested lists restructured.
PassInv ==
  /\ original \in Bodies
  /\ pc \in {"nested", "labels", "done"}
  /\ pc = "nested" => stmts = original /\ skip_labels = {}
  /\ pc # "nested" => LoopInv(EachRestructured(original), stmts, skip_labels)
  /\ pc = "done" => LabelIdx(stmts, skip_labels) = 0

\* Every list is prepared, by induction on its height.
LEMMA BodyIsPrepared ==
  ASSUME StmtsAreTrees, NEW list \in Seq(Stmt)
  PROVE  NestedAreGood(list) /\ Prepared(list, EachRestructured(list)) /\ EachRestructured(list) \in Seq(Stmt)
<1>1. NestedAreGood(list)
  <2> SUFFICES ASSUME NEW k \in DOMAIN list, NEW j \in DOMAIN list[k].subs PROVE Good(list[k].subs[j])
    BY DEF NestedAreGood
  <2>1. list[k] \in Stmt
    OBVIOUS
  <2>2. list[k].subs[j] \in Seq(Stmt)
    BY <2>1, StmtIs
  <2> QED  BY <2>2, EveryListIsGood
<1>2. Prepared(list, EachRestructured(list))
  BY <1>1, EachIsPrepared
<1> QED  BY <1>1, <1>2 DEF Prepared

\* The invariant of the pass is inductive.
LEMMA PassInvInductive ==
  ASSUME StmtsAreTrees, Bodies \subseteq Seq(Stmt), PassInv, [Next]_vars
  PROVE  PassInv'
<1> DEFINE nested == EachRestructured(original)
<1>1. original \in Seq(Stmt)
  BY DEF PassInv
<1>2. nested \in Seq(Stmt)
  BY <1>1, BodyIsPrepared
<1>3. CASE RestructureNested
  <2>1. stmts' = nested /\ skip_labels' = {} /\ pc' = "labels" /\ original' = original
    BY <1>3 DEF PassInv, RestructureNested, EachRestructured
  <2>2. LoopInv(nested, nested, {})
    BY <1>2, LoopStarts
  <2> QED  BY <2>1, <2>2 DEF PassInv
<1>4. CASE MakeBlock
  <2> DEFINE at == LabelIdx(stmts, skip_labels)
             start == FirstGoto(stmts, at)
             new == Splice(stmts, start, at)
  <2>1. /\ at # 0 /\ start # 0 /\ stmts' = new /\ pc = "labels"
        /\ UNCHANGED <<original, skip_labels, pc>>
    BY <1>4 DEF MakeBlock
  <2>2. LoopInv(nested, stmts, skip_labels)
    BY <2>1 DEF PassInv
  <2>3. LoopInv(nested, new, skip_labels)
    BY <1>2, <2>1, <2>2, SpliceKeepsLoopInv
  <2> HIDE DEF new
  <2> QED  BY <2>1, <2>3 DEF PassInv
<1>5. CASE SkipLabel
  <2> DEFINE at == LabelIdx(stmts, skip_labels)
             more == skip_labels \cup {stmts[at].name}
  <2>1. /\ at # 0 /\ FirstGoto(stmts, at) = 0 /\ skip_labels' = more /\ pc = "labels"
        /\ UNCHANGED <<original, stmts, pc>>
    BY <1>5 DEF SkipLabel
  <2>2. LoopInv(nested, stmts, skip_labels)
    BY <2>1 DEF PassInv
  <2>3. LoopInv(nested, stmts, more)
    BY <1>2, <2>1, <2>2, SkipKeepsLoopInv
  <2> HIDE DEF more
  <2> QED  BY <2>1, <2>3 DEF PassInv
<1>6. CASE Return
  BY <1>6 DEF PassInv, Return
<1>7. CASE UNCHANGED vars
  BY <1>7 DEF PassInv, vars
<1> QED  BY <1>3, <1>4, <1>5, <1>6, <1>7 DEF Next

\* The invariant of the pass holds in every state, whatever the bodies.
THEOREM PassIsInvariant ==
  ASSUME StmtsAreTrees, Bodies \subseteq Seq(Stmt)
  PROVE  Spec => []PassInv
<1>1. Init => PassInv
  BY DEF Init, PassInv
<1>2. PassInv /\ [Next]_vars => PassInv'
  BY PassInvInductive
<1> QED  BY <1>1, <1>2, PTL DEF Spec

\* What the invariant says in the terms of the list: at any time the text, and
\* the tightness; at the end the labels.
LEMMA PassInvMeans ==
  ASSUME StmtsAreTrees, Bodies \subseteq Seq(Stmt), PassInv
  PROVE  TextIsKept /\ BlocksAreTight /\ SeparateLabelsAreRestructured
<1> DEFINE nested == EachRestructured(original)
<1>1. original \in Seq(Stmt) /\ LabelsOnce(original) /\ NoBlocks(original)
  BY BodiesAssumption DEF PassInv
<1>2. NestedAreGood(original) /\ Prepared(original, nested) /\ nested \in Seq(Stmt)
  BY <1>1, BodyIsPrepared
<1>3. Text(nested) = Text(original) /\ AllTight(nested)
  BY <1>1, <1>2, PreparedKeeps
<1>4. CASE pc = "nested"
  <2>1. stmts = original
    BY <1>4 DEF PassInv
  <2>2. AllTight(original)
    BY <1>1 DEF AllTight, Tight, NoBlocks
  <2> QED  BY <1>4, <2>1, <2>2 DEF TextIsKept, BlocksAreTight, AllTight, SeparateLabelsAreRestructured
<1>5. CASE pc # "nested"
  <2>1. LoopInv(nested, stmts, skip_labels)
    BY <1>5 DEF PassInv
  <2>2. Text(stmts) = Text(original) /\ AllTight(stmts)
    BY <1>3, <2>1 DEF LoopInv
  <2>3. ASSUME pc = "done", Separate PROVE LabelsLeft \cap ForwardLabels = {}
    <3>1. LabelIdx(stmts, skip_labels) = 0
      BY <2>3 DEF PassInv
    <3>2. Left(nested, stmts)
      BY <1>2, <2>1, <3>1, LoopEnds
    <3>3. Results(original, stmts)
      BY <1>1, <1>2, <3>2, LeftIsResult
    <3> QED  BY <1>1, <2>3, <3>3 DEF Results, Separate, LabelsLeft, ForwardLabels
  <2> QED  BY <2>2, <2>3 DEF TextIsKept, BlocksAreTight, AllTight, SeparateLabelsAreRestructured
<1> QED  BY <1>4, <1>5

\* No step loses, adds or moves a statement: every state has the text of the
\* body, with block ends in the place of labels.
THEOREM TextIsAlwaysKept ==
  ASSUME StmtsAreTrees, Bodies \subseteq Seq(Stmt)
  PROVE  Spec => []TextIsKept
<1>1. PassInv => TextIsKept
  BY PassInvMeans
<1> QED  BY <1>1, PassIsInvariant, PTL

\* At any time every block begins with a statement that holds a goto to its
\* label, and no statement before it in its list does.
THEOREM BlocksAreAlwaysTight ==
  ASSUME StmtsAreTrees, Bodies \subseteq Seq(Stmt)
  PROVE  Spec => []BlocksAreTight
<1>1. PassInv => BlocksAreTight
  BY PassInvMeans
<1> QED  BY <1>1, PassIsInvariant, PTL

\* If the blocks its labels need do not overlap, the body the pass returns has no
\* label left, at any depth, that a goto preceded.
THEOREM LabelsAreRestructured ==
  ASSUME StmtsAreTrees, Bodies \subseteq Seq(Stmt)
  PROVE  Spec => []SeparateLabelsAreRestructured
<1>1. PassInv => SeparateLabelsAreRestructured
  BY PassInvMeans
<1> QED  BY <1>1, PassIsInvariant, PTL

\* Every round of the loop looks nearer the front of the list than the round
\* before, so no body has more rounds than statements.
RoundsAdvance == pc = "labels" /\ pc' = "labels" => LabelIdx(stmts, skip_labels)' < LabelIdx(stmts, skip_labels)

\* Every step from round to round advances (RoundsAdvance, restructure_goto.rs:28-69).
THEOREM RoundsAlwaysAdvance ==
  ASSUME StmtsAreTrees, Bodies \subseteq Seq(Stmt)
  PROVE  Spec => [][RoundsAdvance]_vars
<1>1. ASSUME PassInv, [Next]_vars PROVE [RoundsAdvance]_vars
  <2>1. original \in Seq(Stmt) /\ EachRestructured(original) \in Seq(Stmt)
    BY <1>1, BodyIsPrepared DEF PassInv
  <2> SUFFICES ASSUME Next, pc = "labels", pc' = "labels"
               PROVE  LabelIdx(stmts, skip_labels)' < LabelIdx(stmts, skip_labels)
    BY <1>1 DEF RoundsAdvance
  <2>2. LoopInv(EachRestructured(original), stmts, skip_labels)
    BY <1>1 DEF PassInv
  <2> DEFINE at == LabelIdx(stmts, skip_labels)
             start == FirstGoto(stmts, at)
  <2>3. CASE MakeBlock
    <3>1. at # 0 /\ start # 0 /\ stmts' = Splice(stmts, start, at) /\ skip_labels' = skip_labels
      BY <2>3 DEF MakeBlock
    <3>2. LabelIdx(Splice(stmts, start, at), skip_labels) < at
      BY <2>1, <2>2, <3>1, SpliceKeepsLoopInv
    <3> QED  BY <3>1, <3>2
  <2>4. CASE SkipLabel
    <3>1. at # 0 /\ start = 0 /\ stmts' = stmts /\ skip_labels' = skip_labels \cup {stmts[at].name}
      BY <2>4 DEF SkipLabel
    <3>2. LabelIdx(stmts, skip_labels \cup {stmts[at].name}) < at
      BY <2>1, <2>2, <3>1, SkipKeepsLoopInv
    <3> QED  BY <3>1, <3>2
  <2> QED  BY <2>3, <2>4 DEF Next, RestructureNested, Return
<1> QED  BY <1>1, PassIsInvariant, PTL DEF Spec
=============================================================================
