-------------------------- MODULE ConfigStoreProofs --------------------------
(***************************************************************************)
(* What the parser makes of a config file and what the queries tell; what  *)
(* a command writes, and in which order; that what was written is written  *)
(* the same again; and that the file behaves as the map of KeyValue.       *)
(*                                                                         *)
(* The loops of the model are folds.  Each is first unfolded into the      *)
(* steps it takes, an accumulator for each of them (Gathers, ParseIsAFold, *)
(* WalksDown); induction over the steps then shows what the loop computes. *)
(* The walk of the visitor is a loop over states: what it has written is   *)
(* related to the nodes it has been at, which WalkGoesOn and WalkEnds show *)
(* to be all of them in the end.  The text of a config_data is defined by  *)
(* the rank of each node in the walk, its number of predecessors: a tree   *)
(* that is read back has the same order of nodes, so the same text.        *)
(***************************************************************************)
EXTENDS ConfigStore, OrderLemmas, FiniteSetTheorems

-----------------------------------------------------------------------------
(* The parser as a sequence of steps.                                      *)

Base == [status |-> 0, section |-> << >>, conf |-> NoConfig]

\* The fold over sets of lines, unfolded.
LEMMA ParseUnfolds ==
  ASSUME NEW f, NEW N \in Nat
  PROVE  \E g : g = [S \in SUBSET (1..N) |->
                       IF S = {} THEN Base ELSE ParseLine(g[S \ {Max(S)}], f[Max(S)])]
  <1> DEFINE Unfolds(g, n) == g = [S \in SUBSET (1..n) |->
                       IF S = {} THEN Base ELSE ParseLine(g[S \ {Max(S)}], f[Max(S)])]
             P == {n \in Nat : \E g : Unfolds(g, n)}
  <1>1. 0 \in P
    <2> DEFINE g == [S \in SUBSET (1..0) |-> Base]
    <2>1. \A S \in SUBSET (1..0) : S = {}
      OBVIOUS
    <2>2. Unfolds(g, 0)
      BY <2>1
    <2>3. QED
      BY <2>2
  <1>2. ASSUME NEW n \in Nat, n \in P PROVE n + 1 \in P
    <2>1. PICK g : Unfolds(g, n)
      BY <1>2
    <2> DEFINE h == [S \in SUBSET (1..n + 1) |->
                       IF n + 1 \in S THEN ParseLine(g[S \ {n + 1}], f[n + 1]) ELSE g[S]]
    <2>2. ASSUME NEW S \in SUBSET (1..n + 1)
          PROVE  h[S] = IF S = {} THEN Base ELSE ParseLine(h[S \ {Max(S)}], f[Max(S)])
      <3>1. CASE n + 1 \in S
        <4>1. S \subseteq 0..(n + 1) /\ S # {} /\ \A y \in S : y <= n + 1
          BY <3>1
        <4>2. S \subseteq Int /\ n + 1 \in S
          BY <3>1
        <4>3. Max(S) = n + 1
          BY <4>1, <4>2, MaxIs
        <4>4. S \ {n + 1} \in SUBSET (1..n + 1) /\ n + 1 \notin S \ {n + 1}
          OBVIOUS
        <4>5. h[S \ {n + 1}] = g[S \ {n + 1}]
          BY <4>4
        <4>6. QED
          BY <3>1, <4>1, <4>3, <4>5
      <3>2. CASE n + 1 \notin S
        <4>1. S \in SUBSET (1..n)
          BY <3>2
        <4>2. h[S] = g[S]
          BY <3>2
        <4>3. g[S] = IF S = {} THEN Base ELSE ParseLine(g[S \ {Max(S)}], f[Max(S)])
          BY <2>1, <4>1
        <4>4. h[S \ {Max(S)}] = g[S \ {Max(S)}]
          <5>1. S \ {Max(S)} \in SUBSET (1..n + 1) /\ n + 1 \notin S \ {Max(S)}
            BY <3>2
          <5>2. QED
            BY <5>1
        <4>5. QED
          BY <4>2, <4>3, <4>4
      <3>3. QED
        BY <3>1, <3>2
    <2>3. Unfolds(h, n + 1)
      <3> DEFINE k == [S \in SUBSET (1..n + 1) |->
                         IF S = {} THEN Base ELSE ParseLine(h[S \ {Max(S)}], f[Max(S)])]
      <3>1. h = [S \in SUBSET (1..n + 1) |-> h[S]]
        OBVIOUS
      <3> HIDE DEF h
      <3>2. h = k
        BY <2>2, <3>1
      <3>3. QED
        BY <3>2
    <2> HIDE DEF h, Unfolds
    <2>4. n + 1 \in Nat
      OBVIOUS
    <2>5. QED
      BY <2>3, <2>4
  <1>3. N \in P
    <2> HIDE DEF P
    <2>1. QED
      BY <1>1, <1>2, Induction
  <1>4. QED
    BY <1>3

\* The parser reads one line after the other.
LEMMA ParseIsAFold ==
  ASSUME NEW f, NEW N \in Nat, DOMAIN f = 1..N
  PROVE  \E acc : /\ acc[0] = Base /\ acc[N] = Parse(f)
                  /\ \A n \in 1..N : acc[n] = ParseLine(acc[n - 1], f[n])
  <1> DEFINE Eq(g) == g = [S \in SUBSET (1..N) |->
                       IF S = {} THEN Base ELSE ParseLine(g[S \ {Max(S)}], f[Max(S)])]
             it == CHOOSE g : Eq(g)
  <1>1. Eq(it)
    BY ParseUnfolds
  <1>2. Parse(f) = it[1..N]
    BY DEF Parse, FoldLeft, MapThenFoldSet, Base
  <1> HIDE DEF it
  <1> DEFINE acc == [n \in 0..N |-> it[1..n]]
  <1>3. \A S \in SUBSET (1..N) :
          it[S] = IF S = {} THEN Base ELSE ParseLine(it[S \ {Max(S)}], f[Max(S)])
    BY <1>1
  <1>4. acc[0] = Base
    <2>1. 1..0 = {} /\ {} \in SUBSET (1..N)
      OBVIOUS
    <2>2. acc[0] = it[{}]
      BY <2>1
    <2>3. QED
      BY <1>3, <2>1, <2>2
  <1>5. acc[N] = Parse(f)
    BY <1>2
  <1>6. ASSUME NEW n \in 1..N PROVE acc[n] = ParseLine(acc[n - 1], f[n])
    <2>1. 1..n \in SUBSET (1..N) /\ 1..n # {} /\ (1..n) \ {n} = 1..(n - 1)
      <3>1. \A i \in 1..n : i \in 1..N
        OBVIOUS
      <3>2. n \in 1..n
        OBVIOUS
      <3>3. \A i : i \in 1..(n - 1) <=> i \in 1..n /\ i # n
        OBVIOUS
      <3>4. QED
        BY <3>1, <3>2, <3>3
    <2>2. Max(1..n) = n
      <3>1. 1..n \subseteq Int /\ n \in 1..n /\ \A y \in 1..n : y <= n
        OBVIOUS
      <3>2. QED
        BY <3>1, MaxIs
    <2>3. acc[n] = it[1..n] /\ acc[n - 1] = it[1..(n - 1)]
      OBVIOUS
    <2>4. QED
      BY <1>3, <2>1, <2>2, <2>3
  <1> HIDE DEF acc
  <1>7. QED
    BY <1>4, <1>5, <1>6

-----------------------------------------------------------------------------
(* The tree of sections: config_data_lookup_section keeps it one.          *)

\* The sections of a config_data are different, and each comes after the section
\* it is in; entries have different keys, and the sections of their keys are there.
Entry == [key : Seq(Words) \ {<< >>}, value : Values]

Nested(sections) ==
  /\ sections \in Seq(Seq(Words) \ {<< >>})
  /\ \A i \in 1..Len(sections) :
       \/ Len(sections[i]) = 1
       \/ \E j \in 1..(i - 1) : sections[j] = Front(sections[i])
  /\ \A i, j \in 1..Len(sections) : sections[i] = sections[j] => i = j

Housed(sections, path) == path = << >> \/ Contains(sections, path)

Keyed(entries) == \A i, j \in 1..Len(entries) : entries[i].key = entries[j].key => i = j

Config(c) ==
  /\ c = [sections |-> c.sections, entries |-> c.entries]
  /\ c.entries \in Seq(Entry)
  /\ Nested(c.sections)
  /\ Keyed(c.entries)
  /\ \A i \in 1..Len(c.entries) : Housed(c.sections, Front(c.entries[i].key))

\* One step of config_data_lookup_section: the section at depth i.
MakeSection(path, a, i) ==
  LET p == SubSeq(path, 1, i) IN
  IF Contains(a.sections, p) THEN a ELSE [a EXCEPT !.sections = Append(@, p)]

Makes(c, path, n, g) ==
  g = [S \in SUBSET (1..n) |-> IF S = {} THEN c ELSE MakeSection(path, g[S \ {Max(S)}], Max(S))]

\* The fold over sets of depths, unfolded.
LEMMA MakeUnfolds ==
  ASSUME NEW c, NEW path, NEW N \in Nat
  PROVE  \E g : Makes(c, path, N, g)
  <1> DEFINE P == {n \in Nat : \E g : Makes(c, path, n, g)}
  <1>1. 0 \in P
    <2> DEFINE g == [S \in SUBSET (1..0) |-> c]
    <2>1. \A S \in SUBSET (1..0) : S = {}
      OBVIOUS
    <2>2. Makes(c, path, 0, g)
      BY <2>1 DEF Makes
    <2>3. QED
      BY <2>2
  <1>2. ASSUME NEW n \in Nat, n \in P PROVE n + 1 \in P
    <2>1. PICK g : Makes(c, path, n, g)
      BY <1>2
    <2> DEFINE h == [S \in SUBSET (1..n + 1) |->
                       IF n + 1 \in S THEN MakeSection(path, g[S \ {n + 1}], n + 1) ELSE g[S]]
    <2>2. ASSUME NEW S \in SUBSET (1..n + 1)
          PROVE  h[S] = IF S = {} THEN c ELSE MakeSection(path, h[S \ {Max(S)}], Max(S))
      <3>1. CASE n + 1 \in S
        <4>1. S # {} /\ \A y \in S : y <= n + 1
          BY <3>1
        <4>2. S \subseteq Int /\ n + 1 \in S
          BY <3>1
        <4>3. Max(S) = n + 1
          BY <4>1, <4>2, MaxIs
        <4>4. S \ {n + 1} \in SUBSET (1..n + 1) /\ n + 1 \notin S \ {n + 1}
          OBVIOUS
        <4>5. h[S \ {n + 1}] = g[S \ {n + 1}]
          BY <4>4
        <4>6. QED
          BY <3>1, <4>1, <4>3, <4>5
      <3>2. CASE n + 1 \notin S
        <4>1. S \in SUBSET (1..n)
          BY <3>2
        <4>2. h[S] = g[S]
          BY <3>2
        <4>3. g[S] = IF S = {} THEN c ELSE MakeSection(path, g[S \ {Max(S)}], Max(S))
          BY <2>1, <4>1 DEF Makes
        <4>4. h[S \ {Max(S)}] = g[S \ {Max(S)}]
          <5>1. S \ {Max(S)} \in SUBSET (1..n + 1) /\ n + 1 \notin S \ {Max(S)}
            BY <3>2
          <5>2. QED
            BY <5>1
        <4>5. QED
          BY <4>2, <4>3, <4>4
      <3>3. QED
        BY <3>1, <3>2
    <2>3. Makes(c, path, n + 1, h)
      <3>1. h = [S \in SUBSET (1..n + 1) |-> h[S]]
        OBVIOUS
      <3> HIDE DEF h
      <3>2. QED
        BY <2>2, <3>1 DEF Makes
    <2> HIDE DEF h
    <2>4. n + 1 \in Nat
      OBVIOUS
    <2>5. QED
      BY <2>3, <2>4
  <1>3. N \in P
    <2> HIDE DEF P
    <2>1. QED
      BY <1>1, <1>2, Induction
  <1>4. QED
    BY <1>3

\* config_data_lookup_section goes down the path one section at a time.
WalksDown(c, path, N, acc) ==
  /\ acc[0] = c /\ acc[N] = LookupSection(c, path)
  /\ \A n \in 1..N : acc[n] = MakeSection(path, acc[n - 1], n)

LEMMA LookupIsAFold ==
  ASSUME NEW c, NEW path, NEW N \in Nat, Len(path) = N
  PROVE  \E acc : WalksDown(c, path, N, acc)
  <1> DEFINE Eq(g) == Makes(c, path, N, g)
             it == CHOOSE g : Eq(g)
             Raw(g) == g = [S \in SUBSET (1..N) |->
                       IF S = {} THEN c ELSE MakeSection(path, g[S \ {Max(S)}], [i \in 1..N |-> i][Max(S)])]
  <1>1. Eq(it)
    <2>1. \E g : Eq(g)
      BY MakeUnfolds
    <2>2. QED
      BY <2>1
  <1>2. LookupSection(c, path) = it[1..N]
    <2>1. \A S \in SUBSET (1..N) : S # {} => [i \in 1..N |-> i][Max(S)] = Max(S)
      <3> SUFFICES ASSUME NEW S \in SUBSET (1..N), S # {} PROVE Max(S) \in 1..N
        OBVIOUS
      <3>1. S \subseteq 0..N
        OBVIOUS
      <3>2. QED
        BY <3>1, MaxGreatest
    <2>2. ASSUME NEW g
          PROVE  [S \in SUBSET (1..N) |->
                       IF S = {} THEN c ELSE MakeSection(path, g[S \ {Max(S)}], [i \in 1..N |-> i][Max(S)])]
                 = [S \in SUBSET (1..N) |->
                       IF S = {} THEN c ELSE MakeSection(path, g[S \ {Max(S)}], Max(S))]
      BY <2>1
    <2>3. \A g : Raw(g) <=> Eq(g)
      BY <2>2 DEF Makes
    <2>4. LookupSection(c, path) = (CHOOSE g : Raw(g))[1..N]
      BY DEF LookupSection, FoldLeft, MapThenFoldSet, MakeSection
    <2> HIDE DEF Raw, Eq
    <2>5. (CHOOSE g : Raw(g)) = it
      BY <2>3
    <2>6. QED
      BY <2>4, <2>5
  <1> HIDE DEF it
  <1> DEFINE acc == [n \in 0..N |-> it[1..n]]
  <1>3. \A S \in SUBSET (1..N) :
          it[S] = IF S = {} THEN c ELSE MakeSection(path, it[S \ {Max(S)}], Max(S))
    BY <1>1 DEF Makes
  <1>4. acc[0] = c
    <2>1. 1..0 = {} /\ {} \in SUBSET (1..N)
      OBVIOUS
    <2>2. acc[0] = it[{}]
      BY <2>1
    <2>3. QED
      BY <1>3, <2>1, <2>2
  <1>5. acc[N] = LookupSection(c, path)
    BY <1>2
  <1>6. ASSUME NEW n \in 1..N PROVE acc[n] = MakeSection(path, acc[n - 1], n)
    <2>1. acc[n] = it[1..n] /\ acc[n - 1] = it[1..(n - 1)]
      OBVIOUS
    <2>2. 1..n \in SUBSET (1..N) /\ 1..n # {} /\ (1..n) \ {n} = 1..(n - 1) /\ Max(1..n) = n
      BY Initial
    <2> HIDE DEF acc
    <2>3. QED
      BY <1>3, <2>1, <2>2
  <1> HIDE DEF acc
  <1>7. QED
    BY <1>4, <1>5, <1>6 DEF WalksDown

\* A section is made after the one it is in, and the entries stay.
LEMMA MakeKeeps ==
  ASSUME NEW c, Config(c), NEW path \in Seq(Words), NEW n \in 1..Len(path),
         n = 1 \/ Contains(c.sections, SubSeq(path, 1, n - 1))
  PROVE  LET d == MakeSection(path, c, n) IN
         /\ Config(d) /\ d.entries = c.entries
         /\ Contains(d.sections, SubSeq(path, 1, n))
  <1> DEFINE p == SubSeq(path, 1, n)
             d == MakeSection(path, c, n)
             s == c.sections
             t == Append(s, p)
  <1>1. /\ c = [sections |-> c.sections, entries |-> c.entries]
        /\ c.entries \in Seq(Entry) /\ Nested(s) /\ s \in Seq(Seq(Words) \ {<< >>})
        /\ Keyed(c.entries)
        /\ \A i \in 1..Len(c.entries) : Housed(s, Front(c.entries[i].key))
    BY DEF Config, Nested
  <1>2. CASE Contains(s, p)
    BY <1>2 DEF MakeSection
  <1>3. CASE ~Contains(s, p)
    <2>1. d = [sections |-> t, entries |-> c.entries]
      BY <1>1, <1>3 DEF MakeSection
    <2>2. p \in Seq(Words) /\ Len(p) = n /\ p # << >>
      OBVIOUS
    <2>3. /\ t \in Seq(Seq(Words) \ {<< >>}) /\ Len(t) = Len(s) + 1 /\ t[Len(s) + 1] = p
          /\ Len(s) \in Nat /\ \A i \in 1..Len(s) : t[i] = s[i]
      BY <1>1, <2>2
    <2>4. Front(p) = SubSeq(path, 1, n - 1)
      BY <2>2 DEF Front
    <2> HIDE DEF p, t
    <2>5. ASSUME NEW i \in 1..Len(t)
          PROVE  Len(t[i]) = 1 \/ \E j \in 1..(i - 1) : t[j] = Front(t[i])
      <3>1. CASE i = Len(s) + 1
        <4>1. CASE n = 1
          BY <2>2, <2>3, <3>1, <4>1
        <4>2. CASE n # 1
          <5>1. PICK j \in 1..Len(s) : s[j] = Front(p)
            BY <2>4, <4>2 DEF Contains
          <5>2. t[j] = Front(t[i]) /\ j \in 1..(i - 1)
            BY <2>3, <3>1, <5>1
          <5>3. QED
            BY <5>2
        <4>3. QED
          BY <4>1, <4>2
      <3>2. CASE i # Len(s) + 1
        <4>1. i \in 1..Len(s) /\ t[i] = s[i]
          BY <2>3, <3>2
        <4>2. CASE Len(s[i]) = 1
          BY <4>1, <4>2
        <4>3. CASE \E j \in 1..(i - 1) : s[j] = Front(s[i])
          <5>1. PICK j \in 1..(i - 1) : s[j] = Front(s[i])
            BY <4>3
          <5>2. j \in 1..Len(s)
            BY <2>3, <4>1
          <5>3. QED
            BY <2>3, <4>1, <5>1, <5>2
        <4>4. QED
          BY <1>1, <4>1, <4>2, <4>3 DEF Nested
      <3>3. QED
        BY <3>1, <3>2
    <2>6. Nested(t)
      <3>1. ASSUME NEW i \in 1..Len(t), NEW j \in 1..Len(t), t[i] = t[j] PROVE i = j
        <4>1. \A l \in 1..Len(s) : s[l] # p
          BY <1>3 DEF Contains
        <4>2. \A l \in 1..Len(t) : l = Len(s) + 1 \/ l \in 1..Len(s)
          BY <2>3
        <4>3. CASE i \in 1..Len(s) /\ j \in 1..Len(s)
          BY <1>1, <2>3, <3>1, <4>3 DEF Nested
        <4>4. QED
          BY <2>3, <3>1, <4>1, <4>2, <4>3
      <3>2. QED
        BY <2>3, <2>5, <3>1 DEF Nested
    <2>7. Contains(t, p)
      BY <2>3 DEF Contains
    <2>8. d.sections = t /\ d.entries = c.entries
      BY <2>1
    <2>9. ASSUME NEW x, Housed(s, x) PROVE Housed(t, x)
      <3>1. CASE x = << >>
        BY <3>1 DEF Housed
      <3>2. CASE Contains(s, x)
        <4>1. PICK i \in 1..Len(s) : s[i] = x
          BY <3>2 DEF Contains
        <4>2. i \in 1..Len(t) /\ t[i] = x
          BY <2>3, <4>1
        <4>3. QED
          BY <4>2 DEF Housed, Contains
      <3>3. QED
        BY <2>9, <3>1, <3>2 DEF Housed
    <2>10. \A i \in 1..Len(c.entries) : Housed(t, Front(c.entries[i].key))
      BY <1>1, <2>9
    <2>11. QED
      BY <1>1, <2>1, <2>6, <2>7, <2>8, <2>10 DEF Config, p
  <1>4. QED
    BY <1>2, <1>3

\* So the whole path is there, the tree is one, and the entries stay.
LEMMA LookupKeeps ==
  ASSUME NEW c, Config(c), NEW path \in Seq(Words)
  PROVE  /\ Config(LookupSection(c, path))
         /\ LookupSection(c, path).entries = c.entries
         /\ Housed(LookupSection(c, path).sections, path)
  <1> DEFINE N == Len(path)
  <1>1. N \in Nat /\ \A n \in 1..N : n - 1 \in Nat
    OBVIOUS
  <1>2. PICK acc : WalksDown(c, path, N, acc)
    BY <1>1, LookupIsAFold
  <1> DEFINE Good(n) == /\ Config(acc[n]) /\ acc[n].entries = c.entries
                        /\ n > 0 => Contains(acc[n].sections, SubSeq(path, 1, n))
             P == {n \in Nat : n <= N => Good(n)}
  <1>3. 0 \in P
    BY <1>2 DEF WalksDown
  <1>4. ASSUME NEW n \in Nat, n \in P PROVE n + 1 \in P
    <2>1. SUFFICES ASSUME n + 1 <= N PROVE Good(n + 1)
      OBVIOUS
    <2>2. Good(n)
      BY <1>1, <1>4, <2>1
    <2>3. n + 1 \in 1..Len(path) /\ (n + 1) - 1 = n
      BY <1>1, <2>1
    <2>4. acc[n + 1] = MakeSection(path, acc[n], n + 1)
      BY <1>2, <2>3 DEF WalksDown
    <2>5. n + 1 = 1 \/ Contains(acc[n].sections, SubSeq(path, 1, (n + 1) - 1))
      BY <2>2, <2>3
    <2>6. LET d == MakeSection(path, acc[n], n + 1) IN
          /\ Config(d) /\ d.entries = acc[n].entries
          /\ Contains(d.sections, SubSeq(path, 1, n + 1))
      BY <2>2, <2>3, <2>5, MakeKeeps
    <2>7. QED
      BY <2>2, <2>4, <2>6
  <1>5. N \in P
    <2> HIDE DEF P
    <2>1. QED
      BY <1>1, <1>3, <1>4, Induction
  <1>6. SubSeq(path, 1, N) = path
    OBVIOUS
  <1>7. Good(N) /\ (N = 0 => path = << >>)
    BY <1>1, <1>5
  <1> HIDE DEF N
  <1>8. N > 0 => Contains(acc[N].sections, path)
    BY <1>6, <1>7
  <1>9. QED
    BY <1>1, <1>2, <1>7, <1>8 DEF WalksDown, Housed

-----------------------------------------------------------------------------
(* Lines, and the operations on a config_data.                             *)

\* What the fields of a line hold.
LEMMA LinesAre ==
  ASSUME NEW line \in Lines
  PROVE  /\ line.kind \in {"section", "prop", "bad"}
         /\ line.name \in Seq(Words)
         /\ line.kind = "prop" => line.name \in Seq(Words) \ {<< >>} /\ line.value \in Values
  <1>1. CASE line \in [kind : {"section"}, name : Seq(Words), value : {NoValue}]
    BY <1>1
  <1>2. CASE line \in [kind : {"prop"}, name : Seq(Words) \ {<< >>}, value : Values]
    BY <1>2
  <1>3. CASE line = BadLine
    BY <1>3 DEF BadLine
  <1>4. QED
    BY <1>1, <1>2, <1>3 DEF Lines

\* The section a line is in: that of the heading before it.
LEMMA SectionStep ==
  ASSUME NEW f \in Seq(Lines), NEW n \in 1..Len(f)
  PROVE  SectionAt(f, n + 1) = IF f[n].kind = "section" THEN f[n].name ELSE SectionAt(f, n)
  <1> DEFINE B(i) == {j \in 1..(i - 1) : f[j].kind = "section"}
             Latest(i) == CHOOSE j \in B(i) : \A k \in B(i) : k <= j
  <1>1. \A i : SectionAt(f, i) = IF B(i) = {} THEN << >> ELSE f[Latest(i)].name
    BY DEF SectionAt
  <1>2. (n + 1) - 1 = n /\ 1..n = 1..(n - 1) \cup {n} /\ n \notin 1..(n - 1)
    OBVIOUS
  <1>3. CASE f[n].kind = "section"
    <2>1. n \in B(n + 1) /\ \A k \in B(n + 1) : k <= n /\ k \in Nat
      BY <1>2, <1>3
    <2>2. Latest(n + 1) \in B(n + 1) /\ \A k \in B(n + 1) : k <= Latest(n + 1)
      <3> HIDE DEF B
      <3>1. \E j \in B(n + 1) : \A k \in B(n + 1) : k <= j
        BY <2>1
      <3>2. QED
        BY <3>1
    <2> HIDE DEF Latest
    <2>3. Latest(n + 1) <= n /\ n <= Latest(n + 1) /\ Latest(n + 1) \in Nat
      <3> HIDE DEF B
      <3>1. QED
        BY <2>1, <2>2
    <2>4. Latest(n + 1) = n
      BY <2>3
    <2>5. B(n + 1) # {}
      BY <2>1
    <2> HIDE DEF B
    <2>6. QED
      BY <1>1, <1>3, <2>4, <2>5
  <1>4. CASE f[n].kind # "section"
    <2>1. B(n + 1) = B(n)
      BY <1>2, <1>4
    <2>2. Latest(n + 1) = Latest(n)
      <3> HIDE DEF B
      <3>1. QED
        BY <2>1
    <2> HIDE DEF Latest, B
    <2>3. QED
      BY <1>1, <1>4, <2>1, <2>2
  <1>5. QED
    BY <1>3, <1>4

\* A section is a sequence of names,
LEMMA SectionTyped ==
  ASSUME NEW f \in Seq(Lines), NEW n \in 1..Len(f) + 1
  PROVE  SectionAt(f, n) \in Seq(Words)
  <1> DEFINE before == {j \in 1..(n - 1) : f[j].kind = "section"}
             l == CHOOSE j \in before : \A k \in before : k <= j
  <1>1. CASE before = {}
    BY <1>1 DEF SectionAt
  <1>2. CASE before # {}
    <2>1. before \subseteq 0..Len(f) /\ Len(f) \in Nat
      OBVIOUS
    <2>2. \E j \in before : \A k \in before : k <= j
      <3> HIDE DEF before
      <3>1. QED
        BY <1>2, <2>1, GreatestExists
    <2>3. l \in before
      <3> HIDE DEF before
      <3>1. QED
        BY <2>2
    <2>4. f[l].name \in Seq(Words)
      <3>1. l \in 1..Len(f)
        BY <2>3
      <3> HIDE DEF l
      <3>2. f[l] \in Lines
        BY <3>1
      <3>3. QED
        BY <3>2, LinesAre
    <2>5. QED
      BY <1>2, <2>4 DEF SectionAt
  <1>3. QED
    BY <1>1, <1>2

\* and the key of a property is one that is not empty.
LEMMA KeyTyped ==
  ASSUME NEW f \in Seq(Lines), NEW i \in PropLines(f)
  PROVE  KeyAt(f, i) \in Seq(Words) \ {<< >>}
  <1>1. i \in 1..Len(f) /\ f[i] \in Lines /\ f[i].kind = "prop"
    BY DEF PropLines
  <1>2. f[i].name \in Seq(Words) /\ f[i].name # << >>
    BY <1>1, LinesAre
  <1>3. SectionAt(f, i) \in Seq(Words)
    BY <1>1, SectionTyped
  <1> DEFINE s == SectionAt(f, i)
             m == f[i].name
  <1> HIDE DEF s, m
  <1>4. s \in Seq(Words) /\ m \in Seq(Words) /\ m # << >>
    BY <1>2, <1>3 DEF s, m
  <1>5. s \o m # << >>
    BY <1>4, JoinedEmpty
  <1>6. s \o m \in Seq(Words)
    BY <1>4
  <1>7. QED
    BY <1>5, <1>6 DEF s, m, KeyAt

\* The first n elements of a sequence.
LEMMA Beginning ==
  ASSUME NEW T, NEW s \in Seq(T), NEW n \in 0..Len(s)
  PROVE  /\ SubSeq(s, 1, n) \in Seq(T) /\ Len(SubSeq(s, 1, n)) = n
         /\ \A i \in 1..n : SubSeq(s, 1, n)[i] = s[i]
  OBVIOUS

\* The section of a key, and its name in it.
LEMMA FrontLast ==
  ASSUME NEW k \in Seq(Words) \ {<< >>}
  PROVE  Front(k) \in Seq(Words) /\ Last(k) \in Words /\ Len(Front(k)) = Len(k) - 1
  <1> DEFINE n == Len(k)
  <1>1. k \in Seq(Words) /\ n \in Nat /\ n # 0
    <2>1. k \in Seq(Words) /\ n \in Nat
      OBVIOUS
    <2>2. n # 0
      OBVIOUS
    <2>3. QED
      BY <2>1, <2>2
  <1>2. k[n] \in Words
    BY <1>1
  <1>3. SubSeq(k, 1, n - 1) \in Seq(Words) /\ Len(SubSeq(k, 1, n - 1)) = n - 1
    <2>1. n - 1 \in 0..Len(k)
      BY <1>1
    <2>2. QED
      BY <1>1, <2>1, Beginning
  <1>4. QED
    BY <1>2, <1>3 DEF Front, Last

\* config_data_insert appends one entry, and keeps the tree.
LEMMA InsertKeeps ==
  ASSUME NEW c, Config(c), NEW key \in Seq(Words) \ {<< >>}, NEW value \in Values,
         ~HasProp(c, key)
  PROVE  /\ Config(Insert(c, key, value))
         /\ Insert(c, key, value).entries = Append(c.entries, [key |-> key, value |-> value])
  <1> DEFINE d == LookupSection(c, Front(key))
             e == [key |-> key, value |-> value]
             es == Append(c.entries, e)
             n == Len(c.entries)
  <1>1. Config(d) /\ d.entries = c.entries /\ Housed(d.sections, Front(key))
    BY FrontLast, LookupKeeps
  <1>2. Insert(c, key, value) = [d EXCEPT !.entries = Append(@, e)]
    BY DEF Insert
  <1> HIDE DEF d
  <1>3. e \in Entry /\ e.key = key
    BY DEF Entry
  <1> HIDE DEF e
  <1>4. d = [sections |-> d.sections, entries |-> d.entries]
    BY <1>1 DEF Config
  <1>5. [d EXCEPT !.entries = Append(@, e)] = [sections |-> d.sections, entries |-> es]
    <2>1. [d EXCEPT !.entries = Append(@, e)] = [sections |-> d.sections, entries |-> Append(d.entries, e)]
      BY <1>4
    <2>2. QED
      BY <1>1, <2>1
  <1>6. /\ es \in Seq(Entry) /\ Len(es) = n + 1 /\ es[n + 1] = e /\ n \in Nat
        /\ \A i \in 1..n : es[i] = c.entries[i]
    BY <1>1, <1>3 DEF Config
  <1>7. Nested(d.sections)
    BY <1>1 DEF Config
  <1>8. \A i \in 1..n + 1 : i \in 1..n \/ i = n + 1
    BY <1>6
  <1> HIDE DEF es
  <1>9. Keyed(es)
    <2>1. \A i \in 1..n : c.entries[i].key # key
      <3>1. DOMAIN c.entries = 1..n
        BY DEF Config
      <3>2. QED
        BY <3>1 DEF HasProp
    <2>2. Keyed(c.entries)
      BY DEF Config
    <2> HIDE DEF n
    <2>3. ASSUME NEW i \in 1..n + 1, NEW j \in 1..n + 1, es[i].key = es[j].key PROVE i = j
      <3>1. CASE i \in 1..n /\ j \in 1..n
        BY <1>6, <2>2, <2>3, <3>1 DEF Keyed, n
      <3>2. QED
        BY <1>3, <1>6, <1>8, <2>1, <2>3, <3>1
    <2>4. QED
      BY <1>6, <2>3 DEF Keyed
  <1>10. \A i \in 1..n + 1 : Housed(d.sections, Front(es[i].key))
    <2>1. \A i \in 1..n : Housed(d.sections, Front(c.entries[i].key))
      BY <1>1 DEF Config
    <2> HIDE DEF n
    <2>2. QED
      BY <1>1, <1>3, <1>6, <1>8, <2>1
  <1>11. QED
    BY <1>2, <1>5, <1>6, <1>7, <1>9, <1>10 DEF Config, e, es

\* config_data_find finds the one entry of the key.
LEMMA IndexFinds ==
  ASSUME NEW c, Config(c), NEW key, HasProp(c, key)
  PROVE  /\ IndexOf(c, key) \in 1..Len(c.entries) /\ c.entries[IndexOf(c, key)].key = key
         /\ \A i \in 1..Len(c.entries) : c.entries[i].key = key => i = IndexOf(c, key)
  <1>1. DOMAIN c.entries = 1..Len(c.entries)
    BY DEF Config
  <1>2. IndexOf(c, key) \in 1..Len(c.entries) /\ c.entries[IndexOf(c, key)].key = key
    BY <1>1 DEF HasProp, IndexOf
  <1>3. QED
    BY <1>2 DEF Config, Keyed

\* config_data_update changes the value of one entry.
LEMMA UpdateKeeps ==
  ASSUME NEW c, Config(c), NEW key, HasProp(c, key), NEW value \in Values
  PROVE  LET d == Update(c, key, value) IN
         /\ Config(d) /\ Len(d.entries) = Len(c.entries)
         /\ \A j \in 1..Len(c.entries) :
              /\ d.entries[j].key = c.entries[j].key
              /\ d.entries[j].value = IF c.entries[j].key = key THEN value ELSE c.entries[j].value
  <1> DEFINE i == IndexOf(c, key)
             es == [c.entries EXCEPT ![i].value = value]
             n == Len(c.entries)
  <1>1. i \in 1..n /\ c.entries \in Seq(Entry) /\ \A j \in 1..n : c.entries[j].key = key <=> i = j
    BY IndexFinds DEF Config
  <1> HIDE DEF i
  <1>2. c.entries[i] \in Entry
    BY <1>1
  <1>3. [c.entries[i] EXCEPT !.value = value] \in Entry
    BY <1>2 DEF Entry
  <1>4. es \in Seq(Entry) /\ Len(es) = n
    BY <1>1, <1>3
  <1>5. Update(c, key, value) = [sections |-> c.sections, entries |-> es]
    BY DEF Update, Config, i
  <1>6. ASSUME NEW j \in 1..n
        PROVE  es[j].key = c.entries[j].key
               /\ es[j].value = IF c.entries[j].key = key THEN value ELSE c.entries[j].value
    <2>1. CASE j = i
      <3>1. es[j] = [c.entries[i] EXCEPT !.value = value]
        BY <1>1, <2>1
      <3>2. [c.entries[i] EXCEPT !.value = value].key = c.entries[i].key
            /\ [c.entries[i] EXCEPT !.value = value].value = value
        BY <1>2 DEF Entry
      <3>3. QED
        BY <1>1, <2>1, <3>1, <3>2
    <2>2. CASE j # i
      <3>1. es[j] = c.entries[j]
        BY <1>1, <2>2
      <3>2. QED
        BY <1>1, <2>2, <3>1
    <2>3. QED
      BY <2>1, <2>2
  <1> HIDE DEF es
  <1>7. Keyed(es)
    BY <1>4, <1>6 DEF Keyed, Config
  <1>8. \A j \in 1..n : Housed(c.sections, Front(es[j].key))
    BY <1>6 DEF Config
  <1>9. QED
    BY <1>4, <1>5, <1>6, <1>7, <1>8 DEF Config

\* The other elements, closer together.
LEMMA Removed ==
  ASSUME NEW T, NEW s \in Seq(T), NEW i \in 1..Len(s)
  PROVE  /\ RemoveAt(s, i) \in Seq(T) /\ Len(RemoveAt(s, i)) = Len(s) - 1
         /\ \A j \in 1..(Len(s) - 1) : RemoveAt(s, i)[j] = IF j < i THEN s[j] ELSE s[j + 1]
  <1> DEFINE n == Len(s)
             a == SubSeq(s, 1, i - 1)
             b == SubSeq(s, i + 1, n)
  <1>1. a \in Seq(T) /\ Len(a) = i - 1 /\ \A j \in 1..(i - 1) : a[j] = s[j]
    <2>1. i - 1 \in 0..Len(s)
      OBVIOUS
    <2>2. QED
      BY <2>1, Beginning
  <1>2. b \in Seq(T) /\ Len(b) = n - i /\ \A j \in 1..(n - i) : b[j] = s[i + j]
    <2>1. b \in Seq(T)
      OBVIOUS
    <2>2. Len(b) = n - i
      OBVIOUS
    <2>3. \A j \in 1..(n - i) : b[j] = s[i + j]
      OBVIOUS
    <2>4. QED
      BY <2>1, <2>2, <2>3
  <1>3. RemoveAt(s, i) = a \o b
    BY DEF RemoveAt
  <1> HIDE DEF a, b
  <1>4. /\ a \o b \in Seq(T) /\ Len(a \o b) = (i - 1) + Len(b)
        /\ \A j \in 1..(i - 1) : (a \o b)[j] = a[j]
        /\ \A j \in 1..Len(b) : (a \o b)[(i - 1) + j] = b[j]
    <2> DEFINE m == i - 1
    <2>1. m \in Nat /\ a \in Seq(T) /\ Len(a) = m /\ b \in Seq(T)
      BY <1>1, <1>2
    <2> HIDE DEF m, n
    <2>2. a \o b \in Seq(T) /\ Len(a \o b) = m + Len(b)
      BY <2>1
    <2>3. \A j \in 1..m : (a \o b)[j] = a[j]
      BY <2>1
    <2>4. \A j \in 1..Len(b) : (a \o b)[m + j] = b[j]
      BY <2>1
    <2>5. QED
      BY <2>2, <2>3, <2>4 DEF m
  <1>5. ASSUME NEW j \in 1..(n - 1) PROVE (a \o b)[j] = IF j < i THEN s[j] ELSE s[j + 1]
    <2>1. CASE j < i
      <3>1. j \in 1..(i - 1)
        BY <2>1
      <3>2. QED
        BY <1>1, <1>4, <2>1, <3>1
    <2>2. CASE ~(j < i)
      <3> DEFINE l == j - (i - 1)
      <3>1. l \in 1..(n - i) /\ (i - 1) + l = j /\ i + l = j + 1
        BY <2>2
      <3> HIDE DEF l
      <3>2. QED
        BY <1>2, <1>4, <2>2, <3>1
    <2>3. QED
      BY <2>1, <2>2
  <1>6. /\ n \in Nat /\ i \in Nat /\ (i - 1) + (n - i) = n - 1
    OBVIOUS
  <1>7. Len(a \o b) = n - 1
    BY <1>2, <1>4, <1>6
  <1> HIDE DEF n
  <1>8. /\ RemoveAt(s, i) \in Seq(T) /\ Len(RemoveAt(s, i)) = n - 1
        /\ \A j \in 1..(n - 1) : RemoveAt(s, i)[j] = IF j < i THEN s[j] ELSE s[j + 1]
    BY <1>3, <1>4, <1>5, <1>7
  <1>9. QED
    BY <1>8 DEF n

\* config_data_delete removes one entry, and no section.
LEMMA DeleteKeeps ==
  ASSUME NEW c, Config(c), NEW key, HasProp(c, key)
  PROVE  LET d == Delete(c, key)
             e(j) == IF j < IndexOf(c, key) THEN c.entries[j] ELSE c.entries[j + 1] IN
         /\ Config(d) /\ Len(d.entries) = Len(c.entries) - 1
         /\ \A j \in 1..Len(d.entries) : d.entries[j] = e(j)
  <1> DEFINE i == IndexOf(c, key)
             es == RemoveAt(c.entries, i)
             n == Len(c.entries)
             from(j) == IF j < i THEN j ELSE j + 1
  <1>1. i \in 1..n /\ c.entries \in Seq(Entry) /\ n \in Nat
    BY IndexFinds DEF Config
  <1>2. Delete(c, key) = [sections |-> c.sections, entries |-> es]
    BY DEF Delete, Config
  <1> HIDE DEF i
  <1>3. es \in Seq(Entry) /\ Len(es) = n - 1 /\ \A j \in 1..(n - 1) : es[j] = c.entries[from(j)]
    <2> HIDE DEF es, from
    <2>1. c.entries \in Seq(Entry) /\ i \in 1..Len(c.entries)
      BY <1>1
    <2>2. /\ RemoveAt(c.entries, i) \in Seq(Entry) /\ Len(RemoveAt(c.entries, i)) = n - 1
          /\ \A j \in 1..(n - 1) :
               RemoveAt(c.entries, i)[j] = IF j < i THEN c.entries[j] ELSE c.entries[j + 1]
      BY <2>1, Removed
    <2>3. es = RemoveAt(c.entries, i)
      BY DEF es
    <2>4. QED
      BY <2>2, <2>3 DEF from
  <1> HIDE DEF es
  <1>4. \A j \in 1..(n - 1) : from(j) \in 1..n
    BY <1>1
  <1>5. \A j, l \in 1..(n - 1) : from(j) = from(l) => j = l
    BY <1>1
  <1> HIDE DEF from, n
  <1>6. Keyed(es)
    BY <1>3, <1>4, <1>5 DEF Config, Keyed, n
  <1>7. \A j \in 1..(n - 1) : Housed(c.sections, Front(es[j].key))
    BY <1>3, <1>4 DEF Config, n
  <1>8. Config(Delete(c, key))
    BY <1>2, <1>3, <1>6, <1>7 DEF Config
  <1>9. \A j \in 1..(n - 1) : es[j] = IF j < i THEN c.entries[j] ELSE c.entries[j + 1]
    BY <1>3 DEF from
  <1>10. QED
    BY <1>2, <1>3, <1>8, <1>9 DEF i, n

-----------------------------------------------------------------------------
(* What the parser has read after each line.                               *)

\* The first n lines are well-formed, and no two of them have one key.
ClearTo(f, n) ==
  /\ \A i \in 1..n : f[i].kind # "bad"
  /\ \A i, j \in PropLines(f) : (i <= n /\ j <= n /\ i # j) => KeyAt(f, i) # KeyAt(f, j)

\* The entries of c are those of the first n lines, the k-th from line at[k].
Holds(f, n, c, at) ==
  /\ at \in [1..Len(c.entries) -> {i \in PropLines(f) : i <= n}]
  /\ \A k \in 1..Len(c.entries) :
       c.entries[k] = [key |-> KeyAt(f, at[k]), value |-> f[at[k]].value]
  /\ \A i \in PropLines(f) : i <= n => \E k \in 1..Len(c.entries) : at[k] = i

Told(f, n, c) == \E at : Holds(f, n, c, at)

\* The parser after n lines.
ReadTo(f, n, a) ==
  /\ a = [status |-> a.status, section |-> a.section, conf |-> a.conf]
  /\ Config(a.conf)
  /\ ClearTo(f, n) => a.status = 0 /\ a.section = SectionAt(f, n + 1) /\ Told(f, n, a.conf)
  /\ ~ClearTo(f, n) => a.status # 0

\* The config_data has a key that the lines have.
LEMMA HasPropIs ==
  ASSUME NEW f, NEW n, NEW c, Config(c), Told(f, n, c), NEW key
  PROVE  HasProp(c, key) <=> \E i \in PropLines(f) : i <= n /\ KeyAt(f, i) = key
  <1>1. PICK at : Holds(f, n, c, at)
    BY DEF Told
  <1>2. DOMAIN c.entries = 1..Len(c.entries)
    BY DEF Config
  <1>3. ASSUME NEW k \in 1..Len(c.entries)
        PROVE  at[k] \in PropLines(f) /\ at[k] <= n /\ c.entries[k].key = KeyAt(f, at[k])
    <2>1. at[k] \in {i \in PropLines(f) : i <= n}
      BY <1>1, <1>3 DEF Holds
    <2>2. c.entries[k] = [key |-> KeyAt(f, at[k]), value |-> f[at[k]].value]
      BY <1>1, <1>3 DEF Holds
    <2>3. QED
      BY <2>1, <2>2
  <1>4. \A i \in PropLines(f) : i <= n => \E k \in 1..Len(c.entries) : at[k] = i
    BY <1>1 DEF Holds
  <1>5. QED
    BY <1>2, <1>3, <1>4 DEF HasProp

\* A line that is not a property adds no entry,
LEMMA ToldSame ==
  ASSUME NEW f \in Seq(Lines), NEW n \in Nat, NEW c, Told(f, n, c),
         n + 1 \notin PropLines(f)
  PROVE  Told(f, n + 1, c)
  <1>1. PICK at : Holds(f, n, c, at)
    BY DEF Told
  <1>2. PropLines(f) \subseteq Nat
    BY DEF PropLines
  <1>3. {i \in PropLines(f) : i <= n} = {i \in PropLines(f) : i <= n + 1}
    BY <1>2
  <1>4. \A i \in PropLines(f) : i <= n + 1 => i <= n
    BY <1>2
  <1>5. Holds(f, n + 1, c, at)
    BY <1>1, <1>3, <1>4 DEF Holds
  <1>6. QED
    BY <1>5 DEF Told

\* and one that is adds the entry it says.
LEMMA ToldMore ==
  ASSUME NEW f \in Seq(Lines), NEW n \in Nat, NEW c, Config(c), Told(f, n, c),
         n + 1 \in PropLines(f), NEW d,
         d.entries = Append(c.entries, [key |-> KeyAt(f, n + 1), value |-> f[n + 1].value])
  PROVE  Told(f, n + 1, d)
  <1>1. PICK at : Holds(f, n, c, at)
    BY DEF Told
  <1> DEFINE m == Len(c.entries)
             e == [key |-> KeyAt(f, n + 1), value |-> f[n + 1].value]
             new == [k \in 1..m + 1 |-> IF k <= m THEN at[k] ELSE n + 1]
  <1>2. m \in Nat /\ c.entries \in Seq(Entry)
    BY DEF Config
  <1>3. e \in Entry
    <2>1. KeyAt(f, n + 1) \in Seq(Words) \ {<< >>}
      BY KeyTyped
    <2>2. f[n + 1] \in Lines /\ f[n + 1].kind = "prop"
      BY DEF PropLines
    <2>3. f[n + 1].value \in Values
      BY <2>2, LinesAre
    <2>4. QED
      BY <2>1, <2>3 DEF Entry
  <1>4. /\ Len(d.entries) = m + 1 /\ d.entries[m + 1] = e
        /\ \A k \in 1..m : d.entries[k] = c.entries[k]
    <2> HIDE DEF e
    <2>1. d.entries = Append(c.entries, e)
      BY DEF e
    <2>2. QED
      BY <1>2, <1>3, <2>1
  <1>5. at \in [1..m -> {i \in PropLines(f) : i <= n}]
    BY <1>1 DEF Holds
  <1>6. PropLines(f) \subseteq Nat
    BY DEF PropLines
  <1> DEFINE U == {i \in PropLines(f) : i <= n + 1}
  <1>7. /\ new \in [1..m + 1 -> U] /\ new[m + 1] = n + 1
        /\ \A k \in 1..m : new[k] = at[k]
    <2>1. \A k \in 1..m : at[k] \in U
      BY <1>5, <1>6
    <2>2. n + 1 \in U
      BY <1>6
    <2> HIDE DEF U, m
    <2>3. m \in Nat
      BY <1>2
    <2>4. QED
      BY <2>1, <2>2, <2>3
  <1>8. \A k \in 1..m + 1 : k \in 1..m \/ k = m + 1
    BY <1>2
  <1>9. \A k \in 1..m : c.entries[k] = [key |-> KeyAt(f, at[k]), value |-> f[at[k]].value]
    BY <1>1 DEF Holds
  <1>10. \A i \in PropLines(f) : i <= n => \E k \in 1..m : at[k] = i
    BY <1>1 DEF Holds
  <1> HIDE DEF new, m
  <1>11. \A k \in 1..m + 1 : d.entries[k] = [key |-> KeyAt(f, new[k]), value |-> f[new[k]].value]
    BY <1>4, <1>7, <1>8, <1>9
  <1>12. ASSUME NEW i \in PropLines(f), i <= n + 1 PROVE \E k \in 1..m + 1 : new[k] = i
    <2>1. CASE i = n + 1
      <3>1. m + 1 \in 1..m + 1
        BY <1>2 DEF m
      <3>2. QED
        BY <1>7, <2>1, <3>1
    <2>2. CASE i # n + 1
      <3>1. i <= n
        BY <1>6, <1>12, <2>2
      <3>2. PICK k \in 1..m : at[k] = i
        BY <1>10, <3>1
      <3>3. k \in 1..m + 1
        BY <1>2 DEF m
      <3>4. QED
        BY <1>7, <3>2, <3>3
    <2>3. QED
      BY <2>1, <2>2
  <1>13. Holds(f, n + 1, d, new)
    BY <1>4, <1>7, <1>11, <1>12 DEF Holds
  <1>14. QED
    BY <1>13 DEF Told

\* One line more: it is the next section, an entry, or the end of the parse.
LEMMA ReadNext ==
  ASSUME NEW f \in Seq(Lines), NEW n \in Nat, n + 1 \in 1..Len(f), NEW a, ReadTo(f, n, a)
  PROVE  ReadTo(f, n + 1, ParseLine(a, f[n + 1]))
  <1> DEFINE line == f[n + 1]
             b == ParseLine(a, line)
  <1>1. line \in Lines /\ line.kind \in {"section", "prop", "bad"} /\ line.name \in Seq(Words)
    BY LinesAre
  <1>2. /\ a = [status |-> a.status, section |-> a.section, conf |-> a.conf] /\ Config(a.conf)
        /\ ClearTo(f, n) => a.status = 0 /\ a.section = SectionAt(f, n + 1) /\ Told(f, n, a.conf)
        /\ ~ClearTo(f, n) => a.status # 0
    BY DEF ReadTo
  <1>3. PropLines(f) \subseteq Nat /\ (n + 1 \in PropLines(f) <=> line.kind = "prop")
    BY DEF PropLines
  <1>4. 1..n + 1 = 1..n \cup {n + 1}
    OBVIOUS
  <1>5. ClearTo(f, n + 1) => ClearTo(f, n)
    <2>1. \A i \in PropLines(f) : i <= n => i <= n + 1
      BY <1>3
    <2>2. QED
      BY <1>4, <2>1 DEF ClearTo
  <1>6. CASE ~ClearTo(f, n)
    <2>1. b = a
      BY <1>2, <1>6 DEF ParseLine
    <2>2. QED
      BY <1>2, <1>5, <1>6, <2>1 DEF ReadTo
  <1>7. CASE ClearTo(f, n)
    <2>1. a.status = 0 /\ a.section = SectionAt(f, n + 1) /\ Told(f, n, a.conf)
      BY <1>2, <1>7
    <2>2. SectionAt(f, (n + 1) + 1) = IF line.kind = "section" THEN line.name ELSE SectionAt(f, n + 1)
      BY SectionStep
    <2>3. CASE line.kind = "section"
      <3>1. b = [a EXCEPT !.section = line.name]
        BY <2>1, <2>3 DEF ParseLine
      <3>2. b = [status |-> 0, section |-> line.name, conf |-> a.conf]
        BY <1>2, <2>1, <3>1
      <3>3. ClearTo(f, n + 1)
        <4>1. \A i \in PropLines(f) : i <= n + 1 => i <= n
          BY <1>3, <2>3
        <4>2. QED
          BY <1>4, <1>7, <2>3, <4>1 DEF ClearTo
      <3>4. Told(f, n + 1, a.conf)
        BY <1>3, <2>1, <2>3, ToldSame
      <3>5. b.status = 0 /\ b.section = line.name /\ b.conf = a.conf
        BY <3>2
      <3> HIDE DEF b, line
      <3>6. QED
        BY <1>2, <2>2, <2>3, <3>2, <3>3, <3>4, <3>5 DEF ReadTo, b, line
    <2>4. CASE line.kind = "prop"
      <3> DEFINE key == a.section \o line.name
      <3>1. key = KeyAt(f, n + 1) /\ n + 1 \in PropLines(f)
        BY <1>3, <2>1, <2>4 DEF KeyAt
      <3>2. HasProp(a.conf, key) <=> \E i \in PropLines(f) : i <= n /\ KeyAt(f, i) = key
        <4> HIDE DEF key
        <4>1. QED
          BY <1>2, <2>1, HasPropIs
      <3>3. CASE HasProp(a.conf, key)
        <4>1. b = [a EXCEPT !.status = 1]
          BY <2>1, <2>4, <3>3 DEF ParseLine
        <4>2. b = [status |-> 1, section |-> a.section, conf |-> a.conf]
          BY <1>2, <4>1
        <4>3. PICK i \in PropLines(f) : i <= n /\ KeyAt(f, i) = key
          BY <3>2, <3>3
        <4>4. i \in Nat /\ i <= n + 1 /\ i # n + 1
          BY <1>3, <4>3
        <4>5. ~ClearTo(f, n + 1)
          BY <3>1, <4>3, <4>4 DEF ClearTo
        <4>6. b.status # 0 /\ b.section = a.section /\ b.conf = a.conf
          BY <4>2
        <4> HIDE DEF b, line, key
        <4>7. b = [status |-> b.status, section |-> b.section, conf |-> b.conf]
          BY <4>2
        <4>8. QED
          BY <1>2, <4>5, <4>6, <4>7 DEF ReadTo, b, line
      <3>4. CASE ~HasProp(a.conf, key)
        <4> DEFINE d == Insert(a.conf, key, line.value)
        <4>1. b = [a EXCEPT !.conf = Insert(@, key, line.value)]
          BY <2>1, <2>4, <3>4 DEF ParseLine
        <4>2. b = [status |-> 0, section |-> a.section, conf |-> d]
          <5> HIDE DEF key, line
          <5>1. [a EXCEPT !.conf = Insert(@, key, line.value)] = [a EXCEPT !.conf = d]
            BY <1>2
          <5> HIDE DEF d, b
          <5>2. QED
            BY <1>2, <2>1, <4>1, <5>1
        <4>3. key \in Seq(Words) \ {<< >>}
          BY <3>1, KeyTyped
        <4>4. line.value \in Values
          BY <1>1, <2>4, LinesAre
        <4>5. Config(d) /\ d.entries = Append(a.conf.entries, [key |-> key, value |-> line.value])
          <5> HIDE DEF key, line
          <5>1. QED
            BY <1>2, <3>4, <4>3, <4>4, InsertKeeps DEF line, key
        <4>6. Told(f, n + 1, d)
          <5> HIDE DEF d, key
          <5>1. d.entries = Append(a.conf.entries, [key |-> KeyAt(f, n + 1), value |-> f[n + 1].value])
            BY <3>1, <4>5
          <5> HIDE DEF line
          <5>2. QED
            BY <1>2, <2>1, <3>1, <5>1, ToldMore
        <4>7. \A i \in PropLines(f) : i <= n + 1 => (i <= n \/ i = n + 1)
          BY <1>3
        <4>8. ClearTo(f, n + 1)
          <5>1. \A i \in 1..n + 1 : f[i].kind # "bad"
            BY <1>4, <1>7, <2>4 DEF ClearTo
          <5>2. ASSUME NEW i \in PropLines(f), NEW j \in PropLines(f), i <= n + 1, j <= n + 1, i # j
                PROVE  KeyAt(f, i) # KeyAt(f, j)
            <6>1. i <= n \/ i = n + 1
              BY <4>7, <5>2
            <6>2. j <= n \/ j = n + 1
              BY <4>7, <5>2
            <6>3. CASE i <= n /\ j <= n
              BY <1>7, <5>2, <6>3 DEF ClearTo
            <6>4. CASE i = n + 1 /\ j <= n
              BY <3>1, <3>2, <3>4, <6>4
            <6>5. CASE i <= n /\ j = n + 1
              BY <3>1, <3>2, <3>4, <6>5
            <6>6. QED
              BY <5>2, <6>1, <6>2, <6>3, <6>4, <6>5
          <5>3. QED
            BY <5>1, <5>2 DEF ClearTo
        <4> HIDE DEF d, key
        <4>9. b.status = 0 /\ b.section = a.section /\ b.conf = d
          BY <4>2
        <4>10. SectionAt(f, (n + 1) + 1) = SectionAt(f, n + 1)
          BY <2>2, <2>4
        <4> HIDE DEF b, line
        <4>11. QED
          BY <2>1, <4>2, <4>5, <4>6, <4>8, <4>9, <4>10 DEF ReadTo, b, line
      <3>5. QED
        BY <3>3, <3>4
    <2>5. CASE line.kind = "bad"
      <3>1. b = [a EXCEPT !.status = 1]
        BY <2>1, <2>5 DEF ParseLine
      <3>2. b = [status |-> 1, section |-> a.section, conf |-> a.conf]
        BY <1>2, <3>1
      <3>3. ~ClearTo(f, n + 1)
        BY <1>4, <2>5 DEF ClearTo
      <3>4. b.status # 0 /\ b.section = a.section /\ b.conf = a.conf
        BY <3>2
      <3> HIDE DEF b, line
      <3>5. QED
        BY <1>2, <3>2, <3>3, <3>4 DEF ReadTo, b, line
    <2>6. QED
      BY <1>1, <2>3, <2>4, <2>5
  <1>8. QED
    BY <1>6, <1>7

\* The parser, line by line.
Reads(f, acc) ==
  /\ acc[0] = Base /\ acc[Len(f)] = Parse(f)
  /\ \A n \in 1..Len(f) : acc[n] = ParseLine(acc[n - 1], f[n])
  /\ \A n \in 0..Len(f) : ReadTo(f, n, acc[n])

LEMMA ParseGoesOn ==
  ASSUME NEW f \in Seq(Lines)
  PROVE  \E acc : Reads(f, acc)
  <1> DEFINE N == Len(f)
  <1>1. N \in Nat /\ DOMAIN f = 1..N
    OBVIOUS
  <1>2. PICK acc : /\ acc[0] = Base /\ acc[N] = Parse(f)
                   /\ \A n \in 1..N : acc[n] = ParseLine(acc[n - 1], f[n])
    BY <1>1, ParseIsAFold
  <1> DEFINE P == {n \in Nat : n <= N => ReadTo(f, n, acc[n])}
  <1>3. 0 \in P
    <2>1. Config(NoConfig)
      <3>1. NoConfig.sections = << >> /\ NoConfig.entries = << >>
        BY DEF NoConfig
      <3>2. Nested(<< >>)
        BY DEF Nested
      <3>3. QED
        BY <3>1, <3>2 DEF Config, NoConfig, Keyed
    <2>2. SectionAt(f, 0 + 1) = << >>
      <3>1. {j \in 1..((0 + 1) - 1) : f[j].kind = "section"} = {}
        OBVIOUS
      <3>2. QED
        BY <3>1 DEF SectionAt
    <2>3. \A i \in PropLines(f) : ~(i <= 0)
      BY DEF PropLines
    <2>4. ClearTo(f, 0)
      BY <2>3 DEF ClearTo
    <2>5. Told(f, 0, NoConfig)
      <3> DEFINE at == [k \in 1..0 |-> 0]
      <3>1. Len(NoConfig.entries) = 0
        BY DEF NoConfig
      <3>2. at \in [1..0 -> {i \in PropLines(f) : i <= 0}]
        OBVIOUS
      <3> HIDE DEF at
      <3>3. Holds(f, 0, NoConfig, at)
        BY <2>3, <3>1, <3>2 DEF Holds
      <3>4. QED
        BY <3>3 DEF Told
    <2>6. Base.status = 0 /\ Base.section = << >> /\ Base.conf = NoConfig
      BY DEF Base
    <2>7. ReadTo(f, 0, Base)
      BY <2>1, <2>2, <2>4, <2>5, <2>6 DEF ReadTo, Base
    <2>8. QED
      BY <1>2, <2>7
  <1>4. ASSUME NEW n \in Nat, n \in P PROVE n + 1 \in P
    <2>1. SUFFICES ASSUME n + 1 <= N PROVE ReadTo(f, n + 1, acc[n + 1])
      OBVIOUS
    <2>2. ReadTo(f, n, acc[n])
      BY <1>1, <1>4, <2>1
    <2>3. n + 1 \in 1..Len(f) /\ (n + 1) - 1 = n
      BY <1>1, <2>1
    <2>4. acc[n + 1] = ParseLine(acc[n], f[n + 1])
      BY <1>2, <2>3
    <2>5. QED
      BY <2>2, <2>3, <2>4, ReadNext
  <1>5. Nat \subseteq P
    <2> HIDE DEF P
    <2>1. QED
      BY <1>3, <1>4, Induction
  <1>6. ASSUME NEW n \in 0..N PROVE ReadTo(f, n, acc[n])
    <2>1. n \in Nat /\ n <= N
      BY <1>1
    <2>2. QED
      BY <1>5, <2>1
  <1>7. QED
    BY <1>2, <1>6 DEF Reads

\* The config_data that the parser makes of a file is a tree, and holds what the
\* lines say.
Understood(f) ==
  LET p == Parse(f) IN
  /\ Config(p.conf)
  /\ p.status = 0 <=> IsClear(f)
  /\ IsClear(f) => Told(f, Len(f), p.conf)

\* parse_config_fd: it accepts the files whose lines are all well-formed and
\* have different keys, and no others, and of those it makes the config_data
\* with exactly the entries that the lines state, each under its section.
THEOREM ParseReads ==
  ASSUME NEW f \in Seq(Lines)
  PROVE  Understood(f)
  <1> DEFINE N == Len(f)
  <1>1. N \in Nat /\ N \in 0..N
    OBVIOUS
  <1>2. PICK acc : Reads(f, acc)
    BY ParseGoesOn
  <1>3. ReadTo(f, N, Parse(f))
    BY <1>1, <1>2 DEF Reads
  <1>4. ClearTo(f, N) <=> IsClear(f)
    <2>1. \A i \in PropLines(f) : i <= N
      BY <1>1 DEF PropLines
    <2>2. QED
      BY <1>1, <2>1 DEF ClearTo, IsClear
  <1>5. QED
    BY <1>3, <1>4 DEF ReadTo, Understood

\* config_data_find after parse_config_fd: looking a key up finds what the file
\* says under it, and nothing where it says nothing.
THEOREM FindMeans ==
  ASSUME NEW f \in Seq(Lines), IsClear(f), NEW key
  PROVE  /\ HasProp(Parse(f).conf, key) <=> key \in DOMAIN Meaning(f)
         /\ key \in DOMAIN Meaning(f) =>
              Find(Parse(f).conf, key) = Meaning(f)[key] /\ Meaning(f)[key] \in Values
         /\ key \notin DOMAIN Meaning(f) => Find(Parse(f).conf, key) = NoValue
  <1> DEFINE c == Parse(f).conf
             n == Len(f)
             V(k) == f[CHOOSE i \in PropLines(f) : KeyAt(f, i) = k].value
             dom == {KeyAt(f, i) : i \in PropLines(f)}
  <1>1. Config(c) /\ Told(f, n, c)
    BY ParseReads DEF Understood
  <1>2. Meaning(f) = [k \in dom |-> V(k)]
    BY DEF Meaning
  <1>3. DOMAIN Meaning(f) = dom
    BY <1>2
  <1> HIDE DEF c
  <1>4. n \in Nat /\ \A i \in PropLines(f) : i <= n
    BY DEF PropLines
  <1>5. HasProp(c, key) <=> key \in dom
    <2>1. HasProp(c, key) <=> \E i \in PropLines(f) : i <= n /\ KeyAt(f, i) = key
      BY <1>1, HasPropIs
    <2>2. QED
      BY <1>4, <2>1
  <1>6. CASE key \in dom
    <2>1. Meaning(f)[key] = V(key)
      BY <1>2, <1>6
    <2>2. PICK at : Holds(f, n, c, at)
      BY <1>1 DEF Told
    <2> DEFINE i == IndexOf(c, key)
    <2>3. i \in 1..Len(c.entries) /\ c.entries[i].key = key
      BY <1>1, <1>5, <1>6, IndexFinds
    <2>4. Find(c, key) = c.entries[i].value
      BY <1>5, <1>6 DEF Find
    <2> HIDE DEF i
    <2>5. at[i] \in PropLines(f)
      BY <2>2, <2>3 DEF Holds
    <2>6. c.entries[i] = [key |-> KeyAt(f, at[i]), value |-> f[at[i]].value]
      BY <2>2, <2>3 DEF Holds
    <2>7. c.entries[i].key = KeyAt(f, at[i]) /\ c.entries[i].value = f[at[i]].value
      BY <2>6
    <2>8. KeyAt(f, at[i]) = key /\ Find(c, key) = f[at[i]].value
      BY <2>3, <2>4, <2>7
    <2>9. \A j \in PropLines(f) : KeyAt(f, j) = key => j = at[i]
      BY <2>5, <2>8 DEF IsClear
    <2>10. (CHOOSE j \in PropLines(f) : KeyAt(f, j) = key) = at[i]
      BY <2>5, <2>8, <2>9
    <2>11. V(key) = f[at[i]].value
      BY <2>10
    <2>12. f[at[i]].value \in Values
      <3>1. f[at[i]] \in Lines /\ f[at[i]].kind = "prop"
        BY <2>5 DEF PropLines
      <3>2. QED
        BY <3>1, LinesAre
    <2>13. QED
      BY <1>3, <1>5, <1>6, <2>1, <2>8, <2>11, <2>12 DEF c
  <1>7. CASE key \notin dom
    <2>1. Find(c, key) = NoValue
      BY <1>5, <1>7 DEF Find
    <2>2. QED
      BY <1>3, <1>5, <1>7, <2>1 DEF c
  <1>8. QED
    BY <1>6, <1>7

-----------------------------------------------------------------------------
(* The node visitor and the lines it writes.                               *)

\* A child of a section is the section, and a name more.
LEMMA ChildrenAre ==
  ASSUME NEW c, Config(c), NEW path, NEW n \in 1..Len(Children(c, path))
  PROVE  /\ Children(c, path)[n] \in Seq(Words) \ {<< >>}
         /\ Front(Children(c, path)[n]) = path
  <1> DEFINE T == Seq(Words) \ {<< >>}
             s == c.sections
             D == {i \in DOMAIN s : s[i] # << >> /\ Front(s[i]) = path}
             r == Children(c, path)
  <1>1. s \in Seq(T)
    BY DEF Config, Nested
  <1>2. r = AtPlaces(s, D)
    BY DEF Children
  <1> HIDE DEF T, D, r
  <1>3. PICK at : Picked(s, T, D, r, Len(s), at)
    BY <1>1, <1>2, AtPlacesAre
  <1>4. n \in 1..Len(r)
    BY DEF r
  <1>5. at[n] \in D /\ r[n] = s[at[n]] /\ r \in Seq(T)
    BY <1>3, <1>4 DEF Picked
  <1>6. r[n] \in T
    BY <1>4, <1>5
  <1>7. Front(s[at[n]]) = path
    BY <1>5 DEF D
  <1>8. QED
    BY <1>5, <1>6, <1>7 DEF r, T

\* The entries of a node are entries.
LEMMA EntriesOfTyped ==
  ASSUME NEW c, Config(c), NEW path
  PROVE  EntriesOf(c, path) \in Seq(Entry)
  <1> DEFINE s == c.entries
             D == {i \in DOMAIN s : Front(s[i].key) = path}
  <1>1. s \in Seq(Entry)
    BY DEF Config
  <1>2. EntriesOf(c, path) = AtPlaces(s, D)
    BY DEF EntriesOf
  <1> HIDE DEF D
  <1>3. PICK at : Picked(s, Entry, D, AtPlaces(s, D), Len(s), at)
    BY <1>1, AtPlacesAre
  <1>4. QED
    BY <1>2, <1>3 DEF Picked

\* What is written of an entry is a line.
LEMMA WrittenIsALine ==
  ASSUME NEW e \in Entry
  PROVE  WrittenLine(e) \in Lines
  <1>1. e.key \in Seq(Words) \ {<< >>} /\ e.value \in Values
    BY DEF Entry
  <1> DEFINE w == Last(e.key)
  <1>2. w \in Words
    BY <1>1, FrontLast
  <1> HIDE DEF w
  <1>3. <<w>> \in Seq(Words) \ {<< >>}
    BY <1>2
  <1>4. PropLine(<<w>>, e.value) \in Lines
    BY <1>1, <1>3 DEF PropLine, Lines
  <1>5. BadLine \in Lines
    BY DEF Lines
  <1>6. QED
    BY <1>4, <1>5 DEF WrittenLine, w

\* A node that has entries has lines.
LEMMA NodeLinesAre ==
  ASSUME NEW c, Config(c), NEW path \in Seq(Words), EntriesOf(c, path) # << >>
  PROVE  NodeLines(c, path) \in Seq(Lines) /\ NodeLines(c, path) # << >>
  <1> DEFINE E == EntriesOf(c, path)
             h == IF path = << >> THEN << >> ELSE <<SectionLine(path)>>
             t == [i \in DOMAIN E |-> WrittenLine(E[i])]
  <1>1. E \in Seq(Entry) /\ E # << >>
    BY EntriesOfTyped
  <1>2. SectionLine(path) \in Lines
    BY DEF SectionLine, Lines
  <1>3. h \in Seq(Lines)
    <2> DEFINE l == SectionLine(path)
    <2> HIDE DEF l
    <2>1. l \in Lines
      BY <1>2 DEF l
    <2>2. <<l>> \in Seq(Lines) /\ << >> \in Seq(Lines)
      BY <2>1
    <2>3. QED
      BY <2>2 DEF l
  <1>4. t \in Seq(Lines) /\ t # << >>
    <2> HIDE DEF E
    <2>1. Len(E) \in Nat /\ DOMAIN E = 1..Len(E) /\ Len(E) # 0
      BY <1>1
    <2>2. \A i \in DOMAIN E : WrittenLine(E[i]) \in Lines
      BY <1>1, WrittenIsALine
    <2>3. t \in [1..Len(E) -> Lines]
      BY <2>1, <2>2
    <2>4. t \in Seq(Lines)
      BY <2>1, <2>3
    <2>5. DOMAIN t = 1..Len(E) /\ 1 \in 1..Len(E)
      BY <2>1
    <2> HIDE DEF t
    <2>6. t # << >>
      BY <2>5
    <2>7. QED
      BY <2>4, <2>6
  <1>5. NodeLines(c, path) = h \o t
    BY DEF NodeLines
  <1> HIDE DEF h, t
  <1>6. h \o t \in Seq(Lines)
    BY <1>3, <1>4
  <1>7. h \o t # << >>
    BY <1>3, <1>4, JoinedEmpty
  <1>8. QED
    BY <1>5, <1>6, <1>7

\* The node visitor: its stack is as deep as its node.
IsVisitor(v) ==
  /\ v.begun \in BOOLEAN
  /\ v.node \in Seq(Words) /\ v.stack \in Seq(Nat \ {0})
  /\ Len(v.stack) = Len(v.node)

\* The visitor at a node.
LEMMA BegunIs ==
  ASSUME NEW node \in Seq(Words), NEW stack \in Seq(Nat \ {0}), Len(stack) = Len(node)
  PROVE  IsVisitor(Begun(node, stack))
  BY DEF IsVisitor, Begun

\* A child is one deeper.
LEMMA Deeper ==
  ASSUME NEW c, Config(c), NEW path \in Seq(Words), NEW n \in 1..Len(Children(c, path))
  PROVE  Children(c, path)[n] \in Seq(Words) /\ Len(Children(c, path)[n]) = Len(path) + 1
  <1> DEFINE k == Children(c, path)[n]
  <1>1. k \in Seq(Words) \ {<< >>} /\ Front(k) = path
    BY ChildrenAre
  <1> HIDE DEF k
  <1>2. Len(Front(k)) = Len(k) - 1
    BY <1>1, FrontLast
  <1>3. Len(k) \in Nat /\ Len(path) = Len(k) - 1
    BY <1>1, <1>2
  <1>4. Len(k) = Len(path) + 1
    BY <1>3
  <1>5. QED
    BY <1>1, <1>4 DEF k

\* The children of a section are sections.
LEMMA ChildrenLen ==
  ASSUME NEW c, Config(c), NEW path
  PROVE  Children(c, path) \in Seq(Seq(Words) \ {<< >>})
  <1> DEFINE T == Seq(Words) \ {<< >>}
             s == c.sections
             D == {i \in DOMAIN s : s[i] # << >> /\ Front(s[i]) = path}
  <1>1. s \in Seq(T)
    BY DEF Config, Nested
  <1>2. Children(c, path) = AtPlaces(s, D)
    BY DEF Children
  <1> HIDE DEF T, D
  <1>3. PICK at : Picked(s, T, D, AtPlaces(s, D), Len(s), at)
    BY <1>1, AtPlacesAre
  <1>4. QED
    BY <1>2, <1>3 DEF Picked, T

\* node_visitor_next keeps the stack as deep as the node.
LEMMA VisitorGoesOn ==
  ASSUME NEW c, Config(c), NEW v, IsVisitor(v), HasNext(c, v)
  PROVE  IsVisitor(NextNode(c, v))
  <1>1. v.node \in Seq(Words) /\ v.stack \in Seq(Nat \ {0}) /\ Len(v.stack) = Len(v.node)
    BY DEF IsVisitor
  <1>2. CASE ~v.begun
    <2>1. NextNode(c, v) = Begun(<< >>, << >>)
      BY <1>2 DEF NextNode
    <2>2. << >> \in Seq(Words) /\ << >> \in Seq(Nat \ {0})
      OBVIOUS
    <2>3. QED
      BY <2>1, <2>2, BegunIs
  <1>3. CASE v.begun /\ Children(c, v.node) # << >>
    <2> DEFINE K == Children(c, v.node)
    <2>1. K \in Seq(Seq(Words) \ {<< >>}) /\ K # << >>
      BY <1>3, ChildrenLen
    <2> HIDE DEF K
    <2>2. 1 \in 1..Len(K)
      BY <2>1
    <2>3. K[1] \in Seq(Words) /\ Len(K[1]) = Len(v.node) + 1
      BY <1>1, <2>2, Deeper DEF K
    <2>4. Append(v.stack, 1) \in Seq(Nat \ {0}) /\ Len(Append(v.stack, 1)) = Len(v.stack) + 1
      BY <1>1
    <2>5. NextNode(c, v) = Begun(K[1], Append(v.stack, 1))
      BY <1>3 DEF NextNode, Descend, K
    <2>6. QED
      BY <1>1, <2>3, <2>4, <2>5, BegunIs
  <1>4. CASE v.begun /\ Children(c, v.node) = << >>
    <2> DEFINE L == Levels(c, v)
               j == CHOOSE j \in L : \A i \in L : i <= j
               n == v.stack[j] + 1
               p == SubSeq(v.node, 1, j - 1)
               q == SubSeq(v.stack, 1, j - 1)
               K == Children(c, p)
    <2>1. L # {} /\ L \subseteq 1..Len(v.stack)
      BY <1>1, <1>4 DEF HasNext, Levels
    <2>2. j \in L
      <3> HIDE DEF L
      <3>1. L \subseteq 0..Len(v.stack) /\ Len(v.stack) \in Nat
        BY <1>1, <2>1
      <3>2. \E i \in L : \A k \in L : k <= i
        BY <2>1, <3>1, GreatestExists
      <3>3. QED
        BY <3>2
    <2>3. NextNode(c, v) = Begun(K[n], Append(q, n))
      BY <1>4 DEF NextNode, Climb
    <2>4. v.stack[j] < Len(K)
      <3> HIDE DEF j
      <3>1. QED
        BY <2>2 DEF Levels
    <2> HIDE DEF j, L
    <2>5. j \in 1..Len(v.stack) /\ v.stack[j] \in Nat \ {0}
      BY <1>1, <2>1, <2>2
    <2>6. K \in Seq(Seq(Words) \ {<< >>})
      BY ChildrenLen
    <2> HIDE DEF K
    <2>7. n \in 1..Len(K) /\ n \in Nat \ {0}
      BY <2>4, <2>5, <2>6
    <2>8. p \in Seq(Words) /\ Len(p) = j - 1
      <3>1. j - 1 \in 0..Len(v.node)
        BY <1>1, <2>5
      <3>2. QED
        BY <1>1, <3>1, Beginning
    <2>9. q \in Seq(Nat \ {0}) /\ Len(q) = j - 1
      <3>1. j - 1 \in 0..Len(v.stack)
        BY <2>5
      <3>2. QED
        BY <1>1, <3>1, Beginning
    <2> HIDE DEF p, q, n
    <2>10. K[n] \in Seq(Words) /\ Len(K[n]) = Len(p) + 1
      BY <2>7, <2>8, Deeper DEF K
    <2>11. Append(q, n) \in Seq(Nat \ {0}) /\ Len(Append(q, n)) = Len(q) + 1
      BY <2>7, <2>9
    <2>12. Len(Append(q, n)) = Len(K[n])
      BY <2>8, <2>9, <2>10, <2>11
    <2>13. QED
      BY <2>3, <2>10, <2>11, <2>12, BegunIs
  <1>5. QED
    BY <1>1, <1>2, <1>3, <1>4 DEF IsVisitor

\* What is left of a cut-off line is a line, or nothing.
LEMMA CutLinesAre ==
  ASSUME NEW line \in Lines, NEW cut \in CutLines(line)
  PROVE  cut \in Seq(Lines)
  <1>1. BadLine \in Lines
    BY DEF Lines
  <1>2. << >> \in Seq(Lines) /\ <<BadLine>> \in Seq(Lines)
    <2> DEFINE l == BadLine
    <2> HIDE DEF l
    <2>1. l \in Lines
      BY <1>1 DEF l
    <2>2. << >> \in Seq(Lines) /\ <<l>> \in Seq(Lines)
      BY <2>1
    <2>3. QED
      BY <2>2 DEF l
  <1>3. ASSUME line.kind = "prop", NEW v \in Values PROVE <<PropLine(line.name, v)>> \in Seq(Lines)
    <2> DEFINE l == PropLine(line.name, v)
    <2>1. line.name \in Seq(Words) \ {<< >>}
      BY <1>3, LinesAre
    <2>2. l \in Lines
      BY <2>1 DEF PropLine, Lines
    <2> HIDE DEF l
    <2>3. <<l>> \in Seq(Lines)
      BY <2>2
    <2>4. QED
      BY <2>3 DEF l
  <1>4. cut \in {<< >>, <<BadLine>>} \/ (line.kind = "prop" /\ \E v \in Values : cut = <<PropLine(line.name, v)>>)
    BY DEF CutLines
  <1>5. QED
    BY <1>2, <1>3, <1>4

-----------------------------------------------------------------------------
(* The variables: the configuration is a tree.                             *)

\* The inductive invariant: the kinds of all variables, and what a command that
\* is at work is.
Shape ==
  /\ file \in Seq(Lines)
  /\ Config(conf)
  /\ pc \in {"idle", "open", "visit", "lines"}
  /\ IsVisitor(visitor)
  /\ lines \in Seq(Lines)
  /\ pc = "lines" => lines # << >>
  /\ pc # "idle" => cmd.op \in {"set", "unset"}
  /\ status \in {"none", "done", "missing", "invalid", "died", "crashed"}
  /\ full \in BOOLEAN

\* No command is at work.
LEMMA Idle ==
  Config(NoConfig) /\ IsVisitor(NotBegun) /\ << >> \in Seq(Lines)
  <1>1. NoConfig.sections = << >> /\ NoConfig.entries = << >>
    BY DEF NoConfig
  <1>2. Nested(<< >>)
    BY DEF Nested
  <1>3. Config(NoConfig)
    BY <1>1, <1>2 DEF Config, NoConfig, Keyed
  <1>4. IsVisitor(NotBegun)
    BY DEF IsVisitor, NotBegun
  <1>5. QED
    BY <1>3, <1>4

\* A command that ends leaves nothing behind.
LEMMA ExitKeeps ==
  ASSUME Shape, NEW s \in {"none", "done", "missing", "invalid", "died", "crashed"}, Exit(s),
         file' \in Seq(Lines), full' \in BOOLEAN
  PROVE  Shape'
  <1>1. pc' = "idle" /\ status' = s /\ conf' = NoConfig /\ lines' = << >> /\ visitor' = NotBegun
    BY DEF Exit
  <1>2. Config(conf)' /\ IsVisitor(visitor)'
    <2>1. Config(conf') /\ IsVisitor(visitor')
      BY <1>1, Idle
    <2>2. QED
      BY <2>1 DEF Config, IsVisitor, Nested, Entry, Words
  <1>3. QED
    BY <1>1, <1>2, Idle DEF Shape

\* It holds at first.
LEMMA KindsAtFirst ==
  Init => Shape
  BY FilesAssumption, Idle DEF Init, Shape

\* Any state of the kinds of the next one.
LEMMA ShapeNext ==
  ASSUME file' \in Seq(Lines), Config(conf'), pc' \in {"idle", "open", "visit", "lines"},
         IsVisitor(visitor'), lines' \in Seq(Lines), pc' = "lines" => lines' # << >>,
         pc' # "idle" => cmd'.op \in {"set", "unset"},
         status' \in {"none", "done", "missing", "invalid", "died", "crashed"}, full' \in BOOLEAN
  PROVE  Shape'
  BY DEF Shape, Config, IsVisitor, Nested, Entry, Words

\* Set, unset and the steps of write_config keep it.
LEMMA SetKeepsShape ==
  ASSUME Shape, NEW k \in Keys, NEW v \in Values, Set(k, v)
  PROVE  Shape'
  <1> DEFINE c == Parse(file).conf
  <1>1. Config(c)
    BY ParseReads DEF Shape, Understood
  <1>2. k \in Seq(Words) \ {<< >>}
    BY ConfigStoreAssumption, FilesAssumption
  <1>3. /\ conf' = IF HasProp(c, k) THEN Update(c, k, v) ELSE Insert(c, k, v)
        /\ cmd'.op = "set" /\ pc' = "open" /\ file' = file /\ visitor' = visitor
        /\ lines' = lines /\ status' = status /\ full' = full
    BY DEF Set
  <1> HIDE DEF c
  <1>4. Config(conf')
    <2>1. CASE HasProp(c, k)
      BY <1>1, <1>3, <2>1, UpdateKeeps
    <2>2. CASE ~HasProp(c, k)
      BY <1>1, <1>2, <1>3, <2>2, InsertKeeps
    <2>3. QED
      BY <2>1, <2>2
  <1>5. QED
    BY <1>3, <1>4, ShapeNext DEF Shape

LEMMA UnsetKeepsShape ==
  ASSUME Shape, NEW k \in Keys, Unset(k)
  PROVE  Shape'
  <1> DEFINE c == Parse(file).conf
  <1>1. Config(c)
    BY ParseReads DEF Shape, Understood
  <1>2. /\ conf' = IF HasProp(c, k) THEN Delete(c, k) ELSE c
        /\ cmd'.op = "unset" /\ pc' = "open" /\ file' = file /\ visitor' = visitor
        /\ lines' = lines /\ status' = status /\ full' = full
    BY DEF Unset
  <1> HIDE DEF c
  <1>3. Config(conf')
    BY <1>1, <1>2, DeleteKeeps
  <1>4. QED
    BY <1>2, <1>3, ShapeNext DEF Shape

\* The actions that end the command, or that leave the file to an editor.
LEMMA EndsKeepShape ==
  ASSUME Shape,
         \/ \E k \in Keys : ParseFails(k)
         \/ \E k \in Keys, fallback \in BOOLEAN : Query(k, fallback)
         \/ ValidateConfig \/ EditConfig \/ VisitFails \/ WriteFails \/ WriteDone \/ Kill
  PROVE  Shape'
  <1>1. ASSUME NEW k \in Keys, ParseFails(k) PROVE Shape'
    BY <1>1, ExitKeeps DEF ParseFails, Shape
  <1>2. ASSUME NEW k \in Keys, NEW fallback \in BOOLEAN, Query(k, fallback) PROVE Shape'
    <2>1. PICK s \in {"missing", "done"} : Exit(s)
      BY <1>2 DEF Query
    <2>2. file' \in Seq(Lines) /\ full' \in BOOLEAN
      BY <1>2 DEF Query, Shape
    <2>3. QED
      BY <2>1, <2>2, ExitKeeps
  <1>3. ASSUME ValidateConfig PROVE Shape'
    <2>1. PICK s \in {"done", "invalid"} : Exit(s)
      BY <1>3 DEF ValidateConfig
    <2>2. file' \in Seq(Lines) /\ full' \in BOOLEAN
      BY <1>3 DEF ValidateConfig, Shape
    <2>3. QED
      BY <2>1, <2>2, ExitKeeps
  <1>4. ASSUME EditConfig PROVE Shape'
    <2>1. file' \in Seq(Lines) /\ full' \in BOOLEAN
      BY <1>4, FilesAssumption DEF EditConfig, Shape
    <2>2. Exit("done") \/ Exit("died")
      BY <1>4 DEF EditConfig
    <2>3. QED
      BY <2>1, <2>2, ExitKeeps
  <1>5. ASSUME VisitFails PROVE Shape'
    BY <1>5, ExitKeeps DEF VisitFails, Shape
  <1>6. ASSUME WriteFails PROVE Shape'
    <2>1. lines \in Seq(Lines) /\ lines # << >> /\ file \in Seq(Lines)
      BY <1>6 DEF WriteFails, Shape
    <2>2. Head(lines) \in Lines
      BY <2>1
    <2>3. PICK cut \in CutLines(Head(lines)) : file' = file \o cut
      BY <1>6 DEF WriteFails
    <2>4. cut \in Seq(Lines)
      BY <2>2, CutLinesAre
    <2>5. file' \in Seq(Lines)
      BY <2>1, <2>3, <2>4
    <2>6. Exit("died") /\ full' \in BOOLEAN
      BY <1>6 DEF WriteFails, Shape
    <2>7. QED
      BY <2>5, <2>6, ExitKeeps
  <1>7. ASSUME WriteDone PROVE Shape'
    <2>1. PICK s \in {"missing", "done"} : Exit(s)
      BY <1>7 DEF WriteDone
    <2>2. file' \in Seq(Lines) /\ full' \in BOOLEAN
      BY <1>7 DEF WriteDone, Shape
    <2>3. QED
      BY <2>1, <2>2, ExitKeeps
  <1>8. ASSUME Kill PROVE Shape'
    BY <1>8, ExitKeeps DEF Kill, Shape
  <1>9. QED
    BY <1>1, <1>2, <1>3, <1>4, <1>5, <1>6, <1>7, <1>8

LEMMA VisitKeepsShape ==
  ASSUME Shape, VisitNode
  PROVE  Shape'
  <1> DEFINE next == NextNode(conf, visitor)
  <1>1. /\ visitor' = next /\ file' = file /\ conf' = conf /\ cmd' = cmd
        /\ status' = status /\ full' = full /\ pc = "visit"
        /\ IF EntriesOf(conf, next.node) = << >>
           THEN pc' = pc /\ lines' = lines
           ELSE pc' = "lines" /\ lines' = NodeLines(conf, next.node)
    BY DEF VisitNode
  <1>2. IsVisitor(next)
    BY VisitorGoesOn DEF VisitNode, Shape
  <1> HIDE DEF next
  <1>3. next.node \in Seq(Words)
    BY <1>2 DEF IsVisitor
  <1>4. Config(conf)
    BY DEF Shape
  <1>5. EntriesOf(conf, next.node) # << >> =>
          NodeLines(conf, next.node) \in Seq(Lines) /\ NodeLines(conf, next.node) # << >>
    BY <1>3, <1>4, NodeLinesAre
  <1>6. lines' \in Seq(Lines) /\ (pc' = "lines" => lines' # << >>) /\ pc' \in {"visit", "lines"}
    BY <1>1, <1>5 DEF Shape
  <1>7. QED
    BY <1>1, <1>2, <1>6, ShapeNext DEF Shape

LEMMA WriteKeepsShape ==
  ASSUME Shape, WriteLine
  PROVE  Shape'
  <1>1. lines \in Seq(Lines) /\ lines # << >> /\ file \in Seq(Lines)
    BY DEF WriteLine, Shape
  <1>2. Head(lines) \in Lines /\ Tail(lines) \in Seq(Lines)
    BY <1>1
  <1>3. /\ file' = Append(file, Head(lines)) /\ lines' = Tail(lines)
        /\ pc' = IF Tail(lines) = << >> THEN "visit" ELSE "lines"
        /\ conf' = conf /\ visitor' = visitor /\ cmd' = cmd /\ status' = status /\ full' = full
        /\ pc = "lines"
    BY DEF WriteLine
  <1>4. file' \in Seq(Lines)
    BY <1>1, <1>2, <1>3
  <1>5. QED
    BY <1>2, <1>3, <1>4, ShapeNext DEF Shape

\* So every step keeps it.
LEMMA KindsStay ==
  Shape /\ [Next]_vars => Shape'
  <1> SUFFICES ASSUME Shape, [Next]_vars PROVE Shape'
    OBVIOUS
  <1>1. CASE \E k \in Keys, v \in Values : Set(k, v)
    BY <1>1, SetKeepsShape
  <1>2. CASE \E k \in Keys : Unset(k)
    BY <1>2, UnsetKeepsShape
  <1>3. CASE \/ \E k \in Keys : ParseFails(k)
             \/ \E k \in Keys, fallback \in BOOLEAN : Query(k, fallback)
             \/ ValidateConfig \/ EditConfig \/ VisitFails \/ WriteFails \/ WriteDone \/ Kill
    BY <1>3, EndsKeepShape
  <1>4. CASE OpenConfig
    <2>1. file' = << >> /\ visitor' = NotBegun /\ pc' = "visit" /\ pc = "open"
      BY <1>4 DEF OpenConfig
    <2>2. conf' = conf /\ lines' = lines /\ cmd' = cmd /\ status' = status /\ full' = full
      BY <1>4 DEF OpenConfig
    <2>3. QED
      BY <2>1, <2>2, Idle, ShapeNext DEF Shape
  <1>5. CASE VisitNode
    BY <1>5, VisitKeepsShape
  <1>6. CASE WriteLine
    BY <1>6, WriteKeepsShape
  <1>7. CASE DiskFills
    <2>1. /\ full' = ~full /\ file' = file /\ conf' = conf /\ pc' = pc /\ visitor' = visitor
          /\ lines' = lines /\ cmd' = cmd /\ status' = status
      BY <1>7 DEF DiskFills
    <2>2. full' \in BOOLEAN
      BY <2>1 DEF Shape
    <2>3. QED
      BY <2>1, <2>2, ShapeNext DEF Shape
  <1>8. CASE UNCHANGED vars
    BY <1>8, ShapeNext DEF Shape, vars
  <1>9. QED
    BY <1>1, <1>2, <1>3, <1>4, <1>5, <1>6, <1>7, <1>8 DEF Next

\* It implies TypeOK.
LEMMA ShapeIsTyped ==
  Shape => TypeOK
  <1> SUFFICES ASSUME Shape PROVE TypeOK
    OBVIOUS
  <1>1. ASSUME NEW i \in DOMAIN conf.entries
        PROVE  conf.entries[i].value \in Values /\ conf.entries[i].key # << >>
    <2>1. conf.entries \in Seq(Entry)
      BY DEF Shape, Config
    <2>2. conf.entries[i] \in Entry
      BY <2>1
    <2>3. QED
      BY <2>2 DEF Entry
  <1>2. ASSUME NEW i \in DOMAIN conf.sections
        PROVE  /\ conf.sections[i] # << >>
               /\ \/ Len(conf.sections[i]) = 1
                  \/ \E j \in 1..(i - 1) : conf.sections[j] = Front(conf.sections[i])
    <2>1. Nested(conf.sections)
      BY DEF Shape, Config
    <2>2. conf.sections \in Seq(Seq(Words) \ {<< >>})
      BY <2>1 DEF Nested
    <2>3. i \in 1..Len(conf.sections)
      BY <2>2
    <2>4. conf.sections[i] \in Seq(Words) \ {<< >>}
      BY <2>2, <2>3
    <2>5. QED
      BY <2>1, <2>3, <2>4 DEF Nested
  <1>3. /\ visitor.begun \in BOOLEAN /\ Len(visitor.stack) = Len(visitor.node)
        /\ \A j \in DOMAIN visitor.stack : visitor.stack[j] \in Nat \ {0}
    BY DEF Shape, IsVisitor
  <1>4. ASSUME NEW i \in DOMAIN file PROVE file[i].kind \in {"section", "prop", "bad"}
    <2>1. file[i] \in Lines
      BY DEF Shape
    <2>2. QED
      BY <2>1, LinesAre
  <1>5. QED
    BY <1>1, <1>2, <1>3, <1>4 DEF Shape, TypeOK

\* TypeOK: in every reachable state the variables hold values of their kinds: a
\* subsection comes after the section it is in, and the index stack of the node
\* visitor is as deep as its node.
THEOREM ConfigsAreTrees ==
  Spec => []TypeOK
  <1>1. Init => Shape
    BY KindsAtFirst
  <1>2. Shape /\ [Next]_vars => Shape'
    BY KindsStay
  <1>3. Shape => TypeOK
    BY ShapeIsTyped
  <1>4. QED
    BY <1>1, <1>2, <1>3, PTL DEF Spec

-----------------------------------------------------------------------------
(* What the queries tell.                                                  *)

\* A query tells the truth of the file it parsed,
LEMMA QueryIsTrue ==
  ASSUME Shape, NEW k \in Keys, NEW fallback \in BOOLEAN, Query(k, fallback)
  PROVE  AnswersAreTrue'
  <1> DEFINE p == Parse(file)
             found == Find(p.conf, k)
             answer == IF found = NoValue /\ fallback THEN DefaultValue(k) ELSE found
             m == Meaning(file)
             said == IF k \in DOMAIN m THEN m[k] ELSE NoValue
  <1>1. /\ p.status = 0 /\ file' = file /\ pc' = "idle"
        /\ cmd' = [op |-> IF fallback THEN "get-or-default" ELSE "get", key |-> k,
                   value |-> answer, missing |-> found = NoValue]
        /\ status' = IF answer = NoValue THEN "missing" ELSE "done"
    BY DEF Query, Exit
  <1>2. file \in Seq(Lines)
    BY DEF Shape
  <1>3. IsClear(file)
    BY <1>1, <1>2, ParseReads DEF Understood
  <1>4. found = said
    BY <1>2, <1>3, FindMeans
  <1>5. /\ cmd'.op = IF fallback THEN "get-or-default" ELSE "get"
        /\ cmd'.key = k /\ cmd'.value = answer
    BY <1>1
  <1>6. answer = IF said = NoValue /\ fallback /\ Recognized(k) THEN Empty ELSE said
    BY <1>4 DEF DefaultValue
  <1> HIDE DEF answer, found, said, m, p
  <1>7. \/ fallback /\ cmd'.op = "get-or-default"
        \/ ~fallback /\ cmd'.op = "get"
    BY <1>5
  <1>8. cmd'.value = IF said = NoValue /\ cmd'.op = "get-or-default" /\ Recognized(k) THEN Empty ELSE said
    BY <1>5, <1>6, <1>7
  <1>9. cmd'.key = k /\ cmd'.op # "validate" /\ (status' = "missing" <=> cmd'.value = NoValue)
    BY <1>1, <1>5, <1>7
  <1>10. QED
    BY <1>1, <1>3, <1>8, <1>9 DEF AnswersAreTrue, said, m

\* and so does --is-valid-config.
LEMMA ValidationIsTrue ==
  ASSUME Shape, ValidateConfig
  PROVE  AnswersAreTrue'
  <1> DEFINE p == Parse(file)
             keys == {p.conf.entries[i].key : i \in DOMAIN p.conf.entries}
             valid == p.status = 0 /\ \A k \in keys : ValidSectionKey(Front(k)) /\ Recognized(k)
             m == Meaning(file)
  <1>1. /\ file' = file /\ cmd'.op = "validate"
        /\ status' = IF valid THEN "done" ELSE "invalid"
    BY DEF ValidateConfig, Exit
  <1>2. file \in Seq(Lines)
    BY DEF Shape
  <1>3. ASSUME valid PROVE IsClear(file) /\ \A k \in DOMAIN m : Recognized(k)
    <2>1. IsClear(file)
      BY <1>2, <1>3, ParseReads DEF Understood
    <2>2. ASSUME NEW k \in DOMAIN m PROVE Recognized(k)
      <3>1. HasProp(p.conf, k)
        BY <1>2, <2>1, FindMeans
      <3>2. k \in keys
        BY <3>1 DEF HasProp
      <3>3. QED
        BY <1>3, <3>2
    <2>3. QED
      BY <2>1, <2>2
  <1> HIDE DEF valid, m
  <1>4. QED
    BY <1>1, <1>3 DEF AnswersAreTrue, m

\* A step that is not a query leaves no answer, or the one there was.
LEMMA NoAnswer ==
  ASSUME \/ pc' # "idle"
         \/ cmd'.op \notin {"get", "get-or-default", "validate"}
         \/ status' \notin {"done", "missing"}
  PROVE  AnswersAreTrue'
  BY DEF AnswersAreTrue

\* An answer stays true until the next command.
LEMMA AnswersStay ==
  Shape /\ AnswersAreTrue /\ [Next]_vars => AnswersAreTrue'
  <1> SUFFICES ASSUME Shape, AnswersAreTrue, [Next]_vars PROVE AnswersAreTrue'
    OBVIOUS
  <1>1. ASSUME NEW k \in Keys, NEW v \in Values, Set(k, v) PROVE AnswersAreTrue'
    BY <1>1, NoAnswer DEF Set
  <1>2. ASSUME NEW k \in Keys, Unset(k) PROVE AnswersAreTrue'
    BY <1>2, NoAnswer DEF Unset
  <1>3. ASSUME NEW k \in Keys, ParseFails(k) PROVE AnswersAreTrue'
    BY <1>3, NoAnswer DEF ParseFails, Exit
  <1>4. CASE \E k \in Keys, fallback \in BOOLEAN : Query(k, fallback)
    BY <1>4, QueryIsTrue
  <1>5. CASE ValidateConfig
    BY <1>5, ValidationIsTrue
  <1>6. CASE EditConfig
    BY <1>6, NoAnswer DEF EditConfig
  <1>7. CASE OpenConfig
    BY <1>7, NoAnswer DEF OpenConfig
  <1>8. CASE VisitNode
    BY <1>8, NoAnswer DEF VisitNode
  <1>9. CASE VisitFails
    BY <1>9, NoAnswer DEF VisitFails, Exit
  <1>10. CASE WriteLine
    BY <1>10, NoAnswer DEF WriteLine
  <1>11. CASE WriteFails
    BY <1>11, NoAnswer DEF WriteFails, Exit
  <1>12. CASE WriteDone
    <2>1. cmd' = cmd /\ cmd.op \in {"set", "unset"}
      BY <1>12 DEF WriteDone, Shape
    <2>2. QED
      BY <2>1, NoAnswer
  <1>13. CASE Kill
    BY <1>13, NoAnswer DEF Kill, Exit
  <1>14. CASE DiskFills
    BY <1>14 DEF DiskFills, AnswersAreTrue
  <1>15. CASE UNCHANGED vars
    BY <1>15 DEF vars, AnswersAreTrue
  <1>16. QED
    BY <1>1, <1>2, <1>3, <1>4, <1>5, <1>6, <1>7, <1>8, <1>9, <1>10, <1>11, <1>12, <1>13,
       <1>14, <1>15 DEF Next

\* AnswersAreTrue: whatever edits, kills and editors have made of the file, a
\* query that reports success tells what its lines say, and a file that
\* --is-valid-config accepts has a meaning.
THEOREM QueriesTellTheTruth ==
  Spec => []AnswersAreTrue
  <1>1. Init => Shape /\ AnswersAreTrue
    BY KindsAtFirst DEF Init, AnswersAreTrue
  <1>2. Shape /\ AnswersAreTrue /\ [Next]_vars => Shape' /\ AnswersAreTrue'
    BY KindsStay, AnswersStay
  <1>3. QED
    BY <1>1, <1>2, PTL DEF Spec

-----------------------------------------------------------------------------
(* The walk over the tree: it goes through all the nodes, to each once.    *)

Nodes(c) == {<< >>} \cup ToSet(c.sections)

\* The children of a section are the sections that have one name more, each once.
LEMMA ChildrenAll ==
  ASSUME NEW c, Config(c), NEW path
  PROVE  LET K == Children(c, path) IN
         /\ K \in Seq(Seq(Words) \ {<< >>})
         /\ \A n \in 1..Len(K) : K[n] \in ToSet(c.sections) /\ Front(K[n]) = path
         /\ \A m, n \in 1..Len(K) : K[m] = K[n] => m = n
         /\ \A q \in ToSet(c.sections) : Front(q) = path => \E n \in 1..Len(K) : K[n] = q
  <1> DEFINE T == Seq(Words) \ {<< >>}
             s == c.sections
             D == {i \in DOMAIN s : s[i] # << >> /\ Front(s[i]) = path}
             K == Children(c, path)
  <1>1. s \in Seq(T) /\ \A i, j \in 1..Len(s) : s[i] = s[j] => i = j
    BY DEF Config, Nested
  <1>2. K = AtPlaces(s, D)
    BY DEF Children
  <1>3. K \in Seq(T)
    BY ChildrenLen
  <1>4. DOMAIN s = 1..Len(s) /\ Len(s) \in Nat /\ \A i \in DOMAIN s : s[i] \in T
    BY <1>1
  <1>5. ToSet(s) = {s[i] : i \in DOMAIN s}
    BY DEF ToSet
  <1>6. \A i \in D : i \in 1..Len(s) /\ Front(s[i]) = path
    BY <1>4
  <1>7. \A i \in 1..Len(s) : Front(s[i]) = path => i \in D
    BY <1>4
  <1> HIDE DEF D, K, T
  <1>8. PICK at : Picked(s, T, D, K, Len(s), at)
    BY <1>1, <1>2, AtPlacesAre
  <1>9. /\ at \in [1..Len(K) -> 1..Len(s)]
        /\ \A k \in 1..Len(K) : at[k] \in D /\ K[k] = s[at[k]]
        /\ \A k, l \in 1..Len(K) : k < l => at[k] < at[l]
        /\ \A i \in 1..Len(s) : i \in D => \E k \in 1..Len(K) : at[k] = i
    BY <1>8 DEF Picked
  <1>10. \A n \in 1..Len(K) : K[n] \in ToSet(s) /\ Front(K[n]) = path
    BY <1>4, <1>5, <1>6, <1>9
  <1>11. ASSUME NEW m \in 1..Len(K), NEW n \in 1..Len(K), K[m] = K[n] PROVE m = n
    <2>1. at[m] = at[n]
      BY <1>1, <1>9, <1>11
    <2>2. m < n \/ n < m \/ m = n
      BY <1>3
    <2>3. ~(at[m] < at[n]) /\ ~(at[n] < at[m])
      BY <1>4, <1>9, <2>1
    <2>4. QED
      BY <1>9, <2>2, <2>3
  <1>12. ASSUME NEW q \in ToSet(s), Front(q) = path PROVE \E n \in 1..Len(K) : K[n] = q
    <2>1. PICK i \in 1..Len(s) : s[i] = q
      BY <1>4, <1>5
    <2>2. i \in D
      BY <1>7, <1>12, <2>1
    <2>3. QED
      BY <1>9, <2>1, <2>2
  <1>13. QED
    BY <1>3, <1>10, <1>11, <1>12 DEF K, T

\* A section that is there has the sections above it.
LEMMA NodesAre ==
  ASSUME NEW c, Config(c), NEW p \in Nodes(c)
  PROVE  /\ p \in Seq(Words)
         /\ p # << >> => p \in ToSet(c.sections) /\ Front(p) \in Nodes(c)
  <1> DEFINE s == c.sections
  <1>1. s \in Seq(Seq(Words) \ {<< >>})
    BY DEF Config, Nested
  <1>2. CASE p = << >>
    BY <1>2
  <1>3. CASE p # << >>
    <2>1. p \in ToSet(s)
      BY <1>3 DEF Nodes
    <2>2. PICK i \in 1..Len(s) : s[i] = p
      BY <1>1, <2>1 DEF ToSet
    <2>3. p \in Seq(Words) \ {<< >>}
      BY <1>1, <2>2
    <2>4. Len(p) = 1 \/ \E j \in 1..(i - 1) : s[j] = Front(p)
      BY <2>2 DEF Config, Nested
    <2>5. CASE Len(p) = 1
      <3>1. Front(p) = << >>
        BY <2>3, <2>5 DEF Front
      <3>2. QED
        BY <2>1, <2>3, <3>1 DEF Nodes
    <2>6. CASE \E j \in 1..(i - 1) : s[j] = Front(p)
      <3>1. PICK j \in 1..(i - 1) : s[j] = Front(p)
        BY <2>6
      <3>2. j \in DOMAIN s
        BY <1>1, <2>2
      <3>3. Front(p) \in ToSet(s)
        BY <3>1, <3>2 DEF ToSet
      <3>4. QED
        BY <2>1, <2>3, <3>3 DEF Nodes
    <2>7. QED
      BY <2>4, <2>5, <2>6
  <1>4. QED
    BY <1>2, <1>3

LEMMA NodesAbove ==
  ASSUME NEW c, Config(c), NEW p \in Nodes(c), NEW n \in 0..Len(p)
  PROVE  SubSeq(p, 1, n) \in Nodes(c)
  <1> DEFINE N == Len(p)
             P == {m \in Nat : m <= N => SubSeq(p, 1, N - m) \in Nodes(c)}
  <1>1. p \in Seq(Words) /\ N \in Nat
    BY NodesAre
  <1>2. 0 \in P
    <2>1. SubSeq(p, 1, N - 0) = p
      BY <1>1
    <2>2. QED
      BY <2>1
  <1>3. ASSUME NEW m \in Nat, m \in P PROVE m + 1 \in P
    <2>1. SUFFICES ASSUME m + 1 <= N PROVE SubSeq(p, 1, N - (m + 1)) \in Nodes(c)
      OBVIOUS
    <2> DEFINE l == N - m
               q == SubSeq(p, 1, l)
    <2>2. l \in 1..N /\ N - (m + 1) = l - 1
      BY <1>1, <2>1
    <2>3. q \in Nodes(c)
      BY <1>1, <1>3, <2>1
    <2> HIDE DEF l
    <2>4. q \in Seq(Words) /\ Len(q) = l /\ q # << >>
      BY <1>1, <2>2
    <2>5. Front(q) = SubSeq(p, 1, l - 1)
      BY <1>1, <2>2, <2>4 DEF Front
    <2> HIDE DEF q
    <2>6. Front(q) \in Nodes(c)
      BY <2>3, <2>4, NodesAre
    <2>7. QED
      BY <2>2, <2>5, <2>6
  <1>4. N - n \in P
    <2>1. N - n \in Nat
      BY <1>1
    <2> HIDE DEF P
    <2>2. QED
      BY <1>2, <1>3, <2>1, Induction
  <1>5. N - n <= N /\ N - (N - n) = n
    BY <1>1
  <1>6. QED
    BY <1>4, <1>5

\* The way down to a section: the indexes of the sections on it.
LEMMA WayIs ==
  ASSUME NEW c, Config(c), NEW p \in Nodes(c)
  PROVE  /\ WayDown(c, p) \in Seq(Nat \ {0}) /\ Len(WayDown(c, p)) = Len(p)
         /\ \A j \in 1..Len(p) :
              /\ WayDown(c, p)[j] \in 1..Len(Children(c, SubSeq(p, 1, j - 1)))
              /\ Children(c, SubSeq(p, 1, j - 1))[WayDown(c, p)[j]] = SubSeq(p, 1, j)
  <1> DEFINE w == WayDown(c, p)
             N == Len(p)
  <1>1. p \in Seq(Words) /\ N \in Nat
    BY NodesAre
  <1>2. w = [j \in 1..N |-> IndexIn(Children(c, SubSeq(p, 1, j - 1)), SubSeq(p, 1, j))]
    BY DEF WayDown
  <1>3. ASSUME NEW j \in 1..N
        PROVE  /\ w[j] \in 1..Len(Children(c, SubSeq(p, 1, j - 1)))
               /\ Children(c, SubSeq(p, 1, j - 1))[w[j]] = SubSeq(p, 1, j)
    <2> DEFINE K == Children(c, SubSeq(p, 1, j - 1))
               q == SubSeq(p, 1, j)
    <2>1. q \in Nodes(c)
      BY <1>1, NodesAbove
    <2>2. q # << >> /\ Front(q) = SubSeq(p, 1, j - 1)
      BY <1>1 DEF Front
    <2>3. q \in ToSet(c.sections)
      BY <2>1, <2>2 DEF Nodes
    <2>4. K \in Seq(Seq(Words) \ {<< >>}) /\ \E n \in 1..Len(K) : K[n] = q
      <3> DEFINE r == SubSeq(p, 1, j - 1)
      <3>1. Front(q) = r /\ q \in ToSet(c.sections) /\ K = Children(c, r)
        BY <2>2, <2>3
      <3> HIDE DEF r, q, K
      <3>2. /\ Children(c, r) \in Seq(Seq(Words) \ {<< >>})
            /\ \A z \in ToSet(c.sections) : Front(z) = r =>
                 \E n \in 1..Len(Children(c, r)) : Children(c, r)[n] = z
        BY ChildrenAll
      <3>3. QED
        BY <3>1, <3>2
    <2>5. w[j] = IndexIn(K, q)
      BY <1>2
    <2> HIDE DEF K, q
    <2>6. DOMAIN K = 1..Len(K)
      BY <2>4
    <2>7. w[j] \in 1..Len(K) /\ K[w[j]] = q
      BY <2>4, <2>5, <2>6 DEF IndexIn
    <2>8. QED
      BY <2>7 DEF K, q
  <1>4. \A j \in 1..N : w[j] \in Nat \ {0}
    BY <1>3
  <1>5. w \in [1..N -> Nat \ {0}]
    <2>1. w = [j \in 1..N |-> w[j]]
      BY <1>2
    <2> HIDE DEF w
    <2>2. QED
      BY <1>4, <2>1
  <1> HIDE DEF w
  <1>6. w \in Seq(Nat \ {0}) /\ Len(w) = N
    BY <1>1, <1>5
  <1>7. QED
    BY <1>3, <1>6 DEF w

\* An index of a child is the one on the way to it.
LEMMA WayOfChild ==
  ASSUME NEW c, Config(c), NEW p \in Nodes(c), NEW n \in 1..Len(Children(c, p))
  PROVE  LET q == Children(c, p)[n] IN
         q \in Nodes(c) /\ WayDown(c, q) = Append(WayDown(c, p), n) /\ Len(q) = Len(p) + 1
  <1> DEFINE K == Children(c, p)
             q == K[n]
             m == Len(p)
  <1>1. p \in Seq(Words) /\ m \in Nat
    BY NodesAre
  <1>2. K \in Seq(Seq(Words) \ {<< >>}) /\ \A i, j \in 1..Len(K) : K[i] = K[j] => i = j
    BY ChildrenAll
  <1>3. q \in ToSet(c.sections) /\ Front(q) = p
    BY ChildrenAll
  <1>4. q \in Seq(Words) \ {<< >>}
    BY <1>2
  <1>5. Len(q) = m + 1
    BY <1>1, Deeper
  <1>6. q \in Nodes(c)
    BY <1>3 DEF Nodes
  <1>7. \A j \in 1..m + 1 : SubSeq(q, 1, j - 1) = SubSeq(p, 1, j - 1)
    <2> HIDE DEF q, K
    <2>1. SubSeq(q, 1, m) = p
      BY <1>3, <1>5 DEF Front
    <2>2. SUFFICES ASSUME NEW j \in 1..m + 1 PROVE SubSeq(q, 1, j - 1) = SubSeq(p, 1, j - 1)
      OBVIOUS
    <2>3. \A i \in 1..m : q[i] = p[i]
      BY <1>1, <1>4, <1>5, <2>1
    <2> DEFINE k == j - 1
    <2>4. k \in 0..m /\ k \in 0..Len(q)
      BY <1>1, <1>5
    <2> HIDE DEF k
    <2>5. /\ SubSeq(q, 1, k) \in Seq(Words) /\ Len(SubSeq(q, 1, k)) = k
          /\ \A i \in 1..k : SubSeq(q, 1, k)[i] = q[i]
      BY <1>4, <2>4, Beginning
    <2>6. /\ SubSeq(p, 1, k) \in Seq(Words) /\ Len(SubSeq(p, 1, k)) = k
          /\ \A i \in 1..k : SubSeq(p, 1, k)[i] = p[i]
      BY <1>1, <2>4, Beginning
    <2>7. \A i \in 1..k : SubSeq(q, 1, k)[i] = SubSeq(p, 1, k)[i]
      BY <1>1, <2>3, <2>4, <2>5, <2>6
    <2>8. SubSeq(q, 1, k) = SubSeq(p, 1, k)
      BY <2>5, <2>6, <2>7
    <2>9. QED
      BY <2>8 DEF k
  <1>8. SubSeq(q, 1, m + 1) = q /\ SubSeq(p, 1, m) = p
    <2> HIDE DEF q
    <2>1. QED
      BY <1>1, <1>4, <1>5
  <1> DEFINE w == WayDown(c, q)
             v == WayDown(c, p)
  <1>9. w = [j \in 1..m + 1 |-> IndexIn(Children(c, SubSeq(q, 1, j - 1)), SubSeq(q, 1, j))]
    BY <1>5 DEF WayDown
  <1>10. v = [j \in 1..m |-> IndexIn(Children(c, SubSeq(p, 1, j - 1)), SubSeq(p, 1, j))]
    BY DEF WayDown
  <1>11. ASSUME NEW j \in 1..m PROVE w[j] = v[j]
    <2>1. j \in 1..m + 1 /\ j + 1 \in 1..m + 1 /\ (j + 1) - 1 = j
      BY <1>1
    <2>2. SubSeq(q, 1, j) = SubSeq(p, 1, j) /\ SubSeq(q, 1, j - 1) = SubSeq(p, 1, j - 1)
      BY <1>7, <2>1
    <2> HIDE DEF q
    <2>3. QED
      BY <1>9, <1>10, <2>1, <2>2
  <1>12. w[m + 1] = n
    <2>1. SubSeq(q, 1, (m + 1) - 1) = p
      <3> HIDE DEF q
      <3>1. QED
        BY <1>1, <1>7, <1>8
    <2>2. w[m + 1] = IndexIn(K, q)
      <3>1. m + 1 \in 1..m + 1
        BY <1>1
      <3> HIDE DEF q
      <3>2. QED
        BY <1>8, <1>9, <2>1, <3>1
    <2>3. \A i \in DOMAIN K : K[i] = q <=> i = n
      BY <1>2
    <2>4. n \in DOMAIN K
      BY <1>2
    <2> HIDE DEF q, K
    <2>5. QED
      BY <2>2, <2>3, <2>4 DEF IndexIn
  <1>13. v \in Seq(Nat \ {0}) /\ Len(v) = m /\ w \in Seq(Nat \ {0}) /\ Len(w) = m + 1
    BY <1>5, <1>6, WayIs
  <1>14. n \in Nat \ {0}
    OBVIOUS
  <1> HIDE DEF w, v, q
  <1>15. w = Append(v, n)
    BY <1>1, <1>11, <1>12, <1>13, <1>14
  <1>16. QED
    BY <1>5, <1>6, <1>15 DEF w, v, q

\* Two ways that agree so far lead through the same sections.
LEMMA Follow ==
  ASSUME NEW c, Config(c), NEW p \in Nodes(c), NEW q \in Nodes(c), NEW n \in Nat,
         n <= Len(p), n <= Len(q), \A j \in 1..n : WayDown(c, p)[j] = WayDown(c, q)[j]
  PROVE  SubSeq(p, 1, n) = SubSeq(q, 1, n)
  <1> DEFINE P == {m \in Nat : m <= n => SubSeq(p, 1, m) = SubSeq(q, 1, m)}
  <1>1. p \in Seq(Words) /\ q \in Seq(Words) /\ Len(p) \in Nat /\ Len(q) \in Nat
    BY NodesAre
  <1>2. 0 \in P
    <2>1. SubSeq(p, 1, 0) = << >> /\ SubSeq(q, 1, 0) = << >>
      BY <1>1
    <2>2. QED
      BY <2>1
  <1>3. ASSUME NEW m \in Nat, m \in P PROVE m + 1 \in P
    <2>1. SUFFICES ASSUME m + 1 <= n PROVE SubSeq(p, 1, m + 1) = SubSeq(q, 1, m + 1)
      OBVIOUS
    <2>2. SubSeq(p, 1, m) = SubSeq(q, 1, m)
      BY <1>3, <2>1
    <2>3. m + 1 \in 1..n /\ m + 1 \in 1..Len(p) /\ m + 1 \in 1..Len(q) /\ (m + 1) - 1 = m
      BY <1>1, <2>1
    <2>4. Children(c, SubSeq(p, 1, m))[WayDown(c, p)[m + 1]] = SubSeq(p, 1, m + 1)
      BY <2>3, WayIs
    <2>5. Children(c, SubSeq(q, 1, m))[WayDown(c, q)[m + 1]] = SubSeq(q, 1, m + 1)
      BY <2>3, WayIs
    <2>6. WayDown(c, p)[m + 1] = WayDown(c, q)[m + 1]
      BY <2>3
    <2>7. QED
      BY <2>2, <2>4, <2>5, <2>6
  <1>4. n \in P
    <2> HIDE DEF P
    <2>1. QED
      BY <1>2, <1>3, Induction
  <1>5. QED
    BY <1>4

LEMMA WayFinds ==
  ASSUME NEW c, Config(c), NEW p \in Nodes(c), NEW q \in Nodes(c), WayDown(c, p) = WayDown(c, q)
  PROVE  p = q
  <1> DEFINE n == Len(p)
  <1>1. p \in Seq(Words) /\ q \in Seq(Words) /\ n \in Nat
    BY NodesAre
  <1>2. Len(q) = n
    BY WayIs
  <1>3. SubSeq(p, 1, n) = SubSeq(q, 1, n)
    BY <1>1, <1>2, Follow
  <1>4. SubSeq(p, 1, n) = p /\ SubSeq(q, 1, n) = q
    BY <1>1, <1>2
  <1>5. QED
    BY <1>3, <1>4

\* One way down comes before another in a depth-first walk: it is a part of it,
\* or its index is the smaller one where they part.
Agree(a, b, n) == \A i \in 1..n : a[i] = b[i]

Sooner(a, b) ==
  \/ Len(a) < Len(b) /\ Agree(a, b, Len(a))
  \/ \E j \in 1..Len(a) : j <= Len(b) /\ a[j] < b[j] /\ Agree(a, b, j - 1)

\* One further down to the first child.
LEMMA SoonerThanChild ==
  ASSUME NEW a \in Seq(Nat \ {0}), NEW x \in Seq(Nat \ {0})
  PROVE  /\ Sooner(x, Append(a, 1)) <=> x = a \/ Sooner(x, a)
         /\ ~Sooner(Append(a, 1), a) /\ Append(a, 1) # a
  <1> DEFINE b == Append(a, 1)
             n == Len(a)
             m == Len(x)
  <1>1. /\ n \in Nat /\ m \in Nat /\ Len(b) = n + 1 /\ b[n + 1] = 1
        /\ \A i \in 1..n : b[i] = a[i]
    OBVIOUS
  <1>2. b \in Seq(Nat \ {0})
    OBVIOUS
  <1> HIDE DEF b
  <1>3. \A i \in 1..m : x[i] \in Nat \ {0}
    OBVIOUS
  <1>4. \A i \in 1..n : a[i] \in Nat
    OBVIOUS
  <1>5. ASSUME x = a PROVE Sooner(x, b)
    BY <1>1, <1>5 DEF Sooner, Agree
  <1>6. ASSUME Sooner(x, a) PROVE Sooner(x, b)
    <2>1. CASE m < n /\ Agree(x, a, m)
      <3>1. m < Len(b) /\ Agree(x, b, m)
        BY <1>1, <2>1 DEF Agree
      <3>2. QED
        BY <3>1 DEF Sooner
    <2>2. CASE \E j \in 1..m : j <= n /\ x[j] < a[j] /\ Agree(x, a, j - 1)
      <3>1. PICK j \in 1..m : j <= n /\ x[j] < a[j] /\ Agree(x, a, j - 1)
        BY <2>2
      <3>2. j <= Len(b) /\ x[j] < b[j] /\ Agree(x, b, j - 1)
        BY <1>1, <3>1 DEF Agree
      <3>3. QED
        BY <3>2 DEF Sooner
    <2>3. QED
      BY <1>6, <2>1, <2>2 DEF Sooner
  <1>7. ASSUME Sooner(x, b) PROVE x = a \/ Sooner(x, a)
    <2>1. CASE m < Len(b) /\ Agree(x, b, m)
      <3>1. m <= n /\ Agree(x, a, m)
        BY <1>1, <2>1 DEF Agree
      <3>2. CASE m < n
        BY <3>1, <3>2 DEF Sooner
      <3>3. CASE m = n
        <4>1. \A i \in 1..m : x[i] = a[i]
          BY <3>1, <3>3 DEF Agree
        <4>2. x = a
          BY <3>3, <4>1, SameElements
        <4>3. QED
          BY <4>2
      <3>4. QED
        BY <1>1, <3>1, <3>2, <3>3
    <2>2. CASE \E j \in 1..m : j <= Len(b) /\ x[j] < b[j] /\ Agree(x, b, j - 1)
      <3>1. PICK j \in 1..m : j <= Len(b) /\ x[j] < b[j] /\ Agree(x, b, j - 1)
        BY <2>2
      <3>2. j # n + 1
        BY <1>1, <1>3, <3>1
      <3>3. j <= n
        BY <1>1, <3>1, <3>2
      <3>4. x[j] < a[j] /\ Agree(x, a, j - 1)
        BY <1>1, <3>1, <3>3 DEF Agree
      <3>5. QED
        BY <3>3, <3>4 DEF Sooner
    <2>3. QED
      BY <1>7, <2>1, <2>2 DEF Sooner
  <1>8. ~Sooner(b, a)
    <2>1. ~(Len(b) < n)
      BY <1>1
    <2>2. \A j \in 1..Len(b) : ~(j <= n /\ b[j] < a[j])
      BY <1>1, <1>4
    <2>3. QED
      BY <2>1, <2>2 DEF Sooner
  <1>9. b # a
    BY <1>1
  <1>10. QED
    BY <1>5, <1>6, <1>7, <1>8, <1>9 DEF b

\* The next sibling of a section on the way.
LEMMA SoonerThanSibling ==
  ASSUME NEW a \in Seq(Nat \ {0}), NEW x \in Seq(Nat \ {0}), NEW J \in 1..Len(a)
  PROVE  LET b == Append(SubSeq(a, 1, J - 1), a[J] + 1) IN
         /\ x = a \/ Sooner(x, a) => Sooner(x, b)
         /\ Sooner(x, b) => Sooner(x, a) \/ (J <= Len(x) /\ Agree(x, a, J))
         /\ ~Sooner(b, a) /\ b # a
  <1> DEFINE h == SubSeq(a, 1, J - 1)
             b == Append(h, a[J] + 1)
             n == Len(a)
             m == Len(x)
  <1>1. n \in Nat /\ m \in Nat /\ J \in Nat /\ 1 <= J /\ J <= n
    OBVIOUS
  <1>2. h \in Seq(Nat \ {0}) /\ Len(h) = J - 1 /\ \A i \in 1..(J - 1) : h[i] = a[i]
    <2>1. J - 1 \in 0..Len(a)
      OBVIOUS
    <2>2. QED
      BY <2>1, Beginning
  <1>3. a[J] \in Nat
    OBVIOUS
  <1> HIDE DEF h
  <1>4. /\ Len(b) = J /\ b[J] = a[J] + 1 /\ \A i \in 1..(J - 1) : b[i] = a[i]
    BY <1>1, <1>2, <1>3
  <1> HIDE DEF b
  <1>5. \A i \in 1..m : x[i] \in Nat
    OBVIOUS
  <1>6. \A i \in 1..n : a[i] \in Nat
    OBVIOUS
  <1>7. \A i \in 1..J : i = J \/ i \in 1..(J - 1)
    BY <1>1
  <1>8. ASSUME x = a PROVE Sooner(x, b)
    <2>1. J \in 1..m /\ J <= Len(b) /\ x[J] < b[J] /\ Agree(x, b, J - 1)
      BY <1>1, <1>3, <1>4, <1>8 DEF Agree
    <2>2. QED
      BY <2>1 DEF Sooner
  <1>9. ASSUME J <= m, Agree(x, a, J) PROVE Sooner(x, b)
    <2>1. J \in 1..m /\ J <= Len(b) /\ x[J] < b[J] /\ Agree(x, b, J - 1)
      <3>1. x[J] = a[J] /\ \A i \in 1..(J - 1) : x[i] = a[i]
        BY <1>1, <1>9 DEF Agree
      <3>2. QED
        BY <1>1, <1>3, <1>4, <1>9, <3>1 DEF Agree
    <2>2. QED
      BY <2>1 DEF Sooner
  <1>10. ASSUME Sooner(x, a) PROVE Sooner(x, b)
    <2>1. CASE m < n /\ Agree(x, a, m)
      <3>1. CASE J <= m
        <4>1. Agree(x, a, J)
          BY <1>1, <2>1, <3>1 DEF Agree
        <4>2. QED
          BY <1>9, <3>1, <4>1
      <3>2. CASE m < J
        <4>1. m < Len(b) /\ Agree(x, b, m)
          BY <1>1, <1>4, <2>1, <3>2 DEF Agree
        <4>2. QED
          BY <4>1 DEF Sooner
      <3>3. QED
        BY <1>1, <3>1, <3>2
    <2>2. CASE \E j \in 1..m : j <= n /\ x[j] < a[j] /\ Agree(x, a, j - 1)
      <3>1. PICK j \in 1..m : j <= n /\ x[j] < a[j] /\ Agree(x, a, j - 1)
        BY <2>2
      <3>2. CASE j > J
        <4>1. J <= m /\ Agree(x, a, J)
          BY <1>1, <3>1, <3>2 DEF Agree
        <4>2. QED
          BY <1>9, <4>1
      <3>3. CASE j <= J
        <4>1. j <= Len(b) /\ Agree(x, b, j - 1)
          BY <1>1, <1>4, <3>1, <3>3 DEF Agree
        <4>2. x[j] < b[j]
          <5>1. x[j] \in Nat /\ a[j] \in Nat
            BY <1>5, <1>6, <3>1
          <5>2. b[j] = a[j] \/ b[j] = a[j] + 1
            <6>1. j = J \/ j \in 1..(J - 1)
              BY <1>1, <3>1, <3>3
            <6>2. QED
              BY <1>4, <6>1
          <5>3. QED
            BY <3>1, <5>1, <5>2
        <4>3. QED
          BY <4>1, <4>2 DEF Sooner
      <3>4. QED
        BY <1>1, <3>1, <3>2, <3>3
    <2>3. QED
      BY <1>10, <2>1, <2>2 DEF Sooner
  <1>11. ASSUME Sooner(x, b) PROVE Sooner(x, a) \/ (J <= m /\ Agree(x, a, J))
    <2>1. CASE m < Len(b) /\ Agree(x, b, m)
      <3>1. m < n /\ Agree(x, a, m)
        BY <1>1, <1>4, <2>1 DEF Agree
      <3>2. QED
        BY <3>1 DEF Sooner
    <2>2. CASE \E j \in 1..m : j <= Len(b) /\ x[j] < b[j] /\ Agree(x, b, j - 1)
      <3>1. PICK j \in 1..m : j <= Len(b) /\ x[j] < b[j] /\ Agree(x, b, j - 1)
        BY <2>2
      <3>2. Agree(x, a, j - 1) /\ j <= J /\ x[j] \in Nat
        BY <1>1, <1>4, <1>5, <3>1 DEF Agree
      <3>3. CASE j # J
        <4>1. x[j] < a[j] /\ j <= n
          BY <1>1, <1>4, <1>7, <3>1, <3>2, <3>3
        <4>2. QED
          BY <3>2, <4>1 DEF Sooner
      <3>4. CASE j = J
        <4>1. x[J] < a[J] \/ x[J] = a[J]
          BY <1>3, <1>4, <3>1, <3>2, <3>4
        <4>2. CASE x[J] < a[J]
          BY <1>1, <3>1, <3>2, <3>4, <4>2 DEF Sooner
        <4>3. CASE x[J] = a[J]
          <5>1. Agree(x, a, J)
            BY <1>7, <3>2, <3>4, <4>3 DEF Agree
          <5>2. QED
            BY <1>1, <3>1, <3>4, <5>1
        <4>4. QED
          BY <4>1, <4>2, <4>3
      <3>5. QED
        BY <3>3, <3>4
    <2>3. QED
      BY <1>11, <2>1, <2>2 DEF Sooner
  <1>12. b # a
    BY <1>3, <1>4
  <1>13. ~Sooner(b, a)
    <2>1. ~(Len(b) < n /\ Agree(b, a, Len(b)))
      BY <1>1, <1>3, <1>4 DEF Agree
    <2>2. \A j \in 1..Len(b) : ~(j <= n /\ b[j] < a[j])
      BY <1>1, <1>3, <1>4, <1>6, <1>7
    <2>3. QED
      BY <2>1, <2>2 DEF Sooner
  <1>14. QED
    BY <1>8, <1>10, <1>11, <1>12, <1>13 DEF b, h

\* What lies beyond the first J sections of the way to a node without children:
\* nothing, if none of the others has a sibling left.
LEMMA NothingBeyond ==
  ASSUME NEW c, Config(c), NEW p \in Nodes(c), NEW q \in Nodes(c), NEW J \in 0..Len(p),
         Children(c, p) = << >>,
         \A j \in 1..Len(p) : j > J => WayDown(c, p)[j] >= Len(Children(c, SubSeq(p, 1, j - 1))),
         J <= Len(q), Agree(WayDown(c, q), WayDown(c, p), J)
  PROVE  q = p \/ Sooner(WayDown(c, q), WayDown(c, p))
  <1> DEFINE a == WayDown(c, p)
             x == WayDown(c, q)
             n == Len(p)
             m == Len(q)
  <1>1. n \in Nat /\ m \in Nat /\ J \in Nat /\ p \in Seq(Words) /\ q \in Seq(Words)
    BY NodesAre
  <1>2. a \in Seq(Nat \ {0}) /\ Len(a) = n /\ x \in Seq(Nat \ {0}) /\ Len(x) = m
    BY WayIs
  <1>3. /\ \A j \in 1..m : x[j] \in 1..Len(Children(c, SubSeq(q, 1, j - 1)))
        /\ \A j \in 1..m : Children(c, SubSeq(q, 1, j - 1))[x[j]] = SubSeq(q, 1, j)
    BY WayIs
  <1>4. \A j \in 1..n : a[j] \in Nat
    BY <1>2
  <1>5. ASSUME NEW k \in Nat, k <= n, k <= m, Agree(x, a, k) PROVE SubSeq(q, 1, k) = SubSeq(p, 1, k)
    BY <1>5, Follow DEF Agree
  <1>6. \A j \in 1..n : j > J => a[j] >= Len(Children(c, SubSeq(p, 1, j - 1)))
    OBVIOUS
  <1>7. Agree(x, a, J)
    OBVIOUS
  <1>8. x = a => q = p
    BY WayFinds
  <1> HIDE DEF a, x
  <1>9. CASE \E j \in 1..n : j <= m /\ x[j] # a[j]
    <2> DEFINE D == {j \in 1..n : j <= m /\ x[j] # a[j]}
    <2>1. D \subseteq Nat /\ D # {}
      BY <1>9
    <2>2. PICK j \in D : \A i \in D : j <= i
      <3> HIDE DEF D
      <3>1. QED
        BY <2>1, LeastExists
    <2>3. j \in 1..n /\ j \in 1..m /\ x[j] # a[j] /\ j \in Nat
      BY <1>1, <2>2
    <2>4. Agree(x, a, j - 1)
      <3>1. ASSUME NEW i \in 1..(j - 1), x[i] # a[i] PROVE FALSE
        <4>1. i \in D /\ i < j
          BY <1>1, <2>3, <3>1
        <4>2. QED
          BY <2>2, <2>3, <4>1
      <3>2. QED
        BY <3>1 DEF Agree
    <2>5. j > J
      BY <1>1, <1>7, <2>3 DEF Agree
    <2>6. SubSeq(q, 1, j - 1) = SubSeq(p, 1, j - 1)
      <3> DEFINE k == j - 1
      <3>1. k \in Nat /\ k <= n /\ k <= m /\ Agree(x, a, k)
        BY <1>1, <2>3, <2>4
      <3> HIDE DEF k
      <3>2. SubSeq(q, 1, k) = SubSeq(p, 1, k)
        BY <1>5, <3>1
      <3>3. QED
        BY <3>2 DEF k
    <2>7. x[j] \in 1..Len(Children(c, SubSeq(p, 1, j - 1)))
      BY <1>3, <2>3, <2>6
    <2> DEFINE l == Len(Children(c, SubSeq(p, 1, j - 1)))
    <2>8. l \in Nat
      <3>1. Children(c, SubSeq(p, 1, j - 1)) \in Seq(Seq(Words) \ {<< >>})
        BY ChildrenLen
      <3>2. QED
        BY <3>1
    <2>9. a[j] >= l /\ x[j] \in 1..l /\ a[j] \in Nat
      BY <1>4, <1>6, <2>3, <2>5, <2>7
    <2> HIDE DEF l
    <2>10. x[j] < a[j]
      BY <2>3, <2>8, <2>9
    <2>11. QED
      BY <1>2, <2>3, <2>4, <2>10 DEF Sooner, a, x
  <1>10. CASE \A j \in 1..n : j <= m => x[j] = a[j]
    <2>1. CASE m < n
      <3>1. Agree(x, a, m)
        BY <1>1, <1>10, <2>1 DEF Agree
      <3>2. QED
        BY <1>2, <2>1, <3>1 DEF Sooner, a, x
    <2>2. CASE m = n
      <3>1. x = a
        <4>1. \A i \in 1..Len(x) : x[i] = a[i]
          BY <1>2, <1>10, <2>2
        <4>2. QED
          BY <1>2, <2>2, <4>1, SameElements
      <3>2. QED
        BY <1>8, <3>1
    <2>3. CASE m > n
      <3>1. Agree(x, a, n)
        BY <1>1, <1>10, <2>3 DEF Agree
      <3>2. SubSeq(q, 1, n) = SubSeq(p, 1, n)
        BY <1>1, <1>5, <2>3, <3>1
      <3>3. SubSeq(p, 1, n) = p
        BY <1>1
      <3>4. n + 1 \in 1..m /\ (n + 1) - 1 = n
        BY <1>1, <2>3
      <3>5. x[n + 1] \in 1..Len(Children(c, p))
        BY <1>3, <3>2, <3>3, <3>4
      <3>6. QED
        BY <3>5
    <2>4. QED
      BY <1>1, <2>1, <2>2, <2>3
  <1>11. QED
    BY <1>9, <1>10

\* The way to a section begins with the ways to those it is in.
LEMMA WayAbove ==
  ASSUME NEW c, Config(c), NEW p \in Nodes(c), NEW n \in 0..Len(p)
  PROVE  WayDown(c, SubSeq(p, 1, n)) = SubSeq(WayDown(c, p), 1, n)
  <1> DEFINE r == SubSeq(p, 1, n)
             a == WayDown(c, p)
             w == WayDown(c, r)
  <1>1. p \in Seq(Words) /\ Len(p) \in Nat /\ n \in Nat
    BY NodesAre
  <1>2. r \in Nodes(c) /\ r \in Seq(Words) /\ Len(r) = n /\ \A i \in 1..n : r[i] = p[i]
    BY <1>1, NodesAbove, Beginning
  <1>3. a \in Seq(Nat \ {0}) /\ Len(a) = Len(p)
    BY WayIs
  <1>4. w \in Seq(Nat \ {0}) /\ Len(w) = n
    <2> HIDE DEF r
    <2>1. QED
      BY <1>2, WayIs
  <1>5. ASSUME NEW j \in 0..n PROVE SubSeq(r, 1, j) = SubSeq(p, 1, j)
    <2>1. j \in 0..Len(p) /\ j \in 0..Len(r)
      BY <1>1, <1>2
    <2> HIDE DEF r
    <2>2. /\ SubSeq(r, 1, j) \in Seq(Words) /\ Len(SubSeq(r, 1, j)) = j
          /\ \A i \in 1..j : SubSeq(r, 1, j)[i] = r[i]
      BY <1>2, <2>1, Beginning
    <2>3. /\ SubSeq(p, 1, j) \in Seq(Words) /\ Len(SubSeq(p, 1, j)) = j
          /\ \A i \in 1..j : SubSeq(p, 1, j)[i] = p[i]
      BY <1>1, <2>1, Beginning
    <2>4. \A i \in 1..j : SubSeq(r, 1, j)[i] = SubSeq(p, 1, j)[i]
      BY <1>1, <1>2, <2>2, <2>3
    <2>5. QED
      BY <2>2, <2>3, <2>4, SameElements
  <1>6. a = [j \in 1..Len(p) |-> IndexIn(Children(c, SubSeq(p, 1, j - 1)), SubSeq(p, 1, j))]
    BY DEF WayDown
  <1>7. w = [j \in 1..n |-> IndexIn(Children(c, SubSeq(r, 1, j - 1)), SubSeq(r, 1, j))]
    <2> HIDE DEF r
    <2>1. QED
      BY <1>2 DEF WayDown
  <1>8. /\ SubSeq(a, 1, n) \in Seq(Nat \ {0}) /\ Len(SubSeq(a, 1, n)) = n
        /\ \A i \in 1..n : SubSeq(a, 1, n)[i] = a[i]
    <2>1. n \in 0..Len(a)
      BY <1>3
    <2> HIDE DEF a
    <2>2. QED
      BY <1>3, <2>1, Beginning
  <1>9. ASSUME NEW j \in 1..n PROVE w[j] = SubSeq(a, 1, n)[j]
    <2>1. j \in 0..n /\ j - 1 \in 0..n /\ j \in 1..Len(p)
      BY <1>1
    <2>2. SubSeq(r, 1, j) = SubSeq(p, 1, j) /\ SubSeq(r, 1, j - 1) = SubSeq(p, 1, j - 1)
      BY <1>5, <2>1
    <2> HIDE DEF r
    <2>3. w[j] = a[j]
      BY <1>6, <1>7, <2>1, <2>2
    <2>4. QED
      BY <1>8, <2>3
  <1> HIDE DEF w, a
  <1>10. w = SubSeq(a, 1, n)
    BY <1>4, <1>8, <1>9, SameElements
  <1>11. QED
    BY <1>10 DEF w, a

\* The visitor is at a node of the tree, and its stack is the way there.
OnWay(c, v) ==
  /\ v.begun \in BOOLEAN
  /\ v.begun => v.node \in Nodes(c) /\ v.stack = WayDown(c, v.node)

\* The nodes that it has been at.
Visited(c, v) ==
  IF v.begun
  THEN {p \in Nodes(c) : p = v.node \/ Sooner(WayDown(c, p), WayDown(c, v.node))}
  ELSE {}

\* The visitor goes on to a node that it has not been at.
GoesOn(c, v, next) ==
  /\ OnWay(c, next) /\ next.begun
  /\ next.node \notin Visited(c, v)
  /\ Visited(c, next) = Visited(c, v) \cup {next.node}
  /\ v.begun => next.node # << >>
  /\ ~v.begun => next.node = << >>

LEMMA StepRoot ==
  ASSUME NEW c, Config(c), NEW v, OnWay(c, v), ~v.begun
  PROVE  GoesOn(c, v, NextNode(c, v))
  <1> DEFINE next == NextNode(c, v)
  <1>1. next = [begun |-> TRUE, node |-> << >>, stack |-> << >>]
    BY DEF NextNode, Begun
  <1>2. next.begun /\ next.node = << >> /\ next.stack = << >>
    BY <1>1
  <1> HIDE DEF next
  <1>3. << >> \in Nodes(c)
    BY DEF Nodes
  <1>4. WayDown(c, << >>) \in Seq(Nat \ {0}) /\ Len(WayDown(c, << >>)) = 0
    BY <1>3, WayIs
  <1>5. WayDown(c, << >>) = << >>
    BY <1>4
  <1>6. ASSUME NEW p \in Nodes(c) PROVE ~Sooner(WayDown(c, p), << >>)
    <2>1. WayDown(c, p) \in Seq(Nat \ {0})
      BY <1>6, WayIs
    <2>2. Len(WayDown(c, p)) \in Nat /\ Len(<< >>) = 0
      BY <2>1
    <2>3. QED
      BY <2>2 DEF Sooner
  <1>7. Visited(c, next) = {<< >>} /\ Visited(c, v) = {}
    BY <1>2, <1>3, <1>5, <1>6 DEF Visited
  <1>8. OnWay(c, next)
    BY <1>2, <1>3, <1>5 DEF OnWay
  <1>9. QED
    BY <1>2, <1>7, <1>8 DEF GoesOn, next

LEMMA StepDown ==
  ASSUME NEW c, Config(c), NEW v, OnWay(c, v), v.begun, Children(c, v.node) # << >>
  PROVE  GoesOn(c, v, NextNode(c, v))
  <1> DEFINE next == NextNode(c, v)
             K == Children(c, v.node)
             q == K[1]
             a == WayDown(c, v.node)
  <1>1. v.node \in Nodes(c) /\ v.stack = a
    BY DEF OnWay
  <1>2. 1 \in 1..Len(K)
    <2>1. K \in Seq(Seq(Words) \ {<< >>})
      BY ChildrenLen
    <2> HIDE DEF K
    <2>2. K # << >>
      BY DEF K
    <2>3. QED
      BY <2>1, <2>2
  <1>3. next = [begun |-> TRUE, node |-> q, stack |-> Append(a, 1)]
    BY <1>1 DEF NextNode, Descend, Begun
  <1>4. next.begun /\ next.node = q /\ next.stack = Append(a, 1)
    BY <1>3
  <1> DEFINE node == v.node
  <1>5. Config(c) /\ node \in Nodes(c) /\ 1 \in 1..Len(Children(c, node))
    BY <1>1, <1>2
  <1>6. q \in Nodes(c) /\ WayDown(c, q) = Append(a, 1) /\ Len(q) = Len(node) + 1
    <2> HIDE DEF node
    <2>1. /\ Children(c, node)[1] \in Nodes(c)
          /\ WayDown(c, Children(c, node)[1]) = Append(WayDown(c, node), 1)
          /\ Len(Children(c, node)[1]) = Len(node) + 1
      BY <1>5, WayOfChild
    <2>2. QED
      BY <2>1 DEF node
  <1>7. a \in Seq(Nat \ {0})
    BY <1>1, WayIs
  <1>8. node \in Seq(Words)
    BY <1>1, NodesAre
  <1> HIDE DEF next, q, a, K
  <1>9. OnWay(c, next)
    BY <1>4, <1>6 DEF OnWay
  <1>10. ASSUME NEW p \in Nodes(c)
         PROVE  Sooner(WayDown(c, p), WayDown(c, q)) <=> p = node \/ Sooner(WayDown(c, p), a)
    <2> DEFINE x == WayDown(c, p)
    <2>1. x \in Seq(Nat \ {0})
      BY WayIs
    <2>2. x = a <=> p = node
      BY <1>1, WayFinds DEF a
    <2> HIDE DEF x
    <2>3. Sooner(x, Append(a, 1)) <=> x = a \/ Sooner(x, a)
      BY <1>7, <2>1, SoonerThanChild
    <2>4. QED
      BY <1>6, <2>2, <2>3 DEF x
  <1>11. Visited(c, v) = {p \in Nodes(c) : p = node \/ Sooner(WayDown(c, p), a)}
    BY DEF Visited, a
  <1>12. Visited(c, next) = {p \in Nodes(c) : p = q \/ Sooner(WayDown(c, p), WayDown(c, q))}
    BY <1>4 DEF Visited
  <1>13. Visited(c, next) = Visited(c, v) \cup {q}
    BY <1>6, <1>10, <1>11, <1>12
  <1>14. ~Sooner(Append(a, 1), a)
    BY <1>7, SoonerThanChild
  <1>15. q # node
    <2>1. Len(node) \in Nat
      BY <1>8
    <2>2. QED
      BY <1>6, <2>1
  <1>16. q \notin Visited(c, v)
    BY <1>6, <1>11, <1>14, <1>15
  <1>17. q # << >>
    <2>1. Len(node) \in Nat /\ Len(<< >>) = 0
      BY <1>8
    <2>2. QED
      BY <1>6, <2>1
  <1>18. QED
    BY <1>4, <1>9, <1>13, <1>16, <1>17 DEF GoesOn, next

\* The level to climb to.
LEMMA GreatestLevel ==
  ASSUME NEW N \in Nat, NEW L \in SUBSET (1..N), L # {}
  PROVE  \E j \in L : \A i \in L : i <= j
  <1> DEFINE G == {N - i : i \in L}
  <1>1. G \subseteq Nat /\ G # {}
    <2>1. ASSUME NEW i \in L PROVE N - i \in Nat
      <3>1. i \in 1..N
        OBVIOUS
      <3>2. QED
        BY <3>1
    <2>2. PICK i \in L : TRUE
      OBVIOUS
    <2>3. N - i \in G
      OBVIOUS
    <2>4. QED
      BY <2>1, <2>3
  <1>2. PICK g \in G : \A h \in G : g <= h
    <2> HIDE DEF G
    <2>1. QED
      BY <1>1, LeastExists
  <1>3. PICK j \in L : g = N - j
    BY <1>2
  <1>4. \A i \in L : i <= j
    <2>1. SUFFICES ASSUME NEW i \in L PROVE i <= j
      OBVIOUS
    <2>2. N - i \in G
      OBVIOUS
    <2>3. i \in 1..N /\ j \in 1..N
      OBVIOUS
    <2>4. g <= N - i
      BY <1>2, <2>2
    <2>5. QED
      BY <1>3, <2>3, <2>4
  <1>5. QED
    BY <1>4

LEMMA StepOn ==
  ASSUME NEW c, Config(c), NEW v, OnWay(c, v), v.begun, Children(c, v.node) = << >>,
         Levels(c, v) # {}
  PROVE  GoesOn(c, v, NextNode(c, v))
  <1> DEFINE next == NextNode(c, v)
             node == v.node
             a == WayDown(c, node)
             L == Levels(c, v)
             J == CHOOSE j \in L : \A i \in L : i <= j
             h == SubSeq(node, 1, J - 1)
             n == v.stack[J] + 1
             q == Children(c, h)[n]
  <1>1. node \in Nodes(c) /\ v.stack = a
    BY DEF OnWay
  <1>2. node \in Seq(Words) /\ Len(node) \in Nat
    BY <1>1, NodesAre
  <1>3. a \in Seq(Nat \ {0}) /\ Len(a) = Len(node)
    BY <1>1, WayIs
  <1>4. L = {j \in 1..Len(node) : a[j] < Len(Children(c, SubSeq(node, 1, j - 1)))}
    BY <1>1, <1>3 DEF Levels
  <1>5. next = [begun |-> TRUE, node |-> q, stack |-> Append(SubSeq(a, 1, J - 1), n)]
    BY <1>1 DEF NextNode, Climb, Begun
  <1>6. next.begun /\ next.node = q /\ next.stack = Append(SubSeq(a, 1, J - 1), n)
    <2> DEFINE s == Append(SubSeq(a, 1, J - 1), n)
    <2>1. next = [begun |-> TRUE, node |-> q, stack |-> s]
      BY <1>5
    <2> HIDE DEF next, q, s
    <2>2. next.begun /\ next.node = q /\ next.stack = s
      BY <2>1
    <2>3. QED
      BY <2>2 DEF s
  <1> HIDE DEF next, L
  <1>7. J \in L /\ \A i \in L : i <= J
    <2>1. L \in SUBSET (1..Len(node)) /\ L # {}
      BY <1>4 DEF L
    <2>2. \E j \in L : \A i \in L : i <= j
      BY <1>2, <2>1, GreatestLevel
    <2>3. QED
      BY <2>2
  <1>8. n = a[J] + 1
    BY <1>1
  <1> HIDE DEF J
  <1>9. J \in 1..Len(node) /\ a[J] < Len(Children(c, h)) /\ J \in Nat
    BY <1>2, <1>4, <1>7
  <1>10. ASSUME NEW j \in 1..Len(node), j > J
         PROVE  a[j] >= Len(Children(c, SubSeq(node, 1, j - 1)))
    <2>1. j \notin L
      BY <1>2, <1>7, <1>9, <1>10
    <2> DEFINE K == Children(c, SubSeq(node, 1, j - 1))
    <2>2. K \in Seq(Seq(Words) \ {<< >>})
      BY ChildrenLen
    <2>3. a[j] \in Nat /\ Len(K) \in Nat
      BY <1>3, <2>2
    <2>4. ~(a[j] < Len(K))
      BY <1>4, <2>1
    <2> HIDE DEF K
    <2>5. a[j] >= Len(K)
      BY <2>3, <2>4
    <2>6. QED
      BY <2>5 DEF K
  <1>11. h \in Nodes(c) /\ WayDown(c, h) = SubSeq(a, 1, J - 1)
    <2>1. J - 1 \in 0..Len(node)
      BY <1>2, <1>9
    <2> HIDE DEF node
    <2>2. QED
      BY <1>1, <2>1, NodesAbove, WayAbove
  <1>12. n \in 1..Len(Children(c, h))
    <2>1. Children(c, h) \in Seq(Seq(Words) \ {<< >>})
      BY ChildrenLen
    <2>2. Len(Children(c, h)) \in Nat /\ a[J] \in Nat
      BY <1>3, <1>9, <2>1
    <2>3. QED
      BY <1>8, <1>9, <2>2
  <1> HIDE DEF n, h
  <1>13. q \in Nodes(c) /\ WayDown(c, q) = Append(WayDown(c, h), n) /\ Len(q) = Len(h) + 1
    BY <1>11, <1>12, WayOfChild
  <1> DEFINE b == Append(SubSeq(a, 1, J - 1), a[J] + 1)
  <1>14. WayDown(c, q) = b /\ next.stack = b
    BY <1>6, <1>8, <1>11, <1>13
  <1>15. q # << >>
    <2>1. h \in Seq(Words)
      BY <1>11, NodesAre
    <2>2. Len(h) \in Nat /\ Len(<< >>) = 0
      BY <2>1
    <2>3. QED
      BY <1>13, <2>2
  <1>16. J \in 1..Len(a)
    BY <1>3, <1>9
  <1> HIDE DEF q, a, node
  <1>17. ASSUME NEW x \in Seq(Nat \ {0})
         PROVE  /\ x = a \/ Sooner(x, a) => Sooner(x, b)
                /\ Sooner(x, b) => Sooner(x, a) \/ (J <= Len(x) /\ Agree(x, a, J))
                /\ ~Sooner(b, a) /\ b # a
    BY <1>3, <1>16, SoonerThanSibling
  <1> HIDE DEF b
  <1>18. OnWay(c, next)
    BY <1>6, <1>13, <1>14 DEF OnWay
  <1>19. ASSUME NEW p \in Nodes(c)
         PROVE  Sooner(WayDown(c, p), b) <=> p = node \/ Sooner(WayDown(c, p), a)
    <2> DEFINE x == WayDown(c, p)
    <2>1. x \in Seq(Nat \ {0}) /\ Len(x) = Len(p)
      BY WayIs
    <2>2. p = node => x = a
      BY DEF a
    <2>3. ASSUME J <= Len(x), Agree(x, a, J) PROVE p = node \/ Sooner(x, a)
      <3>1. J \in 0..Len(node) /\ J <= Len(p) /\ Agree(WayDown(c, p), WayDown(c, node), J)
        BY <1>9, <2>1, <2>3 DEF a
      <3>2. /\ Children(c, node) = << >>
            /\ \A j \in 1..Len(node) : j > J =>
                 WayDown(c, node)[j] >= Len(Children(c, SubSeq(node, 1, j - 1)))
        BY <1>10 DEF a, node
      <3>3. p = node \/ Sooner(WayDown(c, p), WayDown(c, node))
        BY <1>1, <3>1, <3>2, NothingBeyond
      <3>4. QED
        BY <3>3 DEF a
    <2> HIDE DEF x
    <2>4. /\ x = a \/ Sooner(x, a) => Sooner(x, b)
          /\ Sooner(x, b) => Sooner(x, a) \/ (J <= Len(x) /\ Agree(x, a, J))
      BY <1>17, <2>1
    <2>5. QED
      BY <2>2, <2>3, <2>4 DEF x
  <1>20. Visited(c, v) = {p \in Nodes(c) : p = node \/ Sooner(WayDown(c, p), a)}
    BY DEF Visited, a, node
  <1>21. Visited(c, next) = {p \in Nodes(c) : p = q \/ Sooner(WayDown(c, p), b)}
    BY <1>6, <1>14 DEF Visited
  <1>22. Visited(c, next) = Visited(c, v) \cup {q}
    BY <1>13, <1>19, <1>20, <1>21
  <1>23. ~Sooner(b, a) /\ b # a
    BY <1>3, <1>17
  <1>24. q # node
    BY <1>14, <1>23 DEF a
  <1>25. q \notin Visited(c, v)
    BY <1>14, <1>20, <1>23, <1>24
  <1>26. QED
    BY <1>6, <1>15, <1>18, <1>22, <1>25 DEF GoesOn, next

\* node_visitor_next goes to a node that it has not been at, the root first,
LEMMA WalkGoesOn ==
  ASSUME NEW c, Config(c), NEW v, OnWay(c, v), HasNext(c, v)
  PROVE  GoesOn(c, v, NextNode(c, v))
  BY StepRoot, StepDown, StepOn DEF HasNext

\* and ends when it has been at all of them.
LEMMA WalkEnds ==
  ASSUME NEW c, Config(c), NEW v, OnWay(c, v), ~HasNext(c, v)
  PROVE  Visited(c, v) = Nodes(c)
  <1> DEFINE node == v.node
             a == WayDown(c, node)
  <1>1. v.begun /\ Children(c, node) = << >> /\ Levels(c, v) = {}
    BY DEF HasNext, OnWay
  <1>2. node \in Nodes(c) /\ v.stack = a
    BY <1>1 DEF OnWay
  <1>3. node \in Seq(Words) /\ Len(node) \in Nat
    BY <1>2, NodesAre
  <1>4. a \in Seq(Nat \ {0}) /\ Len(a) = Len(node)
    BY <1>2, WayIs
  <1>5. {j \in 1..Len(node) : a[j] < Len(Children(c, SubSeq(node, 1, j - 1)))} = {}
    BY <1>1, <1>2, <1>4 DEF Levels
  <1>6. ASSUME NEW j \in 1..Len(node)
        PROVE  a[j] >= Len(Children(c, SubSeq(node, 1, j - 1)))
    <2> DEFINE K == Children(c, SubSeq(node, 1, j - 1))
    <2>1. K \in Seq(Seq(Words) \ {<< >>})
      BY ChildrenLen
    <2>2. ~(a[j] < Len(K))
      BY <1>5
    <2>3. a[j] \in Nat /\ Len(K) \in Nat
      BY <1>4, <2>1
    <2> HIDE DEF K, a
    <2>4. a[j] >= Len(K)
      BY <2>2, <2>3
    <2>5. QED
      BY <2>4 DEF K, a
  <1>7. ASSUME NEW p \in Nodes(c) PROVE p = node \/ Sooner(WayDown(c, p), a)
    <2>1. 0 \in 0..Len(node) /\ 0 <= Len(p)
      <3>1. p \in Seq(Words)
        BY NodesAre
      <3>2. QED
        BY <1>3, <3>1
    <2>2. Agree(WayDown(c, p), WayDown(c, node), 0)
      BY DEF Agree
    <2>3. \A j \in 1..Len(node) : j > 0 =>
            WayDown(c, node)[j] >= Len(Children(c, SubSeq(node, 1, j - 1)))
      BY <1>6
    <2>4. Children(c, node) = << >>
      BY <1>1
    <2> HIDE DEF node
    <2>5. QED
      BY <1>2, <2>1, <2>2, <2>3, <2>4, NothingBeyond
  <1> HIDE DEF a
  <1>8. QED
    BY <1>1, <1>7 DEF Visited, a

-----------------------------------------------------------------------------
(* The order of the walk, and the place of each node in it.                *)

\* The order of the walk is linear.
LEMMA NotSooner ==
  ASSUME NEW a \in Seq(Nat \ {0})
  PROVE  ~Sooner(a, a)
  <1>1. Len(a) \in Nat /\ \A j \in 1..Len(a) : a[j] \in Nat
    OBVIOUS
  <1>2. QED
    BY <1>1 DEF Sooner

LEMMA SoonerOn ==
  ASSUME NEW a \in Seq(Nat \ {0}), NEW b \in Seq(Nat \ {0}), NEW x \in Seq(Nat \ {0}),
         Sooner(a, b), Sooner(b, x)
  PROVE  Sooner(a, x)
  <1>1. /\ Len(a) \in Nat /\ Len(b) \in Nat /\ Len(x) \in Nat
        /\ \A j \in 1..Len(a) : a[j] \in Nat
        /\ \A j \in 1..Len(b) : b[j] \in Nat
        /\ \A j \in 1..Len(x) : x[j] \in Nat
    OBVIOUS
  <1>2. CASE Len(a) < Len(b) /\ Agree(a, b, Len(a))
    <2>1. CASE Len(b) < Len(x) /\ Agree(b, x, Len(b))
      BY <1>1, <1>2, <2>1 DEF Sooner, Agree
    <2>2. ASSUME NEW j \in 1..Len(b), j <= Len(x), b[j] < x[j], Agree(b, x, j - 1)
          PROVE  Sooner(a, x)
      <3>1. CASE j <= Len(a)
        <4>1. j \in 1..Len(a) /\ a[j] < x[j] /\ Agree(a, x, j - 1)
          BY <1>1, <1>2, <2>2, <3>1 DEF Agree
        <4>2. QED
          BY <2>2, <4>1 DEF Sooner
      <3>2. CASE Len(a) < j
        <4>1. Len(a) < Len(x) /\ Agree(a, x, Len(a))
          BY <1>1, <1>2, <2>2, <3>2 DEF Agree
        <4>2. QED
          BY <4>1 DEF Sooner
      <3>3. QED
        BY <1>1, <3>1, <3>2
    <2>3. QED
      BY <2>1, <2>2 DEF Sooner
  <1>3. ASSUME NEW i \in 1..Len(a), i <= Len(b), a[i] < b[i], Agree(a, b, i - 1)
        PROVE  Sooner(a, x)
    <2>1. CASE Len(b) < Len(x) /\ Agree(b, x, Len(b))
      <3>1. i <= Len(x) /\ a[i] < x[i] /\ Agree(a, x, i - 1)
        BY <1>1, <1>3, <2>1 DEF Agree
      <3>2. QED
        BY <3>1 DEF Sooner
    <2>2. ASSUME NEW j \in 1..Len(b), j <= Len(x), b[j] < x[j], Agree(b, x, j - 1)
          PROVE  Sooner(a, x)
      <3>1. CASE i <= j
        <4>1. i \in 1..Len(b) /\ i \in 1..Len(x) /\ b[i] <= x[i]
          <5>1. i \in 1..Len(b) /\ i \in 1..Len(x)
            BY <1>1, <1>3, <2>2, <3>1
          <5>2. b[i] \in Nat /\ x[i] \in Nat
            BY <1>1, <5>1
          <5>3. i = j => b[i] <= x[i]
            BY <2>2, <5>2
          <5>4. i \in 1..(j - 1) => b[i] = x[i]
            BY <2>2 DEF Agree
          <5>5. i = j \/ i \in 1..(j - 1)
            BY <1>1, <1>3, <2>2, <3>1
          <5>6. QED
            BY <5>1, <5>2, <5>3, <5>4, <5>5
        <4>2. a[i] \in Nat /\ b[i] \in Nat /\ x[i] \in Nat
          BY <1>1, <4>1
        <4>3. i <= Len(x) /\ a[i] < x[i]
          BY <1>1, <1>3, <4>1, <4>2
        <4>4. Agree(a, x, i - 1)
          BY <1>1, <1>3, <2>2, <3>1 DEF Agree
        <4>5. QED
          BY <4>3, <4>4 DEF Sooner
      <3>2. CASE j < i
        <4>1. j \in 1..Len(a) /\ a[j] < x[j] /\ Agree(a, x, j - 1)
          BY <1>1, <1>3, <2>2, <3>2 DEF Agree
        <4>2. QED
          BY <2>2, <4>1 DEF Sooner
      <3>3. QED
        BY <1>1, <3>1, <3>2
    <2>3. QED
      BY <2>1, <2>2 DEF Sooner
  <1>4. QED
    BY <1>2, <1>3 DEF Sooner

LEMMA SoonerOrLater ==
  ASSUME NEW a \in Seq(Nat \ {0}), NEW b \in Seq(Nat \ {0}), a # b
  PROVE  Sooner(a, b) \/ Sooner(b, a)
  <1>1. /\ Len(a) \in Nat /\ Len(b) \in Nat
        /\ \A j \in 1..Len(a) : a[j] \in Nat
        /\ \A j \in 1..Len(b) : b[j] \in Nat
    OBVIOUS
  <1> DEFINE S == {j \in 1..Len(a) : j <= Len(b) /\ a[j] # b[j]}
  <1>2. CASE S = {}
    <2>1. \A j \in 1..Len(a) : j <= Len(b) => a[j] = b[j]
      BY <1>2
    <2>2. Len(a) # Len(b)
      <3>1. SUFFICES ASSUME Len(a) = Len(b) PROVE FALSE
        OBVIOUS
      <3>2. \A j \in 1..Len(a) : a[j] = b[j]
        BY <1>1, <2>1, <3>1
      <3>3. QED
        BY <3>1, <3>2, SameElements
    <2>3. CASE Len(a) < Len(b)
      <3>1. Agree(a, b, Len(a))
        BY <1>1, <2>1, <2>3 DEF Agree
      <3>2. QED
        BY <2>3, <3>1 DEF Sooner
    <2>4. CASE Len(b) < Len(a)
      <3>1. Agree(b, a, Len(b))
        BY <1>1, <2>1, <2>4 DEF Agree
      <3>2. QED
        BY <2>4, <3>1 DEF Sooner
    <2>5. QED
      BY <1>1, <2>2, <2>3, <2>4
  <1>3. CASE S # {}
    <2>1. S \subseteq Nat
      BY <1>1
    <2>2. PICK j \in S : \A i \in S : j <= i
      <3> HIDE DEF S
      <3>1. QED
        BY <1>3, <2>1, LeastExists
    <2>3. j \in 1..Len(a) /\ j \in 1..Len(b) /\ a[j] # b[j]
      BY <1>1, <2>2
    <2>4. \A i \in 1..(j - 1) : a[i] = b[i]
      <3>1. SUFFICES ASSUME NEW i \in 1..(j - 1), a[i] # b[i] PROVE FALSE
        OBVIOUS
      <3>2. i \in S
        BY <1>1, <2>3, <3>1
      <3>3. QED
        BY <1>1, <2>2, <2>3, <3>2
    <2>5. Agree(a, b, j - 1) /\ Agree(b, a, j - 1)
      BY <2>4 DEF Agree
    <2>6. a[j] < b[j] \/ b[j] < a[j]
      BY <1>1, <2>3
    <2>7. j <= Len(a) /\ j <= Len(b)
      BY <1>1, <2>3
    <2>8. QED
      BY <2>3, <2>5, <2>6, <2>7 DEF Sooner
  <1>4. QED
    BY <1>2, <1>3

\* It is the order of the text.
LEMMA EarlierIsSooner ==
  ASSUME NEW a \in Seq(Nat \ {0}), NEW b \in Seq(Nat \ {0})
  PROVE  Earlier(a, b) <=> Sooner(a, b)
  <1>1. Len(a) \in Nat /\ Len(b) \in Nat /\ DOMAIN a = 1..Len(a) /\ DOMAIN b = 1..Len(b)
    OBVIOUS
  <1>2. (\E j \in DOMAIN a \cap DOMAIN b : a[j] < b[j] /\ \A i \in 1..(j - 1) : a[i] = b[i])
          <=> \E j \in 1..Len(a) : j <= Len(b) /\ a[j] < b[j] /\ Agree(a, b, j - 1)
    <2>1. \A j : j \in DOMAIN a \cap DOMAIN b <=> j \in 1..Len(a) /\ j <= Len(b)
      BY <1>1
    <2> DEFINE P(j) == a[j] < b[j] /\ \A i \in 1..(j - 1) : a[i] = b[i]
    <2>2. \A j : P(j) <=> a[j] < b[j] /\ Agree(a, b, j - 1)
      BY DEF Agree
    <2> HIDE DEF P
    <2>3. (\E j \in DOMAIN a \cap DOMAIN b : P(j)) <=> \E j \in 1..Len(a) : j <= Len(b) /\ P(j)
      BY <2>1
    <2>4. QED
      BY <2>2, <2>3 DEF P
  <1>3. Len(a) <= Len(b) =>
          /\ SubSeq(b, 1, Len(a)) \in Seq(Nat \ {0}) /\ Len(SubSeq(b, 1, Len(a))) = Len(a)
          /\ \A i \in 1..Len(a) : SubSeq(b, 1, Len(a))[i] = b[i]
    BY <1>1
  <1>4. SubSeq(a, 1, Len(a)) = a
    BY <1>1
  <1>5. Len(a) <= Len(b) => (a = SubSeq(b, 1, Len(a)) <=> Agree(a, b, Len(a)))
    <2>1. SUFFICES ASSUME Len(a) <= Len(b)
                   PROVE  a = SubSeq(b, 1, Len(a)) <=> Agree(a, b, Len(a))
      OBVIOUS
    <2> DEFINE p == SubSeq(b, 1, Len(a))
    <2>2. p \in Seq(Nat \ {0}) /\ Len(p) = Len(a) /\ \A i \in 1..Len(a) : p[i] = b[i]
      BY <1>3, <2>1
    <2> HIDE DEF p
    <2>3. a = p <=> \A i \in 1..Len(a) : a[i] = p[i]
      BY <2>2, SameElements
    <2>4. a = p <=> Agree(a, b, Len(a))
      BY <2>2, <2>3 DEF Agree
    <2>5. QED
      BY <2>4 DEF p
  <1>6. Agree(a, b, Len(a)) => (Len(a) = Len(b) <=> a = b)
    <2>1. Len(a) = Len(b) /\ Agree(a, b, Len(a)) => a = b
      BY SameElements DEF Agree
    <2>2. QED
      BY <2>1 DEF Agree
  <1>7. IsStrictPrefix(a, b) <=> Len(a) <= Len(b) /\ Agree(a, b, Len(a)) /\ a # b
    BY <1>4, <1>5 DEF IsStrictPrefix, IsPrefix
  <1>8. IsStrictPrefix(a, b) <=> Len(a) < Len(b) /\ Agree(a, b, Len(a))
    <2>1. Len(a) < Len(b) <=> Len(a) <= Len(b) /\ Len(a) # Len(b)
      <3> DEFINE m == Len(a)
                 n == Len(b)
      <3>1. m \in Nat /\ n \in Nat
        BY <1>1
      <3> HIDE DEF m, n
      <3>2. m < n <=> m <= n /\ m # n
        BY <3>1
      <3>3. QED
        BY <3>2 DEF m, n
    <2>2. QED
      BY <1>6, <1>7, <2>1, Zenon
  <1>9. QED
    BY <1>2, <1>8 DEF Earlier, Sooner

LEMMA NodesFinite ==
  ASSUME NEW c, Config(c)
  PROVE  IsFiniteSet(Nodes(c)) /\ Cardinality(Nodes(c)) \in Nat
  <1> DEFINE s == c.sections
             N == Len(s)
  <1>1. s \in Seq(Seq(Words) \ {<< >>})
    BY DEF Config, Nested
  <1>2. N \in Nat /\ DOMAIN s = 1..N
    BY <1>1
  <1>3. IsFiniteSet(1..N)
    BY <1>2, FS_Interval
  <1>4. s \in Surjection(1..N, ToSet(s))
    <2> HIDE DEF s, N
    <2>1. ToSet(s) = {s[i] : i \in 1..N}
      BY <1>2 DEF ToSet
    <2>2. s \in [1..N -> ToSet(s)]
      <3>1. s = [i \in 1..N |-> s[i]]
        BY <1>1, <1>2
      <3>2. QED
        BY <2>1, <3>1
    <2>3. QED
      BY <2>1, <2>2 DEF Surjection
  <1>5. IsFiniteSet(ToSet(s))
    BY <1>3, <1>4, FS_Surjection
  <1>6. IsFiniteSet(ToSet(s) \cup {<< >>})
    BY <1>5, FS_AddElement
  <1>7. Nodes(c) = ToSet(s) \cup {<< >>}
    BY DEF Nodes
  <1>8. QED
    BY <1>6, <1>7, FS_CardinalityType

\* The nodes that come before one.
Sooners(c, p) == {q \in Nodes(c) : Sooner(WayDown(c, q), WayDown(c, p))}

LEMMA DepthFirstIs ==
  ASSUME NEW c, Config(c)
  PROVE  DepthFirst(c) =
           [n \in 1..Cardinality(Nodes(c)) |->
              CHOOSE p \in Nodes(c) : Cardinality(Sooners(c, p)) = n - 1]
  <1> DEFINE S == {<< >>} \cup ToSet(c.sections)
             Before(p) == {q \in S : Earlier(WayDown(c, q), WayDown(c, p))}
             At(n) == CHOOSE p \in S : Cardinality(Before(p)) = n - 1
             To(n) == CHOOSE p \in Nodes(c) : Cardinality(Sooners(c, p)) = n - 1
  <1>1. S = Nodes(c)
    BY DEF Nodes
  <1>2. DepthFirst(c) = [n \in 1..Cardinality(S) |-> At(n)]
    BY DEF DepthFirst
  <1>3. ASSUME NEW p \in S PROVE Before(p) = Sooners(c, p)
    <2>1. \A q \in S : Earlier(WayDown(c, q), WayDown(c, p)) <=> Sooner(WayDown(c, q), WayDown(c, p))
      <3> HIDE DEF S
      <3>1. SUFFICES ASSUME NEW q \in S
                     PROVE  Earlier(WayDown(c, q), WayDown(c, p)) <=> Sooner(WayDown(c, q), WayDown(c, p))
        OBVIOUS
      <3>2. WayDown(c, q) \in Seq(Nat \ {0}) /\ WayDown(c, p) \in Seq(Nat \ {0})
        BY <1>1, WayIs
      <3>3. QED
        BY <3>2, EarlierIsSooner
    <2> HIDE DEF S
    <2>2. QED
      BY <1>1, <2>1 DEF Sooners
  <1> HIDE DEF Before, S
  <1>4. ASSUME NEW n PROVE At(n) = To(n)
    <2>1. \A p \in S : Cardinality(Before(p)) = n - 1 <=> Cardinality(Sooners(c, p)) = n - 1
      BY <1>3
    <2>2. QED
      BY <1>1, <2>1
  <1> HIDE DEF At, To
  <1>5. [n \in 1..Cardinality(S) |-> At(n)] = [n \in 1..Cardinality(Nodes(c)) |-> To(n)]
    BY <1>1, <1>4
  <1>6. QED
    BY <1>2, <1>5 DEF To

\* Different nodes have different ranks.
LEMMA RanksDiffer ==
  ASSUME NEW c, Config(c), NEW p \in Nodes(c), NEW r \in Nodes(c), p # r
  PROVE  Cardinality(Sooners(c, p)) # Cardinality(Sooners(c, r))
  <1> DEFINE S == Nodes(c)
             w(x) == WayDown(c, x)
             B(x) == {q \in S : Sooner(w(q), w(x))}
  <1>1. IsFiniteSet(S)
    BY NodesFinite
  <1>2. \A x \in S : w(x) \in Seq(Nat \ {0})
    BY WayIs
  <1>3. p \in S /\ r \in S /\ w(p) # w(r)
    BY WayFinds
  <1> HIDE DEF S, w
  <1>4. ASSUME NEW x \in S, NEW y \in S, Sooner(w(x), w(y))
        PROVE  Cardinality(B(x)) # Cardinality(B(y))
    <2>1. w(x) \in Seq(Nat \ {0}) /\ w(y) \in Seq(Nat \ {0})
      BY <1>2
    <2>2. ~Sooner(w(x), w(x))
      BY <2>1, NotSooner
    <2>3. B(x) \subseteq B(y)
      <3>1. SUFFICES ASSUME NEW q \in S, Sooner(w(q), w(x)) PROVE q \in B(y)
        OBVIOUS
      <3>2. w(q) \in Seq(Nat \ {0})
        BY <1>2
      <3>3. Sooner(w(q), w(y))
        BY <1>4, <2>1, <3>1, <3>2, SoonerOn
      <3>4. QED
        BY <3>3
    <2>4. x \in B(y) /\ x \notin B(x)
      BY <1>4, <2>2
    <2>5. B(y) # B(x)
      BY <2>4
    <2>6. IsFiniteSet(B(y))
      BY <1>1, FS_Subset
    <2> HIDE DEF B
    <2>7. QED
      BY <2>3, <2>5, <2>6, FS_Subset
  <1>5. Sooner(w(p), w(r)) \/ Sooner(w(r), w(p))
    BY <1>2, <1>3, SoonerOrLater
  <1>6. Cardinality(B(p)) # Cardinality(B(r))
    <2> HIDE DEF B
    <2>1. QED
      BY <1>3, <1>4, <1>5
  <1>7. \A x : Sooners(c, x) = B(x)
    BY DEF Sooners, S, w
  <1>8. QED
    BY <1>6, <1>7

\* A rank is below the number of nodes.
LEMMA RankInRange ==
  ASSUME NEW c, Config(c), NEW p \in Nodes(c)
  PROVE  Cardinality(Sooners(c, p)) \in 0..(Cardinality(Nodes(c)) - 1)
  <1> DEFINE S == Nodes(c)
             N == Cardinality(S)
             B == Sooners(c, p)
  <1>1. IsFiniteSet(S) /\ N \in Nat
    BY NodesFinite
  <1>2. B \subseteq S
    BY DEF Sooners
  <1>3. p \in S /\ p \notin B
    <2>1. WayDown(c, p) \in Seq(Nat \ {0})
      BY WayIs
    <2>2. QED
      BY <2>1, NotSooner DEF Sooners
  <1> HIDE DEF B, S
  <1>4. IsFiniteSet(B) /\ Cardinality(B) <= N /\ (N = Cardinality(B) => S = B)
    BY <1>1, <1>2, FS_Subset
  <1>5. S # B
    BY <1>3
  <1>6. Cardinality(B) \in Nat
    BY <1>4, FS_CardinalityType
  <1> HIDE DEF N
  <1>7. Cardinality(B) \in 0..(N - 1)
    BY <1>1, <1>4, <1>5, <1>6
  <1>8. QED
    BY <1>7 DEF B, N, S

\* Each rank is that of a node.
LEMMA RanksAreTaken ==
  ASSUME NEW c, Config(c), NEW n \in 1..Cardinality(Nodes(c))
  PROVE  /\ DepthFirst(c)[n] \in Nodes(c)
         /\ Cardinality(Sooners(c, DepthFirst(c)[n])) = n - 1
  <1> DEFINE S == Nodes(c)
             N == Cardinality(S)
             rank == [p \in S |-> Cardinality(Sooners(c, p))]
  <1>1. IsFiniteSet(S) /\ N \in Nat
    BY NodesFinite
  <1>2. \A p \in S : Cardinality(Sooners(c, p)) \in 0..(N - 1)
    BY RankInRange
  <1>3. IsFiniteSet(0..(N - 1)) /\ Cardinality(0..(N - 1)) = N
    <2> HIDE DEF N
    <2>1. 0 \in Int /\ N - 1 \in Int
      BY <1>1
    <2>2. IsFiniteSet(0..(N - 1)) /\ Cardinality(0..(N - 1)) = IF 0 > N - 1 THEN 0 ELSE (N - 1) - 0 + 1
      BY <2>1, FS_Interval
    <2>3. QED
      BY <1>1, <2>2
  <1>4. \A p \in S : \A q \in S : Cardinality(Sooners(c, p)) = Cardinality(Sooners(c, q)) => p = q
    BY RanksDiffer
  <1>5. rank \in Injection(S, 0..(N - 1))
    <2>1. rank \in [S -> 0..(N - 1)]
      BY <1>2
    <2>2. \A p \in S : \A q \in S : rank[p] = rank[q] => p = q
      BY <1>4
    <2> HIDE DEF rank, S, N
    <2>3. QED
      BY <2>1, <2>2 DEF Injection, IsInjective
  <1>6. rank \in Surjection(S, 0..(N - 1))
    <2> DEFINE T == 0..(N - 1)
    <2>1. IsFiniteSet(T) /\ Cardinality(S) = Cardinality(T) /\ rank \in Injection(S, T)
      BY <1>3, <1>5
    <2> HIDE DEF T, S, rank
    <2>2. rank \in Surjection(S, T)
      BY <2>1, FS_Injection
    <2>3. QED
      BY <2>2 DEF T
  <1>7. n \in 1..N /\ n - 1 \in 0..(N - 1)
    <2>1. n \in 1..N
      OBVIOUS
    <2> HIDE DEF N
    <2>2. QED
      BY <1>1, <2>1
  <1>8. \E p \in S : rank[p] = n - 1
    <2> HIDE DEF rank, N, S
    <2>1. QED
      BY <1>6, <1>7 DEF Surjection
  <1>9. \E p \in S : Cardinality(Sooners(c, p)) = n - 1
    BY <1>8
  <1>10. DepthFirst(c)[n] = CHOOSE p \in S : Cardinality(Sooners(c, p)) = n - 1
    BY <1>7, DepthFirstIs
  <1>11. QED
    BY <1>9, <1>10

\* The node that the walk goes to is the next in the order of the text.
LEMMA NextInOrder ==
  ASSUME NEW c, Config(c), NEW v, NEW next, GoesOn(c, v, next),
         NEW n, n = Cardinality(Visited(c, v))
  PROVE  /\ n \in Nat /\ n + 1 \in 1..Cardinality(Nodes(c))
         /\ Cardinality(Visited(c, next)) = n + 1
         /\ DepthFirst(c)[n + 1] = next.node
  <1> DEFINE S == Nodes(c)
             P == Visited(c, v)
             r == next.node
             w(p) == WayDown(c, p)
  <1>1. IsFiniteSet(S) /\ Cardinality(S) \in Nat
    BY NodesFinite
  <1>2. /\ r \in S /\ r \notin P /\ Visited(c, next) = P \cup {r} /\ next.begun
    BY DEF GoesOn, OnWay
  <1>3. P \subseteq S /\ Visited(c, next) \subseteq S
    BY DEF Visited
  <1>4. \A p \in S : w(p) \in Seq(Nat \ {0})
    BY WayIs
  <1>5. \A p \in S : \A q \in S : w(p) = w(q) => p = q
    BY WayFinds
  <1>6. Visited(c, next) = {p \in S : p = r \/ Sooner(w(p), w(r))}
    BY <1>2 DEF Visited
  <1> HIDE DEF S, P, r, w
  <1>7. P = {p \in S : Sooner(w(p), w(r))}
    <2>1. ~Sooner(w(r), w(r))
      BY <1>2, <1>4, NotSooner
    <2>2. QED
      BY <1>2, <1>3, <1>6, <2>1
  <1>8. IsFiniteSet(P) /\ n \in Nat
    BY <1>1, <1>3, FS_Subset, FS_CardinalityType DEF P
  <1>9. Cardinality(P \cup {r}) = n + 1 /\ IsFiniteSet(P \cup {r})
    BY <1>2, <1>8, FS_AddElement DEF P
  <1>10. n + 1 <= Cardinality(S)
    BY <1>1, <1>2, <1>3, <1>9, FS_Subset
  <1> DEFINE B(p) == {q \in S : Sooner(w(q), w(p))}
  <1>11. ASSUME NEW p \in S, p # r PROVE Cardinality(B(p)) # Cardinality(B(r))
    <2>1. \A x : Sooners(c, x) = B(x)
      BY DEF Sooners, S, w
    <2>2. p \in Nodes(c) /\ r \in Nodes(c)
      BY <1>2 DEF S
    <2> HIDE DEF B
    <2>3. QED
      BY <1>11, <2>1, <2>2, RanksDiffer
  <1>12. Cardinality(B(r)) = n
    BY <1>7 DEF P
  <1>13. \A p : Sooners(c, p) = B(p)
    BY DEF Sooners, S, w
  <1> HIDE DEF B
  <1>14. n + 1 \in 1..Cardinality(S) /\ (n + 1) - 1 = n
    BY <1>1, <1>8, <1>10
  <1>15. DepthFirst(c)[n + 1] = CHOOSE p \in S : Cardinality(B(p)) = n
    <2>1. DepthFirst(c)[n + 1] = CHOOSE p \in S : Cardinality(Sooners(c, p)) = (n + 1) - 1
      BY <1>14, DepthFirstIs DEF S
    <2>2. QED
      BY <1>13, <1>14, <2>1
  <1>16. DepthFirst(c)[n + 1] = r
    BY <1>2, <1>11, <1>12, <1>15
  <1>17. QED
    BY <1>2, <1>8, <1>9, <1>14, <1>16 DEF S, P, r

-----------------------------------------------------------------------------
(* The lines that the walk writes, and what they say.                      *)

\* A key is its section and its name.
LEMMA KeyIs ==
  ASSUME NEW k \in Seq(Words) \ {<< >>}
  PROVE  Front(k) \o <<Last(k)>> = k
  <1> DEFINE n == Len(k)
  <1>1. n \in Nat \ {0} /\ Front(k) = SubSeq(k, 1, n - 1) /\ Last(k) = k[n]
    BY DEF Front, Last
  <1>2. k[n] \in Words
    BY <1>1
  <1>3. n - 1 \in 0..Len(k)
    BY <1>1
  <1>4. /\ Front(k) \in Seq(Words) /\ Len(Front(k)) = n - 1
        /\ \A i \in 1..(n - 1) : Front(k)[i] = k[i]
    <2> DEFINE j == n - 1
    <2>1. j \in 0..Len(k) /\ Front(k) = SubSeq(k, 1, j)
      BY <1>1, <1>3
    <2> HIDE DEF j
    <2>2. /\ Front(k) \in Seq(Words) /\ Len(Front(k)) = j
          /\ \A i \in 1..j : Front(k)[i] = k[i]
      BY <2>1, Beginning
    <2>3. QED
      BY <2>2 DEF j
  <1> DEFINE r == Front(k) \o <<Last(k)>>
  <1>5. r \in Seq(Words) /\ Len(r) = n
    BY <1>1, <1>2, <1>4
  <1>6. ASSUME NEW i \in 1..n PROVE r[i] = k[i]
    <2>1. CASE i = n
      BY <1>1, <1>4, <2>1
    <2>2. CASE i # n
      <3>1. i \in 1..(n - 1)
        BY <1>1, <2>2
      <3>2. r[i] = Front(k)[i]
        BY <1>2, <1>4, <1>1, <3>1
      <3>3. QED
        BY <1>4, <3>1, <3>2
    <2>3. QED
      BY <2>1, <2>2
  <1> HIDE DEF r
  <1>7. r = k
    BY <1>5, <1>6, SameElements
  <1>8. QED
    BY <1>7 DEF r

\* The entries of a section are those whose keys are in it, each once.
LEMMA EntriesAll ==
  ASSUME NEW c, Config(c), NEW path
  PROVE  LET E == EntriesOf(c, path) IN
         /\ E \in Seq(Entry)
         /\ \A n \in 1..Len(E) : Front(E[n].key) = path /\ \E k \in 1..Len(c.entries) : E[n] = c.entries[k]
         /\ \A m, n \in 1..Len(E) : E[m].key = E[n].key => m = n
         /\ \A k \in 1..Len(c.entries) :
              Front(c.entries[k].key) = path => \E n \in 1..Len(E) : E[n] = c.entries[k]
  <1> DEFINE s == c.entries
             D == {i \in DOMAIN s : Front(s[i].key) = path}
             E == EntriesOf(c, path)
  <1>1. s \in Seq(Entry) /\ \A i, j \in 1..Len(s) : s[i].key = s[j].key => i = j
    BY DEF Config, Keyed
  <1>2. E = AtPlaces(s, D)
    BY DEF EntriesOf
  <1>3. E \in Seq(Entry)
    BY EntriesOfTyped
  <1>4. DOMAIN s = 1..Len(s) /\ Len(s) \in Nat
    BY <1>1
  <1>5. \A i \in D : i \in 1..Len(s) /\ Front(s[i].key) = path
    BY <1>4
  <1>6. \A i \in 1..Len(s) : Front(s[i].key) = path => i \in D
    BY <1>4
  <1> HIDE DEF D, E
  <1>7. PICK at : Picked(s, Entry, D, E, Len(s), at)
    BY <1>1, <1>2, AtPlacesAre
  <1>8. /\ at \in [1..Len(E) -> 1..Len(s)]
        /\ \A k \in 1..Len(E) : at[k] \in D /\ E[k] = s[at[k]]
        /\ \A k, l \in 1..Len(E) : k < l => at[k] < at[l]
        /\ \A i \in 1..Len(s) : i \in D => \E k \in 1..Len(E) : at[k] = i
    BY <1>7 DEF Picked
  <1>9. \A n \in 1..Len(E) : Front(E[n].key) = path /\ \E k \in 1..Len(s) : E[n] = s[k]
    BY <1>5, <1>8
  <1>10. ASSUME NEW m \in 1..Len(E), NEW n \in 1..Len(E), E[m].key = E[n].key PROVE m = n
    <2>1. at[m] = at[n]
      <3>1. at[m] \in 1..Len(s) /\ at[n] \in 1..Len(s) /\ E[m] = s[at[m]] /\ E[n] = s[at[n]]
        BY <1>8
      <3>2. s[at[m]].key = s[at[n]].key
        BY <1>10, <3>1
      <3>3. QED
        BY <1>1, <3>1, <3>2
    <2>2. m < n \/ n < m \/ m = n
      BY <1>3
    <2>3. ~(at[m] < at[n]) /\ ~(at[n] < at[m])
      BY <1>4, <1>8, <2>1
    <2>4. QED
      BY <1>8, <2>2, <2>3
  <1>11. \A k \in 1..Len(s) : Front(s[k].key) = path => \E n \in 1..Len(E) : E[n] = s[k]
    BY <1>6, <1>8
  <1>12. QED
    BY <1>3, <1>9, <1>10, <1>11 DEF E

\* The section of a line depends on the lines before it, and no others,
LEMMA SectionSame ==
  ASSUME NEW f, NEW g, NEW n \in Nat, \A i \in 1..n : g[i] = f[i],
         NEW m \in 1..n + 1
  PROVE  SectionAt(g, m) = SectionAt(f, m)
  <1> DEFINE F == {j \in 1..(m - 1) : f[j].kind = "section"}
             G == {j \in 1..(m - 1) : g[j].kind = "section"}
             x == CHOOSE j \in F : \A k \in F : k <= j
  <1>1. 1..(m - 1) \subseteq 1..n
    OBVIOUS
  <1>2. F = G
    BY <1>1
  <1>3. SectionAt(f, m) = IF F = {} THEN << >> ELSE f[x].name
    BY DEF SectionAt
  <1>4. SectionAt(g, m) = IF F = {} THEN << >> ELSE g[x].name
    <2>1. SectionAt(g, m) = IF G = {} THEN << >> ELSE g[CHOOSE j \in G : \A k \in G : k <= j].name
      BY DEF SectionAt
    <2> HIDE DEF F, G
    <2>2. QED
      BY <1>2, <2>1
  <1>5. CASE F = {}
    BY <1>3, <1>4, <1>5
  <1>6. CASE F # {}
    <2>1. F \in SUBSET (1..(m - 1)) /\ m - 1 \in Nat
      OBVIOUS
    <2> HIDE DEF F
    <2>2. \E j \in F : \A k \in F : k <= j
      <3> DEFINE N == m - 1
      <3>1. N \in Nat /\ F \in SUBSET (1..N)
        BY <2>1
      <3> HIDE DEF N
      <3>2. QED
        BY <1>6, <3>1, GreatestLevel
    <2>3. x \in F
      BY <2>2
    <2>4. x \in 1..n
      BY <1>1, <2>1, <2>3
    <2> HIDE DEF x
    <2>5. QED
      BY <1>3, <1>4, <1>6, <2>4
  <1>7. QED
    BY <1>5, <1>6

\* and the one of a heading lasts until the next.
LEMMA SectionStays ==
  ASSUME NEW f \in Seq(Lines), NEW m \in 1..Len(f) + 1, NEW n \in Nat, m + n <= Len(f) + 1,
         \A i \in 1..Len(f) : m <= i /\ i < m + n => f[i].kind # "section"
  PROVE  SectionAt(f, m + n) = SectionAt(f, m)
  <1> DEFINE P == {k \in Nat : k <= n => SectionAt(f, m + k) = SectionAt(f, m)}
  <1>1. m \in Nat /\ Len(f) \in Nat
    OBVIOUS
  <1>2. 0 \in P
    BY <1>1
  <1>3. ASSUME NEW k \in Nat, k \in P PROVE k + 1 \in P
    <2>1. SUFFICES ASSUME k + 1 <= n PROVE SectionAt(f, m + (k + 1)) = SectionAt(f, m)
      OBVIOUS
    <2> DEFINE i == m + k
    <2>2. i \in 1..Len(f) /\ f[i].kind # "section" /\ m + (k + 1) = i + 1
      BY <1>1, <2>1
    <2>3. SectionAt(f, i) = SectionAt(f, m)
      BY <1>3, <2>1
    <2> HIDE DEF i
    <2>4. SectionAt(f, i + 1) = SectionAt(f, i)
      BY <2>2, SectionStep
    <2>5. QED
      BY <2>2, <2>3, <2>4
  <1>4. n \in P
    <2> HIDE DEF P
    <2>1. QED
      BY <1>2, <1>3, Induction
  <1>5. QED
    BY <1>4

\* What is written of an entry.
LEMMA WrittenLineIs ==
  ASSUME NEW e \in Entry
  PROVE  /\ WrittenLine(e) \in Lines /\ WrittenLine(e).kind \in {"prop", "bad"}
         /\ WrittenLine(e).kind = "bad" <=> WrittenLine(e) = BadLine
         /\ WrittenLine(e).kind = "prop" =>
              WrittenLine(e).name = <<Last(e.key)>> /\ WrittenLine(e).value = e.value
  <1>1. WrittenLine(e) \in Lines
    BY WrittenIsALine
  <1>2. CASE Last(e.key) = Empty \/ e.value \in Unprintable
    <2>1. WrittenLine(e) = BadLine
      BY <1>2 DEF WrittenLine
    <2>2. BadLine.kind = "bad"
      BY DEF BadLine
    <2>3. QED
      BY <1>1, <2>1, <2>2
  <1>3. CASE ~(Last(e.key) = Empty \/ e.value \in Unprintable)
    <2> DEFINE l == PropLine(<<Last(e.key)>>, e.value)
    <2>1. WrittenLine(e) = l
      BY <1>3 DEF WrittenLine
    <2>2. l.kind = "prop" /\ l.name = <<Last(e.key)>> /\ l.value = e.value
      BY DEF PropLine
    <2>3. BadLine.kind = "bad"
      BY DEF BadLine
    <2> HIDE DEF l
    <2>4. QED
      BY <1>1, <2>1, <2>2, <2>3
  <1>4. QED
    BY <1>2, <1>3

\* What the lines of f say comes from the entries of c in the sections P, and
\* they say nothing twice.
Says(f, c, P) ==
  /\ f \in Seq(Lines)
  /\ \A i \in PropLines(f) :
       /\ Front(KeyAt(f, i)) \in P
       /\ \E k \in 1..Len(c.entries) :
            c.entries[k].key = KeyAt(f, i) /\ c.entries[k].value = f[i].value
  /\ \A i, j \in PropLines(f) : KeyAt(f, i) = KeyAt(f, j) => i = j
  /\ \A i \in 1..Len(f) :
       f[i].kind = "bad" => \E k \in 1..Len(c.entries) : WrittenLine(c.entries[k]) = BadLine

\* Each entry of the sections P has a line, a bad one if it cannot be written.
HasLine(f, e) ==
  IF WrittenLine(e) = BadLine
  THEN \E i \in 1..Len(f) : f[i].kind = "bad"
  ELSE \E i \in PropLines(f) : KeyAt(f, i) = e.key

Tells(f, c, P) ==
  /\ Says(f, c, P)
  /\ \A k \in 1..Len(c.entries) : Front(c.entries[k].key) \in P => HasLine(f, c.entries[k])

\* The lines of one section, after those before it.
Follows(f, path, E, g) ==
  LET h == IF path = << >> THEN 0 ELSE 1 IN
  /\ g \in Seq(Lines) /\ Len(g) = Len(f) + h + Len(E)
  /\ \A i \in 1..Len(f) : g[i] = f[i]
  /\ path # << >> => g[Len(f) + 1].kind = "section" /\ g[Len(f) + 1].name = path
  /\ \A j \in 1..Len(E) : g[Len(f) + h + j] = WrittenLine(E[j])

LEMMA NodeFollows ==
  ASSUME NEW c, Config(c), NEW path \in Seq(Words), EntriesOf(c, path) # << >>,
         NEW f \in Seq(Lines)
  PROVE  Follows(f, path, EntriesOf(c, path), f \o NodeLines(c, path))
  <1> DEFINE E == EntriesOf(c, path)
             h == IF path = << >> THEN 0 ELSE 1
             H == IF path = << >> THEN << >> ELSE <<SectionLine(path)>>
             W == [i \in DOMAIN E |-> WrittenLine(E[i])]
             L == NodeLines(c, path)
             g == f \o L
  <1>1. L = H \o W
    BY DEF NodeLines
  <1>2. E \in Seq(Entry)
    BY EntriesAll
  <1>3. L \in Seq(Lines)
    BY NodeLinesAre
  <1>4. W \in Seq(Lines) /\ Len(W) = Len(E) /\ \A j \in 1..Len(E) : W[j] = WrittenLine(E[j])
    <2> HIDE DEF E
    <2>1. \A i \in 1..Len(E) : WrittenLine(E[i]) \in Lines
      BY <1>2, WrittenLineIs
    <2>2. DOMAIN E = 1..Len(E) /\ Len(E) \in Nat
      BY <1>2
    <2>3. W \in [1..Len(E) -> Lines]
      BY <2>1, <2>2
    <2>4. W \in Seq(Lines) /\ Len(W) = Len(E)
      BY <2>2, <2>3
    <2>5. QED
      BY <2>2, <2>4
  <1>5. H \in Seq(Lines) /\ Len(H) = h /\ (path # << >> => H[1] = SectionLine(path))
    <2>1. SectionLine(path) \in Lines
      BY DEF SectionLine, Lines
    <2>2. QED
      BY <2>1
  <1>6. SectionLine(path).kind = "section" /\ SectionLine(path).name = path
    BY DEF SectionLine
  <1>7. Len(f) \in Nat /\ Len(E) \in Nat /\ h \in {0, 1}
    BY <1>2
  <1>8. path # << >> => h = 1
    OBVIOUS
  <1> HIDE DEF E, H, W, L, h
  <1>9. g \in Seq(Lines) /\ Len(g) = Len(f) + h + Len(E)
    <2>1. Len(L) = h + Len(E)
      <3>1. H \in Seq(Lines) /\ W \in Seq(Lines) /\ Len(H) = h /\ Len(W) = Len(E)
        BY <1>4, <1>5
      <3>2. Len(H \o W) = Len(H) + Len(W)
        BY <3>1, Joined
      <3>3. QED
        BY <1>1, <3>1, <3>2
    <2>2. g \in Seq(Lines) /\ Len(g) = Len(f) + Len(L)
      BY <1>3
    <2> HIDE DEF g
    <2>3. QED
      BY <1>7, <2>1, <2>2
  <1>10. \A i \in 1..Len(f) : g[i] = f[i]
    BY <1>3
  <1>11. ASSUME NEW i \in 1..Len(L) PROVE g[Len(f) + i] = L[i]
    BY <1>3, <1>7
  <1>12. Len(L) = h + Len(E)
    BY <1>1, <1>4, <1>5, <1>7
  <1>13. ASSUME path # << >> PROVE g[Len(f) + 1] = SectionLine(path)
    <2>1. L[1] = H[1] /\ 1 \in 1..Len(L)
      BY <1>1, <1>4, <1>5, <1>7, <1>8, <1>12, <1>13
    <2>2. QED
      BY <1>5, <1>11, <1>13, <2>1
  <1>14. ASSUME NEW j \in 1..Len(E) PROVE g[Len(f) + h + j] = WrittenLine(E[j])
    <2>1. h + j \in 1..Len(L) /\ Len(f) + h + j = Len(f) + (h + j)
      BY <1>7, <1>12
    <2>2. L[h + j] = W[j]
      BY <1>1, <1>4, <1>5, <1>7
    <2>3. g[Len(f) + (h + j)] = L[h + j]
      BY <1>11, <2>1
    <2>4. QED
      BY <1>4, <2>1, <2>2, <2>3
  <1>15. QED
    BY <1>6, <1>9, <1>10, <1>13, <1>14 DEF Follows, E, L, h

\* The keys of those lines are those of the entries.
LEMMA KeysFollow ==
  ASSUME NEW f \in Seq(Lines), NEW path \in Seq(Words), path = << >> => f = << >>,
         NEW E \in Seq(Entry), \A n \in 1..Len(E) : Front(E[n].key) = path,
         NEW g, Follows(f, path, E, g)
  PROVE  LET h == IF path = << >> THEN 0 ELSE 1 IN
         /\ \A i \in 1..Len(f) : KeyAt(g, i) = KeyAt(f, i)
         /\ \A j \in 1..Len(E) : g[Len(f) + h + j].kind = "prop" =>
              KeyAt(g, Len(f) + h + j) = E[j].key
  <1> DEFINE h == IF path = << >> THEN 0 ELSE 1
             n == Len(f)
             m == Len(E)
  <1>1. n \in Nat /\ m \in Nat /\ h \in {0, 1}
    OBVIOUS
  <1>2. /\ g \in Seq(Lines) /\ Len(g) = n + h + m
        /\ \A i \in 1..n : g[i] = f[i]
        /\ path # << >> => g[n + 1].kind = "section" /\ g[n + 1].name = path
        /\ \A j \in 1..m : g[n + h + j] = WrittenLine(E[j])
    BY DEF Follows
  <1>3. path = << >> => h = 0 /\ n = 0
    OBVIOUS
  <1>4. path # << >> => h = 1
    OBVIOUS
  <1>5. \A j \in 1..m : E[j] \in Entry
    OBVIOUS
  <1>6. \A j \in 1..m : Front(E[j].key) = path
    OBVIOUS
  <1> HIDE DEF h, n, m
  <1>7. \A i \in 1..n : KeyAt(g, i) = KeyAt(f, i)
    <2>1. SUFFICES ASSUME NEW i \in 1..n PROVE KeyAt(g, i) = KeyAt(f, i)
      OBVIOUS
    <2>2. i \in 1..n + 1
      BY <1>1
    <2>3. SectionAt(g, i) = SectionAt(f, i)
      BY <1>1, <1>2, <2>2, SectionSame
    <2>4. QED
      BY <1>2, <2>3 DEF KeyAt
  <1>8. SectionAt(g, n + h + 1) = path
    <2>1. CASE path = << >>
      <3>1. n + h + 1 = 1
        BY <1>3, <2>1
      <3>2. SectionAt(g, 1) = << >>
        BY DEF SectionAt
      <3>3. QED
        BY <2>1, <3>1, <3>2
    <2>2. CASE path # << >>
      <3> DEFINE l == n + 1
      <3>1. l \in 1..Len(g) /\ n + h + 1 = l + 1 /\ g[l].kind = "section" /\ g[l].name = path
        BY <1>1, <1>2, <1>4, <2>2
      <3> HIDE DEF l
      <3>2. SectionAt(g, l + 1) = path
        BY <1>2, <3>1, SectionStep
      <3>3. QED
        BY <3>1, <3>2
    <2>3. QED
      BY <2>1, <2>2
  <1>9. ASSUME NEW j \in 1..m, g[n + h + j].kind = "prop" PROVE KeyAt(g, n + h + j) = E[j].key
    <2> DEFINE a == n + h + 1
               d == j - 1
    <2> DEFINE N == Len(g)
    <2>0. j \in Nat /\ 1 <= j /\ j <= m /\ N = n + h + m
      BY <1>1, <1>2
    <2> HIDE DEF N
    <2>1. a \in 1..Len(g) + 1 /\ d \in Nat /\ a + d <= Len(g) + 1 /\ n + h + j = a + d
      <3>1. a \in 1..N + 1 /\ d \in Nat /\ a + d <= N + 1 /\ n + h + j = a + d
        BY <1>1, <2>0
      <3>2. QED
        BY <3>1 DEF N
    <2>2. ASSUME NEW i \in 1..Len(g), a <= i, i < a + d PROVE g[i].kind # "section"
      <3> DEFINE k == i - (n + h)
      <3>1. k \in 1..m /\ i = n + h + k
        <4>1. i \in Nat /\ n + h + 1 <= i /\ i < n + h + 1 + (j - 1)
          BY <2>2
        <4>2. QED
          BY <1>1, <2>0, <4>1
      <3> HIDE DEF k
      <3>2. g[i] = WrittenLine(E[k]) /\ E[k] \in Entry
        BY <1>2, <1>5, <3>1
      <3>3. QED
        BY <3>2, WrittenLineIs
    <2> HIDE DEF a, d
    <2>3. SectionAt(g, a + d) = SectionAt(g, a)
      BY <1>2, <2>1, <2>2, SectionStays
    <2>4. SectionAt(g, n + h + j) = path
      BY <1>8, <2>1, <2>3 DEF a
    <2>5. g[n + h + j].name = <<Last(E[j].key)>>
      BY <1>2, <1>5, <1>9, WrittenLineIs
    <2>6. E[j].key \in Seq(Words) \ {<< >>}
      BY <1>5 DEF Entry
    <2>7. path \o <<Last(E[j].key)>> = E[j].key
      BY <1>6, <2>6, KeyIs
    <2>8. QED
      BY <2>4, <2>5, <2>7 DEF KeyAt
  <1>10. QED
    BY <1>7, <1>9 DEF n, m, h

\* A section without entries says nothing,
LEMMA TellsNone ==
  ASSUME NEW c, Config(c), NEW path, EntriesOf(c, path) = << >>, NEW P, NEW f, Tells(f, c, P)
  PROVE  Tells(f, c, P \cup {path})
  <1>1. \A k \in 1..Len(c.entries) : Front(c.entries[k].key) # path
    <2> DEFINE E == EntriesOf(c, path)
    <2>1. \A k \in 1..Len(c.entries) :
            Front(c.entries[k].key) = path => \E n \in 1..Len(E) : E[n] = c.entries[k]
      BY EntriesAll
    <2>2. Len(E) = 0
      OBVIOUS
    <2>3. QED
      BY <2>1, <2>2
  <1>2. \A Q : Front(Q) \in P => Front(Q) \in P \cup {path}
    OBVIOUS
  <1>3. Says(f, c, P \cup {path})
    BY DEF Says, Tells
  <1>4. QED
    BY <1>1, <1>3 DEF Tells

\* and the lines of one that has entries say those.
LEMMA TellsMore ==
  ASSUME NEW c, Config(c), NEW path \in Seq(Words), EntriesOf(c, path) # << >>,
         NEW P, path \notin P, NEW f, Tells(f, c, P), path = << >> => f = << >>
  PROVE  Tells(f \o NodeLines(c, path), c, P \cup {path})
  <1> DEFINE E == EntriesOf(c, path)
             g == f \o NodeLines(c, path)
             h == IF path = << >> THEN 0 ELSE 1
             n == Len(f)
             m == Len(E)
             Q == P \cup {path}
  <1>1. f \in Seq(Lines) /\ Says(f, c, P)
    BY DEF Tells, Says
  <1>2. /\ E \in Seq(Entry)
        /\ \A j \in 1..m : Front(E[j].key) = path /\ \E k \in 1..Len(c.entries) : E[j] = c.entries[k]
        /\ \A i, j \in 1..m : E[i].key = E[j].key => i = j
        /\ \A k \in 1..Len(c.entries) :
             Front(c.entries[k].key) = path => \E j \in 1..m : E[j] = c.entries[k]
    BY EntriesAll
  <1>3. Follows(f, path, E, g)
    BY <1>1, NodeFollows
  <1> HIDE DEF E, g
  <1>4. /\ \A i \in 1..n : KeyAt(g, i) = KeyAt(f, i)
        /\ \A j \in 1..m : g[n + h + j].kind = "prop" => KeyAt(g, n + h + j) = E[j].key
    BY <1>1, <1>2, <1>3, KeysFollow
  <1>5. /\ g \in Seq(Lines) /\ Len(g) = n + h + m
        /\ \A i \in 1..n : g[i] = f[i]
        /\ path # << >> => g[n + 1].kind = "section"
        /\ \A j \in 1..m : g[n + h + j] = WrittenLine(E[j])
    BY <1>3 DEF Follows
  <1>6. n \in Nat /\ m \in Nat /\ h \in {0, 1} /\ (h = 1 => path # << >>)
    BY <1>1, <1>2
  <1>7. \A j \in 1..m : E[j] \in Entry
    BY <1>2
  <1> HIDE DEF h, n, m
  <1>8. ASSUME NEW i \in 1..Len(g), g[i].kind # "section"
        PROVE  i \in 1..n \/ \E j \in 1..m : i = n + h + j
    <2> DEFINE N == Len(g)
    <2>1. N = n + h + m /\ i \in 1..N
      BY <1>5
    <2> HIDE DEF N
    <2>2. i \in 1..n \/ (h = 1 /\ i = n + 1) \/ i - (n + h) \in 1..m
      BY <1>6, <2>1
    <2>3. CASE h = 1 /\ i = n + 1
      BY <1>5, <1>6, <1>8, <2>3
    <2>4. CASE i - (n + h) \in 1..m
      BY <1>6, <2>1, <2>4
    <2>5. QED
      BY <2>2, <2>3, <2>4
  <1>9. /\ PropLines(f) = {i \in 1..n : f[i].kind = "prop"}
        /\ PropLines(g) = {i \in 1..Len(g) : g[i].kind = "prop"}
    BY <1>1, <1>5 DEF PropLines, n
  <1>10. /\ \A i \in PropLines(f) :
              /\ Front(KeyAt(f, i)) \in P
              /\ \E k \in 1..Len(c.entries) :
                   c.entries[k].key = KeyAt(f, i) /\ c.entries[k].value = f[i].value
         /\ \A i, j \in PropLines(f) : KeyAt(f, i) = KeyAt(f, j) => i = j
         /\ \A i \in 1..n :
              f[i].kind = "bad" => \E k \in 1..Len(c.entries) : WrittenLine(c.entries[k]) = BadLine
    BY <1>1 DEF Says, n
  <1>11. ASSUME NEW i \in PropLines(g)
         PROVE  \/ i \in PropLines(f) /\ KeyAt(g, i) = KeyAt(f, i) /\ g[i] = f[i]
                \/ \E j \in 1..m : i = n + h + j /\ KeyAt(g, i) = E[j].key /\ g[i].value = E[j].value
    <2>1. i \in 1..Len(g) /\ g[i].kind = "prop"
      BY <1>9
    <2>2. CASE i \in 1..n
      BY <1>4, <1>5, <1>9, <2>1, <2>2
    <2>3. CASE \E j \in 1..m : i = n + h + j
      <3>1. PICK j \in 1..m : i = n + h + j
        BY <2>3
      <3>2. g[i] = WrittenLine(E[j]) /\ KeyAt(g, i) = E[j].key
        BY <1>4, <1>5, <2>1, <3>1
      <3>3. g[i].value = E[j].value
        BY <1>7, <2>1, <3>2, WrittenLineIs
      <3>4. QED
        BY <3>1, <3>2, <3>3
    <2>4. QED
      BY <1>8, <2>1, <2>2, <2>3
  <1>12. ASSUME NEW i \in PropLines(g)
         PROVE  /\ Front(KeyAt(g, i)) \in Q
                /\ \E k \in 1..Len(c.entries) :
                     c.entries[k].key = KeyAt(g, i) /\ c.entries[k].value = g[i].value
    <2>1. CASE i \in PropLines(f) /\ KeyAt(g, i) = KeyAt(f, i) /\ g[i] = f[i]
      BY <1>10, <2>1
    <2>2. CASE \E j \in 1..m : i = n + h + j /\ KeyAt(g, i) = E[j].key /\ g[i].value = E[j].value
      BY <1>2, <2>2
    <2>3. QED
      BY <1>11, <2>1, <2>2
  <1>13. ASSUME NEW i \in PropLines(g), NEW j \in PropLines(g), KeyAt(g, i) = KeyAt(g, j)
         PROVE  i = j
    <2>1. CASE /\ i \in PropLines(f) /\ KeyAt(g, i) = KeyAt(f, i)
               /\ j \in PropLines(f) /\ KeyAt(g, j) = KeyAt(f, j)
      BY <1>10, <1>13, <2>1
    <2>2. ASSUME NEW k \in 1..m, KeyAt(g, i) = E[k].key,
                 j \in PropLines(f) /\ KeyAt(g, j) = KeyAt(f, j)
          PROVE  FALSE
      <3>1. Front(KeyAt(f, j)) \in P
        BY <1>10, <2>2
      <3>2. Front(E[k].key) = path
        BY <1>2
      <3>3. QED
        BY <1>13, <2>2, <3>1, <3>2
    <2>3. ASSUME NEW k \in 1..m, KeyAt(g, j) = E[k].key,
                 i \in PropLines(f) /\ KeyAt(g, i) = KeyAt(f, i)
          PROVE  FALSE
      <3>1. Front(KeyAt(f, i)) \in P
        BY <1>10, <2>3
      <3>2. Front(E[k].key) = path
        BY <1>2
      <3>3. QED
        BY <1>13, <2>3, <3>1, <3>2
    <2>4. ASSUME NEW k \in 1..m, NEW l \in 1..m, i = n + h + k, j = n + h + l,
                 KeyAt(g, i) = E[k].key, KeyAt(g, j) = E[l].key
          PROVE  i = j
      BY <1>2, <1>13, <2>4
    <2>5. QED
      BY <1>11, <2>1, <2>2, <2>3, <2>4
  <1>14. ASSUME NEW i \in 1..Len(g), g[i].kind = "bad"
         PROVE  \E k \in 1..Len(c.entries) : WrittenLine(c.entries[k]) = BadLine
    <2>1. CASE i \in 1..n
      BY <1>5, <1>10, <1>14, <2>1
    <2>2. CASE \E j \in 1..m : i = n + h + j
      <3>1. PICK j \in 1..m : i = n + h + j
        BY <2>2
      <3>2. WrittenLine(E[j]) = BadLine
        BY <1>5, <1>7, <1>14, <3>1, WrittenLineIs
      <3>3. QED
        BY <1>2, <3>2
    <2>3. QED
      BY <1>8, <1>14, <2>1, <2>2
  <1>15. Says(g, c, Q)
    BY <1>5, <1>12, <1>13, <1>14 DEF Says
  <1>16. ASSUME NEW k \in 1..Len(c.entries), Front(c.entries[k].key) \in Q
         PROVE  HasLine(g, c.entries[k])
    <2> DEFINE e == c.entries[k]
    <2> SUFFICES HasLine(g, e)
      OBVIOUS
    <2>1. CASE Front(e.key) \in P
      <3>1. HasLine(f, e)
        BY <2>1 DEF Tells
      <3>2. ASSUME NEW i \in 1..n, f[i].kind = "bad" PROVE i \in 1..Len(g) /\ g[i].kind = "bad"
        BY <1>5, <1>6, <3>2
      <3>3. ASSUME NEW i \in PropLines(f) PROVE i \in PropLines(g) /\ KeyAt(g, i) = KeyAt(f, i)
        <4>1. i \in 1..n /\ f[i].kind = "prop"
          BY <1>9, <3>3
        <4>2. i \in 1..Len(g) /\ g[i].kind = "prop"
          BY <1>5, <1>6, <4>1
        <4>3. QED
          BY <1>4, <1>9, <4>1, <4>2
      <3> HIDE DEF e
      <3>4. QED
        BY <3>1, <3>2, <3>3 DEF HasLine, n
    <2>2. CASE Front(e.key) = path
      <3>1. PICK j \in 1..m : E[j] = e
        BY <1>2, <2>2
      <3> DEFINE i == n + h + j
      <3>2. i \in 1..Len(g) /\ g[i] = WrittenLine(e) /\ e \in Entry
        <4>1. g[i] = WrittenLine(e) /\ e \in Entry
          BY <1>5, <1>7, <3>1
        <4> DEFINE N == Len(g)
        <4>2. N = n + h + m
          BY <1>5
        <4> HIDE DEF N
        <4>3. i \in 1..N
          BY <1>6, <4>2
        <4>4. QED
          BY <4>1, <4>3 DEF N
      <3>3. g[i].kind = "prop" => KeyAt(g, i) = e.key
        BY <1>4, <3>1
      <3> HIDE DEF e, i
      <3>4. CASE WrittenLine(e) = BadLine
        <4>1. g[i].kind = "bad"
          BY <3>2, <3>4, WrittenLineIs
        <4>2. QED
          BY <3>2, <3>4, <4>1 DEF HasLine
      <3>5. CASE WrittenLine(e) # BadLine
        <4>1. g[i].kind = "prop"
          BY <3>2, <3>5, WrittenLineIs
        <4>2. i \in PropLines(g)
          BY <1>9, <3>2, <4>1
        <4>3. QED
          BY <3>3, <3>5, <4>1, <4>2 DEF HasLine
      <3>6. QED
        BY <3>4, <3>5
    <2>3. QED
      BY <1>16, <2>1, <2>2
  <1>17. QED
    BY <1>15, <1>16 DEF Tells, g, Q

\* What the lines of the beginning of a text say, the text says.
LEMMA SaysLess ==
  ASSUME NEW f \in Seq(Lines), NEW l \in Seq(Lines), NEW c, NEW P, Says(f \o l, c, P)
  PROVE  Says(f, c, P)
  <1> DEFINE g == f \o l
             n == Len(f)
  <1>1. g \in Seq(Lines) /\ Len(g) = n + Len(l) /\ n \in Nat /\ Len(l) \in Nat
    OBVIOUS
  <1>2. \A i \in 1..n : g[i] = f[i]
    OBVIOUS
  <1>3. DOMAIN f = 1..n /\ DOMAIN g = 1..Len(g)
    OBVIOUS
  <1> HIDE DEF g, n
  <1>4. \A i \in 1..n : i \in 1..Len(g) /\ i \in 1..n + 1
    BY <1>1
  <1>5. \A i \in 1..n : KeyAt(g, i) = KeyAt(f, i)
    <2>1. SUFFICES ASSUME NEW i \in 1..n PROVE KeyAt(g, i) = KeyAt(f, i)
      OBVIOUS
    <2>2. SectionAt(g, i) = SectionAt(f, i)
      BY <1>1, <1>2, <1>4, SectionSame
    <2>3. QED
      BY <1>2, <2>2 DEF KeyAt
  <1>6. \A i \in PropLines(f) : i \in PropLines(g) /\ i \in 1..n
    BY <1>2, <1>3, <1>4 DEF PropLines
  <1>7. Says(g, c, P)
    BY DEF g
  <1>8. \A i \in PropLines(f) :
          /\ Front(KeyAt(f, i)) \in P
          /\ \E k \in 1..Len(c.entries) :
               c.entries[k].key = KeyAt(f, i) /\ c.entries[k].value = f[i].value
    BY <1>2, <1>5, <1>6, <1>7 DEF Says
  <1>9. \A i, j \in PropLines(f) : KeyAt(f, i) = KeyAt(f, j) => i = j
    BY <1>5, <1>6, <1>7 DEF Says
  <1>10. \A i \in 1..n :
           f[i].kind = "bad" => \E k \in 1..Len(c.entries) : WrittenLine(c.entries[k]) = BadLine
    BY <1>2, <1>4, <1>7 DEF Says
  <1>11. QED
    BY <1>8, <1>9, <1>10 DEF Says, n

-----------------------------------------------------------------------------
(* The maps that a config_data and a file stand for.                       *)

\* The map of a config_data has the keys and the values of its entries.
LEMMA MapIs ==
  ASSUME NEW c, Config(c)
  PROVE  /\ \A k : k \in DOMAIN AsMap(c) <=> HasProp(c, k)
         /\ \A i \in 1..Len(c.entries) :
              /\ c.entries[i].key \in DOMAIN AsMap(c)
              /\ AsMap(c)[c.entries[i].key] = c.entries[i].value
         /\ AsMap(c) = [k \in DOMAIN AsMap(c) |-> AsMap(c)[k]]
         /\ \A k \in DOMAIN AsMap(c) : \E i \in 1..Len(c.entries) : c.entries[i].key = k
  <1> DEFINE K == {c.entries[i].key : i \in DOMAIN c.entries}
  <1>1. AsMap(c) = [k \in K |-> Find(c, k)]
    BY DEF AsMap
  <1>2. DOMAIN c.entries = 1..Len(c.entries)
    BY DEF Config
  <1>3. DOMAIN AsMap(c) = K
    BY <1>1
  <1>4. \A k : k \in K <=> HasProp(c, k)
    BY DEF HasProp
  <1>5. ASSUME NEW i \in 1..Len(c.entries)
        PROVE  c.entries[i].key \in K /\ Find(c, c.entries[i].key) = c.entries[i].value
    <2> DEFINE k == c.entries[i].key
    <2>1. k \in K
      BY <1>2
    <2>2. HasProp(c, k)
      BY <1>4, <2>1
    <2> HIDE DEF K
    <2>3. i = IndexOf(c, k)
      BY <2>2, IndexFinds
    <2>4. Find(c, k) = c.entries[IndexOf(c, k)].value
      BY <2>2 DEF Find
    <2>5. QED
      BY <2>1, <2>3, <2>4
  <1>6. \A k \in K : \E i \in 1..Len(c.entries) : c.entries[i].key = k
    BY <1>2
  <1> HIDE DEF K
  <1>7. \A k \in K : AsMap(c)[k] = Find(c, k)
    BY <1>1
  <1>8. AsMap(c) = [k \in DOMAIN AsMap(c) |-> AsMap(c)[k]]
    BY <1>1
  <1>9. QED
    BY <1>3, <1>4, <1>5, <1>6, <1>7, <1>8

\* Two maps are one if their keys and their values are.
LEMMA SameMap ==
  ASSUME NEW m, NEW n, m = [k \in DOMAIN m |-> m[k]], n = [k \in DOMAIN n |-> n[k]],
         \A k : k \in DOMAIN m <=> k \in DOMAIN n, \A k \in DOMAIN m : m[k] = n[k]
  PROVE  m = n
  <1>1. DOMAIN m = DOMAIN n
    OBVIOUS
  <1>2. QED
    BY <1>1

\* The map of what the parser made is the meaning of the file.
LEMMA MapOfParsed ==
  ASSUME NEW f \in Seq(Lines), IsClear(f)
  PROVE  AsMap(Parse(f).conf) = Meaning(f)
  <1> DEFINE c == Parse(f).conf
             M == Meaning(f)
  <1>1. Config(c)
    BY ParseReads DEF Understood
  <1>2. \A k : /\ HasProp(c, k) <=> k \in DOMAIN M
               /\ k \in DOMAIN M => Find(c, k) = M[k]
    BY FindMeans
  <1>3. M = [k \in DOMAIN M |-> M[k]]
    <2>1. \E D, v : M = [k \in D |-> f[CHOOSE i \in PropLines(f) : KeyAt(f, i) = k].value]
      BY DEF Meaning
    <2> HIDE DEF M
    <2>2. QED
      BY <2>1
  <1> DEFINE A == AsMap(c)
  <1>4. /\ \A k : k \in DOMAIN A <=> HasProp(c, k)
        /\ A = [k \in DOMAIN A |-> A[k]]
    <2> HIDE DEF c
    <2>1. QED
      BY <1>1, MapIs
  <1>5. \A k \in DOMAIN A : A[k] = Find(c, k)
    <2> HIDE DEF c
    <2>1. QED
      BY DEF AsMap
  <1> HIDE DEF A, M, c
  <1>6. A = M
    BY <1>2, <1>3, <1>4, <1>5, SameMap
  <1>7. QED
    BY <1>6 DEF A, M, c

\* An edit of a config_data changes the entry that is named, and no other.
LEMMA MapOfUpdate ==
  ASSUME NEW c, Config(c), NEW key, HasProp(c, key), NEW value \in Values
  PROVE  AsMap(Update(c, key, value)) = Store!Put(AsMap(c), key, value)
  <1> DEFINE d == Update(c, key, value)
             A == AsMap(c)
             B == AsMap(d)
             M == Store!Put(A, key, value)
  <1>1. /\ Config(d) /\ Len(d.entries) = Len(c.entries)
        /\ \A j \in 1..Len(c.entries) :
             /\ d.entries[j].key = c.entries[j].key
             /\ d.entries[j].value = IF c.entries[j].key = key THEN value ELSE c.entries[j].value
    BY UpdateKeeps
  <1>2. M = [x \in DOMAIN A \cup {key} |-> IF x = key THEN value ELSE A[x]]
    BY DEF Store!Put
  <1>3. key \in DOMAIN A
    BY MapIs
  <1> HIDE DEF d
  <1>4. /\ B = [k \in DOMAIN B |-> B[k]]
        /\ \A i \in 1..Len(d.entries) : d.entries[i].key \in DOMAIN B /\ B[d.entries[i].key] = d.entries[i].value
        /\ \A k \in DOMAIN B : \E i \in 1..Len(d.entries) : d.entries[i].key = k
    BY <1>1, MapIs
  <1>5. /\ \A i \in 1..Len(c.entries) : c.entries[i].key \in DOMAIN A /\ A[c.entries[i].key] = c.entries[i].value
        /\ \A k \in DOMAIN A : \E i \in 1..Len(c.entries) : c.entries[i].key = k
    BY MapIs
  <1> HIDE DEF A, B, M
  <1>6. M = [k \in DOMAIN M |-> M[k]] /\ DOMAIN M = DOMAIN A \cup {key}
    BY <1>2
  <1>7. \A k : k \in DOMAIN B <=> k \in DOMAIN M
    <2>1. DOMAIN M = DOMAIN A
      BY <1>3, <1>6
    <2>2. ASSUME NEW k \in DOMAIN B PROVE k \in DOMAIN A
      <3>1. PICK i \in 1..Len(d.entries) : d.entries[i].key = k
        BY <1>4
      <3>2. i \in 1..Len(c.entries) /\ c.entries[i].key = k
        BY <1>1, <3>1
      <3>3. QED
        BY <1>5, <3>2
    <2>3. ASSUME NEW k \in DOMAIN A PROVE k \in DOMAIN B
      <3>1. PICK i \in 1..Len(c.entries) : c.entries[i].key = k
        BY <1>5
      <3>2. i \in 1..Len(d.entries) /\ d.entries[i].key = k
        BY <1>1, <3>1
      <3>3. QED
        BY <1>4, <3>2
    <2>4. QED
      BY <2>1, <2>2, <2>3
  <1>8. ASSUME NEW k \in DOMAIN B PROVE B[k] = M[k]
    <2>1. PICK i \in 1..Len(d.entries) : d.entries[i].key = k
      BY <1>4
    <2>2. B[k] = d.entries[i].value /\ i \in 1..Len(c.entries) /\ c.entries[i].key = k
      BY <1>1, <1>4, <2>1
    <2>3. A[k] = c.entries[i].value /\ k \in DOMAIN M
      BY <1>5, <1>7, <2>2
    <2>4. M[k] = IF k = key THEN value ELSE A[k]
      BY <1>2, <1>6, <2>3
    <2>5. QED
      BY <1>1, <2>2, <2>3, <2>4
  <1>9. B = M
    BY <1>4, <1>6, <1>7, <1>8, SameMap
  <1>10. QED
    BY <1>9 DEF A, B, M, d

LEMMA MapOfInsert ==
  ASSUME NEW c, Config(c), NEW key \in Seq(Words) \ {<< >>}, ~HasProp(c, key), NEW value \in Values
  PROVE  AsMap(Insert(c, key, value)) = Store!Put(AsMap(c), key, value)
  <1> DEFINE d == Insert(c, key, value)
             A == AsMap(c)
             B == AsMap(d)
             M == Store!Put(A, key, value)
             n == Len(c.entries)
  <1>1. Config(d) /\ d.entries = Append(c.entries, [key |-> key, value |-> value])
    BY InsertKeeps
  <1>2. M = [x \in DOMAIN A \cup {key} |-> IF x = key THEN value ELSE A[x]]
    BY DEF Store!Put
  <1>3. key \notin DOMAIN A
    BY MapIs
  <1> HIDE DEF d
  <1>4. /\ B = [k \in DOMAIN B |-> B[k]]
        /\ \A i \in 1..Len(d.entries) : d.entries[i].key \in DOMAIN B /\ B[d.entries[i].key] = d.entries[i].value
        /\ \A k \in DOMAIN B : \E i \in 1..Len(d.entries) : d.entries[i].key = k
    BY <1>1, MapIs
  <1>5. /\ \A i \in 1..n : c.entries[i].key \in DOMAIN A /\ A[c.entries[i].key] = c.entries[i].value
        /\ \A k \in DOMAIN A : \E i \in 1..n : c.entries[i].key = k
    BY MapIs
  <1>6. /\ n \in Nat /\ Len(d.entries) = n + 1
        /\ d.entries[n + 1].key = key /\ d.entries[n + 1].value = value
        /\ \A i \in 1..n : d.entries[i] = c.entries[i]
    <2>1. c.entries \in Seq(Entry) /\ [key |-> key, value |-> value] \in Entry
      BY DEF Config, Entry
    <2>2. QED
      BY <1>1, <2>1
  <1> HIDE DEF A, B, M, n
  <1>7. M = [k \in DOMAIN M |-> M[k]] /\ DOMAIN M = DOMAIN A \cup {key}
    BY <1>2
  <1>8. \A i \in 1..n + 1 : i = n + 1 \/ i \in 1..n
    BY <1>6
  <1>9. \A i \in 1..n : i \in 1..n + 1
    BY <1>6
  <1>10. n + 1 \in 1..n + 1
    BY <1>6
  <1>11. \A k : k \in DOMAIN B <=> k \in DOMAIN M
    <2>1. ASSUME NEW k \in DOMAIN B PROVE k \in DOMAIN M
      BY <1>4, <1>5, <1>6, <1>7, <1>8
    <2>2. ASSUME NEW k \in DOMAIN M PROVE k \in DOMAIN B
      <3>1. CASE k = key
        BY <1>4, <1>6, <1>10, <3>1
      <3>2. CASE k # key
        <4>1. PICK i \in 1..n : c.entries[i].key = k
          BY <1>5, <1>7, <3>2
        <4>2. i \in 1..Len(d.entries) /\ d.entries[i].key = k
          BY <1>6, <1>9, <4>1
        <4>3. QED
          BY <1>4, <4>2
      <3>3. QED
        BY <3>1, <3>2
    <2>3. QED
      BY <2>1, <2>2
  <1>12. ASSUME NEW k \in DOMAIN B PROVE B[k] = M[k]
    <2>1. PICK i \in 1..Len(d.entries) : d.entries[i].key = k
      BY <1>4
    <2>2. B[k] = d.entries[i].value /\ k \in DOMAIN M
      BY <1>4, <1>11, <2>1
    <2>3. M[k] = IF k = key THEN value ELSE A[k]
      BY <1>2, <1>7, <2>2
    <2>4. CASE i = n + 1
      BY <1>6, <2>1, <2>2, <2>3, <2>4
    <2>5. CASE i \in 1..n
      <3>1. c.entries[i].key = k /\ B[k] = c.entries[i].value
        BY <1>6, <2>1, <2>2, <2>5
      <3>2. k \in DOMAIN A /\ A[k] = c.entries[i].value
        BY <1>5, <2>5, <3>1
      <3>3. QED
        BY <1>3, <2>3, <3>1, <3>2
    <2>6. QED
      BY <1>6, <1>8, <2>1, <2>4, <2>5
  <1>13. B = M
    BY <1>4, <1>7, <1>11, <1>12, SameMap
  <1>14. QED
    BY <1>13 DEF A, B, M, d

LEMMA MapOfDelete ==
  ASSUME NEW c, Config(c), NEW key, HasProp(c, key)
  PROVE  AsMap(Delete(c, key)) = Store!Remove(AsMap(c), key)
  <1> DEFINE d == Delete(c, key)
             A == AsMap(c)
             B == AsMap(d)
             M == Store!Remove(A, key)
             n == Len(c.entries)
             x == IndexOf(c, key)
  <1>1. /\ Config(d) /\ Len(d.entries) = n - 1
        /\ \A j \in 1..Len(d.entries) :
             d.entries[j] = IF j < x THEN c.entries[j] ELSE c.entries[j + 1]
    BY DeleteKeeps
  <1>2. M = [k \in DOMAIN A \ {key} |-> A[k]]
    BY DEF Store!Remove, Store!Restrict
  <1>3. x \in 1..n /\ \A i \in 1..n : c.entries[i].key = key <=> i = x
    BY IndexFinds
  <1> HIDE DEF d, x
  <1>4. /\ B = [k \in DOMAIN B |-> B[k]]
        /\ \A i \in 1..Len(d.entries) : d.entries[i].key \in DOMAIN B /\ B[d.entries[i].key] = d.entries[i].value
        /\ \A k \in DOMAIN B : \E i \in 1..Len(d.entries) : d.entries[i].key = k
    BY <1>1, MapIs
  <1>5. /\ \A i \in 1..n : c.entries[i].key \in DOMAIN A /\ A[c.entries[i].key] = c.entries[i].value
        /\ \A k \in DOMAIN A : \E i \in 1..n : c.entries[i].key = k
    BY MapIs
  <1>6. n \in Nat
    BY DEF Config
  <1> HIDE DEF A, B, M, n
  <1>7. M = [k \in DOMAIN M |-> M[k]] /\ DOMAIN M = DOMAIN A \ {key}
    BY <1>2
  <1>8. ASSUME NEW i \in 1..Len(d.entries)
        PROVE  \E j \in 1..n : j # x /\ d.entries[i] = c.entries[j]
    <2>1. i \in Nat /\ 1 <= i /\ i <= n - 1 /\ x \in Nat
      BY <1>1, <1>3, <1>6
    <2>2. CASE i < x
      <3>1. i \in 1..n /\ i # x /\ d.entries[i] = c.entries[i]
        BY <1>1, <1>6, <2>1, <2>2
      <3>2. QED
        BY <3>1
    <2>3. CASE ~(i < x)
      <3>1. i + 1 \in 1..n /\ i + 1 # x /\ d.entries[i] = c.entries[i + 1]
        BY <1>1, <1>6, <2>1, <2>3
      <3>2. QED
        BY <3>1
    <2>4. QED
      BY <2>2, <2>3
  <1>9. ASSUME NEW j \in 1..n, j # x
        PROVE  \E i \in 1..Len(d.entries) : d.entries[i] = c.entries[j]
    <2>1. j \in Nat /\ x \in Nat /\ 1 <= x /\ x <= n
      BY <1>3, <1>6
    <2>2. CASE j < x
      <3>1. j \in 1..Len(d.entries)
        BY <1>1, <1>6, <2>1, <2>2
      <3>2. d.entries[j] = c.entries[j]
        BY <1>1, <2>2, <3>1
      <3>3. QED
        BY <3>1, <3>2
    <2>3. CASE x < j
      <3> DEFINE i == j - 1
      <3>1. i \in 1..Len(d.entries) /\ ~(i < x) /\ i + 1 = j
        BY <1>1, <1>6, <2>1, <2>3
      <3> HIDE DEF i
      <3>2. d.entries[i] = c.entries[j]
        BY <1>1, <3>1
      <3>3. QED
        BY <3>1, <3>2
    <2>4. QED
      BY <1>9, <2>1, <2>2, <2>3
  <1>10. ASSUME NEW k \in DOMAIN B PROVE k \in DOMAIN M /\ B[k] = M[k]
    <2>1. PICK i \in 1..Len(d.entries) : d.entries[i].key = k
      BY <1>4
    <2>2. PICK j \in 1..n : j # x /\ d.entries[i] = c.entries[j]
      BY <1>8
    <2>3. k # key /\ k \in DOMAIN A /\ A[k] = c.entries[j].value
      BY <1>3, <1>5, <2>1, <2>2
    <2>4. B[k] = c.entries[j].value
      BY <1>4, <2>1, <2>2
    <2>5. QED
      BY <1>2, <1>7, <2>3, <2>4
  <1>11. ASSUME NEW k \in DOMAIN M PROVE k \in DOMAIN B
    <2>1. k # key /\ k \in DOMAIN A
      BY <1>7
    <2>2. PICK j \in 1..n : c.entries[j].key = k
      BY <1>5, <2>1
    <2>3. j # x
      BY <1>3, <2>1, <2>2
    <2>4. PICK i \in 1..Len(d.entries) : d.entries[i] = c.entries[j]
      BY <1>9, <2>3
    <2>5. QED
      BY <1>4, <2>2, <2>4
  <1>12. B = M
    BY <1>4, <1>7, <1>10, <1>11, SameMap
  <1>13. QED
    BY <1>12 DEF A, B, M, d

\* Unsetting what is not set changes nothing.
LEMMA MapOfNothing ==
  ASSUME NEW c, Config(c), NEW key, ~HasProp(c, key)
  PROVE  AsMap(c) = Store!Remove(AsMap(c), key)
  <1> DEFINE A == AsMap(c)
  <1>1. key \notin DOMAIN A /\ A = [k \in DOMAIN A |-> A[k]]
    BY MapIs
  <1> HIDE DEF A
  <1>2. DOMAIN A \ {key} = DOMAIN A
    BY <1>1
  <1>3. Store!Remove(A, key) = [k \in DOMAIN A \ {key} |-> A[k]]
    BY DEF Store!Remove, Store!Restrict
  <1>4. QED
    BY <1>1, <1>2, <1>3 DEF A

\* What a clear file means: its properties, and no others.
LEMMA MeaningIs ==
  ASSUME NEW f \in Seq(Lines), IsClear(f)
  PROVE  LET M == Meaning(f) IN
         /\ M \in [DOMAIN M -> Values] /\ M = [k \in DOMAIN M |-> M[k]]
         /\ \A i \in PropLines(f) : KeyAt(f, i) \in DOMAIN M /\ M[KeyAt(f, i)] = f[i].value
         /\ \A k \in DOMAIN M : \E i \in PropLines(f) : KeyAt(f, i) = k
  <1> DEFINE K == {KeyAt(f, i) : i \in PropLines(f)}
             M == Meaning(f)
             at(k) == CHOOSE i \in PropLines(f) : KeyAt(f, i) = k
  <1>1. M = [k \in K |-> f[at(k)].value]
    BY DEF Meaning
  <1>2. DOMAIN M = K /\ M = [k \in K |-> M[k]]
    BY <1>1
  <1>3. \A k \in K : at(k) \in PropLines(f) /\ KeyAt(f, at(k)) = k
    <2>1. SUFFICES ASSUME NEW k \in K PROVE at(k) \in PropLines(f) /\ KeyAt(f, at(k)) = k
      OBVIOUS
    <2>2. \E i \in PropLines(f) : KeyAt(f, i) = k
      OBVIOUS
    <2>3. QED
      BY <2>2
  <1>4. \A i \in PropLines(f) : KeyAt(f, i) \in K
    OBVIOUS
  <1>5. \A k \in K : M[k] = f[at(k)].value
    BY <1>1
  <1>6. \A k \in K : \E i \in PropLines(f) : KeyAt(f, i) = k
    OBVIOUS
  <1> HIDE DEF K, M, at
  <1>7. \A i, j \in PropLines(f) : KeyAt(f, i) = KeyAt(f, j) => i = j
    BY DEF IsClear
  <1>8. \A i \in PropLines(f) : M[KeyAt(f, i)] = f[i].value
    BY <1>3, <1>4, <1>5, <1>7
  <1>9. \A i \in PropLines(f) : f[i].value \in Values
    <2>1. SUFFICES ASSUME NEW i \in PropLines(f) PROVE f[i].value \in Values
      OBVIOUS
    <2>2. f[i] \in Lines /\ f[i].kind = "prop"
      BY DEF PropLines
    <2>3. QED
      BY <2>2, LinesAre
  <1>10. \A k \in K : M[k] \in Values
    BY <1>3, <1>5, <1>9
  <1>11. M \in [K -> Values]
    BY <1>2, <1>10
  <1>12. QED
    BY <1>2, <1>4, <1>6, <1>8, <1>11 DEF M

\* The lines written so far, if they parse, mean a part of the config_data,
LEMMA PartIsWritten ==
  ASSUME NEW c, Config(c), NEW P, NEW f, Says(f, c, P), IsClear(f)
  PROVE  /\ DOMAIN Meaning(f) \subseteq DOMAIN AsMap(c)
         /\ Meaning(f) = Store!Restrict(AsMap(c), DOMAIN Meaning(f))
  <1> DEFINE M == Meaning(f)
             A == AsMap(c)
  <1>1. f \in Seq(Lines)
    BY DEF Says
  <1>2. /\ M = [k \in DOMAIN M |-> M[k]]
        /\ \A i \in PropLines(f) : KeyAt(f, i) \in DOMAIN M /\ M[KeyAt(f, i)] = f[i].value
        /\ \A k \in DOMAIN M : \E i \in PropLines(f) : KeyAt(f, i) = k
    BY <1>1, MeaningIs
  <1>3. \A i \in 1..Len(c.entries) :
          c.entries[i].key \in DOMAIN A /\ A[c.entries[i].key] = c.entries[i].value
    BY MapIs
  <1> HIDE DEF M, A
  <1>4. ASSUME NEW k \in DOMAIN M PROVE k \in DOMAIN A /\ M[k] = A[k]
    <2>1. PICK i \in PropLines(f) : KeyAt(f, i) = k
      BY <1>2
    <2>2. PICK j \in 1..Len(c.entries) :
            c.entries[j].key = KeyAt(f, i) /\ c.entries[j].value = f[i].value
      BY DEF Says
    <2>3. QED
      BY <1>2, <1>3, <2>1, <2>2
  <1>5. Store!Restrict(A, DOMAIN M) = [k \in DOMAIN M |-> A[k]]
    BY DEF Store!Restrict
  <1>6. M = Store!Restrict(A, DOMAIN M)
    BY <1>2, <1>4, <1>5
  <1>7. QED
    BY <1>4, <1>6 DEF M, A

\* and when all sections are written, all of it.
LEMMA AllIsWritten ==
  ASSUME NEW c, Config(c), NEW f, Tells(f, c, Nodes(c)), IsClear(f)
  PROVE  Meaning(f) = AsMap(c)
  <1> DEFINE M == Meaning(f)
             A == AsMap(c)
  <1>1. Says(f, c, Nodes(c)) /\ f \in Seq(Lines)
    BY DEF Tells, Says
  <1>2. DOMAIN M \subseteq DOMAIN A /\ M = Store!Restrict(A, DOMAIN M)
    BY <1>1, PartIsWritten
  <1>3. \A i \in PropLines(f) : KeyAt(f, i) \in DOMAIN M
    BY <1>1, MeaningIs
  <1>4. /\ \A k \in DOMAIN A : \E i \in 1..Len(c.entries) : c.entries[i].key = k
        /\ A = [k \in DOMAIN A |-> A[k]]
    BY MapIs
  <1> HIDE DEF M, A
  <1>5. ASSUME NEW k \in DOMAIN A PROVE k \in DOMAIN M
    <2>1. PICK i \in 1..Len(c.entries) : c.entries[i].key = k
      BY <1>4
    <2>2. Front(k) \in Nodes(c)
      <3>1. Housed(c.sections, Front(k))
        BY <2>1 DEF Config
      <3>2. c.sections \in Seq(Seq(Words) \ {<< >>})
        BY DEF Config, Nested
      <3>3. DOMAIN c.sections = 1..Len(c.sections)
        BY <3>2
      <3>4. QED
        BY <3>1, <3>3 DEF Housed, Contains, Nodes, ToSet
    <2>3. HasLine(f, c.entries[i])
      BY <2>1, <2>2 DEF Tells
    <2>4. \A j \in 1..Len(f) : f[j].kind # "bad"
      <3>1. DOMAIN f = 1..Len(f)
        BY <1>1
      <3>2. QED
        BY <3>1 DEF IsClear
    <2>5. \E j \in PropLines(f) : KeyAt(f, j) = c.entries[i].key
      BY <2>3, <2>4 DEF HasLine
    <2>6. QED
      BY <1>3, <2>1, <2>5
  <1>6. DOMAIN M = DOMAIN A
    BY <1>2, <1>5
  <1>7. Store!Restrict(A, DOMAIN A) = [k \in DOMAIN A |-> A[k]]
    BY DEF Store!Restrict
  <1>8. QED
    BY <1>2, <1>4, <1>6, <1>7 DEF M, A

\* An entry that cannot be written is one that the format does not carry;
LEMMA BadIsNotCarried ==
  ASSUME NEW c, Config(c), NEW k \in 1..Len(c.entries), WrittenLine(c.entries[k]) = BadLine
  PROVE  ~Store!AllCarried(AsMap(c))
  <1> DEFINE e == c.entries[k]
             A == AsMap(c)
  <1>1. e \in Entry
    BY DEF Config
  <1>2. e.key \in DOMAIN A /\ A[e.key] = e.value
    BY MapIs
  <1>3. e.key \in Seq(Words) \ {<< >>}
    BY <1>1 DEF Entry
  <1> HIDE DEF e, A
  <1>4. Last(e.key) = Empty \/ e.value \in Unprintable
    <2>1. PropLine(<<Last(e.key)>>, e.value).kind = "prop" /\ BadLine.kind = "bad"
      BY DEF PropLine, BadLine
    <2>2. PropLine(<<Last(e.key)>>, e.value) # BadLine
      BY <2>1
    <2>3. WrittenLine(e) = BadLine
      BY DEF e
    <2>4. QED
      BY <2>2, <2>3 DEF WrittenLine
  <1>5. ~Carries(e.key, e.value)
    <2>1. Len(e.key) \in DOMAIN e.key
      BY <1>3
    <2>2. QED
      BY <1>4, <2>1 DEF Carries, Last
  <1>6. <<e.key, A[e.key]>> \notin Carried
    BY <1>2, <1>5 DEF Carried
  <1>7. QED
    BY <1>2, <1>6 DEF Store!AllCarried, A

\* so a file that does not parse has one,
LEMMA BrokenIsNotCarried ==
  ASSUME NEW c, Config(c), NEW P, NEW f, Says(f, c, P), ~IsClear(f)
  PROVE  ~Store!AllCarried(AsMap(c))
  <1>1. f \in Seq(Lines) /\ \A i, j \in PropLines(f) : KeyAt(f, i) = KeyAt(f, j) => i = j
    BY DEF Says
  <1>2. PICK i \in 1..Len(f) : f[i].kind = "bad"
    <2>1. DOMAIN f = 1..Len(f)
      BY <1>1
    <2>2. QED
      BY <1>1, <2>1 DEF IsClear
  <1>3. PICK k \in 1..Len(c.entries) : WrittenLine(c.entries[k]) = BadLine
    BY <1>2 DEF Says
  <1>4. QED
    BY <1>3, BadIsNotCarried

\* and so has a section that cannot be named.
LEMMA UnnamedIsNotCarried ==
  ASSUME NEW c, Config(c), NEW path, ~ValidSectionKey(path), EntriesOf(c, path) # << >>
  PROVE  ~Store!AllCarried(AsMap(c))
  <1> DEFINE E == EntriesOf(c, path)
             A == AsMap(c)
  <1>1. /\ E \in Seq(Entry)
        /\ \A n \in 1..Len(E) : Front(E[n].key) = path /\ \E k \in 1..Len(c.entries) : E[n] = c.entries[k]
    BY EntriesAll
  <1>2. E # << >>
    OBVIOUS
  <1> HIDE DEF E
  <1>3. 1 \in 1..Len(E)
    BY <1>1, <1>2
  <1>4. PICK k \in 1..Len(c.entries) : E[1] = c.entries[k]
    BY <1>1, <1>3
  <1> DEFINE e == c.entries[k]
  <1>5. e \in Entry /\ Front(e.key) = path
    BY <1>1, <1>3, <1>4
  <1>6. e.key \in DOMAIN A /\ A[e.key] = e.value
    BY MapIs
  <1>7. e.key \in Seq(Words) \ {<< >>}
    BY <1>5 DEF Entry
  <1> DEFINE key == e.key
  <1> HIDE DEF e, A
  <1>8. PICK i \in DOMAIN path : path[i] = Empty
    BY DEF ValidSectionKey
  <1>9. i \in DOMAIN key /\ key[i] = Empty
    <2> DEFINE j == Len(key) - 1
    <2>1. j \in 0..Len(key) /\ path = SubSeq(key, 1, j) /\ key \in Seq(Words)
      BY <1>5, <1>7 DEF Front
    <2> HIDE DEF j, key
    <2>2. path \in Seq(Words) /\ Len(path) = j /\ \A l \in 1..j : path[l] = key[l]
      BY <2>1, Beginning
    <2>3. i \in 1..j /\ i \in DOMAIN key
      BY <1>8, <2>1, <2>2
    <2>4. QED
      BY <1>8, <2>2, <2>3
  <1>10. ~Carries(key, e.value)
    BY <1>9 DEF Carries
  <1>11. <<key, A[key]>> \notin Carried
    BY <1>6, <1>10 DEF Carried
  <1>12. QED
    BY <1>6, <1>11 DEF Store!AllCarried, A

-----------------------------------------------------------------------------
(* The course of a command, to what it reports.                            *)

\* The map that a command is asked to make of m.
Asked(m) ==
  IF cmd.op = "set" THEN Store!Put(m, cmd.key, cmd.value) ELSE Store!Remove(m, cmd.key)

\* What a command that has changed the entry keeps until it ends.
Kept(m) ==
  /\ cmd.op = "set" => cmd.key \in DOMAIN m /\ m[cmd.key] = cmd.value
  /\ cmd.op = "unset" => cmd.key \notin DOMAIN m

\* A file and a config_data have keys that the commands and the files have.
Named ==
  /\ IsClear(file) => DOMAIN Meaning(file) \subseteq AllKeys
  /\ pc # "idle" => DOMAIN AsMap(conf) \subseteq AllKeys

\* The lines that are written, with those that are pending, tell what is in the
\* sections that the visitor has been at.
Underway(f, l, c, v) ==
  /\ OnWay(c, v)
  /\ Tells(f \o l, c, Visited(c, v))
  /\ ~v.begun => f \o l = << >>

\* The inductive invariant: how far the command that is at work has come.
Course ==
  /\ Named
  /\ pc # "lines" => lines = << >>
  /\ pc # "idle" => Kept(AsMap(conf)) /\ cmd.key \in Keys /\ (cmd.op = "set" => cmd.value \in Values)
  /\ pc = "open" => IsClear(file) /\ AsMap(conf) = Asked(Meaning(file))
  /\ pc \in {"visit", "lines"} => Underway(file, lines, conf, visitor)

LEMMA CourseNext ==
  ASSUME IsClear(file') => DOMAIN Meaning(file') \subseteq AllKeys,
         pc' # "idle" => DOMAIN AsMap(conf') \subseteq AllKeys,
         pc' # "lines" => lines' = << >>,
         pc' # "idle" =>
           /\ cmd'.op = "set" => cmd'.key \in DOMAIN AsMap(conf') /\ AsMap(conf')[cmd'.key] = cmd'.value
           /\ cmd'.op = "unset" => cmd'.key \notin DOMAIN AsMap(conf')
           /\ cmd'.key \in Keys /\ (cmd'.op = "set" => cmd'.value \in Values),
         pc' = "open" =>
           /\ IsClear(file')
           /\ AsMap(conf') = IF cmd'.op = "set" THEN Store!Put(Meaning(file'), cmd'.key, cmd'.value)
                             ELSE Store!Remove(Meaning(file'), cmd'.key),
         pc' \in {"visit", "lines"} => Underway(file', lines', conf', visitor')
  PROVE  Course'
  BY DEF Course, Named, Kept, Asked

\* Set and unset make the change they are asked for.
LEMMA SetTakesCourse ==
  ASSUME Shape, Course, NEW k \in Keys, NEW v \in Values, Set(k, v)
  PROVE  Course'
  <1> DEFINE c == Parse(file).conf
             M == Meaning(file)
  <1>1. file \in Seq(Lines) /\ IsClear(file)
    BY ParseReads DEF Shape, Understood, Set
  <1>2. Config(c) /\ AsMap(c) = M
    BY <1>1, ParseReads, MapOfParsed DEF Understood
  <1>3. k \in Seq(Words) \ {<< >>}
    BY ConfigStoreAssumption, FilesAssumption
  <1>4. /\ conf' = IF HasProp(c, k) THEN Update(c, k, v) ELSE Insert(c, k, v)
        /\ cmd' = [op |-> "set", key |-> k, value |-> v, missing |-> FALSE]
        /\ pc = "idle" /\ pc' = "open" /\ file' = file /\ lines' = lines
    BY DEF Set
  <1>5. cmd'.op = "set" /\ cmd'.key = k /\ cmd'.value = v
    BY <1>4
  <1> HIDE DEF c, M
  <1>6. AsMap(conf') = Store!Put(M, k, v)
    <2>1. CASE HasProp(c, k)
      BY <1>2, <1>4, <2>1, MapOfUpdate
    <2>2. CASE ~HasProp(c, k)
      BY <1>2, <1>3, <1>4, <2>2, MapOfInsert
    <2>3. QED
      BY <2>1, <2>2
  <1>7. /\ DOMAIN Store!Put(M, k, v) = DOMAIN M \cup {k}
        /\ k \in DOMAIN Store!Put(M, k, v) /\ Store!Put(M, k, v)[k] = v
    BY DEF Store!Put
  <1>8. DOMAIN M \subseteq AllKeys /\ k \in AllKeys
    BY <1>1 DEF Course, Named, M, AllKeys
  <1>9. lines = << >>
    BY <1>4 DEF Course
  <1>10. QED
    BY <1>1, <1>4, <1>5, <1>6, <1>7, <1>8, <1>9, CourseNext DEF M

LEMMA UnsetTakesCourse ==
  ASSUME Shape, Course, NEW k \in Keys, Unset(k)
  PROVE  Course'
  <1> DEFINE c == Parse(file).conf
             M == Meaning(file)
  <1>1. file \in Seq(Lines) /\ IsClear(file)
    BY ParseReads DEF Shape, Understood, Unset
  <1>2. Config(c) /\ AsMap(c) = M
    BY <1>1, ParseReads, MapOfParsed DEF Understood
  <1>3. /\ conf' = IF HasProp(c, k) THEN Delete(c, k) ELSE c
        /\ cmd' = [op |-> "unset", key |-> k, value |-> NoValue, missing |-> ~HasProp(c, k)]
        /\ pc = "idle" /\ pc' = "open" /\ file' = file /\ lines' = lines
    BY DEF Unset
  <1>4. cmd'.op = "unset" /\ cmd'.key = k
    BY <1>3
  <1> HIDE DEF c, M
  <1>5. AsMap(conf') = Store!Remove(M, k)
    <2>1. CASE HasProp(c, k)
      BY <1>2, <1>3, <2>1, MapOfDelete
    <2>2. CASE ~HasProp(c, k)
      BY <1>2, <1>3, <2>2, MapOfNothing
    <2>3. QED
      BY <2>1, <2>2
  <1>6. DOMAIN Store!Remove(M, k) = DOMAIN M \ {k}
    BY DEF Store!Remove, Store!Restrict
  <1>7. DOMAIN M \subseteq AllKeys
    BY <1>1 DEF Course, Named, M
  <1>8. lines = << >>
    BY <1>3 DEF Course
  <1>9. QED
    BY <1>1, <1>3, <1>4, <1>5, <1>6, <1>7, <1>8, CourseNext DEF M

\* The truncated file tells nothing.
LEMMA OpenTakesCourse ==
  ASSUME Shape, Course, OpenConfig
  PROVE  Course'
  <1>1. /\ pc = "open" /\ file' = << >> /\ visitor' = NotBegun /\ pc' = "visit"
        /\ conf' = conf /\ lines' = lines /\ cmd' = cmd
    BY DEF OpenConfig
  <1>2. lines = << >>
    BY <1>1 DEF Course
  <1>3. PropLines(<< >>) = {} /\ IsClear(<< >>) /\ << >> \in Seq(Lines)
    BY DEF PropLines, IsClear
  <1>4. Meaning(<< >>) = [k \in {} |-> NoValue]
    BY <1>3 DEF Meaning
  <1>5. Underway(<< >>, << >>, conf, NotBegun)
    <2>1. NotBegun.begun = FALSE
      BY DEF NotBegun
    <2>2. Visited(conf, NotBegun) = {}
      BY <2>1 DEF Visited
    <2>3. OnWay(conf, NotBegun)
      BY <2>1 DEF OnWay
    <2>4. << >> \o << >> = << >>
      OBVIOUS
    <2>5. Says(<< >>, conf, {})
      BY <1>3 DEF Says
    <2>6. Tells(<< >>, conf, {})
      BY <2>5 DEF Tells
    <2>7. QED
      BY <2>2, <2>3, <2>4, <2>6 DEF Underway
  <1>6. DOMAIN Meaning(<< >>) \subseteq AllKeys
    BY <1>4
  <1>7. QED
    BY <1>1, <1>2, <1>5, <1>6, CourseNext DEF Course, Named, Kept

\* The next node adds its lines.
LEMMA VisitTakesCourse ==
  ASSUME Shape, Course, VisitNode
  PROVE  Course'
  <1> DEFINE next == NextNode(conf, visitor)
             E == EntriesOf(conf, next.node)
             P == Visited(conf, visitor)
  <1>1. /\ visitor' = next /\ file' = file /\ conf' = conf /\ cmd' = cmd
        /\ pc = "visit" /\ HasNext(conf, visitor)
        /\ IF E = << >> THEN pc' = pc /\ lines' = lines
           ELSE pc' = "lines" /\ lines' = NodeLines(conf, next.node)
    BY DEF VisitNode
  <1>2. Config(conf) /\ file \in Seq(Lines)
    BY DEF Shape
  <1>3. lines = << >> /\ Underway(file, lines, conf, visitor)
    BY <1>1 DEF Course
  <1>4. file \o lines = file
    BY <1>2, <1>3
  <1>5. OnWay(conf, visitor) /\ Tells(file, conf, P) /\ (~visitor.begun => file = << >>)
    BY <1>3, <1>4 DEF Underway
  <1>6. GoesOn(conf, visitor, next)
    BY <1>1, <1>2, <1>5, WalkGoesOn
  <1> HIDE DEF next, P
  <1>7. /\ OnWay(conf, next) /\ next.begun /\ next.node \notin P
        /\ Visited(conf, next) = P \cup {next.node}
        /\ visitor.begun => next.node # << >>
    BY <1>6 DEF GoesOn, P
  <1>8. next.node \in Seq(Words)
    BY <1>2, <1>7, NodesAre DEF OnWay
  <1>9. next.node = << >> => file = << >>
    <2>1. visitor.begun \in BOOLEAN
      BY <1>5 DEF OnWay
    <2>2. QED
      BY <1>5, <1>7, <2>1
  <1>10. CASE E = << >>
    <2>1. Tells(file, conf, P \cup {next.node})
      BY <1>2, <1>5, <1>10, TellsNone
    <2>2. Underway(file, lines, conf, next)
      BY <1>4, <1>7, <2>1 DEF Underway
    <2>3. QED
      BY <1>1, <1>3, <1>10, <2>2, CourseNext DEF Course, Named, Kept
  <1>11. CASE E # << >>
    <2> DEFINE L == NodeLines(conf, next.node)
    <2>1. Tells(file \o L, conf, P \cup {next.node})
      BY <1>2, <1>5, <1>7, <1>8, <1>9, <1>11, TellsMore
    <2> HIDE DEF L
    <2>2. Underway(file, L, conf, next)
      BY <1>7, <2>1 DEF Underway
    <2>3. pc' = "lines" /\ lines' = L
      BY <1>1, <1>11 DEF L
    <2>4. QED
      BY <1>1, <2>2, <2>3, CourseNext DEF Course, Named, Kept
  <1>12. QED
    BY <1>10, <1>11

\* A line is one of those that are pending.
LEMMA LineMoves ==
  ASSUME file \in Seq(Lines), lines \in Seq(Lines), lines # << >>,
         file' = Append(file, Head(lines)), lines' = Tail(lines)
  PROVE  file' \o lines' = file \o lines /\ file' \in Seq(Lines) /\ lines' \in Seq(Lines)
  <1>0. /\ file \in Seq(Lines) /\ lines \in Seq(Lines) /\ lines # << >>
        /\ file' = Append(file, Head(lines)) /\ lines' = Tail(lines)
    OBVIOUS
  <1> DEFINE x == Head(lines)
             r == Tail(lines)
             a == Append(file, x) \o r
             b == file \o lines
  <1>1. /\ x \in Lines /\ r \in Seq(Lines) /\ Len(r) = Len(lines) - 1 /\ x = lines[1]
        /\ \A i \in 1..Len(r) : r[i] = lines[i + 1]
    BY <1>0
  <1> DEFINE n == Len(file)
             m == Len(r)
  <1>2. n \in Nat /\ m \in Nat /\ Len(lines) = m + 1
    BY <1>0, <1>1
  <1>3. b \in Seq(Lines) /\ Len(b) = n + (m + 1)
    BY <1>0, <1>2
  <1> HIDE DEF x, r, m
  <1>4. Append(file, x) \in Seq(Lines) /\ Len(Append(file, x)) = n + 1
    BY <1>0, <1>1
  <1>5. a \in Seq(Lines) /\ Len(a) = (n + 1) + m
    <2> DEFINE y == Append(file, x)
    <2>1. y \in Seq(Lines) /\ Len(y) = n + 1 /\ r \in Seq(Lines) /\ Len(r) = m
      BY <1>1, <1>4 DEF m
    <2> HIDE DEF y
    <2> DEFINE k == Len(y)
    <2>2. k \in Nat
      BY <2>1
    <2> HIDE DEF k, n, m, b
    <2>3. y \o r \in Seq(Lines) /\ Len(y \o r) = k + Len(r)
      BY <2>1, <2>2, Joined DEF k
    <2>4. QED
      BY <2>1, <2>3 DEF y, k
  <1>6. ASSUME NEW i \in 1..(n + 1) + m PROVE a[i] = b[i]
    <2>1. CASE i \in 1..n
      <3>1. b[i] = file[i] /\ Append(file, x)[i] = file[i] /\ i \in 1..n + 1
        BY <1>0, <1>1, <1>2, <2>1
      <3>2. a[i] = Append(file, x)[i]
        BY <1>1, <1>4, <3>1
      <3>3. QED
        BY <3>1, <3>2
    <2>2. CASE i = n + 1
      <3>1. a[i] = x
        BY <1>0, <1>1, <1>2, <1>4, <2>2
      <3>2. 1 \in 1..Len(lines)
        BY <1>2
      <3>3. b[n + 1] = lines[1]
        BY <1>0, <1>2, <3>2
      <3>4. QED
        BY <1>1, <2>2, <3>1, <3>3
    <2>3. CASE i > n + 1
      <3> DEFINE j == i - (n + 1)
      <3>1. j \in 1..m /\ i = (n + 1) + j /\ i = n + (j + 1) /\ j + 1 \in 1..Len(lines)
        BY <1>2, <2>3
      <3> HIDE DEF j
      <3>2. a[(n + 1) + j] = r[j]
        BY <1>1, <1>2, <1>4, <3>1 DEF m
      <3>3. b[n + (j + 1)] = lines[j + 1]
        BY <1>0, <1>2, <3>1
      <3>4. r[j] = lines[j + 1]
        BY <1>1, <3>1 DEF m
      <3>5. QED
        BY <3>1, <3>2, <3>3, <3>4
    <2>4. i \in 1..n \/ i = n + 1 \/ i > n + 1
      BY <1>2
    <2>5. QED
      BY <2>1, <2>2, <2>3, <2>4
  <1> HIDE DEF a, b
  <1>7. Len(a) = Len(b) /\ \A i \in 1..Len(a) : a[i] = b[i]
    BY <1>2, <1>3, <1>5, <1>6
  <1>8. a = b
    BY <1>3, <1>5, <1>7, SameElements
  <1>9. QED
    BY <1>0, <1>1, <1>4, <1>8 DEF a, b, x, r

LEMMA WriteTakesCourse ==
  ASSUME Shape, Course, WriteLine
  PROVE  Course'
  <1>1. lines \in Seq(Lines) /\ lines # << >> /\ file \in Seq(Lines) /\ Config(conf)
    BY DEF WriteLine, Shape
  <1>2. /\ file' = Append(file, Head(lines)) /\ lines' = Tail(lines)
        /\ pc' = IF Tail(lines) = << >> THEN "visit" ELSE "lines"
        /\ conf' = conf /\ visitor' = visitor /\ cmd' = cmd /\ pc = "lines"
    BY DEF WriteLine
  <1>3. file' \o lines' = file \o lines /\ file' \in Seq(Lines) /\ lines' \in Seq(Lines)
    BY <1>1, <1>2, LineMoves
  <1>4. Underway(file, lines, conf, visitor)
    BY <1>2 DEF Course
  <1>5. Underway(file', lines', conf, visitor)
    BY <1>3, <1>4 DEF Underway
  <1>6. ASSUME IsClear(file') PROVE DOMAIN Meaning(file') \subseteq AllKeys
    <2> DEFINE P == Visited(conf, visitor)
               f == file'
               l == lines'
    <2>1. Says(f \o l, conf, P)
      BY <1>5 DEF Underway, Tells
    <2>2. f \in Seq(Lines) /\ l \in Seq(Lines) /\ IsClear(f)
      BY <1>3, <1>6
    <2> HIDE DEF f, l, P
    <2>3. Says(f, conf, P)
      BY <2>1, <2>2, SaysLess
    <2>4. DOMAIN Meaning(f) \subseteq DOMAIN AsMap(conf)
      BY <1>1, <2>2, <2>3, PartIsWritten
    <2>5. DOMAIN AsMap(conf) \subseteq AllKeys
      BY <1>2 DEF Course, Named
    <2>6. QED
      BY <2>4, <2>5 DEF f
  <1>7. pc' \in {"visit", "lines"} /\ (pc' # "lines" => lines' = << >>)
    BY <1>2
  <1>8. QED
    BY <1>2, <1>5, <1>6, <1>7, CourseNext DEF Course, Named, Kept

\* What is left on a full disk has keys of the config_data.
LEMMA CutKeys ==
  ASSUME NEW c, Config(c), NEW P, NEW f \in Seq(Lines), NEW l \in Seq(Lines), l # << >>,
         Says(f \o l, c, P), NEW cut \in CutLines(Head(l)), IsClear(f \o cut)
  PROVE  DOMAIN Meaning(f \o cut) \subseteq DOMAIN AsMap(c)
  <1> DEFINE line == Head(l)
             g == f \o cut
             t == f \o l
             n == Len(f)
  <1>1. n \in Nat /\ line \in Lines /\ line = l[1] /\ 1 \in 1..Len(l)
    OBVIOUS
  <1>2. cut \in Seq(Lines)
    BY <1>1, CutLinesAre
  <1>3. g \in Seq(Lines) /\ t \in Seq(Lines)
    BY <1>2
  <1>4. CASE cut = << >>
    <2>1. g = f
      BY <1>4
    <2>2. Says(f, c, P)
      BY SaysLess
    <2>3. IsClear(f)
      BY <2>1
    <2>4. DOMAIN Meaning(f) \subseteq DOMAIN AsMap(c)
      BY <2>2, <2>3, PartIsWritten
    <2>5. QED
      BY <2>1, <2>4
  <1>5. CASE cut # << >>
    <2>1. PICK x \in Lines : cut = <<x>>
      <3>1. cut = <<BadLine>> \/ \E v : cut = <<PropLine(line.name, v)>>
        BY <1>5 DEF CutLines
      <3>2. cut[1] \in Lines
        BY <1>2, <3>1
      <3>3. cut = <<cut[1]>>
        BY <3>1
      <3>4. QED
        BY <3>2, <3>3
    <2>2. /\ Len(g) = n + 1 /\ g[n + 1] = x /\ \A i \in 1..n : g[i] = f[i]
      BY <1>1, <2>1
    <2>3. t[n + 1] = line /\ n + 1 \in 1..Len(t) /\ \A i \in 1..n : t[i] = f[i] /\ i \in 1..Len(t)
      BY <1>1
    <2> HIDE DEF line
    <2>4. CASE x = BadLine
      <3>1. x.kind = "bad"
        BY <2>4 DEF BadLine
      <3>2. n + 1 \in DOMAIN g
        BY <1>1, <1>3, <2>2
      <3>3. \A i \in DOMAIN g : g[i].kind # "bad"
        BY DEF IsClear
      <3> HIDE DEF g
      <3>4. QED
        BY <2>2, <3>1, <3>2, <3>3
    <2>5. CASE line.kind = "prop" /\ \E v : x = PropLine(line.name, v)
      <3>1. x.name = line.name
        BY <2>5 DEF PropLine
      <3> HIDE DEF g, t, n
      <3>2. \A i \in 1..Len(g) : i \in 1..n \/ i = n + 1
        BY <1>1, <2>2
      <3>3. \A i \in 1..n : g[i] = t[i]
        BY <2>2, <2>3
      <3>4. ASSUME NEW i \in PropLines(g) PROVE i \in PropLines(t) /\ KeyAt(g, i) = KeyAt(t, i)
        <4>1. i \in 1..Len(g) /\ g[i].kind = "prop"
          BY <1>3, <3>4 DEF PropLines
        <4>2. i \in 1..n + 1
          BY <1>1, <3>2, <4>1
        <4>3. SectionAt(g, i) = SectionAt(t, i)
          BY <1>1, <3>3, <4>2, SectionSame
        <4>4. t[i].kind = "prop" /\ t[i].name = g[i].name /\ i \in 1..Len(t)
          BY <2>2, <2>3, <2>5, <3>1, <3>2, <3>3, <4>1
        <4>5. i \in DOMAIN t
          BY <1>3, <4>4
        <4>6. QED
          BY <4>3, <4>4, <4>5 DEF PropLines, KeyAt
      <3>5. Says(t, c, P) /\ IsClear(g)
        BY DEF t, g
      <3> DEFINE M == Meaning(g)
                 A == AsMap(c)
      <3>6. \A k \in DOMAIN M : \E i \in PropLines(g) : KeyAt(g, i) = k
        BY <1>3, <3>5, MeaningIs
      <3>7. \A j \in 1..Len(c.entries) : c.entries[j].key \in DOMAIN A
        BY MapIs
      <3> HIDE DEF M, A
      <3>8. ASSUME NEW k \in DOMAIN M PROVE k \in DOMAIN A
        <4>1. PICK i \in PropLines(g) : KeyAt(g, i) = k
          BY <3>6
        <4>2. i \in PropLines(t) /\ KeyAt(t, i) = k
          BY <3>4, <4>1
        <4>3. PICK j \in 1..Len(c.entries) : c.entries[j].key = KeyAt(t, i)
          BY <3>5, <4>2 DEF Says
        <4>4. QED
          BY <3>7, <4>2, <4>3
      <3>9. QED
        BY <3>8 DEF M, A, g
    <2>6. x = BadLine \/ (line.kind = "prop" /\ \E v : x = PropLine(line.name, v))
      <3>1. cut \in {<<BadLine>>} \cup
              {<<PropLine(line.name, v)>> : v \in IF line.kind = "prop" THEN Values \ Unprintable ELSE {}}
        BY <1>5 DEF CutLines, line
      <3>2. cut[1] = x
        BY <2>1
      <3>3. QED
        BY <3>1, <3>2
    <2>7. QED
      BY <2>4, <2>5, <2>6
  <1>6. QED
    BY <1>4, <1>5

\* A command that ends leaves a file with keys that are known.
LEMMA ExitTakesCourse ==
  ASSUME NEW s, Exit(s), IsClear(file') => DOMAIN Meaning(file') \subseteq AllKeys
  PROVE  Course'
  <1>1. pc' = "idle" /\ lines' = << >>
    BY DEF Exit
  <1>2. QED
    BY <1>1, CourseNext

LEMMA EndsTakeCourse ==
  ASSUME Shape, Course,
         \/ \E k \in Keys : ParseFails(k)
         \/ \E k \in Keys, fallback \in BOOLEAN : Query(k, fallback)
         \/ ValidateConfig \/ EditConfig \/ VisitFails \/ WriteFails \/ WriteDone \/ Kill
  PROVE  Course'
  <1>1. ASSUME NEW s, Exit(s), file' = file PROVE Course'
    BY <1>1, ExitTakesCourse DEF Course, Named
  <1>2. CASE \/ \E k \in Keys : ParseFails(k)
             \/ \E k \in Keys, fallback \in BOOLEAN : Query(k, fallback)
             \/ ValidateConfig \/ VisitFails \/ WriteDone \/ Kill
    <2>1. file' = file /\ \E s : Exit(s)
      BY <1>2 DEF ParseFails, Query, ValidateConfig, VisitFails, WriteDone, Kill
    <2>2. QED
      BY <1>1, <2>1
  <1>3. CASE EditConfig
    <2>1. \E s : Exit(s)
      BY <1>3 DEF EditConfig
    <2>2. ASSUME file' \in Files, IsClear(file') PROVE DOMAIN Meaning(file') \subseteq AllKeys
      <3> DEFINE f == file'
      <3>1. f \in {g \in Files : IsClear(g)}
        BY <2>2
      <3> HIDE DEF f
      <3>2. DOMAIN Meaning(f) \subseteq AllKeys
        BY <3>1 DEF AllKeys
      <3>3. QED
        BY <3>2 DEF f
    <2>3. CASE file' = file
      BY <1>1, <2>1, <2>3
    <2>4. CASE file' \in Files
      BY <2>1, <2>2, <2>4, ExitTakesCourse
    <2>5. QED
      BY <1>3, <2>3, <2>4 DEF EditConfig
  <1>4. CASE WriteFails
    <2>1. /\ pc = "lines" /\ Exit("died") /\ lines \in Seq(Lines) /\ lines # << >>
          /\ file \in Seq(Lines) /\ Config(conf)
      BY <1>4 DEF WriteFails, Shape
    <2>2. PICK cut \in CutLines(Head(lines)) : file' = file \o cut
      BY <1>4 DEF WriteFails
    <2>3. Says(file \o lines, conf, Visited(conf, visitor))
      BY <2>1 DEF Course, Underway, Tells
    <2>4. DOMAIN AsMap(conf) \subseteq AllKeys
      BY <2>1 DEF Course, Named
    <2>5. ASSUME IsClear(file') PROVE DOMAIN Meaning(file') \subseteq AllKeys
      <3>1. IsClear(file \o cut)
        BY <2>2, <2>5
      <3>2. DOMAIN Meaning(file \o cut) \subseteq DOMAIN AsMap(conf)
        BY <2>1, <2>3, <3>1, CutKeys
      <3>3. QED
        BY <2>2, <2>4, <3>2
    <2>6. QED
      BY <2>1, <2>5, ExitTakesCourse
  <1>5. QED
    BY <1>2, <1>3, <1>4

\* So every step keeps the course.
LEMMA CourseStays ==
  Shape /\ Course /\ [Next]_vars => Course'
  <1> SUFFICES ASSUME Shape, Course, [Next]_vars PROVE Course'
    OBVIOUS
  <1>1. CASE \E k \in Keys, v \in Values : Set(k, v)
    BY <1>1, SetTakesCourse
  <1>2. CASE \E k \in Keys : Unset(k)
    BY <1>2, UnsetTakesCourse
  <1>3. CASE \/ \E k \in Keys : ParseFails(k)
             \/ \E k \in Keys, fallback \in BOOLEAN : Query(k, fallback)
             \/ ValidateConfig \/ EditConfig \/ VisitFails \/ WriteFails \/ WriteDone \/ Kill
    BY <1>3, EndsTakeCourse
  <1>4. CASE OpenConfig
    BY <1>4, OpenTakesCourse
  <1>5. CASE VisitNode
    BY <1>5, VisitTakesCourse
  <1>6. CASE WriteLine
    BY <1>6, WriteTakesCourse
  <1>7. ASSUME file' = file, conf' = conf, pc' = pc, visitor' = visitor, lines' = lines, cmd' = cmd
        PROVE  Course'
    BY <1>7, CourseNext DEF Course, Named, Kept, Asked
  <1>8. CASE DiskFills
    BY <1>7, <1>8 DEF DiskFills
  <1>9. CASE UNCHANGED vars
    BY <1>7, <1>9 DEF vars
  <1>10. QED
    BY <1>1, <1>2, <1>3, <1>4, <1>5, <1>6, <1>8, <1>9 DEF Next

LEMMA CourseAtFirst ==
  Init => Course
  <1> SUFFICES ASSUME Init PROVE Course
    OBVIOUS
  <1>1. file \in Files /\ pc = "idle" /\ lines = << >>
    BY DEF Init
  <1>2. ASSUME IsClear(file) PROVE DOMAIN Meaning(file) \subseteq AllKeys
    <2>1. file \in {g \in Files : IsClear(g)}
      BY <1>1, <1>2
    <2>2. QED
      BY <2>1 DEF AllKeys
  <1>3. QED
    BY <1>1, <1>2 DEF Course, Named

\* When the walk is over, the file tells all that is in the config_data.
LEMMA DoneTellsAll ==
  ASSUME Shape, Course, WriteDone
  PROVE  Tells(file, conf, Nodes(conf))
  <1>1. pc = "visit" /\ ~HasNext(conf, visitor) /\ file \in Seq(Lines) /\ Config(conf)
    BY DEF WriteDone, Shape
  <1>2. lines = << >> /\ Underway(file, lines, conf, visitor)
    BY <1>1 DEF Course
  <1>3. file \o lines = file
    BY <1>1, <1>2
  <1>4. OnWay(conf, visitor) /\ Tells(file, conf, Visited(conf, visitor))
    BY <1>2, <1>3 DEF Underway
  <1>5. Visited(conf, visitor) = Nodes(conf)
    BY <1>1, <1>4, WalkEnds
  <1>6. QED
    BY <1>4, <1>5

\* A command that has not reported success has nothing to answer for.
LEMMA NothingReported ==
  ASSUME pc' # "idle" \/ status' # "done" \/ cmd'.op \notin {"set", "unset"}
  PROVE  ReportedIsStored'
  BY DEF ReportedIsStored

LEMMA DoneIsStored ==
  ASSUME Shape, Course, WriteDone
  PROVE  ReportedIsStored'
  <1> DEFINE M == Meaning(file)
             A == AsMap(conf)
  <1>1. file' = file /\ cmd' = cmd /\ pc = "visit"
    BY DEF WriteDone
  <1>2. Tells(file, conf, Nodes(conf)) /\ Config(conf)
    BY DoneTellsAll DEF Shape
  <1>3. Kept(A)
    BY <1>1 DEF Course
  <1>4. ASSUME M # Broken PROVE M = A
    <2>1. IsClear(file)
      BY <1>4 DEF Meaning
    <2>2. QED
      BY <1>2, <2>1, AllIsWritten
  <1> HIDE DEF M, A
  <1>5. M # Broken => /\ cmd.op = "set" => cmd.key \in DOMAIN M /\ M[cmd.key] = cmd.value
                      /\ cmd.op = "unset" => cmd.key \notin DOMAIN M
    BY <1>3, <1>4 DEF Kept
  <1>6. QED
    BY <1>1, <1>5 DEF ReportedIsStored, M

LEMMA ReportedStays ==
  Shape /\ Course /\ ReportedIsStored /\ [Next]_vars => ReportedIsStored'
  <1> SUFFICES ASSUME Shape, Course, ReportedIsStored, [Next]_vars PROVE ReportedIsStored'
    OBVIOUS
  <1>1. ASSUME NEW k \in Keys, NEW v \in Values, Set(k, v) PROVE ReportedIsStored'
    BY <1>1, NothingReported DEF Set
  <1>2. ASSUME NEW k \in Keys, Unset(k) PROVE ReportedIsStored'
    BY <1>2, NothingReported DEF Unset
  <1>3. ASSUME NEW k \in Keys, ParseFails(k) PROVE ReportedIsStored'
    BY <1>3, NothingReported DEF ParseFails, Exit
  <1>4. ASSUME NEW k \in Keys, NEW fallback \in BOOLEAN, Query(k, fallback)
        PROVE  ReportedIsStored'
    <2>1. cmd'.op = IF fallback THEN "get-or-default" ELSE "get"
      BY <1>4 DEF Query
    <2>2. cmd'.op \notin {"set", "unset"}
      BY <2>1
    <2>3. QED
      BY <2>2, NothingReported
  <1>5. CASE ValidateConfig
    BY <1>5, NothingReported DEF ValidateConfig
  <1>6. CASE EditConfig
    BY <1>6, NothingReported DEF EditConfig
  <1>7. CASE OpenConfig
    BY <1>7, NothingReported DEF OpenConfig
  <1>8. CASE VisitNode
    BY <1>8, NothingReported DEF VisitNode
  <1>9. CASE VisitFails
    BY <1>9, NothingReported DEF VisitFails, Exit
  <1>10. CASE WriteLine
    BY <1>10, NothingReported DEF WriteLine
  <1>11. CASE WriteFails
    BY <1>11, NothingReported DEF WriteFails, Exit
  <1>12. CASE WriteDone
    BY <1>12, DoneIsStored
  <1>13. CASE Kill
    BY <1>13, NothingReported DEF Kill, Exit
  <1>14. CASE DiskFills
    BY <1>14 DEF DiskFills, ReportedIsStored
  <1>15. CASE UNCHANGED vars
    BY <1>15 DEF vars, ReportedIsStored
  <1>16. QED
    BY <1>1, <1>2, <1>3, <1>4, <1>5, <1>6, <1>7, <1>8, <1>9, <1>10, <1>11, <1>12, <1>13,
       <1>14, <1>15 DEF Next

\* ReportedIsStored: a --set or --unset that reports success has written a file
\* in which, if it parses, the entry it named has the value it gave, or is gone.
THEOREM SuccessIsStored ==
  Spec => []ReportedIsStored
  <1>1. Init => Shape /\ Course /\ ReportedIsStored
    BY KindsAtFirst, CourseAtFirst DEF Init, ReportedIsStored
  <1>2. Shape /\ Course /\ ReportedIsStored /\ [Next]_vars
          => Shape' /\ Course' /\ ReportedIsStored'
    BY KindsStay, CourseStays, ReportedStays
  <1>3. QED
    BY <1>1, <1>2, PTL DEF Spec

-----------------------------------------------------------------------------
(* The order in which the lines are written.                               *)

\* The text with what one more node adds.
TextWith(c, t, path) ==
  IF EntriesOf(c, path) = << >> THEN t ELSE t \o NodeLines(c, path)

Texts(c, D, n, g) ==
  g = [S \in SUBSET (1..n) |-> IF S = {} THEN << >> ELSE TextWith(c, g[S \ {Max(S)}], D[Max(S)])]

\* The fold over sets of places in the walk, unfolded.
LEMMA TextUnfolds ==
  ASSUME NEW c, NEW D, NEW N \in Nat
  PROVE  \E g : Texts(c, D, N, g)
  <1> DEFINE P == {n \in Nat : \E g : Texts(c, D, n, g)}
  <1>1. 0 \in P
    <2> DEFINE g == [S \in SUBSET (1..0) |-> << >>]
    <2>1. \A S \in SUBSET (1..0) : S = {}
      OBVIOUS
    <2>2. Texts(c, D, 0, g)
      BY <2>1 DEF Texts
    <2>3. QED
      BY <2>2
  <1>2. ASSUME NEW n \in Nat, n \in P PROVE n + 1 \in P
    <2>1. PICK g : Texts(c, D, n, g)
      BY <1>2
    <2> DEFINE h == [S \in SUBSET (1..n + 1) |->
                       IF n + 1 \in S THEN TextWith(c, g[S \ {n + 1}], D[n + 1]) ELSE g[S]]
    <2>2. ASSUME NEW S \in SUBSET (1..n + 1)
          PROVE  h[S] = IF S = {} THEN << >> ELSE TextWith(c, h[S \ {Max(S)}], D[Max(S)])
      <3>1. CASE n + 1 \in S
        <4>1. S \subseteq 0..(n + 1) /\ S # {} /\ \A y \in S : y <= n + 1
          BY <3>1
        <4>2. S \subseteq Int /\ n + 1 \in S
          BY <3>1
        <4>3. Max(S) = n + 1
          BY <4>1, <4>2, MaxIs
        <4>4. S \ {n + 1} \in SUBSET (1..n + 1) /\ n + 1 \notin S \ {n + 1}
          OBVIOUS
        <4>5. h[S \ {n + 1}] = g[S \ {n + 1}]
          BY <4>4
        <4>6. QED
          BY <3>1, <4>1, <4>3, <4>5
      <3>2. CASE n + 1 \notin S
        <4>1. S \in SUBSET (1..n)
          BY <3>2
        <4>2. h[S] = g[S]
          BY <3>2
        <4>3. g[S] = IF S = {} THEN << >> ELSE TextWith(c, g[S \ {Max(S)}], D[Max(S)])
          BY <2>1, <4>1 DEF Texts
        <4>4. h[S \ {Max(S)}] = g[S \ {Max(S)}]
          <5>1. S \ {Max(S)} \in SUBSET (1..n + 1) /\ n + 1 \notin S \ {Max(S)}
            BY <3>2
          <5>2. QED
            BY <5>1
        <4>5. QED
          BY <4>2, <4>3, <4>4
      <3>3. QED
        BY <3>1, <3>2
    <2>3. Texts(c, D, n + 1, h)
      <3> DEFINE k == [S \in SUBSET (1..n + 1) |->
                         IF S = {} THEN << >> ELSE TextWith(c, h[S \ {Max(S)}], D[Max(S)])]
      <3>1. h = [S \in SUBSET (1..n + 1) |-> h[S]]
        OBVIOUS
      <3> HIDE DEF h
      <3>2. h = k
        BY <2>2, <3>1
      <3>3. QED
        BY <3>2 DEF Texts
    <2> HIDE DEF h
    <2>4. n + 1 \in Nat
      OBVIOUS
    <2>5. QED
      BY <2>3, <2>4
  <1>3. N \in P
    <2> HIDE DEF P
    <2>1. QED
      BY <1>1, <1>2, Induction
  <1>4. QED
    BY <1>3

\* The text grows node by node.
LEMMA TextIsAFold ==
  ASSUME NEW c, NEW N \in Nat, DOMAIN DepthFirst(c) = 1..N
  PROVE  \E acc : /\ acc[0] = << >> /\ acc[N] = Text(c)
                  /\ \A n \in 1..N : acc[n] = TextWith(c, acc[n - 1], DepthFirst(c)[n])
  <1> DEFINE D == DepthFirst(c)
  <1> DEFINE Eq(g) == Texts(c, D, N, g)
             it == CHOOSE g : Eq(g)
  <1>1. Eq(it)
    <2> HIDE DEF D
    <2>1. \E g : Eq(g)
      BY TextUnfolds
    <2>2. QED
      BY <2>1
  <1>2. Text(c) = it[1..N]
    BY DEF Text, FoldLeft, MapThenFoldSet, TextWith, Texts
  <1> HIDE DEF it
  <1> DEFINE acc == [n \in 0..N |-> it[1..n]]
  <1>3. \A S \in SUBSET (1..N) :
          it[S] = IF S = {} THEN << >> ELSE TextWith(c, it[S \ {Max(S)}], D[Max(S)])
    BY <1>1 DEF Texts
  <1>4. acc[0] = << >>
    <2>1. 1..0 = {} /\ {} \in SUBSET (1..N)
      OBVIOUS
    <2>2. acc[0] = it[{}]
      BY <2>1
    <2>3. QED
      BY <1>3, <2>1, <2>2
  <1>5. acc[N] = Text(c)
    BY <1>2
  <1>6. ASSUME NEW n \in 1..N PROVE acc[n] = TextWith(c, acc[n - 1], D[n])
    <2>1. 1..n \in SUBSET (1..N) /\ 1..n # {} /\ (1..n) \ {n} = 1..(n - 1)
      <3>1. \A i \in 1..n : i \in 1..N
        OBVIOUS
      <3>2. n \in 1..n
        OBVIOUS
      <3>3. \A i : i \in 1..(n - 1) <=> i \in 1..n /\ i # n
        OBVIOUS
      <3>4. QED
        BY <3>1, <3>2, <3>3
    <2>2. Max(1..n) = n
      <3>1. 1..n \subseteq Int /\ n \in 1..n /\ \A y \in 1..n : y <= n
        OBVIOUS
      <3>2. QED
        BY <3>1, MaxIs
    <2>3. acc[n] = it[1..n] /\ acc[n - 1] = it[1..(n - 1)]
      OBVIOUS
    <2>4. QED
      BY <1>3, <2>1, <2>2, <2>3
  <1> HIDE DEF acc
  <1>7. QED
    BY <1>4, <1>5, <1>6

\* The text after each node.
Composes(c, acc) ==
  /\ acc[0] = << >> /\ acc[Cardinality(Nodes(c))] = Text(c)
  /\ \A n \in 1..Cardinality(Nodes(c)) : acc[n] = TextWith(c, acc[n - 1], DepthFirst(c)[n])

LEMMA TextComposes ==
  ASSUME NEW c, Config(c)
  PROVE  \E acc : Composes(c, acc)
  <1> DEFINE N == Cardinality(Nodes(c))
             D == DepthFirst(c)
  <1>1. N \in Nat
    BY NodesFinite
  <1>2. DOMAIN D = 1..N
    BY DepthFirstIs
  <1> HIDE DEF N
  <1>3. \E acc : /\ acc[0] = << >> /\ acc[N] = Text(c)
                 /\ \A n \in 1..N : acc[n] = TextWith(c, acc[n - 1], DepthFirst(c)[n])
    BY <1>1, <1>2, TextIsAFold
  <1>4. QED
    BY <1>3 DEF Composes, N

\* Beginnings of sequences.
LEMMA PrefixIs ==
  ASSUME NEW T, NEW s \in Seq(T), NEW t \in Seq(T)
  PROVE  IsPrefix(s, t) <=> Len(s) <= Len(t) /\ \A i \in 1..Len(s) : s[i] = t[i]
  <1> DEFINE n == Len(s)
  <1>1. n \in Nat /\ Len(t) \in Nat
    OBVIOUS
  <1>2. SubSeq(s, 1, n) = s
    OBVIOUS
  <1>3. CASE n <= Len(t)
    <2>1. n \in 0..Len(t)
      BY <1>1, <1>3
    <2> DEFINE p == SubSeq(t, 1, n)
    <2> HIDE DEF n
    <2>2. p \in Seq(T) /\ Len(p) = n /\ \A i \in 1..n : p[i] = t[i]
      BY <2>1, Beginning
    <2> HIDE DEF p
    <2>3. s = p <=> \A i \in 1..n : s[i] = p[i]
      BY <2>2, SameElements DEF n
    <2>4. s = p <=> \A i \in 1..n : s[i] = t[i]
      BY <2>2, <2>3
    <2>5. QED
      BY <1>2, <1>3, <2>4 DEF IsPrefix, p, n
  <1>4. QED
    BY <1>3 DEF IsPrefix

LEMMA PrefixOfJoined ==
  ASSUME NEW T, NEW s \in Seq(T), NEW t \in Seq(T)
  PROVE  IsPrefix(s, s \o t)
  <1> DEFINE n == Len(s)
             u == s \o t
  <1>1. n \in Nat /\ Len(t) \in Nat
    OBVIOUS
  <1> HIDE DEF n
  <1>2. s \o t \in Seq(T) /\ Len(s \o t) = n + Len(t) /\ \A i \in 1..n : (s \o t)[i] = s[i]
    BY <1>1, Joined DEF n
  <1> HIDE DEF u
  <1>3. u \in Seq(T) /\ Len(u) = n + Len(t) /\ \A i \in 1..n : u[i] = s[i]
    BY <1>2 DEF u
  <1>4. Len(s) = n /\ n <= Len(u)
    BY <1>1, <1>3 DEF n
  <1>5. IsPrefix(s, u)
    BY <1>3, <1>4, PrefixIs
  <1>6. QED
    BY <1>5 DEF u

LEMMA PrefixOn ==
  ASSUME NEW T, NEW s \in Seq(T), NEW t \in Seq(T), NEW u \in Seq(T),
         IsPrefix(s, t), IsPrefix(t, u)
  PROVE  IsPrefix(s, u)
  <1>1. Len(s) \in Nat /\ Len(t) \in Nat /\ Len(u) \in Nat
    OBVIOUS
  <1>2. Len(s) <= Len(t) /\ \A i \in 1..Len(s) : s[i] = t[i]
    BY PrefixIs
  <1>3. Len(t) <= Len(u) /\ \A i \in 1..Len(t) : t[i] = u[i]
    BY PrefixIs
  <1>4. Len(s) <= Len(u) /\ \A i \in 1..Len(s) : s[i] = u[i]
    BY <1>1, <1>2, <1>3
  <1>5. QED
    BY <1>4, PrefixIs

\* Each is the beginning of the next.
LEMMA TextGrows ==
  ASSUME NEW c, Config(c), NEW t \in Seq(Lines), NEW path \in Nodes(c)
  PROVE  TextWith(c, t, path) \in Seq(Lines) /\ IsPrefix(t, TextWith(c, t, path))
  <1>1. path \in Seq(Words)
    BY NodesAre
  <1>2. CASE EntriesOf(c, path) = << >>
    <2>1. TextWith(c, t, path) = t
      BY <1>2 DEF TextWith
    <2>2. Len(t) \in Nat
      OBVIOUS
    <2>3. QED
      BY <2>1, <2>2 DEF IsPrefix
  <1>3. CASE EntriesOf(c, path) # << >>
    <2> DEFINE l == NodeLines(c, path)
    <2>1. l \in Seq(Lines)
      BY <1>1, <1>3, NodeLinesAre
    <2>2. TextWith(c, t, path) = t \o l
      BY <1>3 DEF TextWith
    <2> HIDE DEF l
    <2>3. t \o l \in Seq(Lines)
      BY <2>1
    <2>4. IsPrefix(t, t \o l)
      BY <2>1, PrefixOfJoined
    <2>5. QED
      BY <2>2, <2>3, <2>4
  <1>4. QED
    BY <1>2, <1>3

LEMMA TextSoFar ==
  ASSUME NEW c, Config(c), NEW acc, Composes(c, acc), NEW k \in 0..Cardinality(Nodes(c))
  PROVE  acc[k] \in Seq(Lines) /\ IsPrefix(acc[k], Text(c))
  <1> DEFINE N == Cardinality(Nodes(c))
             step(n) == acc[n] \in Seq(Lines)
  <1>1. N \in Nat /\ k \in 0..N
    BY NodesFinite
  <1>2. /\ acc[0] = << >> /\ acc[N] = Text(c)
        /\ \A n \in 1..N : acc[n] = TextWith(c, acc[n - 1], DepthFirst(c)[n])
    BY DEF Composes
  <1>3. \A n \in 1..N : DepthFirst(c)[n] \in Nodes(c)
    BY RanksAreTaken
  <1> HIDE DEF N
  <1>4. ASSUME NEW n \in 1..N, acc[n - 1] \in Seq(Lines)
        PROVE  acc[n] \in Seq(Lines) /\ IsPrefix(acc[n - 1], acc[n])
    BY <1>2, <1>3, <1>4, TextGrows
  <1> DEFINE P == {n \in Nat : n <= N => acc[n] \in Seq(Lines)}
  <1>5. 0 \in P
    <2>1. << >> \in Seq(Lines)
      OBVIOUS
    <2>2. QED
      BY <1>2, <2>1
  <1>6. ASSUME NEW n \in Nat, n \in P PROVE n + 1 \in P
    <2>1. SUFFICES ASSUME n + 1 <= N PROVE acc[n + 1] \in Seq(Lines)
      OBVIOUS
    <2>2. n + 1 \in 1..N /\ (n + 1) - 1 = n /\ n <= N
      BY <1>1, <2>1
    <2>3. acc[n] \in Seq(Lines)
      BY <1>6, <2>2
    <2>4. QED
      BY <1>4, <2>2, <2>3
  <1>7. Nat \subseteq P
    <2> HIDE DEF P
    <2>1. QED
      BY <1>5, <1>6, Induction
  <1>8. \A n \in 0..N : acc[n] \in Seq(Lines)
    <2>1. SUFFICES ASSUME NEW n \in 0..N PROVE acc[n] \in Seq(Lines)
      OBVIOUS
    <2>2. n \in Nat /\ n <= N
      BY <1>1
    <2>3. QED
      BY <1>7, <2>2
  <1> DEFINE Q == {n \in Nat : k + n <= N => IsPrefix(acc[k], acc[k + n])}
  <1>9. 0 \in Q
    <2>1. k + 0 = k
      BY <1>1
    <2>2. IsPrefix(acc[k], acc[k])
      <3>1. acc[k] \in Seq(Lines)
        BY <1>1, <1>8
      <3>2. QED
        BY <3>1, PrefixIs
    <2>3. QED
      BY <2>1, <2>2
  <1>10. ASSUME NEW n \in Nat, n \in Q PROVE n + 1 \in Q
    <2>1. SUFFICES ASSUME k + (n + 1) <= N PROVE IsPrefix(acc[k], acc[k + (n + 1)])
      OBVIOUS
    <2> DEFINE l == k + n
    <2>2. l \in 0..N /\ l + 1 \in 1..N /\ l + 1 \in 0..N /\ (l + 1) - 1 = l /\ k + (n + 1) = l + 1
      BY <1>1, <2>1
    <2>3. IsPrefix(acc[k], acc[l])
      BY <1>10, <2>2
    <2> HIDE DEF l
    <2>4. acc[k] \in Seq(Lines) /\ acc[l] \in Seq(Lines) /\ acc[l + 1] \in Seq(Lines)
      BY <1>1, <1>8, <2>2
    <2>5. IsPrefix(acc[l], acc[l + 1])
      BY <1>4, <2>2, <2>4
    <2>6. IsPrefix(acc[k], acc[l + 1])
      BY <2>3, <2>4, <2>5, PrefixOn
    <2>7. QED
      BY <2>2, <2>6
  <1>11. N - k \in Q
    <2>1. N - k \in Nat
      BY <1>1
    <2> HIDE DEF Q
    <2>2. QED
      BY <1>9, <1>10, <2>1, Induction
  <1>12. k + (N - k) = N
    BY <1>1
  <1>13. IsPrefix(acc[k], acc[N])
    BY <1>1, <1>11, <1>12
  <1>14. QED
    BY <1>1, <1>2, <1>8, <1>13

\* The lines that are written, with those that are pending, are the text so far.
SoFar(f, l, c, v) ==
  \E acc : Composes(c, acc) /\ f \o l = acc[Cardinality(Visited(c, v))]

InOrder == pc \in {"visit", "lines"} => SoFar(file, lines, conf, visitor)

LEMMA OpenInOrder ==
  ASSUME Shape, Course, OpenConfig
  PROVE  InOrder'
  <1>1. Config(conf) /\ lines = << >>
    BY DEF Shape, Course, OpenConfig
  <1>2. /\ file' = << >> /\ visitor' = NotBegun /\ conf' = conf /\ lines' = << >>
    BY <1>1 DEF OpenConfig
  <1>3. PICK acc : Composes(conf, acc)
    BY <1>1, TextComposes
  <1>4. Visited(conf, NotBegun) = {}
    BY DEF Visited, NotBegun
  <1>5. Cardinality(Visited(conf, NotBegun)) = 0
    BY <1>4, FS_EmptySet
  <1>6. << >> \o << >> = acc[0]
    BY <1>3 DEF Composes
  <1>7. SoFar(<< >>, << >>, conf, NotBegun)
    BY <1>3, <1>5, <1>6 DEF SoFar
  <1>8. QED
    BY <1>2, <1>7 DEF InOrder

LEMMA VisitInOrder ==
  ASSUME Shape, Course, InOrder, VisitNode
  PROVE  InOrder'
  <1> DEFINE next == NextNode(conf, visitor)
             n == Cardinality(Visited(conf, visitor))
             L == NodeLines(conf, next.node)
  <1>1. /\ visitor' = next /\ file' = file /\ conf' = conf
        /\ pc = "visit" /\ HasNext(conf, visitor)
        /\ lines' = IF EntriesOf(conf, next.node) = << >> THEN lines ELSE L
    BY DEF VisitNode
  <1>2. Config(conf) /\ file \in Seq(Lines) /\ lines = << >> /\ OnWay(conf, visitor)
    BY <1>1 DEF Shape, Course, Underway
  <1>3. PICK acc : Composes(conf, acc) /\ file \o lines = acc[n]
    BY <1>1 DEF InOrder, SoFar
  <1>4. GoesOn(conf, visitor, next)
    BY <1>1, <1>2, WalkGoesOn
  <1> HIDE DEF next, n
  <1>5. /\ n \in Nat /\ n + 1 \in 1..Cardinality(Nodes(conf))
        /\ Cardinality(Visited(conf, next)) = n + 1
        /\ DepthFirst(conf)[n + 1] = next.node
    BY <1>2, <1>4, NextInOrder DEF n
  <1>6. file = acc[n]
    BY <1>2, <1>3
  <1>7. acc[n + 1] = TextWith(conf, acc[n], next.node)
    <2>1. (n + 1) - 1 = n
      BY <1>5
    <2>2. QED
      BY <1>3, <1>5, <2>1 DEF Composes
  <1>8. file \o lines' = acc[n + 1]
    <2>1. CASE EntriesOf(conf, next.node) = << >>
      BY <1>1, <1>2, <1>3, <1>7, <2>1 DEF TextWith
    <2>2. CASE EntriesOf(conf, next.node) # << >>
      BY <1>1, <1>6, <1>7, <2>2 DEF TextWith
    <2>3. QED
      BY <2>1, <2>2
  <1>9. SoFar(file, lines', conf, next)
    BY <1>3, <1>5, <1>8 DEF SoFar
  <1>10. QED
    BY <1>1, <1>9 DEF InOrder

LEMMA OrderKept ==
  Shape /\ Course /\ InOrder /\ [Next]_vars => InOrder'
  <1> SUFFICES ASSUME Shape, Course, InOrder, [Next]_vars PROVE InOrder'
    OBVIOUS
  <1>1. ASSUME pc' \in {"idle", "open"} PROVE InOrder'
    BY <1>1 DEF InOrder
  <1>2. CASE \E k \in Keys : Unset(k) \/ ParseFails(k) \/ \E v \in Values : Set(k, v)
    <2>1. pc' \in {"idle", "open"}
      BY <1>2 DEF Set, Unset, ParseFails, Exit
    <2>2. QED
      BY <1>1, <2>1
  <1>3. CASE \E k \in Keys, fallback \in BOOLEAN : Query(k, fallback)
    <2>1. pc' = "idle"
      BY <1>3 DEF Query, Exit
    <2>2. QED
      BY <1>1, <2>1
  <1>4. CASE ValidateConfig \/ EditConfig
    <2>1. pc' = "idle"
      BY <1>4 DEF ValidateConfig, EditConfig, Exit
    <2>2. QED
      BY <1>1, <2>1
  <1>5. CASE VisitFails \/ WriteFails \/ WriteDone \/ Kill
    <2>1. pc' = "idle"
      BY <1>5 DEF VisitFails, WriteFails, WriteDone, Kill, Exit
    <2>2. QED
      BY <1>1, <2>1
  <1>6. CASE OpenConfig
    BY <1>6, OpenInOrder
  <1>7. CASE VisitNode
    BY <1>7, VisitInOrder
  <1>8. CASE WriteLine
    <2>1. lines \in Seq(Lines) /\ lines # << >> /\ file \in Seq(Lines)
      BY <1>8 DEF WriteLine, Shape
    <2>2. /\ file' = Append(file, Head(lines)) /\ lines' = Tail(lines)
          /\ conf' = conf /\ visitor' = visitor /\ pc = "lines"
      BY <1>8 DEF WriteLine
    <2>3. file' \o lines' = file \o lines
      BY <2>1, <2>2, LineMoves
    <2>4. SoFar(file, lines, conf, visitor)
      BY <2>2 DEF InOrder
    <2>5. SoFar(file', lines', conf, visitor)
      BY <2>3, <2>4 DEF SoFar
    <2>6. QED
      BY <2>2, <2>5 DEF InOrder
  <1>9. ASSUME file' = file, conf' = conf, pc' = pc, visitor' = visitor, lines' = lines
        PROVE  InOrder'
    BY <1>9 DEF InOrder
  <1>10. CASE DiskFills
    BY <1>9, <1>10 DEF DiskFills
  <1>11. CASE UNCHANGED vars
    BY <1>9, <1>11 DEF vars
  <1>12. QED
    BY <1>2, <1>3, <1>4, <1>5, <1>6, <1>7, <1>8, <1>10, <1>11 DEF Next

LEMMA OrderSeen ==
  ASSUME Shape, InOrder
  PROVE  WritesInOrder
  <1>1. SUFFICES ASSUME pc \in {"visit", "lines"} PROVE IsPrefix(file, Text(conf))
    BY DEF WritesInOrder
  <1> DEFINE P == Visited(conf, visitor)
             k == Cardinality(P)
             N == Cardinality(Nodes(conf))
  <1>2. Config(conf) /\ file \in Seq(Lines) /\ lines \in Seq(Lines)
    BY DEF Shape
  <1>3. PICK acc : Composes(conf, acc) /\ file \o lines = acc[k]
    BY <1>1 DEF InOrder, SoFar
  <1>4. k \in 0..N /\ N \in 0..N
    <2>1. P \subseteq Nodes(conf)
      BY DEF Visited
    <2>2. IsFiniteSet(Nodes(conf)) /\ N \in Nat
      BY <1>2, NodesFinite
    <2> HIDE DEF P, N
    <2>3. IsFiniteSet(P) /\ k <= N
      BY <2>1, <2>2, FS_Subset DEF N
    <2>4. k \in Nat
      BY <2>3, FS_CardinalityType
    <2>5. QED
      BY <2>2, <2>3, <2>4
  <1> HIDE DEF k, N
  <1>5. acc[k] \in Seq(Lines) /\ IsPrefix(acc[k], Text(conf))
    BY <1>2, <1>3, <1>4, TextSoFar DEF N
  <1>6. Text(conf) \in Seq(Lines)
    <2>1. acc[N] \in Seq(Lines)
      BY <1>2, <1>3, <1>4, TextSoFar DEF N
    <2>2. QED
      BY <1>3, <2>1 DEF Composes, N
  <1>7. IsPrefix(file, file \o lines)
    BY <1>2, PrefixOfJoined
  <1>8. QED
    BY <1>2, <1>3, <1>5, <1>6, <1>7, PrefixOn

\* WritesInOrder: however far the write of a config has come, the file is the
\* beginning of the text of the config in depth-first order, the entries outside
\* any section first, where no heading captures them.
THEOREM WritesKeepOrder ==
  Spec => []WritesInOrder
  <1>1. Init => Shape /\ Course /\ InOrder
    BY KindsAtFirst, CourseAtFirst DEF Init, InOrder
  <1>2. Shape /\ Course /\ InOrder /\ [Next]_vars => Shape' /\ Course' /\ InOrder'
    BY KindsStay, CourseStays, OrderKept
  <1>3. Shape /\ InOrder => WritesInOrder
    BY OrderSeen
  <1>4. QED
    BY <1>1, <1>2, <1>3, PTL DEF Spec

-----------------------------------------------------------------------------
(* What is written and read again is written the same.                     *)

\* One place more to pick from.
LEMMA PicksOneMore ==
  ASSUME NEW T, NEW s \in Seq(T), NEW x \in T, NEW D, NEW G,
         \A i \in 1..Len(s) : i \in G <=> i \in D
  PROVE  AtPlaces(Append(s, x), G) =
           IF Len(s) + 1 \in G THEN Append(AtPlaces(s, D), x) ELSE AtPlaces(s, D)
  <1> DEFINE n == Len(s)
             t == Append(s, x)
  <1>1. n \in Nat /\ DOMAIN s = 1..n
    OBVIOUS
  <1>2. t \in Seq(T) /\ Len(t) = n + 1 /\ DOMAIN t = 1..n + 1 /\ t[n + 1] = x
        /\ \A i \in 1..n : t[i] = s[i]
    OBVIOUS
  <1>3. \A i \in 1..n : i \in G <=> i \in D
    OBVIOUS
  <1> HIDE DEF n, t
  <1>4. PICK acc : Gathers(s, D, n, acc)
    BY <1>1, PlacesFold
  <1>5. PICK more : Gathers(t, G, n + 1, more)
    <2>1. n + 1 \in Nat
      BY <1>1
    <2>2. QED
      BY <1>2, <2>1, PlacesFold
  <1> DEFINE P == {k \in Nat : k <= n => more[k] = acc[k]}
  <1>6. 0 \in P
    BY <1>4, <1>5 DEF Gathers
  <1>7. ASSUME NEW k \in Nat, k \in P PROVE k + 1 \in P
    <2>1. SUFFICES ASSUME k + 1 <= n PROVE more[k + 1] = acc[k + 1]
      OBVIOUS
    <2>2. k + 1 \in 1..n /\ k + 1 \in 1..n + 1 /\ (k + 1) - 1 = k /\ k <= n
      BY <1>1, <2>1
    <2>3. more[k + 1] = Pick(t, G, more[k], k + 1)
      BY <1>5, <2>2 DEF Gathers
    <2>4. acc[k + 1] = Pick(s, D, acc[k], k + 1)
      BY <1>4, <2>2 DEF Gathers
    <2>5. more[k] = acc[k]
      BY <1>7, <2>2
    <2>6. QED
      BY <1>2, <1>3, <2>2, <2>3, <2>4, <2>5 DEF Pick
  <1>8. n \in P
    <2> HIDE DEF P
    <2>1. QED
      BY <1>1, <1>6, <1>7, Induction
  <1>9. more[n] = AtPlaces(s, D)
    BY <1>1, <1>4, <1>8 DEF Gathers
  <1>10. AtPlaces(t, G) = Pick(t, G, more[n], n + 1)
    <2>1. n + 1 \in 1..n + 1 /\ (n + 1) - 1 = n
      BY <1>1
    <2>2. QED
      BY <1>5, <2>1 DEF Gathers
  <1>11. QED
    BY <1>2, <1>9, <1>10 DEF Pick, n, t

\* Its section gains an entry, and no other does,
Gains(c, d, e) ==
  \A path : EntriesOf(d, path) =
    IF Front(e.key) = path THEN Append(EntriesOf(c, path), e) ELSE EntriesOf(c, path)

\* when one is appended.
LEMMA EntriesOneMore ==
  ASSUME NEW c, Config(c), NEW d, NEW e \in Entry, d.entries = Append(c.entries, e)
  PROVE  Gains(c, d, e)
  <1> SUFFICES ASSUME NEW path
               PROVE  EntriesOf(d, path) = IF Front(e.key) = path THEN Append(EntriesOf(c, path), e)
                                           ELSE EntriesOf(c, path)
    BY DEF Gains
  <1> DEFINE s == c.entries
             t == d.entries
             n == Len(s)
             D == {i \in DOMAIN s : Front(s[i].key) = path}
             G == {i \in DOMAIN t : Front(t[i].key) = path}
  <1>1. s \in Seq(Entry) /\ n \in Nat
    BY DEF Config
  <1>2. EntriesOf(c, path) = AtPlaces(s, D) /\ EntriesOf(d, path) = AtPlaces(t, G)
    BY DEF EntriesOf
  <1>3. t = Append(s, e)
    OBVIOUS
  <1> HIDE DEF s, t
  <1>4. /\ DOMAIN s = 1..n /\ DOMAIN t = 1..n + 1 /\ t[n + 1] = e
        /\ \A i \in 1..n : t[i] = s[i] /\ i \in 1..n + 1
        /\ n + 1 \in 1..n + 1
    BY <1>1, <1>3
  <1>5. \A i \in 1..n : i \in G <=> i \in D
    BY <1>4
  <1>6. n + 1 \in G <=> Front(e.key) = path
    BY <1>4
  <1> HIDE DEF D, G
  <1>7. AtPlaces(Append(s, e), G) = IF Len(s) + 1 \in G THEN Append(AtPlaces(s, D), e) ELSE AtPlaces(s, D)
    BY <1>1, <1>5, PicksOneMore
  <1>8. QED
    BY <1>2, <1>3, <1>6, <1>7

\* Sections in the order in which the walk over c comes to them.
InWalk(c, s) ==
  \A i, j \in 1..Len(s) : i < j => Sooner(WayDown(c, s[i]), WayDown(c, s[j]))

\* A section and those it is in.
Above(p) == {SubSeq(p, 1, n) : n \in 1..Len(p)}

\* What is missing of a section comes after what is there.
Fits(c, d, p) ==
  /\ ToSet(d.sections) \subseteq Nodes(c) /\ p \in Nodes(c)
  /\ \A x \in ToSet(d.sections), q \in Above(p) :
       q \notin ToSet(d.sections) => Sooner(WayDown(c, x), WayDown(c, q))

\* A section comes before those in it.
LEMMA SoonerBelow ==
  ASSUME NEW c, Config(c), NEW p \in Nodes(c), NEW m \in 0..Len(p), NEW n \in 0..Len(p), m < n
  PROVE  Sooner(WayDown(c, SubSeq(p, 1, m)), WayDown(c, SubSeq(p, 1, n)))
  <1> DEFINE w == WayDown(c, p)
             a == SubSeq(w, 1, m)
             b == SubSeq(w, 1, n)
  <1>1. w \in Seq(Nat \ {0}) /\ Len(w) = Len(p)
    BY WayIs
  <1>2. WayDown(c, SubSeq(p, 1, m)) = a /\ WayDown(c, SubSeq(p, 1, n)) = b
    BY WayAbove
  <1>3. p \in Seq(Words) /\ Len(p) \in Nat /\ m \in 0..Len(w) /\ n \in 0..Len(w)
    BY <1>1, NodesAre
  <1> HIDE DEF w
  <1>4. /\ a \in Seq(Nat \ {0}) /\ Len(a) = m /\ \A i \in 1..m : a[i] = w[i]
    BY <1>1, <1>3, Beginning
  <1>5. /\ b \in Seq(Nat \ {0}) /\ Len(b) = n /\ \A i \in 1..n : b[i] = w[i]
    BY <1>1, <1>3, Beginning
  <1> HIDE DEF a, b
  <1>6. m \in Nat /\ n \in Nat /\ \A i \in 1..m : i \in 1..n
    BY <1>3
  <1>7. Agree(a, b, m)
    BY <1>4, <1>5, <1>6 DEF Agree
  <1>8. QED
    BY <1>2, <1>4, <1>5, <1>7 DEF Sooner

\* Making the sections of a path keeps the order of the walk.
LEMMA LookupFits ==
  ASSUME NEW c, Config(c), NEW d, Config(d), NEW p, InWalk(c, d.sections), Fits(c, d, p)
  PROVE  LET e == LookupSection(d, p) IN
         /\ InWalk(c, e.sections)
         /\ ToSet(e.sections) = ToSet(d.sections) \cup Above(p)
  <1> DEFINE N == Len(p)
             S == ToSet(d.sections)
             T == Seq(Words) \ {<< >>}
             w(q) == WayDown(c, q)
             A(n) == {SubSeq(p, 1, m) : m \in 1..n}
             I(n, a) == /\ a.sections \in Seq(T) /\ InWalk(c, a.sections)
                        /\ a = [sections |-> a.sections, entries |-> a.entries]
                        /\ ToSet(a.sections) = S \cup A(n)
  <1>1. p \in Nodes(c) /\ p \in Seq(Words) /\ N \in Nat
    BY NodesAre DEF Fits
  <1>2. PICK acc : WalksDown(d, p, N, acc)
    BY <1>1, LookupIsAFold
  <1> DEFINE P == {n \in Nat : n <= N => I(n, acc[n])}
  <1>3. 0 \in P
    <2>1. A(0) = {}
      OBVIOUS
    <2>2. acc[0] = d
      BY <1>2 DEF WalksDown
    <2>3. d.sections \in Seq(T) /\ d = [sections |-> d.sections, entries |-> d.entries]
      BY DEF Config, Nested
    <2>4. QED
      BY <2>1, <2>2, <2>3
  <1>4. ASSUME NEW n \in Nat, n \in P PROVE n + 1 \in P
    <2>1. SUFFICES ASSUME n + 1 <= N PROVE I(n + 1, acc[n + 1])
      OBVIOUS
    <2> DEFINE a == acc[n]
               q == SubSeq(p, 1, n + 1)
               s == a.sections
               t == Append(s, q)
    <2>2. n + 1 \in 1..N /\ (n + 1) - 1 = n /\ n <= N /\ n + 1 \in 0..Len(p)
      BY <1>1, <2>1
    <2>3. I(n, a)
      BY <1>4, <2>2
    <2>4. acc[n + 1] = MakeSection(p, a, n + 1)
      BY <1>2, <2>2 DEF WalksDown
    <2>5. q \in T /\ q \in Nodes(c)
      <3>1. q \in Seq(Words) /\ Len(q) = n + 1
        BY <1>1, <2>2, Beginning
      <3>2. Len(<< >>) = 0 /\ n + 1 # 0
        BY <2>2
      <3>3. q \in Nodes(c)
        BY <1>1, <2>2, NodesAbove
      <3> HIDE DEF q
      <3>4. QED
        BY <3>1, <3>2, <3>3
    <2>6. A(n + 1) = A(n) \cup {q}
      <3>1. \A m : m \in 1..n + 1 <=> m \in 1..n \/ m = n + 1
        OBVIOUS
      <3>2. QED
        BY <3>1
    <2>7. q \in Above(p)
      BY <2>2 DEF Above
    <2> HIDE DEF q, a
    <2>8. CASE Contains(s, q)
      <3>1. acc[n + 1] = a
        BY <2>4, <2>8 DEF MakeSection, q
      <3>2. q \in ToSet(s)
        BY <2>8 DEF Contains, ToSet
      <3>3. QED
        BY <2>3, <2>6, <3>1, <3>2
    <2>9. CASE ~Contains(s, q)
      <3>1. acc[n + 1] = [a EXCEPT !.sections = Append(@, q)]
        BY <2>4, <2>9 DEF MakeSection, q
      <3>2. acc[n + 1] = [sections |-> t, entries |-> a.entries]
        BY <2>3, <3>1
      <3>3. q \notin ToSet(s)
        BY <2>9 DEF Contains, ToSet
      <3> DEFINE l == Len(s)
      <3>4. s \in Seq(T) /\ l \in Nat /\ DOMAIN s = 1..l /\ ToSet(s) = {s[i] : i \in 1..l}
        <4>1. s \in Seq(T)
          BY <2>3
        <4> HIDE DEF s, T
        <4>2. l \in Nat /\ DOMAIN s = 1..l
          BY <4>1
        <4>3. QED
          BY <4>1, <4>2 DEF ToSet
      <3>5. /\ t \in Seq(T) /\ Len(t) = l + 1 /\ DOMAIN t = 1..l + 1 /\ t[l + 1] = q
            /\ \A i \in 1..l : t[i] = s[i]
        BY <2>5, <3>4
      <3> HIDE DEF t, s, l
      <3>6. ToSet(t) = ToSet(s) \cup {q}
        <4>1. ToSet(t) = {t[i] : i \in 1..l + 1}
          BY <3>5 DEF ToSet
        <4>2. \A i : i \in 1..l + 1 <=> i \in 1..l \/ i = l + 1
          BY <3>4
        <4>3. QED
          BY <3>4, <3>5, <4>1, <4>2
      <3>7. \A x \in ToSet(s) : Sooner(w(x), w(q))
        <4>1. SUFFICES ASSUME NEW x \in ToSet(s) PROVE Sooner(w(x), w(q))
          OBVIOUS
        <4>2. x \in S \/ x \in A(n)
          BY <2>3 DEF s
        <4>3. CASE x \in S
          BY <2>3, <2>7, <3>3, <4>3 DEF Fits, s
        <4>4. ASSUME NEW m \in 1..n, x = SubSeq(p, 1, m) PROVE Sooner(w(x), w(q))
          <5>1. m \in 0..Len(p) /\ m < n + 1
            BY <2>2, <4>4
          <5>2. QED
            BY <1>1, <2>2, <4>4, <5>1, SoonerBelow DEF q
        <4>5. QED
          BY <4>2, <4>3, <4>4
      <3>8. InWalk(c, t)
        <4>1. SUFFICES ASSUME NEW i \in 1..l + 1, NEW j \in 1..l + 1, i < j
                       PROVE  Sooner(w(t[i]), w(t[j]))
          BY <3>5 DEF InWalk
        <4>2. i \in 1..l
          BY <3>4, <4>1
        <4>3. CASE j \in 1..l
          <5>1. Sooner(w(s[i]), w(s[j]))
            BY <2>3, <4>1, <4>2, <4>3 DEF InWalk, s, l
          <5>2. QED
            BY <3>5, <4>2, <4>3, <5>1
        <4>4. CASE j = l + 1
          <5>1. s[i] \in ToSet(s)
            BY <3>4, <4>2
          <5>2. Sooner(w(s[i]), w(q))
            BY <3>7, <5>1
          <5>3. QED
            BY <3>5, <4>2, <4>4, <5>2
        <4>5. QED
          BY <3>4, <4>3, <4>4
      <3>9. ToSet(t) = S \cup A(n + 1)
        BY <2>3, <2>6, <3>6 DEF s
      <3> DEFINE b == acc[n + 1]
      <3> HIDE DEF b
      <3>10. b.sections = t /\ b = [sections |-> b.sections, entries |-> b.entries]
        BY <3>2 DEF b
      <3> HIDE DEF A, S
      <3>11. I(n + 1, b)
        BY <3>5, <3>8, <3>9, <3>10
      <3>12. QED
        BY <3>11 DEF b
    <2>10. QED
      BY <2>8, <2>9
  <1>5. N \in P
    <2> HIDE DEF P
    <2>1. QED
      BY <1>1, <1>3, <1>4, Induction
  <1>6. acc[N] = LookupSection(d, p)
    BY <1>2 DEF WalksDown
  <1>7. A(N) = Above(p)
    BY DEF Above
  <1>8. I(N, LookupSection(d, p))
    BY <1>1, <1>5, <1>6
  <1>9. QED
    BY <1>7, <1>8

\* Of two ways, beginnings that are not shared are in the order of the ways.
LEMMA BeginningsInOrder ==
  ASSUME NEW a \in Seq(Nat \ {0}), NEW b \in Seq(Nat \ {0}), Sooner(a, b),
         NEW m \in 0..Len(a), NEW n \in 0..Len(b), ~(n <= Len(a) /\ Agree(a, b, n))
  PROVE  Sooner(SubSeq(a, 1, m), SubSeq(b, 1, n))
  <1> DEFINE x == SubSeq(a, 1, m)
             y == SubSeq(b, 1, n)
  <1>1. /\ Len(a) \in Nat /\ Len(b) \in Nat /\ m \in Nat /\ n \in Nat /\ m <= Len(a) /\ n <= Len(b)
    OBVIOUS
  <1>2. Len(x) = m /\ \A i \in 1..m : x[i] = a[i]
    BY Beginning
  <1>3. Len(y) = n /\ \A i \in 1..n : y[i] = b[i]
    BY Beginning
  <1> HIDE DEF x, y
  <1>4. ASSUME m < n, Agree(a, b, m) PROVE Sooner(x, y)
    <2>1. \A i \in 1..m : i \in 1..n
      BY <1>1, <1>4
    <2>2. Agree(x, y, m)
      BY <1>2, <1>3, <1>4, <2>1 DEF Agree
    <2>3. QED
      BY <1>2, <1>3, <1>4, <2>2 DEF Sooner
  <1>5. ASSUME Len(a) < Len(b), Agree(a, b, Len(a)) PROVE Sooner(x, y)
    <2>1. Len(a) < n
      <3>1. SUFFICES ASSUME n <= Len(a) PROVE Agree(a, b, n)
        BY <1>1
      <3>2. \A i \in 1..n : i \in 1..Len(a)
        BY <1>1, <3>1
      <3>3. QED
        BY <1>5, <3>2 DEF Agree
    <2>2. m < n /\ \A i \in 1..m : i \in 1..Len(a)
      BY <1>1, <2>1
    <2>3. Agree(a, b, m)
      BY <1>5, <2>2 DEF Agree
    <2>4. m < n
      BY <2>2
    <2>5. QED
      BY <1>4, <2>3, <2>4
  <1>6. ASSUME NEW j \in 1..Len(a), j <= Len(b), a[j] < b[j], Agree(a, b, j - 1)
        PROVE  Sooner(x, y)
    <2>1. j <= n
      <3>1. SUFFICES ASSUME n < j PROVE n <= Len(a) /\ Agree(a, b, n)
        BY <1>1
      <3>2. \A i \in 1..n : i \in 1..(j - 1)
        BY <1>1, <3>1
      <3>3. QED
        BY <1>1, <1>6, <3>1, <3>2 DEF Agree
    <2>2. CASE m < j
      <3>1. m < n /\ \A i \in 1..m : i \in 1..(j - 1)
        BY <1>1, <2>1, <2>2
      <3>2. Agree(a, b, m)
        BY <1>6, <3>1 DEF Agree
      <3>3. QED
        BY <1>4, <3>1, <3>2
    <2>3. CASE j <= m
      <3>1. j \in 1..m /\ j \in 1..n /\ \A i \in 1..(j - 1) : i \in 1..m /\ i \in 1..n
        BY <1>1, <2>1, <2>3
      <3>2. x[j] < y[j] /\ Agree(x, y, j - 1)
        BY <1>2, <1>3, <1>6, <3>1 DEF Agree
      <3>3. QED
        BY <1>2, <1>3, <3>1, <3>2 DEF Sooner
    <2>4. QED
      BY <1>1, <2>2, <2>3
  <1>7. Sooner(x, y)
    <2>1. \/ Len(a) < Len(b) /\ Agree(a, b, Len(a))
          \/ \E j \in 1..Len(a) : j <= Len(b) /\ a[j] < b[j] /\ Agree(a, b, j - 1)
      BY DEF Sooner
    <2>2. QED
      BY <1>5, <1>6, <2>1
  <1>8. QED
    BY <1>7 DEF x, y

\* The sections that the nodes V need.
AllAbove(V) == UNION {Above(v) : v \in V}

\* The sections of nodes that come before p leave a place for those of p.
LEMMA FitsNext ==
  ASSUME NEW c, Config(c), NEW d, NEW V, V \subseteq Nodes(c),
         ToSet(d.sections) = AllAbove(V),
         NEW p \in Nodes(c), \A v \in V : Sooner(WayDown(c, v), WayDown(c, p))
  PROVE  Fits(c, d, p)
  <1> DEFINE S == ToSet(d.sections)
  <1>1. ASSUME NEW v \in V, NEW m \in 1..Len(v)
        PROVE  /\ v \in Nodes(c) /\ v \in Seq(Words) /\ m \in 0..Len(v) /\ SubSeq(v, 1, m) \in Nodes(c)
    <2>1. v \in Nodes(c) /\ v \in Seq(Words)
      BY NodesAre
    <2>2. m \in 0..Len(v)
      BY <2>1
    <2>3. QED
      BY <2>1, <2>2, NodesAbove
  <1>2. S \subseteq Nodes(c)
    <2>1. SUFFICES ASSUME NEW x \in S PROVE x \in Nodes(c)
      OBVIOUS
    <2>2. PICK v \in V : x \in Above(v)
      BY DEF AllAbove
    <2>3. PICK m \in 1..Len(v) : x = SubSeq(v, 1, m)
      BY <2>2 DEF Above
    <2>4. QED
      BY <1>1, <2>3
  <1>3. ASSUME NEW x \in S, NEW q \in Above(p), q \notin S
        PROVE  Sooner(WayDown(c, x), WayDown(c, q))
    <2>1. PICK v \in V : x \in Above(v)
      BY DEF AllAbove
    <2>2. PICK m \in 1..Len(v) : x = SubSeq(v, 1, m)
      BY <2>1 DEF Above
    <2>3. PICK n \in 1..Len(p) : q = SubSeq(p, 1, n)
      BY <1>3 DEF Above
    <2> DEFINE a == WayDown(c, v)
               b == WayDown(c, p)
    <2>4. v \in Nodes(c) /\ v \in Seq(Words) /\ p \in Seq(Words)
      BY <1>1, NodesAre
    <2>5. a \in Seq(Nat \ {0}) /\ Len(a) = Len(v) /\ b \in Seq(Nat \ {0}) /\ Len(b) = Len(p)
      BY <2>4, WayIs
    <2>6. m \in 0..Len(v) /\ n \in 0..Len(p) /\ n \in Nat /\ n # 0
      BY <2>4
    <2>7. WayDown(c, x) = SubSeq(a, 1, m)
      BY <2>2, <2>4, <2>6, WayAbove
    <2>8. WayDown(c, q) = SubSeq(b, 1, n)
      BY <2>3, <2>6, WayAbove
    <2>9. ~(n <= Len(a) /\ Agree(a, b, n))
      <3>1. SUFFICES ASSUME n <= Len(v), Agree(a, b, n) PROVE FALSE
        BY <2>5
      <3>2. \A j \in 1..n : WayDown(c, v)[j] = WayDown(c, p)[j]
        BY <3>1 DEF Agree
      <3>3. n <= Len(p)
        BY <2>6
      <3>4. SubSeq(v, 1, n) = SubSeq(p, 1, n)
        BY <2>4, <2>6, <3>1, <3>2, <3>3, Follow
      <3>5. n \in 1..Len(v)
        BY <2>4, <2>6, <3>1
      <3>6. q \in Above(v)
        BY <2>3, <3>4, <3>5 DEF Above
      <3>7. QED
        BY <1>3, <3>6 DEF AllAbove
    <2>10. Sooner(a, b)
      OBVIOUS
    <2> HIDE DEF a, b
    <2>11. m \in 0..Len(a) /\ n \in 0..Len(b)
      BY <2>5, <2>6
    <2>12. Sooner(SubSeq(a, 1, m), SubSeq(b, 1, n))
      BY <2>5, <2>9, <2>10, <2>11, BeginningsInOrder
    <2>13. QED
      BY <2>7, <2>8, <2>12
  <1>4. QED
    BY <1>2, <1>3 DEF Fits

\* The order of the ranks is that of the walk.
LEMMA RanksInOrder ==
  ASSUME NEW c, Config(c), NEW p \in Nodes(c), NEW q \in Nodes(c)
  PROVE  Cardinality(Sooners(c, p)) < Cardinality(Sooners(c, q))
           <=> Sooner(WayDown(c, p), WayDown(c, q))
  <1> DEFINE S == Nodes(c)
             w(x) == WayDown(c, x)
             B(x) == Sooners(c, x)
  <1>1. IsFiniteSet(S)
    BY NodesFinite
  <1>2. \A x \in S : w(x) \in Seq(Nat \ {0})
    BY WayIs
  <1>3. ASSUME NEW x \in S, NEW y \in S, Sooner(w(x), w(y))
        PROVE  Cardinality(B(x)) < Cardinality(B(y))
    <2>1. B(x) \subseteq B(y)
      <3>1. SUFFICES ASSUME NEW z \in S, Sooner(w(z), w(x)) PROVE Sooner(w(z), w(y))
        BY DEF Sooners
      <3>2. w(z) \in Seq(Nat \ {0}) /\ w(x) \in Seq(Nat \ {0}) /\ w(y) \in Seq(Nat \ {0})
        BY <1>2
      <3> HIDE DEF w
      <3>3. QED
        BY <1>3, <3>1, <3>2, SoonerOn
    <2>2. x \in B(y)
      BY <1>3 DEF Sooners
    <2>3. x \notin B(x)
      <3>1. w(x) \in Seq(Nat \ {0})
        BY <1>2
      <3>2. ~Sooner(w(x), w(x))
        BY <3>1, NotSooner
      <3>3. QED
        BY <3>2 DEF Sooners
    <2>4. B(x) \subseteq S /\ B(y) \subseteq S
      BY DEF Sooners
    <2> HIDE DEF B, S
    <2>5. IsFiniteSet(B(y)) /\ IsFiniteSet(B(x))
      BY <1>1, <2>4, FS_Subset
    <2>6. Cardinality(B(x)) <= Cardinality(B(y)) /\ Cardinality(B(y)) # Cardinality(B(x))
      <3>1. B(x) # B(y)
        BY <2>2, <2>3
      <3>2. QED
        BY <2>1, <2>5, <3>1, FS_Subset
    <2>7. Cardinality(B(x)) \in Nat /\ Cardinality(B(y)) \in Nat
      BY <2>5, FS_CardinalityType
    <2>8. QED
      BY <2>6, <2>7
  <1>4. Cardinality(B(p)) \in Nat /\ Cardinality(B(q)) \in Nat
    <2>1. B(p) \subseteq S /\ B(q) \subseteq S
      BY DEF Sooners
    <2>2. IsFiniteSet(B(p)) /\ IsFiniteSet(B(q))
      BY <1>1, <2>1, FS_Subset
    <2>3. QED
      BY <2>2, FS_CardinalityType
  <1>5. p \in S /\ q \in S
    OBVIOUS
  <1>6. CASE p = q
    <2>1. w(p) \in Seq(Nat \ {0})
      BY <1>2
    <2>2. ~Sooner(w(p), w(p))
      BY <2>1, NotSooner
    <2>3. ~(Cardinality(B(p)) < Cardinality(B(p)))
      BY <1>4
    <2>4. QED
      BY <1>6, <2>2, <2>3
  <1>7. CASE p # q
    <2>1. w(p) # w(q)
      BY <1>7, WayFinds
    <2>2. w(p) \in Seq(Nat \ {0}) /\ w(q) \in Seq(Nat \ {0})
      BY <1>2
    <2> HIDE DEF w, B, S
    <2>3. Sooner(w(p), w(q)) \/ Sooner(w(q), w(p))
      BY <2>1, <2>2, SoonerOrLater
    <2>4. Sooner(w(p), w(q)) => Cardinality(B(p)) < Cardinality(B(q))
      BY <1>3, <1>5
    <2>5. Sooner(w(q), w(p)) => Cardinality(B(q)) < Cardinality(B(p))
      BY <1>3, <1>5
    <2>6. Sooner(w(q), w(p)) => ~(Cardinality(B(p)) < Cardinality(B(q)))
      BY <1>4, <2>5
    <2>7. Cardinality(B(p)) < Cardinality(B(q)) <=> Sooner(w(p), w(q))
      BY <2>3, <2>4, <2>6
    <2>8. QED
      BY <2>7 DEF w, B
  <1>8. QED
    BY <1>6, <1>7

\* A heading is read.
LEMMA HeadingRead ==
  ASSUME NEW a, a = [status |-> a.status, section |-> a.section, conf |-> a.conf],
         a.status = 0, NEW line, line.kind = "section"
  PROVE  ParseLine(a, line).section = line.name /\ ParseLine(a, line).conf = a.conf
  <1>1. ParseLine(a, line) = [a EXCEPT !.section = line.name]
    BY DEF ParseLine
  <1>2. [a EXCEPT !.section = line.name] = [status |-> a.status, section |-> line.name, conf |-> a.conf]
    OBVIOUS
  <1>3. QED
    BY <1>1, <1>2

\* The line that was written of an entry is read.
LEMMA EntryRead ==
  ASSUME NEW a, a = [status |-> a.status, section |-> a.section, conf |-> a.conf],
         a.status = 0, NEW e \in Entry, a.section = Front(e.key),
         WrittenLine(e).kind # "bad", ParseLine(a, WrittenLine(e)).status = 0
  PROVE  LET b == ParseLine(a, WrittenLine(e)) IN
         /\ ~HasProp(a.conf, e.key)
         /\ b.section = a.section /\ b.conf = Insert(a.conf, e.key, e.value)
  <1> DEFINE line == WrittenLine(e)
             key == a.section \o line.name
             b == ParseLine(a, line)
  <1>1. line.kind = "prop" /\ line.name = <<Last(e.key)>> /\ line.value = e.value
    BY WrittenLineIs
  <1>2. e.key \in Seq(Words) \ {<< >>}
    BY DEF Entry
  <1>3. key = e.key
    BY <1>1, <1>2, KeyIs
  <1> HIDE DEF line, key
  <1>4. ~HasProp(a.conf, key)
    <2>1. SUFFICES ASSUME HasProp(a.conf, key) PROVE FALSE
      OBVIOUS
    <2>2. b = [a EXCEPT !.status = 1]
      BY <1>1, <2>1 DEF ParseLine, key
    <2>3. [a EXCEPT !.status = 1] = [status |-> 1, section |-> a.section, conf |-> a.conf]
      OBVIOUS
    <2>4. b.status = 1
      BY <2>2, <2>3
    <2>5. b.status = 0
      BY DEF line
    <2> HIDE DEF b
    <2>6. QED
      BY <2>4, <2>5
  <1>5. b = [a EXCEPT !.conf = Insert(@, key, line.value)]
    BY <1>1, <1>4 DEF ParseLine, key
  <1>6. [a EXCEPT !.conf = Insert(@, key, line.value)]
          = [status |-> a.status, section |-> a.section, conf |-> Insert(a.conf, key, line.value)]
    OBVIOUS
  <1>7. b.section = a.section /\ b.conf = Insert(a.conf, e.key, e.value)
    BY <1>1, <1>3, <1>5, <1>6
  <1>8. QED
    BY <1>3, <1>4, <1>7 DEF line

\* What is read of the text of c when the nodes V have been read.
Reread(c, V, d) ==
  /\ Config(d) /\ InWalk(c, d.sections)
  /\ ToSet(d.sections) = AllAbove(V)
  /\ \A q : EntriesOf(d, q) = IF q \in V THEN EntriesOf(c, q) ELSE << >>

\* The same within the lines of p, after the first j of its entries.
Within(c, V, p, j, d) ==
  /\ Config(d) /\ InWalk(c, d.sections)
  /\ j = 0 => ToSet(d.sections) = AllAbove(V)
  /\ j # 0 => ToSet(d.sections) = AllAbove(V) \cup Above(p)
  /\ \A q : EntriesOf(d, q) =
       IF q = p THEN SubSeq(EntriesOf(c, p), 1, j)
       ELSE IF q \in V THEN EntriesOf(c, q) ELSE << >>

\* One entry more.
LEMMA EntryInserted ==
  ASSUME NEW c, Config(c), NEW V, V \subseteq Nodes(c), NEW p \in Nodes(c),
         \A v \in V : Sooner(WayDown(c, v), WayDown(c, p)),
         NEW j \in Nat, j + 1 \in 1..Len(EntriesOf(c, p)),
         NEW d, Within(c, V, p, j, d),
         ~HasProp(d, EntriesOf(c, p)[j + 1].key)
  PROVE  Within(c, V, p, j + 1,
                Insert(d, EntriesOf(c, p)[j + 1].key, EntriesOf(c, p)[j + 1].value))
  <1> DEFINE E == EntriesOf(c, p)
             e == E[j + 1]
             l == LookupSection(d, p)
             b == Insert(d, e.key, e.value)
  <1>1. E \in Seq(Entry) /\ \A n \in 1..Len(E) : Front(E[n].key) = p
    BY EntriesAll
  <1>2. e \in Entry /\ Front(e.key) = p
    BY <1>1
  <1>3. p \in Seq(Words)
    BY NodesAre
  <1>4. /\ Config(d) /\ InWalk(c, d.sections)
        /\ j = 0 => ToSet(d.sections) = AllAbove(V)
        /\ j # 0 => ToSet(d.sections) = AllAbove(V) \cup Above(p)
    BY DEF Within
  <1>5. e.key \in Seq(Words) \ {<< >>} /\ e.value \in Values
        /\ e = [key |-> e.key, value |-> e.value]
    BY <1>2 DEF Entry
  <1>6. Config(b) /\ b.entries = Append(d.entries, e)
    <2>1. ~HasProp(d, e.key)
      OBVIOUS
    <2> HIDE DEF e
    <2>2. Config(Insert(d, e.key, e.value))
          /\ Insert(d, e.key, e.value).entries = Append(d.entries, [key |-> e.key, value |-> e.value])
      BY <1>4, <1>5, <2>1, InsertKeeps
    <2>3. QED
      BY <1>5, <2>2
  <1>7. b.sections = l.sections
    <2>1. Config(l)
      BY <1>3, <1>4, LookupKeeps
    <2>2. l = [sections |-> l.sections, entries |-> l.entries]
      BY <2>1 DEF Config
    <2>3. b = [l EXCEPT !.entries = Append(@, [key |-> e.key, value |-> e.value])]
      BY <1>2 DEF Insert
    <2> HIDE DEF l, b, e
    <2>4. QED
      BY <2>2, <2>3
  <1>8. Fits(c, d, p)
    <2>1. CASE j = 0
      <3>1. ToSet(d.sections) = AllAbove(V)
        BY <1>4, <2>1
      <3>2. QED
        BY <3>1, FitsNext
    <2>2. CASE j # 0
      <3>1. Above(p) \subseteq ToSet(d.sections)
        BY <1>4, <2>2
      <3>2. ToSet(d.sections) = AllAbove(V) \cup Above(p)
        BY <1>4, <2>2
      <3>3. ASSUME NEW v \in Nodes(c) PROVE Above(v) \subseteq Nodes(c)
        <4>1. v \in Seq(Words)
          BY NodesAre
        <4>2. SUFFICES ASSUME NEW m \in 1..Len(v) PROVE SubSeq(v, 1, m) \in Nodes(c)
          BY DEF Above
        <4>3. m \in 0..Len(v)
          BY <4>1
        <4>4. QED
          BY <4>3, NodesAbove
      <3>4. AllAbove(V) \subseteq Nodes(c) /\ Above(p) \subseteq Nodes(c)
        BY <3>3 DEF AllAbove
      <3>5. QED
        BY <3>1, <3>2, <3>4 DEF Fits
    <2>3. QED
      BY <2>1, <2>2
  <1>9. InWalk(c, l.sections) /\ ToSet(l.sections) = ToSet(d.sections) \cup Above(p)
    BY <1>4, <1>8, LookupFits
  <1>10. ToSet(b.sections) = AllAbove(V) \cup Above(p) /\ InWalk(c, b.sections)
    <2>1. ToSet(d.sections) \cup Above(p) = AllAbove(V) \cup Above(p)
      BY <1>4
    <2> HIDE DEF b, l
    <2>2. QED
      BY <1>7, <1>9, <2>1
  <1>11. ASSUME NEW q
         PROVE  EntriesOf(b, q) = IF q = p THEN SubSeq(E, 1, j + 1)
                                  ELSE IF q \in V THEN EntriesOf(c, q) ELSE << >>
    <2>1. EntriesOf(b, q) = IF Front(e.key) = q THEN Append(EntriesOf(d, q), e) ELSE EntriesOf(d, q)
      <3> HIDE DEF b, e
      <3>1. Config(d) /\ e \in Entry /\ b.entries = Append(d.entries, e)
        BY <1>2, <1>4, <1>6
      <3>2. Gains(d, b, e)
        BY <3>1, EntriesOneMore
      <3>3. QED
        BY <3>2 DEF Gains
    <2>2. EntriesOf(d, q) = IF q = p THEN SubSeq(E, 1, j)
                            ELSE IF q \in V THEN EntriesOf(c, q) ELSE << >>
      BY DEF Within
    <2>3. Append(SubSeq(E, 1, j), E[j + 1]) = SubSeq(E, 1, j + 1)
      <3>1. E \in Seq(Entry) /\ j \in 0..Len(E) /\ j + 1 \in 0..Len(E) /\ j + 1 \in 1..Len(E)
        BY <1>1
      <3> HIDE DEF E
      <3> DEFINE x == SubSeq(E, 1, j)
                 y == SubSeq(E, 1, j + 1)
                 z == E[j + 1]
      <3>2. x \in Seq(Entry) /\ Len(x) = j /\ \A i \in 1..j : x[i] = E[i]
        BY <3>1, Beginning
      <3>3. y \in Seq(Entry) /\ Len(y) = j + 1 /\ \A i \in 1..j + 1 : y[i] = E[i]
        BY <3>1, Beginning
      <3>4. z \in Entry
        BY <3>1
      <3> HIDE DEF x, y
      <3>5. /\ Append(x, z) \in Seq(Entry) /\ Len(Append(x, z)) = j + 1
            /\ \A i \in 1..j : Append(x, z)[i] = x[i]
            /\ Append(x, z)[j + 1] = z
        <4> HIDE DEF z
        <4>1. QED
          BY <3>2, <3>4
      <3>6. \A i \in 1..j + 1 : Append(x, z)[i] = y[i]
        <4>1. \A i \in 1..j + 1 : i \in 1..j \/ i = j + 1
          OBVIOUS
        <4>2. QED
          BY <3>2, <3>3, <3>5, <4>1
      <3> DEFINE u == Append(x, z)
      <3> HIDE DEF u
      <3>7. u = y
        BY <3>3, <3>5, <3>6, SameElements DEF u
      <3>8. QED
        BY <3>7 DEF u, x, y, z
    <2> HIDE DEF b, E
    <2>4. QED
      BY <1>2, <2>1, <2>2, <2>3
  <1>12. Within(c, V, p, j + 1, b)
    <2>1. j + 1 # 0
      OBVIOUS
    <2>2. ToSet(b.sections) = AllAbove(V) \cup Above(p)
      BY <1>10
    <2>3. \A q : EntriesOf(b, q) = IF q = p THEN SubSeq(EntriesOf(c, p), 1, j + 1)
                                   ELSE IF q \in V THEN EntriesOf(c, q) ELSE << >>
      BY <1>11
    <2> HIDE DEF b, E
    <2>4. QED
      BY <1>6, <1>10, <2>1, <2>2, <2>3 DEF Within
  <1>13. QED
    BY <1>12

\* From the k-th line on, f has the lines of the section p with the entries E.
HasBlock(f, p, E, k, h) ==
  /\ k \in Nat /\ h = (IF p = << >> THEN 0 ELSE 1) /\ k + h + Len(E) <= Len(f)
  /\ p # << >> => f[k + 1].kind = "section" /\ f[k + 1].name = p
  /\ \A j \in 1..Len(E) : f[k + h + j] = WrittenLine(E[j])

\* All lines of a clear file are read.
LEMMA AllRead ==
  ASSUME NEW f \in Seq(Lines), IsClear(f), NEW pa, Reads(f, pa), NEW n \in 0..Len(f)
  PROVE  pa[n] = [status |-> pa[n].status, section |-> pa[n].section, conf |-> pa[n].conf]
         /\ pa[n].status = 0 /\ Config(pa[n].conf)
  <1>1. ReadTo(f, n, pa[n])
    BY DEF Reads
  <1>2. ClearTo(f, n)
    <2>1. \A i \in 1..n : i \in DOMAIN f
      OBVIOUS
    <2>2. QED
      BY <2>1 DEF IsClear, ClearTo
  <1>3. QED
    BY <1>1, <1>2 DEF ReadTo

\* The lines of a section are read: first its heading, if it has one,
LEMMA StartReread ==
  ASSUME NEW c, Config(c), NEW V, NEW p \in Nodes(c), p \notin V,
         NEW f \in Seq(Lines), IsClear(f), NEW pa, Reads(f, pa),
         NEW k, NEW h, HasBlock(f, p, EntriesOf(c, p), k, h),
         Reread(c, V, pa[k].conf), p = << >> => pa[k].section = << >>
  PROVE  Within(c, V, p, 0, pa[k + h].conf) /\ pa[k + h].section = p
  <1> DEFINE E == EntriesOf(c, p)
  <1>1. E \in Seq(Entry) /\ Len(E) \in Nat
    BY EntriesAll
  <1>2. SubSeq(E, 1, 0) = << >>
    BY <1>1
  <1>3. /\ k \in Nat /\ h = (IF p = << >> THEN 0 ELSE 1) /\ k + h + Len(E) <= Len(f)
        /\ p # << >> => f[k + 1].kind = "section" /\ f[k + 1].name = p
    BY DEF HasBlock
  <1>4. ASSUME NEW d, d = pa[k].conf PROVE Within(c, V, p, 0, d)
    <2>1. Reread(c, V, d)
      BY <1>4
    <2>2. \A q : EntriesOf(d, q) = IF q = p THEN SubSeq(EntriesOf(c, p), 1, 0)
                                   ELSE IF q \in V THEN EntriesOf(c, q) ELSE << >>
      BY <1>2, <2>1 DEF Reread
    <2>3. QED
      BY <2>1, <2>2 DEF Reread, Within
  <1>5. CASE p = << >>
    <2>1. k + h = k
      BY <1>3, <1>5
    <2>2. QED
      BY <1>4, <1>5, <2>1
  <1>6. CASE p # << >>
    <2> DEFINE a == pa[k]
               b == pa[k + 1]
    <2>1. Len(f) \in Nat
      OBVIOUS
    <2>2. k + h = k + 1 /\ k + 1 \in 1..Len(f) /\ (k + 1) - 1 = k /\ k \in 0..Len(f)
      BY <1>1, <1>3, <1>6, <2>1
    <2>3. b = ParseLine(a, f[k + 1])
      BY <2>2 DEF Reads
    <2>4. a = [status |-> a.status, section |-> a.section, conf |-> a.conf] /\ a.status = 0
      BY <2>2, AllRead
    <2> DEFINE line == f[k + 1]
    <2>5. line.kind = "section" /\ line.name = p
      BY <1>3, <1>6
    <2>6. b = ParseLine(a, line)
      BY <2>3
    <2> HIDE DEF line, a, b
    <2>7. b.section = p /\ b.conf = a.conf
      BY <2>4, <2>5, <2>6, HeadingRead
    <2>8. Within(c, V, p, 0, a.conf)
      BY <1>4 DEF a
    <2>9. QED
      BY <2>2, <2>7, <2>8 DEF b
  <1>7. QED
    BY <1>5, <1>6

\* then its entries.
Rereads(c, V, p, f, pa) ==
  /\ Config(c) /\ V \subseteq Nodes(c) /\ p \in Nodes(c)
  /\ \A v \in V : Sooner(WayDown(c, v), WayDown(c, p))
  /\ f \in Seq(Lines) /\ IsClear(f) /\ Reads(f, pa)

LEMMA NextReread ==
  ASSUME NEW c, NEW V, NEW p, NEW f, NEW pa, Rereads(c, V, p, f, pa),
         NEW n \in Nat, n + 1 \in 1..Len(f),
         NEW j \in Nat, j + 1 \in 1..Len(EntriesOf(c, p)),
         f[n + 1] = WrittenLine(EntriesOf(c, p)[j + 1]),
         Within(c, V, p, j, pa[n].conf), pa[n].section = p
  PROVE  Within(c, V, p, j + 1, pa[n + 1].conf) /\ pa[n + 1].section = p
  <1> DEFINE E == EntriesOf(c, p)
             e == E[j + 1]
             a == pa[n]
             b == pa[n + 1]
  <1> /\ Config(c) /\ V \subseteq Nodes(c) /\ p \in Nodes(c)
      /\ \A v \in V : Sooner(WayDown(c, v), WayDown(c, p))
      /\ f \in Seq(Lines) /\ IsClear(f) /\ Reads(f, pa)
    BY DEF Rereads
  <1>1. E \in Seq(Entry) /\ \A i \in 1..Len(E) : Front(E[i].key) = p
    BY EntriesAll
  <1>2. e \in Entry /\ Front(e.key) = p
    BY <1>1
  <1>3. n \in 0..Len(f) /\ n + 1 \in 0..Len(f) /\ (n + 1) - 1 = n /\ n + 1 \in DOMAIN f
    OBVIOUS
  <1>4. b = ParseLine(a, WrittenLine(e))
    BY <1>3 DEF Reads
  <1>5. a = [status |-> a.status, section |-> a.section, conf |-> a.conf] /\ a.status = 0
    BY <1>3, AllRead
  <1>6. b.status = 0
    BY <1>3, AllRead
  <1>7. WrittenLine(e).kind # "bad"
    BY <1>3 DEF IsClear
  <1>8. a.section = Front(e.key)
    BY <1>2
  <1>9. ~HasProp(a.conf, e.key) /\ b.section = a.section /\ b.conf = Insert(a.conf, e.key, e.value)
    <2> HIDE DEF a, b, e
    <2>1. ParseLine(a, WrittenLine(e)).status = 0
      BY <1>4, <1>6
    <2>2. QED
      BY <1>2, <1>4, <1>5, <1>7, <1>8, <2>1, EntryRead
  <1>10. Within(c, V, p, j + 1, Insert(a.conf, e.key, e.value))
    <2> DEFINE d == a.conf
    <2>1. Within(c, V, p, j, d) /\ ~HasProp(d, EntriesOf(c, p)[j + 1].key)
      BY <1>9
    <2> HIDE DEF d
    <2>2. Within(c, V, p, j + 1,
                 Insert(d, EntriesOf(c, p)[j + 1].key, EntriesOf(c, p)[j + 1].value))
      BY <2>1, EntryInserted
    <2>3. QED
      BY <2>2 DEF d
  <1>11. QED
    BY <1>9, <1>10

\* So the section with its entries is read.
LEMMA BlockReread ==
  ASSUME NEW c, NEW V, NEW p, NEW f, NEW pa, Rereads(c, V, p, f, pa), EntriesOf(c, p) # << >>,
         NEW k, NEW h, HasBlock(f, p, EntriesOf(c, p), k, h),
         Reread(c, V, pa[k].conf), p = << >> => pa[k].section = << >>
  PROVE  Reread(c, V \cup {p}, pa[k + h + Len(EntriesOf(c, p))].conf)
  <1> DEFINE E == EntriesOf(c, p)
             N == Len(E)
             l == k + h
             I(j) == Within(c, V, p, j, pa[l + j].conf) /\ pa[l + j].section = p
  <1> /\ Config(c) /\ p \in Nodes(c) /\ \A v \in V : Sooner(WayDown(c, v), WayDown(c, p))
      /\ f \in Seq(Lines) /\ IsClear(f) /\ Reads(f, pa)
    BY DEF Rereads
  <1>1. p \notin V
    <2>1. WayDown(c, p) \in Seq(Nat \ {0})
      BY WayIs
    <2>2. QED
      BY <2>1, NotSooner
  <1>2. E \in Seq(Entry) /\ N \in Nat /\ N # 0
    BY EntriesAll
  <1>3. l \in Nat /\ l + N <= Len(f) /\ \A j \in 1..N : f[l + j] = WrittenLine(E[j])
    BY <1>2 DEF HasBlock
  <1>4. Within(c, V, p, 0, pa[l].conf) /\ pa[l].section = p
    BY <1>1, StartReread
  <1> HIDE DEF l
  <1> DEFINE P == {j \in Nat : j <= N => I(j)}
  <1>5. 0 \in P
    <2>1. l + 0 = l
      BY <1>3
    <2>2. QED
      BY <1>4, <2>1
  <1>6. ASSUME NEW j \in Nat, j \in P PROVE j + 1 \in P
    <2>1. SUFFICES ASSUME j + 1 <= N PROVE I(j + 1)
      OBVIOUS
    <2> DEFINE n == l + j
    <2>2. /\ n \in Nat /\ n + 1 = l + (j + 1) /\ n + 1 \in 1..Len(f) /\ j + 1 \in 1..N /\ j <= N
      BY <1>2, <1>3, <2>1
    <2>3. Within(c, V, p, j, pa[n].conf) /\ pa[n].section = p
      BY <1>6, <2>2
    <2>4. f[n + 1] = WrittenLine(E[j + 1])
      BY <1>3, <2>2
    <2> HIDE DEF n
    <2>5. Within(c, V, p, j + 1, pa[n + 1].conf) /\ pa[n + 1].section = p
      <3>1. n \in Nat /\ n + 1 \in 1..Len(f) /\ j + 1 \in 1..Len(EntriesOf(c, p))
        BY <2>2
      <3>2. f[n + 1] = WrittenLine(EntriesOf(c, p)[j + 1])
        BY <2>4
      <3> HIDE DEF P, I, E, N
      <3>3. QED
        BY <2>3, <3>1, <3>2, NextReread
    <2>6. QED
      BY <2>2, <2>5
  <1>7. N \in P
    <2> HIDE DEF P
    <2>1. QED
      BY <1>2, <1>5, <1>6, Induction
  <1> DEFINE d == pa[l + N].conf
  <1>8. Within(c, V, p, N, d)
    BY <1>2, <1>7
  <1> HIDE DEF d
  <1>9. SubSeq(E, 1, N) = E
    BY <1>2
  <1>10. Reread(c, V \cup {p}, d)
    <2>1. Config(d) /\ InWalk(c, d.sections) /\ ToSet(d.sections) = AllAbove(V) \cup Above(p)
      BY <1>2, <1>8 DEF Within
    <2>2. AllAbove(V \cup {p}) = AllAbove(V) \cup Above(p)
      BY DEF AllAbove
    <2>3. \A q : EntriesOf(d, q) = IF q = p THEN E ELSE IF q \in V THEN EntriesOf(c, q) ELSE << >>
      BY <1>8, <1>9 DEF Within
    <2>4. \A q : EntriesOf(d, q) = IF q \in V \cup {p} THEN EntriesOf(c, q) ELSE << >>
      BY <2>3
    <2>5. QED
      BY <2>1, <2>2, <2>4 DEF Reread
  <1>11. QED
    BY <1>10 DEF d, l

\* The nodes with entries among the first k of the walk.
Full(c, k) == {p \in Nodes(c) : EntriesOf(c, p) # << >> /\ Cardinality(Sooners(c, p)) < k}

LEMMA FullNext ==
  ASSUME NEW c, Config(c), NEW k \in Nat, k + 1 \in 1..Cardinality(Nodes(c)),
         NEW p, p = DepthFirst(c)[k + 1]
  PROVE  /\ p \in Nodes(c) /\ Full(c, k) \subseteq Nodes(c)
         /\ \A v \in Full(c, k) : Sooner(WayDown(c, v), WayDown(c, p))
         /\ Full(c, k + 1) = IF EntriesOf(c, p) = << >> THEN Full(c, k) ELSE Full(c, k) \cup {p}
         /\ p = << >> => k = 0
  <1> DEFINE r(q) == Cardinality(Sooners(c, q))
  <1>1. p \in Nodes(c) /\ r(p) = k
    <2>1. (k + 1) - 1 = k
      OBVIOUS
    <2>2. QED
      BY <2>1, RanksAreTaken
  <1>2. \A q \in Nodes(c) : r(q) \in Nat
    BY RankInRange
  <1>3. \A q \in Nodes(c) : r(q) = k => q = p
    BY <1>1, RanksDiffer
  <1>4. Full(c, k) \subseteq Nodes(c)
    BY DEF Full
  <1>5. ASSUME NEW v \in Full(c, k) PROVE Sooner(WayDown(c, v), WayDown(c, p))
    <2>1. v \in Nodes(c) /\ r(v) < r(p)
      BY <1>1 DEF Full
    <2>2. QED
      BY <1>1, <2>1, RanksInOrder
  <1>6. \A q \in Nodes(c) : r(q) < k + 1 <=> r(q) < k \/ q = p
    <2>1. SUFFICES ASSUME NEW q \in Nodes(c) PROVE r(q) < k + 1 <=> r(q) < k \/ r(q) = k
      BY <1>1, <1>3
    <2>2. r(q) \in Nat
      BY <1>2
    <2> HIDE DEF r
    <2>3. QED
      BY <2>2
  <1>7. p = << >> => k = 0
    <2>1. SUFFICES ASSUME p = << >> PROVE Sooners(c, p) = {}
      BY <1>1, FS_EmptySet
    <2>2. SUFFICES ASSUME NEW q \in Nodes(c), Sooner(WayDown(c, q), WayDown(c, p)) PROVE FALSE
      BY DEF Sooners
    <2>3. /\ Len(p) = 0 /\ Len(WayDown(c, p)) = 0
          /\ Len(WayDown(c, q)) \in Nat
      <3>1. Len(p) = 0
        BY <2>1
      <3>2. Len(WayDown(c, p)) = Len(p) /\ WayDown(c, q) \in Seq(Nat \ {0})
        BY <1>1, WayIs
      <3>3. QED
        BY <3>1, <3>2
    <2>4. QED
      BY <2>2, <2>3 DEF Sooner
  <1>8. Full(c, k + 1) = IF EntriesOf(c, p) = << >> THEN Full(c, k) ELSE Full(c, k) \cup {p}
    <2>1. Full(c, k) = {q \in Nodes(c) : EntriesOf(c, q) # << >> /\ r(q) < k}
      BY DEF Full
    <2>2. Full(c, k + 1) = {q \in Nodes(c) : EntriesOf(c, q) # << >> /\ r(q) < k + 1}
      BY DEF Full
    <2> HIDE DEF r
    <2>3. QED
      BY <1>1, <1>6, <2>1, <2>2
  <1>9. QED
    BY <1>1, <1>4, <1>5, <1>7, <1>8

\* A text with more lines has them where they were written.
LEMMA BlockStands ==
  ASSUME NEW c, Config(c), NEW p \in Nodes(c), EntriesOf(c, p) # << >>,
         NEW t \in Seq(Lines), NEW f \in Seq(Lines), IsPrefix(t \o NodeLines(c, p), f),
         NEW h, h = IF p = << >> THEN 0 ELSE 1
  PROVE  /\ HasBlock(f, p, EntriesOf(c, p), Len(t), h)
         /\ Len(t \o NodeLines(c, p)) = Len(t) + h + Len(EntriesOf(c, p))
  <1> DEFINE E == EntriesOf(c, p)
             n == Len(t)
             g == t \o NodeLines(c, p)
             m == Len(E)
  <1>1. E \in Seq(Entry) /\ m \in Nat /\ n \in Nat
    BY EntriesAll
  <1>2. p \in Seq(Words)
    BY NodesAre
  <1>3. Follows(t, p, E, g)
    BY <1>2, NodeFollows
  <1>4. /\ g \in Seq(Lines) /\ Len(g) = n + h + m
        /\ p # << >> => g[n + 1].kind = "section" /\ g[n + 1].name = p
        /\ \A j \in 1..m : g[n + h + j] = WrittenLine(E[j])
    BY <1>3 DEF Follows
  <1>5. IsPrefix(g, f)
    OBVIOUS
  <1> HIDE DEF g, n, m, E
  <1>6. Len(g) <= Len(f) /\ \A i \in 1..Len(g) : g[i] = f[i]
    BY <1>4, <1>5, PrefixIs
  <1>7. h \in {0, 1} /\ (p # << >> => h = 1)
    OBVIOUS
  <1>8. p # << >> => n + 1 \in 1..Len(g)
    BY <1>1, <1>4, <1>7
  <1>9. \A j \in 1..m : n + h + j \in 1..Len(g)
    BY <1>1, <1>4, <1>7
  <1>10. HasBlock(f, p, E, n, h)
    <2>1. n + h + m <= Len(f)
      BY <1>4, <1>6
    <2>2. \A j \in 1..m : f[n + h + j] = WrittenLine(E[j])
      BY <1>4, <1>6, <1>9
    <2>3. p # << >> => f[n + 1].kind = "section" /\ f[n + 1].name = p
      BY <1>4, <1>6, <1>8
    <2>4. QED
      BY <1>1, <2>1, <2>2, <2>3 DEF HasBlock, m
  <1>11. QED
    BY <1>4, <1>10 DEF g, n, m, E

\* So the parser, when it has read the text, has all sections and entries again.
LEMMA TextReread ==
  ASSUME NEW c, Config(c), Text(c) \in Seq(Lines), IsClear(Text(c))
  PROVE  Reread(c, Full(c, Cardinality(Nodes(c))), Parse(Text(c)).conf)
  <1> DEFINE f == Text(c)
             N == Cardinality(Nodes(c))
             D == DepthFirst(c)
  <1>1. N \in Nat
    BY NodesFinite
  <1>2. PICK acc : Composes(c, acc)
    BY TextComposes
  <1>3. /\ acc[0] = << >> /\ acc[N] = f
        /\ \A n \in 1..N : acc[n] = TextWith(c, acc[n - 1], D[n])
    BY <1>2 DEF Composes
  <1>4. \A n \in 0..N : acc[n] \in Seq(Lines) /\ IsPrefix(acc[n], f)
    BY <1>2, TextSoFar
  <1>5. f \in Seq(Lines) /\ IsClear(f)
    OBVIOUS
  <1> HIDE DEF f
  <1>6. PICK pa : Reads(f, pa)
    BY <1>5, ParseGoesOn
  <1>7. pa[0] = Base /\ pa[Len(f)] = Parse(f)
    BY <1>6 DEF Reads
  <1> HIDE DEF N, D
  <1> DEFINE I(k) == Reread(c, Full(c, k), pa[Len(acc[k])].conf)
             P == {k \in Nat : k <= N => I(k)}
  <1>8. 0 \in P
    <2> DEFINE d == pa[Len(acc[0])].conf
    <2>1. d = NoConfig
      BY <1>3, <1>7 DEF Base
    <2>2. Full(c, 0) = {}
      <3>1. SUFFICES ASSUME NEW p \in Nodes(c), Cardinality(Sooners(c, p)) < 0 PROVE FALSE
        BY DEF Full
      <3>2. Cardinality(Sooners(c, p)) \in Nat
        BY RankInRange
      <3>3. QED
        BY <3>1, <3>2
    <2>3. Config(d) /\ d.sections = << >> /\ d.entries = << >>
      BY <2>1, Idle DEF NoConfig
    <2> HIDE DEF d
    <2>4. InWalk(c, d.sections) /\ ToSet(d.sections) = AllAbove({})
      BY <2>3 DEF InWalk, ToSet, AllAbove
    <2>5. \A q : EntriesOf(d, q) = << >>
      <3> SUFFICES ASSUME NEW q PROVE EntriesOf(d, q) = << >>
        OBVIOUS
      <3> DEFINE E == EntriesOf(d, q)
      <3>1. /\ E \in Seq(Entry)
            /\ \A n \in 1..Len(E) : \E k \in 1..Len(d.entries) : E[n] = d.entries[k]
        BY <2>3, EntriesAll
      <3>2. Len(d.entries) = 0 /\ Len(E) \in Nat
        BY <2>3, <3>1
      <3> HIDE DEF E
      <3>3. Len(E) = 0
        BY <3>1, <3>2
      <3>4. E = << >>
        BY <3>1, <3>3
      <3>5. QED
        BY <3>4 DEF E
    <2>6. Reread(c, {}, d)
      BY <2>3, <2>4, <2>5 DEF Reread
    <2>7. QED
      BY <2>2, <2>6 DEF d
  <1>9. ASSUME NEW k \in Nat, k \in P PROVE k + 1 \in P
    <2>1. SUFFICES ASSUME k + 1 <= N PROVE I(k + 1)
      OBVIOUS
    <2> DEFINE t == acc[k]
               p == D[k + 1]
               V == Full(c, k)
               h == IF p = << >> THEN 0 ELSE 1
    <2>2. k + 1 \in 1..N /\ (k + 1) - 1 = k /\ k <= N /\ k \in 0..N /\ k + 1 \in 0..N
      BY <1>1, <2>1
    <2>3. Reread(c, V, pa[Len(t)].conf)
      BY <1>9, <2>2
    <2>4. t \in Seq(Lines) /\ IsPrefix(acc[k + 1], f) /\ acc[k + 1] = TextWith(c, t, p)
      BY <1>3, <1>4, <2>2
    <2>5. /\ p \in Nodes(c) /\ V \subseteq Nodes(c)
          /\ \A v \in V : Sooner(WayDown(c, v), WayDown(c, p))
          /\ Full(c, k + 1) = IF EntriesOf(c, p) = << >> THEN V ELSE V \cup {p}
          /\ p = << >> => k = 0
      BY <2>2, FullNext DEF N, D
    <2>6. p = << >> => pa[Len(t)].section = << >>
      BY <1>3, <1>7, <2>5 DEF Base
    <2> HIDE DEF t, p, V
    <2>7. CASE EntriesOf(c, p) = << >>
      <3>1. acc[k + 1] = t
        BY <2>4, <2>7 DEF TextWith
      <3>2. QED
        BY <2>3, <2>5, <2>7, <3>1
    <2>8. CASE EntriesOf(c, p) # << >>
      <3>1. acc[k + 1] = t \o NodeLines(c, p)
        BY <2>4, <2>8 DEF TextWith
      <3>2. IsPrefix(t \o NodeLines(c, p), f)
        BY <2>4, <3>1
      <3>3. HasBlock(f, p, EntriesOf(c, p), Len(t), h)
            /\ Len(t \o NodeLines(c, p)) = Len(t) + h + Len(EntriesOf(c, p))
        BY <1>5, <2>4, <2>5, <2>8, <3>2, BlockStands
      <3>4. Rereads(c, V, p, f, pa)
        BY <1>5, <1>6, <2>5 DEF Rereads
      <3> DEFINE n == Len(t)
      <3>5. HasBlock(f, p, EntriesOf(c, p), n, h) /\ Reread(c, V, pa[n].conf)
            /\ (p = << >> => pa[n].section = << >>)
        BY <2>3, <2>6, <3>3
      <3> HIDE DEF h, n
      <3>6. Reread(c, V \cup {p}, pa[n + h + Len(EntriesOf(c, p))].conf)
        BY <2>8, <3>4, <3>5, BlockReread
      <3>7. QED
        BY <2>5, <2>8, <3>1, <3>3, <3>6 DEF n
    <2>9. QED
      BY <2>7, <2>8
  <1>10. N \in P
    <2> HIDE DEF P
    <2>1. QED
      BY <1>1, <1>8, <1>9, Induction
  <1>11. QED
    BY <1>1, <1>3, <1>7, <1>10 DEF N, f

\* The children of a section are in the order in which they were made.
LEMMA ChildrenInOrder ==
  ASSUME NEW c, Config(c), NEW path, NEW m \in 1..Len(Children(c, path)),
         NEW n \in 1..Len(Children(c, path)), m < n
  PROVE  \E i, j \in 1..Len(c.sections) :
           i < j /\ c.sections[i] = Children(c, path)[m] /\ c.sections[j] = Children(c, path)[n]
  <1> DEFINE s == c.sections
             T == Seq(Words) \ {<< >>}
             D == {i \in DOMAIN s : s[i] # << >> /\ Front(s[i]) = path}
             K == Children(c, path)
  <1>1. s \in Seq(T)
    BY DEF Config, Nested
  <1>2. K = AtPlaces(s, D)
    BY DEF Children
  <1>3. m \in 1..Len(K) /\ n \in 1..Len(K)
    OBVIOUS
  <1> HIDE DEF s, T, D, K
  <1>4. PICK at : Picked(s, T, D, AtPlaces(s, D), Len(s), at)
    BY <1>1, AtPlacesAre
  <1>5. /\ at \in [1..Len(K) -> 1..Len(s)]
        /\ \A k \in 1..Len(K) : K[k] = s[at[k]]
        /\ \A k, l \in 1..Len(K) : k < l => at[k] < at[l]
    BY <1>2, <1>4 DEF Picked
  <1>6. at[m] \in 1..Len(s) /\ at[n] \in 1..Len(s) /\ at[m] < at[n]
        /\ s[at[m]] = K[m] /\ s[at[n]] = K[n]
    BY <1>3, <1>5
  <1>7. QED
    BY <1>6 DEF s, K

\* Of two ways, the order of beginnings of one length is that of the ways.
LEMMA LongerInOrder ==
  ASSUME NEW a \in Seq(Nat \ {0}), NEW b \in Seq(Nat \ {0}), NEW n \in Nat,
         n <= Len(a), n <= Len(b), Sooner(SubSeq(a, 1, n), SubSeq(b, 1, n))
  PROVE  Sooner(a, b)
  <1> DEFINE x == SubSeq(a, 1, n)
             y == SubSeq(b, 1, n)
  <1>1. n \in 0..Len(a) /\ n \in 0..Len(b)
    OBVIOUS
  <1>2. Len(x) = n /\ \A i \in 1..n : x[i] = a[i]
    BY <1>1, Beginning
  <1>3. Len(y) = n /\ \A i \in 1..n : y[i] = b[i]
    BY <1>1, Beginning
  <1>4. Sooner(x, y)
    OBVIOUS
  <1> HIDE DEF x, y
  <1>5. PICK j \in 1..n : x[j] < y[j] /\ Agree(x, y, j - 1)
    BY <1>2, <1>3, <1>4 DEF Sooner
  <1>6. /\ j \in 1..Len(a) /\ j <= Len(b)
        /\ \A i \in 1..(j - 1) : i \in 1..n
    BY <1>1
  <1>7. a[j] < b[j]
    BY <1>2, <1>3, <1>5
  <1>8. Agree(a, b, j - 1)
    BY <1>2, <1>3, <1>5, <1>6 DEF Agree
  <1>9. QED
    BY <1>6, <1>7, <1>8 DEF Sooner

\* A part of the tree of c, made in the order of the walk over c.
PartOf(d, c) ==
  Config(c) /\ Config(d) /\ InWalk(c, d.sections) /\ ToSet(d.sections) \subseteq Nodes(c)

\* Of two nodes, one that the walk over d comes to first is first in c.
LEMMA WalksAgree ==
  ASSUME NEW c, NEW d, PartOf(d, c), NEW p \in Nodes(d), NEW q \in Nodes(d),
         Sooner(WayDown(d, p), WayDown(d, q))
  PROVE  Sooner(WayDown(c, p), WayDown(c, q))
  <1> DEFINE a == WayDown(d, p)
             b == WayDown(d, q)
  <1>1. Config(c) /\ Config(d) /\ InWalk(c, d.sections) /\ p \in Nodes(c) /\ q \in Nodes(c)
    BY DEF PartOf, Nodes
  <1>2. p \in Seq(Words) /\ q \in Seq(Words) /\ Len(p) \in Nat /\ Len(q) \in Nat
    BY <1>1, NodesAre
  <1>3. /\ a \in Seq(Nat \ {0}) /\ Len(a) = Len(p)
        /\ \A j \in 1..Len(p) : /\ a[j] \in 1..Len(Children(d, SubSeq(p, 1, j - 1)))
                                /\ Children(d, SubSeq(p, 1, j - 1))[a[j]] = SubSeq(p, 1, j)
    BY <1>1, WayIs
  <1>4. /\ b \in Seq(Nat \ {0}) /\ Len(b) = Len(q)
        /\ \A j \in 1..Len(q) : /\ b[j] \in 1..Len(Children(d, SubSeq(q, 1, j - 1)))
                                /\ Children(d, SubSeq(q, 1, j - 1))[b[j]] = SubSeq(q, 1, j)
    BY <1>1, WayIs
  <1>5. ASSUME NEW n \in Nat, n <= Len(p), n <= Len(q), Agree(a, b, n)
        PROVE  SubSeq(p, 1, n) = SubSeq(q, 1, n)
    <2>1. \A j \in 1..n : WayDown(d, p)[j] = WayDown(d, q)[j]
      BY <1>5 DEF Agree
    <2>2. QED
      BY <1>1, <1>5, <2>1, Follow
  <1>6. SubSeq(p, 1, Len(p)) = p /\ SubSeq(q, 1, Len(q)) = q
    BY <1>2
  <1> HIDE DEF a, b
  <1>7. ASSUME Len(p) < Len(q), Agree(a, b, Len(p))
        PROVE  Sooner(WayDown(c, p), WayDown(c, q))
    <2>1. SubSeq(q, 1, Len(p)) = p
      BY <1>2, <1>5, <1>6, <1>7
    <2>2. Len(p) \in 0..Len(q) /\ Len(q) \in 0..Len(q)
      BY <1>2, <1>7
    <2>3. Sooner(WayDown(c, SubSeq(q, 1, Len(p))), WayDown(c, SubSeq(q, 1, Len(q))))
      BY <1>1, <1>7, <2>2, SoonerBelow
    <2>4. QED
      BY <1>6, <2>1, <2>3
  <1>8. ASSUME NEW j \in 1..Len(p), j <= Len(q), a[j] < b[j], Agree(a, b, j - 1)
        PROVE  Sooner(WayDown(c, p), WayDown(c, q))
    <2> DEFINE r == SubSeq(p, 1, j - 1)
               x == SubSeq(p, 1, j)
               y == SubSeq(q, 1, j)
               s == d.sections
    <2>1. j \in 1..Len(q) /\ j - 1 \in Nat /\ j - 1 <= Len(p) /\ j - 1 <= Len(q)
          /\ j \in 0..Len(p) /\ j \in 0..Len(q) /\ j \in Nat
      BY <1>2, <1>8
    <2>2. SubSeq(q, 1, j - 1) = r
      BY <1>5, <1>8, <2>1
    <2>3. a[j] \in 1..Len(Children(d, r)) /\ Children(d, r)[a[j]] = x
      BY <1>3
    <2>4. b[j] \in 1..Len(Children(d, r)) /\ Children(d, r)[b[j]] = y
      BY <1>4, <2>1, <2>2
    <2> HIDE DEF r, x, y
    <2>5. \E m, n \in 1..Len(s) : m < n /\ s[m] = x /\ s[n] = y
      <3> DEFINE m == a[j]
                 n == b[j]
      <3>1. m \in 1..Len(Children(d, r)) /\ n \in 1..Len(Children(d, r)) /\ m < n
        BY <1>8, <2>3, <2>4
      <3>2. Children(d, r)[m] = x /\ Children(d, r)[n] = y
        BY <2>3, <2>4
      <3> HIDE DEF m, n
      <3>3. \E k, l \in 1..Len(d.sections) :
              k < l /\ d.sections[k] = Children(d, r)[m] /\ d.sections[l] = Children(d, r)[n]
        BY <1>1, <3>1, ChildrenInOrder
      <3>4. QED
        BY <3>2, <3>3
    <2>6. Sooner(WayDown(c, x), WayDown(c, y))
      BY <1>1, <2>5 DEF InWalk
    <2> DEFINE u == WayDown(c, p)
               v == WayDown(c, q)
    <2>7. WayDown(c, x) = SubSeq(u, 1, j) /\ WayDown(c, y) = SubSeq(v, 1, j)
      BY <1>1, <2>1, WayAbove DEF x, y
    <2>8. u \in Seq(Nat \ {0}) /\ v \in Seq(Nat \ {0}) /\ Len(u) = Len(p) /\ Len(v) = Len(q)
      BY <1>1, WayIs
    <2> HIDE DEF u, v
    <2>9. j <= Len(u) /\ j <= Len(v)
      BY <2>1, <2>8
    <2>10. Sooner(SubSeq(u, 1, j), SubSeq(v, 1, j))
      BY <2>6, <2>7
    <2>11. Sooner(u, v)
      BY <2>1, <2>8, <2>9, <2>10, LongerInOrder
    <2>12. QED
      BY <2>11 DEF u, v
  <1>9. Sooner(a, b)
    BY DEF a, b
  <1>10. QED
    BY <1>3, <1>4, <1>7, <1>8, <1>9 DEF Sooner

\* So the order of the two walks is the same.
LEMMA SameWalk ==
  ASSUME NEW c, NEW d, PartOf(d, c), NEW p \in Nodes(d), NEW q \in Nodes(d)
  PROVE  Sooner(WayDown(d, p), WayDown(d, q)) <=> Sooner(WayDown(c, p), WayDown(c, q))
  <1>1. Config(c) /\ Config(d) /\ p \in Nodes(c) /\ q \in Nodes(c)
    BY DEF PartOf, Nodes
  <1> DEFINE a == WayDown(d, p)
             b == WayDown(d, q)
             u == WayDown(c, p)
             v == WayDown(c, q)
  <1>2. u \in Seq(Nat \ {0}) /\ v \in Seq(Nat \ {0})
    BY <1>1, WayIs
  <1>3. a \in Seq(Nat \ {0}) /\ b \in Seq(Nat \ {0})
    BY <1>1, WayIs
  <1>4. Sooner(a, b) => Sooner(u, v)
    BY WalksAgree
  <1>5. Sooner(b, a) => Sooner(v, u)
    BY WalksAgree
  <1>6. a = b => p = q
    BY <1>1, WayFinds
  <1>7. p = q => u = v
    OBVIOUS
  <1> HIDE DEF a, b, u, v
  <1>8. ~Sooner(u, u)
    BY <1>2, NotSooner
  <1>9. Sooner(u, v) => ~Sooner(v, u)
    BY <1>2, <1>8, SoonerOn
  <1>10. a # b => Sooner(a, b) \/ Sooner(b, a)
    BY <1>3, SoonerOrLater
  <1>11. Sooner(a, b) <=> Sooner(u, v)
    BY <1>4, <1>5, <1>6, <1>7, <1>8, <1>9, <1>10
  <1>12. QED
    BY <1>11 DEF a, b, u, v

\* d is c without sections that have no entries, in or below them.
Trimmed(d, c) ==
  /\ PartOf(d, c)
  /\ \A q \in Nodes(c) : q \notin Nodes(d) => EntriesOf(c, q) = << >>
  /\ \A q \in Nodes(d) : EntriesOf(d, q) = EntriesOf(c, q)

\* The nodes of d among the first k of the walk over c.
Met(d, c, k) == {p \in Nodes(d) : Cardinality(Sooners(c, p)) < k}

\* The walk over c comes to a node: to one of d as the walk over d does.
LEMMA MeetsNext ==
  ASSUME NEW c, NEW d, PartOf(d, c), NEW k \in Nat, k + 1 \in 1..Cardinality(Nodes(c)),
         NEW p, p = DepthFirst(c)[k + 1], NEW m, m = Cardinality(Met(d, c, k))
  PROVE  /\ p \in Nodes(c) /\ m \in Nat
         /\ p \notin Nodes(d) => Cardinality(Met(d, c, k + 1)) = m
         /\ p \in Nodes(d) => /\ Cardinality(Met(d, c, k + 1)) = m + 1
                              /\ m + 1 \in 1..Cardinality(Nodes(d))
                              /\ DepthFirst(d)[m + 1] = p
  <1> DEFINE r(q) == Cardinality(Sooners(c, q))
             M == Met(d, c, k)
  <1>1. Config(c) /\ Config(d) /\ Nodes(d) \subseteq Nodes(c)
    BY DEF PartOf, Nodes
  <1>2. p \in Nodes(c) /\ r(p) = k
    <2>1. (k + 1) - 1 = k
      OBVIOUS
    <2>2. QED
      BY <1>1, <2>1, RanksAreTaken
  <1>3. \A q \in Nodes(c) : r(q) \in Nat
    BY <1>1, RankInRange
  <1>4. \A q \in Nodes(c) : r(q) = k => q = p
    BY <1>1, <1>2, RanksDiffer
  <1>5. IsFiniteSet(Nodes(d)) /\ Cardinality(Nodes(d)) \in Nat
    BY <1>1, NodesFinite
  <1>6. M \subseteq Nodes(d)
    BY DEF Met
  <1>7. IsFiniteSet(M) /\ m \in Nat
    BY <1>5, <1>6, FS_Subset, FS_CardinalityType
  <1>8. Met(d, c, k + 1) = M \cup ({p} \cap Nodes(d))
    <2>1. \A q \in Nodes(d) : r(q) < k + 1 <=> r(q) < k \/ q = p
      <3>1. SUFFICES ASSUME NEW q \in Nodes(d) PROVE r(q) < k + 1 <=> r(q) < k \/ r(q) = k
        BY <1>1, <1>2, <1>4
      <3>2. r(q) \in Nat
        BY <1>1, <1>3
      <3> HIDE DEF r
      <3>3. QED
        BY <3>2
    <2>2. M = {q \in Nodes(d) : r(q) < k} /\ Met(d, c, k + 1) = {q \in Nodes(d) : r(q) < k + 1}
      BY DEF Met
    <2> HIDE DEF r, M
    <2>3. QED
      BY <2>1, <2>2
  <1>9. ASSUME p \notin Nodes(d) PROVE Cardinality(Met(d, c, k + 1)) = m
    <2>1. Met(d, c, k + 1) = M
      BY <1>8, <1>9
    <2>2. QED
      BY <2>1
  <1>10. ASSUME p \in Nodes(d)
         PROVE  /\ Cardinality(Met(d, c, k + 1)) = m + 1
                /\ m + 1 \in 1..Cardinality(Nodes(d))
                /\ DepthFirst(d)[m + 1] = p
    <2>1. p \notin M
      BY <1>2 DEF Met
    <2>2. Met(d, c, k + 1) = M \cup {p}
      BY <1>8, <1>10
    <2>3. Cardinality(M \cup {p}) = m + 1
      <3> HIDE DEF M
      <3>1. QED
        BY <1>7, <2>1, FS_AddElement DEF M
    <2>4. Sooners(d, p) = M
      <3>1. \A q \in Nodes(d) : Sooner(WayDown(d, q), WayDown(d, p)) <=> r(q) < k
        <4>1. SUFFICES ASSUME NEW q \in Nodes(d)
                       PROVE  Sooner(WayDown(d, q), WayDown(d, p)) <=> r(q) < k
          OBVIOUS
        <4>2. Sooner(WayDown(d, q), WayDown(d, p)) <=> Sooner(WayDown(c, q), WayDown(c, p))
          BY <1>10, SameWalk
        <4>3. r(q) < r(p) <=> Sooner(WayDown(c, q), WayDown(c, p))
          BY <1>1, <1>2, RanksInOrder
        <4> HIDE DEF r
        <4>4. QED
          BY <1>2, <4>2, <4>3
      <3>2. QED
        BY <3>1 DEF Sooners, Met
    <2>5. Cardinality(Sooners(d, p)) = m
      BY <2>4
    <2>6. m \in 0..(Cardinality(Nodes(d)) - 1)
      BY <1>1, <1>10, <2>5, RankInRange
    <2>7. m + 1 \in 1..Cardinality(Nodes(d)) /\ (m + 1) - 1 = m
      BY <1>5, <1>7, <2>6
    <2> DEFINE q == DepthFirst(d)[m + 1]
    <2>8. q \in Nodes(d) /\ Cardinality(Sooners(d, q)) = m
      BY <1>1, <2>7, RanksAreTaken
    <2>9. q = p
      BY <1>1, <1>10, <2>5, <2>8, RanksDiffer
    <2>10. QED
      BY <2>2, <2>3, <2>7, <2>9
  <1>11. QED
    BY <1>2, <1>7, <1>9, <1>10

\* The text is that of the sections with entries.
LEMMA SameText ==
  ASSUME NEW c, NEW d, Trimmed(d, c)
  PROVE  Text(d) = Text(c)
  <1> DEFINE N == Cardinality(Nodes(c))
             m(k) == Cardinality(Met(d, c, k))
  <1>1. PartOf(d, c) /\ Config(c) /\ Config(d) /\ Nodes(d) \subseteq Nodes(c)
    BY DEF Trimmed, PartOf, Nodes
  <1>2. N \in Nat
    BY <1>1, NodesFinite
  <1>3. PICK acc : Composes(c, acc)
    BY <1>1, TextComposes
  <1>4. PICK bcc : Composes(d, bcc)
    BY <1>1, TextComposes
  <1>5. /\ acc[0] = << >> /\ acc[N] = Text(c)
        /\ \A n \in 1..N : acc[n] = TextWith(c, acc[n - 1], DepthFirst(c)[n])
    BY <1>3 DEF Composes
  <1>6. /\ bcc[0] = << >> /\ bcc[Cardinality(Nodes(d))] = Text(d)
        /\ \A n \in 1..Cardinality(Nodes(d)) : bcc[n] = TextWith(d, bcc[n - 1], DepthFirst(d)[n])
    BY <1>4 DEF Composes
  <1>7. m(0) = 0
    <2>1. Met(d, c, 0) = {}
      <3>1. SUFFICES ASSUME NEW p \in Nodes(d), Cardinality(Sooners(c, p)) < 0 PROVE FALSE
        BY DEF Met
      <3>2. Cardinality(Sooners(c, p)) \in Nat
        BY <1>1, RankInRange
      <3>3. QED
        BY <3>1, <3>2
    <2>2. QED
      BY <2>1, FS_EmptySet
  <1>8. m(N) = Cardinality(Nodes(d))
    <2>1. \A p \in Nodes(d) : Cardinality(Sooners(c, p)) < N
      <3>1. SUFFICES ASSUME NEW p \in Nodes(d) PROVE Cardinality(Sooners(c, p)) < N
        OBVIOUS
      <3>2. Cardinality(Sooners(c, p)) \in 0..(N - 1)
        BY <1>1, RankInRange
      <3> HIDE DEF N
      <3>3. QED
        BY <1>2, <3>2
    <2>2. Met(d, c, N) = Nodes(d)
      BY <2>1 DEF Met
    <2>3. QED
      BY <2>2
  <1> DEFINE P == {k \in Nat : k <= N => acc[k] = bcc[m(k)]}
  <1>9. 0 \in P
    BY <1>5, <1>6, <1>7
  <1>10. ASSUME NEW k \in Nat, k \in P PROVE k + 1 \in P
    <2>1. SUFFICES ASSUME k + 1 <= N PROVE acc[k + 1] = bcc[m(k + 1)]
      OBVIOUS
    <2> DEFINE p == DepthFirst(c)[k + 1]
               n == m(k)
    <2>2. k + 1 \in 1..N /\ (k + 1) - 1 = k /\ k <= N
      BY <1>2, <2>1
    <2>3. acc[k] = bcc[n] /\ acc[k + 1] = TextWith(c, acc[k], p)
      BY <1>5, <1>10, <2>2
    <2>4. /\ p \in Nodes(c) /\ n \in Nat
          /\ p \notin Nodes(d) => m(k + 1) = n
          /\ p \in Nodes(d) => /\ m(k + 1) = n + 1
                               /\ n + 1 \in 1..Cardinality(Nodes(d))
                               /\ DepthFirst(d)[n + 1] = p
      BY <1>1, <2>2, MeetsNext
    <2> HIDE DEF m, n, p, N
    <2>5. CASE p \notin Nodes(d)
      <3>1. EntriesOf(c, p) = << >>
        BY <2>4, <2>5 DEF Trimmed
      <3>2. acc[k + 1] = acc[k]
        BY <2>3, <3>1 DEF TextWith
      <3>3. QED
        BY <2>3, <2>4, <2>5, <3>2
    <2>6. CASE p \in Nodes(d)
      <3>1. bcc[n + 1] = TextWith(d, bcc[n], p)
        <4>1. (n + 1) - 1 = n
          BY <2>4
        <4>2. QED
          BY <1>6, <2>4, <2>6, <4>1
      <3>2. EntriesOf(d, p) = EntriesOf(c, p)
        BY <2>6 DEF Trimmed
      <3>3. NodeLines(d, p) = NodeLines(c, p)
        BY <3>2 DEF NodeLines
      <3>4. TextWith(d, bcc[n], p) = TextWith(c, bcc[n], p)
        BY <3>2, <3>3 DEF TextWith
      <3>5. QED
        BY <2>3, <2>4, <2>6, <3>1, <3>4
    <2>7. QED
      BY <2>5, <2>6
  <1>11. N \in P
    <2> HIDE DEF P
    <2>1. QED
      BY <1>2, <1>9, <1>10, Induction
  <1>12. acc[N] = bcc[m(N)]
    BY <1>2, <1>11
  <1>13. QED
    BY <1>5, <1>6, <1>8, <1>12

\* What the parser makes of a text is what was written, trimmed,
LEMMA RereadIsTrimmed ==
  ASSUME NEW c, Config(c), NEW d, Reread(c, Full(c, Cardinality(Nodes(c))), d)
  PROVE  Trimmed(d, c)
  <1> DEFINE V == Full(c, Cardinality(Nodes(c)))
  <1>1. V = {p \in Nodes(c) : EntriesOf(c, p) # << >>}
    <2>1. \A p \in Nodes(c) : Cardinality(Sooners(c, p)) < Cardinality(Nodes(c))
      <3>1. SUFFICES ASSUME NEW p \in Nodes(c)
                     PROVE  Cardinality(Sooners(c, p)) < Cardinality(Nodes(c))
        OBVIOUS
      <3>2. Cardinality(Sooners(c, p)) \in 0..(Cardinality(Nodes(c)) - 1)
        BY RankInRange
      <3>3. Cardinality(Nodes(c)) \in Nat
        BY NodesFinite
      <3>4. QED
        BY <3>2, <3>3
    <2>2. QED
      BY <2>1 DEF Full
  <1> HIDE DEF V
  <1>2. Reread(c, V, d)
    BY DEF V
  <1>3. /\ Config(d) /\ InWalk(c, d.sections) /\ ToSet(d.sections) = AllAbove(V)
        /\ \A q : EntriesOf(d, q) = IF q \in V THEN EntriesOf(c, q) ELSE << >>
    BY <1>2 DEF Reread
  <1>4. ASSUME NEW v \in V PROVE Above(v) \subseteq Nodes(c) /\ (v = << >> \/ v \in Above(v))
    <2>1. v \in Nodes(c) /\ v \in Seq(Words) /\ Len(v) \in Nat
      BY <1>1, NodesAre
    <2>2. Above(v) \subseteq Nodes(c)
      <3>1. SUFFICES ASSUME NEW m \in 1..Len(v) PROVE SubSeq(v, 1, m) \in Nodes(c)
        BY DEF Above
      <3>2. m \in 0..Len(v)
        BY <2>1
      <3>3. QED
        BY <2>1, <3>2, NodesAbove
    <2>3. ASSUME v # << >> PROVE v \in Above(v)
      <3>1. SubSeq(v, 1, Len(v)) = v /\ Len(v) \in 1..Len(v)
        BY <2>1, <2>3
      <3>2. QED
        BY <3>1 DEF Above
    <2>4. QED
      BY <2>2, <2>3
  <1>5. AllAbove(V) \subseteq Nodes(c) /\ V \subseteq {<< >>} \cup AllAbove(V)
    BY <1>4 DEF AllAbove
  <1>6. PartOf(d, c)
    BY <1>3, <1>5 DEF PartOf
  <1>7. Nodes(d) \subseteq Nodes(c) /\ V \subseteq Nodes(d)
    BY <1>3, <1>5 DEF Nodes
  <1>8. \A q \in Nodes(c) : q \notin Nodes(d) => EntriesOf(c, q) = << >>
    BY <1>1, <1>7
  <1>9. \A q \in Nodes(d) : EntriesOf(d, q) = EntriesOf(c, q)
    BY <1>1, <1>3, <1>7
  <1>10. QED
    BY <1>6, <1>8, <1>9 DEF Trimmed

\* and its text is the same.
LEMMA RewritingIsTheSame ==
  ASSUME NEW c, Config(c), Text(c) \in Seq(Lines), IsClear(Text(c))
  PROVE  Text(Parse(Text(c)).conf) = Text(c)
  <1> DEFINE d == Parse(Text(c)).conf
  <1>1. Reread(c, Full(c, Cardinality(Nodes(c))), d)
    BY TextReread
  <1> HIDE DEF d
  <1>2. Trimmed(d, c)
    BY <1>1, RereadIsTrimmed
  <1>3. Text(d) = Text(c)
    BY <1>2, SameText
  <1>4. QED
    BY <1>3 DEF d

\* When the walk is over, the file is the text of the config_data.
LEMMA DoneIsText ==
  ASSUME Shape, Course, InOrder, WriteDone
  PROVE  file = Text(conf) /\ file \in Seq(Lines) /\ Config(conf)
  <1>1. pc = "visit" /\ ~HasNext(conf, visitor)
    BY DEF WriteDone
  <1>2. Config(conf) /\ file \in Seq(Lines) /\ lines = << >> /\ OnWay(conf, visitor)
    BY <1>1 DEF Shape, Course, Underway
  <1>3. PICK acc : Composes(conf, acc) /\ file \o lines = acc[Cardinality(Visited(conf, visitor))]
    BY <1>1 DEF InOrder, SoFar
  <1>4. Visited(conf, visitor) = Nodes(conf)
    BY <1>1, <1>2, WalkEnds
  <1>5. file \o lines = file
    BY <1>2
  <1>6. file = acc[Cardinality(Nodes(conf))]
    BY <1>3, <1>4, <1>5
  <1>7. QED
    BY <1>2, <1>3, <1>6 DEF Composes

LEMMA DoneIsStable ==
  ASSUME Shape, Course, InOrder, WriteDone
  PROVE  RewritingIsStable'
  <1>1. file = Text(conf) /\ file \in Seq(Lines) /\ Config(conf) /\ file' = file
    BY DoneIsText DEF WriteDone
  <1>2. Meaning(file) # Broken => IsClear(file)
    BY DEF Meaning
  <1>3. Meaning(file) # Broken => Text(Parse(file).conf) = file
    BY <1>1, <1>2, RewritingIsTheSame
  <1>4. QED
    BY <1>1, <1>3 DEF RewritingIsStable

\* A command that has not rewritten the file has no text to answer for.
LEMMA NothingRewritten ==
  ASSUME pc' # "idle" \/ status' \notin {"done", "missing"} \/ cmd'.op \notin {"set", "unset"}
  PROVE  RewritingIsStable'
  BY DEF RewritingIsStable

LEMMA RewritingStays ==
  Shape /\ Course /\ InOrder /\ RewritingIsStable /\ [Next]_vars => RewritingIsStable'
  <1> SUFFICES ASSUME Shape, Course, InOrder, RewritingIsStable, [Next]_vars
               PROVE  RewritingIsStable'
    OBVIOUS
  <1>1. ASSUME NEW k \in Keys, NEW v \in Values, Set(k, v) PROVE RewritingIsStable'
    BY <1>1, NothingRewritten DEF Set
  <1>2. ASSUME NEW k \in Keys, Unset(k) PROVE RewritingIsStable'
    BY <1>2, NothingRewritten DEF Unset
  <1>3. ASSUME NEW k \in Keys, ParseFails(k) PROVE RewritingIsStable'
    BY <1>3, NothingRewritten DEF ParseFails, Exit
  <1>4. ASSUME NEW k \in Keys, NEW fallback \in BOOLEAN, Query(k, fallback)
        PROVE  RewritingIsStable'
    <2>1. cmd'.op = IF fallback THEN "get-or-default" ELSE "get"
      BY <1>4 DEF Query
    <2>2. cmd'.op \notin {"set", "unset"}
      BY <2>1
    <2>3. QED
      BY <2>2, NothingRewritten
  <1>5. CASE ValidateConfig
    BY <1>5, NothingRewritten DEF ValidateConfig
  <1>6. CASE EditConfig
    BY <1>6, NothingRewritten DEF EditConfig
  <1>7. CASE OpenConfig
    BY <1>7, NothingRewritten DEF OpenConfig
  <1>8. CASE VisitNode
    <2>1. pc' # "idle"
      BY <1>8 DEF VisitNode
    <2>2. QED
      BY <2>1, NothingRewritten
  <1>9. CASE VisitFails
    BY <1>9, NothingRewritten DEF VisitFails, Exit
  <1>10. CASE WriteLine
    BY <1>10, NothingRewritten DEF WriteLine
  <1>11. CASE WriteFails
    BY <1>11, NothingRewritten DEF WriteFails, Exit
  <1>12. CASE WriteDone
    BY <1>12, DoneIsStable
  <1>13. CASE Kill
    BY <1>13, NothingRewritten DEF Kill, Exit
  <1>14. CASE DiskFills
    BY <1>14 DEF DiskFills, RewritingIsStable
  <1>15. CASE UNCHANGED vars
    BY <1>15 DEF vars, RewritingIsStable
  <1>16. QED
    BY <1>1, <1>2, <1>3, <1>4, <1>5, <1>6, <1>7, <1>8, <1>9, <1>10, <1>11, <1>12, <1>13,
       <1>14, <1>15 DEF Next

\* RewritingIsStable: what --set or --unset has written, if it parses, is parsed
\* into a config whose text is the same file, so that no order of edits makes
\* sections or entries wander.
THEOREM RewritingIsSettled ==
  Spec => []RewritingIsStable
  <1>1. Init => Shape /\ Course /\ InOrder /\ RewritingIsStable
    BY KindsAtFirst, CourseAtFirst DEF Init, InOrder, RewritingIsStable
  <1>2. Shape /\ Course /\ InOrder /\ RewritingIsStable /\ [Next]_vars
          => Shape' /\ Course' /\ InOrder' /\ RewritingIsStable'
    BY KindsStay, CourseStays, OrderKept, RewritingStays
  <1>3. QED
    BY <1>1, <1>2, PTL DEF Spec

-----------------------------------------------------------------------------
(* The config file is a map.                                               *)

Writing == pc \in {"visit", "lines"}

Failure == {"died", "crashed"}

\* A step that neither begins nor ends the writing, nor runs an editor.
LEMMA LookMaps ==
  ASSUME ~Writing, ~Writing', cmd'.op # "edit", file' = file, full' = full
  PROVE  Store!Next
  <1>1. pc \notin {"visit", "lines"} /\ pc' \notin {"visit", "lines"}
    BY DEF Writing
  <1>2. (status' \in {"died", "crashed"}) \in BOOLEAN
    OBVIOUS
  <1>3. Store!Look
    BY <1>1, <1>2 DEF Store!Look
  <1>4. QED
    BY <1>3 DEF Store!Next

\* A step that begins the writing.
LEMMA ChangeMaps ==
  ASSUME ~Writing, Writing', Meaning(file) # Broken, cmd.op \in {"set", "unset"}, cmd' = cmd,
         cmd.key \in AllKeys, cmd.op = "set" => cmd.value \in Values,
         AsMap(conf) = Asked(Meaning(file)), conf' = conf, status' = status, full' = full
  PROVE  Store!Next
  <1> DEFINE M == Meaning(file)
             A == AsMap(conf)
             k == cmd.key
  <1>1. pc \notin {"visit", "lines"} /\ pc' \in {"visit", "lines"}
    BY DEF Writing
  <1>2. AsMap(conf') = A
    OBVIOUS
  <1>3. A = Store!Remove(M, k) \/ \E v \in Values : A = Store!Put(M, k, v)
    BY DEF Asked
  <1>4. cmd'.op # "edit"
    OBVIOUS
  <1>5. \E m \in {M}, x \in AllKeys :
          A = Store!Remove(m, x) \/ \E v \in Values : A = Store!Put(m, x, v)
    <2> HIDE DEF M, A
    <2>1. QED
      BY <1>3
  <1>6. M # Broken
    OBVIOUS
  <1> HIDE DEF M, A
  <1>7. Store!Change
    BY <1>1, <1>2, <1>4, <1>5, <1>6 DEF Store!Change, M, A
  <1>8. QED
    BY <1>7 DEF Store!Next

\* A step that ends it.
LEMMA EndMaps ==
  ASSUME Writing, ~Writing', cmd' = cmd, full' = full,
         \/ Meaning(file') = AsMap(conf)
         \/ Faults /\ status' \in Failure /\ Store!IsPart(Meaning(file'), AsMap(conf))
         \/ /\ full /\ status' \in Failure
            /\ Meaning(file') # Broken => DOMAIN Meaning(file') \subseteq DOMAIN AsMap(conf)
         \/ /\ ~Store!AllCarried(AsMap(conf))
            /\ Meaning(file') # Broken => Store!IsPart(Meaning(file'), AsMap(conf))
  PROVE  Store!Next
  <1>1. pc \in {"visit", "lines"} /\ pc' \notin {"visit", "lines"}
    BY DEF Writing
  <1>2. (status' \in {"died", "crashed"}) \in BOOLEAN
    OBVIOUS
  <1>3. CASE Meaning(file') = AsMap(conf)
    <2>1. Store!End
      BY <1>1, <1>2, <1>3 DEF Store!End
    <2>2. QED
      BY <2>1 DEF Store!Next
  <1>4. CASE Faults /\ status' \in Failure /\ Store!IsPart(Meaning(file'), AsMap(conf))
    <2>1. Store!Lose
      BY <1>1, <1>4 DEF Store!Lose, Failure
    <2>2. Store!End
      BY <1>1, <1>2, <2>1 DEF Store!End
    <2>3. QED
      BY <2>2 DEF Store!Next
  <1>5. CASE /\ full /\ status' \in Failure
             /\ Meaning(file') # Broken => DOMAIN Meaning(file') \subseteq DOMAIN AsMap(conf)
    <2>1. Store!Cut
      BY <1>1, <1>5 DEF Store!Cut, Failure
    <2>2. Store!End
      BY <1>1, <1>2, <2>1 DEF Store!End
    <2>3. QED
      BY <2>2 DEF Store!Next
  <1>6. CASE /\ ~Store!AllCarried(AsMap(conf))
             /\ Meaning(file') # Broken => Store!IsPart(Meaning(file'), AsMap(conf))
    <2>1. Store!Spoil
      BY <1>1, <1>6 DEF Store!Spoil
    <2>2. Store!End
      BY <1>1, <1>2, <2>1 DEF Store!End
    <2>3. QED
      BY <2>2 DEF Store!Next
  <1>7. QED
    BY <1>3, <1>4, <1>5, <1>6

\* The editor.
LEMMA EditMaps ==
  ASSUME Course', EditConfig
  PROVE  Store!Next
  <1>1. pc = "idle" /\ pc' = "idle" /\ cmd'.op = "edit" /\ full' = full
    BY DEF EditConfig, Exit
  <1>2. Meaning(file') # Broken => DOMAIN Meaning(file') \subseteq AllKeys
    <2> DEFINE f == file'
    <2>1. IsClear(f) => DOMAIN Meaning(f) \subseteq AllKeys
      BY DEF Course, Named
    <2> HIDE DEF f
    <2>2. Meaning(f) # Broken => IsClear(f)
      BY DEF Meaning
    <2>3. QED
      BY <2>1, <2>2 DEF f
  <1>3. (status' \in {"died", "crashed"}) \in BOOLEAN
    OBVIOUS
  <1>4. Store!Edit
    BY <1>1, <1>2, <1>3 DEF Store!Edit
  <1>5. QED
    BY <1>4 DEF Store!Next

\* A file that parses means a map.
LEMMA ClearIsNotBroken ==
  ASSUME NEW f \in Seq(Lines), IsClear(f), DOMAIN Meaning(f) \subseteq AllKeys
  PROVE  Meaning(f) # Broken
  <1> DEFINE M == Meaning(f)
  <1>1. M \in [DOMAIN M -> Values]
    BY MeaningIs
  <1>2. DOMAIN M \in SUBSET AllKeys
    OBVIOUS
  <1>3. Broken \notin [DOMAIN M -> Values]
    BY <1>2, BrokenAssumption
  <1>4. QED
    BY <1>1, <1>3

\* What is written means a part of the map, if it parses; if not, then an entry
\* was not carried.
LEMMA PartOrSpoilt ==
  ASSUME NEW c, Config(c), NEW P, NEW f, Says(f, c, P), DOMAIN AsMap(c) \subseteq AllKeys
  PROVE  \/ Store!IsPart(Meaning(f), AsMap(c))
         \/ Meaning(f) = Broken /\ ~Store!AllCarried(AsMap(c))
  <1>1. CASE IsClear(f)
    <2>1. f \in Seq(Lines)
      BY DEF Says
    <2>2. /\ DOMAIN Meaning(f) \subseteq DOMAIN AsMap(c)
          /\ Meaning(f) = Store!Restrict(AsMap(c), DOMAIN Meaning(f))
      BY <1>1, PartIsWritten
    <2>3. Meaning(f) # Broken
      BY <1>1, <2>1, <2>2, ClearIsNotBroken
    <2>4. QED
      BY <2>2, <2>3 DEF Store!IsPart
  <1>2. CASE ~IsClear(f)
    BY <1>2, BrokenIsNotCarried DEF Meaning
  <1>3. QED
    BY <1>1, <1>2

\* While a command writes, its file says what is in its config_data.
LEMMA WritingSays ==
  ASSUME Shape, Course, Writing
  PROVE  Config(conf) /\ DOMAIN AsMap(conf) \subseteq AllKeys /\ \E P : Says(file, conf, P)
  <1>1. file \in Seq(Lines) /\ lines \in Seq(Lines) /\ Config(conf)
    BY DEF Shape
  <1>2. Says(file \o lines, conf, Visited(conf, visitor))
    BY DEF Course, Writing, Underway, Tells
  <1>3. Says(file, conf, Visited(conf, visitor))
    BY <1>1, <1>2, SaysLess
  <1>4. DOMAIN AsMap(conf) \subseteq AllKeys
    BY DEF Course, Named, Writing
  <1>5. QED
    BY <1>1, <1>3, <1>4

\* The steps that begin the writing, or end it.
LEMMA OpenMaps ==
  ASSUME Shape, Course, OpenConfig
  PROVE  Store!Next
  <1>1. /\ pc = "open" /\ pc' = "visit" /\ conf' = conf /\ cmd' = cmd /\ status' = status
        /\ full' = full
    BY DEF OpenConfig
  <1>2. /\ IsClear(file) /\ AsMap(conf) = Asked(Meaning(file)) /\ file \in Seq(Lines)
        /\ DOMAIN Meaning(file) \subseteq AllKeys
        /\ cmd.op \in {"set", "unset"} /\ cmd.key \in Keys
        /\ cmd.op = "set" => cmd.value \in Values
    BY <1>1 DEF Course, Named, Shape
  <1>3. Meaning(file) # Broken
    BY <1>2, ClearIsNotBroken
  <1>4. cmd.key \in AllKeys
    BY <1>2 DEF AllKeys
  <1>5. ~Writing /\ Writing'
    BY <1>1 DEF Writing
  <1>6. QED
    BY <1>1, <1>2, <1>3, <1>4, <1>5, ChangeMaps

LEMMA DoneMaps ==
  ASSUME Shape, Course, WriteDone
  PROVE  Store!Next
  <1>1. pc = "visit" /\ pc' = "idle" /\ file' = file /\ cmd' = cmd /\ full' = full
    BY DEF WriteDone, Exit
  <1>2. Tells(file, conf, Nodes(conf)) /\ Config(conf)
    BY DoneTellsAll DEF Shape
  <1>3. Writing /\ ~Writing'
    BY <1>1 DEF Writing
  <1>4. CASE IsClear(file)
    <2>1. Meaning(file) = AsMap(conf)
      BY <1>2, <1>4, AllIsWritten
    <2>2. QED
      BY <1>1, <1>3, <2>1, EndMaps
  <1>5. CASE ~IsClear(file)
    <2>1. Says(file, conf, Nodes(conf)) /\ Meaning(file) = Broken
      BY <1>2, <1>5 DEF Tells, Meaning
    <2>2. ~Store!AllCarried(AsMap(conf))
      BY <1>2, <1>5, <2>1, BrokenIsNotCarried
    <2>3. QED
      BY <1>1, <1>3, <2>1, <2>2, EndMaps
  <1>6. QED
    BY <1>4, <1>5

LEMMA VisitFailsMaps ==
  ASSUME Shape, Course, VisitFails
  PROVE  Store!Next
  <1> DEFINE path == NextNode(conf, visitor).node
  <1>1. /\ pc = "visit" /\ pc' = "idle" /\ file' = file /\ cmd' = cmd /\ full' = full
        /\ EntriesOf(conf, path) # << >> /\ ~ValidSectionKey(path)
    BY DEF VisitFails, Exit
  <1> HIDE DEF path
  <1>2. Writing /\ ~Writing'
    BY <1>1 DEF Writing
  <1>3. Config(conf) /\ DOMAIN AsMap(conf) \subseteq AllKeys /\ \E P : Says(file, conf, P)
    BY <1>2, WritingSays
  <1>4. ~Store!AllCarried(AsMap(conf))
    BY <1>1, <1>3, UnnamedIsNotCarried
  <1>5. Store!IsPart(Meaning(file), AsMap(conf)) \/ Meaning(file) = Broken
    BY <1>3, PartOrSpoilt
  <1>6. QED
    BY <1>1, <1>2, <1>4, <1>5, EndMaps

LEMMA WriteFailsMaps ==
  ASSUME Shape, Course, WriteFails
  PROVE  Store!Next
  <1>1. /\ pc = "lines" /\ pc' = "idle" /\ cmd' = cmd /\ full' = full /\ full
        /\ status' = "died" /\ lines # << >>
    BY DEF WriteFails, Exit, Shape
  <1>2. Writing /\ ~Writing'
    BY <1>1 DEF Writing
  <1>3. file \in Seq(Lines) /\ lines \in Seq(Lines) /\ Config(conf)
    BY DEF Shape
  <1>4. Says(file \o lines, conf, Visited(conf, visitor))
    BY <1>1 DEF Course, Underway, Tells
  <1>5. PICK cut \in CutLines(Head(lines)) : file' = file \o cut
    BY DEF WriteFails
  <1>6. Meaning(file') # Broken => DOMAIN Meaning(file') \subseteq DOMAIN AsMap(conf)
    <2>1. SUFFICES ASSUME Meaning(file \o cut) # Broken
                   PROVE  DOMAIN Meaning(file \o cut) \subseteq DOMAIN AsMap(conf)
      BY <1>5
    <2>2. IsClear(file \o cut)
      BY <2>1 DEF Meaning
    <2>3. QED
      BY <1>1, <1>3, <1>4, <2>2, CutKeys
  <1>7. QED
    BY <1>1, <1>2, <1>6, EndMaps DEF Failure

LEMMA KillMaps ==
  ASSUME Shape, Course, Kill
  PROVE  Store!Next
  <1>1. /\ pc # "idle" /\ pc' = "idle" /\ file' = file /\ cmd' = cmd /\ full' = full
        /\ status' = "died" /\ Faults
    BY DEF Kill, Exit
  <1>2. ~Writing' /\ cmd.op \in {"set", "unset"}
    BY <1>1 DEF Writing, Shape
  <1>3. CASE Writing
    <2>1. Config(conf) /\ DOMAIN AsMap(conf) \subseteq AllKeys /\ \E P : Says(file, conf, P)
      BY <1>3, WritingSays
    <2>2. \/ Store!IsPart(Meaning(file), AsMap(conf))
          \/ Meaning(file) = Broken /\ ~Store!AllCarried(AsMap(conf))
      BY <2>1, PartOrSpoilt
    <2>3. QED
      BY <1>1, <1>2, <1>3, <2>2, EndMaps DEF Failure
  <1>4. CASE ~Writing
    BY <1>1, <1>2, <1>4, LookMaps
  <1>5. QED
    BY <1>3, <1>4

\* What KeyValue sees of the file and of the command.
mapped ==
  <<IF pc \in {"visit", "lines"} THEN AsMap(conf) ELSE Meaning(file),
    pc \in {"visit", "lines"}, status \in {"died", "crashed"}, cmd.op = "edit", full>>

\* Every step of a command is one of KeyValue, or none.
LEMMA StepsMap ==
  Shape /\ Course /\ Course' /\ [Next]_vars => [Store!Next]_mapped
  <1> SUFFICES ASSUME Shape, Course, Course', [Next]_vars PROVE [Store!Next]_mapped
    OBVIOUS
  <1>1. ASSUME pc = "idle", pc' \in {"idle", "open"}, cmd'.op # "edit", file' = file, full' = full
        PROVE  Store!Next
    <2>1. ~Writing /\ ~Writing'
      BY <1>1 DEF Writing
    <2>2. QED
      BY <1>1, <2>1, LookMaps
  <1>2. ASSUME NEW k \in Keys, NEW v \in Values, Set(k, v) PROVE Store!Next
    BY <1>1, <1>2 DEF Set
  <1>3. ASSUME NEW k \in Keys, Unset(k) PROVE Store!Next
    BY <1>1, <1>3 DEF Unset
  <1>4. ASSUME NEW k \in Keys, ParseFails(k) PROVE Store!Next
    BY <1>1, <1>4 DEF ParseFails, Exit
  <1>5. ASSUME NEW k \in Keys, NEW fallback \in BOOLEAN, Query(k, fallback) PROVE Store!Next
    <2>1. cmd'.op = IF fallback THEN "get-or-default" ELSE "get"
      BY <1>5 DEF Query
    <2>2. pc = "idle" /\ pc' = "idle" /\ file' = file /\ full' = full
      BY <1>5 DEF Query, Exit
    <2>3. cmd'.op # "edit"
      BY <2>1
    <2>4. QED
      BY <1>1, <2>2, <2>3
  <1>6. CASE ValidateConfig
    <2>1. cmd'.op = "validate" /\ pc = "idle" /\ pc' = "idle" /\ file' = file /\ full' = full
      BY <1>6 DEF ValidateConfig, Exit
    <2>2. Store!Next
      BY <1>1, <2>1
    <2>3. QED
      BY <2>2
  <1>7. CASE EditConfig
    BY <1>7, EditMaps
  <1>8. CASE OpenConfig
    BY <1>8, OpenMaps
  <1>9. CASE VisitFails
    BY <1>9, VisitFailsMaps
  <1>10. CASE WriteFails
    BY <1>10, WriteFailsMaps
  <1>11. CASE WriteDone
    BY <1>11, DoneMaps
  <1>12. CASE Kill
    BY <1>12, KillMaps
  <1>13. ASSUME pc \in {"visit", "lines"}, pc' \in {"visit", "lines"}, conf' = conf, cmd' = cmd,
                status' = status, full' = full
         PROVE  UNCHANGED mapped
    BY <1>13 DEF mapped
  <1>14. CASE VisitNode
    <2>1. /\ pc = "visit" /\ pc' \in {"visit", "lines"} /\ conf' = conf /\ cmd' = cmd
          /\ status' = status /\ full' = full
      BY <1>14 DEF VisitNode
    <2>2. QED
      BY <1>13, <2>1
  <1>15. CASE WriteLine
    <2>1. /\ pc = "lines" /\ pc' \in {"visit", "lines"} /\ conf' = conf /\ cmd' = cmd
          /\ status' = status /\ full' = full
      BY <1>15 DEF WriteLine
    <2>2. QED
      BY <1>13, <2>1
  <1>16. CASE DiskFills
    <2>1. /\ Faults /\ full' = ~full /\ file' = file /\ conf' = conf /\ pc' = pc /\ cmd' = cmd
          /\ status' = status
      BY <1>16 DEF DiskFills
    <2>2. Store!DiskFills
      BY <2>1 DEF Store!DiskFills
    <2>3. QED
      BY <2>2 DEF Store!Next
  <1>17. CASE UNCHANGED vars
    BY <1>17 DEF vars, mapped
  <1>18. QED
    BY <1>2, <1>3, <1>4, <1>5, <1>6, <1>7, <1>8, <1>9, <1>10, <1>11, <1>12, <1>14, <1>15,
       <1>16, <1>17 DEF Next

LEMMA StartMaps ==
  Init => Store!Init
  BY DEF Init, Store!Init

\* ImplementsKeyValue: the config file is a map. Each command changes the entry
\* it names and no other, and entries are lost only when it is killed, the disk
\* fills up, or the format does not carry them.
THEOREM ConfigIsAMap ==
  Spec => ImplementsKeyValue
  <1>1. Init => Shape /\ Course
    BY KindsAtFirst, CourseAtFirst
  <1>2. Shape /\ Course /\ [Next]_vars => Shape' /\ Course'
    BY KindsStay, CourseStays
  <1>3. Shape /\ Course /\ Course' /\ [Next]_vars => [Store!Next]_mapped
    BY StepsMap
  <1>4. QED
    BY <1>1, <1>2, <1>3, StartMaps, PTL DEF Spec, ImplementsKeyValue, Store!Spec, mapped
=============================================================================
