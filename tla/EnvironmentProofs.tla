--------------------------- MODULE EnvironmentProofs ---------------------------
(***************************************************************************)
(* The array of strings never writes past its cells and loses no string;   *)
(* strcmp orders the strings, qsort sorts them; and merge_env gives the    *)
(* pager an environment that is whole, whatever the environment of         *)
(* git-chat is.                                                            *)
(*                                                                         *)
(* merge_env copies both environments, sorts them, walks along both, and   *)
(* adds what the walk left.  MergeInv says what holds in each of the three *)
(* stages.  The walk compares whole strings where it means names, so that  *)
(* a variable of the user's whose name begins with one of the pager's can  *)
(* overtake it (Overtaken); the names that nothing overtakes are in place  *)
(* (InPlace), and only of them does the invariant say that they come once. *)
(***************************************************************************)
EXTENDS ChildEnvironment, OrderLemmas, FiniteSetTheorems, TLAPS

-----------------------------------------------------------------------------
(* str_array.                                                               *)

Arrays(S) == [len : Nat, cells : Seq(S \cup {Null, Garbage})]

\* An array that was made room in has a cell for the string and one for the
\* terminator, and the strings it had.
LEMMA RoomIsMade ==
  ASSUME NEW S, NEW a \in Arrays(S), Holds(a)
  PROVE  /\ Room(a) \in Arrays(S) /\ Room(a).len = a.len
         /\ a.len + 2 <= Len(Room(a).cells)
         /\ a.len <= Len(a.cells)
         /\ \A i \in 1..a.len : Room(a).cells[i] = a.cells[i]
  <1> DEFINE T == S \cup {Null, Garbage}
             n == Len(a.cells) + BuffSlop
             grown == [i \in 1..n |-> IF i <= Len(a.cells) THEN a.cells[i] ELSE Garbage]
  <1>0. BuffSlop \in Nat /\ BuffSlop >= 2
    BY SlopAssumption
  <1>1. a.len \in Nat /\ a.cells \in Seq(T) /\ Len(a.cells) \in Nat
        /\ \A i \in 1..Len(a.cells) : a.cells[i] \in T
        /\ a = [len |-> a.len, cells |-> a.cells]
    BY DEF Arrays
  <1>2. (a.len = 0 /\ Len(a.cells) = 0) \/ a.len < Len(a.cells)
    <2>1. a = FreshArray => a.len = 0 /\ a.cells = << >>
      BY DEF FreshArray
    <2>2. QED
      BY <2>1 DEF Holds
  <1>3. CASE a.len + 2 >= Len(a.cells)
    <2>1. n \in Nat /\ n - 1 >= a.len
      BY <1>0, <1>1, <1>2
    <2>2. grown \in Seq(T) /\ Len(grown) = n
      <3>1. \A i \in 1..n : grown[i] \in T
        BY <1>1
      <3>2. DOMAIN grown = 1..n /\ grown \in [1..n -> T]
        BY <3>1
      <3> HIDE DEF grown, n, T
      <3>3. QED
        BY <2>1, <3>2
    <2>3. Room(a) = [len |-> a.len, cells |-> grown]
      <3>1. Room(a) = [a EXCEPT !.cells = grown]
        BY <1>0, <1>1, <1>3, <2>1 DEF Room, Grow
      <3> HIDE DEF grown
      <3>2. QED
        BY <3>1, Zenon DEF Arrays
    <2>4. \A i \in 1..a.len : grown[i] = a.cells[i]
      BY <1>0, <1>1, <1>2
    <2> HIDE DEF grown
    <2>5. QED
      BY <1>0, <1>1, <1>2, <2>2, <2>3, <2>4 DEF Arrays
  <1>4. CASE ~(a.len + 2 >= Len(a.cells))
    BY <1>1, <1>2, <1>4 DEF Room
  <1>5. QED
    BY <1>3, <1>4

\* str_array_push: the string is the last one, the others stay, and the array
\* is terminated within its cells.
THEOREM PushKeeps ==
  ASSUME NEW S, NEW a \in Arrays(S), Holds(a), NEW s \in S, s \notin {Null, Garbage}
  PROVE  /\ Push(a, s) \in Arrays(S) /\ Holds(Push(a, s))
         /\ Contents(Push(a, s)) = Append(Contents(a), s)
  <1> DEFINE b == Room(a)
             c == [b.cells EXCEPT ![b.len + 1] = s, ![b.len + 2] = Null]
             T == S \cup {Null, Garbage}
  <1>1. /\ b \in Arrays(S) /\ b.len = a.len /\ a.len + 2 <= Len(b.cells)
        /\ \A i \in 1..a.len : b.cells[i] = a.cells[i]
        /\ a.len <= Len(a.cells)
    BY RoomIsMade
  <1>2. a.len \in Nat /\ a.cells \in Seq(T) /\ b.cells \in Seq(T) /\ Len(b.cells) \in Nat
        /\ Len(a.cells) \in Nat
    BY <1>1 DEF Arrays
  <1>3. \A i \in 1..a.len : a.cells[i] \notin {Null, Garbage}
    BY DEF Holds, FreshArray
  <1>4. Push(a, s) = [len |-> a.len + 1, cells |-> c]
    BY <1>1 DEF Push
  <1> HIDE DEF b
  <1>5. /\ c \in Seq(T) /\ Len(c) = Len(b.cells)
        /\ c[a.len + 1] = s /\ c[a.len + 2] = Null
        /\ \A i \in 1..a.len : c[i] = a.cells[i]
    BY <1>1, <1>2
  <1> HIDE DEF c
  <1>6. /\ Push(a, s) \in Arrays(S) /\ Holds(Push(a, s))
        /\ Push(a, s).len = a.len + 1 /\ Push(a, s).cells = c
    <2>1. Push(a, s).len = a.len + 1 /\ Push(a, s).cells = c
      BY <1>4
    <2>2. Push(a, s) \in Arrays(S)
      BY <1>2, <1>4, <1>5 DEF Arrays
    <2>3. \A i \in 1..a.len + 1 : c[i] \notin {Null, Garbage}
      BY <1>2, <1>3, <1>5
    <2>4. Holds(Push(a, s))
      BY <1>1, <1>2, <1>5, <2>1, <2>3 DEF Holds
    <2>5. QED
      BY <2>1, <2>2, <2>4
  <1>7. SubSeq(c, 1, a.len + 1) = Append(SubSeq(a.cells, 1, a.len), s)
    <2>1. SubSeq(c, 1, a.len + 1) = [i \in 1..a.len + 1 |-> c[i]]
      BY <1>1, <1>2, <1>5
    <2>2. SubSeq(a.cells, 1, a.len) = [i \in 1..a.len |-> a.cells[i]]
      BY <1>1, <1>2
    <2>3. SubSeq(a.cells, 1, a.len) \in Seq(T) /\ Len(SubSeq(a.cells, 1, a.len)) = a.len
      BY <1>1, <1>2
    <2>4. /\ Append(SubSeq(a.cells, 1, a.len), s) \in Seq(T)
          /\ Len(Append(SubSeq(a.cells, 1, a.len), s)) = a.len + 1
          /\ Append(SubSeq(a.cells, 1, a.len), s)[a.len + 1] = s
          /\ \A i \in 1..a.len : Append(SubSeq(a.cells, 1, a.len), s)[i] = a.cells[i]
      <3> DEFINE old == SubSeq(a.cells, 1, a.len)
      <3>1. \A i \in 1..a.len : old[i] = a.cells[i]
        BY <2>2
      <3>2. a.len \in Nat
        BY <1>2
      <3>3. s \in T
        OBVIOUS
      <3> HIDE DEF old, T
      <3>4. QED
        BY <2>3, <3>1, <3>2, <3>3 DEF old
    <2> DEFINE appended == Append(SubSeq(a.cells, 1, a.len), s)
    <2>5. a.len \in Nat /\ appended \in Seq(T) /\ Len(appended) = a.len + 1
      BY <1>2, <2>4
    <2>6. \A i \in 1..a.len + 1 : c[i] = appended[i]
      <3>1. c[a.len + 1] = appended[a.len + 1]
        BY <1>5, <2>4
      <3>2. \A i \in 1..a.len : c[i] = appended[i]
        BY <1>5, <2>4
      <3> HIDE DEF appended
      <3>3. QED
        BY <2>5, <3>1, <3>2
    <2> HIDE DEF appended, T
    <2>7. appended = [i \in 1..a.len + 1 |-> appended[i]]
      BY <2>5
    <2>8. [i \in 1..a.len + 1 |-> c[i]] = [i \in 1..a.len + 1 |-> appended[i]]
      BY <2>6
    <2>9. QED
      BY <2>1, <2>7, <2>8 DEF appended
  <1>8. QED
    BY <1>6, <1>7 DEF Contents

\* str_array_insert, at any position: the strings before it stay, the others
\* move up by one, and the array is terminated within its cells.
THEOREM InsertKeeps ==
  ASSUME NEW S, NEW a \in Arrays(S), Holds(a), NEW s \in S, s \notin {Null, Garbage},
         NEW pos \in Nat
  PROVE  LET at == IF pos < a.len THEN pos ELSE a.len IN
         /\ Insert(a, s, pos) \in Arrays(S) /\ Holds(Insert(a, s, pos))
         /\ Contents(Insert(a, s, pos)) =
              [i \in 1..a.len + 1 |-> IF i <= at THEN a.cells[i]
                                      ELSE IF i = at + 1 THEN s ELSE a.cells[i - 1]]
  <1> DEFINE at == IF pos < a.len THEN pos ELSE a.len
             b == Room(a)
             c == [i \in DOMAIN b.cells |->
                    CASE i = at + 1                    -> s
                      [] i > at + 1 /\ i <= a.len + 1  -> b.cells[i - 1]
                      [] i = a.len + 2                 -> Null
                      [] OTHER                         -> b.cells[i]]
             T == S \cup {Null, Garbage}
             new == [i \in 1..a.len + 1 |-> IF i <= at THEN a.cells[i]
                                            ELSE IF i = at + 1 THEN s ELSE a.cells[i - 1]]
  <1>1. /\ b \in Arrays(S) /\ b.len = a.len /\ a.len + 2 <= Len(b.cells)
        /\ \A i \in 1..a.len : b.cells[i] = a.cells[i]
        /\ a.len <= Len(a.cells)
    BY RoomIsMade
  <1>2. a.len \in Nat /\ a.cells \in Seq(T) /\ b.cells \in Seq(T) /\ Len(b.cells) \in Nat
        /\ Len(a.cells) \in Nat /\ at \in 0..a.len
    BY <1>1 DEF Arrays
  <1>3. \A i \in 1..a.len : a.cells[i] \notin {Null, Garbage}
    BY DEF Holds, FreshArray
  <1>4. Insert(a, s, pos) = [len |-> a.len + 1, cells |-> c]
    BY <1>1 DEF Insert
  <1> HIDE DEF b, at
  <1>5. /\ DOMAIN b.cells = 1..Len(b.cells)
        /\ \A i \in 1..Len(b.cells) : b.cells[i] \in T
    BY <1>2
  <1>6. \A i \in 1..Len(b.cells) : c[i] \in T
    BY <1>1, <1>2, <1>5
  <1>7. c \in Seq(T) /\ Len(c) = Len(b.cells)
    BY <1>2, <1>5, <1>6
  <1>8. c[a.len + 2] = Null /\ \A i \in 1..a.len + 1 : c[i] = new[i]
    <2>1. c[a.len + 2] = Null
      BY <1>1, <1>2, <1>5
    <2>2. ASSUME NEW i \in 1..a.len + 1 PROVE c[i] = new[i]
      <3>0. i \in DOMAIN b.cells
        BY <1>1, <1>2, <1>5
      <3>1. CASE i <= at
        BY <1>1, <1>2, <3>0, <3>1
      <3>2. CASE i = at + 1
        BY <1>2, <3>0, <3>2
      <3>3. CASE i > at + 1
        <4>1. i - 1 \in 1..a.len
          BY <1>2, <3>3
        <4>2. c[i] = b.cells[i - 1]
          BY <1>2, <3>0, <3>3
        <4>3. QED
          BY <1>1, <1>2, <3>3, <4>1, <4>2
      <3>4. QED
        BY <1>2, <3>1, <3>2, <3>3
    <2>3. QED
      BY <2>1, <2>2
  <1> HIDE DEF c
  <1>9. \A i \in 1..a.len + 1 : new[i] \notin {Null, Garbage}
    BY <1>2, <1>3
  <1>10. SubSeq(c, 1, a.len + 1) = new
    <2>1. new = [i \in 1..a.len + 1 |-> new[i]]
      OBVIOUS
    <2>2. SubSeq(c, 1, a.len + 1) = [i \in 1..a.len + 1 |-> c[i]]
      BY <1>1, <1>2, <1>7
    <2> HIDE DEF new
    <2>3. QED
      BY <1>8, <2>1, <2>2
  <1> HIDE DEF new
  <1>11. /\ Insert(a, s, pos) \in Arrays(S) /\ Holds(Insert(a, s, pos))
         /\ Insert(a, s, pos).len = a.len + 1 /\ Insert(a, s, pos).cells = c
    <2>1. Insert(a, s, pos).len = a.len + 1 /\ Insert(a, s, pos).cells = c
      BY <1>4
    <2>2. Insert(a, s, pos) \in Arrays(S)
      BY <1>2, <1>4, <1>7 DEF Arrays
    <2>3. Holds(Insert(a, s, pos))
      <3>1. \A i \in 1..a.len + 1 : c[i] \notin {Null, Garbage}
        BY <1>8, <1>9
      <3>2. a.len + 1 < Len(c) /\ c[a.len + 1 + 1] = Null
        BY <1>1, <1>2, <1>7, <1>8
      <3>3. QED
        BY <2>1, <3>1, <3>2 DEF Holds
    <2>4. QED
      BY <2>1, <2>2, <2>3
  <1>12. Contents(Insert(a, s, pos)) = new
    BY <1>10, <1>11 DEF Contents
  <1>13. QED
    BY <1>11, <1>12 DEF new, at

-----------------------------------------------------------------------------
(* strcmp.                                                                  *)

Strings == Seq(Nat)

\* The characters of a string, with a terminator below them all.
CharAt(s, i) == IF i <= Len(s) THEN s[i] + 1 ELSE 0

\* A character is a number.
LEMMA AtType ==
  ASSUME NEW s \in Strings, NEW i \in Nat \ {0}
  PROVE  CharAt(s, i) \in Nat
  BY DEF Strings, CharAt

\* strcmp finds the first character that differs.
LEMMA BelowIs ==
  ASSUME NEW s \in Strings, NEW t \in Strings
  PROVE  Below(s, t) <=>
           \E i \in Nat \ {0} : /\ CharAt(s, i) < CharAt(t, i)
                                /\ \A j \in 1..(i - 1) : CharAt(s, j) = CharAt(t, j)
  <1>1. ASSUME NEW n \in Nat, n <= Len(s), n <= Len(t)
        PROVE  SubSeq(s, 1, n) = SubSeq(t, 1, n) <=> \A j \in 1..n : CharAt(s, j) = CharAt(t, j)
    <2>1. SubSeq(s, 1, n) = [j \in 1..n |-> s[j]] /\ SubSeq(t, 1, n) = [j \in 1..n |-> t[j]]
      BY <1>1 DEF Strings
    <2>2. \A j \in 1..n : s[j] \in Nat /\ t[j] \in Nat /\ CharAt(s, j) = s[j] + 1 /\ CharAt(t, j) = t[j] + 1
      BY <1>1 DEF Strings, CharAt
    <2>3. (\A j \in 1..n : CharAt(s, j) = CharAt(t, j)) <=> \A j \in 1..n : s[j] = t[j]
      BY <2>2
    <2>4. [j \in 1..n |-> s[j]] = [j \in 1..n |-> t[j]] => \A j \in 1..n : s[j] = t[j]
      <3>1. \A j \in 1..n : [i \in 1..n |-> s[i]][j] = s[j] /\ [i \in 1..n |-> t[i]][j] = t[j]
        OBVIOUS
      <3>2. QED
        BY <3>1, Zenon
    <2>5. (\A j \in 1..n : s[j] = t[j]) => [j \in 1..n |-> s[j]] = [j \in 1..n |-> t[j]]
      BY Zenon
    <2>6. QED
      BY <2>1, <2>3, <2>4, <2>5, Zenon
  <1>2. Len(s) \in Nat /\ Len(t) \in Nat /\ DOMAIN s = 1..Len(s) /\ DOMAIN t = 1..Len(t)
        /\ (\A j \in 1..Len(s) : s[j] \in Nat) /\ (\A j \in 1..Len(t) : t[j] \in Nat)
    BY DEF Strings
  <1>3. ASSUME IsStrictPrefix(s, t)
        PROVE  \E i \in Nat \ {0} : /\ CharAt(s, i) < CharAt(t, i)
                                    /\ \A j \in 1..(i - 1) : CharAt(s, j) = CharAt(t, j)
    <2>1. Len(s) <= Len(t) /\ SubSeq(s, 1, Len(s)) = SubSeq(t, 1, Len(s)) /\ s # t
      BY <1>3 DEF IsStrictPrefix, IsPrefix
    <2>2. \A j \in 1..Len(s) : CharAt(s, j) = CharAt(t, j)
      BY <1>1, <1>2, <2>1
    <2>3. Len(s) # Len(t)
      <3>1. SubSeq(s, 1, Len(s)) = s /\ SubSeq(t, 1, Len(t)) = t
        BY DEF Strings
      <3>2. QED
        BY <2>1, <3>1
    <2>4. CharAt(s, Len(s) + 1) < CharAt(t, Len(s) + 1)
      <3>0. Len(s) <= Len(t) /\ Len(s) \in Nat /\ Len(t) \in Nat
        BY <1>2, <2>1
      <3>1. Len(s) + 1 \in 1..Len(t) /\ ~(Len(s) + 1 <= Len(s))
        BY <2>3, <3>0
      <3>2. t[Len(s) + 1] \in Nat
        BY <1>2, <3>1
      <3>3. QED
        BY <3>1, <3>2 DEF CharAt
    <2>5. QED
      BY <1>2, <2>2, <2>4
  <1>4. ASSUME NEW i \in DOMAIN s \cap DOMAIN t, s[i] < t[i],
               SubSeq(s, 1, i - 1) = SubSeq(t, 1, i - 1)
        PROVE  /\ i \in Nat \ {0} /\ CharAt(s, i) < CharAt(t, i)
               /\ \A j \in 1..(i - 1) : CharAt(s, j) = CharAt(t, j)
    <2>1. i \in Nat \ {0} /\ i <= Len(s) /\ i <= Len(t) /\ i - 1 \in Nat
      BY <1>2
    <2>2. CharAt(s, i) < CharAt(t, i)
      BY <1>2, <1>4, <2>1 DEF CharAt
    <2>3. \A j \in 1..(i - 1) : CharAt(s, j) = CharAt(t, j)
      BY <1>1, <1>2, <1>4, <2>1
    <2>4. QED
      BY <2>1, <2>2, <2>3
  <1>5. ASSUME NEW i \in Nat \ {0}, CharAt(s, i) < CharAt(t, i),
               \A j \in 1..(i - 1) : CharAt(s, j) = CharAt(t, j)
        PROVE  Below(s, t)
    <2>0. i <= Len(t)
      BY <1>2, <1>5 DEF CharAt
    <2>1. CASE i <= Len(s)
      <3>1. SubSeq(s, 1, i - 1) = SubSeq(t, 1, i - 1)
        <4>1. i - 1 \in Nat /\ i - 1 <= Len(s) /\ i - 1 <= Len(t)
          BY <1>2, <2>0, <2>1
        <4>2. QED
          BY <1>1, <1>5, <4>1
      <3>2. s[i] < t[i] /\ i \in DOMAIN s \cap DOMAIN t
        BY <1>2, <1>5, <2>0, <2>1 DEF CharAt
      <3>3. QED
        BY <3>1, <3>2 DEF Below
    <2>2. CASE i > Len(s)
      <3>1. i = Len(s) + 1
        <4>1. SUFFICES ASSUME i - 1 > Len(s) PROVE FALSE
          BY <1>2, <2>2
        <4>2. Len(s) + 1 \in 1..(i - 1) /\ Len(s) + 1 <= Len(t)
          BY <1>2, <2>0, <4>1
        <4>3. CharAt(s, Len(s) + 1) = 0 /\ CharAt(t, Len(s) + 1) = t[Len(s) + 1] + 1
          BY <1>2, <4>2 DEF CharAt
        <4>4. QED
          BY <1>2, <1>5, <4>2, <4>3
      <3>2. Len(s) < Len(t) /\ SubSeq(s, 1, Len(s)) = SubSeq(t, 1, Len(s))
        BY <1>1, <1>2, <1>5, <2>0, <3>1
      <3>3. QED
        BY <1>2, <3>2 DEF Below, IsStrictPrefix, IsPrefix
    <2>3. QED
      BY <1>2, <2>1, <2>2
  <1>6. QED
    BY <1>3, <1>4, <1>5 DEF Below

\* Strings with the same characters are one.
LEMMA SameString ==
  ASSUME NEW s \in Strings, NEW t \in Strings,
         \A i \in Nat \ {0} : CharAt(s, i) = CharAt(t, i)
  PROVE  s = t
  <1>1. /\ Len(s) \in Nat /\ s \in [1..Len(s) -> Nat]
        /\ Len(t) \in Nat /\ t \in [1..Len(t) -> Nat]
    BY DEF Strings
  <1>2. CharAt(s, Len(t) + 1) = 0 /\ CharAt(t, Len(s) + 1) = 0
    <2>1. CharAt(s, Len(s) + 1) = 0 /\ CharAt(t, Len(t) + 1) = 0
      BY <1>1 DEF CharAt
    <2>2. Len(s) + 1 \in Nat \ {0} /\ Len(t) + 1 \in Nat \ {0}
      BY <1>1
    <2>3. QED
      BY <2>1, <2>2
  <1>3. \A i \in 1..Len(t) : CharAt(t, i) # 0
    BY <1>1 DEF CharAt
  <1>4. \A i \in 1..Len(s) : CharAt(s, i) # 0
    BY <1>1 DEF CharAt
  <1>5. Len(s) = Len(t)
    <2>1. ~(Len(s) + 1 <= Len(t))
      BY <1>1, <1>2, <1>3
    <2>2. ~(Len(t) + 1 <= Len(s))
      BY <1>1, <1>2, <1>4
    <2>3. Len(s) \in Nat /\ Len(t) \in Nat
      BY <1>1
    <2>4. QED
      BY <2>1, <2>2, <2>3
  <1>6. \A i \in 1..Len(s) : s[i] = t[i]
    <2> SUFFICES ASSUME NEW i \in 1..Len(s) PROVE s[i] = t[i]
      OBVIOUS
    <2>1. i \in Nat \ {0} /\ CharAt(s, i) = s[i] + 1 /\ CharAt(t, i) = t[i] + 1
          /\ s[i] \in Nat /\ t[i] \in Nat
      BY <1>1, <1>5 DEF CharAt
    <2>2. QED
      BY <2>1
  <1>7. QED
    BY <1>1, <1>5, <1>6

\* strcmp orders the strings.
LEMMA BelowOrders ==
  /\ \A s \in Strings : ~Below(s, s)
  /\ \A s, t, u \in Strings : Below(s, t) /\ Below(t, u) => Below(s, u)
  /\ \A s, t \in Strings : s # t => Below(s, t) \/ Below(t, s)
  <1>1. ASSUME NEW s \in Strings
        PROVE  ~Below(s, s)
    BY BelowIs, AtType
  <1>2. ASSUME NEW s \in Strings, NEW t \in Strings, NEW u \in Strings, Below(s, t), Below(t, u)
        PROVE  Below(s, u)
    <2>1. PICK i \in Nat \ {0} : /\ CharAt(s, i) < CharAt(t, i)
                                 /\ \A j \in 1..(i - 1) : CharAt(s, j) = CharAt(t, j)
      BY <1>2, BelowIs
    <2>2. PICK k \in Nat \ {0} : /\ CharAt(t, k) < CharAt(u, k)
                                 /\ \A j \in 1..(k - 1) : CharAt(t, j) = CharAt(u, j)
      BY <1>2, BelowIs
    <2>3. \A j \in Nat \ {0} : CharAt(s, j) \in Nat /\ CharAt(t, j) \in Nat /\ CharAt(u, j) \in Nat
      BY AtType
    <2>4. PICK n \in {i, k} : n <= i /\ n <= k
      BY <2>1, <2>2
    <2>5. CharAt(s, n) < CharAt(u, n)
      BY <2>1, <2>2, <2>3, <2>4
    <2>6. \A j \in 1..(n - 1) : CharAt(s, j) = CharAt(u, j)
      BY <2>1, <2>2, <2>4
    <2>7. QED
      BY <2>4, <2>5, <2>6, BelowIs
  <1>3. ASSUME NEW s \in Strings, NEW t \in Strings, s # t
        PROVE  Below(s, t) \/ Below(t, s)
    <2> DEFINE D == {i \in Nat \ {0} : CharAt(s, i) # CharAt(t, i)}
    <2>1. D \subseteq Nat /\ D # {}
      BY <1>3, SameString
    <2>2. PICK i \in D : \A j \in D : i <= j
      <3> HIDE DEF D
      <3> QED
        BY <2>1, LeastExists
    <2>3. i \in Nat \ {0} /\ CharAt(s, i) # CharAt(t, i)
      BY <2>2
    <2>4. \A j \in 1..(i - 1) : CharAt(s, j) = CharAt(t, j)
      BY <2>2, <2>3
    <2>5. CharAt(s, i) < CharAt(t, i) \/ CharAt(t, i) < CharAt(s, i)
      BY <2>3, AtType
    <2> HIDE DEF D
    <2>6. QED
      BY <2>3, <2>4, <2>5, BelowIs
  <1>4. QED
    BY <1>1, <1>2, <1>3

-----------------------------------------------------------------------------
(* Names of variables.                                                     *)

\* A name is what stands before the first "=".
LEMMA KeyIs ==
  ASSUME NEW s \in Strings
  PROVE  /\ Key(s) \in Strings /\ Len(Key(s)) <= Len(s)
         /\ \A i \in 1..Len(Key(s)) : Key(s)[i] = s[i] /\ s[i] # Eq
         /\ Len(Key(s)) < Len(s) => s[Len(Key(s)) + 1] = Eq
  <1> DEFINE I == {i \in 1..Len(s) : s[i] = Eq}
             eq == IF I # {} THEN Min(I) ELSE 0
  <1>1. Key(s) = IF eq = 0 THEN s ELSE SubSeq(s, 1, eq - 1)
    BY DEF Key, SelectInSeq
  <1>2. Len(s) \in Nat /\ (\A i \in 1..Len(s) : s[i] \in Nat)
    BY DEF Strings
  <1>3. CASE I = {}
    <2>1. eq = 0
      BY <1>3
    <2>2. \A i \in 1..Len(s) : s[i] # Eq
      BY <1>3
    <2>3. QED
      BY <1>1, <1>2, <2>1, <2>2
  <1>4. CASE I # {}
    <2>1. eq = Min(I)
      BY <1>4
    <2>2. I \subseteq Nat
      BY <1>2
    <2>3. eq \in I /\ \A j \in I : eq <= j
      <3> HIDE DEF I
      <3> QED
        BY <1>4, <2>1, <2>2, MinLeast
    <2>4. eq \in 1..Len(s) /\ s[eq] = Eq
      BY <2>3
    <2>5. \A i \in 1..(eq - 1) : s[i] # Eq
      BY <1>2, <2>3, <2>4
    <2> HIDE DEF I, eq
    <2>6. Key(s) = SubSeq(s, 1, eq - 1)
      BY <1>1, <2>4
    <2>7. /\ Key(s) \in Strings /\ Len(Key(s)) = eq - 1
          /\ \A i \in 1..(eq - 1) : Key(s)[i] = s[i]
      BY <1>2, <2>4, <2>6 DEF Strings
    <2>8. QED
      BY <1>2, <2>4, <2>5, <2>7
  <1>5. QED
    BY <1>3, <1>4

\* Two strings the other way round than their names: the name of the second
\* goes on, where the other ends, with a character below "=".
LEMMA NamesOvertake ==
  ASSUME NEW s \in Strings, NEW t \in Strings, Below(s, t), Below(Key(t), Key(s))
  PROVE  IsStrictPrefix(Key(t), Key(s)) /\ Key(s)[Len(Key(t)) + 1] < Eq
  <1>1. /\ Key(s) \in Strings /\ Len(Key(s)) <= Len(s)
        /\ \A i \in 1..Len(Key(s)) : Key(s)[i] = s[i] /\ s[i] # Eq
    BY KeyIs
  <1>2. /\ Key(t) \in Strings /\ Len(Key(t)) <= Len(t)
        /\ \A i \in 1..Len(Key(t)) : Key(t)[i] = t[i]
        /\ Len(Key(t)) < Len(t) => t[Len(Key(t)) + 1] = Eq
    BY KeyIs
  <1>3. ~Below(t, s)
    BY BelowOrders
  <1>4. PICK i \in Nat \ {0} :
          /\ CharAt(Key(t), i) < CharAt(Key(s), i)
          /\ \A j \in 1..(i - 1) : CharAt(Key(t), j) = CharAt(Key(s), j)
    BY <1>1, <1>2, BelowIs
  <1>5. /\ Len(s) \in Nat /\ Len(t) \in Nat /\ Len(Key(s)) \in Nat /\ Len(Key(t)) \in Nat
        /\ (\A j \in 1..Len(s) : s[j] \in Nat) /\ (\A j \in 1..Len(t) : t[j] \in Nat)
    BY <1>1, <1>2 DEF Strings
  <1>6. i <= Len(Key(s)) /\ Key(s)[i] = s[i] /\ s[i] \in Nat /\ CharAt(s, i) = s[i] + 1
    <2>1. i <= Len(Key(s))
      <3>1. CharAt(Key(t), i) \in Nat
        BY <1>2, AtType
      <3>2. QED
        BY <1>4, <3>1 DEF CharAt
    <2>2. QED
      BY <1>1, <1>5, <2>1 DEF CharAt
  <1>7. \A j \in 1..(i - 1) : CharAt(t, j) = CharAt(s, j) /\ j <= Len(Key(t))
    <2> SUFFICES ASSUME NEW j \in 1..(i - 1)
                 PROVE  CharAt(t, j) = CharAt(s, j) /\ j <= Len(Key(t))
      OBVIOUS
    <2>1. j \in 1..Len(Key(s)) /\ j <= Len(s)
      BY <1>1, <1>5, <1>6
    <2>2. CharAt(Key(s), j) = s[j] + 1 /\ s[j] \in Nat /\ CharAt(s, j) = s[j] + 1
      BY <1>1, <1>5, <2>1 DEF CharAt
    <2>3. CharAt(Key(t), j) = s[j] + 1
      BY <1>4, <2>2
    <2>4. j <= Len(Key(t))
      BY <2>2, <2>3 DEF CharAt
    <2>5. CharAt(t, j) = CharAt(Key(t), j)
      BY <1>2, <1>5, <2>1, <2>4 DEF CharAt
    <2>6. QED
      BY <2>2, <2>3, <2>4, <2>5
  <1>8. ~(CharAt(t, i) < CharAt(s, i))
    <2>1. \A j \in 1..(i - 1) : CharAt(t, j) = CharAt(s, j)
      BY <1>7
    <2>2. QED
      BY <1>3, <2>1, BelowIs
  <1>9. i = Len(Key(t)) + 1
    <2>1. ~(i <= Len(Key(t)))
      <3>1. SUFFICES ASSUME i <= Len(Key(t)) PROVE FALSE
        OBVIOUS
      <3>2. CharAt(t, i) = t[i] + 1 /\ CharAt(Key(t), i) = t[i] + 1
        BY <1>2, <1>5, <3>1 DEF CharAt
      <3>3. CharAt(Key(s), i) = s[i] + 1
        BY <1>6 DEF CharAt
      <3>4. QED
        BY <1>4, <1>6, <1>8, <3>2, <3>3
    <2>2. i = 1 \/ i - 1 <= Len(Key(t))
      BY <1>7
    <2>3. QED
      BY <1>5, <2>1, <2>2
  <1>10. Key(s)[i] < Eq
    <2>1. i <= Len(t) => t[i] = Eq /\ CharAt(t, i) = Eq + 1
      BY <1>2, <1>5, <1>9 DEF CharAt
    <2>2. ~(i <= Len(t)) => CharAt(t, i) = 0
      BY DEF CharAt
    <2>3. s[i] # Eq
      BY <1>1, <1>6
    <2>4. QED
      BY <1>6, <1>8, <2>1, <2>2, <2>3 DEF Eq
  <1>11. IsStrictPrefix(Key(t), Key(s))
    <2> DEFINE n == Len(Key(t))
    <2>1. n \in Nat /\ n < Len(Key(s)) /\ n = i - 1
      BY <1>5, <1>6, <1>9
    <2>2. SubSeq(Key(t), 1, n) = [j \in 1..n |-> Key(t)[j]]
          /\ SubSeq(Key(s), 1, n) = [j \in 1..n |-> Key(s)[j]]
      BY <1>1, <1>2, <2>1 DEF Strings
    <2>3. \A j \in 1..n : Key(t)[j] = Key(s)[j]
      <3> SUFFICES ASSUME NEW j \in 1..n PROVE Key(t)[j] = Key(s)[j]
        OBVIOUS
      <3>1. CharAt(Key(t), j) = CharAt(Key(s), j)
        BY <1>4, <2>1
      <3>2. Key(t)[j] \in Nat /\ Key(s)[j] \in Nat
        <4>1. j \in 1..Len(Key(t)) /\ j \in 1..Len(Key(s))
          BY <1>5, <2>1
        <4>2. \A r \in Strings : \A k \in 1..Len(r) : r[k] \in Nat
          BY DEF Strings
        <4>3. QED
          BY <1>1, <1>2, <4>1, <4>2, Zenon
      <3>3. QED
        BY <1>5, <2>1, <3>1, <3>2 DEF CharAt
    <2>4. SubSeq(Key(t), 1, n) = SubSeq(Key(s), 1, n)
      BY <2>2, <2>3, Zenon
    <2> HIDE DEF n
    <2>5. Key(t) # Key(s) /\ n <= Len(Key(s))
      BY <1>5, <2>1 DEF n
    <2>6. QED
      BY <2>4, <2>5 DEF IsStrictPrefix, IsPrefix, n
  <1>12. QED
    BY <1>9, <1>10, <1>11

-----------------------------------------------------------------------------
(* qsort.                                                                  *)

\* qsort, with strcmp for its order: the strings of a sorted array are the ones
\* it had, in order, and it is terminated within its cells.
THEOREM SortSorts ==
  ASSUME NEW S, S \subseteq Strings, NEW a \in Arrays(S), Holds(a)
  PROVE  /\ Sort(a) \in Arrays(S) /\ Holds(Sort(a)) /\ Sort(a).len = a.len
         /\ \E from \in [1..a.len -> 1..a.len] :
              /\ \A k \in 1..a.len : Sort(a).cells[k] = a.cells[from[k]]
              /\ \A i \in 1..a.len : \E k \in 1..a.len : from[k] = i
              /\ \A k, l \in 1..a.len : k < l =>
                   /\ from[k] # from[l]
                   /\ Below(a.cells[from[k]], a.cells[from[l]]) \/ a.cells[from[k]] = a.cells[from[l]]
  <1> DEFINE n == a.len
             x(i) == a.cells[i]
             R == {e \in (1..n) \X (1..n) : Below(x(e[1]), x(e[2])) \/ (x(e[1]) = x(e[2]) /\ e[1] < e[2])}
             Before(i) == {j \in 1..n : Below(x(j), x(i)) \/ (x(j) = x(i) /\ j < i)}
             InR(i) == {j \in 1..n : <<j, i>> \in R}
             from == [k \in 1..n |-> CHOOSE i \in 1..n : Cardinality(Before(i)) = k - 1]
             cells == [k \in DOMAIN a.cells |-> a.cells[IF k <= n THEN from[k] ELSE k]]
  <1>1. /\ n \in Nat /\ Len(a.cells) \in Nat /\ DOMAIN a.cells = 1..Len(a.cells)
        /\ a.cells \in Seq(S \cup {Null, Garbage}) /\ a = [len |-> n, cells |-> a.cells]
    BY DEF Arrays
  <1>2. n <= Len(a.cells) /\ \A i \in 1..n : x(i) \notin {Null, Garbage}
    <2>1. a = FreshArray => n = 0
      BY DEF FreshArray
    <2>2. QED
      BY <1>1, <2>1 DEF Holds
  <1>3. \A i \in 1..n : x(i) \in Strings
    <2>1. \A i \in 1..Len(a.cells) : a.cells[i] \in S \cup {Null, Garbage}
      BY <1>1
    <2>2. QED
      BY <1>1, <1>2, <2>1
  <1> HIDE DEF x
  <1>4. \A i \in 1..n : Before(i) = InR(i)
    OBVIOUS
  <1>5. /\ \A i \in 1..n : <<i, i>> \notin R
        /\ \A i, j, k \in 1..n : <<i, j>> \in R /\ <<j, k>> \in R => <<i, k>> \in R
        /\ \A i, j \in 1..n : i # j => <<i, j>> \in R \/ <<j, i>> \in R
    <2>1. \A i, j \in 1..n : <<i, j>> \in R <=> (Below(x(i), x(j)) \/ (x(i) = x(j) /\ i < j))
      <3> SUFFICES ASSUME NEW i \in 1..n, NEW j \in 1..n
                   PROVE  <<i, j>> \in R <=> (Below(x(i), x(j)) \/ (x(i) = x(j) /\ i < j))
        OBVIOUS
      <3> DEFINE e == <<i, j>>
      <3>1. e \in (1..n) \X (1..n) /\ e[1] = i /\ e[2] = j
        OBVIOUS
      <3>2. e \in R <=> (Below(x(e[1]), x(e[2])) \/ (x(e[1]) = x(e[2]) /\ e[1] < e[2]))
        <4> HIDE DEF e, n
        <4> QED
          BY <3>1
      <3>3. QED
        BY <3>1, <3>2
    <2> HIDE DEF R
    <2>2. \A i \in 1..n : <<i, i>> \notin R
      BY <1>1, <1>3, <2>1, BelowOrders
    <2>3. ASSUME NEW i \in 1..n, NEW j \in 1..n, NEW k \in 1..n, <<i, j>> \in R, <<j, k>> \in R
          PROVE  <<i, k>> \in R
      <3>1. x(i) \in Strings /\ x(j) \in Strings /\ x(k) \in Strings
        BY <1>3
      <3>2. Below(x(i), x(j)) /\ Below(x(j), x(k)) => Below(x(i), x(k))
        BY <3>1, BelowOrders
      <3>3. QED
        BY <1>1, <2>1, <2>3, <3>2
    <2>4. ASSUME NEW i \in 1..n, NEW j \in 1..n, i # j
          PROVE  <<i, j>> \in R \/ <<j, i>> \in R
      <3>1. x(i) # x(j) => Below(x(i), x(j)) \/ Below(x(j), x(i))
        BY <1>3, BelowOrders
      <3>2. i < j \/ j < i
        BY <1>1, <2>4
      <3> HIDE DEF n
      <3>3. CASE x(i) = x(j)
        BY <2>1, <3>2, <3>3
      <3>4. CASE x(i) # x(j)
        <4>1. Below(x(i), x(j)) => <<i, j>> \in R
          BY <2>1
        <4>2. Below(x(j), x(i)) => <<j, i>> \in R
          BY <2>1
        <4>3. QED
          BY <3>1, <3>4, <4>1, <4>2
      <3>5. QED
        BY <3>3, <3>4
    <2>5. QED
      BY <2>2, <2>3, <2>4
  <1>6. /\ \A i \in 1..n : Cardinality(InR(i)) \in 0..(n - 1)
        /\ \A i, j \in 1..n : <<i, j>> \in R => Cardinality(InR(i)) < Cardinality(InR(j))
        /\ \A k \in 1..n : \E i \in 1..n : Cardinality(InR(i)) = k - 1
    <2> HIDE DEF R, n
    <2>1. /\ n \in Nat
          /\ \A i \in 1..n : <<i, i>> \notin R
          /\ \A i, j, k \in 1..n : <<i, j>> \in R /\ <<j, k>> \in R => <<i, k>> \in R
          /\ \A i, j \in 1..n : i # j => <<i, j>> \in R \/ <<j, i>> \in R
      BY <1>1, <1>5
    <2>2. QED
      BY <2>1, Ranks, Zenon
  <1>7. /\ \A i \in 1..n : Cardinality(Before(i)) \in 0..(n - 1)
        /\ \A i, j \in 1..n : <<i, j>> \in R => Cardinality(Before(i)) < Cardinality(Before(j))
        /\ \A k \in 1..n : \E i \in 1..n : Cardinality(Before(i)) = k - 1
    <2> HIDE DEF R, n, Before, InR
    <2> QED
      BY <1>4, <1>6
  <1>8. Sort(a) = [a EXCEPT !.cells = cells]
    BY Zenon DEF Sort, x
  <1> HIDE DEF Before, InR
  <1>9. \A k \in 1..n : from[k] \in 1..n /\ Cardinality(Before(from[k])) = k - 1
    BY <1>7
  <1>10. from \in [1..n -> 1..n]
    BY <1>9
  <1> HIDE DEF from
  <1>11. \A i \in 1..n : \E k \in 1..n : from[k] = i
    <2> SUFFICES ASSUME NEW i \in 1..n PROVE \E k \in 1..n : from[k] = i
      OBVIOUS
    <2> DEFINE k == Cardinality(Before(i)) + 1
    <2>1. k \in 1..n /\ k - 1 = Cardinality(Before(i))
      <3>1. Cardinality(Before(i)) \in 0..(n - 1)
        BY <1>7
      <3> HIDE DEF n
      <3>2. QED
        BY <1>1, <3>1
    <2> HIDE DEF k
    <2>2. from[k] \in 1..n /\ Cardinality(Before(from[k])) = Cardinality(Before(i))
      BY <1>9, <2>1
    <2>3. from[k] = i
      <3>1. SUFFICES ASSUME from[k] # i PROVE FALSE
        OBVIOUS
      <3>2. <<from[k], i>> \in R \/ <<i, from[k]>> \in R
        BY <1>5, <2>2, <3>1
      <3>3. Cardinality(Before(from[k])) < Cardinality(Before(i))
            \/ Cardinality(Before(i)) < Cardinality(Before(from[k]))
        BY <1>7, <2>2, <3>2
      <3>4. Cardinality(Before(i)) \in Nat
        BY <1>7
      <3>5. QED
        BY <2>2, <3>3, <3>4
    <2>4. QED
      BY <2>1, <2>3
  <1>12. ASSUME NEW k \in 1..n, NEW l \in 1..n, k < l
         PROVE  from[k] # from[l] /\ <<from[k], from[l]>> \in R
    <2>1. from[k] \in 1..n /\ from[l] \in 1..n /\ Cardinality(Before(from[k])) = k - 1
          /\ Cardinality(Before(from[l])) = l - 1
      BY <1>9
    <2>2. from[k] # from[l]
      BY <1>1, <1>12, <2>1
    <2>3. ~(<<from[l], from[k]>> \in R)
      <3>1. ~(Cardinality(Before(from[l])) < Cardinality(Before(from[k])))
        BY <1>1, <1>12, <2>1
      <3>2. QED
        BY <1>7, <2>1, <3>1
    <2>4. QED
      BY <1>5, <2>1, <2>2, <2>3
  <1>13. \A k, l \in 1..n : k < l =>
           from[k] # from[l] /\ (Below(x(from[k]), x(from[l])) \/ x(from[k]) = x(from[l]))
    BY <1>12
  <1>14. /\ cells \in Seq(S \cup {Null, Garbage}) /\ Len(cells) = Len(a.cells)
         /\ \A k \in 1..n : cells[k] = a.cells[from[k]]
         /\ \A k \in 1..Len(a.cells) : k > n => cells[k] = a.cells[k]
    <2>1. \A k \in 1..Len(a.cells) : cells[k] = a.cells[IF k <= n THEN from[k] ELSE k]
      BY <1>1
    <2>2. \A k \in 1..n : k \in 1..Len(a.cells) /\ from[k] \in 1..Len(a.cells)
      BY <1>1, <1>2, <1>9
    <2>3. \A k \in 1..n : cells[k] = a.cells[from[k]]
      BY <2>1, <2>2
    <2>4. \A k \in 1..Len(a.cells) : k > n => cells[k] = a.cells[k]
      BY <1>1, <2>1
    <2>5. \A k \in 1..Len(a.cells) : cells[k] \in S \cup {Null, Garbage}
      <3>1. \A k \in 1..Len(a.cells) : a.cells[k] \in S \cup {Null, Garbage}
        BY <1>1
      <3>2. \A k \in 1..Len(a.cells) : k \in 1..n \/ k > n
        BY <1>1
      <3> HIDE DEF cells
      <3>3. QED
        BY <2>2, <2>3, <2>4, <3>1, <3>2
    <2>6. cells = [k \in 1..Len(a.cells) |-> cells[k]]
      BY <1>1
    <2> HIDE DEF cells
    <2>7. cells \in Seq(S \cup {Null, Garbage}) /\ Len(cells) = Len(a.cells)
      BY <1>1, <2>5, <2>6
    <2>8. QED
      BY <2>3, <2>4, <2>7
  <1> HIDE DEF cells
  <1>15. Sort(a) = [len |-> n, cells |-> cells]
    BY <1>1, <1>8
  <1>16. Sort(a) \in Arrays(S)
    BY <1>1, <1>14, <1>15 DEF Arrays
  <1>17. Holds(Sort(a))
    <2>1. CASE a = FreshArray
      <3>1. n = 0 /\ Len(a.cells) = 0
        BY <2>1 DEF FreshArray
      <3>2. cells = << >>
        BY <1>14, <3>1
      <3>3. QED
        BY <1>15, <3>1, <3>2 DEF Holds, FreshArray
    <2>2. CASE a # FreshArray
      <3>1. n < Len(a.cells) /\ a.cells[n + 1] = Null
        BY <2>2 DEF Holds
      <3>2. cells[n + 1] = Null
        BY <1>1, <1>14, <3>1
      <3>3. \A k \in 1..n : cells[k] \notin {Null, Garbage}
        BY <1>2, <1>9, <1>14 DEF x
      <3>4. QED
        BY <1>14, <1>15, <3>1, <3>2, <3>3 DEF Holds
    <2>3. QED
      BY <2>1, <2>2
  <1>18. Sort(a).len = n /\ Sort(a).cells = cells
    BY <1>15
  <1>19. /\ \A k \in 1..n : Sort(a).cells[k] = a.cells[from[k]]
         /\ \A k, l \in 1..n : k < l =>
              /\ from[k] # from[l]
              /\ Below(a.cells[from[k]], a.cells[from[l]]) \/ a.cells[from[k]] = a.cells[from[l]]
    BY <1>13, <1>14, <1>18 DEF x
  <1>20. QED
    BY <1>10, <1>11, <1>16, <1>17, <1>18, <1>19, Zenon

-----------------------------------------------------------------------------
(* The variables of the pager.                                              *)

\* name=value is three characters, the second of them "=".
LEMMA Assigned ==
  ASSUME NEW T, NEW name \in T, NEW equals \in T, NEW value \in T
  PROVE  LET s == <<name>> \o <<equals>> \o <<value>>
         IN  s \in Seq(T) /\ Len(s) = 3 /\ s[1] = name /\ s[2] = equals
  <1> DEFINE left == <<name>> \o <<equals>>
  <1>1. left \in Seq(T) /\ Len(left) = 2 /\ left[1] = name /\ left[2] = equals
    OBVIOUS
  <1>2. left = <<name, equals>>
    <2> HIDE DEF left
    <2>1. left = [i \in 1..2 |-> left[i]]
      BY <1>1
    <2>2. <<name, equals>> = [i \in 1..2 |-> left[i]]
      BY <1>1
    <2> QED
      BY <2>1, <2>2
  <1>3. <<name, equals>> \o <<value>> \in Seq(T) /\ Len(<<name, equals>> \o <<value>>) = 3
    OBVIOUS
  <1>4. (<<name, equals>> \o <<value>>)[1] = name /\ (<<name, equals>> \o <<value>>)[2] = equals
    OBVIOUS
  <1>5. QED
    BY <1>2, <1>3, <1>4

\* The three variables of the pager, and their names.
LEMMA PagerVariablesAre ==
  /\ PagerVariables \in Seq(Strings) /\ Len(PagerVariables) = 3
  /\ \A i, j \in 1..3 : i # j => Key(PagerVariables[i]) # Key(PagerVariables[j])
  /\ \A s \in ToSet(PagerVariables) : s \in Strings /\ Len(Key(s)) = 1
  /\ \A s, t \in ToSet(PagerVariables) :
       /\ Key(s) = Key(t) => s = t
       /\ Below(s, t) => Below(Key(s), Key(t))
  <1> DEFINE P == PagerVariables
             less == LessName \o <<Eq>> \o OptValue
             lv == LvName \o <<Eq>> \o OptValue
             more == MoreName \o <<Eq>> \o OptValue
  <1>1. /\ less \in Strings /\ Len(less) = 3 /\ less[1] = 4 /\ less[2] = 2
        /\ lv \in Strings /\ Len(lv) = 3 /\ lv[1] = 5 /\ lv[2] = 2
        /\ more \in Strings /\ Len(more) = 3 /\ more[1] = 7 /\ more[2] = 2
    <2>1. /\ less = <<4>> \o <<2>> \o <<9>> /\ lv = <<5>> \o <<2>> \o <<9>>
          /\ more = <<7>> \o <<2>> \o <<9>>
      BY DEF LessName, LvName, MoreName, OptValue, Eq
    <2> HIDE DEF less, lv, more
    <2>2. less \in Seq(Nat) /\ Len(less) = 3 /\ less[1] = 4 /\ less[2] = 2
      BY <2>1, Assigned
    <2>3. lv \in Seq(Nat) /\ Len(lv) = 3 /\ lv[1] = 5 /\ lv[2] = 2
      BY <2>1, Assigned
    <2>4. more \in Seq(Nat) /\ Len(more) = 3 /\ more[1] = 7 /\ more[2] = 2
      BY <2>1, Assigned
    <2>5. QED
      BY <2>2, <2>3, <2>4, Zenon DEF Strings
  <1>2. P = <<less, lv, more>>
    BY DEF PagerVariables
  <1> HIDE DEF less, lv, more, P
  <1>3. P \in Seq(Strings) /\ Len(P) = 3 /\ P[1] = less /\ P[2] = lv /\ P[3] = more
    BY <1>1, <1>2
  <1>4. ToSet(P) = {P[i] : i \in 1..3}
    BY <1>3 DEF ToSet
  <1>5. /\ \A i \in 1..3 : P[i] \in Strings /\ Len(P[i]) = 3 /\ P[i][1] \in {4, 5, 7} /\ P[i][2] = 2
        /\ \A i, j \in 1..3 : i # j => P[i][1] # P[j][1]
    <2>1. \A i \in 1..3 : i = 1 \/ i = 2 \/ i = 3
      OBVIOUS
    <2>2. QED
      BY <1>1, <1>3, <2>1
  <1>6. ASSUME NEW i \in 1..3
        PROVE  Len(Key(P[i])) = 1 /\ Key(P[i])[1] = P[i][1] /\ Key(P[i]) \in Strings
    <2>1. /\ P[i] \in Strings /\ Len(P[i]) = 3 /\ P[i][1] # 2 /\ P[i][2] = 2
      BY <1>5
    <2>2. /\ Key(P[i]) \in Strings /\ Len(Key(P[i])) <= 3
          /\ \A k \in 1..Len(Key(P[i])) : Key(P[i])[k] = P[i][k] /\ P[i][k] # 2
          /\ Len(Key(P[i])) < 3 => P[i][Len(Key(P[i])) + 1] = 2
      BY <2>1, KeyIs DEF Eq
    <2>3. Len(Key(P[i])) \in Nat
      BY <2>2 DEF Strings
    <2>4. ~(2 <= Len(Key(P[i])))
      BY <2>1, <2>2, <2>3
    <2>5. Len(Key(P[i])) # 0
      BY <2>1, <2>2
    <2>6. Len(Key(P[i])) = 1
      BY <2>3, <2>4, <2>5
    <2>7. QED
      BY <2>2, <2>6
  <1>7. \A i, j \in 1..3 : i # j => Key(P[i]) # Key(P[j])
    BY <1>5, <1>6
  <1>8. \A s \in ToSet(P) : s \in Strings /\ Len(Key(s)) = 1
    BY <1>4, <1>5, <1>6
  <1>9. \A s, t \in ToSet(P) : Key(s) = Key(t) => s = t
    BY <1>4, <1>7
  <1>10. ASSUME NEW s \in ToSet(P), NEW t \in ToSet(P), Below(s, t)
        PROVE  Below(Key(s), Key(t))
    <2>1. s \in Strings /\ t \in Strings /\ Key(s) \in Strings /\ Key(t) \in Strings
      BY <1>8, KeyIs
    <2>2. Key(s) # Key(t)
      BY <1>9, <1>10, <2>1, BelowOrders
    <2>3. ~Below(Key(t), Key(s))
      <3>1. SUFFICES ASSUME Below(Key(t), Key(s)) PROVE FALSE
        OBVIOUS
      <3>2. IsStrictPrefix(Key(t), Key(s))
        BY <1>10, <2>1, <3>1, NamesOvertake
      <3>3. SubSeq(Key(t), 1, 1) = SubSeq(Key(s), 1, 1)
        BY <1>8, <3>2 DEF IsStrictPrefix, IsPrefix
      <3>4. SubSeq(Key(t), 1, 1) = Key(t) /\ SubSeq(Key(s), 1, 1) = Key(s)
        <4>1. \A r \in Strings : Len(r) = 1 => SubSeq(r, 1, 1) = r
          BY DEF Strings
        <4>2. QED
          BY <1>8, <2>1, <4>1
      <3>5. QED
        BY <2>2, <3>3, <3>4
    <2>4. QED
      BY <2>1, <2>2, <2>3, BelowOrders
  <1>11. QED
    BY <1>3, <1>7, <1>8, <1>9, <1>10 DEF P

-----------------------------------------------------------------------------
(* merge_env copies.                                                       *)

\* The first strings of a list are in the array, and the rest is not yet.
Copies(S, a, rest, all) ==
  /\ a \in Arrays(S) /\ Holds(a) /\ rest \in Seq(S)
  /\ a.len + Len(rest) = Len(all)
  /\ \A i \in 1..a.len : a.cells[i] = all[i]
  /\ \A i \in 1..Len(rest) : rest[i] = all[a.len + i]

\* The strings of an array are its first cells.
LEMMA CellsOf ==
  ASSUME NEW S, NEW a \in Arrays(S), Holds(a)
  PROVE  /\ a.len \in Nat /\ Len(a.cells) \in Nat /\ a.len <= Len(a.cells)
         /\ \A i \in 1..a.len : a.cells[i] \in S /\ a.cells[i] \notin {Null, Garbage}
         /\ Len(Contents(a)) = a.len /\ Contents(a) \in Seq(S)
         /\ \A i \in 1..a.len : Contents(a)[i] = a.cells[i]
  <1>1. /\ a.len \in Nat /\ Len(a.cells) \in Nat /\ a.cells \in Seq(S \cup {Null, Garbage})
        /\ \A i \in 1..Len(a.cells) : a.cells[i] \in S \cup {Null, Garbage}
    BY DEF Arrays
  <1>2. a = FreshArray => a.len = 0
    BY DEF FreshArray
  <1>3. a.len <= Len(a.cells) /\ \A i \in 1..a.len : a.cells[i] \notin {Null, Garbage}
    BY <1>1, <1>2 DEF Holds
  <1>4. \A i \in 1..a.len : a.cells[i] \in S
    BY <1>1, <1>3
  <1>5. Contents(a) = [i \in 1..a.len |-> a.cells[i]]
    BY <1>1, <1>3 DEF Contents
  <1>6. Len(Contents(a)) = a.len /\ Contents(a) \in Seq(S)
    BY <1>1, <1>4, <1>5
  <1>7. QED
    BY <1>1, <1>3, <1>4, <1>5, <1>6

\* What Push and Insert do to the cells.
LEMMA PushCells ==
  ASSUME NEW S, NEW a \in Arrays(S), Holds(a), NEW s \in S, s \notin {Null, Garbage}
  PROVE  /\ Push(a, s) \in Arrays(S) /\ Holds(Push(a, s)) /\ Push(a, s).len = a.len + 1
         /\ Push(a, s).cells[a.len + 1] = s
         /\ \A i \in 1..a.len : Push(a, s).cells[i] = a.cells[i]
  <1> DEFINE b == Push(a, s)
  <1>1. b \in Arrays(S) /\ Holds(b) /\ Contents(b) = Append(Contents(a), s)
    BY PushKeeps
  <1> HIDE DEF b
  <1>2. /\ a.len \in Nat /\ Len(Contents(a)) = a.len /\ Contents(a) \in Seq(S)
        /\ \A i \in 1..a.len : Contents(a)[i] = a.cells[i]
    BY CellsOf
  <1>3. /\ b.len \in Nat /\ Len(Contents(b)) = b.len
        /\ \A i \in 1..b.len : Contents(b)[i] = b.cells[i]
    BY <1>1, CellsOf
  <1>4. /\ Len(Contents(b)) = a.len + 1 /\ Contents(b)[a.len + 1] = s
        /\ \A i \in 1..a.len : Contents(b)[i] = Contents(a)[i]
    BY <1>1, <1>2
  <1>5. b.len = a.len + 1
    BY <1>3, <1>4
  <1>6. QED
    BY <1>1, <1>2, <1>3, <1>4, <1>5 DEF b

LEMMA InsertCells ==
  ASSUME NEW S, NEW a \in Arrays(S), Holds(a), NEW s \in S, s \notin {Null, Garbage},
         NEW pos \in 0..a.len
  PROVE  /\ Insert(a, s, pos) \in Arrays(S) /\ Holds(Insert(a, s, pos))
         /\ Insert(a, s, pos).len = a.len + 1
         /\ Insert(a, s, pos).cells[pos + 1] = s
         /\ \A i \in 1..pos : Insert(a, s, pos).cells[i] = a.cells[i]
         /\ \A i \in pos + 1..a.len : Insert(a, s, pos).cells[i + 1] = a.cells[i]
  <1> DEFINE b == Insert(a, s, pos)
             at == IF pos < a.len THEN pos ELSE a.len
             new == [i \in 1..a.len + 1 |-> IF i <= at THEN a.cells[i]
                                            ELSE IF i = at + 1 THEN s ELSE a.cells[i - 1]]
  <1>1. a.len \in Nat
    BY CellsOf
  <1>2. pos \in Nat /\ at = pos
    BY <1>1
  <1>3. b \in Arrays(S) /\ Holds(b) /\ Contents(b) = new
    BY <1>2, InsertKeeps
  <1> HIDE DEF b, at
  <1>4. /\ b.len \in Nat /\ Len(Contents(b)) = b.len
        /\ \A i \in 1..b.len : Contents(b)[i] = b.cells[i]
    BY <1>3, CellsOf
  <1>5. b.len = a.len + 1
    <2>1. Len(new) = a.len + 1
      BY <1>1
    <2> HIDE DEF new
    <2>2. QED
      BY <1>3, <1>4, <2>1
  <1>6. \A i \in 1..a.len + 1 : b.cells[i] = IF i <= pos THEN a.cells[i]
                                            ELSE IF i = pos + 1 THEN s ELSE a.cells[i - 1]
    BY <1>2, <1>3, <1>4, <1>5
  <1>7. b.cells[pos + 1] = s
    BY <1>1, <1>6
  <1>8. \A i \in 1..pos : b.cells[i] = a.cells[i]
    BY <1>1, <1>6
  <1>9. ASSUME NEW i \in pos + 1..a.len
        PROVE  b.cells[i + 1] = a.cells[i]
    <2>1. i + 1 \in 1..a.len + 1 /\ ~(i + 1 <= pos) /\ i + 1 # pos + 1 /\ (i + 1) - 1 = i
      BY <1>1
    <2>2. b.cells[i + 1] = a.cells[(i + 1) - 1]
      BY <1>6, <2>1
    <2>3. QED
      BY <2>1, <2>2
  <1>10. QED
    BY <1>3, <1>5, <1>7, <1>8, <1>9 DEF b

\* The next string is copied, at the end or by an insertion at the end.
LEMMA CopyOne ==
  ASSUME NEW S, S \cap {Null, Garbage} = {}, NEW a, NEW rest, NEW all,
         Copies(S, a, rest, all), rest # << >>
  PROVE  /\ Copies(S, Push(a, Head(rest)), Tail(rest), all)
         /\ Copies(S, Insert(a, Head(rest), a.len), Tail(rest), all)
  <1>1. /\ a \in Arrays(S) /\ Holds(a) /\ a.len \in Nat /\ rest \in Seq(S)
        /\ Head(rest) \in S /\ Head(rest) = rest[1] /\ Head(rest) \notin {Null, Garbage}
        /\ Tail(rest) \in Seq(S) /\ Len(Tail(rest)) = Len(rest) - 1 /\ Len(rest) \in Nat \ {0}
        /\ \A i \in 1..Len(rest) - 1 : Tail(rest)[i] = rest[i + 1]
    BY CellsOf DEF Copies
  <1>2. ASSUME NEW b \in Arrays(S), Holds(b), b.len = a.len + 1,
               b.cells[a.len + 1] = Head(rest), \A i \in 1..a.len : b.cells[i] = a.cells[i]
        PROVE  Copies(S, b, Tail(rest), all)
    <2>1. b.len + Len(Tail(rest)) = Len(all)
      BY <1>1, <1>2 DEF Copies
    <2>2. \A i \in 1..b.len : b.cells[i] = all[i]
      <3>1. rest[1] = all[a.len + 1]
        BY <1>1 DEF Copies
      <3>2. \A i \in 1..b.len : i \in 1..a.len \/ i = a.len + 1
        BY <1>1, <1>2
      <3>3. QED
        BY <1>1, <1>2, <3>1, <3>2 DEF Copies
    <2>3. \A i \in 1..Len(Tail(rest)) : Tail(rest)[i] = all[b.len + i]
      <3> SUFFICES ASSUME NEW i \in 1..Len(Tail(rest)) PROVE Tail(rest)[i] = all[b.len + i]
        OBVIOUS
      <3>1. i + 1 \in 1..Len(rest) /\ a.len + (i + 1) = b.len + i
        BY <1>1, <1>2
      <3>2. rest[i + 1] = all[a.len + (i + 1)]
        BY <3>1 DEF Copies
      <3>3. QED
        BY <1>1, <3>1, <3>2
    <2>4. QED
      BY <1>1, <1>2, <2>1, <2>2, <2>3 DEF Copies
  <1>3. Copies(S, Push(a, Head(rest)), Tail(rest), all)
    <2> DEFINE b == Push(a, Head(rest))
    <2>1. /\ b \in Arrays(S) /\ Holds(b) /\ b.len = a.len + 1
          /\ b.cells[a.len + 1] = Head(rest) /\ \A i \in 1..a.len : b.cells[i] = a.cells[i]
      BY <1>1, PushCells
    <2> HIDE DEF b
    <2>2. Copies(S, b, Tail(rest), all)
      BY <1>2, <2>1
    <2>3. QED
      BY <2>2 DEF b
  <1>4. Copies(S, Insert(a, Head(rest), a.len), Tail(rest), all)
    <2> DEFINE b == Insert(a, Head(rest), a.len)
    <2>1. a.len \in 0..a.len
      BY <1>1
    <2>2. /\ b \in Arrays(S) /\ Holds(b) /\ b.len = a.len + 1
          /\ b.cells[a.len + 1] = Head(rest) /\ \A i \in 1..a.len : b.cells[i] = a.cells[i]
      BY <1>1, <2>1, InsertCells
    <2> HIDE DEF b
    <2>3. Copies(S, b, Tail(rest), all)
      BY <1>2, <2>2
    <2>4. QED
      BY <2>3 DEF b
  <1>5. QED
    BY <1>3, <1>4

-----------------------------------------------------------------------------
(* merge_env keeps its invariant.                                           *)

\* An environment is a list of strings, no name twice, and none of them is the
\* null pointer.
IsEnvironment(W) ==
  /\ W \in Seq(Strings)
  /\ \A i, j \in DOMAIN W : i # j => Key(W[i]) # Key(W[j])
  /\ {Null, Garbage} \cap (ToSet(W) \cup ToSet(PagerVariables)) = {}

\* The strings of both environments, and the names of the pager's.
Both(W) == ToSet(W) \cup ToSet(PagerVariables)
Ours == Names(ToSet(PagerVariables))

\* A variable of the pager that the sort does not mix up.
InPlace(W, name) == name \in Ours => ~Overtaken(W, name)

\* The environment, sorted.
Ranked(cur, W) ==
  /\ cur.len = Len(W)
  /\ \A i \in 1..cur.len : cur.cells[i] \in ToSet(W)
  /\ \A s \in ToSet(W) : \E i \in 1..cur.len : cur.cells[i] = s
  /\ \A i, j \in 1..cur.len : i < j => Below(cur.cells[i], cur.cells[j])
  /\ \A i, j \in 1..cur.len : i # j => Key(cur.cells[i]) # Key(cur.cells[j])

\* The result so far: the pager's variables, and the strings before p that have
\* another name; each name once.
Collected(W, cur, res, p) ==
  /\ p <= cur.len
  /\ \A i \in 1..res.len : \/ res.cells[i] \in ToSet(PagerVariables)
                           \/ \E j \in 1..p : res.cells[i] = cur.cells[j]
  /\ \A s \in ToSet(PagerVariables) : \E i \in 1..res.len : res.cells[i] = s
  /\ \A j \in 1..p : Key(cur.cells[j]) \notin Ours =>
                       \E i \in 1..res.len : res.cells[i] = cur.cells[j]
  /\ \A i, j \in 1..res.len :
       Key(res.cells[i]) = Key(res.cells[j]) /\ InPlace(W, Key(res.cells[i])) => i = j

\* The walk: from c on the result has pager's variables, in order; one whose
\* name is still to come in the environment is among them.
Ahead(W, cur, res, p, c) ==
  /\ c <= res.len
  /\ \A i \in c + 1..res.len : res.cells[i] \in ToSet(PagerVariables)
  /\ \A i, j \in c + 1..res.len : i < j => Below(Key(res.cells[i]), Key(res.cells[j]))
  /\ \A s \in ToSet(PagerVariables), j \in p + 1..cur.len :
       InPlace(W, Key(s)) /\ Key(cur.cells[j]) = Key(s) =>
         \E i \in c + 1..res.len : res.cells[i] = s

\* After the walk no name of the pager's is still to come.
Past(W, cur, p) ==
  \A s \in ToSet(PagerVariables), j \in p + 1..cur.len :
    InPlace(W, Key(s)) => Key(cur.cells[j]) # Key(s)

\* A merge, and what is true of it in each of its three stages.
Merges(S) ==
  [environ : Seq(S), variables : Seq(S), stage : {"copy", "walk", "add"}, p : Nat, c : Nat,
   current : Arrays(S), result : Arrays(S)]

MergeInv(m, W) ==
  /\ m \in Merges(Both(W))
  /\ Holds(m.current) /\ Holds(m.result)
  /\ m.stage = "copy" =>
       /\ m.p = 0 /\ m.c = 0
       /\ Copies(Both(W), m.current, m.environ, W)
       /\ Copies(Both(W), m.result, m.variables, PagerVariables)
  /\ m.stage # "copy" => Ranked(m.current, W) /\ Collected(W, m.current, m.result, m.p)
  /\ m.stage = "walk" => Ahead(W, m.current, m.result, m.p, m.c)
  /\ m.stage = "add" => Past(W, m.current, m.p)

\* The strings of an environment.
LEMMA EnvironmentIs ==
  ASSUME NEW W, IsEnvironment(W)
  PROVE  /\ Len(W) \in Nat /\ DOMAIN W = 1..Len(W) /\ W \in Seq(ToSet(W))
         /\ ToSet(W) = {W[i] : i \in 1..Len(W)}
         /\ Both(W) \subseteq Strings /\ Both(W) \cap {Null, Garbage} = {}
         /\ W \in Seq(Both(W)) /\ PagerVariables \in Seq(Both(W))
         /\ ToSet(PagerVariables) \subseteq Both(W) /\ ToSet(W) \subseteq Both(W)
  <1>1. W \in Seq(Strings) /\ Len(W) \in Nat /\ DOMAIN W = 1..Len(W)
        /\ \A i \in 1..Len(W) : W[i] \in Strings
    BY DEF IsEnvironment
  <1>2. ToSet(W) = {W[i] : i \in 1..Len(W)}
    BY <1>1 DEF ToSet
  <1>3. /\ PagerVariables \in Seq(Strings) /\ Len(PagerVariables) = 3
        /\ \A s \in ToSet(PagerVariables) : s \in Strings
    BY PagerVariablesAre
  <1>4. Both(W) \subseteq Strings
    BY <1>1, <1>2, <1>3 DEF Both
  <1>5. Both(W) \cap {Null, Garbage} = {}
    BY DEF Both, IsEnvironment
  <1>6. ToSet(PagerVariables) = {PagerVariables[i] : i \in 1..3}
    BY <1>3 DEF ToSet
  <1>7. W \in Seq(ToSet(W)) /\ W \in Seq(Both(W))
    <2>1. \A i \in 1..Len(W) : W[i] \in ToSet(W) /\ W[i] \in Both(W)
      BY <1>2 DEF Both
    <2>2. QED
      BY <1>1, <2>1
  <1>8. PagerVariables \in Seq(Both(W))
    <2>1. \A i \in 1..3 : PagerVariables[i] \in Both(W)
      BY <1>6 DEF Both
    <2>2. PagerVariables = [i \in 1..3 |-> PagerVariables[i]]
      BY <1>3
    <2>3. [i \in 1..3 |-> PagerVariables[i]] \in Seq(Both(W))
      BY <2>1
    <2>4. QED
      BY <2>2, <2>3
  <1>9. QED
    BY <1>1, <1>2, <1>4, <1>5, <1>7, <1>8 DEF Both

\* The arrays are fresh, and nothing is copied yet.
LEMMA MergeStartsWell ==
  ASSUME NEW W, IsEnvironment(W)
  PROVE  MergeInv(MergeStarts(W, PagerVariables), W)
  <1> DEFINE m == MergeStarts(W, PagerVariables)
             S == Both(W)
  <1>1. /\ W \in Seq(S) /\ PagerVariables \in Seq(S)
    BY EnvironmentIs
  <1>2. FreshArray \in Arrays(S) /\ Holds(FreshArray) /\ FreshArray.len = 0
    BY DEF FreshArray, Arrays, Holds
  <1>3. Copies(S, FreshArray, W, W) /\ Copies(S, FreshArray, PagerVariables, PagerVariables)
    <2>1. \A all \in Seq(S) : Copies(S, FreshArray, all, all)
      <3> SUFFICES ASSUME NEW all \in Seq(S) PROVE Copies(S, FreshArray, all, all)
        OBVIOUS
      <3>1. Len(all) \in Nat
        OBVIOUS
      <3> HIDE DEF S
      <3>2. QED
        BY <1>2, <3>1 DEF Copies
    <2>2. QED
      BY <1>1, <2>1
  <1> HIDE DEF S
  <1>4. m \in Merges(S)
    BY <1>1, <1>2 DEF Merges, MergeStarts
  <1>5. QED
    BY <1>2, <1>3, <1>4 DEF MergeInv, MergeStarts, S

\* A string is copied.
LEMMA CopyKeeps ==
  ASSUME NEW W, IsEnvironment(W), NEW m, MergeInv(m, W), Copying(m)
  PROVE  MergeInv(CopyString(m), W)
  <1> DEFINE S == Both(W)
  <1>1. /\ S \cap {Null, Garbage} = {} /\ m \in Merges(S) /\ m.stage = "copy"
        /\ m.p = 0 /\ m.c = 0 /\ Holds(m.current) /\ Holds(m.result)
        /\ Copies(S, m.current, m.environ, W) /\ Copies(S, m.result, m.variables, PagerVariables)
    BY EnvironmentIs DEF MergeInv, Copying
  <1> HIDE DEF S
  <1>2. CASE m.environ # << >>
    <2> DEFINE b == Push(m.current, Head(m.environ))
    <2>1. Copies(S, b, Tail(m.environ), W)
      BY <1>1, <1>2, CopyOne
    <2>2. CopyString(m) = [m EXCEPT !.current = b, !.environ = Tail(m.environ)]
      BY <1>2 DEF CopyString
    <2> HIDE DEF b
    <2>3. b \in Arrays(S) /\ Holds(b) /\ Tail(m.environ) \in Seq(S)
      BY <2>1 DEF Copies
    <2>4. /\ CopyString(m) \in Merges(S) /\ CopyString(m).current = b
          /\ CopyString(m).environ = Tail(m.environ) /\ CopyString(m).result = m.result
          /\ CopyString(m).variables = m.variables /\ CopyString(m).stage = "copy"
          /\ CopyString(m).p = 0 /\ CopyString(m).c = 0
      BY <1>1, <2>2, <2>3 DEF Merges
    <2>5. QED
      BY <1>1, <2>1, <2>3, <2>4 DEF MergeInv, S
  <1>3. CASE m.environ = << >>
    <2> DEFINE b == Insert(m.result, Head(m.variables), m.result.len)
    <2>0. m.variables # << >>
      <3>1. m.environ \in Seq(S) /\ m.variables \in Seq(S) /\ m.environ \o m.variables # << >>
        BY <1>1 DEF Copies, Copying
      <3>2. QED
        BY <1>3, <3>1
    <2>1. Copies(S, b, Tail(m.variables), PagerVariables)
      BY <1>1, <2>0, CopyOne
    <2>2. CopyString(m) = [m EXCEPT !.result = b, !.variables = Tail(m.variables)]
      BY <1>3 DEF CopyString
    <2> HIDE DEF b
    <2>3. b \in Arrays(S) /\ Holds(b) /\ Tail(m.variables) \in Seq(S)
      BY <2>1 DEF Copies
    <2>4. /\ CopyString(m) \in Merges(S) /\ CopyString(m).result = b
          /\ CopyString(m).variables = Tail(m.variables) /\ CopyString(m).current = m.current
          /\ CopyString(m).environ = m.environ /\ CopyString(m).stage = "copy"
          /\ CopyString(m).p = 0 /\ CopyString(m).c = 0
      BY <1>1, <2>2, <2>3 DEF Merges
    <2>5. QED
      BY <1>1, <2>1, <2>3, <2>4 DEF MergeInv, S
  <1>4. QED
    BY <1>2, <1>3

\* A list of strings with different names, sorted: the same strings, in strict
\* order.
LEMMA SortedIs ==
  ASSUME NEW S, S \subseteq Strings, NEW a \in Arrays(S), Holds(a), NEW all, all \in Seq(S),
         a.len = Len(all), \A i \in 1..a.len : a.cells[i] = all[i],
         \A i, j \in 1..a.len : i # j => Key(all[i]) # Key(all[j])
  PROVE  /\ Sort(a) \in Arrays(S) /\ Holds(Sort(a)) /\ Sort(a).len = a.len
         /\ \A i \in 1..a.len : Sort(a).cells[i] \in ToSet(all)
         /\ \A s \in ToSet(all) : \E i \in 1..a.len : Sort(a).cells[i] = s
         /\ \A i, j \in 1..a.len : i < j => Below(Sort(a).cells[i], Sort(a).cells[j])
         /\ \A i, j \in 1..a.len : i # j => Key(Sort(a).cells[i]) # Key(Sort(a).cells[j])
  <1> DEFINE n == a.len
             b == Sort(a)
  <1>1. n \in Nat /\ ToSet(all) = {all[i] : i \in 1..n}
    <2>1. DOMAIN all = 1..n
      OBVIOUS
    <2>2. QED
      BY <2>1 DEF ToSet, Arrays
  <1>2. b \in Arrays(S) /\ Holds(b) /\ b.len = n
    BY SortSorts
  <1>3. PICK from \in [1..n -> 1..n] :
          /\ \A k \in 1..n : b.cells[k] = a.cells[from[k]]
          /\ \A i \in 1..n : \E k \in 1..n : from[k] = i
          /\ \A k, l \in 1..n : k < l =>
               /\ from[k] # from[l]
               /\ Below(a.cells[from[k]], a.cells[from[l]]) \/ a.cells[from[k]] = a.cells[from[l]]
    BY SortSorts
  <1> HIDE DEF b, n
  <1>4. \A k \in 1..n : b.cells[k] = all[from[k]]
    BY <1>3 DEF n
  <1>5. \A k, l \in 1..n : k # l => from[k] # from[l]
    <2>1. \A k, l \in 1..n : k # l => k < l \/ l < k
      BY <1>1
    <2>2. QED
      BY <1>3, <2>1
  <1>6. \A i, j \in 1..n : i # j => Key(b.cells[i]) # Key(b.cells[j])
    <2>1. \A i, j \in 1..n : i # j => Key(all[i]) # Key(all[j])
      BY DEF n
    <2> SUFFICES ASSUME NEW i \in 1..n, NEW j \in 1..n, i # j
                 PROVE  Key(b.cells[i]) # Key(b.cells[j])
      OBVIOUS
    <2>2. from[i] # from[j] /\ from[i] \in 1..n /\ from[j] \in 1..n
      BY <1>5
    <2>3. Key(all[from[i]]) # Key(all[from[j]])
      BY <2>1, <2>2, Zenon
    <2>4. QED
      BY <1>4, <2>3, Zenon
  <1>7. \A i, j \in 1..n : i < j => Below(b.cells[i], b.cells[j])
    <2> SUFFICES ASSUME NEW i \in 1..n, NEW j \in 1..n, i < j
                 PROVE  Below(b.cells[i], b.cells[j])
      OBVIOUS
    <2>1. i # j
      BY <1>1
    <2>2. b.cells[i] # b.cells[j]
      BY <1>6, <2>1, Zenon
    <2>3. b.cells[i] = a.cells[from[i]] /\ b.cells[j] = a.cells[from[j]]
      BY <1>3, Zenon
    <2>4. Below(a.cells[from[i]], a.cells[from[j]]) \/ a.cells[from[i]] = a.cells[from[j]]
      BY <1>3, Zenon
    <2>5. QED
      BY <2>2, <2>3, <2>4, Zenon
  <1>8. \A i \in 1..n : b.cells[i] \in ToSet(all)
    <2>1. \A i \in 1..n : from[i] \in 1..n
      OBVIOUS
    <2>2. QED
      BY <1>1, <1>4, <2>1, Zenon
  <1>9. \A s \in ToSet(all) : \E i \in 1..n : b.cells[i] = s
    <2> SUFFICES ASSUME NEW s \in ToSet(all) PROVE \E i \in 1..n : b.cells[i] = s
      OBVIOUS
    <2>1. PICK i \in 1..n : s = all[i]
      BY <1>1
    <2>2. PICK k \in 1..n : from[k] = i
      BY <1>3
    <2>3. QED
      BY <1>4, <2>1, <2>2
  <1>10. QED
    BY <1>2, <1>6, <1>7, <1>8, <1>9 DEF b, n

\* Both environments are sorted, and the walk begins.
LEMMA SortKeeps ==
  ASSUME NEW W, IsEnvironment(W), NEW m, MergeInv(m, W), Copied(m)
  PROVE  MergeInv(SortBoth(m), W)
  <1> DEFINE S == Both(W)
             PV == ToSet(PagerVariables)
             cur == Sort(m.current)
             res == Sort(m.result)
  <1>1. /\ S \subseteq Strings /\ m \in Merges(S) /\ m.stage = "copy"
        /\ m.p = 0 /\ m.c = 0 /\ Holds(m.current) /\ Holds(m.result)
        /\ Copies(S, m.current, m.environ, W) /\ Copies(S, m.result, m.variables, PagerVariables)
        /\ W \in Seq(S) /\ PagerVariables \in Seq(S)
    BY EnvironmentIs DEF MergeInv, Copied
  <1>2. m.environ = << >> /\ m.variables = << >>
    <2>1. m.environ \in Seq(S) /\ m.variables \in Seq(S) /\ m.environ \o m.variables = << >>
      BY <1>1 DEF Copies, Copied, Copying
    <2> HIDE DEF S
    <2>2. QED
      BY <2>1, JoinedEmpty
  <1> HIDE DEF S
  <1>3. /\ m.current \in Arrays(S) /\ m.current.len = Len(W)
        /\ \A i \in 1..m.current.len : m.current.cells[i] = W[i]
        /\ m.result \in Arrays(S) /\ m.result.len = Len(PagerVariables)
        /\ \A i \in 1..m.result.len : m.result.cells[i] = PagerVariables[i]
    <2>1. m.current.len \in Nat /\ m.result.len \in Nat
      BY <1>1 DEF Copies, Arrays
    <2>2. QED
      BY <1>1, <1>2, <2>1 DEF Copies
  <1>4. \A i, j \in 1..m.current.len : i # j => Key(W[i]) # Key(W[j])
    BY <1>3, EnvironmentIs DEF IsEnvironment
  <1>5. /\ cur \in Arrays(S) /\ Holds(cur) /\ cur.len = m.current.len
        /\ \A i \in 1..m.current.len : cur.cells[i] \in ToSet(W)
        /\ \A s \in ToSet(W) : \E i \in 1..m.current.len : cur.cells[i] = s
        /\ \A i, j \in 1..m.current.len : i < j => Below(cur.cells[i], cur.cells[j])
        /\ \A i, j \in 1..m.current.len : i # j => Key(cur.cells[i]) # Key(cur.cells[j])
    BY <1>1, <1>3, <1>4, SortedIs
  <1>6. /\ Len(PagerVariables) = 3
        /\ \A i, j \in 1..m.result.len : i # j => Key(PagerVariables[i]) # Key(PagerVariables[j])
    BY <1>3, PagerVariablesAre
  <1>7. /\ res \in Arrays(S) /\ Holds(res) /\ res.len = m.result.len
        /\ \A i \in 1..m.result.len : res.cells[i] \in PV
        /\ \A s \in PV : \E i \in 1..m.result.len : res.cells[i] = s
        /\ \A i, j \in 1..m.result.len : i < j => Below(res.cells[i], res.cells[j])
        /\ \A i, j \in 1..m.result.len : i # j => Key(res.cells[i]) # Key(res.cells[j])
    BY <1>1, <1>3, <1>6, SortedIs
  <1>8. SortBoth(m) = [m EXCEPT !.current = cur, !.result = res, !.stage = "walk"]
    BY DEF SortBoth
  <1> HIDE DEF cur, res
  <1>9. /\ SortBoth(m) \in Merges(S) /\ SortBoth(m).current = cur /\ SortBoth(m).result = res
        /\ SortBoth(m).stage = "walk" /\ SortBoth(m).p = 0 /\ SortBoth(m).c = 0
    BY <1>1, <1>5, <1>7, <1>8 DEF Merges
  <1>10. Ranked(cur, W)
    BY <1>3, <1>5 DEF Ranked
  <1>11. Collected(W, cur, res, 0)
    <2>1. 0 <= cur.len /\ 1..0 = {}
      BY <1>5 DEF Arrays
    <2>2. QED
      BY <1>7, <2>1 DEF Collected
  <1>12. Ahead(W, cur, res, 0, 0)
    <2>1. 0 <= res.len /\ 0 + 1..res.len = 1..res.len
      BY <1>7 DEF Arrays
    <2>2. \A s, t \in PV : Below(s, t) => Below(Key(s), Key(t))
      BY PagerVariablesAre
    <2> HIDE DEF PV
    <2>3. \A i, j \in 0 + 1..res.len : i < j => Below(Key(res.cells[i]), Key(res.cells[j]))
      BY <1>7, <2>1, <2>2
    <2>4. QED
      BY <1>7, <2>1, <2>3 DEF Ahead, PV
  <1>13. QED
    BY <1>5, <1>7, <1>9, <1>10, <1>11, <1>12 DEF MergeInv, S

\* The next string of the environment.
LEMMA NextIs ==
  ASSUME NEW W, IsEnvironment(W), NEW cur, cur \in Arrays(Both(W)), Ranked(cur, W),
         NEW p \in Nat, p < cur.len
  PROVE  LET theirs == cur.cells[p + 1]
         IN  /\ p + 1 \in 1..cur.len /\ theirs \in ToSet(W) /\ theirs \in Both(W)
             /\ theirs \in Strings /\ theirs \notin {Null, Garbage} /\ Key(theirs) \in Strings
             /\ \A j \in p + 2..cur.len : Below(theirs, cur.cells[j]) /\ Key(theirs) # Key(cur.cells[j])
             /\ \A j \in 1..p : Key(theirs) # Key(cur.cells[j])
  <1> DEFINE theirs == cur.cells[p + 1]
  <1>1. cur.len \in Nat /\ p + 1 \in 1..cur.len
    BY DEF Arrays
  <1>2. theirs \in ToSet(W)
    BY <1>1 DEF Ranked
  <1>3. theirs \in Both(W) /\ theirs \in Strings /\ theirs \notin {Null, Garbage}
    BY <1>2, EnvironmentIs
  <1>4. Key(theirs) \in Strings
    BY <1>3, KeyIs
  <1>5. ASSUME NEW j \in p + 2..cur.len
        PROVE  Below(theirs, cur.cells[j]) /\ Key(theirs) # Key(cur.cells[j])
    <2>1. j \in 1..cur.len /\ p + 1 < j /\ p + 1 # j
      BY <1>1
    <2>2. QED
      BY <1>1, <2>1 DEF Ranked
  <1>6. ASSUME NEW j \in 1..p
        PROVE  Key(theirs) # Key(cur.cells[j])
    <2>1. j \in 1..cur.len /\ p + 1 # j
      BY <1>1
    <2>2. QED
      BY <1>1, <2>1 DEF Ranked
  <1>7. QED
    BY <1>1, <1>2, <1>3, <1>4, <1>5, <1>6

\* A string comes in at some place, and the others are at the other places.
TakesIn(new, s, res) ==
  \E up \in [1..res.len -> 1..new.len], at \in 1..new.len :
    /\ new.cells[at] = s
    /\ \A i \in 1..res.len : new.cells[up[i]] = res.cells[i]
    /\ \A k \in 1..new.len : k = at \/ \E i \in 1..res.len : k = up[i]

\* The result takes the next string in.
LEMMA Taken ==
  ASSUME NEW W, IsEnvironment(W), NEW cur, cur \in Arrays(Both(W)), Ranked(cur, W),
         NEW res, res \in Arrays(Both(W)), NEW p \in Nat, p < cur.len,
         Collected(W, cur, res, p),
         \A s \in ToSet(PagerVariables) : InPlace(W, Key(s)) => Key(cur.cells[p + 1]) # Key(s),
         NEW new, TakesIn(new, cur.cells[p + 1], res)
  PROVE  Collected(W, cur, new, p + 1)
  <1> DEFINE theirs == cur.cells[p + 1]
             PV == ToSet(PagerVariables)
  <1>0. PICK up \in [1..res.len -> 1..new.len], at \in 1..new.len :
          /\ new.cells[at] = theirs
          /\ \A i \in 1..res.len : new.cells[up[i]] = res.cells[i]
          /\ \A k \in 1..new.len : k = at \/ \E i \in 1..res.len : k = up[i]
    BY DEF TakesIn
  <1>1. /\ p + 1 \in 1..cur.len /\ p + 1 <= cur.len
        /\ \A j \in 1..p : Key(theirs) # Key(cur.cells[j])
    <2>1. cur.len \in Nat
      BY DEF Arrays
    <2>2. p + 1 <= cur.len
      BY <2>1
    <2>3. QED
      BY <2>2, NextIs
  <1>2. 1..p + 1 = 1..p \cup {p + 1}
    OBVIOUS
  <1> HIDE DEF theirs, PV
  <1>3. \A i \in 1..res.len : up[i] \in 1..new.len
    OBVIOUS
  <1>4. new.cells[at] = theirs /\ \A s \in PV : InPlace(W, Key(s)) => Key(theirs) # Key(s)
    BY <1>0 DEF theirs, PV
  <1>5. ASSUME NEW k \in 1..new.len
        PROVE  new.cells[k] \in PV \/ \E j \in 1..p + 1 : new.cells[k] = cur.cells[j]
    <2>1. CASE k = at
      BY <1>2, <1>4, <2>1 DEF theirs
    <2>2. CASE k # at
      <3>1. PICK i \in 1..res.len : k = up[i]
        BY <1>0, <2>2
      <3>2. new.cells[k] = res.cells[i]
        BY <1>0, <3>1
      <3>3. QED
        BY <1>2, <3>2 DEF Collected, PV
    <2>3. QED
      BY <2>1, <2>2
  <1>6. ASSUME NEW s \in PV
        PROVE  \E k \in 1..new.len : new.cells[k] = s
    <2>1. PICK i \in 1..res.len : res.cells[i] = s
      BY DEF Collected, PV
    <2>2. QED
      BY <1>0, <1>3, <2>1
  <1>7. ASSUME NEW j \in 1..p + 1, Key(cur.cells[j]) \notin Ours
        PROVE  \E k \in 1..new.len : new.cells[k] = cur.cells[j]
    <2>1. CASE j = p + 1
      BY <1>4, <2>1 DEF theirs
    <2>2. CASE j \in 1..p
      <3>1. PICK i \in 1..res.len : res.cells[i] = cur.cells[j]
        BY <1>7, <2>2 DEF Collected
      <3>2. QED
        BY <1>0, <1>3, <3>1
    <2>3. QED
      BY <1>2, <2>1, <2>2
  <1>8. ASSUME NEW i \in 1..res.len, Key(res.cells[i]) = Key(theirs), InPlace(W, Key(theirs))
        PROVE  FALSE
    <2>1. CASE res.cells[i] \in PV
      <3>1. InPlace(W, Key(res.cells[i]))
        BY <1>8, Zenon
      <3>2. Key(theirs) # Key(res.cells[i])
        BY <1>4, <2>1, <3>1, Zenon
      <3>3. QED
        BY <1>8, <3>2, Zenon
    <2>2. CASE res.cells[i] \notin PV
      <3>1. PICK j \in 1..p : res.cells[i] = cur.cells[j]
        BY <2>2 DEF Collected, PV
      <3>2. Key(theirs) # Key(cur.cells[j])
        BY <1>1, Zenon
      <3>3. QED
        BY <1>8, <3>1, <3>2, Zenon
    <2>3. QED
      BY <2>1, <2>2
  <1>9. ASSUME NEW k \in 1..new.len, NEW l \in 1..new.len,
               Key(new.cells[k]) = Key(new.cells[l]), InPlace(W, Key(new.cells[k]))
        PROVE  k = l
    <2>0. InPlace(W, Key(new.cells[l]))
      BY <1>9, Zenon
    <2>1. CASE k = at /\ l = at
      BY <2>1
    <2>2. CASE k = at /\ l # at
      <3>1. PICK i \in 1..res.len : l = up[i]
        BY <1>0, <2>2
      <3>2. new.cells[l] = res.cells[i] /\ new.cells[k] = theirs
        BY <1>0, <2>2, <3>1
      <3>3. QED
        BY <1>8, <1>9, <3>2, Zenon
    <2>3. CASE k # at /\ l = at
      <3>1. PICK i \in 1..res.len : k = up[i]
        BY <1>0, <2>3
      <3>2. new.cells[k] = res.cells[i] /\ new.cells[l] = theirs
        BY <1>0, <2>3, <3>1
      <3>3. QED
        BY <1>8, <1>9, <2>0, <3>2, Zenon
    <2>4. CASE k # at /\ l # at
      <3>1. PICK i \in 1..res.len : k = up[i]
        BY <1>0, <2>4
      <3>2. PICK j \in 1..res.len : l = up[j]
        BY <1>0, <2>4
      <3>3. new.cells[k] = res.cells[i] /\ new.cells[l] = res.cells[j]
        BY <1>0, <3>1, <3>2
      <3>4. Key(res.cells[i]) = Key(res.cells[j]) /\ InPlace(W, Key(res.cells[i]))
        BY <1>9, <3>3, Zenon
      <3>5. i = j
        BY <3>4, Zenon DEF Collected
      <3>6. QED
        BY <3>1, <3>2, <3>5
    <2>5. QED
      BY <2>1, <2>2, <2>3, <2>4
  <1>10. QED
    BY <1>1, <1>5, <1>6, <1>7, <1>9, Zenon DEF Collected, PV

\* A string at the end.
LEMMA TakenLast ==
  ASSUME NEW W, IsEnvironment(W), NEW cur, cur \in Arrays(Both(W)), Ranked(cur, W),
         NEW res, res \in Arrays(Both(W)), Holds(res), NEW p \in Nat, p < cur.len,
         Collected(W, cur, res, p),
         \A s \in ToSet(PagerVariables) : InPlace(W, Key(s)) => Key(cur.cells[p + 1]) # Key(s)
  PROVE  LET new == Push(res, cur.cells[p + 1])
         IN  new \in Arrays(Both(W)) /\ Holds(new) /\ Collected(W, cur, new, p + 1)
  <1> DEFINE new == Push(res, cur.cells[p + 1])
             S == Both(W)
             up == [i \in 1..res.len |-> i]
  <1>1. cur.cells[p + 1] \in S /\ cur.cells[p + 1] \notin {Null, Garbage}
    BY NextIs
  <1>2. /\ new \in Arrays(S) /\ Holds(new) /\ new.len = res.len + 1
        /\ new.cells[res.len + 1] = cur.cells[p + 1]
        /\ \A i \in 1..res.len : new.cells[i] = res.cells[i]
    BY <1>1, PushCells
  <1> HIDE DEF new, S
  <1>3. res.len \in Nat
    BY DEF Arrays
  <1>4. /\ up \in [1..res.len -> 1..new.len] /\ res.len + 1 \in 1..new.len
        /\ \A i \in 1..res.len : up[i] = i
    BY <1>2, <1>3
  <1>5. \A k \in 1..new.len : k = res.len + 1 \/ k \in 1..res.len
    BY <1>2, <1>3
  <1> HIDE DEF up
  <1>6. Collected(W, cur, new, p + 1)
    <2>1. \A i \in 1..res.len : new.cells[up[i]] = res.cells[i]
      BY <1>2, <1>4
    <2>2. \A k \in 1..new.len : k = res.len + 1 \/ \E i \in 1..res.len : k = up[i]
      BY <1>4, <1>5
    <2>3. TakesIn(new, cur.cells[p + 1], res)
      BY <1>2, <1>4, <2>1, <2>2, Zenon DEF TakesIn
    <2>4. QED
      BY <2>3, Taken, Zenon
  <1>7. QED
    BY <1>2, <1>6 DEF new, S

\* A string before the others.
LEMMA TakenFirst ==
  ASSUME NEW W, IsEnvironment(W), NEW cur, cur \in Arrays(Both(W)), Ranked(cur, W),
         NEW res, res \in Arrays(Both(W)), Holds(res), NEW p \in Nat, p < cur.len,
         Collected(W, cur, res, p),
         \A s \in ToSet(PagerVariables) : InPlace(W, Key(s)) => Key(cur.cells[p + 1]) # Key(s)
  PROVE  LET new == Insert(res, cur.cells[p + 1], 0)
         IN  /\ new \in Arrays(Both(W)) /\ Holds(new) /\ Collected(W, cur, new, p + 1)
             /\ new.len = res.len + 1
             /\ \A i \in 1..res.len : new.cells[i + 1] = res.cells[i]
  <1> DEFINE new == Insert(res, cur.cells[p + 1], 0)
             S == Both(W)
             up == [i \in 1..res.len |-> i + 1]
  <1>1. cur.cells[p + 1] \in S /\ cur.cells[p + 1] \notin {Null, Garbage}
    BY NextIs
  <1>2. res.len \in Nat /\ 0 \in 0..res.len
    BY DEF Arrays
  <1>3. /\ new \in Arrays(S) /\ Holds(new) /\ new.len = res.len + 1
        /\ new.cells[0 + 1] = cur.cells[p + 1]
        /\ \A i \in 0 + 1..res.len : new.cells[i + 1] = res.cells[i]
    BY <1>1, <1>2, InsertCells
  <1> HIDE DEF new, S
  <1>4. new.cells[1] = cur.cells[p + 1] /\ \A i \in 1..res.len : new.cells[i + 1] = res.cells[i]
    BY <1>3
  <1>5. /\ up \in [1..res.len -> 1..new.len] /\ 1 \in 1..new.len
        /\ \A i \in 1..res.len : up[i] = i + 1
    BY <1>2, <1>3
  <1>6. \A k \in 1..new.len : k = 1 \/ (k - 1 \in 1..res.len /\ k = (k - 1) + 1)
    BY <1>2, <1>3
  <1> HIDE DEF up
  <1>7. Collected(W, cur, new, p + 1)
    <2>1. \A i \in 1..res.len : new.cells[up[i]] = res.cells[i]
      BY <1>4, <1>5
    <2>2. \A k \in 1..new.len : k = 1 \/ \E i \in 1..res.len : k = up[i]
      BY <1>5, <1>6
    <2>3. TakesIn(new, cur.cells[p + 1], res)
      BY <1>4, <1>5, <2>1, <2>2, Zenon DEF TakesIn
    <2>4. QED
      BY <2>3, Taken, Zenon
  <1>8. QED
    BY <1>3, <1>4, <1>7 DEF new, S

\* A variable of the pager, and its name.
LEMMA PagerVariableIs ==
  ASSUME NEW s \in ToSet(PagerVariables)
  PROVE  s \in Strings /\ Key(s) \in Strings /\ Key(s) \in Ours
  BY PagerVariablesAre, KeyIs DEF Ours, Names

\* One turn of the walk.
LEMMA WalkKeeps ==
  ASSUME NEW W, IsEnvironment(W), NEW m, MergeInv(m, W), Walking(m)
  PROVE  MergeInv(MergeStep(m), W)
  <1> DEFINE S == Both(W)
             PV == ToSet(PagerVariables)
             cur == m.current
             res == m.result
             p == m.p
             c == m.c
             theirs == cur.cells[p + 1]
             ours == res.cells[c + 1]
  <1>1. /\ m \in Merges(S) /\ m.stage = "walk" /\ Holds(cur) /\ Holds(res)
        /\ Ranked(cur, W) /\ Collected(W, cur, res, p) /\ Ahead(W, cur, res, p, c)
        /\ p < cur.len /\ c < res.len
    BY DEF MergeInv, Walking
  <1>2. /\ cur \in Arrays(S) /\ res \in Arrays(S) /\ p \in Nat /\ c \in Nat
        /\ cur.len \in Nat /\ res.len \in Nat
    BY <1>1 DEF Merges, Arrays
  <1>3. /\ p + 1 \in 1..cur.len /\ theirs \in ToSet(W) /\ theirs \in S
        /\ theirs \in Strings /\ theirs \notin {Null, Garbage} /\ Key(theirs) \in Strings
        /\ \A j \in p + 2..cur.len : Below(theirs, cur.cells[j]) /\ Key(theirs) # Key(cur.cells[j])
    BY <1>1, <1>2, NextIs
  <1>4. c + 1 \in c + 1..res.len /\ ours \in PV /\ ours \in Strings /\ Key(ours) \in Strings
        /\ Key(ours) \in Ours
    <2>1. c + 1 \in c + 1..res.len
      BY <1>1, <1>2
    <2>2. ours \in PV
      BY <1>1, <2>1 DEF Ahead
    <2>3. QED
      BY <2>1, <2>2, PagerVariableIs
  \* Of the names ahead the one at c is the lowest.
  <1>5. ASSUME NEW i \in c + 1..res.len
        PROVE  i = c + 1 \/ (i \in c + 2..res.len /\ Below(Key(ours), Key(res.cells[i])))
    <2>1. i = c + 1 \/ (i \in c + 2..res.len /\ c + 1 < i)
      BY <1>2
    <2>2. c + 1 < i => Below(Key(ours), Key(res.cells[i]))
      BY <1>1, <1>4, Zenon DEF Ahead
    <2>3. QED
      BY <2>1, <2>2, Zenon
  <1>6. \A s \in PV, j \in p + 1..cur.len :
          InPlace(W, Key(s)) /\ Key(cur.cells[j]) = Key(s) =>
            \E i \in c + 1..res.len : res.cells[i] = s
    BY <1>1 DEF Ahead
  <1>7. CASE Below(Key(theirs), Key(ours))
    <2> DEFINE new == Insert(res, theirs, 0)
    <2>1. ASSUME NEW s \in PV, InPlace(W, Key(s)) PROVE Key(theirs) # Key(s)
      <3> SUFFICES ASSUME Key(theirs) = Key(s) PROVE FALSE
        OBVIOUS
      <3>1. p + 1 \in p + 1..cur.len
        BY <1>2, <1>3
      <3>2. PICK i \in c + 1..res.len : res.cells[i] = s
        BY <1>6, <2>1, <3>1
      <3>3. i = c + 1 \/ Below(Key(ours), Key(s))
        BY <1>5, <3>2
      <3>4. i = c + 1 => Below(Key(s), Key(s))
        BY <1>7, <3>2
      <3>5. Below(Key(ours), Key(s)) => Below(Key(s), Key(s))
        BY <1>3, <1>4, <1>7, BelowOrders
      <3>6. Key(s) \in Strings
        BY PagerVariableIs
      <3>7. QED
        BY <3>3, <3>4, <3>5, <3>6, BelowOrders
    <2>2. /\ new \in Arrays(S) /\ Holds(new) /\ Collected(W, cur, new, p + 1)
          /\ new.len = res.len + 1
          /\ \A i \in 1..res.len : new.cells[i + 1] = res.cells[i]
      <3> HIDE DEF cur, res, p
      <3>1. \A s \in PV : InPlace(W, Key(s)) => Key(theirs) # Key(s)
        BY <2>1
      <3>2. QED
        BY <1>1, <1>2, <3>1, TakenFirst
    <2>3. MergeStep(m) = [m EXCEPT !.result = new, !.p = p + 1, !.c = c + 1]
      <3>1. Key(theirs) # Key(ours)
        BY <1>4, <1>7, BelowOrders
      <3>2. QED
        BY <1>7, <3>1, Zenon DEF MergeStep
    <2> HIDE DEF new
    <2>4. /\ MergeStep(m) \in Merges(S) /\ MergeStep(m).current = cur
          /\ MergeStep(m).result = new /\ MergeStep(m).p = p + 1 /\ MergeStep(m).c = c + 1
          /\ MergeStep(m).stage = "walk"
      <3>1. p + 1 \in Nat /\ c + 1 \in Nat
        BY <1>2
      <3>2. QED
        <4>1. m \in Merges(S) /\ new \in Arrays(S)
          BY <1>1, <2>2
        <4> DEFINE n == MergeStep(m)
        <4>2. n = [m EXCEPT !.result = new, !.p = p + 1, !.c = c + 1]
          BY <2>3
        <4> DEFINE q == p + 1
                   d == c + 1
        <4>3. q \in Nat /\ d \in Nat /\ n = [m EXCEPT !.result = new, !.p = q, !.c = d]
          BY <3>1, <4>2
        <4> HIDE DEF S, n, q, d, cur
        <4>4. /\ n \in Merges(S) /\ n.current = m.current /\ n.result = new /\ n.p = q
              /\ n.c = d /\ n.stage = m.stage
          BY <4>1, <4>3 DEF Merges
        <4>5. QED
          BY <1>1, <4>4 DEF S, n, q, d, cur
    <2>5. Ahead(W, cur, new, p + 1, c + 1)
      <3> HIDE DEF cur, res, p, c, theirs, ours, S
      <3>1. c + 1 <= new.len
        BY <1>1, <1>2, <2>2
      <3>2. ASSUME NEW k \in (c + 1) + 1..new.len
            PROVE  k - 1 \in c + 1..res.len /\ new.cells[k] = res.cells[k - 1]
        <4>1. k - 1 \in c + 1..res.len /\ k - 1 \in 1..res.len /\ (k - 1) + 1 = k
          BY <1>2, <2>2
        <4>2. new.cells[(k - 1) + 1] = res.cells[k - 1]
          BY <2>2, <4>1, Zenon
        <4>3. QED
          BY <4>1, <4>2
      <3>3. \A k \in (c + 1) + 1..new.len : new.cells[k] \in PV
        BY <1>1, <3>2 DEF Ahead
      <3>4. ASSUME NEW k \in (c + 1) + 1..new.len, NEW l \in (c + 1) + 1..new.len, k < l
            PROVE  Below(Key(new.cells[k]), Key(new.cells[l]))
        <4>1. k - 1 < l - 1
          BY <1>2, <3>4
        <4>2. k - 1 \in c + 1..res.len /\ l - 1 \in c + 1..res.len
              /\ new.cells[k] = res.cells[k - 1] /\ new.cells[l] = res.cells[l - 1]
          BY <3>2
        <4>3. Below(Key(res.cells[k - 1]), Key(res.cells[l - 1]))
          BY <1>1, <4>1, <4>2, Zenon DEF Ahead
        <4>4. QED
          BY <4>2, <4>3, Zenon
      <3>5. ASSUME NEW s \in PV, NEW j \in (p + 1) + 1..cur.len,
                   InPlace(W, Key(s)) /\ Key(cur.cells[j]) = Key(s)
            PROVE  \E k \in (c + 1) + 1..new.len : new.cells[k] = s
        <4>1. j \in p + 1..cur.len
          BY <1>2
        <4>2. PICK i \in c + 1..res.len : res.cells[i] = s
          BY <1>6, <3>5, <4>1
        <4>3. i + 1 \in (c + 1) + 1..new.len /\ i \in 1..res.len
          BY <1>2, <2>2
        <4>4. new.cells[i + 1] = s
          BY <2>2, <4>2, <4>3, Zenon
        <4>5. QED
          BY <4>3, <4>4
      <3>6. QED
        BY <3>1, <3>3, <3>4, <3>5, Zenon DEF Ahead, PV
    <2>6. QED
      BY <1>1, <2>2, <2>4, <2>5 DEF MergeInv
  <1> DEFINE next == MergeStep(m)
  <1>8. ASSUME NEW q \in {p, p + 1}, q <= cur.len,
               next = [m EXCEPT !.p = q, !.c = c + 1],
               Collected(W, cur, res, q),
               \A s \in PV, j \in q + 1..cur.len :
                 InPlace(W, Key(s)) /\ Key(cur.cells[j]) = Key(s) => ours # s
        PROVE  MergeInv(next, W)
    <2>1. /\ next \in Merges(S) /\ next.current = cur /\ next.result = res /\ next.p = q
          /\ next.c = c + 1 /\ next.stage = "walk"
      <3>1. q \in Nat /\ c + 1 \in Nat
        BY <1>2, <1>8
      <3>2. QED
        <4>1. m \in Merges(S) /\ next = [m EXCEPT !.p = q, !.c = c + 1]
          BY <1>1, <1>8
        <4> DEFINE d == c + 1
        <4>2. q \in Nat /\ d \in Nat /\ next = [m EXCEPT !.p = q, !.c = d]
          BY <3>1, <4>1
        <4> HIDE DEF S, next, d, cur, res
        <4>3. /\ next \in Merges(S) /\ next.current = m.current /\ next.result = m.result
              /\ next.p = q /\ next.c = d /\ next.stage = m.stage
          BY <4>1, <4>2 DEF Merges
        <4>4. QED
          BY <1>1, <4>3 DEF S, d, cur, res
    <2>2. Ahead(W, cur, res, q, c + 1)
      <3> HIDE DEF cur, res, p, c, theirs, ours, S, next
      <3>1. c + 1 <= res.len /\ (\A i \in (c + 1) + 1..res.len : i \in c + 1..res.len)
            /\ q \in Nat /\ \A j \in q + 1..cur.len : j \in p + 1..cur.len
        BY <1>1, <1>2, <1>8
      <3>2. \A i \in (c + 1) + 1..res.len : res.cells[i] \in PV
        BY <1>1, <3>1 DEF Ahead, PV
      <3>3. \A i, j \in (c + 1) + 1..res.len : i < j => Below(Key(res.cells[i]), Key(res.cells[j]))
        BY <1>1, <3>1, Zenon DEF Ahead
      <3>4. ASSUME NEW s \in PV, NEW j \in q + 1..cur.len,
                   InPlace(W, Key(s)) /\ Key(cur.cells[j]) = Key(s)
            PROVE  \E k \in (c + 1) + 1..res.len : res.cells[k] = s
        <4>1. PICK i \in c + 1..res.len : res.cells[i] = s
          BY <1>6, <3>1, <3>4
        <4>2. i # c + 1
          BY <1>8, <3>4, <4>1 DEF ours
        <4>3. i \in (c + 1) + 1..res.len
          BY <1>2, <4>2
        <4>4. QED
          BY <4>1, <4>3
      <3>5. QED
        BY <3>1, <3>2, <3>3, <3>4, Zenon DEF Ahead, PV
    <2> HIDE DEF next
    <2>3. QED
      BY <1>1, <1>8, <2>1, <2>2 DEF MergeInv
  <1>9. CASE ~Below(Key(theirs), Key(ours)) /\ Key(theirs) = Key(ours)
    <2>1. next = [m EXCEPT !.p = p + 1, !.c = c + 1]
      BY <1>9 DEF MergeStep
    <2>2. Collected(W, cur, res, p + 1)
      <3> HIDE DEF cur, res, p, c, theirs, ours, S, next
      <3>1. 1..p + 1 = 1..p \cup {p + 1} /\ p + 1 <= cur.len
        BY <1>1, <1>2
      <3>2. \A i \in 1..res.len : \/ res.cells[i] \in PV
                                  \/ \E j \in 1..p + 1 : res.cells[i] = cur.cells[j]
        BY <1>1, <3>1, Zenon DEF Collected, PV
      <3>3. \A j \in 1..p + 1 : Key(cur.cells[j]) \notin Ours =>
                                  \E i \in 1..res.len : res.cells[i] = cur.cells[j]
        <4>1. Key(cur.cells[p + 1]) \in Ours
          BY <1>4, <1>9 DEF theirs
        <4>2. \A j \in 1..p : Key(cur.cells[j]) \notin Ours =>
                                \E i \in 1..res.len : res.cells[i] = cur.cells[j]
          BY <1>1 DEF Collected
        <4>3. \A j \in 1..p + 1 : j \in 1..p \/ j = p + 1
          BY <3>1
        <4>4. QED
          BY <4>1, <4>2, <4>3, Zenon
      <3>4. QED
        BY <1>1, <3>1, <3>2, <3>3, Zenon DEF Collected, PV
    <2>3. ASSUME NEW s \in PV, NEW j \in (p + 1) + 1..cur.len,
                 InPlace(W, Key(s)) /\ Key(cur.cells[j]) = Key(s)
          PROVE  ours # s
      <3>1. j \in p + 2..cur.len
        BY <1>2
      <3>2. Key(theirs) # Key(cur.cells[j])
        BY <1>3, <3>1
      <3>3. QED
        BY <1>9, <2>3, <3>2
    <2>4. p + 1 \in {p, p + 1} /\ p + 1 <= cur.len
      BY <1>1, <1>2
    <2>5. QED
      BY <1>8, <2>1, <2>2, <2>3, <2>4, Zenon
  <1>10. CASE ~Below(Key(theirs), Key(ours)) /\ Key(theirs) # Key(ours)
    <2>1. next = [m EXCEPT !.p = p, !.c = c + 1]
      <3>1. next = [m EXCEPT !.c = c + 1]
        BY <1>10 DEF MergeStep
      <3>2. [m EXCEPT !.c = c + 1] = [m EXCEPT !.p = p, !.c = c + 1]
        BY <1>1 DEF Merges
      <3>3. QED
        BY <3>1, <3>2
    <2>2. Below(Key(ours), Key(theirs))
      BY <1>3, <1>4, <1>10, BelowOrders
    <2>3. ASSUME NEW s \in PV, NEW j \in p + 1..cur.len,
                 InPlace(W, Key(s)) /\ Key(cur.cells[j]) = Key(s)
          PROVE  ours # s
      <3> SUFFICES ASSUME ours = s PROVE FALSE
        OBVIOUS
      <3>1. Key(cur.cells[j]) = Key(ours)
        BY <2>3
      <3>2. j # p + 1
        BY <1>10, <3>1
      <3>3. j \in p + 2..cur.len /\ j \in 1..cur.len
        BY <1>2, <3>2
      <3>4. Below(theirs, cur.cells[j])
        BY <1>3, <3>3
      <3>5. cur.cells[j] \in Strings
        <4>1. cur.cells[j] \in ToSet(W)
          BY <1>1, <3>3 DEF Ranked
        <4>2. QED
          BY <4>1, EnvironmentIs
      <3>6. Below(Key(cur.cells[j]), Key(theirs))
        BY <2>2, <3>1
      <3>7. IsStrictPrefix(Key(cur.cells[j]), Key(theirs))
            /\ Key(theirs)[Len(Key(cur.cells[j])) + 1] < Eq
        BY <1>3, <3>4, <3>5, <3>6, NamesOvertake
      <3>8. Overtaken(W, Key(s))
        BY <1>3, <2>3, <3>7 DEF Overtaken, Names
      <3>9. Key(s) \in Ours
        BY <1>4
      <3>10. QED
        BY <2>3, <3>8, <3>9 DEF InPlace
    <2>4. p \in {p, p + 1} /\ p <= cur.len /\ Collected(W, cur, res, p)
      BY <1>1, <1>2
    <2>5. QED
      BY <1>8, <2>1, <2>3, <2>4, Zenon
  <1>11. QED
    BY <1>7, <1>9, <1>10

\* A string that is left is added at the end.
LEMMA AddKeeps ==
  ASSUME NEW W, IsEnvironment(W), NEW m, MergeInv(m, W), Adding(m)
  PROVE  MergeInv(AddString(m), W)
  <1> DEFINE S == Both(W)
             PV == ToSet(PagerVariables)
             cur == m.current
             res == m.result
             p == m.p
             new == Push(res, cur.cells[p + 1])
             next == AddString(m)
  <1>1. /\ m \in Merges(S) /\ m.stage # "copy" /\ Holds(cur) /\ Holds(res)
        /\ Ranked(cur, W) /\ Collected(W, cur, res, p) /\ p < cur.len /\ ~Walking(m)
    BY DEF MergeInv, Adding
  <1>2. /\ cur \in Arrays(S) /\ res \in Arrays(S) /\ p \in Nat /\ m.c \in Nat
        /\ cur.len \in Nat /\ res.len \in Nat /\ m.stage \in {"walk", "add"}
    BY <1>1 DEF Merges, Arrays
  <1>3. Past(W, cur, p)
    <2>1. CASE m.stage = "add"
      BY <2>1 DEF MergeInv
    <2>2. CASE m.stage = "walk"
      <3>1. m.c >= res.len
        BY <1>1, <1>2, <2>2 DEF Walking
      <3>2. m.c + 1..res.len = {}
        BY <1>2, <3>1
      <3>3. Ahead(W, cur, res, p, m.c)
        BY <2>2 DEF MergeInv
      <3>4. QED
        BY <3>2, <3>3 DEF Ahead, Past
    <2>3. QED
      BY <1>2, <2>1, <2>2
  <1>4. next = [m EXCEPT !.result = new, !.p = p + 1, !.stage = "add"]
    BY DEF AddString
  <1> HIDE DEF next, cur, res, p
  <1>5. \A s \in PV : InPlace(W, Key(s)) => Key(cur.cells[p + 1]) # Key(s)
    <2>1. p + 1 \in p + 1..cur.len
      BY <1>1, <1>2
    <2>2. QED
      BY <1>3, <2>1 DEF Past
  <1>6. new \in Arrays(S) /\ Holds(new) /\ Collected(W, cur, new, p + 1)
    BY <1>1, <1>2, <1>5, TakenLast
  <1> HIDE DEF new
  <1>7. /\ next \in Merges(S) /\ next.current = cur /\ next.result = new /\ next.p = p + 1
        /\ next.stage = "add"
    <2>1. p + 1 \in Nat
      BY <1>2
    <2>2. QED
      <3>1. m \in Merges(S) /\ new \in Arrays(S)
        BY <1>1, <1>6
      <3> DEFINE q == p + 1
      <3>2. q \in Nat /\ next = [m EXCEPT !.result = new, !.p = q, !.stage = "add"]
        BY <1>4, <2>1
      <3> HIDE DEF S, q
      <3>3. /\ next \in Merges(S) /\ next.current = m.current /\ next.result = new
            /\ next.p = q /\ next.stage = "add"
        BY <3>1, <3>2 DEF Merges
      <3>4. QED
        BY <3>3 DEF S, q, cur
  <1>8. Past(W, cur, p + 1)
    <2>1. \A j \in (p + 1) + 1..cur.len : j \in p + 1..cur.len
      BY <1>2
    <2>2. QED
      BY <1>3, <2>1 DEF Past
  <1>9. QED
    BY <1>1, <1>6, <1>7, <1>8 DEF MergeInv, next

-----------------------------------------------------------------------------
(* What merge_env returns.                                                  *)

\* What the child is promised of its environment.
WellMerged(env, W) ==
  LET strings == SubSeq(env, 1, Len(env) - 1)
  IN  /\ env[Len(env)] = Null
      /\ ToSet(strings) \cap {Null, Garbage} = {}
      /\ \A s \in ToSet(W) : Key(s) \notin Ours => Lookup(env, Key(s)) = Value(s)
      /\ \A s \in ToSet(PagerVariables) :
           ~Overtaken(W, Key(s)) => Lookup(env, Key(s)) = Value(s)
      /\ (\A name \in Ours : ~Overtaken(W, name)) =>
           Cardinality(Names(ToSet(strings))) = Len(strings)

\* An array as execve takes it.
LEMMA DetachedIs ==
  ASSUME NEW S, NEW a \in Arrays(S), Holds(a)
  PROVE  /\ Len(Detached(a)) = a.len + 1 /\ Detached(a)[a.len + 1] = Null
         /\ \A i \in 1..a.len : Detached(a)[i] = a.cells[i]
         /\ SubSeq(Detached(a), 1, a.len) = Contents(a)
  <1> DEFINE T == S \cup {Null}
             s == Contents(a)
             n == a.len
  <1>1. n \in Nat /\ Len(s) = n /\ s \in Seq(S) /\ \A i \in 1..n : s[i] = a.cells[i]
    BY CellsOf
  <1>2. s \in Seq(T)
    BY <1>1
  <1> HIDE DEF s, n
  <1>3. /\ Append(s, Null) \in Seq(T) /\ Len(Append(s, Null)) = n + 1
        /\ Append(s, Null)[n + 1] = Null /\ \A i \in 1..n : Append(s, Null)[i] = s[i]
    <2>1. Null \in T /\ n \in Nat /\ Len(s) = n
      BY <1>1
    <2> HIDE DEF T
    <2>2. QED
      BY <1>2, <2>1
  <1>4. Detached(a) = Append(s, Null)
    BY DEF Detached, s
  <1>5. SubSeq(Detached(a), 1, n) = s
    <2> DEFINE d == Detached(a)
    <2>1. d \in Seq(T) /\ Len(d) = n + 1 /\ \A i \in 1..n : d[i] = s[i]
      BY <1>3, <1>4
    <2> HIDE DEF d, T
    <2>2. SubSeq(d, 1, n) = [i \in 1..n |-> d[i]]
      BY <1>1, <2>1
    <2>3. s = [i \in 1..n |-> s[i]]
      BY <1>1
    <2>4. [i \in 1..n |-> d[i]] = [i \in 1..n |-> s[i]]
      BY <2>1
    <2>5. QED
      BY <2>2, <2>3, <2>4 DEF d
  <1>6. QED
    BY <1>1, <1>3, <1>4, <1>5 DEF s, n

\* getenv finds a string whose name no other string has.
LEMMA LookupIs ==
  ASSUME NEW env, NEW n \in Nat, Len(env) = n + 1, env[n + 1] = Null,
         NEW i \in 1..n, env[i] # Null,
         \A j \in 1..n : Key(env[j]) = Key(env[i]) => j = i
  PROVE  Lookup(env, Key(env[i])) = Value(env[i])
  <1> DEFINE I == {j \in 1..Len(env) : env[j] # Null /\ Key(env[j]) = Key(env[i])}
  <1>1. I = {i}
    <2>1. i \in 1..Len(env)
      OBVIOUS
    <2>2. ASSUME NEW j \in I PROVE j = i
      <3>1. j \in 1..n \/ j = n + 1
        OBVIOUS
      <3>2. QED
        BY <3>1
    <2>3. QED
      BY <2>1, <2>2
  <1>2. Min({i}) = i
    <2>1. {i} \subseteq Int /\ i \in {i} /\ \A y \in {i} : i <= y
      OBVIOUS
    <2>2. QED
      BY <2>1, MinIs
  <1>3. SelectInSeq(env, LAMBDA s : s # Null /\ Key(s) = Key(env[i])) = IF I # {} THEN Min(I) ELSE 0
    BY DEF SelectInSeq
  <1> HIDE DEF I
  <1>4. SelectInSeq(env, LAMBDA s : s # Null /\ Key(s) = Key(env[i])) = i
    BY <1>1, <1>2, <1>3
  <1>5. i # 0
    OBVIOUS
  <1>6. QED
    BY <1>4, <1>5 DEF Lookup

\* The merged environment is whole: terminated, with every variable of this
\* process's as it was, and the pager's in place of the user's.
THEOREM MergeEnds ==
  ASSUME NEW W, IsEnvironment(W), NEW m, MergeInv(m, W), Merged(m)
  PROVE  WellMerged(Detached(m.result), W)
  <1> DEFINE S == Both(W)
             PV == ToSet(PagerVariables)
             cur == m.current
             res == m.result
             n == res.len
             env == Detached(res)
             strings == Contents(res)
  <1>1. /\ m \in Merges(S) /\ Holds(res) /\ Ranked(cur, W) /\ Collected(W, cur, res, cur.len)
    BY DEF MergeInv, Merged
  <1>2. res \in Arrays(S) /\ S \cap {Null, Garbage} = {}
    BY <1>1, EnvironmentIs DEF Merges
  <1>3. /\ n \in Nat /\ (\A i \in 1..n : res.cells[i] \in S /\ res.cells[i] \notin {Null, Garbage})
        /\ Len(strings) = n /\ \A i \in 1..n : strings[i] = res.cells[i]
    BY <1>1, <1>2, CellsOf
  <1>4. strings \in Seq(S) /\ DOMAIN strings = 1..n
    BY <1>1, <1>2, <1>3, CellsOf
  <1>5. /\ Len(env) = n + 1 /\ env[n + 1] = Null
        /\ \A i \in 1..n : env[i] = res.cells[i]
        /\ SubSeq(env, 1, n) = strings
    BY <1>1, <1>2, DetachedIs
  <1> HIDE DEF env, strings, n, res, cur
  <1>6. Len(env) - 1 = n
    BY <1>3, <1>5
  <1>7. ToSet(strings) = {res.cells[i] : i \in 1..n}
    BY <1>3, <1>4 DEF ToSet
  <1>8. \A i, j \in 1..n :
          Key(res.cells[i]) = Key(res.cells[j]) /\ InPlace(W, Key(res.cells[i])) => i = j
    BY <1>1 DEF Collected, n
  <1>9. ASSUME NEW i \in 1..n, InPlace(W, Key(res.cells[i]))
        PROVE  Lookup(env, Key(res.cells[i])) = Value(res.cells[i])
    <2>1. env[i] = res.cells[i] /\ env[i] # Null
      BY <1>3, <1>5
    <2>2. \A j \in 1..n : Key(env[j]) = Key(env[i]) => j = i
      BY <1>5, <1>8, <1>9, Zenon
    <2>3. Lookup(env, Key(env[i])) = Value(env[i])
      BY <1>3, <1>5, <2>1, <2>2, LookupIs
    <2>4. QED
      BY <2>1, <2>3
  <1>10. ASSUME NEW s \in ToSet(W), Key(s) \notin Ours
         PROVE  Lookup(env, Key(s)) = Value(s)
    <2>1. PICK j \in 1..cur.len : cur.cells[j] = s
      BY <1>1 DEF Ranked
    <2>2. PICK i \in 1..n : res.cells[i] = s
      BY <1>1, <1>10, <2>1 DEF Collected, n
    <2>3. InPlace(W, Key(s))
      BY <1>10 DEF InPlace
    <2>4. QED
      BY <1>9, <2>2, <2>3
  <1>11. ASSUME NEW s \in PV, ~Overtaken(W, Key(s))
         PROVE  Lookup(env, Key(s)) = Value(s)
    <2>1. PICK i \in 1..n : res.cells[i] = s
      BY <1>1 DEF Collected, n
    <2>2. InPlace(W, Key(s))
      BY <1>11 DEF InPlace
    <2>3. QED
      BY <1>9, <2>1, <2>2
  <1>12. ASSUME \A name \in Ours : ~Overtaken(W, name)
         PROVE  Cardinality(Names(ToSet(strings))) = Len(strings)
    <2> DEFINE f == [i \in 1..n |-> Key(res.cells[i])]
               N == Names(ToSet(strings))
    <2>1. N = {Key(res.cells[i]) : i \in 1..n}
      BY <1>7 DEF Names
    <2>2. \A i, j \in 1..n : f[i] = f[j] => i = j
      BY <1>8, <1>12 DEF InPlace
    <2>3. f \in Bijection(1..n, N)
      <3>1. f \in [1..n -> N]
        BY <2>1
      <3>2. f \in Injection(1..n, N)
        <4> HIDE DEF f, N
        <4>1. QED
          BY <2>2, <3>1 DEF Injection, IsInjective
      <3>3. \A t \in N : \E i \in 1..n : f[i] = t
        BY <2>1
      <3> HIDE DEF f, N
      <3>4. QED
        BY <3>1, <3>2, <3>3 DEF Bijection, Surjection
    <2>4. IsFiniteSet(1..n) /\ Cardinality(1..n) = n
      BY <1>3, FS_Interval
    <2> HIDE DEF f, N
    <2>5. Cardinality(N) = n
      <3>1. ExistsBijection(1..n, N)
        BY <2>3 DEF ExistsBijection
      <3>2. QED
        BY <2>4, <3>1, FS_Bijection
    <2>6. QED
      BY <1>3, <2>5 DEF N
  <1>13. ToSet(strings) \cap {Null, Garbage} = {}
    BY <1>3, <1>7
  <1>14. QED
    BY <1>5, <1>6, <1>10, <1>11, <1>12, <1>13 DEF WellMerged, env, res
=============================================================================
