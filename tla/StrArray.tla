------------------------------ MODULE StrArray ------------------------------
(***************************************************************************)
(* The array of strings of str-array.c, with the capacity that it has: an  *)
(* array is its count of strings and the cells that were allocated, of     *)
(* which the ones past the terminator hold whatever malloc left there.     *)
(* A write past the cells is lost, so that what it stored is missed.       *)
(* The operations are the ones that building an environment uses.          *)
(***************************************************************************)
EXTENDS Integers, Sequences

CONSTANTS
  BuffSlop,     \* BUFF_SLOP: by how many cells a full array grows
  Null,         \* the null pointer
  Garbage       \* a cell that was never written

ASSUME SlopAssumption == BuffSlop \in Nat /\ BuffSlop >= 2

FreshArray == [len |-> 0, cells |-> << >>]

\* The strings of an array.
Contents(a) == SubSeq(a.cells, 1, a.len)

Grow(a, size) ==
  IF size - 1 < a.len
    THEN a
    ELSE [a EXCEPT !.cells =
            [i \in 1..size |-> IF i <= Len(a.cells) THEN a.cells[i] ELSE Garbage]]

\* Mutant: the terminator is not counted.
RoomShort(a) ==
  IF a.len >= Len(a.cells) THEN Grow(a, Len(a.cells) + BuffSlop) ELSE a

\* Room for one string more and the terminator.
Room(a) ==
  IF a.len + 2 >= Len(a.cells) THEN Grow(a, Len(a.cells) + BuffSlop) ELSE a

Push(a, s) ==
  LET b == Room(a)
  IN  [len   |-> b.len + 1,
       cells |-> [b.cells EXCEPT ![b.len + 1] = s, ![b.len + 2] = Null]]

\* The strings from position pos on (counted from 0) move up by one cell.
Insert(a, s, pos) ==
  LET b == Room(a)
      at == IF pos < b.len THEN pos ELSE b.len
  IN  [len   |-> b.len + 1,
       cells |-> [i \in DOMAIN b.cells |->
                    CASE i = at + 1                    -> s
                      [] i > at + 1 /\ i <= b.len + 1  -> b.cells[i - 1]
                      [] i = b.len + 2                 -> Null
                      [] OTHER                         -> b.cells[i]]]

\* The array as execve takes it.
Detached(a) == Append(Contents(a), Null)

(* What every operation leaves behind: the cells up to the terminator are  *)
(* allocated and were written, or nothing is allocated at all.             *)
Holds(a) ==
  \/ a = FreshArray
  \/ /\ a.len < Len(a.cells)
     /\ a.cells[a.len + 1] = Null
     /\ \A i \in 1..a.len : a.cells[i] \notin {Null, Garbage}
=============================================================================
