-------------------------- MODULE ChildEnvironment --------------------------
(***************************************************************************)
(* What start_command hands to execve: the program it finds, and the       *)
(* environment of this process with the variables of the child merged in.  *)
(*                                                                         *)
(* A string is the sequence of the ranks of its characters, in strcmp's    *)
(* order: a digit comes before "=", "=" before every letter.  Two strings  *)
(* are compared, cut at "=" and compared again, so which names are the     *)
(* beginning of others is all that matters about a name.                   *)
(***************************************************************************)
EXTENDS StrArray, SequencesExt

Digit == 1
Eq == 2

\* The variables that configure_pager_env adds, and git chat read's options.
LessName == <<4>>
LvName   == <<5>>
MoreName == <<7>>
OptValue == <<9>>

PagerVariables ==
  <<LessName \o <<Eq>> \o OptValue, LvName \o <<Eq>> \o OptValue,
    MoreName \o <<Eq>> \o OptValue>>

\* strcmp(s, t) < 0
Below(s, t) ==
  \/ IsStrictPrefix(s, t)
  \/ \E i \in DOMAIN s \cap DOMAIN t :
       s[i] < t[i] /\ SubSeq(s, 1, i - 1) = SubSeq(t, 1, i - 1)

\* str_array_sort, qsort by strcmp: a string comes after those below it, and
\* equal ones, which cannot be told apart, stay in order.
Sort(a) ==
  LET Before(i) == {j \in 1..a.len : \/ Below(a.cells[j], a.cells[i])
                                     \/ a.cells[j] = a.cells[i] /\ j < i}
      from == [k \in 1..a.len |-> CHOOSE i \in 1..a.len : Cardinality(Before(i)) = k - 1]
  IN  [a EXCEPT !.cells =
         [k \in DOMAIN a.cells |-> a.cells[IF k <= a.len THEN from[k] ELSE k]]]

\* env_variable_key
Key(s) ==
  LET eq == SelectInSeq(s, LAMBDA char : char = Eq)
  IN  IF eq = 0 THEN s ELSE SubSeq(s, 1, eq - 1)

Value(s) == SubSeq(s, Len(Key(s)) + 2, Len(s))

-----------------------------------------------------------------------------
(* merge_env: both environments are copied and sorted, two indexes (which  *)
(* count from 0) walk them, and what is left of this process's own is      *)
(* added at the end: from then on the walk is over.                        *)

MergeStarts(environ, variables) ==
  [environ |-> environ, variables |-> variables, stage |-> "copy", p |-> 0, c |-> 0,
   current |-> FreshArray, result |-> FreshArray]

Copying(m) == m.stage = "copy" /\ m.environ \o m.variables # << >>

Copied(m) == m.stage = "copy" /\ ~Copying(m)

\* One string of this process's environment, or of the child's variables.
CopyString(m) ==
  IF m.environ # << >>
    THEN [m EXCEPT !.current = Push(m.current, Head(m.environ)), !.environ = Tail(@)]
    ELSE [m EXCEPT !.result = Insert(m.result, Head(m.variables), m.result.len),
                   !.variables = Tail(@)]

SortBoth(m) ==
  [m EXCEPT !.current = Sort(m.current), !.result = Sort(m.result),
            !.stage = "walk"]

Walking(m) == m.stage = "walk" /\ m.p < m.current.len /\ m.c < m.result.len

\* Mutant: a variable that both have stays in this process's environment.
MergeStepKeeps(m) ==
  LET theirs == m.current.cells[m.p + 1]
      ours == m.result.cells[m.c + 1]
  IN  IF Below(Key(theirs), Key(ours))
        THEN [m EXCEPT !.result = Insert(m.result, theirs, 0),
                       !.p = m.p + 1, !.c = m.c + 1]
        ELSE [m EXCEPT !.c = m.c + 1]

\* One turn of the loop, while both environments have a string left.
MergeStep(m) ==
  LET theirs == m.current.cells[m.p + 1]
      ours == m.result.cells[m.c + 1]
  IN  CASE Below(Key(theirs), Key(ours)) ->
             [m EXCEPT !.result = Insert(m.result, theirs, 0),
                       !.p = m.p + 1, !.c = m.c + 1]
        [] Key(theirs) = Key(ours) -> [m EXCEPT !.p = m.p + 1, !.c = m.c + 1]
        [] OTHER                   -> [m EXCEPT !.c = m.c + 1]

Adding(m) == m.stage # "copy" /\ ~Walking(m) /\ m.p < m.current.len

AddString(m) ==
  [m EXCEPT !.result = Push(m.result, m.current.cells[m.p + 1]), !.p = m.p + 1,
            !.stage = "add"]

Merged(m) == m.stage # "copy" /\ m.p = m.current.len

-----------------------------------------------------------------------------
(* getenv in the child: the first string with that name.                   *)

Lookup(env, name) ==
  LET at == SelectInSeq(env, LAMBDA s : s # Null /\ Key(s) = name)
  IN  IF at = 0 THEN Null ELSE Value(env[at])

Names(strings) == {Key(s) : s \in strings}

(* Another name begins with this one and goes on with a character below    *)
(* "=": sorted as strings, the two are then in the other order than sorted *)
(* by name.                                                                *)
Overtaken(environ, name) ==
  \E other \in Names(ToSet(environ)) :
    IsStrictPrefix(name, other) /\ other[Len(name) + 1] < Eq
=============================================================================
