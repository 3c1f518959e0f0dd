------------------------------ MODULE KeyValue ------------------------------
(***************************************************************************)
(* What the config file of a channel promises: a partial map from keys to  *)
(* values.  A set or an unset changes one key.  A command that is killed,  *)
(* or a disk that fills up, may cost entries; an entry that the file       *)
(* format cannot carry may cost the whole file.  An editor may change all  *)
(* of it, and nothing else does.                                           *)
(***************************************************************************)
EXTENDS Functions

CONSTANTS
  Keys,         \* the keys of the entries
  Values,       \* the values of the entries
  Carried,      \* the entries <<key, value>> the file format can carry
  Broken,       \* the map of a file that does not parse
  Faults        \* TRUE: commands are killed, and the disk fills up

VARIABLES
  kv,           \* the entries, or Broken
  busy,         \* a command has made its change and has not ended
  failed,       \* the last command failed
  edited,       \* the last command was an editor
  full          \* the disk is full

AllCarried(m) == \A k \in DOMAIN m : <<k, m[k]>> \in Carried

\* The map m has no entry but some of those of g.
IsPart(m, g) == m # Broken /\ DOMAIN m \subseteq DOMAIN g /\ m = Restrict(g, DOMAIN m)

Put(m, k, v) == [x \in DOMAIN m \cup {k} |-> IF x = k THEN v ELSE m[x]]

Remove(m, k) == Restrict(m, DOMAIN m \ {k})

\* A command is killed, and does not report success.
Lose == Faults /\ failed' /\ IsPart(kv', kv)

\* The last line to fit on the disk is cut off, maybe inside its value.
Cut == full /\ failed' /\ (kv' # Broken => DOMAIN kv' \subseteq DOMAIN kv)

\* An entry the format cannot carry was written.
Spoil == ~AllCarried(kv) /\ (kv' # Broken => IsPart(kv', kv))

Init == busy = FALSE /\ failed = FALSE /\ edited = FALSE /\ full = FALSE

\* A command sets or unsets the entry it names.
Change ==
  /\ ~busy /\ kv # Broken
  /\ busy' = TRUE
  /\ \E m \in {kv}, k \in Keys :
       kv' = Remove(m, k) \/ \E v \in Values : kv' = Put(m, k, v)
  /\ edited' = FALSE
  /\ UNCHANGED <<failed, full>>

\* A command ends with the map it made, unless a fault or the format took
\* entries from it.
End ==
  /\ busy
  /\ busy' = FALSE
  /\ failed' \in BOOLEAN
  /\ kv' = kv \/ Lose \/ Cut \/ Spoil
  /\ UNCHANGED <<edited, full>>

\* A command begins, looks, or fails before it changes anything.
Look ==
  /\ ~busy
  /\ failed' \in BOOLEAN
  /\ edited' = FALSE
  /\ UNCHANGED <<kv, busy, full>>

\* Only an editor changes as many entries as it likes.
Edit ==
  /\ ~busy
  /\ failed' \in BOOLEAN
  /\ edited' = TRUE
  /\ kv' # Broken => DOMAIN kv' \subseteq Keys
  /\ UNCHANGED <<busy, full>>

DiskFills == Faults /\ full' = ~full /\ UNCHANGED <<kv, busy, failed, edited>>

Next == Change \/ End \/ Look \/ Edit \/ DiskFills

Spec == Init /\ [][Next]_<<kv, busy, failed, edited, full>>
=============================================================================
