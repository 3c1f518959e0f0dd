------------------------------- MODULE GitRepo -------------------------------
(***************************************************************************)
(* The part of git that git-chat relies on, as operators over trees.       *)
(*                                                                         *)
(* git-chat never touches .git/objects or the index itself: every change   *)
(* is made by a git child process ("git add", "git commit",                *)
(* "git checkout", "git pull --ff-only").  A tree is a function from the   *)
(* tracked paths to their contents; the same representation serves the     *)
(* tree of a commit, the index and the working tree.  This module is       *)
(* external to the repository: it says what the commands run by src/ do.   *)
(***************************************************************************)
CONSTANTS
  Paths,      \* the paths git-chat tracks
  Contents,   \* what a path may hold
  NoFile      \* the content of a path that has no file (one of Contents)

Trees == [Paths -> Contents]

EmptyTree == [p \in Paths |-> NoFile]

(***************************************************************************)
(* "git checkout" and "git pull --ff-only" move from tree h to tree t by   *)
(* git's two-way merge, one path at a time, given the index i and the      *)
(* working tree w.  A path that h and t agree on, or that the index has    *)
(* already in the form of t, is left alone, staged or modified as it may   *)
(* be.  Any other path must be unmodified, and takes the content of t.     *)
(* An untracked file where t has one makes the path count as modified.     *)
(***************************************************************************)
Keeps(h, t, i, p) == h[p] = t[p] \/ i[p] = t[p]

Clean(h, i, w, p) == i[p] = h[p] /\ w[p] = i[p]

CanMove(h, t, i, w) == \A p \in Paths : Keeps(h, t, i, p) \/ Clean(h, i, w, p)

\* What the index, or the working tree, s becomes by the move.
Moved(h, t, i, s) ==
  [p \in Paths |-> IF Keeps(h, t, i, p) THEN s[p] ELSE t[p]]

(***************************************************************************)
(* "git add <path>" copies one working-tree file into the index.           *)
(***************************************************************************)
Added(i, w, p) == [i EXCEPT ![p] = w[p]]
=============================================================================
