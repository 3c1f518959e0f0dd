----------------------------- MODULE MCChatSpace -----------------------------
(***************************************************************************)
(* ChatSpace on small sets.                                                *)
(***************************************************************************)
EXTENDS ChatSpace, TLC

CONSTANTS k1, k2

\* Without a trust list, and with one that trusts a single key.
MCTrustLists == {NoFile, {k1}}

\* The members are interchangeable in the runs that trust nobody in particular.
MCNoTrustList == {NoFile}

Symmetry == Permutations(Keys) \cup Permutations(Procs)

(***************************************************************************)
(* Two terminals, in an empty directory or in a clone.  The commands that  *)
(* meet in the index and in the files of .git-chat are interleaved step by *)
(* step; "config" and "git pull" are left to the run with one terminal.    *)
(***************************************************************************)
PairNext ==
  \E p \in Procs :
    \/ InitCommand(p) \/ ConfigWrite(p) \/ CommitNothing(p)
    \/ ImportCommand(p) \/ MessageCommand(p)
    \/ \E c \in Channels :
         CreateParse(p, c) \/ ChannelSwitch(p, c) \/ ChannelDelete(p, c)
    \/ CreateCheckout(p) \/ CreateCheckoutFails(p)

PairSpec == Init /\ [][PairNext]_vars
=============================================================================
