-------------------------- MODULE ChatSpaceProofs ----------------------------
(***************************************************************************)
(* Theorems about ChatSpace, for any keys, channels, terminals and trust   *)
(* lists, with or without commands that are cut short.                     *)
(***************************************************************************)
EXTENDS ChatSpace, TLAPS

USE ChatSpaceAssumption

-----------------------------------------------------------------------------
(* Trees and local variables.                                              *)

\* What a tree holds.
LEMMA TreeContents ==
  ASSUME NEW t \in Trees
  PROVE  /\ t \in [Paths -> Contents]
         /\ t[ConfigPath] # NoFile => t[ConfigPath] \in SUBSET Channels
         /\ \A k \in Keys : t[k] \in {NoFile, Partial, Whole}
         /\ t # NoTree
  BY NoTreeAssumption DEF Trees, Git!Trees

\* Writing one file keeps a tree a tree.
LEMMA WriteType ==
  ASSUME NEW t \in Trees
  PROVE  /\ \A s \in SUBSET Channels : [t EXCEPT ![ConfigPath] = s] \in Trees
         /\ \A k \in Keys, x \in {NoFile, Partial, Whole} : [t EXCEPT ![k] = x] \in Trees
  BY DEF Trees, Git!Trees, Paths, Contents

\* "git add" keeps the index a tree.
LEMMA AddedType ==
  ASSUME NEW i \in Trees, NEW w \in Trees, NEW q \in Paths
  PROVE  Git!Added(i, w, q) \in Trees
  BY DEF Trees, Git!Trees, Git!Added, Paths, Contents

\* A move of the working tree keeps it, and the index, a tree.
LEMMA MovedType ==
  ASSUME NEW h \in Trees, NEW t \in Trees, NEW i \in Trees, NEW s \in Trees
  PROVE  Git!Moved(h, t, i, s) \in Trees
<1>1. Git!Moved(h, t, i, s) \in [Paths -> Contents]
  BY DEF Git!Moved, Trees, Git!Trees
<1>2. \A q \in Paths : Git!Moved(h, t, i, s)[q] \in {s[q], t[q]}
  BY DEF Git!Moved
<1>3. QED
  BY <1>1, <1>2 DEF Trees, Git!Trees, Paths

\* The values that stand for nothing are well typed.
LEMMA BlankType == Blank \in Locals /\ NoCommit \in Commits /\ Git!EmptyTree \in Trees
  BY DEF Blank, Locals, NoCommit, Commits, Trees, Git!Trees, Git!EmptyTree, Paths, Contents

\* HEAD always resolves to a tree.
LEMMA HeadTreeType == TypeOK => HeadTree \in Trees
  BY BlankType DEF TypeOK, HeadTree

\* The updates of local variables that import and message make are well typed.
LEMMA UpdateType ==
  ASSUME NEW l \in Locals
  PROVE  /\ \A k \in Keys :
              [l EXCEPT !.key = {}, !.todo = @ \ {k}, !.staged = @ \cup {k}] \in Locals
         /\ \A R \in SUBSET Keys, o \in BOOLEAN :
              [l EXCEPT !.readers = R, !.open = o] \in Locals
  BY DEF Locals

\* An assignment of local variables keeps them well typed.
LEMMA AssignType ==
  ASSUME loc \in [Procs -> Locals], NEW p \in Procs, NEW l \in Locals, Assign(p, l)
  PROVE  loc' \in [Procs -> Locals]
  BY DEF Assign

\* A process that ends blanks its local variables.
LEMMA ExitType ==
  ASSUME pc \in [Procs -> Steps], loc \in [Procs -> Locals], NEW p \in Procs, Exit(p)
  PROVE  pc' \in [Procs -> Steps] /\ loc' \in [Procs -> Locals]
  BY BlankType, AssignType DEF Exit, Steps

-----------------------------------------------------------------------------
(* Type correctness.                                                       *)

\* Only the process itself moves, and only its local variables change.
LEMMA ProcessFrame ==
  ASSUME pc \in [Procs -> Steps], loc \in [Procs -> Locals], NEW p \in Procs
  PROVE  /\ \A from, to : Step(p, from, to) =>
              pc[p] = from /\ pc'[p] = to /\ \A q \in Procs : q # p => pc'[q] = pc[q]
         /\ \A l : Assign(p, l) =>
              loc'[p] = l /\ \A q \in Procs : q # p => loc'[q] = loc[q]
         /\ Exit(p) => /\ loc'[p] = Blank
                      /\ \A q \in Procs : q # p => pc'[q] = pc[q] /\ loc'[q] = loc[q]
  BY DEF Step, Assign, Exit

\* An empty directory and a fresh clone are well typed.
LEMMA InitType == Init => TypeOK
<1> SUFFICES ASSUME Init PROVE TypeOK
  OBVIOUS
<1>1. \A S \in SUBSET Keys : CloneTree(S) \in Trees
  BY DEF CloneTree, Trees, Git!Trees, Paths, Contents
<1>2. dotGit \in BOOLEAN /\ dotChat \in BOOLEAN /\ keysDir \in BOOLEAN
  BY Zenon DEF Init
<1>3. tree \in [Channels -> {NoTree} \cup Trees] /\ index \in Trees /\ work \in Trees
  BY <1>1, BlankType DEF Init
<1>4. QED
  BY <1>2, <1>3, BlankType DEF Init, TypeOK, Steps

\* Every step of a command keeps the variables well typed.
LEMMA StepType == TypeOK /\ [Next]_vars => TypeOK'
<1> SUFFICES ASSUME TypeOK, [Next]_vars
           PROVE  TypeOK'
  OBVIOUS
<1> USE BlankType DEF TypeOK, Step, Quiet, Starts, repo, files, ctl, Steps
<1>1. ASSUME NEW p \in Procs, InitCheck(p)
      PROVE  TypeOK'
  <2>1. [Blank EXCEPT !.cmd = "init"] \in Locals
    BY <1>1 DEF InitCheck, Locals, Blank
  <2>2. loc' \in [Procs -> Locals]
    BY <1>1, <2>1, AssignType DEF InitCheck
  <2>3. QED
    BY <1>1, <2>2 DEF InitCheck
<1>2. ASSUME NEW p \in Procs, InitGit(p)
      PROVE  TypeOK'
  BY <1>2 DEF InitGit
<1>3. ASSUME NEW p \in Procs, InitCopyDir(p)
      PROVE  TypeOK'
  BY <1>3 DEF InitCopyDir
<1>4. ASSUME NEW p \in Procs, InitCopyConfig(p)
      PROVE  TypeOK'
  <2>1. [loc[p] EXCEPT !.conf = {Master}] \in Locals
    BY <1>4 DEF InitCopyConfig, Locals
  <2>2. loc' \in [Procs -> Locals]
    BY <1>4, <2>1, AssignType DEF InitCopyConfig
  <2>3. work' \in Trees /\ pc' \in [Procs -> Steps]
    BY <1>4, WriteType DEF InitCopyConfig
  <2>4. QED
    BY <1>4, <2>2, <2>3 DEF InitCopyConfig
<1>5. ASSUME NEW p \in Procs, InitCopyFails(p)
      PROVE  TypeOK'
  BY <1>5, ExitType DEF InitCopyFails
<1>6. ASSUME NEW p \in Procs, InitKeysDir(p)
      PROVE  TypeOK'
  BY <1>6 DEF InitKeysDir
<1>7. ASSUME NEW p \in Procs, WriteConfigOpen(p)
      PROVE  TypeOK'
  BY <1>7, WriteType DEF WriteConfigOpen
<1>8. ASSUME NEW p \in Procs, WriteConfigData(p)
      PROVE  TypeOK'
  <2>1. loc[p].conf \in SUBSET Channels
    BY DEF Locals
  <2>2. work' \in Trees
    BY <1>8, <2>1, WriteType DEF WriteConfigData
  <2>3. pc' \in [Procs -> Steps] /\ loc' \in [Procs -> Locals]
    BY <1>8, ExitType DEF WriteConfigData
  <2>4. QED
    BY <1>8, <2>2, <2>3 DEF WriteConfigData
<1>9. ASSUME NEW p \in Procs, AddConfig(p)
      PROVE  TypeOK'
  BY <1>9, AddedType DEF AddConfig, Paths
<1>10. ASSUME NEW p \in Procs, CommitConfig(p)
      PROVE  TypeOK'
  BY <1>10, ExitType, HeadTreeType DEF CommitConfig, CommitIndex, Commits
<1>11. ASSUME NEW p \in Procs, CommitNothing(p)
      PROVE  TypeOK'
  BY <1>11, ExitType DEF CommitNothing
<1>12. ASSUME NEW p \in Procs, NEW c \in Channels, CreateParse(p, c)
      PROVE  TypeOK'
  <2>0. work[ConfigPath] \cup {c} \in SUBSET Channels
    BY <1>12, TreeContents DEF CreateParse
  <2>1. [Blank EXCEPT !.cmd = "create", !.channel = c,
                      !.conf = work[ConfigPath] \cup {c}] \in Locals
    BY <2>0 DEF Locals, Blank
  <2>2. loc' \in [Procs -> Locals]
    BY <1>12, <2>1, AssignType DEF CreateParse
  <2>3. QED
    BY <1>12, <2>2 DEF CreateParse
<1>13. ASSUME NEW p \in Procs, NEW c \in Channels, ChannelSwitch(p, c)
      PROVE  TypeOK'
  BY <1>13, MovedType, HeadTreeType DEF ChannelSwitch, MoveTo
<1>14. ASSUME NEW p \in Procs, NEW c \in Channels, ChannelDelete(p, c)
      PROVE  TypeOK'
  BY <1>14 DEF ChannelDelete
<1>15. ASSUME NEW p \in Procs, NEW c \in Channels, ConfigSetValue(p, c)
      PROVE  TypeOK'
  <2>1. work[ConfigPath] \in SUBSET Channels
    BY <1>15, TreeContents DEF ConfigSetValue
  <2>2. PICK conf \in SUBSET Channels :
          Assign(p, [Blank EXCEPT !.cmd = "config", !.conf = conf])
    BY <1>15, <2>1 DEF ConfigSetValue
  <2>3. [Blank EXCEPT !.cmd = "config", !.conf = conf] \in Locals
    BY DEF Locals, Blank
  <2>4. loc' \in [Procs -> Locals]
    BY <2>2, <2>3, AssignType
  <2>5. QED
    BY <1>15, <2>4 DEF ConfigSetValue
<1>16. ASSUME NEW p \in Procs, CreateCheckout(p)
      PROVE  TypeOK'
  <2>1. loc[p].channel \in Channels
    BY DEF Locals
  <2>2. QED
    BY <1>16, <2>1 DEF CreateCheckout
<1>17. ASSUME NEW p \in Procs, CreateCheckoutFails(p)
      PROVE  TypeOK'
  BY <1>17, ExitType DEF CreateCheckoutFails
<1>18. ASSUME NEW p \in Procs, NEW asked \in SUBSET Keys, ImportIntoKeyring(p, asked)
      PROVE  TypeOK'
  <2>1. keyring' \in SUBSET Keys
    BY <1>18 DEF ImportIntoKeyring
  <2>2. [Blank EXCEPT !.asked = asked \cap Usable, !.todo = asked \cap Usable] \in Locals
    BY DEF Locals, Blank
  <2>3. loc' \in [Procs -> Locals]
    BY <1>18, <2>2, AssignType DEF ImportIntoKeyring
  <2>4. pc' \in [Procs -> Steps] /\ keysDir' \in BOOLEAN
    BY <1>18 DEF ImportIntoKeyring
  <2>5. QED
    BY <1>18, <2>1, <2>3, <2>4 DEF ImportIntoKeyring
<1>19. ASSUME NEW p \in Procs, NEW k \in Keys, ExportOpen(p, k)
      PROVE  TypeOK'
  <2>1. [loc[p] EXCEPT !.key = {k}] \in Locals
    BY <1>19 DEF ExportOpen, Locals
  <2>2. loc' \in [Procs -> Locals]
    BY <1>19, <2>1, AssignType DEF ExportOpen
  <2>3. QED
    BY <1>19, <2>2, WriteType DEF ExportOpen
<1>20. ASSUME NEW p \in Procs, NEW k \in Keys, ExportSkip(p, k)
      PROVE  TypeOK'
  <2>1. [loc[p] EXCEPT !.todo = @ \ {k}] \in Locals
    BY <1>20 DEF ExportSkip, Locals
  <2>2. loc' \in [Procs -> Locals]
    BY <1>20, <2>1, AssignType DEF ExportSkip
  <2>3. QED
    BY <1>20, <2>2 DEF ExportSkip
<1>21. ASSUME NEW p \in Procs, NEW k \in Keys, ExportWrite(p, k)
      PROVE  TypeOK'
  BY <1>21, WriteType DEF ExportWrite
<1>22. ASSUME NEW p \in Procs, NEW k \in Keys, AddKey(p, k)
      PROVE  TypeOK'
  <2>1. [loc[p] EXCEPT !.key = {}, !.todo = @ \ {k},
                         !.staged = @ \cup {k}] \in Locals
    BY UpdateType
  <2>2. loc' \in [Procs -> Locals]
    BY <1>22, <2>1, AssignType DEF AddKey
  <2>3. QED
    BY <1>22, <2>2, AddedType DEF AddKey, Paths
<1>23. ASSUME NEW p \in Procs, ImportLoopEnds(p)
      PROVE  TypeOK'
  BY <1>23, ExitType DEF ImportLoopEnds
<1>24. ASSUME NEW p \in Procs, CommitKeys(p)
      PROVE  TypeOK'
  <2>1. loc[p].asked \in SUBSET Keys /\ loc[p].staged \in SUBSET Keys
    BY DEF Locals
  <2>2. commit' \in Commits
    BY <1>24, <2>1, HeadTreeType DEF CommitKeys, CommitIndex, Commits
  <2>3. QED
    BY <1>24, <2>2, ExitType DEF CommitKeys, CommitIndex
<1>25. ASSUME NEW p \in Procs, NEW recipients \in SUBSET Keys, RebuildKeyring(p, recipients)
      PROVE  TypeOK'
  <2>1. [Blank EXCEPT !.asked = recipients] \in Locals
    BY <1>25 DEF RebuildKeyring, Locals, Blank
  <2>2. loc' \in [Procs -> Locals]
    BY <1>25, <2>1, AssignType DEF RebuildKeyring
  <2>3. QED
    BY <1>25, <2>2 DEF RebuildKeyring, Members
<1>26. ASSUME NEW p \in Procs, NEW trust \in TrustLists, EncryptMessage(p, trust)
      PROVE  TypeOK'
  <2> DEFINE readers == Candidates(loc[p].asked) \cap Trusted(trust)
             open == loc[p].asked = {} /\ trust = NoFile
  <2>1. readers \in SUBSET Keys /\ open \in BOOLEAN
    BY DEF Candidates
  <2>2. Assign(p, [loc[p] EXCEPT !.readers = readers, !.open = open])
    BY <1>26 DEF EncryptMessage
  <2> HIDE DEF readers, open
  <2>3. [loc[p] EXCEPT !.readers = readers, !.open = open] \in Locals
    BY <2>1, UpdateType
  <2>4. loc' \in [Procs -> Locals]
    BY <2>2, <2>3, AssignType
  <2>5. QED
    BY <1>26, <2>4 DEF EncryptMessage
<1>27. ASSUME NEW p \in Procs, NEW trust \in TrustLists, EncryptRefused(p, trust)
      PROVE  TypeOK'
  BY <1>27, ExitType DEF EncryptRefused
<1>28. ASSUME NEW p \in Procs, WriteCommit(p)
      PROVE  TypeOK'
  <2>1. loc[p].readers \in SUBSET Keys /\ loc[p].open \in BOOLEAN
    BY DEF Locals
  <2>2. commit' \in Commits
    BY <1>28, <2>1, HeadTreeType DEF WriteCommit, CommitIndex, Commits
  <2>3. QED
    BY <1>28, <2>2, ExitType DEF WriteCommit, CommitIndex
<1>29. ASSUME NEW p \in Procs, NEW ks \in SUBSET Keys, NEW cs \in SUBSET Channels, Pull(p, ks, cs)
      PROVE  TypeOK'
  <2> DEFINE t == [q \in Paths |->
                     IF q = ConfigPath THEN tree[head][q] \cup cs
                     ELSE IF q \in ks THEN Whole ELSE tree[head][q]]
  <2>1. tree[head] \in Trees /\ tree[head][ConfigPath] # NoFile
    BY <1>29 DEF Pull
  <2>2. t \in Trees
    BY <2>1, TreeContents DEF Trees, Git!Trees, Paths, Contents
  <2> HIDE DEF t
  <2>3. MoveTo(t) /\ tree' = [tree EXCEPT ![head] = t]
    BY <1>29 DEF Pull, t
  <2>4. index' \in Trees /\ work' \in Trees /\ keysDir' \in BOOLEAN
    BY <2>2, <2>3, MovedType, HeadTreeType DEF MoveTo
  <2>5. commit' = NoCommit /\ UNCHANGED <<dotGit, dotChat, head, keyring, pc, loc, interrupted>>
    BY <1>29 DEF Pull
  <2>6. QED
    BY <2>2, <2>3, <2>4, <2>5
<1>30. ASSUME NEW p \in Procs, Interrupt(p)
      PROVE  TypeOK'
  BY <1>30, ExitType DEF Interrupt
<1>31. CASE UNCHANGED vars
  BY <1>31 DEF vars
<1>32. QED
  BY <1>1, <1>2, <1>3, <1>4, <1>5, <1>6, <1>7, <1>8, <1>9, <1>10, <1>11, <1>12, <1>13, <1>14, <1>15, <1>16, <1>17, <1>18, <1>19, <1>20, <1>21, <1>22, <1>23, <1>24, <1>25, <1>26, <1>27, <1>28, <1>29, <1>30, <1>31
     DEF Next, InitCommand, ConfigWrite, ChannelCommand, ImportCommand,
         MessageCommand

\* Every variable always holds a value of its kind.
THEOREM TypeCorrectness == Spec => []TypeOK
  BY InitType, StepType, PTL DEF Spec

-----------------------------------------------------------------------------
(* The key files.                                                          *)

\* What HEAD tracks is staged, and what is staged is in the working tree.
KeysFollow ==
  \A k \in Keys : /\ HeadTree[k] = Whole => index[k] = Whole
                  /\ index[k] = Whole => work[k] = Whole

\* A key is written by one process, into a file that is not staged, which is
\* cut off until the file is complete.
KeysWritten ==
  \A p \in Procs : \A k \in loc[p].key :
    /\ pc[p] \in {"export_write", "add_key"}
    /\ work[k] = IF pc[p] = "export_write" THEN Partial ELSE Whole
    /\ index[k] = NoFile
    /\ \A q \in Procs : q # p => k \notin loc[q].key

KeyInv == TrackedKeysAreWhole /\ KeysFollow /\ KeysWritten

\* The tracked files are left alone.
LEMMA TrackedFrame ==
  ASSUME TrackedKeysAreWhole, KeysFollow,
         UNCHANGED <<tree, head, index>>, \A k \in Keys : work'[k] = work[k]
  PROVE  TrackedKeysAreWhole' /\ KeysFollow'
  BY DEF TrackedKeysAreWhole, KeysFollow, HeadTree

\* No key file changes, and the process p writes none afterwards.
LEMMA WrittenFrame ==
  ASSUME TypeOK, KeysWritten, NEW p \in Procs,
         loc'[p].key = {},
         \A q \in Procs : q # p => pc'[q] = pc[q] /\ loc'[q] = loc[q],
         \A k \in Keys : work'[k] = work[k] /\ index'[k] = index[k]
  PROVE  KeysWritten'
<1> SUFFICES ASSUME NEW q \in Procs, NEW k \in loc'[q].key
             PROVE  /\ pc'[q] \in {"export_write", "add_key"}
                    /\ work'[k] = IF pc'[q] = "export_write" THEN Partial ELSE Whole
                    /\ index'[k] = NoFile
                    /\ \A r \in Procs : r # q => k \notin loc'[r].key
  BY DEF KeysWritten
<1>1. q # p /\ k \in loc[q].key /\ pc'[q] = pc[q]
  OBVIOUS
<1>2. k \in Keys
  BY <1>1 DEF TypeOK, Locals
<1>3. \A r \in Procs : r # q => k \notin loc'[r].key
  BY <1>1 DEF KeysWritten
<1>4. QED
  BY <1>1, <1>2, <1>3 DEF KeysWritten

\* A process writes a key in two of its steps only.
LEMMA NotWriting ==
  ASSUME TypeOK, KeysWritten, NEW p \in Procs, pc[p] \notin {"export_write", "add_key"}
  PROVE  loc[p].key = {}
  BY DEF TypeOK, Locals, KeysWritten

\* A commit makes the index the tree of HEAD.
LEMMA CommitKeepsKeys ==
  ASSUME TypeOK, TrackedKeysAreWhole, KeysFollow, UNCHANGED work,
         NEW kind, NEW keys, NEW staged, NEW open, CommitIndex(kind, keys, staged, open)
  PROVE  /\ TrackedKeysAreWhole' /\ KeysFollow'
         /\ \A c \in Channels : tree[c] # NoTree /\ tree'[c] # NoTree
              => Members(tree[c]) \subseteq Members(tree'[c])
<1>1. index \in Trees /\ index # NoTree
  BY TreeContents DEF TypeOK
<1>2. \A c \in Channels : tree'[c] = IF c = head THEN index ELSE tree[c]
  BY DEF CommitIndex, TypeOK
<1>3. HeadTree' = index /\ index' = index
  BY <1>1, <1>2 DEF HeadTree, CommitIndex, TypeOK
<1>4. TrackedKeysAreWhole'
  BY <1>2, <1>3 DEF TrackedKeysAreWhole
<1>5. KeysFollow'
  BY <1>3 DEF KeysFollow
<1>6. tree[head] # NoTree => Members(tree[head]) \subseteq Members(index)
  <2> SUFFICES ASSUME tree[head] # NoTree, NEW k \in Keys, tree[head][k] # NoFile
               PROVE  index[k] # NoFile
    BY DEF Members
  <2>1. tree[head] \in Trees
    BY DEF TypeOK
  <2>2. tree[head][k] = Whole
    BY <2>1, TreeContents DEF TrackedKeysAreWhole, TypeOK
  <2>3. QED
    BY <2>2 DEF KeysFollow, HeadTree
<1>7. QED
  BY <1>2, <1>4, <1>5, <1>6 DEF TypeOK

\* A move of the working tree to a tree of whole keys keeps every key in line,
\* and touches none that is being written.
LEMMA MoveKeepsKeys ==
  ASSUME TypeOK, KeyInv, NEW t \in Trees, MoveTo(t),
         \A k \in Keys : t[k] # Partial
  PROVE  /\ \A k \in Keys : /\ index'[k] # Partial
                            /\ t[k] = Whole => index'[k] = Whole
                            /\ index'[k] = Whole => work'[k] = Whole
         /\ \A p \in Procs : \A k \in loc[p].key : index'[k] = index[k] /\ work'[k] = work[k]
<1>1. \A k \in Keys :
        \/ /\ Git!Keeps(HeadTree, t, index, k)
           /\ index'[k] = index[k] /\ work'[k] = work[k]
        \/ /\ Git!Clean(HeadTree, index, work, k)
           /\ index'[k] = t[k] /\ work'[k] = t[k]
  BY DEF MoveTo, Git!CanMove, Git!Moved, Paths
<1>2. \A k \in Keys : /\ index'[k] # Partial
                      /\ t[k] = Whole => index'[k] = Whole
                      /\ index'[k] = Whole => work'[k] = Whole
  BY <1>1 DEF KeyInv, TrackedKeysAreWhole, KeysFollow, Git!Keeps
<1>3. ASSUME NEW p \in Procs, NEW k \in loc[p].key
      PROVE  index'[k] = index[k] /\ work'[k] = work[k]
  <2>1. k \in Keys
    BY DEF TypeOK, Locals
  <2>2. work[k] # index[k]
    BY DEF KeyInv, KeysWritten
  <2>3. QED
    BY <1>1, <2>1, <2>2 DEF Git!Clean
<1>4. QED
  BY <1>2, <1>3

\* No key is being written at first, and a clone is checked out whole.
LEMMA KeyInit == Init => KeyInv
<1> SUFFICES ASSUME Init PROVE KeyInv
  OBVIOUS
<1>1. \A k \in Keys : index[k] \in {NoFile, Whole} /\ work[k] = index[k] /\ HeadTree[k] \in {NoFile, index[k]}
  BY NoTreeAssumption DEF Init, HeadTree, CloneTree, Git!EmptyTree, Paths
<1>2. \A c \in Channels : tree[c] # NoTree => \A k \in Keys : tree[c][k] # Partial
  BY DEF Init, CloneTree, Paths
<1>3. \A p \in Procs : loc[p].key = {}
  BY DEF Init, Blank
<1>4. QED
  BY <1>1, <1>2, <1>3 DEF KeyInv, TrackedKeysAreWhole, KeysFollow, KeysWritten

\* No channel loses a member in this step.
Stays == \A c \in Channels : tree[c] # NoTree /\ tree'[c] # NoTree
                               => Members(tree[c]) \subseteq Members(tree'[c])

\* A step that touches no key file, no branch and no key in the index.
Aside(p) ==
  /\ loc'[p].key = {}
  /\ \A q \in Procs : q # p => pc'[q] = pc[q] /\ loc'[q] = loc[q]
  /\ UNCHANGED <<tree, head, index>>
  /\ \A k \in Keys : work'[k] = work[k]

\* A step that touches no key file keeps the key invariant.
LEMMA AsideKeepsKeys ==
  ASSUME TypeOK, KeyInv, NEW p \in Procs, Aside(p)
  PROVE  KeyInv' /\ Stays
  BY TrackedFrame, WrittenFrame DEF KeyInv, Aside, Stays

\* Most steps of the commands touch no key file.
LEMMA AsideSteps ==
  ASSUME TypeOK, KeyInv, NEW p \in Procs,
         \/ InitCommand(p) \/ WriteConfigOpen(p) \/ WriteConfigData(p)
         \/ CommitNothing(p) \/ CreateCheckoutFails(p) \/ ImportLoopEnds(p)
         \/ \E c \in Channels : CreateParse(p, c) \/ ConfigSetValue(p, c)
         \/ \E asked \in SUBSET Keys : ImportIntoKeyring(p, asked)
         \/ \E k \in Keys : ExportSkip(p, k)
         \/ \E recipients \in SUBSET Keys : RebuildKeyring(p, recipients)
         \/ \E trust \in TrustLists : EncryptMessage(p, trust) \/ EncryptRefused(p, trust)
         \/ Interrupt(p)
  PROVE  Aside(p)
<1>0. pc \in [Procs -> Steps] /\ loc \in [Procs -> Locals]
  BY DEF TypeOK
<1> USE DEF repo, files, ctl, Aside
<1>1. Blank.key = {}
  BY DEF Blank
<1>2. \A q \in Keys : q # ConfigPath
  OBVIOUS
<1>3. loc[p].key = {} \/ pc[p] \in {"export_write", "add_key"}
  BY NotWriting DEF KeyInv
<1>4. CASE InitCommand(p)
  <2>1. CASE InitCheck(p)
    BY <2>1, <1>0, ProcessFrame DEF InitCheck, Blank
  <2>2. CASE InitGit(p) \/ InitCopyDir(p) \/ InitKeysDir(p)
    BY <1>3, <2>2, <1>0, ProcessFrame DEF InitGit, InitCopyDir, InitKeysDir
  <2>3. CASE InitCopyConfig(p)
    <3>1. loc'[p].key = {}
      <4>1. loc[p].key = {} /\ loc[p] \in Locals
        BY <1>3, <2>3, <1>0, ProcessFrame DEF InitCopyConfig
      <4>2. [loc[p] EXCEPT !.conf = {Master}].key = {}
        BY <4>1 DEF Locals
      <4>3. QED
        BY <2>3, <4>2, <1>0, ProcessFrame DEF InitCopyConfig
    <3>2. QED
      BY <1>2, <2>3, <3>1, <1>0, ProcessFrame DEF InitCopyConfig
  <2>4. CASE InitCopyFails(p)
    BY <1>1, <2>4, <1>0, ProcessFrame DEF InitCopyFails
  <2>5. QED
    BY <1>4, <2>1, <2>2, <2>3, <2>4, <1>0, ProcessFrame DEF InitCommand
<1>5. CASE WriteConfigOpen(p)
  BY <1>2, <1>3, <1>5, <1>0, ProcessFrame DEF WriteConfigOpen
<1>6. CASE WriteConfigData(p)
  <2>1. pc[p] = "write"
    BY <1>6, <1>0, ProcessFrame DEF WriteConfigData
  <2>2. UNCHANGED <<tree, head, index>> /\ \A k \in Keys : work'[k] = work[k]
    BY <1>2, <1>6, <1>0, ProcessFrame DEF WriteConfigData
  <2>3. QED
    BY <1>1, <1>3, <1>6, <2>1, <2>2, <1>0, ProcessFrame DEF WriteConfigData
<1>7. CASE CommitNothing(p) \/ CreateCheckoutFails(p) \/ ImportLoopEnds(p) \/ Interrupt(p)
  BY <1>1, <1>3, <1>7, <1>0, ProcessFrame DEF CommitNothing, CreateCheckoutFails, ImportLoopEnds, Interrupt
<1>8. CASE \E c \in Channels : CreateParse(p, c) \/ ConfigSetValue(p, c)
  <2>1. PICK c \in Channels : CreateParse(p, c) \/ ConfigSetValue(p, c)
    BY <1>8
  <2>2. ASSUME CreateParse(p, c)
        PROVE  loc'[p].key = {} /\ \A q \in Procs : q # p => loc'[q] = loc[q]
    <3> DEFINE l == [Blank EXCEPT !.cmd = "create", !.channel = c,
                       !.conf = work[ConfigPath] \cup {c}]
    <3>1. l.key = {}
      BY DEF Blank
    <3>2. Assign(p, l)
      BY <2>2, Zenon DEF CreateParse
    <3> HIDE DEF l
    <3>3. QED
      BY <3>1, <3>2, <1>0 DEF Assign
  <2>3. ASSUME ConfigSetValue(p, c)
        PROVE  loc'[p].key = {} /\ \A q \in Procs : q # p => loc'[q] = loc[q]
    <3>1. PICK conf : Assign(p, [Blank EXCEPT !.cmd = "config", !.conf = conf])
      BY <2>3, Zenon DEF ConfigSetValue
    <3> DEFINE l == [Blank EXCEPT !.cmd = "config", !.conf = conf]
    <3>2. l.key = {} /\ Assign(p, l)
      BY <3>1 DEF Blank
    <3> HIDE DEF l
    <3>3. QED
      BY <3>2, <1>0 DEF Assign
  <2>4. loc'[p].key = {} /\ \A q \in Procs : q # p => loc'[q] = loc[q]
    BY <2>1, <2>2, <2>3
  <2>5. /\ \A q \in Procs : q # p => pc'[q] = pc[q]
        /\ UNCHANGED <<tree, head, index, work>>
    BY <2>1, <1>0, ProcessFrame DEF CreateParse, ConfigSetValue
  <2>6. QED
    BY <2>4, <2>5
<1>9. CASE \E asked \in SUBSET Keys : ImportIntoKeyring(p, asked)
  <2>1. PICK asked \in SUBSET Keys : ImportIntoKeyring(p, asked)
    BY <1>9
  <2>2. pc[p] = "idle"
    BY <2>1, <1>0, ProcessFrame DEF ImportIntoKeyring, Starts
  <2> DEFINE l == [Blank EXCEPT !.asked = asked \cap Usable, !.todo = asked \cap Usable]
  <2>3. l.key = {}
    BY DEF Blank
  <2>4. CASE asked \cap Usable = {}
    BY <1>3, <2>1, <2>2, <2>4, <1>0, ProcessFrame DEF ImportIntoKeyring
  <2>5. CASE asked \cap Usable # {}
    <3>1. Assign(p, l)
      BY <2>1, <2>5, Zenon DEF ImportIntoKeyring
    <3> HIDE DEF l
    <3>2. loc'[p].key = {} /\ \A q \in Procs : q # p => loc'[q] = loc[q]
      BY <2>3, <3>1, <1>0 DEF Assign
    <3>3. /\ \A q \in Procs : q # p => pc'[q] = pc[q]
          /\ UNCHANGED <<tree, head, index, work>>
      BY <2>1, <2>5, <1>0, ProcessFrame DEF ImportIntoKeyring
    <3>4. QED
      BY <3>2, <3>3
  <2>6. QED
    BY <2>4, <2>5
<1>10. CASE \E k \in Keys : ExportSkip(p, k)
  <2>1. PICK k \in Keys : ExportSkip(p, k)
    BY <1>10
  <2>2. loc[p].key = {} /\ loc[p] \in Locals
    BY <1>0, <1>3, <2>1, ProcessFrame DEF ExportSkip
  <2> DEFINE l == [loc[p] EXCEPT !.todo = @ \ {k}]
  <2>3. l.key = {}
    BY <2>2 DEF Locals
  <2>4. Assign(p, l)
    BY <2>1, Zenon DEF ExportSkip
  <2> HIDE DEF l
  <2>5. loc'[p].key = {} /\ \A q \in Procs : q # p => loc'[q] = loc[q]
    BY <2>3, <2>4, <1>0 DEF Assign
  <2>6. UNCHANGED <<tree, head, index, work, pc>>
    BY <2>1, <1>0, ProcessFrame DEF ExportSkip
  <2>7. QED
    BY <2>5, <2>6
<1>11. CASE \E recipients \in SUBSET Keys : RebuildKeyring(p, recipients)
  BY <1>11, <1>0, ProcessFrame DEF RebuildKeyring, Blank
<1>12. CASE \E trust \in TrustLists : EncryptMessage(p, trust)
  <2>1. PICK trust \in TrustLists : EncryptMessage(p, trust)
    BY <1>12
  <2>2. pc[p] = "encrypt" /\ (\A q \in Procs : q # p => pc'[q] = pc[q])
        /\ UNCHANGED <<tree, head, index, work>>
    BY <2>1, <1>0, ProcessFrame DEF EncryptMessage
  <2>3. loc[p].key = {} /\ loc[p] \in Locals
    BY <1>0, <1>3, <2>2
  <2>4. PICK R, o : Assign(p, [loc[p] EXCEPT !.readers = R, !.open = o])
    BY <2>1, Zenon DEF EncryptMessage
  <2> DEFINE l == [loc[p] EXCEPT !.readers = R, !.open = o]
  <2>5. l.key = {} /\ Assign(p, l)
    BY <2>3, <2>4 DEF Locals
  <2> HIDE DEF l
  <2>6. loc'[p].key = {} /\ \A q \in Procs : q # p => loc'[q] = loc[q]
    BY <2>5, <1>0 DEF Assign
  <2>7. QED
    BY <2>2, <2>6
<1>13. CASE \E trust \in TrustLists : EncryptRefused(p, trust)
  BY <1>1, <1>13, <1>0, ProcessFrame DEF EncryptRefused
<1>14. QED
  BY <1>4, <1>5, <1>6, <1>7, <1>8, <1>9, <1>10, <1>11, <1>12, <1>13

\* A commit by process p.
LEMMA CommitSteps ==
  ASSUME TypeOK, KeyInv, NEW p \in Procs,
         CommitConfig(p) \/ CommitKeys(p) \/ WriteCommit(p)
  PROVE  KeyInv' /\ Stays
<1>1. PICK kind, keys, staged, open : CommitIndex(kind, keys, staged, open)
  BY DEF CommitConfig, CommitKeys, WriteCommit
<1>2. Exit(p) /\ UNCHANGED <<work, index>>
  BY DEF CommitConfig, CommitKeys, WriteCommit, CommitIndex, files
<1>3. TrackedKeysAreWhole' /\ KeysFollow' /\ Stays
  BY <1>1, <1>2, CommitKeepsKeys DEF KeyInv, Stays
<1>4. /\ loc'[p].key = {}
      /\ \A q \in Procs : q # p => pc'[q] = pc[q] /\ loc'[q] = loc[q]
  BY <1>2, ProcessFrame DEF TypeOK, Blank
<1>5. KeysWritten'
  BY <1>2, <1>4, WrittenFrame DEF KeyInv
<1>6. QED
  BY <1>3, <1>5 DEF KeyInv

\* A branch made by "channel create" has the tree of HEAD; a deleted one has none.
LEMMA BranchSteps ==
  ASSUME TypeOK, KeyInv, NEW p \in Procs,
         CreateCheckout(p) \/ \E c \in Channels : ChannelDelete(p, c)
  PROVE  KeyInv' /\ Stays
<1>1. loc[p].channel \in Channels
  BY DEF TypeOK, Locals
<1>2. UNCHANGED <<index, work, loc>>
  BY DEF CreateCheckout, ChannelDelete, files, ctl
<1>3. /\ HeadTree' = HeadTree
      /\ \A c \in Channels :
           \/ tree'[c] \in {tree[c], NoTree}
           \/ tree[c] = NoTree /\ tree'[c] = tree[head]
  <2>1. CASE CreateCheckout(p)
    BY <1>1, <2>1 DEF CreateCheckout, HeadTree, TypeOK
  <2>2. CASE \E c \in Channels : ChannelDelete(p, c)
    BY <2>2 DEF ChannelDelete, HeadTree, TypeOK
  <2>3. QED
    BY <2>1, <2>2
<1>4. TrackedKeysAreWhole' /\ KeysFollow' /\ Stays
  BY <1>2, <1>3 DEF KeyInv, TrackedKeysAreWhole, KeysFollow, Stays, TypeOK
<1>5. /\ loc[p].key = {}
      /\ \A q \in Procs : q # p => pc'[q] = pc[q]
  <2>1. pc[p] \in {"checkout", "idle"}
    BY DEF CreateCheckout, ChannelDelete, Step, Starts
  <2>2. loc[p].key = {}
    BY <2>1, NotWriting DEF KeyInv
  <2>3. QED
    BY <2>2, ProcessFrame DEF CreateCheckout, ChannelDelete, ctl, TypeOK
<1>6. KeysWritten'
  BY <1>2, <1>5, WrittenFrame DEF KeyInv
<1>7. QED
  BY <1>4, <1>6 DEF KeyInv

\* The working tree moves to another branch, or to what was pulled.
LEMMA MoveSteps ==
  ASSUME TypeOK, KeyInv, NEW p \in Procs, NEW t \in Trees, MoveTo(t),
         \A k \in Keys : t[k] # Partial,
         UNCHANGED <<pc, loc>>, HeadTree' = t,
         \A c \in Channels : tree'[c] # NoTree =>
           \/ tree'[c] = tree[c]
           \/ tree'[c] = t /\ (tree[c] # NoTree => Members(tree[c]) \subseteq Members(t))
  PROVE  KeyInv' /\ Stays
<1>1. /\ \A k \in Keys : /\ index'[k] # Partial
                         /\ t[k] = Whole => index'[k] = Whole
                         /\ index'[k] = Whole => work'[k] = Whole
      /\ \A q \in Procs : \A k \in loc[q].key : index'[k] = index[k] /\ work'[k] = work[k]
  BY MoveKeepsKeys
<1>2. TrackedKeysAreWhole'
  BY <1>1 DEF KeyInv, TrackedKeysAreWhole
<1>3. KeysFollow'
  BY <1>1 DEF KeysFollow
<1>4. KeysWritten'
  BY <1>1 DEF KeyInv, KeysWritten
<1>5. Stays
  BY DEF Stays
<1>6. QED
  BY <1>2, <1>3, <1>4, <1>5 DEF KeyInv

\* "channel switch" moves to a tree of whole keys.
LEMMA SwitchStep ==
  ASSUME TypeOK, KeyInv, NEW p \in Procs, NEW c \in Channels, ChannelSwitch(p, c)
  PROVE  KeyInv' /\ Stays
<1>1. tree[c] \in Trees /\ tree[c] # NoTree /\ tree' = tree /\ head' = c
  BY DEF ChannelSwitch, TypeOK
<1>2. \A k \in Keys : tree[c][k] # Partial
  BY <1>1 DEF KeyInv, TrackedKeysAreWhole
<1>3. HeadTree' = tree[c]
  BY <1>1 DEF HeadTree
<1>4. MoveTo(tree[c]) /\ UNCHANGED <<pc, loc>>
  BY DEF ChannelSwitch, ctl
<1>5. QED
  BY <1>1, <1>2, <1>3, <1>4, MoveSteps

\* "git pull" moves to a tree of whole keys, which has all of the old ones.
LEMMA PullStep ==
  ASSUME TypeOK, KeyInv, NEW p \in Procs, NEW ks \in SUBSET Keys,
         NEW cs \in SUBSET Channels, Pull(p, ks, cs)
  PROVE  KeyInv' /\ Stays
<1> DEFINE t == [q \in Paths |->
                   IF q = ConfigPath THEN tree[head][q] \cup cs
                   ELSE IF q \in ks THEN Whole ELSE tree[head][q]]
<1>1. /\ tree[head] \in Trees /\ tree[head] # NoTree /\ head' = head
      /\ tree[head][ConfigPath] # NoFile
  BY DEF Pull, TypeOK
<1>2. t \in Trees
  BY <1>1, TreeContents DEF Trees, Git!Trees, Paths, Contents
<1>3. \A k \in Keys : t[k] # Partial /\ (tree[head][k] # NoFile => t[k] # NoFile)
  BY <1>1 DEF KeyInv, TrackedKeysAreWhole, Paths, TypeOK
<1>4. MoveTo(t) /\ tree' = [tree EXCEPT ![head] = t] /\ UNCHANGED <<pc, loc>>
  BY DEF Pull, ctl
<1> HIDE DEF t
<1>5. HeadTree' = t
  BY <1>1, <1>2, <1>4, TreeContents DEF HeadTree, TypeOK
<1>6. \A c \in Channels : tree'[c] # NoTree =>
        \/ tree'[c] = tree[c]
        \/ tree'[c] = t /\ (tree[c] # NoTree => Members(tree[c]) \subseteq Members(t))
  BY <1>3, <1>4 DEF TypeOK, Members
<1>7. QED
  BY <1>2, <1>3, <1>4, <1>5, <1>6, MoveSteps

\* Adding the config file leaves the keys in the index alone.
LEMMA AddConfigStep ==
  ASSUME TypeOK, KeyInv, NEW p \in Procs, AddConfig(p)
  PROVE  KeyInv' /\ Stays
<1>1. /\ UNCHANGED <<tree, head, work, loc>>
      /\ \A k \in Keys : index'[k] = index[k]
  BY DEF AddConfig, files, Git!Added, TypeOK, Trees, Git!Trees
<1>2. TrackedKeysAreWhole' /\ KeysFollow' /\ Stays
  BY <1>1 DEF KeyInv, TrackedKeysAreWhole, KeysFollow, HeadTree, Stays
<1>3. pc[p] = "add_config" /\ \A q \in Procs : q # p => pc'[q] = pc[q]
  BY ProcessFrame DEF AddConfig, TypeOK
<1>4. loc[p].key = {}
  BY <1>3, NotWriting DEF KeyInv
<1>5. KeysWritten'
  BY <1>1, <1>3, <1>4, WrittenFrame DEF KeyInv
<1>6. QED
  BY <1>2, <1>5 DEF KeyInv

\* Nobody writes a key whose file does not exist yet.
LEMMA ExportOpenStep ==
  ASSUME TypeOK, KeyInv, NEW p \in Procs, NEW k \in Keys, ExportOpen(p, k)
  PROVE  KeyInv' /\ Stays
<1> DEFINE l == [loc[p] EXCEPT !.key = {k}]
<1>1. l.key = {k}
  BY DEF TypeOK, Locals
<1>2. Assign(p, l) /\ Step(p, "export", "export_write")
  BY DEF ExportOpen
<1> HIDE DEF l
<1>3. /\ loc'[p].key = {k} /\ \A q \in Procs : q # p => loc'[q] = loc[q]
      /\ pc'[p] = "export_write" /\ \A q \in Procs : q # p => pc'[q] = pc[q]
  BY <1>1, <1>2 DEF TypeOK, Assign, Step
<1>4. /\ UNCHANGED <<tree, head, index>>
      /\ work[k] = NoFile /\ work' = [work EXCEPT ![k] = Partial]
  BY DEF ExportOpen, repo
<1>5. work'[k] = Partial /\ \A j \in Keys : j # k => work'[j] = work[j]
  BY <1>4 DEF TypeOK, Trees, Git!Trees, Paths
<1>6. index[k] = NoFile
  <2>1. index[k] # Whole
    BY <1>4 DEF KeyInv, KeysFollow
  <2>2. index[k] \in {NoFile, Partial, Whole}
    BY TreeContents DEF TypeOK
  <2>3. QED
    BY <2>1, <2>2 DEF KeyInv, TrackedKeysAreWhole
<1>7. TrackedKeysAreWhole' /\ KeysFollow' /\ Stays
  BY <1>4, <1>5, <1>6 DEF KeyInv, TrackedKeysAreWhole, KeysFollow, HeadTree, Stays
<1>8. \A q \in Procs : k \notin loc[q].key
  BY <1>4 DEF KeyInv, KeysWritten
<1>9. KeysWritten'
  <2> SUFFICES ASSUME NEW q \in Procs, NEW j \in loc'[q].key
               PROVE  /\ pc'[q] \in {"export_write", "add_key"}
                      /\ work'[j] = IF pc'[q] = "export_write" THEN Partial ELSE Whole
                      /\ index'[j] = NoFile
                      /\ \A r \in Procs : r # q => j \notin loc'[r].key
    BY DEF KeysWritten
  <2>1. CASE q = p
    BY <1>3, <1>4, <1>5, <1>6, <1>8, <2>1
  <2>2. CASE q # p
    <3>1. j \in loc[q].key /\ j # k /\ j \in Keys
      BY <1>3, <1>8, <2>2 DEF TypeOK, Locals
    <3>2. \A r \in Procs : r # q => j \notin loc'[r].key
      BY <1>3, <3>1 DEF KeyInv, KeysWritten
    <3>3. QED
      BY <1>3, <1>4, <1>5, <2>2, <3>1, <3>2 DEF KeyInv, KeysWritten
  <2>3. QED
    BY <2>1, <2>2
<1>10. QED
  BY <1>7, <1>9 DEF KeyInv

\* The one process that writes a key completes its file.
LEMMA ExportWriteStep ==
  ASSUME TypeOK, KeyInv, NEW p \in Procs, NEW k \in Keys, ExportWrite(p, k)
  PROVE  KeyInv' /\ Stays
<1>1. /\ loc[p].key = {k} /\ UNCHANGED <<tree, head, index, loc>>
      /\ pc'[p] = "add_key" /\ \A q \in Procs : q # p => pc'[q] = pc[q]
  BY DEF ExportWrite, repo, TypeOK, Step
<1>2. work'[k] = Whole /\ \A j \in Keys : j # k => work'[j] = work[j]
  BY DEF ExportWrite, TypeOK, Trees, Git!Trees, Paths
<1>3. TrackedKeysAreWhole' /\ KeysFollow' /\ Stays
  BY <1>1, <1>2 DEF KeyInv, TrackedKeysAreWhole, KeysFollow, HeadTree, Stays
<1>4. KeysWritten'
  <2> SUFFICES ASSUME NEW q \in Procs, NEW j \in loc[q].key
               PROVE  /\ pc'[q] \in {"export_write", "add_key"}
                      /\ work'[j] = IF pc'[q] = "export_write" THEN Partial ELSE Whole
                      /\ index[j] = NoFile
                      /\ \A r \in Procs : r # q => j \notin loc[r].key
    BY <1>1 DEF KeysWritten
  <2>1. j \in Keys
    BY DEF TypeOK, Locals
  <2>2. index[j] = NoFile /\ \A r \in Procs : r # q => j \notin loc[r].key
    BY DEF KeyInv, KeysWritten
  <2>3. CASE q = p
    BY <1>1, <1>2, <2>2, <2>3
  <2>4. CASE q # p
    BY <1>1, <1>2, <2>1, <2>2, <2>4 DEF KeyInv, KeysWritten
  <2>5. QED
    BY <2>2, <2>3, <2>4
<1>5. QED
  BY <1>3, <1>4 DEF KeyInv

\* Only a complete file is added to the index.
LEMMA AddKeyStep ==
  ASSUME TypeOK, KeyInv, NEW p \in Procs, NEW k \in Keys, AddKey(p, k)
  PROVE  KeyInv' /\ Stays
<1> DEFINE l == [loc[p] EXCEPT !.key = {}, !.todo = @ \ {k}, !.staged = @ \cup {k}]
<1>1. l.key = {}
  BY DEF TypeOK, Locals
<1>2. Assign(p, l) /\ Step(p, "add_key", "export")
  BY DEF AddKey
<1> HIDE DEF l
<1>3. /\ loc'[p].key = {} /\ \A q \in Procs : q # p => loc'[q] = loc[q]
      /\ pc[p] = "add_key" /\ \A q \in Procs : q # p => pc'[q] = pc[q]
  BY <1>1, <1>2 DEF TypeOK, Assign, Step
<1>4. loc[p].key = {k} /\ UNCHANGED <<tree, head, work>>
  BY DEF AddKey, files
<1>5. work[k] = Whole
  BY <1>3, <1>4 DEF KeyInv, KeysWritten
<1>6. index'[k] = Whole /\ \A j \in Keys : j # k => index'[j] = index[j]
  BY <1>5 DEF AddKey, Git!Added, TypeOK, Trees, Git!Trees, Paths
<1>7. TrackedKeysAreWhole' /\ KeysFollow' /\ Stays
  BY <1>4, <1>5, <1>6 DEF KeyInv, TrackedKeysAreWhole, KeysFollow, HeadTree, Stays
<1>8. KeysWritten'
  <2> SUFFICES ASSUME NEW q \in Procs, NEW j \in loc'[q].key
               PROVE  /\ pc'[q] \in {"export_write", "add_key"}
                      /\ work'[j] = IF pc'[q] = "export_write" THEN Partial ELSE Whole
                      /\ index'[j] = NoFile
                      /\ \A r \in Procs : r # q => j \notin loc'[r].key
    BY DEF KeysWritten
  <2>1. q # p /\ j \in loc[q].key /\ j # k /\ j \in Keys
    BY <1>3, <1>4 DEF TypeOK, Locals, KeyInv, KeysWritten
  <2>2. \A r \in Procs : r # q => j \notin loc'[r].key
    BY <1>3, <2>1 DEF KeyInv, KeysWritten
  <2>3. QED
    BY <1>3, <1>4, <1>6, <2>1, <2>2 DEF KeyInv, KeysWritten
<1>9. QED
  BY <1>7, <1>8 DEF KeyInv

\* Every step keeps the key invariant, and no channel loses a member in it.
LEMMA KeyStep == TypeOK /\ KeyInv /\ [Next]_vars => KeyInv' /\ Stays
<1> SUFFICES ASSUME TypeOK, KeyInv, [Next]_vars
             PROVE  KeyInv' /\ Stays
  OBVIOUS
<1>1. CASE UNCHANGED vars
  BY <1>1 DEF vars, KeyInv, TrackedKeysAreWhole, KeysFollow, KeysWritten, HeadTree, Stays
<1>2. CASE Next
  <2>1. PICK p \in Procs :
          \/ InitCommand(p) \/ ConfigWrite(p) \/ CommitNothing(p)
          \/ ChannelCommand(p) \/ ImportCommand(p) \/ MessageCommand(p)
          \/ \E ks \in SUBSET Keys, cs \in SUBSET Channels : Pull(p, ks, cs)
          \/ Interrupt(p)
    BY <1>2 DEF Next
  <2>2. CASE InitCommand(p) \/ CommitNothing(p) \/ Interrupt(p)
    BY <2>2, AsideSteps, AsideKeepsKeys
  <2>3. CASE ConfigWrite(p)
    BY <2>3, AsideSteps, AsideKeepsKeys, AddConfigStep, CommitSteps DEF ConfigWrite
  <2>4. CASE ChannelCommand(p)
    BY <2>4, AsideSteps, AsideKeepsKeys, BranchSteps, SwitchStep DEF ChannelCommand
  <2>5. CASE ImportCommand(p)
    BY <2>5, AsideSteps, AsideKeepsKeys, ExportOpenStep, ExportWriteStep,
       AddKeyStep, CommitSteps DEF ImportCommand
  <2>6. CASE MessageCommand(p)
    BY <2>6, AsideSteps, AsideKeepsKeys, CommitSteps DEF MessageCommand
  <2>7. CASE \E ks \in SUBSET Keys, cs \in SUBSET Channels : Pull(p, ks, cs)
    BY <2>7, PullStep
  <2>8. QED
    BY <2>1, <2>2, <2>3, <2>4, <2>5, <2>6, <2>7
<1>3. QED
  BY <1>1, <1>2

\* The key invariant: what HEAD tracks is staged, what is staged is in the working
\* tree, and each cut-off key file has the one process that is writing it, or none.
THEOREM KeyInvariance == Spec => []KeyInv
<1>1. TypeOK /\ KeyInv /\ [Next]_vars => KeyInv'
  BY KeyStep
<1>2. QED
  BY KeyInit, <1>1, TypeCorrectness, PTL DEF Spec

\* A key file that was opened but not written out is never staged nor
\* committed, however many terminals import keys and wherever they stop.
THEOREM NoPartialKeyIsTracked == Spec => []TrackedKeysAreWhole
<1>1. KeyInv => TrackedKeysAreWhole
  BY DEF KeyInv
<1>2. QED
  BY <1>1, KeyInvariance, PTL

\* Two terminals never write the same key file.
THEOREM OneWriter == Spec => []OneWriterPerKey
<1>1. KeyInv => OneWriterPerKey
  BY DEF KeyInv, KeysWritten, OneWriterPerKey
<1>2. QED
  BY <1>1, KeyInvariance, PTL

\* No step of any number of terminals takes a member off a channel.
THEOREM NobodyLeaves == Spec => MembersStay
<1>1. TypeOK /\ KeyInv /\ [Next]_vars =>
        [\A c \in Channels : tree[c] # NoTree /\ tree'[c] # NoTree
           => Members(tree[c]) \subseteq Members(tree'[c])]_vars
  BY KeyStep DEF Stays
<1>2. QED
  BY <1>1, TypeCorrectness, KeyInvariance, PTL DEF Spec, MembersStay

-----------------------------------------------------------------------------
(* Open messages.                                                          *)

SingleTerminal == \A p, q \in Procs : p = q

\* Between the rebuild of the keyring and the commit, the keyring holds every
\* key of the branch, and the readers of an open message are among them.
MessageInPreparation ==
  \A p \in Procs :
    /\ pc[p] \in {"encrypt", "write_commit"} => Readable(HeadTree) \subseteq keyring
    /\ pc[p] = "write_commit" /\ loc[p].open
         => Readable(HeadTree) \cap Usable \subseteq loc[p].readers

ReadInv == MembersCanRead /\ MessageInPreparation

\* The members of a branch all have a complete key.
LEMMA MembersAreReadable ==
  TypeOK /\ KeyInv => Members(HeadTree) = Readable(HeadTree)
<1> SUFFICES ASSUME TypeOK, KeyInv PROVE Members(HeadTree) = Readable(HeadTree)
  OBVIOUS
<1>1. HeadTree \in Trees
  BY HeadTreeType
<1>2. \A k \in Keys : HeadTree[k] \in {NoFile, Whole}
  BY <1>1, TreeContents DEF KeyInv, TrackedKeysAreWhole, HeadTree, TypeOK, Git!EmptyTree, Paths
<1>3. QED
  BY <1>2 DEF Members, Readable

\* A step that prepares no message and commits none.
LEMMA OtherSteps ==
  ASSUME SingleTerminal, TypeOK, NEW p \in Procs,
         pc'[p] \notin {"encrypt", "write_commit"}, commit'.kind # "message"
  PROVE  ReadInv'
  BY DEF SingleTerminal, ReadInv, MembersCanRead, MessageInPreparation

\* The rebuilt keyring holds the keys of the branch HEAD names.
LEMMA RebuildStep ==
  ASSUME SingleTerminal, TypeOK, KeyInv, NEW p \in Procs,
         NEW recipients \in SUBSET Keys, RebuildKeyring(p, recipients)
  PROVE  ReadInv'
<1>1. UNCHANGED <<tree, head, work>> /\ keyring' = keyring \cup Members(work)
  BY DEF RebuildKeyring, repo, files
<1>2. pc'[p] = "encrypt"
  BY DEF RebuildKeyring, Step, TypeOK
<1>3. Readable(HeadTree) \subseteq Members(work)
  BY DEF KeyInv, KeysFollow, Readable, Members
<1>4. HeadTree' = HeadTree
  BY <1>1 DEF HeadTree
<1>5. MessageInPreparation'
  BY <1>1, <1>2, <1>3, <1>4 DEF MessageInPreparation, SingleTerminal, Readable
<1>6. MembersCanRead'
  BY DEF RebuildKeyring, Quiet, NoCommit, MembersCanRead
<1>7. QED
  BY <1>5, <1>6 DEF ReadInv

\* The readers of an open message are the usable keys of the keyring.
LEMMA EncryptStep ==
  ASSUME SingleTerminal, TypeOK, ReadInv, NEW p \in Procs,
         NEW trust \in TrustLists, EncryptMessage(p, trust)
  PROVE  ReadInv'
<1> DEFINE readers == Candidates(loc[p].asked) \cap Trusted(trust)
           open == loc[p].asked = {} /\ trust = NoFile
           l == [loc[p] EXCEPT !.readers = readers, !.open = open]
<1>1. l.readers = readers /\ l.open = open
  BY DEF TypeOK, Locals
<1>2. Assign(p, l)
  BY Zenon DEF EncryptMessage
<1>3. pc[p] = "encrypt" /\ pc'[p] = "write_commit"
      /\ UNCHANGED <<tree, head, keyring>> /\ commit' = NoCommit
  BY DEF EncryptMessage, Step, TypeOK, repo, Quiet
<1>4. open => readers = keyring \cap Usable
  BY DEF Candidates, Trusted
<1> HIDE DEF l, readers, open
<1>5. loc'[p].readers = readers /\ loc'[p].open = open
  BY <1>1, <1>2 DEF TypeOK, Assign
<1>6. Readable(HeadTree) \subseteq keyring /\ HeadTree' = HeadTree
  BY <1>3 DEF ReadInv, MessageInPreparation, HeadTree
<1>7. MessageInPreparation'
  BY <1>3, <1>4, <1>5, <1>6 DEF MessageInPreparation, SingleTerminal, Readable
<1>8. MembersCanRead'
  BY <1>3 DEF NoCommit, MembersCanRead
<1>9. QED
  BY <1>7, <1>8 DEF ReadInv

\* The message is committed to the branch it was prepared for.
LEMMA WriteCommitStep ==
  ASSUME SingleTerminal, TypeOK, KeyInv, ReadInv, NEW p \in Procs, WriteCommit(p)
  PROVE  ReadInv'
<1>1. /\ pc[p] = "write_commit" /\ pc'[p] = "idle"
      /\ commit'.parent = HeadTree /\ commit'.keys = loc[p].readers
      /\ commit'.open = loc[p].open
  BY DEF WriteCommit, CommitIndex, Exit, TypeOK
<1>2. loc[p].open => Members(HeadTree) \cap Usable \subseteq loc[p].readers
  BY <1>1, MembersAreReadable DEF ReadInv, MessageInPreparation
<1>3. MembersCanRead'
  BY <1>1, <1>2 DEF MembersCanRead, Members
<1>4. MessageInPreparation'
  BY <1>1 DEF MessageInPreparation, SingleTerminal
<1>5. QED
  BY <1>3, <1>4 DEF ReadInv

\* No message is in preparation at first.
LEMMA ReadInit == Init => ReadInv
  BY DEF Init, ReadInv, MembersCanRead, MessageInPreparation, NoCommit

\* Every step of a single terminal keeps the invariant of open messages.
LEMMA ReadStep ==
  SingleTerminal /\ TypeOK /\ KeyInv /\ ReadInv /\ [Next]_vars => ReadInv'
<1> SUFFICES ASSUME SingleTerminal, TypeOK, KeyInv, ReadInv, [Next]_vars
             PROVE  ReadInv'
  OBVIOUS
<1>1. CASE UNCHANGED vars
  BY <1>1 DEF vars, ReadInv, MembersCanRead, MessageInPreparation, HeadTree
<1>2. CASE Next
  <2>1. PICK p \in Procs :
          \/ InitCommand(p) \/ ConfigWrite(p) \/ CommitNothing(p)
          \/ ChannelCommand(p) \/ ImportCommand(p) \/ MessageCommand(p)
          \/ \E ks \in SUBSET Keys, cs \in SUBSET Channels : Pull(p, ks, cs)
          \/ Interrupt(p)
    BY <1>2 DEF Next
  <2> USE DEF Step, Exit, Starts, Quiet, NoCommit, TypeOK, ctl
  <2>2. CASE InitCommand(p)
    BY <2>2, OtherSteps
       DEF InitCommand, InitCheck, InitGit, InitCopyDir, InitCopyConfig,
           InitCopyFails, InitKeysDir
  <2>3. CASE ConfigWrite(p)
    BY <2>3, OtherSteps
       DEF ConfigWrite, WriteConfigOpen, WriteConfigData, AddConfig,
           CommitConfig, CommitIndex
  <2>4. CASE CommitNothing(p) \/ Interrupt(p)
    BY <2>4, OtherSteps DEF CommitNothing, Interrupt
  <2>5. CASE ChannelCommand(p)
    <3>1. ASSUME NEW c \in Channels,
                 \/ CreateParse(p, c) \/ ChannelSwitch(p, c)
                 \/ ChannelDelete(p, c) \/ ConfigSetValue(p, c)
          PROVE  ReadInv'
      <4>1. pc'[p] \notin {"encrypt", "write_commit"}
        BY <3>1 DEF CreateParse, ChannelSwitch, ChannelDelete, ConfigSetValue
      <4>2. commit'.kind # "message"
        BY <3>1 DEF CreateParse, ChannelSwitch, ChannelDelete, ConfigSetValue
      <4>3. QED
        BY <4>1, <4>2, OtherSteps
    <3>2. CASE CreateCheckout(p) \/ CreateCheckoutFails(p)
      BY <3>2, OtherSteps DEF CreateCheckout, CreateCheckoutFails
    <3>3. QED
      BY <2>5, <3>1, <3>2 DEF ChannelCommand
  <2>6. CASE ImportCommand(p)
    <3>1. ASSUME NEW asked \in SUBSET Keys, ImportIntoKeyring(p, asked)
          PROVE  ReadInv'
      <4>1. pc'[p] \notin {"encrypt", "write_commit"}
        BY <3>1 DEF ImportIntoKeyring
      <4>2. commit'.kind # "message"
        BY <3>1 DEF ImportIntoKeyring
      <4>3. QED
        BY <4>1, <4>2, OtherSteps
    <3>2. ASSUME NEW k \in Keys,
                 ExportOpen(p, k) \/ ExportSkip(p, k) \/ ExportWrite(p, k) \/ AddKey(p, k)
          PROVE  ReadInv'
      <4>1. pc'[p] \notin {"encrypt", "write_commit"}
        BY <3>2 DEF ExportOpen, ExportSkip, ExportWrite, AddKey
      <4>2. commit'.kind # "message"
        BY <3>2 DEF ExportOpen, ExportSkip, ExportWrite, AddKey
      <4>3. QED
        BY <4>1, <4>2, OtherSteps
    <3>3. CASE ImportLoopEnds(p) \/ CommitKeys(p)
      BY <3>3, OtherSteps DEF ImportLoopEnds, CommitKeys, CommitIndex
    <3>4. QED
      BY <2>6, <3>1, <3>2, <3>3 DEF ImportCommand
  <2>7. CASE MessageCommand(p)
    <3>1. CASE \E trust \in TrustLists : EncryptRefused(p, trust)
      BY <3>1, OtherSteps DEF EncryptRefused
    <3>2. QED
      BY <2>7, <3>1, RebuildStep, EncryptStep, WriteCommitStep DEF MessageCommand
  <2>8. CASE \E ks \in SUBSET Keys, cs \in SUBSET Channels : Pull(p, ks, cs)
    BY <2>8, OtherSteps DEF Pull
  <2>9. QED
    BY <2>1, <2>2, <2>3, <2>4, <2>5, <2>6, <2>7, <2>8
<1>3. QED
  BY <1>1, <1>2

\* With one terminal, whichever commands are cut short, an open message can be
\* read by every usable member of the channel it is committed to.
THEOREM OpenMessagesReachMembers ==
  ASSUME SingleTerminal
  PROVE  Spec => []MembersCanRead
<1>1. TypeOK /\ KeyInv /\ ReadInv /\ [Next]_vars => ReadInv'
  BY ReadStep
<1>2. ReadInv => MembersCanRead
  BY DEF ReadInv
<1>3. QED
  BY ReadInit, <1>1, <1>2, TypeCorrectness, KeyInvariance, PTL DEF Spec

-----------------------------------------------------------------------------
(* The space implements ChannelMembership.                                 *)

\* The branch of HEAD is unborn only before the first commit of the space.
UnbornIsAlone == tree[head] = NoTree => \A c \in Channels : tree[c] = NoTree

\* In an empty directory there is no branch at all; in a clone HEAD is born.
LEMMA UnbornInit == Init => UnbornIsAlone
  BY DEF Init, UnbornIsAlone, CloneTree

\* The members of the channels, as ChannelMembership sees them.
MembersOf(s) == [c \in Channels |-> IF s[c] = NoTree THEN NoTree ELSE Members(s[c])]

\* What a step may do to the branches.
TreeStep ==
  \/ tree' = tree
  \/ \E t \in Trees : /\ tree' = [tree EXCEPT ![head] = t]
                      /\ tree[head] # NoTree => Members(tree[head]) \subseteq Members(t)
  \/ \E c \in Channels : tree[c] = NoTree /\ tree' = [tree EXCEPT ![c] = tree[head]]
  \/ \E c \in Channels : /\ tree[c] # NoTree /\ c # head
                         /\ tree' = [tree EXCEPT ![c] = NoTree]

\* A set of members never stands for a branch that does not exist.
LEMMA MembersAreNoTree == \A t : Members(t) # NoTree /\ Members(t) \in SUBSET Keys
  BY NoTreeAssumption DEF Members

\* Every such step is one of ChannelMembership.
LEMMA TreeStepMaps ==
  ASSUME TypeOK, UnbornIsAlone, TreeStep
  PROVE  \/ MembersOf(tree') = MembersOf(tree)
         \/ \E c \in Channels, S \in SUBSET Keys :
              \/ /\ \A d \in Channels : MembersOf(tree)[d] = NoTree
                 /\ MembersOf(tree') = [MembersOf(tree) EXCEPT ![c] = S]
              \/ /\ MembersOf(tree)[c] # NoTree
                 /\ MembersOf(tree') = [MembersOf(tree) EXCEPT ![c] = @ \cup S]
         \/ \E c, d \in Channels :
              /\ MembersOf(tree)[c] # NoTree /\ MembersOf(tree)[d] = NoTree
              /\ MembersOf(tree') = [MembersOf(tree) EXCEPT ![d] = MembersOf(tree)[c]]
         \/ \E c \in Channels :
              /\ MembersOf(tree)[c] # NoTree
              /\ MembersOf(tree') = [MembersOf(tree) EXCEPT ![c] = NoTree]
<1> USE MembersAreNoTree
<1>0. \A c \in Channels : MembersOf(tree)[c] = IF tree[c] = NoTree THEN NoTree ELSE Members(tree[c])
  BY DEF MembersOf
<1>1. CASE tree' = tree
  BY <1>1
<1>2. ASSUME NEW t \in Trees, tree' = [tree EXCEPT ![head] = t],
             tree[head] # NoTree => Members(tree[head]) \subseteq Members(t)
      PROVE  \E S \in SUBSET Keys :
               \/ /\ \A d \in Channels : MembersOf(tree)[d] = NoTree
                  /\ MembersOf(tree') = [MembersOf(tree) EXCEPT ![head] = S]
               \/ /\ MembersOf(tree)[head] # NoTree
                  /\ MembersOf(tree') = [MembersOf(tree) EXCEPT ![head] = @ \cup S]
  <2>1. t # NoTree
    BY TreeContents
  <2>2. CASE tree[head] = NoTree
    <3>1. MembersOf(tree') = [MembersOf(tree) EXCEPT ![head] = Members(t)]
      BY <1>2, <2>1 DEF MembersOf, TypeOK
    <3>2. QED
      BY <1>0, <2>2, <3>1 DEF UnbornIsAlone
  <2>3. CASE tree[head] # NoTree
    <3>1. MembersOf(tree)[head] = Members(tree[head]) /\ Members(tree[head]) \cup Members(t) = Members(t)
      BY <1>0, <1>2, <2>3 DEF TypeOK
    <3>2. MembersOf(tree') = [MembersOf(tree) EXCEPT ![head] = Members(t)]
      BY <1>2, <2>1 DEF MembersOf, TypeOK
    <3>3. QED
      BY <2>3, <3>1, <3>2
  <2>4. QED
    BY <2>2, <2>3
<1>3. ASSUME NEW c \in Channels, tree[c] = NoTree, tree' = [tree EXCEPT ![c] = tree[head]]
      PROVE  \/ MembersOf(tree') = MembersOf(tree)
             \/ /\ MembersOf(tree)[head] # NoTree /\ MembersOf(tree)[c] = NoTree
                /\ MembersOf(tree') = [MembersOf(tree) EXCEPT ![c] = MembersOf(tree)[head]]
  <2>1. CASE tree[head] = NoTree
    <3>1. tree' = tree
      BY <1>3, <2>1 DEF TypeOK
    <3>2. QED
      BY <3>1
  <2>2. CASE tree[head] # NoTree
    BY <1>0, <1>3, <2>2 DEF MembersOf, TypeOK
  <2>3. QED
    BY <2>1, <2>2
<1>4. ASSUME NEW c \in Channels, tree[c] # NoTree, tree' = [tree EXCEPT ![c] = NoTree]
      PROVE  /\ MembersOf(tree)[c] # NoTree
             /\ MembersOf(tree') = [MembersOf(tree) EXCEPT ![c] = NoTree]
  BY <1>0, <1>4 DEF MembersOf, TypeOK
<1>5. head \in Channels
  BY DEF TypeOK
<1>6. QED
  BY <1>1, <1>2, <1>3, <1>4, <1>5 DEF TreeStep

\* No message is posted by this step.
NoMessage == commit'.kind # "message" /\ commit'.open = FALSE

\* Every step other than a commit commits and posts nothing.
LEMMA QuietSteps ==
  ASSUME NEW p \in Procs,
         \/ InitCommand(p) \/ WriteConfigOpen(p) \/ WriteConfigData(p) \/ AddConfig(p)
         \/ CommitNothing(p) \/ ChannelCommand(p) \/ ImportLoopEnds(p)
         \/ \E asked \in SUBSET Keys : ImportIntoKeyring(p, asked)
         \/ \E k \in Keys : \/ ExportOpen(p, k) \/ ExportSkip(p, k)
                            \/ ExportWrite(p, k) \/ AddKey(p, k)
         \/ \E recipients \in SUBSET Keys : RebuildKeyring(p, recipients)
         \/ \E trust \in TrustLists : EncryptMessage(p, trust) \/ EncryptRefused(p, trust)
         \/ \E ks \in SUBSET Keys, cs \in SUBSET Channels : Pull(p, ks, cs)
         \/ Interrupt(p)
  PROVE  commit' = NoCommit /\ NoMessage
<1>1. commit' = NoCommit
  <2> USE DEF Quiet
  <2>1. CASE InitCommand(p)
    BY <2>1 DEF InitCommand, InitCheck, InitGit, InitCopyDir, InitCopyConfig,
                InitCopyFails, InitKeysDir
  <2>2. CASE \/ WriteConfigOpen(p) \/ WriteConfigData(p) \/ AddConfig(p)
             \/ CommitNothing(p) \/ ImportLoopEnds(p) \/ Interrupt(p)
    BY <2>2 DEF WriteConfigOpen, WriteConfigData, AddConfig, CommitNothing,
                ImportLoopEnds, Interrupt
  <2>3. CASE ChannelCommand(p)
    BY <2>3 DEF ChannelCommand, CreateParse, ChannelSwitch, ChannelDelete,
                ConfigSetValue, CreateCheckout, CreateCheckoutFails
  <2>4. CASE \E asked \in SUBSET Keys : ImportIntoKeyring(p, asked)
    BY <2>4 DEF ImportIntoKeyring
  <2>5. CASE \E k \in Keys : \/ ExportOpen(p, k) \/ ExportSkip(p, k)
                             \/ ExportWrite(p, k) \/ AddKey(p, k)
    BY <2>5 DEF ExportOpen, ExportSkip, ExportWrite, AddKey
  <2>6. CASE \E recipients \in SUBSET Keys : RebuildKeyring(p, recipients)
    BY <2>6 DEF RebuildKeyring
  <2>7. CASE \E trust \in TrustLists : EncryptMessage(p, trust) \/ EncryptRefused(p, trust)
    BY <2>7 DEF EncryptMessage, EncryptRefused
  <2>8. CASE \E ks \in SUBSET Keys, cs \in SUBSET Channels : Pull(p, ks, cs)
    BY <2>8 DEF Pull
  <2>9. QED
    BY <2>1, <2>2, <2>3, <2>4, <2>5, <2>6, <2>7, <2>8
<1>2. QED
  BY <1>1 DEF NoMessage, NoCommit

\* A commit adds the index to the branch of HEAD.
LEMMA CommitMaps ==
  ASSUME TypeOK, KeyInv, UNCHANGED work,
         NEW kind, NEW keys, NEW staged, NEW open, CommitIndex(kind, keys, staged, open)
  PROVE  /\ TreeStep /\ UnbornIsAlone'
         /\ tree' = [tree EXCEPT ![head] = index]
<1>1. tree' = [tree EXCEPT ![head] = index] /\ head' = head /\ index \in Trees
  BY DEF CommitIndex, TypeOK
<1>2. index # NoTree
  BY <1>1, TreeContents
<1>3. tree[head] # NoTree => Members(tree[head]) \subseteq Members(index)
  BY <1>1, <1>2, CommitKeepsKeys DEF KeyInv, TypeOK
<1>4. TreeStep
  BY <1>1, <1>3 DEF TreeStep
<1>5. UnbornIsAlone'
  BY <1>1, <1>2 DEF UnbornIsAlone, TypeOK
<1>6. QED
  BY <1>1, <1>4, <1>5

\* Every step acts on the branches as TreeStep allows, and only WriteCommit posts.
LEMMA NextMaps ==
  ASSUME TypeOK, KeyInv, UnbornIsAlone, Next
  PROVE  /\ TreeStep /\ UnbornIsAlone'
         /\ NoMessage \/ \E p \in Procs : WriteCommit(p)
<1> USE DEF repo, files, ctl
<1>1. PICK p \in Procs :
        \/ InitCommand(p) \/ ConfigWrite(p) \/ CommitNothing(p)
        \/ ChannelCommand(p) \/ ImportCommand(p) \/ MessageCommand(p)
        \/ \E ks \in SUBSET Keys, cs \in SUBSET Channels : Pull(p, ks, cs)
        \/ Interrupt(p)
  BY DEF Next
<1>2. ASSUME UNCHANGED <<tree, head>> PROVE TreeStep /\ UnbornIsAlone'
  BY <1>2 DEF TreeStep, UnbornIsAlone
<1>3. ASSUME Aside(p) PROVE TreeStep /\ UnbornIsAlone'
  BY <1>2, <1>3 DEF Aside
<1>4. CASE InitCommand(p) \/ CommitNothing(p) \/ Interrupt(p)
  BY <1>3, <1>4, AsideSteps, QuietSteps
<1>5. CASE ConfigWrite(p)
  <2>1. CASE CommitConfig(p)
    <3>1. PICK kind, keys, staged, open : CommitIndex(kind, keys, staged, open)
      BY <2>1 DEF CommitConfig
    <3>2. NoMessage /\ UNCHANGED work
      BY <2>1 DEF CommitConfig, CommitIndex, NoMessage
    <3>3. TreeStep /\ UnbornIsAlone'
      BY <3>1, <3>2, CommitMaps
    <3>4. QED
      BY <3>2, <3>3
  <2>2. CASE AddConfig(p)
    <3>1. UNCHANGED <<tree, head>>
      BY <2>2 DEF AddConfig
    <3>2. QED
      BY <1>2, <2>2, <3>1, QuietSteps
  <2>3. QED
    BY <1>3, <1>5, <2>1, <2>2, AsideSteps, QuietSteps DEF ConfigWrite
<1>6. CASE ChannelCommand(p)
  <2>1. NoMessage
    BY <1>6, QuietSteps
  <2>2. ASSUME NEW c \in Channels, ChannelSwitch(p, c)
        PROVE  TreeStep /\ UnbornIsAlone'
    BY <2>2 DEF ChannelSwitch, TreeStep, UnbornIsAlone
  <2>3. ASSUME NEW c \in Channels, ChannelDelete(p, c)
        PROVE  TreeStep /\ UnbornIsAlone'
    BY <2>3 DEF ChannelDelete, TreeStep, UnbornIsAlone, TypeOK
  <2>4. CASE CreateCheckout(p)
    <3>1. loc[p].channel \in Channels
      BY DEF TypeOK, Locals
    <3>2. QED
      BY <2>1, <2>4, <3>1 DEF CreateCheckout, TreeStep, UnbornIsAlone, TypeOK
  <2>5. QED
    BY <1>3, <1>6, <2>1, <2>2, <2>3, <2>4, AsideSteps DEF ChannelCommand
<1>7. CASE ImportCommand(p)
  <2>1. CASE CommitKeys(p)
    <3>1. PICK kind, keys, staged, open : CommitIndex(kind, keys, staged, open)
      BY <2>1 DEF CommitKeys
    <3>2. NoMessage /\ UNCHANGED work
      BY <2>1 DEF CommitKeys, CommitIndex, NoMessage
    <3>3. TreeStep /\ UnbornIsAlone'
      BY <3>1, <3>2, CommitMaps
    <3>4. QED
      BY <3>2, <3>3
  <2>2. ASSUME NEW k \in Keys, ExportOpen(p, k) \/ ExportWrite(p, k) \/ AddKey(p, k)
        PROVE  UNCHANGED <<tree, head>>
    BY <2>2 DEF ExportOpen, ExportWrite, AddKey
  <2>3. QED
    BY <1>2, <1>3, <1>7, <2>1, <2>2, AsideSteps, QuietSteps DEF ImportCommand
<1>8. CASE MessageCommand(p)
  <2>1. CASE WriteCommit(p)
    <3>1. CommitIndex("message", loc[p].readers, {}, loc[p].open) /\ UNCHANGED work
      BY <2>1 DEF WriteCommit
    <3>2. QED
      BY <2>1, <3>1, CommitMaps
  <2>2. QED
    BY <1>3, <1>8, <2>1, AsideSteps, QuietSteps DEF MessageCommand
<1>9. ASSUME NEW ks \in SUBSET Keys, NEW cs \in SUBSET Channels, Pull(p, ks, cs)
      PROVE  TreeStep /\ UnbornIsAlone' /\ NoMessage
  <2> DEFINE t == [q \in Paths |->
                     IF q = ConfigPath THEN tree[head][q] \cup cs
                     ELSE IF q \in ks THEN Whole ELSE tree[head][q]]
  <2>1. /\ tree[head] \in Trees /\ head' = head
        /\ tree[head][ConfigPath] # NoFile
    BY <1>9 DEF Pull, TypeOK
  <2>2. t \in Trees
    BY <2>1, TreeContents DEF Trees, Git!Trees, Paths, Contents
  <2>3. \A k \in Keys : tree[head][k] # NoFile => t[k] # NoFile
    BY DEF Paths
  <2>4. tree' = [tree EXCEPT ![head] = t]
    BY <1>9 DEF Pull
  <2> HIDE DEF t
  <2>5. TreeStep
    BY <2>2, <2>3, <2>4 DEF TreeStep, Members
  <2>6. UnbornIsAlone'
    BY <2>1, <2>2, <2>4, TreeContents DEF UnbornIsAlone, TypeOK
  <2>7. NoMessage
    BY <1>9, QuietSteps
  <2>8. QED
    BY <2>5, <2>6, <2>7
<1>10. QED
  BY <1>1, <1>4, <1>5, <1>6, <1>7, <1>8, <1>9

\* A step that posts no message.
LEMMA QuietMaps ==
  ASSUME TypeOK, UnbornIsAlone, TreeStep, NoMessage
  PROVE  Membership!Next
<1>1. [posted |-> commit'.kind = "message",
       readers |-> IF commit'.kind = "message" THEN commit'.keys ELSE {},
       open |-> commit'.open] = Membership!NoPost
  BY DEF NoMessage, Membership!NoPost
<1>2. \/ MembersOf(tree') = MembersOf(tree)
      \/ \E c \in Channels :
           \/ /\ MembersOf(tree)[c] # NoTree
              /\ MembersOf(tree') = [MembersOf(tree) EXCEPT ![c] = NoTree]
           \/ \E S \in SUBSET Keys :
                \/ /\ \A d \in Channels : ~ (MembersOf(tree)[d] # NoTree)
                   /\ MembersOf(tree') = [MembersOf(tree) EXCEPT ![c] = S]
                \/ /\ MembersOf(tree)[c] # NoTree
                   /\ MembersOf(tree') = [MembersOf(tree) EXCEPT ![c] = @ \cup S]
           \/ \E d \in Channels :
                /\ MembersOf(tree)[c] # NoTree /\ ~ (MembersOf(tree)[d] # NoTree)
                /\ MembersOf(tree') = [MembersOf(tree) EXCEPT ![d] = MembersOf(tree)[c]]
  BY TreeStepMaps
<1>3. QED
  BY <1>1, <1>2, Zenon
     DEF Membership!Next, Membership!Drop, Membership!Found, Membership!Join,
         Membership!Fork, Membership!Exists, MembersOf

\* A message step: the index joins, and the readers are those of the commit.
LEMMA PostMaps ==
  ASSUME TypeOK, KeyInv, UnbornIsAlone, MembersCanRead', NEW p \in Procs, WriteCommit(p)
  PROVE  Membership!Next
<1> DEFINE S == Members(index)
           R == commit'.keys
           open == commit'.open
           Posted(c, T, o, Q) ==
             \/ /\ \A d \in Channels : ~ (MembersOf(tree)[d] # NoTree)
                /\ MembersOf(tree') = [MembersOf(tree) EXCEPT ![c] = T]
             \/ /\ MembersOf(tree)[c] # NoTree
                /\ MembersOf(tree') = [MembersOf(tree) EXCEPT ![c] = @ \cup T]
                /\ o => MembersOf(tree)[c] \cap Usable \subseteq Q
<1>1. /\ CommitIndex("message", loc[p].readers, {}, loc[p].open)
      /\ UNCHANGED work
  BY DEF WriteCommit, files
<1>2. /\ tree' = [tree EXCEPT ![head] = index]
      /\ commit'.kind = "message" /\ commit'.parent = HeadTree
      /\ commit'.keys = loc[p].readers /\ commit'.open = loc[p].open
  BY <1>1 DEF CommitIndex
<1>3. head \in Channels /\ S \in SUBSET Keys /\ R \in SUBSET Keys /\ open \in BOOLEAN
  BY <1>2 DEF TypeOK, Locals, Members
<1>4. index \in Trees /\ index # NoTree
  BY TreeContents DEF TypeOK
<1>5. [posted |-> commit'.kind = "message",
       readers |-> IF commit'.kind = "message" THEN commit'.keys ELSE {},
       open |-> commit'.open] = Membership!Message(R, open)
  BY <1>2 DEF Membership!Message
<1>6. MembersOf(tree') = [MembersOf(tree) EXCEPT ![head] = S]
  BY <1>2, <1>4 DEF MembersOf, TypeOK
<1>7. ASSUME tree[head] = NoTree PROVE Posted(head, S, open, R)
  <2>1. \A d \in Channels : ~ (MembersOf(tree)[d] # NoTree)
    BY <1>7 DEF UnbornIsAlone, MembersOf
  <2>2. QED
    BY <1>6, <2>1 DEF Posted
<1>8. ASSUME tree[head] # NoTree PROVE Posted(head, S, open, R)
  <2>1. MembersOf(tree)[head] = Members(tree[head]) /\ HeadTree = tree[head]
    BY <1>3, <1>8 DEF MembersOf, HeadTree
  <2>2. MembersOf(tree)[head] # NoTree /\ MembersOf(tree)[head] \cup S = S
    <3>1. Members(tree[head]) \subseteq S
      BY <1>1, <1>2, <1>3, <1>4, <1>8, CommitKeepsKeys DEF KeyInv, TypeOK
    <3>2. QED
      BY <2>1, <3>1, MembersAreNoTree
  <2>3. open => MembersOf(tree)[head] \cap Usable \subseteq R
    BY <1>2, <2>1 DEF MembersCanRead
  <2>4. MembersOf(tree') = [MembersOf(tree) EXCEPT ![head] = @ \cup S]
    BY <1>6, <2>2
  <2>5. QED
    BY <2>2, <2>3, <2>4 DEF Posted
<1>9. Posted(head, S, open, R)
  BY <1>7, <1>8
<1>10. \E c \in Channels, T \in SUBSET Keys, Q \in SUBSET Keys, o \in BOOLEAN :
         Posted(c, T, o, Q) /\ [posted |-> commit'.kind = "message",
           readers |-> IF commit'.kind = "message" THEN commit'.keys ELSE {},
           open |-> commit'.open] = Membership!Message(Q, o)
  <2> HIDE DEF S
  <2> USE <1>3
  <2> WITNESS head \in Channels, S \in SUBSET Keys, R \in SUBSET Keys, open \in BOOLEAN
  <2>1. QED
    BY <1>5, <1>9
<1>11. PICK c \in Channels, T \in SUBSET Keys, Q \in SUBSET Keys, o \in BOOLEAN :
         Posted(c, T, o, Q) /\ [posted |-> commit'.kind = "message",
           readers |-> IF commit'.kind = "message" THEN commit'.keys ELSE {},
           open |-> commit'.open] = Membership!Message(Q, o)
  BY <1>10, Zenon
<1>12. ASSUME \A d \in Channels : ~ (MembersOf(tree)[d] # NoTree),
              MembersOf(tree') = [MembersOf(tree) EXCEPT ![c] = T]
       PROVE  Membership!Found(c, T)
  BY <1>12, Zenon DEF Membership!Found, Membership!Exists, MembersOf
<1>13. ASSUME MembersOf(tree)[c] # NoTree,
              MembersOf(tree') = [MembersOf(tree) EXCEPT ![c] = @ \cup T]
       PROVE  Membership!Join(c, T)
  BY <1>13, Zenon DEF Membership!Join, Membership!Exists, MembersOf
<1>14. \/ Membership!Found(c, T)
       \/ Membership!Join(c, T) /\ (o => MembersOf(tree)[c] \cap Usable \subseteq Q)
  BY <1>11, <1>12, <1>13
<1>15. Membership!Post(c, T, Q, o)
  BY <1>11, <1>14, Zenon DEF Membership!Post, MembersOf
<1>16. QED
  BY <1>15 DEF Membership!Next

\* The space starts where ChannelMembership starts.
LEMMA MembershipInit == Init => Membership!Init
<1> SUFFICES ASSUME Init PROVE Membership!Init
  OBVIOUS
<1>1. [posted |-> commit.kind = "message",
       readers |-> IF commit.kind = "message" THEN commit.keys ELSE {},
       open |-> commit.open] = Membership!NoPost
  BY DEF Init, NoCommit, Membership!NoPost
<1>2. \/ MembersOf(tree) = [c \in Channels |-> NoTree]
      \/ \E m \in Channels, S \in SUBSET Keys :
           MembersOf(tree) = [c \in Channels |-> IF c = m THEN S ELSE NoTree]
  <2>1. CASE tree = [c \in Channels |-> NoTree]
    BY <2>1 DEF MembersOf
  <2>2. ASSUME NEW members \in SUBSET Keys,
               tree = [c \in Channels |-> IF c = Master THEN CloneTree(members) ELSE NoTree]
        PROVE  MembersOf(tree) = [c \in Channels |->
                                    IF c = Master THEN Members(CloneTree(members)) ELSE NoTree]
    <3>1. CloneTree(members) # NoTree
      BY NoTreeAssumption DEF CloneTree, Paths, Contents
    <3>2. QED
      BY <2>2, <3>1 DEF MembersOf
  <2>3. Master \in Channels /\ \A t : Members(t) \in SUBSET Keys
    BY MembersAreNoTree
  <2>4. \/ tree = [c \in Channels |-> NoTree]
        \/ \E members \in SUBSET Keys :
             tree = [c \in Channels |-> IF c = Master THEN CloneTree(members) ELSE NoTree]
    BY DEF Init
  <2>5. ASSUME NEW members \in SUBSET Keys,
               tree = [c \in Channels |-> IF c = Master THEN CloneTree(members) ELSE NoTree]
        PROVE  \E m \in Channels, S \in SUBSET Keys :
                 MembersOf(tree) = [c \in Channels |-> IF c = m THEN S ELSE NoTree]
    <3>1. MembersOf(tree) = [c \in Channels |->
                              IF c = Master THEN Members(CloneTree(members)) ELSE NoTree]
      BY <2>2, <2>5
    <3>2. Master \in Channels /\ Members(CloneTree(members)) \in SUBSET Keys
      BY <2>3
    <3> USE <3>2
    <3> WITNESS Master \in Channels, Members(CloneTree(members)) \in SUBSET Keys
    <3>3. QED
      BY <3>1
  <2>6. QED
    BY <2>1, <2>4, <2>5, Zenon
<1>3. QED
  BY <1>1, <1>2, Zenon DEF Membership!Init, MembersOf

\* With one terminal, the space keeps the promises of ChannelMembership,
\* whatever its commands are and wherever they are cut short.
THEOREM SpaceImplementsMembership ==
  ASSUME SingleTerminal
  PROVE  Spec => ImplementsMembership
<1> DEFINE mapped == <<[c \in Channels |->
                          IF tree[c] = NoTree THEN NoTree ELSE Members(tree[c])],
                       [posted |-> commit.kind = "message",
                        readers |-> IF commit.kind = "message" THEN commit.keys ELSE {},
                        open |-> commit.open]>>
<1>1. TypeOK /\ KeyInv /\ UnbornIsAlone /\ MembersCanRead' /\ [Next]_vars
        => UnbornIsAlone' /\ [Membership!Next]_mapped
  <2> SUFFICES ASSUME TypeOK, KeyInv, UnbornIsAlone, MembersCanRead', [Next]_vars
               PROVE  UnbornIsAlone' /\ [Membership!Next]_mapped
    OBVIOUS
  <2>1. CASE UNCHANGED vars
    BY <2>1 DEF vars, UnbornIsAlone
  <2>2. CASE Next
    <3>1. UnbornIsAlone' /\ TreeStep /\ (NoMessage \/ \E p \in Procs : WriteCommit(p))
      BY <2>2, NextMaps
    <3>2. Membership!Next
      BY <3>1, QuietMaps, PostMaps
    <3>3. QED
      BY <3>1, <3>2
  <2>3. QED
    BY <2>1, <2>2
<1>2. QED
  BY <1>1, UnbornInit, MembershipInit, TypeCorrectness, KeyInvariance,
     OpenMessagesReachMembers, PTL DEF Spec, ImplementsMembership, Membership!Spec

-----------------------------------------------------------------------------
(* Between commands.                                                       *)

\* A cut-off key file is still being written, as long as no command was cut short.
WrittenByOne ==
  ~interrupted =>
    \A k \in Keys : work[k] = Partial =>
      \E p \in Procs : loc[p].key = {k} /\ pc[p] = "export_write"

\* A key file is in the keys directory.
FilesHaveDir == Members(work) # {} => keysDir

FileInv == WrittenByOne /\ FilesHaveDir

\* A step by which no file is cut off, taken by a process that writes none.
LEMMA FileFrame ==
  ASSUME TypeOK, FileInv, NEW p \in Procs, pc[p] # "export_write",
         \A q \in Procs : q # p => pc'[q] = pc[q] /\ loc'[q] = loc[q],
         \A k \in Keys : work'[k] = Partial => work[k] = Partial,
         interrupted' = interrupted, Members(work') # {} => keysDir'
  PROVE  FileInv'
<1>1. WrittenByOne'
  BY DEF FileInv, WrittenByOne
<1>2. QED
  BY <1>1 DEF FileInv, FilesHaveDir, Members

\* The steps that touch no key file are not those of a process that writes one.
LEMMA AsideFiles ==
  ASSUME NEW p \in Procs,
         \/ InitCommand(p) \/ WriteConfigOpen(p) \/ WriteConfigData(p)
         \/ CommitNothing(p) \/ CreateCheckoutFails(p) \/ ImportLoopEnds(p)
         \/ \E c \in Channels : CreateParse(p, c) \/ ConfigSetValue(p, c)
         \/ \E asked \in SUBSET Keys : ImportIntoKeyring(p, asked)
         \/ \E k \in Keys : ExportSkip(p, k)
         \/ \E recipients \in SUBSET Keys : RebuildKeyring(p, recipients)
         \/ \E trust \in TrustLists : EncryptMessage(p, trust) \/ EncryptRefused(p, trust)
  PROVE  pc[p] # "export_write" /\ interrupted' = interrupted /\ (keysDir => keysDir')
<1> USE DEF Step, Starts, Quiet, files
<1>1. CASE InitCommand(p)
  BY <1>1 DEF InitCommand, InitCheck, InitGit, InitCopyDir, InitCopyConfig,
              InitCopyFails, InitKeysDir
<1>2. CASE WriteConfigOpen(p) \/ WriteConfigData(p)
  BY <1>2 DEF WriteConfigOpen, WriteConfigData
<1>3. CASE CommitNothing(p) \/ CreateCheckoutFails(p) \/ ImportLoopEnds(p)
  BY <1>3 DEF CommitNothing, CreateCheckoutFails, ImportLoopEnds
<1>4. CASE \E c \in Channels : CreateParse(p, c) \/ ConfigSetValue(p, c)
  <2>1. PICK c \in Channels : CreateParse(p, c) \/ ConfigSetValue(p, c)
    BY <1>4
  <2>2. pc[p] = "idle" /\ UNCHANGED <<keysDir, interrupted>>
    BY <2>1, Zenon DEF CreateParse, ConfigSetValue
  <2>3. QED
    BY <2>2
<1>5. CASE \E asked \in SUBSET Keys : ImportIntoKeyring(p, asked)
  BY <1>5 DEF ImportIntoKeyring, ctl
<1>6. CASE \E k \in Keys : ExportSkip(p, k)
  BY <1>6 DEF ExportSkip
<1>7. CASE \E recipients \in SUBSET Keys : RebuildKeyring(p, recipients)
  BY <1>7 DEF RebuildKeyring
<1>8. CASE \E trust \in TrustLists : EncryptMessage(p, trust) \/ EncryptRefused(p, trust)
  <2>1. PICK trust \in TrustLists : EncryptMessage(p, trust) \/ EncryptRefused(p, trust)
    BY <1>8
  <2>2. pc[p] = "encrypt" /\ UNCHANGED <<keysDir, interrupted>>
    BY <2>1, Zenon DEF EncryptMessage, EncryptRefused
  <2>3. QED
    BY <2>2
<1>9. QED
  BY <1>1, <1>2, <1>3, <1>4, <1>5, <1>6, <1>7, <1>8

\* Those steps keep the invariant of the files.
LEMMA AsideKeepsFiles ==
  ASSUME TypeOK, KeyInv, FileInv, NEW p \in Procs,
         \/ InitCommand(p) \/ WriteConfigOpen(p) \/ WriteConfigData(p)
         \/ CommitNothing(p) \/ CreateCheckoutFails(p) \/ ImportLoopEnds(p)
         \/ \E c \in Channels : CreateParse(p, c) \/ ConfigSetValue(p, c)
         \/ \E asked \in SUBSET Keys : ImportIntoKeyring(p, asked)
         \/ \E k \in Keys : ExportSkip(p, k)
         \/ \E recipients \in SUBSET Keys : RebuildKeyring(p, recipients)
         \/ \E trust \in TrustLists : EncryptMessage(p, trust) \/ EncryptRefused(p, trust)
  PROVE  FileInv'
<1>1. pc[p] # "export_write" /\ interrupted' = interrupted /\ (keysDir => keysDir')
  BY AsideFiles
<1>2. Aside(p)
  BY AsideSteps
<1>3. Members(work') = Members(work)
  BY <1>2 DEF Aside, Members
<1>4. Members(work') # {} => keysDir'
  BY <1>1, <1>3 DEF FileInv, FilesHaveDir
<1>5. QED
  BY <1>1, <1>2, <1>4, FileFrame DEF Aside

\* A command that is cut short leaves the files as they are.
LEMMA InterruptKeepsFiles ==
  ASSUME FileInv, NEW p \in Procs, Interrupt(p)
  PROVE  FileInv'
  BY DEF Interrupt, files, FileInv, WrittenByOne, FilesHaveDir, Members

\* The steps of git that leave the working tree alone.
LEMMA GitKeepsFiles ==
  ASSUME TypeOK, FileInv, NEW p \in Procs,
         \/ AddConfig(p) \/ CommitConfig(p) \/ CommitKeys(p) \/ WriteCommit(p)
         \/ CreateCheckout(p) \/ \E c \in Channels : ChannelDelete(p, c)
         \/ \E k \in Keys : AddKey(p, k)
  PROVE  FileInv'
<1> USE DEF files, ctl, Quiet, TypeOK
<1>1. pc[p] # "export_write" /\ UNCHANGED <<work, keysDir, interrupted>>
  <2>1. CASE AddConfig(p) \/ CommitConfig(p) \/ CommitKeys(p) \/ WriteCommit(p)
    BY <2>1 DEF AddConfig, CommitConfig, CommitKeys, WriteCommit, CommitIndex, Step
  <2>2. CASE CreateCheckout(p) \/ \E c \in Channels : ChannelDelete(p, c)
    BY <2>2 DEF CreateCheckout, ChannelDelete, Step, Starts
  <2>3. CASE \E k \in Keys : AddKey(p, k)
    BY <2>3 DEF AddKey, Step
  <2>4. QED
    BY <2>1, <2>2, <2>3
<1>2. \A q \in Procs : q # p => pc'[q] = pc[q] /\ loc'[q] = loc[q]
  <2>1. CASE AddConfig(p) \/ CommitConfig(p) \/ CommitKeys(p) \/ WriteCommit(p)
    BY <2>1, ProcessFrame DEF AddConfig, CommitConfig, CommitKeys, WriteCommit
  <2>2. CASE CreateCheckout(p) \/ \E c \in Channels : ChannelDelete(p, c)
    BY <2>2, ProcessFrame DEF CreateCheckout, ChannelDelete
  <2>3. ASSUME NEW k \in Keys, AddKey(p, k)
        PROVE  \A q \in Procs : q # p => pc'[q] = pc[q] /\ loc'[q] = loc[q]
    <3>1. PICK l : Assign(p, l)
      BY <2>3, Zenon DEF AddKey
    <3>2. \A q \in Procs : q # p => loc'[q] = loc[q]
      BY <3>1, ProcessFrame
    <3>3. \A q \in Procs : q # p => pc'[q] = pc[q]
      BY <2>3 DEF AddKey, Step
    <3>4. QED
      BY <3>2, <3>3
  <2>4. QED
    BY <2>1, <2>2, <2>3
<1>3. QED
  BY <1>1, <1>2, FileFrame DEF FileInv, FilesHaveDir, Members

\* The working tree moves to whole key files, and git keeps the directory of
\* the files that remain.
LEMMA MoveKeepsFiles ==
  ASSUME TypeOK, FileInv, NEW p \in Procs, Starts(p), UNCHANGED <<pc, loc, interrupted>>,
         NEW t \in Trees, MoveTo(t), \A k \in Keys : t[k] # Partial
  PROVE  FileInv'
<1>1. \A k \in Keys : work'[k] \in {work[k], t[k]}
  BY DEF MoveTo, Git!Moved, Paths
<1>2. Members(work') # {} => keysDir'
  BY DEF MoveTo
<1>3. \A k \in Keys : work'[k] = Partial => work[k] = Partial
  BY <1>1
<1>4. QED
  BY <1>2, <1>3, FileFrame DEF Starts

\* The file that was just opened is being written by the process that opened it.
LEMMA OpenKeepsFiles ==
  ASSUME TypeOK, FileInv, NEW p \in Procs, NEW k \in Keys, ExportOpen(p, k)
  PROVE  FileInv'
<1> DEFINE l == [loc[p] EXCEPT !.key = {k}]
<1>1. l.key = {k}
  BY DEF TypeOK, Locals
<1>2. Assign(p, l) /\ Step(p, "export", "export_write")
  BY DEF ExportOpen
<1> HIDE DEF l
<1>3. /\ loc'[p].key = {k} /\ \A q \in Procs : q # p => loc'[q] = loc[q]
      /\ pc[p] = "export" /\ pc'[p] = "export_write"
      /\ \A q \in Procs : q # p => pc'[q] = pc[q]
  BY <1>1, <1>2 DEF TypeOK, Assign, Step
<1>4. /\ \A j \in Keys : j # k => work'[j] = work[j]
      /\ keysDir' /\ interrupted' = interrupted
  BY DEF ExportOpen, Quiet, TypeOK, Trees, Git!Trees, Paths
<1>5. WrittenByOne'
  <2> SUFFICES ASSUME ~interrupted, NEW j \in Keys, work'[j] = Partial
               PROVE  \E q \in Procs : loc'[q].key = {j} /\ pc'[q] = "export_write"
    BY <1>4 DEF WrittenByOne
  <2>1. CASE j = k
    BY <1>3, <2>1
  <2>2. CASE j # k
    <3>1. PICK q \in Procs : loc[q].key = {j} /\ pc[q] = "export_write"
      BY <1>4, <2>2 DEF FileInv, WrittenByOne
    <3>2. q # p
      BY <1>3, <3>1
    <3>3. QED
      BY <1>3, <3>1, <3>2
  <2>3. QED
    BY <2>1, <2>2
<1>6. QED
  BY <1>4, <1>5 DEF FileInv, FilesHaveDir

\* A process completes the file it wrote; the others are still being written.
LEMMA WriteKeepsFiles ==
  ASSUME TypeOK, KeyInv, FileInv, NEW p \in Procs, NEW k \in Keys, ExportWrite(p, k)
  PROVE  FileInv'
<1>1. /\ loc[p].key = {k} /\ UNCHANGED <<loc, keysDir, interrupted>>
      /\ pc[p] = "export_write" /\ \A q \in Procs : q # p => pc'[q] = pc[q]
  BY DEF ExportWrite, Quiet, TypeOK, Step
<1>2. work'[k] = Whole /\ \A j \in Keys : j # k => work'[j] = work[j]
  BY DEF ExportWrite, TypeOK, Trees, Git!Trees, Paths
<1>3. WrittenByOne'
  <2> SUFFICES ASSUME ~interrupted, NEW j \in Keys, work'[j] = Partial
               PROVE  \E q \in Procs : loc'[q].key = {j} /\ pc'[q] = "export_write"
    BY <1>1 DEF WrittenByOne
  <2>1. j # k
    BY <1>2
  <2>2. PICK q \in Procs : loc[q].key = {j} /\ pc[q] = "export_write"
    BY <1>2, <2>1 DEF FileInv, WrittenByOne
  <2>3. q # p
    BY <1>1, <2>1, <2>2
  <2>4. QED
    BY <1>1, <2>2, <2>3
<1>4. keysDir'
  <2>1. work[k] = Partial
    BY <1>1 DEF KeyInv, KeysWritten
  <2>2. k \in Members(work)
    BY <2>1 DEF Members
  <2>3. QED
    BY <1>1, <2>2 DEF FileInv, FilesHaveDir
<1>5. QED
  BY <1>3, <1>4 DEF FileInv, FilesHaveDir

\* "channel switch" and "git pull" move to trees of whole keys.
LEMMA MovesKeepFiles ==
  ASSUME TypeOK, KeyInv, FileInv, NEW p \in Procs,
         \/ \E c \in Channels : ChannelSwitch(p, c)
         \/ \E ks \in SUBSET Keys, cs \in SUBSET Channels : Pull(p, ks, cs)
  PROVE  FileInv'
<1>1. ASSUME NEW c \in Channels, ChannelSwitch(p, c)
      PROVE  FileInv'
  <2>1. /\ Starts(p) /\ UNCHANGED <<pc, loc, interrupted>>
        /\ tree[c] \in Trees /\ MoveTo(tree[c])
    BY <1>1 DEF ChannelSwitch, Quiet, ctl, TypeOK
  <2>2. \A k \in Keys : tree[c][k] # Partial
    BY <1>1 DEF ChannelSwitch, KeyInv, TrackedKeysAreWhole
  <2>3. QED
    BY <2>1, <2>2, MoveKeepsFiles
<1>2. ASSUME NEW ks \in SUBSET Keys, NEW cs \in SUBSET Channels, Pull(p, ks, cs)
      PROVE  FileInv'
  <2> DEFINE t == [q \in Paths |->
                     IF q = ConfigPath THEN tree[head][q] \cup cs
                     ELSE IF q \in ks THEN Whole ELSE tree[head][q]]
  <2>1. tree[head] \in Trees /\ tree[head] # NoTree /\ tree[head][ConfigPath] # NoFile
    BY <1>2 DEF Pull, TypeOK
  <2>2. t \in Trees
    BY <2>1, TreeContents DEF Trees, Git!Trees, Paths, Contents
  <2>3. \A k \in Keys : t[k] # Partial
    BY <2>1 DEF KeyInv, TrackedKeysAreWhole, Paths, TypeOK
  <2>4. Starts(p) /\ MoveTo(t) /\ UNCHANGED <<pc, loc, interrupted>>
    BY <1>2 DEF Pull, Quiet, ctl
  <2> HIDE DEF t
  <2>5. QED
    BY <2>2, <2>3, <2>4, MoveKeepsFiles
<1>3. QED
  BY <1>1, <1>2

\* At first no file is cut off, and a clone has a keys directory if it has keys.
LEMMA FileInit == Init => FileInv
<1> SUFFICES ASSUME Init PROVE FileInv
  OBVIOUS
<1>1. \A k \in Keys : work[k] # Partial
  BY DEF Init, CloneTree, Git!EmptyTree, Paths
<1>2. Members(work) # {} => keysDir
  <2>1. CASE work = Git!EmptyTree
    BY <2>1 DEF Members, Git!EmptyTree, Paths
  <2>2. ASSUME NEW members \in SUBSET Keys, work = CloneTree(members), keysDir = (members # {})
        PROVE  Members(work) # {} => keysDir
    <3>1. \A k \in Keys : work[k] = IF k \in members THEN Whole ELSE NoFile
      BY <2>2 DEF CloneTree, Paths
    <3>2. Members(work) \subseteq members
      BY <3>1 DEF Members
    <3>3. QED
      BY <2>2, <3>2
  <2>3. QED
    BY <2>1, <2>2 DEF Init
<1>3. QED
  BY <1>1, <1>2 DEF FileInv, WrittenByOne, FilesHaveDir

\* Every step keeps the invariant of the files.
LEMMA FileStep == TypeOK /\ KeyInv /\ FileInv /\ [Next]_vars => FileInv'
<1> SUFFICES ASSUME TypeOK, KeyInv, FileInv, [Next]_vars PROVE FileInv'
  OBVIOUS
<1>1. CASE UNCHANGED vars
  BY <1>1 DEF vars, FileInv, WrittenByOne, FilesHaveDir, Members
<1>2. CASE Next
  <2>1. PICK p \in Procs :
          \/ InitCommand(p) \/ ConfigWrite(p) \/ CommitNothing(p)
          \/ ChannelCommand(p) \/ ImportCommand(p) \/ MessageCommand(p)
          \/ \E ks \in SUBSET Keys, cs \in SUBSET Channels : Pull(p, ks, cs)
          \/ Interrupt(p)
    BY <1>2 DEF Next
  <2>2. CASE InitCommand(p) \/ CommitNothing(p)
    BY <2>2, AsideKeepsFiles
  <2>3. CASE ConfigWrite(p)
    BY <2>3, AsideKeepsFiles, GitKeepsFiles DEF ConfigWrite
  <2>4. CASE ChannelCommand(p)
    BY <2>4, AsideKeepsFiles, GitKeepsFiles, MovesKeepFiles DEF ChannelCommand
  <2>5. CASE ImportCommand(p)
    BY <2>5, AsideKeepsFiles, GitKeepsFiles, OpenKeepsFiles, WriteKeepsFiles DEF ImportCommand
  <2>6. CASE MessageCommand(p)
    BY <2>6, AsideKeepsFiles, GitKeepsFiles DEF MessageCommand
  <2>7. CASE \E ks \in SUBSET Keys, cs \in SUBSET Channels : Pull(p, ks, cs)
    BY <2>7, MovesKeepFiles
  <2>8. QED
    BY <2>1, <2>2, <2>3, <2>4, <2>5, <2>6, <2>7, InterruptKeepsFiles
<1>3. QED
  BY <1>1, <1>2

\* Between the commands of any number of terminals, if none was cut short,
\* messages can be sent in every channel that has a member.
THEOREM MessagesGetThrough == Spec => []MessagingIsPossible
<1>1. TypeOK /\ KeyInv /\ FileInv => MessagingIsPossible
  <2> SUFFICES ASSUME TypeOK, KeyInv, FileInv, ~interrupted,
                      \A p \in Procs : pc[p] = "idle", Members(HeadTree) # {}
               PROVE  keysDir /\ Members(work) = Readable(work)
    BY DEF MessagingIsPossible
  <2>1. \A k \in Keys : work[k] # Partial
    BY DEF FileInv, WrittenByOne
  <2>2. \A k \in Keys : work[k] \in {NoFile, Partial, Whole}
    BY TreeContents DEF TypeOK
  <2>3. Members(work) = Readable(work)
    BY <2>1, <2>2 DEF Members, Readable
  <2>4. PICK k \in Keys : HeadTree[k] = Whole
    BY MembersAreReadable DEF Readable
  <2>5. k \in Members(work)
    BY <2>4 DEF KeyInv, KeysFollow, Members
  <2>6. QED
    BY <2>3, <2>5 DEF FileInv, FilesHaveDir
<1>2. TypeOK /\ KeyInv /\ FileInv /\ [Next]_vars => FileInv'
  BY FileStep
<1>3. QED
  BY FileInit, <1>1, <1>2, TypeCorrectness, KeyInvariance, PTL DEF Spec

-----------------------------------------------------------------------------
(* What is staged.                                                         *)

Importing == {"export", "export_write", "add_key", "commit_keys"}

\* The keys an import has staged are in the index until it commits them.
StagingInv ==
  /\ StagedKeysAreCommitted
  /\ \A p \in Procs : /\ \A k \in loc[p].staged : index[k] = Whole
                      /\ loc[p].staged # {} => pc[p] \in Importing

\* If no command was cut short, only the command that is running has staged
\* what HEAD does not track.
CleanInv ==
  ~interrupted =>
    /\ MessagesChangeNothing
    /\ \A p \in Procs : index # HeadTree =>
         \/ pc[p] = "commit_config"
         \/ (pc[p] \in Importing /\ loc[p].staged # {})

\* The parts of the local variables that tell what a command has staged and
\* which channel it makes, and the updates that leave them alone.
Kept(l) == <<l.cmd, l.channel, l.conf, l.staged>>

LEMMA KeptByUpdates ==
  ASSUME NEW l \in Locals
  PROVE  /\ \A K : Kept([l EXCEPT !.key = K]) = Kept(l)
         /\ \A k : Kept([l EXCEPT !.todo = @ \ {k}]) = Kept(l)
  BY DEF Kept, Locals

\* The fields of a command that starts.
LEMMA StartFields ==
  /\ Kept(Blank) = <<"none", Master, {}, {}>>
  /\ Kept([Blank EXCEPT !.cmd = "init"]) = <<"init", Master, {}, {}>>
  /\ \A c, S : Kept([Blank EXCEPT !.cmd = "create", !.channel = c, !.conf = S])
                = <<"create", c, S, {}>>
  /\ \A S : Kept([Blank EXCEPT !.cmd = "config", !.conf = S]) = <<"config", Master, S, {}>>
  /\ \A A : Kept([Blank EXCEPT !.asked = A, !.todo = A]) = <<"none", Master, {}, {}>>
  /\ \A A : Kept([Blank EXCEPT !.asked = A]) = <<"none", Master, {}, {}>>
  BY DEF Kept, Blank

\* What an assignment leaves in the local variables.
LEMMA AssignKept ==
  ASSUME loc \in [Procs -> Locals], NEW p \in Procs, NEW l, Assign(p, l)
  PROVE  Kept(loc'[p]) = Kept(l)
  BY DEF Assign

\* A step moves the program counter of its process.
LEMMA StepMoves ==
  ASSUME pc \in [Procs -> Steps], NEW p \in Procs
  PROVE  /\ \A from, to : Step(p, from, to) => pc[p] = from /\ pc'[p] = to
         /\ Exit(p) => pc'[p] = "idle" /\ loc' = [loc EXCEPT ![p] = Blank]
  BY DEF Step, Exit, Assign

-----------------------------------------------------------------------------
(* What each step does to the program counter and to those fields.         *)

\* The steps of "init".
LEMMA InitControl ==
  ASSUME TypeOK, NEW p \in Procs
  PROVE  /\ InitCheck(p) => /\ pc[p] = "idle" /\ pc'[p] = "git_init"
                            /\ Kept(loc'[p]) = <<"init", Master, {}, {}>>
         /\ InitGit(p) => /\ pc[p] = "git_init" /\ pc'[p] = "copy_dir"
                          /\ Kept(loc'[p]) = Kept(loc[p])
         /\ InitCopyDir(p) => /\ pc[p] = "copy_dir" /\ pc'[p] = "copy_config"
                              /\ Kept(loc'[p]) = Kept(loc[p])
         /\ InitCopyConfig(p) =>
              /\ pc[p] = "copy_config" /\ pc'[p] = "truncate"
              /\ Kept(loc'[p]) = <<loc[p].cmd, loc[p].channel, {Master}, loc[p].staged>>
         /\ InitCopyFails(p) => /\ pc[p] = "copy_config" /\ pc'[p] = "idle"
                                /\ Kept(loc'[p]) = <<"none", Master, {}, {}>>
         /\ InitKeysDir(p) => /\ pc[p] = "keys_dir" /\ pc'[p] = "add_config"
                              /\ Kept(loc'[p]) = Kept(loc[p])
<1>1. pc \in [Procs -> Steps] /\ loc \in [Procs -> Locals] /\ loc[p] \in Locals
  BY DEF TypeOK
<1>2. ASSUME InitCheck(p)
      PROVE  /\ pc[p] = "idle" /\ pc'[p] = "git_init"
             /\ Kept(loc'[p]) = <<"init", Master, {}, {}>>
  <2>1. Assign(p, [Blank EXCEPT !.cmd = "init"]) /\ Step(p, "idle", "git_init")
    BY <1>2, Zenon DEF InitCheck
  <2>2. Kept(loc'[p]) = Kept([Blank EXCEPT !.cmd = "init"])
    BY <1>1, <2>1, AssignKept, Zenon
  <2>3. pc[p] = "idle" /\ pc'[p] = "git_init"
    BY <1>1, <2>1, StepMoves
  <2>4. QED
    BY <2>2, <2>3, StartFields, Zenon
<1>3. ASSUME InitCopyConfig(p)
      PROVE  /\ pc[p] = "copy_config" /\ pc'[p] = "truncate"
             /\ Kept(loc'[p]) = <<loc[p].cmd, loc[p].channel, {Master}, loc[p].staged>>
  <2>1. Kept([loc[p] EXCEPT !.conf = {Master}])
          = <<loc[p].cmd, loc[p].channel, {Master}, loc[p].staged>>
    BY <1>1 DEF Kept, Locals
  <2>2. Assign(p, [loc[p] EXCEPT !.conf = {Master}]) /\ Step(p, "copy_config", "truncate")
    BY <1>3, Zenon DEF InitCopyConfig
  <2>3. Kept(loc'[p]) = Kept([loc[p] EXCEPT !.conf = {Master}])
    BY <1>1, <2>2, AssignKept, Zenon
  <2>4. pc[p] = "copy_config" /\ pc'[p] = "truncate"
    BY <1>1, <2>2, StepMoves
  <2>5. QED
    BY <2>1, <2>3, <2>4, Zenon
<1>4. ASSUME InitCopyFails(p)
      PROVE  /\ pc[p] = "copy_config" /\ pc'[p] = "idle"
             /\ Kept(loc'[p]) = <<"none", Master, {}, {}>>
  BY <1>1, <1>4, StepMoves, AssignKept, StartFields DEF InitCopyFails, Exit
<1>5. QED
  BY <1>1, <1>2, <1>3, <1>4, StepMoves DEF InitGit, InitCopyDir, InitKeysDir

\* The steps of the config file, whoever makes them.
LEMMA ConfigControl ==
  ASSUME TypeOK, NEW p \in Procs
  PROVE  /\ WriteConfigOpen(p) => /\ pc[p] = "truncate" /\ pc'[p] = "write"
                                  /\ Kept(loc'[p]) = Kept(loc[p])
         /\ WriteConfigData(p) =>
              /\ pc[p] = "write"
              /\ \/ /\ loc[p].cmd = "init" /\ pc'[p] = "keys_dir"
                    /\ Kept(loc'[p]) = Kept(loc[p])
                 \/ /\ loc[p].cmd = "create" /\ pc'[p] = "add_config"
                    /\ Kept(loc'[p]) = Kept(loc[p])
                 \/ /\ loc[p].cmd = "config" /\ pc'[p] = "idle"
                    /\ Kept(loc'[p]) = Kept(Blank)
         /\ AddConfig(p) => /\ pc[p] = "add_config" /\ pc'[p] = "commit_config"
                            /\ Kept(loc'[p]) = Kept(loc[p])
         /\ CommitConfig(p) => /\ pc[p] = "commit_config" /\ pc'[p] = "idle"
                               /\ Kept(loc'[p]) = Kept(Blank)
         /\ CommitNothing(p) => /\ pc[p] \in {"commit_config", "commit_keys"}
                                /\ pc'[p] = "idle" /\ Kept(loc'[p]) = Kept(Blank)
         /\ \A c \in Channels : ConfigSetValue(p, c) =>
              /\ pc[p] = "idle" /\ pc'[p] = "truncate"
              /\ \E conf : Kept(loc'[p]) = <<"config", Master, conf, {}>>
<1>1. pc \in [Procs -> Steps] /\ loc \in [Procs -> Locals]
  BY DEF TypeOK
<1>2. Exit(p) => pc'[p] = "idle" /\ Kept(loc'[p]) = Kept(Blank)
  BY <1>1, StepMoves
<1>3. ASSUME NEW c \in Channels, ConfigSetValue(p, c)
      PROVE  /\ pc[p] = "idle" /\ pc'[p] = "truncate"
             /\ \E conf : Kept(loc'[p]) = <<"config", Master, conf, {}>>
  <2>1. PICK conf : Assign(p, [Blank EXCEPT !.cmd = "config", !.conf = conf])
    BY <1>3, Zenon DEF ConfigSetValue
  <2>2. Kept(loc'[p]) = Kept([Blank EXCEPT !.cmd = "config", !.conf = conf])
    BY <1>1, <2>1, AssignKept, Zenon
  <2>3. Kept(loc'[p]) = <<"config", Master, conf, {}>>
    BY <2>2, StartFields, Zenon
  <2>4. Step(p, "idle", "truncate")
    BY <1>3, Zenon DEF ConfigSetValue
  <2>5. pc[p] = "idle" /\ pc'[p] = "truncate"
    BY <1>1, <2>4, StepMoves
  <2>6. QED
    BY <2>3, <2>5, Zenon
<1>4. QED
  BY <1>1, <1>2, <1>3, StepMoves
     DEF WriteConfigOpen, WriteConfigData, AddConfig, CommitConfig, CommitNothing

\* The steps of the channels, and of "git pull".
LEMMA ChannelControl ==
  ASSUME TypeOK, NEW p \in Procs
  PROVE  /\ \A c \in Channels : CreateParse(p, c) =>
              /\ pc[p] = "idle" /\ pc'[p] = "checkout"
              /\ Kept(loc'[p]) = <<"create", c, work[ConfigPath] \cup {c}, {}>>
         /\ CreateCheckout(p) => /\ pc[p] = "checkout" /\ pc'[p] = "truncate"
                                 /\ Kept(loc'[p]) = Kept(loc[p])
         /\ CreateCheckoutFails(p) => /\ pc[p] = "checkout" /\ pc'[p] = "idle"
                                      /\ Kept(loc'[p]) = Kept(Blank)
         /\ \A c \in Channels : ChannelSwitch(p, c) \/ ChannelDelete(p, c) =>
              pc[p] = "idle" /\ UNCHANGED <<pc, loc>>
         /\ \A ks \in SUBSET Keys, cs \in SUBSET Channels : Pull(p, ks, cs) =>
              pc[p] = "idle" /\ UNCHANGED <<pc, loc>>
         /\ Interrupt(p) => pc'[p] = "idle" /\ Kept(loc'[p]) = Kept(Blank)
<1>1. pc \in [Procs -> Steps] /\ loc \in [Procs -> Locals]
  BY DEF TypeOK
<1>2. Exit(p) => pc'[p] = "idle" /\ Kept(loc'[p]) = Kept(Blank)
  BY <1>1, StepMoves
<1>3. ASSUME NEW c \in Channels, CreateParse(p, c)
      PROVE  /\ pc[p] = "idle" /\ pc'[p] = "checkout"
             /\ Kept(loc'[p]) = <<"create", c, work[ConfigPath] \cup {c}, {}>>
  <2> DEFINE l == [Blank EXCEPT !.cmd = "create", !.channel = c,
                                !.conf = work[ConfigPath] \cup {c}]
  <2>1. Assign(p, l) /\ Step(p, "idle", "checkout")
    BY <1>3, Zenon DEF CreateParse
  <2>2. Kept(l) = <<"create", c, work[ConfigPath] \cup {c}, {}>>
    BY StartFields
  <2> HIDE DEF l
  <2>3. Kept(loc'[p]) = Kept(l)
    BY <1>1, <2>1, AssignKept, Zenon
  <2>4. pc[p] = "idle" /\ pc'[p] = "checkout"
    BY <1>1, <2>1, StepMoves
  <2>5. QED
    BY <2>2, <2>3, <2>4, Zenon
<1>4. ASSUME NEW c \in Channels, ChannelSwitch(p, c) \/ ChannelDelete(p, c)
      PROVE  pc[p] = "idle" /\ UNCHANGED <<pc, loc>>
  BY <1>4 DEF ChannelSwitch, ChannelDelete, Starts, ctl
<1>5. ASSUME NEW ks \in SUBSET Keys, NEW cs \in SUBSET Channels, Pull(p, ks, cs)
      PROVE  pc[p] = "idle" /\ UNCHANGED <<pc, loc>>
  BY <1>5 DEF Pull, Starts, ctl
<1>6. QED
  BY <1>1, <1>2, <1>3, <1>4, <1>5, StepMoves
     DEF CreateCheckout, CreateCheckoutFails, Interrupt

\* The steps of an import.
LEMMA ImportControl ==
  ASSUME TypeOK, NEW p \in Procs
  PROVE  /\ \A asked \in SUBSET Keys : ImportIntoKeyring(p, asked) =>
              /\ pc[p] = "idle"
              /\ \/ UNCHANGED <<pc, loc>>
                 \/ pc'[p] = "export" /\ Kept(loc'[p]) = Kept(Blank)
         /\ \A k \in Keys :
              /\ ExportOpen(p, k) => /\ pc[p] = "export" /\ pc'[p] = "export_write"
                                     /\ Kept(loc'[p]) = Kept(loc[p])
              /\ ExportSkip(p, k) => /\ pc[p] = "export" /\ pc'[p] = "export"
                                     /\ Kept(loc'[p]) = Kept(loc[p])
              /\ ExportWrite(p, k) => /\ pc[p] = "export_write" /\ pc'[p] = "add_key"
                                      /\ Kept(loc'[p]) = Kept(loc[p])
              /\ AddKey(p, k) =>
                   /\ pc[p] = "add_key" /\ pc'[p] = "export"
                   /\ Kept(loc'[p]) = <<loc[p].cmd, loc[p].channel, loc[p].conf,
                                        loc[p].staged \cup {k}>>
         /\ ImportLoopEnds(p) =>
              /\ pc[p] = "export"
              /\ \/ /\ loc[p].staged = {} /\ pc'[p] = "idle"
                    /\ Kept(loc'[p]) = Kept(Blank)
                 \/ /\ loc[p].staged # {} /\ pc'[p] = "commit_keys"
                    /\ Kept(loc'[p]) = Kept(loc[p])
         /\ CommitKeys(p) => /\ pc[p] = "commit_keys" /\ pc'[p] = "idle"
                             /\ Kept(loc'[p]) = Kept(Blank)
<1>1. pc \in [Procs -> Steps] /\ loc \in [Procs -> Locals] /\ loc[p] \in Locals
  BY DEF TypeOK
<1>2. Exit(p) => pc'[p] = "idle" /\ Kept(loc'[p]) = Kept(Blank)
  BY <1>1, StepMoves
<1>3. ASSUME NEW asked \in SUBSET Keys, ImportIntoKeyring(p, asked)
      PROVE  /\ pc[p] = "idle"
             /\ \/ UNCHANGED <<pc, loc>>
                \/ pc'[p] = "export" /\ Kept(loc'[p]) = Kept(Blank)
  <2> DEFINE l == [Blank EXCEPT !.asked = asked \cap Usable, !.todo = asked \cap Usable]
  <2>1. pc[p] = "idle" /\ (UNCHANGED <<pc, loc>> \/ (Assign(p, l) /\ Step(p, "idle", "export")))
    BY <1>3, Zenon DEF ImportIntoKeyring, Starts, ctl
  <2>2. Kept(l) = Kept(Blank)
    BY StartFields
  <2> HIDE DEF l
  <2>3. Assign(p, l) => Kept(loc'[p]) = Kept(l)
    BY <1>1, AssignKept, Zenon
  <2>4. Step(p, "idle", "export") => pc'[p] = "export"
    BY <1>1, StepMoves
  <2>5. QED
    BY <2>1, <2>2, <2>3, <2>4, Zenon
<1>4. ASSUME NEW k \in Keys, ExportOpen(p, k)
      PROVE  /\ pc[p] = "export" /\ pc'[p] = "export_write"
             /\ Kept(loc'[p]) = Kept(loc[p])
  <2>1. Assign(p, [loc[p] EXCEPT !.key = {k}]) /\ Step(p, "export", "export_write")
    BY <1>4, Zenon DEF ExportOpen
  <2>2. Kept(loc'[p]) = Kept([loc[p] EXCEPT !.key = {k}])
    BY <1>1, <2>1, AssignKept, Zenon
  <2>3. pc[p] = "export" /\ pc'[p] = "export_write"
    BY <1>1, <2>1, StepMoves
  <2>4. QED
    BY <1>1, <2>2, <2>3, KeptByUpdates, Zenon
<1>5. ASSUME NEW k \in Keys, ExportSkip(p, k)
      PROVE  /\ pc[p] = "export" /\ pc'[p] = "export"
             /\ Kept(loc'[p]) = Kept(loc[p])
  <2>1. Assign(p, [loc[p] EXCEPT !.todo = @ \ {k}]) /\ pc[p] = "export" /\ pc' = pc
    BY <1>5, Zenon DEF ExportSkip
  <2>2. Kept(loc'[p]) = Kept([loc[p] EXCEPT !.todo = @ \ {k}])
    BY <1>1, <2>1, AssignKept, Zenon
  <2>3. QED
    BY <1>1, <2>1, <2>2, KeptByUpdates, Zenon
<1>6. ASSUME NEW k \in Keys, AddKey(p, k)
      PROVE  /\ pc[p] = "add_key" /\ pc'[p] = "export"
             /\ Kept(loc'[p]) = <<loc[p].cmd, loc[p].channel, loc[p].conf,
                                  loc[p].staged \cup {k}>>
  <2> DEFINE l == [loc[p] EXCEPT !.key = {}, !.todo = @ \ {k}, !.staged = @ \cup {k}]
  <2>1. Assign(p, l) /\ Step(p, "add_key", "export")
    BY <1>6, Zenon DEF AddKey
  <2>2. Kept(l) = <<loc[p].cmd, loc[p].channel, loc[p].conf, loc[p].staged \cup {k}>>
    BY <1>1 DEF Kept, Locals
  <2> HIDE DEF l
  <2>3. Kept(loc'[p]) = Kept(l)
    BY <1>1, <2>1, AssignKept, Zenon
  <2>4. pc[p] = "add_key" /\ pc'[p] = "export"
    BY <1>1, <2>1, StepMoves
  <2>5. QED
    BY <2>2, <2>3, <2>4, Zenon
<1>7. ASSUME NEW k \in Keys, ExportWrite(p, k)
      PROVE  /\ pc[p] = "export_write" /\ pc'[p] = "add_key"
             /\ Kept(loc'[p]) = Kept(loc[p])
  BY <1>1, <1>7, StepMoves DEF ExportWrite
<1>8. QED
  BY <1>1, <1>2, <1>3, <1>4, <1>5, <1>6, <1>7, StepMoves DEF ImportLoopEnds, CommitKeys

\* The steps of a message.
LEMMA MessageControl ==
  ASSUME TypeOK, NEW p \in Procs
  PROVE  /\ \A recipients \in SUBSET Keys : RebuildKeyring(p, recipients) =>
              pc[p] = "idle" /\ pc'[p] = "encrypt" /\ Kept(loc'[p]) = Kept(Blank)
         /\ \A trust \in TrustLists :
              /\ EncryptMessage(p, trust) => /\ pc[p] = "encrypt" /\ pc'[p] = "write_commit"
                                             /\ Kept(loc'[p]) = Kept(loc[p])
              /\ EncryptRefused(p, trust) => /\ pc[p] = "encrypt" /\ pc'[p] = "idle"
                                             /\ Kept(loc'[p]) = Kept(Blank)
         /\ WriteCommit(p) => /\ pc[p] = "write_commit" /\ pc'[p] = "idle"
                              /\ Kept(loc'[p]) = Kept(Blank)
<1>1. pc \in [Procs -> Steps] /\ loc \in [Procs -> Locals] /\ loc[p] \in Locals
  BY DEF TypeOK
<1>2. Exit(p) => pc'[p] = "idle" /\ Kept(loc'[p]) = Kept(Blank)
  BY <1>1, StepMoves
<1>3. ASSUME NEW recipients \in SUBSET Keys, RebuildKeyring(p, recipients)
      PROVE  pc[p] = "idle" /\ pc'[p] = "encrypt" /\ Kept(loc'[p]) = Kept(Blank)
  <2>1. Assign(p, [Blank EXCEPT !.asked = recipients]) /\ Step(p, "idle", "encrypt")
    BY <1>3, Zenon DEF RebuildKeyring
  <2>2. Kept(loc'[p]) = Kept([Blank EXCEPT !.asked = recipients])
    BY <1>1, <2>1, AssignKept, Zenon
  <2>3. Kept([Blank EXCEPT !.asked = recipients]) = Kept(Blank)
    BY StartFields
  <2>4. pc[p] = "idle" /\ pc'[p] = "encrypt"
    BY <1>1, <2>1, StepMoves
  <2>5. QED
    BY <2>2, <2>3, <2>4, Zenon
<1>4. ASSUME NEW trust \in TrustLists, EncryptMessage(p, trust)
      PROVE  /\ pc[p] = "encrypt" /\ pc'[p] = "write_commit"
             /\ Kept(loc'[p]) = Kept(loc[p])
  <2>1. PICK R, o : Assign(p, [loc[p] EXCEPT !.readers = R, !.open = o])
    BY <1>4, Zenon DEF EncryptMessage
  <2>2. Kept(loc'[p]) = Kept([loc[p] EXCEPT !.readers = R, !.open = o])
    BY <1>1, <2>1, AssignKept, Zenon
  <2>3. Step(p, "encrypt", "write_commit")
    BY <1>4, Zenon DEF EncryptMessage
  <2>4. pc[p] = "encrypt" /\ pc'[p] = "write_commit"
    BY <1>1, <2>3, StepMoves
  <2>5. Kept([loc[p] EXCEPT !.readers = R, !.open = o]) = Kept(loc[p])
    BY <1>1 DEF Kept, Locals
  <2>6. QED
    BY <2>2, <2>4, <2>5, Zenon
<1>5. ASSUME NEW trust \in TrustLists, EncryptRefused(p, trust)
      PROVE  /\ pc[p] = "encrypt" /\ pc'[p] = "idle"
             /\ Kept(loc'[p]) = Kept(Blank)
  BY <1>2, <1>5, Zenon DEF EncryptRefused
<1>6. QED
  BY <1>1, <1>2, <1>3, <1>4, <1>5 DEF WriteCommit

-----------------------------------------------------------------------------
(* What an import has staged.                                              *)

\* A step that stages nothing, and whose process has nothing staged afterwards
\* or goes on with its import.
LEMMA StagingFrame ==
  ASSUME SingleTerminal, StagingInv, NEW p \in Procs, commit'.kind # "import",
         \/ loc'[p].staged = {}
         \/ /\ loc'[p].staged = loc[p].staged
            /\ loc[p].staged = {} \/ (pc'[p] \in Importing /\ index' = index)
  PROVE  StagingInv'
<1>1. StagedKeysAreCommitted'
  BY DEF StagedKeysAreCommitted
<1>2. \A q \in Procs : q = p
  BY DEF SingleTerminal
<1>3. (\A k \in loc'[p].staged : index'[k] = Whole) /\ (loc'[p].staged # {} => pc'[p] \in Importing)
  BY DEF StagingInv
<1>4. QED
  BY <1>1, <1>2, <1>3 DEF StagingInv

\* Only an import has anything staged.
LEMMA NothingStaged ==
  ASSUME StagingInv, NEW p \in Procs, pc[p] \notin Importing
  PROVE  loc[p].staged = {}
  BY DEF StagingInv

\* The steps of init, of the config file, of the channels and of messages.
LEMMA OthersStageNothing ==
  ASSUME SingleTerminal, TypeOK, StagingInv, NEW p \in Procs,
         \/ InitCommand(p) \/ ConfigWrite(p) \/ CommitNothing(p) \/ ChannelCommand(p)
         \/ MessageCommand(p) \/ Interrupt(p)
         \/ \E ks \in SUBSET Keys, cs \in SUBSET Channels : Pull(p, ks, cs)
  PROVE  StagingInv'
<1>0. Kept(Blank) = <<"none", Master, {}, {}>>
  BY StartFields
<1>1. commit'.kind # "import"
  <2>1. CASE CommitConfig(p) \/ WriteCommit(p)
    BY <2>1 DEF CommitConfig, WriteCommit, CommitIndex
  <2>2. CASE ~(CommitConfig(p) \/ WriteCommit(p))
    BY <2>2, QuietSteps DEF NoCommit, ConfigWrite, MessageCommand
  <2>3. QED
    BY <2>1, <2>2
<1>2. loc'[p].staged = {} \/ (pc[p] \notin Importing /\ loc'[p].staged = loc[p].staged)
  <2>1. CASE InitCommand(p)
    BY <1>0, <2>1, InitControl DEF InitCommand, Importing, Kept
  <2>2. CASE ConfigWrite(p) \/ CommitNothing(p)
    BY <1>0, <2>2, ConfigControl DEF ConfigWrite, Importing, Kept
  <2>3. CASE ChannelCommand(p)
    <3>1. CASE \E c \in Channels : ConfigSetValue(p, c)
      <4>1. PICK c \in Channels : ConfigSetValue(p, c)
        BY <3>1
      <4>2. PICK conf : Kept(loc'[p]) = <<"config", Master, conf, {}>>
        BY <4>1, ConfigControl
      <4>3. QED
        BY <4>2 DEF Kept
    <3>2. QED
      BY <1>0, <2>3, <3>1, ChannelControl DEF ChannelCommand, Importing, Kept
  <2>4. CASE MessageCommand(p)
    BY <1>0, <2>4, MessageControl DEF MessageCommand, Importing, Kept
  <2>5. CASE Interrupt(p) \/ \E ks \in SUBSET Keys, cs \in SUBSET Channels : Pull(p, ks, cs)
    BY <1>0, <2>5, ChannelControl DEF Importing, Kept
  <2>6. QED
    BY <2>1, <2>2, <2>3, <2>4, <2>5
<1>3. QED
  BY <1>1, <1>2, NothingStaged, StagingFrame

\* "git add" stages a key whose file is complete.
LEMMA AddKeyStages ==
  ASSUME SingleTerminal, TypeOK, KeyInv, StagingInv, NEW p \in Procs, NEW k \in Keys, AddKey(p, k)
  PROVE  StagingInv'
<1>1. /\ pc[p] = "add_key" /\ pc'[p] = "export"
      /\ loc'[p].staged = loc[p].staged \cup {k}
  BY ImportControl DEF Kept
<1>2. work[k] = Whole
  BY <1>1 DEF AddKey, KeyInv, KeysWritten
<1>3. index'[k] = Whole /\ \A j \in Keys : j # k => index'[j] = index[j]
  BY <1>2 DEF AddKey, Git!Added, TypeOK, Trees, Git!Trees, Paths
<1>4. \A j \in loc'[p].staged : index'[j] = Whole
  <2> SUFFICES ASSUME NEW j \in loc'[p].staged PROVE index'[j] = Whole
    OBVIOUS
  <2>1. j = k \/ (j \in loc[p].staged /\ j \in Keys)
    BY <1>1 DEF TypeOK, Locals
  <2>2. QED
    BY <1>3, <2>1 DEF StagingInv
<1>5. \A q \in Procs : q = p
  BY DEF SingleTerminal
<1>6. StagedKeysAreCommitted'
  BY QuietSteps DEF NoCommit, StagedKeysAreCommitted
<1>7. QED
  BY <1>1, <1>4, <1>5, <1>6 DEF StagingInv, Importing

\* The other steps of an import, and its commit.
LEMMA ImportKeepsStaged ==
  ASSUME SingleTerminal, TypeOK, KeyInv, StagingInv, NEW p \in Procs, ImportCommand(p)
  PROVE  StagingInv'
<1>0. Kept(Blank) = <<"none", Master, {}, {}>>
  BY StartFields
<1>1. CASE CommitKeys(p)
  <2>1. /\ commit'.kind = "import" /\ commit'.staged = loc[p].staged /\ commit'.tree = index
    BY <1>1 DEF CommitKeys, CommitIndex
  <2>2. loc[p].staged \subseteq Readable(index)
    BY DEF StagingInv, Readable, TypeOK, Locals
  <2>3. StagedKeysAreCommitted'
    BY <2>1, <2>2 DEF StagedKeysAreCommitted, Readable
  <2>4. loc'[p].staged = {} /\ \A q \in Procs : q = p
    BY <1>0, <1>1, ImportControl DEF Kept, SingleTerminal
  <2>5. QED
    BY <2>3, <2>4 DEF StagingInv
<1>2. ASSUME NEW asked \in SUBSET Keys, ImportIntoKeyring(p, asked)
      PROVE  StagingInv'
  <2>1. commit'.kind # "import"
    BY <1>2, QuietSteps DEF NoCommit
  <2>2. loc[p].staged = {}
    BY <1>2, ImportControl, NothingStaged DEF Importing
  <2>3. loc'[p].staged = {}
    BY <1>0, <1>2, <2>2, ImportControl DEF Kept
  <2>4. QED
    BY <2>1, <2>3, StagingFrame
<1>3. ASSUME NEW k \in Keys, ExportOpen(p, k) \/ ExportSkip(p, k) \/ ExportWrite(p, k)
      PROVE  StagingInv'
  <2>1. commit'.kind # "import"
    BY <1>3, QuietSteps DEF NoCommit
  <2>2. pc'[p] \in Importing /\ loc'[p].staged = loc[p].staged
    BY <1>3, ImportControl DEF Importing, Kept
  <2>3. index' = index
    BY <1>3 DEF ExportOpen, ExportSkip, ExportWrite, repo
  <2>4. QED
    BY <2>1, <2>2, <2>3, StagingFrame
<1>4. CASE ImportLoopEnds(p)
  <2>1. commit'.kind # "import"
    BY <1>4, QuietSteps DEF NoCommit
  <2>2. loc'[p].staged = {} \/ (pc'[p] \in Importing /\ loc'[p].staged = loc[p].staged)
    BY <1>0, <1>4, ImportControl DEF Importing, Kept
  <2>3. index' = index
    BY <1>4 DEF ImportLoopEnds, repo
  <2>4. QED
    BY <2>1, <2>2, <2>3, StagingFrame
<1>5. QED
  BY <1>1, <1>2, <1>3, <1>4, AddKeyStages DEF ImportCommand

\* Every step of a single terminal keeps the staged keys in the index.
LEMMA StagingStep == SingleTerminal /\ TypeOK /\ KeyInv /\ StagingInv /\ [Next]_vars => StagingInv'
<1> SUFFICES ASSUME SingleTerminal, TypeOK, KeyInv, StagingInv, [Next]_vars PROVE StagingInv'
  OBVIOUS
<1>1. CASE UNCHANGED vars
  BY <1>1 DEF vars, StagingInv, StagedKeysAreCommitted, Readable
<1>2. CASE Next
  BY <1>2, OthersStageNothing, ImportKeepsStaged DEF Next
<1>3. QED
  BY <1>1, <1>2

\* Nothing is staged at first.
LEMMA StagingInit == Init => StagingInv
  BY DEF Init, StagingInv, StagedKeysAreCommitted, NoCommit, Blank

\* With one terminal, wherever commands are cut short, the commit of an import
\* has every key the import has added, whole.
THEOREM ImportsAreCommitted ==
  ASSUME SingleTerminal
  PROVE  Spec => []StagedKeysAreCommitted
<1>1. TypeOK /\ KeyInv /\ StagingInv /\ [Next]_vars => StagingInv'
  BY StagingStep
<1>2. StagingInv => StagedKeysAreCommitted
  BY DEF StagingInv
<1>3. QED
  BY StagingInit, <1>1, <1>2, TypeCorrectness, KeyInvariance, PTL DEF Spec

-----------------------------------------------------------------------------
(* What a message finds in the index.                                      *)

\* A step that leaves the index and HEAD alone, of a command that goes on.
LEMMA CleanFrame ==
  ASSUME SingleTerminal, CleanInv, NEW p \in Procs, interrupted' = interrupted,
         commit'.kind # "message", index' = index, HeadTree' = HeadTree,
         pc[p] # "commit_config",
         \/ pc[p] \notin Importing \/ loc[p].staged = {}
         \/ pc'[p] \in Importing /\ loc'[p].staged # {}
  PROVE  CleanInv'
<1>1. \A q \in Procs : q = p
  BY DEF SingleTerminal
<1>2. MessagesChangeNothing'
  BY DEF MessagesChangeNothing
<1>3. QED
  BY <1>1, <1>2 DEF CleanInv

\* A step after which HEAD tracks the index.
LEMMA CleanAgain ==
  ASSUME SingleTerminal, CleanInv, NEW p \in Procs,
         commit'.kind # "message", index' = HeadTree'
  PROVE  CleanInv'
  BY DEF CleanInv, MessagesChangeNothing

\* A command that goes on to its commit, or is cut short.
LEMMA CleanOwner ==
  ASSUME SingleTerminal, NEW p \in Procs, commit'.kind # "message",
         \/ pc'[p] = "commit_config" \/ interrupted'
         \/ pc'[p] \in Importing /\ loc'[p].staged # {}
  PROVE  CleanInv'
<1>1. \A q \in Procs : q = p
  BY DEF SingleTerminal
<1>2. QED
  BY <1>1 DEF CleanInv, MessagesChangeNothing

\* A commit makes the index the tree of HEAD.
LEMMA CommitIsClean ==
  ASSUME TypeOK, NEW kind, NEW keys, NEW staged, NEW open,
         CommitIndex(kind, keys, staged, open)
  PROVE  HeadTree' = index /\ index' = index
<1>1. index # NoTree /\ head' = head /\ tree' = [tree EXCEPT ![head] = index]
  BY TreeContents DEF TypeOK, CommitIndex
<1>2. tree'[head'] = index
  BY <1>1 DEF TypeOK
<1>3. QED
  BY <1>1, <1>2 DEF HeadTree, CommitIndex

\* A branch made by "channel create" has the tree of HEAD; deleting another
\* branch leaves HEAD alone.
LEMMA BranchKeepsHead ==
  ASSUME TypeOK, NEW p \in Procs,
         CreateCheckout(p) \/ \E c \in Channels : ChannelDelete(p, c)
  PROVE  HeadTree' = HeadTree /\ index' = index
<1>1. loc[p].channel \in Channels
  BY DEF TypeOK, Locals
<1>2. CASE CreateCheckout(p)
  BY <1>1, <1>2 DEF CreateCheckout, HeadTree, TypeOK
<1>3. CASE \E c \in Channels : ChannelDelete(p, c)
  BY <1>3 DEF ChannelDelete, HeadTree, TypeOK
<1>4. QED
  BY <1>2, <1>3

\* From a clean index a move ends in a clean index.
LEMMA MoveIsClean ==
  ASSUME TypeOK, NEW t \in Trees, MoveTo(t), index = HeadTree
  PROVE  index' = t
<1>1. index' \in [Paths -> Contents] /\ t \in [Paths -> Contents]
  BY MovedType, HeadTreeType DEF MoveTo, TypeOK, Trees, Git!Trees
<1>2. \A q \in Paths : index'[q] = t[q]
  BY DEF MoveTo, Git!Moved, Git!Keeps
<1>3. QED
  BY <1>1, <1>2

\* What "git pull" moves to is a tree, and becomes that of HEAD.
LEMMA PullTree ==
  ASSUME TypeOK, NEW p \in Procs, NEW ks \in SUBSET Keys, NEW cs \in SUBSET Channels,
         Pull(p, ks, cs)
  PROVE  \E t \in Trees :
           /\ MoveTo(t) /\ HeadTree' = t /\ tree' = [tree EXCEPT ![head] = t]
           /\ t[ConfigPath] = tree[head][ConfigPath] \cup cs
           /\ tree[head] \in Trees /\ tree[head][ConfigPath] # NoFile
           /\ head' = head
<1> DEFINE t == [q \in Paths |->
                   IF q = ConfigPath THEN tree[head][q] \cup cs
                   ELSE IF q \in ks THEN Whole ELSE tree[head][q]]
<1>1. /\ tree[head] \in Trees /\ tree[head][ConfigPath] # NoFile
      /\ head' = head
  BY DEF Pull, TypeOK
<1>2. t \in Trees
  BY <1>1, TreeContents DEF Trees, Git!Trees, Paths, Contents
<1>3. MoveTo(t) /\ tree' = [tree EXCEPT ![head] = t]
  BY DEF Pull
<1>4. t[ConfigPath] = tree[head][ConfigPath] \cup cs
  BY DEF Paths
<1> HIDE DEF t
<1>5. HeadTree' = t
  BY <1>1, <1>2, <1>3, TreeContents DEF HeadTree, TypeOK
<1>6. QED
  BY <1>1, <1>2, <1>3, <1>4, <1>5

\* A switch moves to the tree of another branch.
LEMMA SwitchTree ==
  ASSUME TypeOK, NEW p \in Procs, NEW c \in Channels, ChannelSwitch(p, c)
  PROVE  /\ tree[c] \in Trees /\ MoveTo(tree[c]) /\ HeadTree' = tree[c]
         /\ tree' = tree /\ head' = c
  BY DEF ChannelSwitch, HeadTree, TypeOK

\* Between commands the index is that of HEAD.
LEMMA IdleIsClean ==
  ASSUME CleanInv, ~interrupted, NEW p \in Procs, pc[p] = "idle"
  PROVE  index = HeadTree
  BY DEF CleanInv, Importing

\* Every step but a commit commits no message.
LEMMA OnlyMessagesPost ==
  ASSUME NEW p \in Procs,
         \/ InitCommand(p) \/ ConfigWrite(p) \/ CommitNothing(p) \/ ChannelCommand(p)
         \/ ImportCommand(p) \/ Interrupt(p)
         \/ \E recipients \in SUBSET Keys : RebuildKeyring(p, recipients)
         \/ \E trust \in TrustLists : EncryptMessage(p, trust) \/ EncryptRefused(p, trust)
         \/ \E ks \in SUBSET Keys, cs \in SUBSET Channels : Pull(p, ks, cs)
  PROVE  commit'.kind # "message"
<1>1. CASE CommitConfig(p) \/ CommitKeys(p)
  BY <1>1 DEF CommitConfig, CommitKeys, CommitIndex
<1>2. CASE ~(CommitConfig(p) \/ CommitKeys(p))
  BY <1>2, QuietSteps DEF NoCommit, ConfigWrite, ImportCommand
<1>3. QED
  BY <1>1, <1>2

\* The steps between which an aside step of a command that goes on can fall.
LEMMA AsideIsClean ==
  ASSUME SingleTerminal, TypeOK, KeyInv, CleanInv, NEW p \in Procs,
         \/ InitCommand(p) \/ WriteConfigOpen(p) \/ WriteConfigData(p)
         \/ CreateCheckoutFails(p) \/ ImportLoopEnds(p)
         \/ \E c \in Channels : CreateParse(p, c) \/ ConfigSetValue(p, c)
         \/ \E asked \in SUBSET Keys : ImportIntoKeyring(p, asked)
         \/ \E k \in Keys : ExportSkip(p, k)
         \/ \E recipients \in SUBSET Keys : RebuildKeyring(p, recipients)
         \/ \E trust \in TrustLists : EncryptMessage(p, trust) \/ EncryptRefused(p, trust)
  PROVE  CleanInv'
<1>1. interrupted' = interrupted
  BY AsideFiles
<1>2. commit'.kind # "message"
  BY OnlyMessagesPost DEF ConfigWrite, ChannelCommand, ImportCommand
<1>3. index' = index /\ HeadTree' = HeadTree
  BY AsideSteps DEF Aside, HeadTree
<1>4. /\ pc[p] # "commit_config"
      /\ \/ pc[p] \notin Importing \/ loc[p].staged = {}
         \/ pc'[p] \in Importing /\ loc'[p].staged # {}
  <2> USE DEF Importing, Kept
  <2>1. CASE InitCommand(p)
    BY <2>1, InitControl DEF InitCommand
  <2>2. CASE WriteConfigOpen(p) \/ WriteConfigData(p) \/ \E c \in Channels : ConfigSetValue(p, c)
    BY <2>2, ConfigControl
  <2>3. CASE CreateCheckoutFails(p) \/ \E c \in Channels : CreateParse(p, c)
    BY <2>3, ChannelControl
  <2>4. CASE ImportLoopEnds(p) \/ (\E asked \in SUBSET Keys : ImportIntoKeyring(p, asked))
             \/ \E k \in Keys : ExportSkip(p, k)
    BY <2>4, ImportControl
  <2>5. CASE \/ \E recipients \in SUBSET Keys : RebuildKeyring(p, recipients)
             \/ \E trust \in TrustLists : EncryptMessage(p, trust) \/ EncryptRefused(p, trust)
    BY <2>5, MessageControl
  <2>6. QED
    BY <2>1, <2>2, <2>3, <2>4, <2>5
<1>5. QED
  BY <1>1, <1>2, <1>3, <1>4, CleanFrame

\* The steps of git: "add", "commit", "checkout -b", "branch -D".
LEMMA GitIsClean ==
  ASSUME SingleTerminal, TypeOK, KeyInv, CleanInv, NEW p \in Procs,
         \/ AddConfig(p) \/ CommitConfig(p) \/ CommitKeys(p) \/ CommitNothing(p)
         \/ CreateCheckout(p) \/ \E c \in Channels : ChannelDelete(p, c)
         \/ \E k \in Keys : AddKey(p, k)
  PROVE  CleanInv'
<1>1. commit'.kind # "message"
  BY OnlyMessagesPost DEF ConfigWrite, ChannelCommand, ImportCommand
<1>2. CASE AddConfig(p)
  BY <1>1, <1>2, ConfigControl, CleanOwner
<1>3. CASE \E k \in Keys : AddKey(p, k)
  <2>1. pc'[p] \in Importing /\ loc'[p].staged # {}
    BY <1>3, ImportControl DEF Importing, Kept
  <2>2. QED
    BY <1>1, <2>1, CleanOwner
<1>4. CASE CommitConfig(p) \/ CommitKeys(p)
  <2>1. PICK kind, keys, staged, open : CommitIndex(kind, keys, staged, open)
    BY <1>4 DEF CommitConfig, CommitKeys
  <2>2. HeadTree' = index'
    BY <2>1, CommitIsClean
  <2>3. QED
    BY <1>1, <2>2, CleanAgain
<1>5. CASE CommitNothing(p)
  <2>1. index' = index /\ HeadTree' = HeadTree /\ index = HeadTree
    BY <1>5 DEF CommitNothing, repo, HeadTree
  <2>2. QED
    BY <1>1, <2>1, CleanAgain
<1>6. CASE CreateCheckout(p) \/ \E c \in Channels : ChannelDelete(p, c)
  <2>1. HeadTree' = HeadTree /\ index' = index
    BY <1>6, BranchKeepsHead
  <2>2. pc[p] # "commit_config" /\ pc[p] \notin Importing
    BY <1>6, ChannelControl DEF Importing
  <2>3. interrupted' = interrupted
    BY <1>6 DEF CreateCheckout, ChannelDelete, Quiet
  <2>4. QED
    BY <1>1, <2>1, <2>2, <2>3, CleanFrame
<1>7. QED
  BY <1>2, <1>3, <1>4, <1>5, <1>6

\* The steps that write a key file leave the index alone.
LEMMA ExportIsClean ==
  ASSUME SingleTerminal, TypeOK, CleanInv, NEW p \in Procs, NEW k \in Keys,
         ExportOpen(p, k) \/ ExportWrite(p, k)
  PROVE  CleanInv'
<1>1. commit'.kind # "message"
  BY OnlyMessagesPost DEF ImportCommand
<1>2. index' = index /\ HeadTree' = HeadTree /\ interrupted' = interrupted
  BY DEF ExportOpen, ExportWrite, repo, Quiet, HeadTree
<1>3. /\ pc[p] # "commit_config"
      /\ pc'[p] \in Importing /\ loc'[p].staged = loc[p].staged
  BY ImportControl DEF Importing, Kept
<1>4. QED
  BY <1>1, <1>2, <1>3, CleanFrame

\* A move of the working tree starts from a clean index and ends in one.
LEMMA MovesAreClean ==
  ASSUME SingleTerminal, TypeOK, CleanInv, NEW p \in Procs,
         \/ \E c \in Channels : ChannelSwitch(p, c)
         \/ \E ks \in SUBSET Keys, cs \in SUBSET Channels : Pull(p, ks, cs)
  PROVE  CleanInv'
<1>1. commit'.kind # "message"
  BY OnlyMessagesPost DEF ChannelCommand
<1>2. pc[p] = "idle"
  BY ChannelControl
<1>3. interrupted' = interrupted
  BY DEF ChannelSwitch, Pull, Quiet
<1>4. CASE interrupted
  BY <1>1, <1>3, <1>4, CleanOwner
<1>5. CASE ~interrupted
  <2>1. index = HeadTree
    BY <1>2, <1>5, IdleIsClean
  <2>2. PICK t \in Trees : MoveTo(t) /\ HeadTree' = t
    BY SwitchTree, PullTree
  <2>3. index' = t
    BY <2>1, <2>2, MoveIsClean
  <2>4. QED
    BY <1>1, <2>2, <2>3, CleanAgain
<1>6. QED
  BY <1>4, <1>5

\* A message is committed with the index of HEAD.
LEMMA MessageIsClean ==
  ASSUME SingleTerminal, TypeOK, CleanInv, NEW p \in Procs, WriteCommit(p)
  PROVE  CleanInv'
<1>1. CommitIndex("message", loc[p].readers, {}, loc[p].open)
  BY DEF WriteCommit
<1>2. index' = HeadTree'
  BY <1>1, CommitIsClean
<1>3. /\ commit'.tree = index /\ commit'.parent = HeadTree
      /\ interrupted' = interrupted /\ pc[p] = "write_commit"
  BY <1>1 DEF CommitIndex, WriteCommit
<1>4. ~interrupted => index = HeadTree
  BY <1>3 DEF CleanInv, Importing
<1>5. QED
  BY <1>2, <1>3, <1>4 DEF CleanInv, MessagesChangeNothing

\* The index is that of HEAD at first.
LEMMA CleanInit == Init => CleanInv
<1> SUFFICES ASSUME Init PROVE CleanInv
  OBVIOUS
<1>1. index = HeadTree
  <2>1. ASSUME NEW S \in SUBSET Keys PROVE CloneTree(S) # NoTree
    <3>1. CloneTree(S) \in Trees
      BY DEF CloneTree, Trees, Git!Trees, Paths, Contents
    <3>2. QED
      BY <3>1, TreeContents
  <2>2. QED
    BY <2>1 DEF Init, HeadTree
<1>2. QED
  BY <1>1 DEF Init, CleanInv, MessagesChangeNothing, NoCommit

\* Every step of a single terminal leaves no index behind that HEAD does not track.
LEMMA CleanStep == SingleTerminal /\ TypeOK /\ KeyInv /\ CleanInv /\ [Next]_vars => CleanInv'
<1> SUFFICES ASSUME SingleTerminal, TypeOK, KeyInv, CleanInv, [Next]_vars PROVE CleanInv'
  OBVIOUS
<1>1. CASE UNCHANGED vars
  BY <1>1 DEF vars, CleanInv, MessagesChangeNothing, HeadTree
<1>2. CASE Next
  <2>1. PICK p \in Procs :
          \/ InitCommand(p) \/ ConfigWrite(p) \/ CommitNothing(p)
          \/ ChannelCommand(p) \/ ImportCommand(p) \/ MessageCommand(p)
          \/ \E ks \in SUBSET Keys, cs \in SUBSET Channels : Pull(p, ks, cs)
          \/ Interrupt(p)
    BY <1>2 DEF Next
  <2>2. CASE InitCommand(p) \/ CommitNothing(p)
    BY <2>2, AsideIsClean, GitIsClean
  <2>3. CASE ConfigWrite(p)
    BY <2>3, AsideIsClean, GitIsClean DEF ConfigWrite
  <2>4. CASE ChannelCommand(p)
    BY <2>4, AsideIsClean, GitIsClean, MovesAreClean DEF ChannelCommand
  <2>5. CASE ImportCommand(p)
    BY <2>5, AsideIsClean, GitIsClean, ExportIsClean DEF ImportCommand
  <2>6. CASE MessageCommand(p)
    BY <2>6, AsideIsClean, MessageIsClean DEF MessageCommand
  <2>7. CASE \E ks \in SUBSET Keys, cs \in SUBSET Channels : Pull(p, ks, cs)
    BY <2>7, MovesAreClean
  <2>8. CASE Interrupt(p)
    <3>1. interrupted' /\ commit'.kind # "message"
      BY <2>8 DEF Interrupt, NoCommit
    <3>2. QED
      BY <3>1, CleanOwner
  <2>9. QED
    BY <2>1, <2>2, <2>3, <2>4, <2>5, <2>6, <2>7, <2>8
<1>3. QED
  BY <1>1, <1>2

\* With one terminal, a message commit changes no file, unless an earlier command
\* was cut short.
THEOREM MessagesLeaveFilesAlone ==
  ASSUME SingleTerminal
  PROVE  Spec => []MessagesChangeNothing
<1>1. TypeOK /\ KeyInv /\ CleanInv /\ [Next]_vars => CleanInv'
  BY CleanStep
<1>2. CleanInv => MessagesChangeNothing
  BY DEF CleanInv, MessagesChangeNothing
<1>3. QED
  BY CleanInit, <1>1, <1>2, TypeCorrectness, KeyInvariance, PTL DEF Spec

-----------------------------------------------------------------------------
(* What the config says.                                                   *)

\* The steps at which each command can be.
CommandAtItsStep ==
  \A p \in Procs :
    /\ loc[p].cmd = "none" => pc[p] \in {"idle", "encrypt", "write_commit"} \cup Importing
    /\ loc[p].cmd = "init" => pc[p] \in {"git_init", "copy_dir", "copy_config", "truncate",
                                         "write", "keys_dir", "add_config", "commit_config"}
    /\ loc[p].cmd = "create" => pc[p] \in {"checkout", "truncate", "write",
                                           "add_config", "commit_config"}
    /\ loc[p].cmd = "config" => pc[p] \in {"truncate", "write"}

\* A command runs in a space, which "init" makes before its config.
InSpace ==
  \A p \in Procs : /\ pc[p] = "copy_dir" => dotGit
                   /\ pc[p] \notin {"idle", "git_init", "copy_dir"} => Inside

\* Tree t has a config with a section for channel c.
Describes(t, c) == t[ConfigPath] # NoFile /\ c \in t[ConfigPath]

\* Every channel is described, but for the one that is being made.
TipsDescribed ==
  \A c \in Channels : tree[c] # NoTree =>
    \/ Describes(tree[c], c)
    \/ \E p \in Procs : loc[p].cmd = "create" /\ pc[p] # "checkout" /\ c = head

\* Outside a space there is nothing.
NothingOutside ==
  ~Inside => /\ \A c \in Channels : tree[c] = NoTree
             /\ head = Master /\ work[ConfigPath] = NoFile

\* "init" describes its channel in the config it makes, and commits that.
InitDescribes(p) ==
  loc[p].cmd = "init" =>
    /\ \A c \in Channels : tree[c] = NoTree
    /\ head = Master
    /\ pc[p] \in {"git_init", "copy_dir", "copy_config"} => work[ConfigPath] = NoFile
    /\ pc[p] \in {"truncate", "write"} => loc[p].conf = {Master}
    /\ pc[p] \in {"keys_dir", "add_config"} => work[ConfigPath] = {Master}
    /\ pc[p] = "commit_config" => index[ConfigPath] = {Master}

\* "channel create" describes the branch it has checked out, and commits that.
CreateDescribes(p) ==
  loc[p].cmd = "create" =>
    /\ loc[p].channel \in loc[p].conf
    /\ pc[p] # "checkout" => head = loc[p].channel
    /\ pc[p] = "add_config" => Describes(work, loc[p].channel)
    /\ pc[p] = "commit_config" => Describes(index, loc[p].channel)

\* In a space HEAD is born once "init" is done, and only a command that is about
\* to commit the config has staged it.
ConfigFollows(p) ==
  /\ Inside /\ loc[p].cmd # "init" => tree[head] # NoTree
  /\ pc[p] # "commit_config" => index[ConfigPath] = HeadTree[ConfigPath]

DescribedInv ==
  ~interrupted =>
    /\ TipsDescribed /\ NothingOutside
    /\ \A p \in Procs : InitDescribes(p) /\ CreateDescribes(p) /\ ConfigFollows(p)

\* Every step leaves its command at one of its steps.
LEMMA CommandStep == SingleTerminal /\ TypeOK /\ CommandAtItsStep /\ [Next]_vars => CommandAtItsStep'
<1> SUFFICES ASSUME SingleTerminal, TypeOK, CommandAtItsStep, [Next]_vars
             PROVE  CommandAtItsStep'
  OBVIOUS
<1>1. CASE UNCHANGED vars
  BY <1>1 DEF vars, CommandAtItsStep
<1>2. CASE Next
  <2>1. PICK p \in Procs :
          \/ InitCommand(p) \/ ConfigWrite(p) \/ CommitNothing(p)
          \/ ChannelCommand(p) \/ ImportCommand(p) \/ MessageCommand(p)
          \/ \E ks \in SUBSET Keys, cs \in SUBSET Channels : Pull(p, ks, cs)
          \/ Interrupt(p)
    BY <1>2 DEF Next
  <2>3. loc[p].cmd \in {"none", "init", "create", "config"}
    BY DEF TypeOK, Locals
  <2>4. Kept(Blank) = <<"none", Master, {}, {}>>
    BY StartFields
  <2> DEFINE AtItsStep ==
               /\ loc'[p].cmd = "none" => pc'[p] \in {"idle", "encrypt", "write_commit"} \cup Importing
               /\ loc'[p].cmd = "init" =>
                    pc'[p] \in {"git_init", "copy_dir", "copy_config", "truncate",
                                "write", "keys_dir", "add_config", "commit_config"}
               /\ loc'[p].cmd = "create" => pc'[p] \in {"checkout", "truncate", "write",
                                                       "add_config", "commit_config"}
               /\ loc'[p].cmd = "config" => pc'[p] \in {"truncate", "write"}
  <2>2. SUFFICES AtItsStep
    BY DEF SingleTerminal, CommandAtItsStep
  <2> USE DEF CommandAtItsStep, Importing, Kept
  <2>5. CASE InitCommand(p)
    BY <2>3, <2>4, <2>5, InitControl DEF InitCommand
  <2>6. CASE ConfigWrite(p) \/ CommitNothing(p)
    BY <2>3, <2>4, <2>6, ConfigControl DEF ConfigWrite
  <2>7. CASE ChannelCommand(p) \/ Interrupt(p)
             \/ \E ks \in SUBSET Keys, cs \in SUBSET Channels : Pull(p, ks, cs)
    BY <2>3, <2>4, <2>7, ChannelControl, ConfigControl DEF ChannelCommand
  <2>8. CASE ImportCommand(p)
    BY <2>3, <2>4, <2>8, ImportControl DEF ImportCommand
  <2>9. CASE MessageCommand(p)
    BY <2>3, <2>4, <2>9, MessageControl DEF MessageCommand
  <2>10. QED
    BY <2>1, <2>5, <2>6, <2>7, <2>8, <2>9
<1>3. QED
  BY <1>1, <1>2

\* Nothing removes the directories of a space, or makes up for a command that was
\* cut short.
LEMMA SpaceStays ==
  ASSUME NEW p \in Procs,
         \/ InitCommand(p) \/ ConfigWrite(p) \/ CommitNothing(p)
         \/ ChannelCommand(p) \/ ImportCommand(p) \/ MessageCommand(p)
         \/ \E ks \in SUBSET Keys, cs \in SUBSET Channels : Pull(p, ks, cs)
         \/ Interrupt(p)
  PROVE  (dotGit => dotGit') /\ (dotChat => dotChat') /\ (interrupted => interrupted')
<1> USE DEF repo, files, Quiet
<1>1. CASE InitCommand(p)
  BY <1>1 DEF InitCommand, InitCheck, InitGit, InitCopyDir, InitCopyConfig,
              InitCopyFails, InitKeysDir
<1>2. CASE ConfigWrite(p) \/ CommitNothing(p) \/ Interrupt(p)
  BY <1>2 DEF ConfigWrite, WriteConfigOpen, WriteConfigData, AddConfig, CommitConfig,
              CommitIndex, CommitNothing, Interrupt
<1>3. ASSUME NEW c \in Channels,
             \/ CreateParse(p, c) \/ ChannelSwitch(p, c)
             \/ ChannelDelete(p, c) \/ ConfigSetValue(p, c)
      PROVE  dotGit' = dotGit /\ dotChat' = dotChat /\ interrupted' = interrupted
  BY <1>3 DEF CreateParse, ChannelSwitch, ChannelDelete, ConfigSetValue
<1>4. CASE ChannelCommand(p)
  BY <1>3, <1>4 DEF ChannelCommand, CreateCheckout, CreateCheckoutFails
<1>5. ASSUME NEW asked \in SUBSET Keys, ImportIntoKeyring(p, asked)
      PROVE  dotGit' = dotGit /\ dotChat' = dotChat /\ interrupted' = interrupted
  BY <1>5 DEF ImportIntoKeyring
<1>6. ASSUME NEW k \in Keys,
             ExportOpen(p, k) \/ ExportSkip(p, k) \/ ExportWrite(p, k) \/ AddKey(p, k)
      PROVE  dotGit' = dotGit /\ dotChat' = dotChat /\ interrupted' = interrupted
  BY <1>6 DEF ExportOpen, ExportSkip, ExportWrite, AddKey
<1>7. CASE ImportCommand(p)
  BY <1>5, <1>6, <1>7 DEF ImportCommand, ImportLoopEnds, CommitKeys, CommitIndex
<1>8. ASSUME NEW recipients \in SUBSET Keys, RebuildKeyring(p, recipients)
      PROVE  dotGit' = dotGit /\ dotChat' = dotChat /\ interrupted' = interrupted
  BY <1>8 DEF RebuildKeyring
<1>9. ASSUME NEW trust \in TrustLists, EncryptMessage(p, trust) \/ EncryptRefused(p, trust)
      PROVE  dotGit' = dotGit /\ dotChat' = dotChat /\ interrupted' = interrupted
  BY <1>9 DEF EncryptMessage, EncryptRefused
<1>10. CASE MessageCommand(p)
  BY <1>8, <1>9, <1>10 DEF MessageCommand, WriteCommit, CommitIndex
<1>11. ASSUME NEW ks \in SUBSET Keys, NEW cs \in SUBSET Channels, Pull(p, ks, cs)
       PROVE  dotGit' = dotGit /\ dotChat' = dotChat /\ interrupted' = interrupted
  BY <1>11 DEF Pull
<1>12. QED
  BY <1>1, <1>2, <1>4, <1>7, <1>10, <1>11

\* Every command but "init" starts in a space.
LEMMA InSpaceStep == SingleTerminal /\ TypeOK /\ InSpace /\ [Next]_vars => InSpace'
<1> SUFFICES ASSUME SingleTerminal, TypeOK, InSpace, [Next]_vars PROVE InSpace'
  OBVIOUS
<1>1. CASE UNCHANGED vars
  BY <1>1 DEF vars, InSpace, Inside
<1>2. CASE Next
  <2>1. PICK p \in Procs :
          \/ InitCommand(p) \/ ConfigWrite(p) \/ CommitNothing(p)
          \/ ChannelCommand(p) \/ ImportCommand(p) \/ MessageCommand(p)
          \/ \E ks \in SUBSET Keys, cs \in SUBSET Channels : Pull(p, ks, cs)
          \/ Interrupt(p)
    BY <1>2 DEF Next
  <2>2. (dotGit => dotGit') /\ (dotChat => dotChat')
    BY <2>1, SpaceStays
  <2> DEFINE Within == /\ pc'[p] = "copy_dir" => dotGit'
                       /\ pc'[p] \notin {"idle", "git_init", "copy_dir"} => dotGit' /\ dotChat'
  <2>3. SUFFICES Within
    BY DEF SingleTerminal, InSpace, Inside
  <2>4. /\ pc[p] = "copy_dir" => dotGit
        /\ pc[p] \notin {"idle", "git_init", "copy_dir"} => dotGit /\ dotChat
    <3>1. /\ pc[p] = "copy_dir" => dotGit
          /\ pc[p] \notin {"idle", "git_init", "copy_dir"} => Inside
      BY DEF InSpace
    <3>2. Inside => dotGit /\ dotChat
      BY DEF Inside
    <3>3. QED
      BY <3>1, <3>2
  <2>5. CASE InitCommand(p)
    <3>1. InitGit(p) => dotGit'
      BY DEF InitGit
    <3>2. InitCopyDir(p) => dotChat'
      BY DEF InitCopyDir
    <3>3. QED
      BY <2>2, <2>4, <2>5, <3>1, <3>2, InitControl DEF InitCommand
  <2>6. CASE ConfigWrite(p) \/ CommitNothing(p)
    BY <2>2, <2>4, <2>6, ConfigControl DEF ConfigWrite
  <2>7. CASE ChannelCommand(p) \/ Interrupt(p)
             \/ \E ks \in SUBSET Keys, cs \in SUBSET Channels : Pull(p, ks, cs)
    <3>1. \A c \in Channels : CreateParse(p, c) \/ ConfigSetValue(p, c) => dotGit /\ dotChat
      BY DEF CreateParse, ConfigSetValue, Starts, Inside
    <3>2. QED
      BY <2>2, <2>4, <2>7, <3>1, ChannelControl, ConfigControl DEF ChannelCommand
  <2>8. CASE ImportCommand(p)
    <3>1. \A asked \in SUBSET Keys : ImportIntoKeyring(p, asked) => dotGit /\ dotChat
      BY DEF ImportIntoKeyring, Starts, Inside
    <3>2. QED
      BY <2>2, <2>4, <2>8, <3>1, ImportControl DEF ImportCommand
  <2>9. CASE MessageCommand(p)
    <3>1. \A recipients \in SUBSET Keys : RebuildKeyring(p, recipients) => dotGit /\ dotChat
      BY DEF RebuildKeyring, Starts, Inside
    <3>2. QED
      BY <2>2, <2>4, <2>9, <3>1, MessageControl DEF MessageCommand
  <2>10. QED
    BY <2>1, <2>5, <2>6, <2>7, <2>8, <2>9
<1>3. QED
  BY <1>1, <1>2

\* With one terminal, what holds of its command holds of all.
LEMMA DescribedByOne ==
  ASSUME SingleTerminal, NEW p \in Procs, TipsDescribed', NothingOutside',
         InitDescribes(p)', CreateDescribes(p)', ConfigFollows(p)'
  PROVE  DescribedInv'
<1>1. \A q \in Procs : q = p
  BY DEF SingleTerminal
<1>2. \A q \in Procs : InitDescribes(q)' /\ CreateDescribes(q)' /\ ConfigFollows(q)'
  BY <1>1
<1>3. QED
  BY <1>2 DEF DescribedInv

\* The steps of "init" go from an empty directory to a config with its channel.
LEMMA InitKeepsDescribed ==
  ASSUME SingleTerminal, TypeOK, CommandAtItsStep, InSpace, DescribedInv, ~interrupted,
         NEW p \in Procs, InitCommand(p)
  PROVE  DescribedInv'
<1> USE DEF Kept
<1>1. TipsDescribed /\ NothingOutside /\ InitDescribes(p) /\ CreateDescribes(p) /\ ConfigFollows(p)
  BY DEF DescribedInv
<1>2. UNCHANGED <<tree, head, index>> /\ HeadTree' = HeadTree
  BY DEF InitCommand, InitCheck, InitGit, InitCopyDir, InitCopyConfig, InitCopyFails,
         InitKeysDir, repo, HeadTree
<1>3. loc[p].cmd \in {"none", "init", "create", "config"} /\ Kept(Blank) = <<"none", Master, {}, {}>>
  BY StartFields DEF TypeOK, Locals
<1>4. ConfigPath \in Paths /\ work \in [Paths -> Contents]
  BY DEF TypeOK, Trees, Git!Trees, Paths
<1>5. CASE InitCheck(p)
  <2>1. ~Inside /\ UNCHANGED <<dotGit, dotChat, work>> /\ pc'[p] = "git_init" /\ loc'[p].cmd = "init"
        /\ pc[p] = "idle"
    BY <1>5, InitControl DEF InitCheck, repo, files
  <2>2. \A c \in Channels : tree'[c] = NoTree
    BY <1>1, <1>2, <2>1 DEF NothingOutside
  <2>3. TipsDescribed' /\ NothingOutside'
    BY <1>1, <1>2, <2>1, <2>2 DEF TipsDescribed, NothingOutside, Inside
  <2>4. InitDescribes(p)' /\ CreateDescribes(p)'
    BY <1>1, <1>2, <2>1, <2>2 DEF InitDescribes, CreateDescribes, NothingOutside
  <2>5. ConfigFollows(p)'
    BY <1>1, <1>2, <2>1 DEF ConfigFollows
  <2>6. QED
    BY <2>3, <2>4, <2>5, DescribedByOne
<1>6. CASE InitGit(p) \/ InitCopyDir(p) \/ InitKeysDir(p)
  <2>1. /\ work' = work /\ loc'[p].cmd = loc[p].cmd /\ loc'[p].conf = loc[p].conf
        /\ \/ pc[p] = "git_init" /\ pc'[p] = "copy_dir"
           \/ pc[p] = "copy_dir" /\ pc'[p] = "copy_config"
           \/ pc[p] = "keys_dir" /\ pc'[p] = "add_config"
    BY <1>6, InitControl DEF InitGit, InitCopyDir, InitKeysDir, files
  <2>2. loc[p].cmd = "init"
    BY <1>3, <2>1 DEF CommandAtItsStep, Importing
  <2>3. \A c \in Channels : tree'[c] = NoTree
    BY <1>1, <1>2, <2>2 DEF InitDescribes
  <2>4. ~Inside' => ~Inside
    BY <1>6 DEF InitGit, InitCopyDir, InitKeysDir, repo, files, Inside
  <2>5. TipsDescribed' /\ NothingOutside'
    BY <1>1, <1>2, <2>1, <2>3, <2>4 DEF TipsDescribed, NothingOutside
  <2>6. InitDescribes(p)' /\ CreateDescribes(p)'
    BY <1>1, <1>2, <2>1, <2>2, <2>3 DEF InitDescribes, CreateDescribes
  <2>7. ConfigFollows(p)'
    BY <1>1, <1>2, <2>1, <2>2 DEF ConfigFollows
  <2>8. QED
    BY <2>5, <2>6, <2>7, DescribedByOne
<1>7. CASE InitCopyConfig(p)
  <2>1. /\ UNCHANGED <<dotGit, dotChat>> /\ work'[ConfigPath] = {Master}
        /\ pc[p] = "copy_config" /\ pc'[p] = "truncate"
        /\ loc'[p].cmd = loc[p].cmd /\ loc'[p].conf = {Master}
    BY <1>4, <1>7, InitControl DEF InitCopyConfig, repo
  <2>2. loc[p].cmd = "init"
    BY <1>3, <2>1 DEF CommandAtItsStep, Importing
  <2>3. \A c \in Channels : tree'[c] = NoTree
    BY <1>1, <1>2, <2>2 DEF InitDescribes
  <2>4. Inside
    BY <2>1 DEF InSpace
  <2>5. TipsDescribed' /\ NothingOutside'
    BY <1>1, <1>2, <2>1, <2>3, <2>4 DEF TipsDescribed, NothingOutside, Inside
  <2>6. InitDescribes(p)' /\ CreateDescribes(p)'
    BY <1>1, <1>2, <2>1, <2>2, <2>3 DEF InitDescribes, CreateDescribes
  <2>7. ConfigFollows(p)'
    BY <1>1, <1>2, <2>1, <2>2 DEF ConfigFollows
  <2>8. QED
    BY <2>5, <2>6, <2>7, DescribedByOne
<1>8. CASE InitCopyFails(p)
  <2>1. pc[p] = "copy_config" /\ work[ConfigPath] # NoFile
    BY <1>8 DEF InitCopyFails
  <2>2. loc[p].cmd = "init"
    BY <1>3, <2>1 DEF CommandAtItsStep, Importing
  <2>3. QED
    BY <1>1, <2>1, <2>2 DEF InitDescribes
<1>9. QED
  BY <1>5, <1>6, <1>7, <1>8 DEF InitCommand

\* The steps that write and stage the config file.
LEMMA ConfigKeepsDescribed ==
  ASSUME SingleTerminal, TypeOK, CommandAtItsStep, InSpace, DescribedInv, ~interrupted,
         NEW p \in Procs, WriteConfigOpen(p) \/ WriteConfigData(p) \/ AddConfig(p)
  PROVE  DescribedInv'
<1> USE DEF Kept
<1>1. TipsDescribed /\ NothingOutside /\ InitDescribes(p) /\ CreateDescribes(p) /\ ConfigFollows(p)
  BY DEF DescribedInv
<1>2. UNCHANGED <<dotGit, dotChat, tree, head>> /\ HeadTree' = HeadTree
  BY DEF WriteConfigOpen, WriteConfigData, AddConfig, repo, files, HeadTree
<1>3. pc[p] \in {"truncate", "write", "add_config"}
  BY ConfigControl
<1>4. Inside /\ Inside'
  BY <1>2, <1>3 DEF InSpace, Inside
<1>5. NothingOutside'
  BY <1>4 DEF NothingOutside
<1>6. loc[p].cmd \in {"init", "create", "config"} /\ Kept(Blank) = <<"none", Master, {}, {}>>
  BY <1>3, StartFields DEF TypeOK, Locals, CommandAtItsStep, Importing
<1>7. /\ ConfigPath \in Paths /\ work \in [Paths -> Contents] /\ index \in [Paths -> Contents]
      /\ loc[p].conf # NoFile
  BY DEF TypeOK, Trees, Git!Trees, Paths, Locals
<1>8. loc[p].cmd = "create" => loc'[p].cmd = "create" /\ pc'[p] # "checkout"
  BY <1>3, <1>6, ConfigControl
<1>9. TipsDescribed'
  <2> SUFFICES ASSUME NEW c \in Channels, tree[c] # NoTree, ~Describes(tree[c], c)
               PROVE  loc'[p].cmd = "create" /\ pc'[p] # "checkout" /\ c = head
    BY <1>2 DEF TipsDescribed
  <2>1. loc[p].cmd = "create" /\ pc[p] # "checkout" /\ c = head
    BY <1>1 DEF TipsDescribed, SingleTerminal
  <2>2. QED
    BY <1>8, <2>1
<1>10. CASE WriteConfigOpen(p)
  <2>1. /\ index' = index /\ pc[p] = "truncate" /\ pc'[p] = "write"
        /\ loc'[p].cmd = loc[p].cmd /\ loc'[p].channel = loc[p].channel
        /\ loc'[p].conf = loc[p].conf
    BY <1>10, ConfigControl DEF WriteConfigOpen, repo
  <2>2. InitDescribes(p)' /\ CreateDescribes(p)' /\ ConfigFollows(p)'
    BY <1>1, <1>2, <1>4, <2>1 DEF InitDescribes, CreateDescribes, ConfigFollows
  <2>3. QED
    BY <1>5, <1>9, <2>2, DescribedByOne
<1>11. CASE WriteConfigData(p)
  <2>1. index' = index /\ work'[ConfigPath] = loc[p].conf
    BY <1>7, <1>11 DEF WriteConfigData, repo
  <2>2. /\ pc[p] = "write"
        /\ \/ /\ loc[p].cmd = "init" /\ pc'[p] = "keys_dir" /\ loc'[p].cmd = "init"
           \/ /\ loc[p].cmd = "create" /\ pc'[p] = "add_config" /\ loc'[p].cmd = "create"
              /\ loc'[p].channel = loc[p].channel /\ loc'[p].conf = loc[p].conf
           \/ /\ loc[p].cmd = "config" /\ pc'[p] = "idle" /\ loc'[p].cmd = "none"
    BY <1>6, <1>11, ConfigControl
  <2>3. InitDescribes(p)'
    BY <1>1, <1>2, <2>1, <2>2 DEF InitDescribes
  <2>4. CreateDescribes(p)'
    BY <1>1, <1>2, <1>7, <2>1, <2>2 DEF CreateDescribes, Describes
  <2>5. ConfigFollows(p)'
    BY <1>1, <1>2, <1>4, <2>1, <2>2 DEF ConfigFollows
  <2>6. QED
    BY <1>5, <1>9, <2>3, <2>4, <2>5, DescribedByOne
<1>12. CASE AddConfig(p)
  <2>1. work' = work /\ index'[ConfigPath] = work[ConfigPath]
    BY <1>7, <1>12 DEF AddConfig, Git!Added, files
  <2>2. /\ pc[p] = "add_config" /\ pc'[p] = "commit_config"
        /\ loc'[p].cmd = loc[p].cmd /\ loc'[p].channel = loc[p].channel
        /\ loc'[p].conf = loc[p].conf
    BY <1>12, ConfigControl
  <2>3. InitDescribes(p)'
    BY <1>1, <1>2, <2>1, <2>2 DEF InitDescribes
  <2>4. CreateDescribes(p)'
    BY <1>1, <1>2, <2>1, <2>2 DEF CreateDescribes, Describes
  <2>5. ConfigFollows(p)'
    BY <1>1, <1>2, <1>4, <2>2 DEF ConfigFollows
  <2>6. QED
    BY <1>5, <1>9, <2>3, <2>4, <2>5, DescribedByOne
<1>13. QED
  BY <1>10, <1>11, <1>12

\* A tip that was described, or that has just been committed with its section.
LEMMA CommitDescribes ==
  ASSUME SingleTerminal, TypeOK, DescribedInv, ~interrupted, NEW p \in Procs,
         NEW kind, NEW keys, NEW staged, NEW open, CommitIndex(kind, keys, staged, open),
         Inside, Inside', loc'[p].cmd = "none", Describes(index, head)
  PROVE  DescribedInv'
<1>1. TipsDescribed /\ InitDescribes(p) /\ CreateDescribes(p) /\ ConfigFollows(p)
  BY DEF DescribedInv
<1>2. head' = head /\ index' = index /\ index # NoTree /\ tree' = [tree EXCEPT ![head] = index]
  BY TreeContents DEF CommitIndex, TypeOK
<1>3. HeadTree' = index
  BY CommitIsClean
<1>4. TipsDescribed'
  <2> SUFFICES ASSUME NEW c \in Channels, tree'[c] # NoTree PROVE Describes(tree'[c], c)
    BY DEF TipsDescribed
  <2>1. CASE c = head
    BY <1>2, <2>1 DEF TypeOK
  <2>2. CASE c # head
    <3>1. tree'[c] = tree[c]
      BY <1>2, <2>2 DEF TypeOK
    <3>2. QED
      BY <1>1, <2>2, <3>1 DEF TipsDescribed
  <2>3. QED
    BY <2>1, <2>2
<1>5. InitDescribes(p)' /\ CreateDescribes(p)'
  BY DEF InitDescribes, CreateDescribes
<1>6. ConfigFollows(p)'
  BY <1>2, <1>3 DEF ConfigFollows, TypeOK
<1>7. QED
  BY <1>4, <1>5, <1>6, DescribedByOne DEF NothingOutside

\* A step of a command that makes no channel, which leaves the config alone.
LEMMA DescribedFrame ==
  ASSUME SingleTerminal, TypeOK, CommandAtItsStep, DescribedInv, ~interrupted,
         NEW p \in Procs, UNCHANGED <<tree, head>>, HeadTree' = HeadTree,
         index'[ConfigPath] = index[ConfigPath], Inside, Inside',
         loc[p].cmd = "none", loc'[p].cmd = "none"
  PROVE  DescribedInv'
<1>1. TipsDescribed /\ ConfigFollows(p) /\ pc[p] # "commit_config"
  BY DEF DescribedInv, CommandAtItsStep, Importing
<1>2. TipsDescribed'
  BY <1>1 DEF TipsDescribed, SingleTerminal
<1>3. InitDescribes(p)' /\ CreateDescribes(p)'
  BY DEF InitDescribes, CreateDescribes
<1>4. ConfigFollows(p)'
  BY <1>1 DEF ConfigFollows
<1>5. QED
  BY <1>2, <1>3, <1>4, DescribedByOne DEF NothingOutside

\* The commits of the config, of an import and of a message.
LEMMA CommitKeepsDescribed ==
  ASSUME SingleTerminal, TypeOK, CommandAtItsStep, InSpace, DescribedInv, ~interrupted,
         NEW p \in Procs, CommitConfig(p) \/ CommitKeys(p) \/ WriteCommit(p)
  PROVE  DescribedInv'
<1> USE DEF Kept
<1>1. TipsDescribed /\ InitDescribes(p) /\ CreateDescribes(p) /\ ConfigFollows(p)
  BY DEF DescribedInv
<1>2. PICK kind, keys, staged, open : CommitIndex(kind, keys, staged, open)
  BY DEF CommitConfig, CommitKeys, WriteCommit
<1>3. pc[p] \in {"commit_config", "commit_keys", "write_commit"} /\ loc'[p].cmd = "none"
  BY ConfigControl, ImportControl, MessageControl, StartFields
<1>4. Inside
  BY <1>3 DEF InSpace
<1>5. Inside'
  BY <1>4 DEF CommitConfig, CommitKeys, WriteCommit, CommitIndex, files, Inside
<1>6. loc[p].cmd \in {"none", "init", "create", "config"}
  BY DEF TypeOK, Locals
<1>7. Describes(index, head)
  <2>1. CASE pc[p] = "commit_config"
    <3>1. loc[p].cmd \in {"init", "create"}
      BY <1>6, <2>1 DEF CommandAtItsStep, Importing
    <3>2. QED
      BY <1>1, <2>1, <3>1 DEF InitDescribes, CreateDescribes, Describes
  <2>2. CASE pc[p] # "commit_config"
    <3>1. loc[p].cmd = "none"
      BY <1>3, <1>6, <2>2 DEF CommandAtItsStep
    <3>2. tree[head] # NoTree /\ index[ConfigPath] = HeadTree[ConfigPath]
      BY <1>1, <1>4, <2>2, <3>1 DEF ConfigFollows
    <3>3. Describes(tree[head], head)
      BY <1>1, <3>1, <3>2 DEF TipsDescribed, SingleTerminal, TypeOK
    <3>4. QED
      BY <3>2, <3>3 DEF HeadTree, Describes
  <2>3. QED
    BY <2>1, <2>2
<1>8. QED
  BY <1>2, <1>3, <1>4, <1>5, <1>7, CommitDescribes

\* A commit that git refuses leaves HEAD with the config that was staged.
LEMMA NothingKeepsDescribed ==
  ASSUME SingleTerminal, TypeOK, CommandAtItsStep, InSpace, DescribedInv, ~interrupted,
         NEW p \in Procs, CommitNothing(p)
  PROVE  DescribedInv'
<1> USE DEF Kept
<1>1. TipsDescribed /\ InitDescribes(p) /\ CreateDescribes(p) /\ ConfigFollows(p)
  BY DEF DescribedInv
<1>2. UNCHANGED <<dotGit, dotChat, tree, head, index>> /\ HeadTree' = HeadTree /\ index = HeadTree
  BY DEF CommitNothing, repo, files, HeadTree
<1>3. pc[p] \in {"commit_config", "commit_keys"} /\ loc'[p].cmd = "none"
  BY ConfigControl, StartFields
<1>4. Inside /\ Inside'
  BY <1>2, <1>3 DEF InSpace, Inside
<1>5. loc[p].cmd \in {"none", "init", "create", "config"}
  BY DEF TypeOK, Locals
<1>6. CASE pc[p] = "commit_keys"
  <2>1. loc[p].cmd = "none"
    BY <1>5, <1>6 DEF CommandAtItsStep
  <2>2. QED
    BY <1>2, <1>3, <1>4, <2>1, DescribedFrame
<1>7. CASE pc[p] = "commit_config"
  <2>1. loc[p].cmd \in {"init", "create"}
    BY <1>5, <1>7 DEF CommandAtItsStep, Importing
  <2>2. loc[p].cmd # "init"
    <3> SUFFICES ASSUME loc[p].cmd = "init" PROVE FALSE
      OBVIOUS
    <3>1. index[ConfigPath] = {Master} /\ tree[head] = NoTree
      BY <1>1, <1>7 DEF InitDescribes, TypeOK
    <3>2. HeadTree[ConfigPath] = NoFile
      BY <3>1 DEF HeadTree, Git!EmptyTree, Paths
    <3>3. {Master} # NoFile
      OBVIOUS
    <3>4. QED
      BY <1>2, <3>1, <3>2, <3>3
  <2>3. Describes(index, head)
    BY <1>1, <1>7, <2>1, <2>2 DEF CreateDescribes
  <2>4. tree[head] # NoTree
    BY <1>1, <1>4, <2>2 DEF ConfigFollows
  <2>5. TipsDescribed'
    <3> SUFFICES ASSUME NEW c \in Channels, tree[c] # NoTree PROVE Describes(tree[c], c)
      BY <1>2 DEF TipsDescribed
    <3>1. CASE c = head
      BY <1>2, <2>3, <2>4, <3>1 DEF HeadTree
    <3>2. CASE c # head
      BY <1>1, <3>2 DEF TipsDescribed
    <3>3. QED
      BY <3>1, <3>2
  <2>6. InitDescribes(p)' /\ CreateDescribes(p)'
    BY <1>3 DEF InitDescribes, CreateDescribes
  <2>7. ConfigFollows(p)'
    BY <1>2, <2>4 DEF ConfigFollows
  <2>8. QED
    BY <1>4, <2>5, <2>6, <2>7, DescribedByOne DEF NothingOutside
<1>8. QED
  BY <1>3, <1>6, <1>7

\* The steps that make and delete branches, and those that edit the config.
LEMMA ChannelKeepsDescribed ==
  ASSUME SingleTerminal, TypeOK, CommandAtItsStep, InSpace, DescribedInv, ~interrupted,
         NEW p \in Procs,
         \/ CreateCheckout(p) \/ CreateCheckoutFails(p)
         \/ \E c \in Channels : CreateParse(p, c) \/ ChannelDelete(p, c) \/ ConfigSetValue(p, c)
  PROVE  DescribedInv'
<1> USE DEF Kept
<1>1. TipsDescribed /\ CreateDescribes(p) /\ ConfigFollows(p)
  BY DEF DescribedInv
<1>2. UNCHANGED <<dotGit, dotChat, index>>
  BY Zenon DEF CreateCheckout, CreateCheckoutFails, CreateParse, ChannelDelete, ConfigSetValue,
         repo, files
<1>3. pc[p] \in {"idle", "checkout"}
  BY ChannelControl, ConfigControl
<1>4. Inside
  BY <1>3 DEF InSpace, CreateParse, ChannelDelete, ConfigSetValue, CreateCheckout,
              CreateCheckoutFails, Starts, Step
<1>5. Inside'
  BY <1>2, <1>4 DEF Inside
<1>6. loc[p].cmd \in {"none", "init", "create", "config"}
  BY DEF TypeOK, Locals
<1>7. loc[p].cmd # "init" /\ tree[head] # NoTree /\ index[ConfigPath] = HeadTree[ConfigPath]
  BY <1>1, <1>3, <1>4 DEF CommandAtItsStep, ConfigFollows
<1>8. \A c \in Channels : tree[c] # NoTree => Describes(tree[c], c)
  BY <1>1, <1>3 DEF TipsDescribed, SingleTerminal, CommandAtItsStep
<1>9. CASE CreateCheckoutFails(p) \/ \E c \in Channels : CreateParse(p, c) \/ ConfigSetValue(p, c)
  <2>1. UNCHANGED <<tree, head>> /\ HeadTree' = HeadTree
    BY <1>9, Zenon DEF CreateCheckoutFails, CreateParse, ConfigSetValue, repo, HeadTree
  <2>2. \/ loc'[p].cmd \in {"none", "config"}
        \/ loc'[p].cmd = "create" /\ pc'[p] = "checkout" /\ loc'[p].channel \in loc'[p].conf
    <3>1. CASE CreateCheckoutFails(p)
      BY <3>1, ChannelControl, StartFields
    <3>2. ASSUME NEW c \in Channels, CreateParse(p, c)
          PROVE  loc'[p].cmd = "create" /\ pc'[p] = "checkout" /\ loc'[p].channel \in loc'[p].conf
      BY <3>2, ChannelControl
    <3>3. ASSUME NEW c \in Channels, ConfigSetValue(p, c)
          PROVE  loc'[p].cmd = "config"
      <4>1. PICK conf : Kept(loc'[p]) = <<"config", Master, conf, {}>>
        BY <3>3, ConfigControl
      <4>2. QED
        BY <4>1
    <3>4. QED
      BY <1>9, <3>1, <3>2, <3>3
  <2>3. TipsDescribed'
    BY <1>8, <2>1 DEF TipsDescribed
  <2>4. InitDescribes(p)' /\ CreateDescribes(p)'
    BY <2>2 DEF InitDescribes, CreateDescribes
  <2>5. ConfigFollows(p)'
    BY <1>2, <1>7, <2>1 DEF ConfigFollows
  <2>6. QED
    BY <1>5, <2>3, <2>4, <2>5, DescribedByOne DEF NothingOutside
<1>10. ASSUME NEW c \in Channels, ChannelDelete(p, c)
       PROVE  DescribedInv'
  <2>1. c # head /\ head' = head /\ HeadTree' = HeadTree /\ tree' = [tree EXCEPT ![c] = NoTree]
    BY <1>10, BranchKeepsHead DEF ChannelDelete
  <2>2. pc[p] = "idle" /\ UNCHANGED <<pc, loc>> /\ loc[p].cmd = "none"
    BY <1>6, <1>10, ChannelControl DEF CommandAtItsStep
  <2>3. \A d \in Channels : tree'[d] # NoTree => tree'[d] = tree[d]
    BY <2>1 DEF TypeOK
  <2>4. TipsDescribed'
    BY <1>8, <2>3 DEF TipsDescribed
  <2>5. InitDescribes(p)' /\ CreateDescribes(p)'
    BY <2>2 DEF InitDescribes, CreateDescribes
  <2>6. tree'[head'] # NoTree
    BY <1>7, <2>1 DEF TypeOK
  <2>7. ConfigFollows(p)'
    BY <1>2, <1>7, <2>1, <2>6 DEF ConfigFollows
  <2>8. QED
    BY <1>5, <2>4, <2>5, <2>7, DescribedByOne DEF NothingOutside
<1>11. CASE CreateCheckout(p)
  <2>1. loc[p].channel \in Channels
    BY DEF TypeOK, Locals
  <2>2. /\ tree' = [tree EXCEPT ![loc[p].channel] = tree[head]]
        /\ head' = loc[p].channel /\ HeadTree' = HeadTree
    BY <1>11, BranchKeepsHead DEF CreateCheckout
  <2>3. /\ pc[p] = "checkout" /\ pc'[p] = "truncate"
        /\ loc'[p].cmd = loc[p].cmd /\ loc'[p].channel = loc[p].channel
        /\ loc'[p].conf = loc[p].conf
    BY <1>11, ChannelControl
  <2>4. loc[p].cmd = "create"
    BY <1>6, <2>3 DEF CommandAtItsStep, Importing
  <2>5. TipsDescribed'
    <3> SUFFICES ASSUME NEW c \in Channels, tree'[c] # NoTree, c # head'
                 PROVE  Describes(tree'[c], c)
      BY <2>3, <2>4 DEF TipsDescribed
    <3>1. tree'[c] = tree[c]
      BY <2>1, <2>2 DEF TypeOK
    <3>2. QED
      BY <1>8, <3>1
  <2>6. InitDescribes(p)' /\ CreateDescribes(p)'
    BY <1>1, <2>2, <2>3, <2>4 DEF InitDescribes, CreateDescribes
  <2>7. tree'[head'] # NoTree
    BY <1>7, <2>1, <2>2 DEF TypeOK
  <2>8. ConfigFollows(p)'
    BY <1>2, <1>7, <2>2, <2>7 DEF ConfigFollows
  <2>9. QED
    BY <1>5, <2>5, <2>6, <2>8, DescribedByOne DEF NothingOutside
<1>12. QED
  BY <1>9, <1>10, <1>11

\* The moves of the working tree take the config of the branch they move to.
LEMMA MovesKeepDescribed ==
  ASSUME SingleTerminal, TypeOK, CommandAtItsStep, InSpace, DescribedInv, ~interrupted,
         NEW p \in Procs,
         \/ \E c \in Channels : ChannelSwitch(p, c)
         \/ \E ks \in SUBSET Keys, cs \in SUBSET Channels : Pull(p, ks, cs)
  PROVE  DescribedInv'
<1>1. pc[p] = "idle" /\ UNCHANGED <<pc, loc>>
  BY ChannelControl
<1>2. Inside /\ Inside'
  <2>1. ASSUME NEW c \in Channels, ChannelSwitch(p, c)
        PROVE  Inside /\ dotGit' = dotGit /\ dotChat' = dotChat
    BY <2>1 DEF ChannelSwitch, Starts
  <2>2. ASSUME NEW ks \in SUBSET Keys, NEW cs \in SUBSET Channels, Pull(p, ks, cs)
        PROVE  Inside /\ dotGit' = dotGit /\ dotChat' = dotChat
    BY <2>2 DEF Pull, Starts
  <2>3. Inside /\ dotGit' = dotGit /\ dotChat' = dotChat
    BY <2>1, <2>2
  <2>4. QED
    BY <2>3 DEF Inside
<1>3. loc[p].cmd = "none"
  BY <1>1 DEF TypeOK, Locals, CommandAtItsStep
<1>4. TipsDescribed /\ ConfigFollows(p)
  BY DEF DescribedInv
<1>5. \A c \in Channels : tree[c] # NoTree => Describes(tree[c], c)
  BY <1>3, <1>4 DEF TipsDescribed, SingleTerminal
<1>6. PICK t \in Trees :
        /\ MoveTo(t) /\ HeadTree' = t /\ t = tree'[head']
        /\ \A c \in Channels : tree'[c] # NoTree => Describes(tree'[c], c)
  <2>1. ASSUME NEW c \in Channels, ChannelSwitch(p, c)
        PROVE  /\ tree[c] \in Trees /\ MoveTo(tree[c]) /\ HeadTree' = tree[c]
               /\ tree' = tree /\ head' = c
    BY <2>1, SwitchTree
  <2>2. ASSUME NEW ks \in SUBSET Keys, NEW cs \in SUBSET Channels, Pull(p, ks, cs)
        PROVE  \E t \in Trees :
                 /\ MoveTo(t) /\ HeadTree' = t /\ t = tree'[head']
                 /\ \A c \in Channels : tree'[c] # NoTree => Describes(tree'[c], c)
    <3>1. PICK t \in Trees :
            /\ MoveTo(t) /\ HeadTree' = t /\ tree' = [tree EXCEPT ![head] = t]
            /\ t[ConfigPath] = tree[head][ConfigPath] \cup cs
            /\ tree[head] \in Trees /\ tree[head][ConfigPath] # NoFile
            /\ head' = head
      BY <2>2, PullTree, Zenon
    <3>2. head \in Channels /\ tree[head] # NoTree
      BY <3>1, TreeContents DEF TypeOK
    <3>3. Describes(t, head)
      <4>1. head \in tree[head][ConfigPath]
        BY <1>5, <3>2 DEF Describes
      <4>2. t[ConfigPath] \in SUBSET Channels
        BY <3>1, TreeContents
      <4>3. QED
        BY <3>1, <4>1, <4>2 DEF Describes
    <3>4. t = tree'[head'] /\ \A c \in Channels : c # head => tree'[c] = tree[c]
      BY <3>1, <3>2 DEF TypeOK
    <3>5. \A c \in Channels : tree'[c] # NoTree => Describes(tree'[c], c)
      BY <1>5, <3>1, <3>3, <3>4
    <3>6. QED
      BY <3>1, <3>4, <3>5
  <2>3. QED
    BY <1>5, <2>1, <2>2
<1>7. TipsDescribed'
  BY <1>6 DEF TipsDescribed
<1>8. InitDescribes(p)' /\ CreateDescribes(p)'
  BY <1>1, <1>3 DEF InitDescribes, CreateDescribes
<1>9. index'[ConfigPath] = t[ConfigPath]
  <2>1. index[ConfigPath] = HeadTree[ConfigPath] /\ ConfigPath \in Paths
    BY <1>1, <1>4 DEF ConfigFollows, Paths
  <2>2. index'[ConfigPath] = IF Git!Keeps(HeadTree, t, index, ConfigPath)
                             THEN index[ConfigPath] ELSE t[ConfigPath]
    BY <1>6, <2>1 DEF MoveTo, Git!Moved
  <2>3. QED
    BY <2>1, <2>2 DEF Git!Keeps
<1>10. ConfigFollows(p)'
  BY <1>6, <1>9, TreeContents DEF ConfigFollows
<1>11. QED
  BY <1>2, <1>7, <1>8, <1>10, DescribedByOne DEF NothingOutside

\* The steps of an import and of a message that commit nothing.
LEMMA OthersKeepDescribed ==
  ASSUME SingleTerminal, TypeOK, KeyInv, CommandAtItsStep, InSpace, DescribedInv, ~interrupted,
         NEW p \in Procs, ImportCommand(p) \/ MessageCommand(p),
         ~CommitKeys(p), ~WriteCommit(p)
  PROVE  DescribedInv'
<1> USE DEF Kept
<1>1. /\ pc[p] \in {"idle", "encrypt"} \cup Importing
      /\ loc'[p].cmd \in {"none", loc[p].cmd}
  <2>1. CASE ImportCommand(p)
    BY <2>1, ImportControl, StartFields DEF ImportCommand, Importing
  <2>2. CASE MessageCommand(p)
    BY <2>2, MessageControl, StartFields DEF MessageCommand, Importing
  <2>3. QED
    BY <2>1, <2>2
<1>2. loc[p].cmd = "none" /\ loc'[p].cmd = "none"
  BY <1>1 DEF TypeOK, Locals, CommandAtItsStep, Importing
<1>3. /\ UNCHANGED <<tree, head>> /\ HeadTree' = HeadTree
      /\ index'[ConfigPath] = index[ConfigPath]
  <2>1. ASSUME NEW k \in Keys, AddKey(p, k)
        PROVE  UNCHANGED <<tree, head>> /\ index'[ConfigPath] = index[ConfigPath]
    BY <2>1 DEF AddKey, Git!Added, TypeOK, Trees, Git!Trees
  <2>2. ASSUME NEW k \in Keys, ExportOpen(p, k) \/ ExportWrite(p, k)
        PROVE  UNCHANGED <<tree, head, index>>
    BY <2>2 DEF ExportOpen, ExportWrite, repo
  <2>3. UNCHANGED <<tree, head>> /\ index'[ConfigPath] = index[ConfigPath]
    BY <2>1, <2>2, AsideSteps DEF ImportCommand, MessageCommand, Aside
  <2>4. QED
    BY <2>3 DEF HeadTree
<1>4. Inside
  <2>1. ASSUME NEW asked \in SUBSET Keys, ImportIntoKeyring(p, asked) PROVE Inside
    BY <2>1 DEF ImportIntoKeyring, Starts
  <2>2. ASSUME NEW recipients \in SUBSET Keys, RebuildKeyring(p, recipients) PROVE Inside
    BY <2>2 DEF RebuildKeyring, Starts
  <2>3. ASSUME pc[p] # "idle" PROVE Inside
    BY <1>1, <2>3 DEF InSpace, Importing
  <2>4. CASE ImportCommand(p)
    BY <2>1, <2>3, <2>4, ImportControl DEF ImportCommand
  <2>5. CASE MessageCommand(p)
    BY <2>2, <2>3, <2>5, MessageControl DEF MessageCommand
  <2>6. QED
    BY <2>4, <2>5
<1>5. Inside'
  BY <1>4, SpaceStays DEF Inside
<1>6. QED
  BY <1>2, <1>3, <1>4, <1>5, DescribedFrame

\* A clone is described; an empty directory has nothing.
LEMMA DescribedInit == Init => CommandAtItsStep /\ InSpace /\ DescribedInv
<1> SUFFICES ASSUME Init PROVE CommandAtItsStep /\ InSpace /\ DescribedInv
  OBVIOUS
<1>1. \A p \in Procs : pc[p] = "idle" /\ loc[p].cmd = "none"
  BY DEF Init, Blank
<1>2. CommandAtItsStep /\ InSpace
  BY <1>1 DEF CommandAtItsStep, InSpace
<1>3. CASE /\ dotGit = FALSE /\ dotChat = FALSE
           /\ tree = [c \in Channels |-> NoTree]
           /\ index = Git!EmptyTree /\ work = Git!EmptyTree /\ head = Master
  <2>1. work[ConfigPath] = NoFile /\ HeadTree = index
    BY <1>3 DEF HeadTree, Git!EmptyTree, Paths
  <2>2. TipsDescribed /\ NothingOutside
    BY <1>3, <2>1 DEF TipsDescribed, NothingOutside
  <2>3. \A p \in Procs : InitDescribes(p) /\ CreateDescribes(p) /\ ConfigFollows(p)
    BY <1>1, <1>3, <2>1 DEF InitDescribes, CreateDescribes, ConfigFollows, Inside
  <2>4. QED
    BY <1>2, <2>2, <2>3 DEF DescribedInv
<1>4. ASSUME NEW members \in SUBSET Keys, dotGit = TRUE, dotChat = TRUE, head = Master,
             tree = [c \in Channels |-> IF c = Master THEN CloneTree(members) ELSE NoTree],
             index = CloneTree(members)
      PROVE  DescribedInv
  <2>1. CloneTree(members) \in Trees
    BY DEF CloneTree, Trees, Git!Trees, Paths, Contents
  <2>2. CloneTree(members) # NoTree /\ CloneTree(members)[ConfigPath] = {Master}
    BY <2>1, TreeContents DEF CloneTree, Paths
  <2>3. tree[head] = CloneTree(members) /\ HeadTree = index
    BY <1>4, <2>2 DEF HeadTree
  <2>4. TipsDescribed
    BY <1>4, <2>2 DEF TipsDescribed, Describes
  <2>5. \A p \in Procs : InitDescribes(p) /\ CreateDescribes(p) /\ ConfigFollows(p)
    BY <1>1, <2>2, <2>3 DEF InitDescribes, CreateDescribes, ConfigFollows
  <2>6. NothingOutside
    BY <1>4 DEF NothingOutside, Inside
  <2>7. QED
    BY <2>4, <2>5, <2>6 DEF DescribedInv
<1>5. QED
  BY <1>2, <1>3, <1>4 DEF Init

\* Every step of a single terminal keeps the channels described.
LEMMA DescribedStep ==
  /\ SingleTerminal /\ TypeOK /\ KeyInv /\ CommandAtItsStep /\ InSpace /\ DescribedInv
  /\ [Next]_vars
  => DescribedInv'
<1> SUFFICES ASSUME SingleTerminal, TypeOK, KeyInv, CommandAtItsStep, InSpace, DescribedInv,
                    [Next]_vars
             PROVE  DescribedInv'
  OBVIOUS
<1>1. CASE UNCHANGED vars
  BY <1>1 DEF vars, DescribedInv, TipsDescribed, NothingOutside, InitDescribes,
              CreateDescribes, ConfigFollows, Describes, Inside, HeadTree
<1>2. CASE Next
  <2>1. PICK p \in Procs :
          \/ InitCommand(p) \/ ConfigWrite(p) \/ CommitNothing(p)
          \/ ChannelCommand(p) \/ ImportCommand(p) \/ MessageCommand(p)
          \/ \E ks \in SUBSET Keys, cs \in SUBSET Channels : Pull(p, ks, cs)
          \/ Interrupt(p)
    BY <1>2 DEF Next
  <2>2. CASE Interrupt(p)
    BY <2>2 DEF Interrupt, DescribedInv
  <2>3. CASE interrupted
    <3>1. interrupted'
      BY <2>1, <2>3, SpaceStays
    <3>2. QED
      BY <3>1 DEF DescribedInv
  <2>4. CASE ~interrupted /\ ~Interrupt(p)
    <3>1. CASE InitCommand(p) \/ CommitNothing(p)
      BY <2>4, <3>1, InitKeepsDescribed, NothingKeepsDescribed
    <3>2. CASE ConfigWrite(p)
      BY <2>4, <3>2, ConfigKeepsDescribed, CommitKeepsDescribed DEF ConfigWrite
    <3>3. CASE ChannelCommand(p)
      BY <2>4, <3>3, ChannelKeepsDescribed, MovesKeepDescribed DEF ChannelCommand
    <3>4. CASE ImportCommand(p) \/ MessageCommand(p)
      BY <2>4, <3>4, OthersKeepDescribed, CommitKeepsDescribed
    <3>5. CASE \E ks \in SUBSET Keys, cs \in SUBSET Channels : Pull(p, ks, cs)
      BY <2>4, <3>5, MovesKeepDescribed
    <3>6. QED
      BY <2>1, <2>4, <3>1, <3>2, <3>3, <3>4, <3>5
  <2>5. QED
    BY <2>2, <2>3, <2>4
<1>3. QED
  BY <1>1, <1>2

\* With one terminal, every channel has a section in the config of its own tip,
\* unless a command was cut short.
THEOREM ChannelsHaveSections ==
  ASSUME SingleTerminal
  PROVE  Spec => []ChannelsAreDescribed
<1>1. TypeOK /\ CommandAtItsStep /\ [Next]_vars => CommandAtItsStep'
  BY CommandStep
<1>2. TypeOK /\ InSpace /\ [Next]_vars => InSpace'
  BY InSpaceStep
<1>3. TypeOK /\ KeyInv /\ CommandAtItsStep /\ InSpace /\ DescribedInv /\ [Next]_vars => DescribedInv'
  BY DescribedStep
<1>4. DescribedInv => ChannelsAreDescribed
  BY DEF DescribedInv, TipsDescribed, Describes, ChannelsAreDescribed
<1>5. QED
  BY DescribedInit, <1>1, <1>2, <1>3, <1>4, TypeCorrectness, KeyInvariance, PTL DEF Spec
=============================================================================
