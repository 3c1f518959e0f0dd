------------------------------ MODULE ChatSpace ------------------------------
(***************************************************************************)
(* One clone of a git-chat space, and the commands that change it.         *)
(*                                                                         *)
(* Each git-chat command is a process that runs a handful of steps against *)
(* shared state: the branches, the index and HEAD (through git), the files *)
(* under .git-chat, and the keyring under .git/.gnupg.  Nothing is rolled  *)
(* back when a step fails: DIE, FATAL, a signal or a failed child all      *)
(* leave the earlier steps in place.  A command is modelled with one       *)
(* action per externally visible step, so that it can be interrupted       *)
(* between any two, or interleaved with a command run from a second        *)
(* terminal.                                                               *)
(*                                                                         *)
(* Channel = branch.  The config file is the set of channels it has a      *)
(* section for; a key is a fingerprint and its file under .git-chat/keys.  *)
(***************************************************************************)
CONSTANTS
  Keys,         \* fingerprints of the public keys of the users
  Usable,       \* the keys that are neither expired, revoked, disabled nor secret
  Channels,     \* channel refs (branch names)
  Master,       \* the channel made by "git chat init"
  Procs,        \* the terminals commands are run from
  ConfigPath,   \* .git-chat/config
  NoFile,       \* there is no file at this path
  Partial,      \* content of a key file that was opened but not written out
  Whole,        \* content of a complete key file
  NoTree,       \* the tree of a branch that does not exist
  TrustLists,   \* what .git/.trusted-keys may hold (NoFile: it does not exist)
  Faults        \* TRUE: a command may fail or be killed between two steps

ASSUME ChatSpaceAssumption ==
  /\ Usable \subseteq Keys
  /\ Master \in Channels
  /\ ConfigPath \notin Keys
  /\ NoFile # Partial /\ NoFile # Whole /\ Partial # Whole
  /\ \A S \in SUBSET Channels : S \notin {NoFile, Partial, Whole}
  /\ TrustLists \subseteq {NoFile} \cup SUBSET Keys
  /\ \A S \in SUBSET Keys : S # NoFile
  /\ Faults \in BOOLEAN

Paths == Keys \cup {ConfigPath}
Contents == {NoFile, Partial, Whole} \cup SUBSET Channels

ASSUME NoTreeAssumption ==
  /\ \A t \in [Paths -> Contents] : t # NoTree
  /\ \A S \in SUBSET Keys : S # NoTree

Git == INSTANCE GitRepo

\* The config holds sections; a key file holds a key, or a part of it.
Trees == {t \in Git!Trees : /\ t[ConfigPath] \in {NoFile} \cup SUBSET Channels
                           /\ \A k \in Keys : t[k] \in {NoFile, Partial, Whole}}

VARIABLES
  dotGit,       \* the directory .git exists
  dotChat,      \* the directory .git-chat exists
  keysDir,      \* the directory .git-chat/keys exists
  tree,         \* tree[c]: the tree at the tip of branch c, or NoTree
  head,         \* the branch HEAD names; unborn when tree[head] = NoTree
  index,        \* the index, as a tree
  work,         \* the files of .git-chat in the working tree
  keyring,      \* the public keys in the git-chat keyring .git/.gnupg
  pc,           \* pc[p]: the next step of the command p is running
  loc,          \* loc[p]: the local variables of that command
  commit,       \* the commit made by the last step (history variable)
  interrupted   \* a command failed or was killed half way (history variable)

repo  == <<dotGit, tree, head, index>>
files == <<dotChat, keysDir, work>>
ctl   == <<pc, loc>>
vars  == <<dotGit, dotChat, keysDir, tree, head, index, work, keyring,
           pc, loc, commit, interrupted>>

Steps == {"idle", "git_init", "copy_dir", "copy_config", "truncate", "write",
          "keys_dir", "add_config", "commit_config", "checkout", "export",
          "export_write", "add_key", "commit_keys", "encrypt", "write_commit"}

(***************************************************************************)
(* Local variables, blank in a process that runs no command.               *)
(*   cmd      the command, where two commands share a step                 *)
(*   channel  the new channel of "channel create"                          *)
(*   conf     the config_data about to be written                          *)
(*   asked    the keys an import asks for, or the recipients of a message  *)
(*   todo     the keys of an import that are yet to be exported            *)
(*   staged   the keys of an import added to the index                     *)
(*   key      the key whose file is being written                          *)
(*   readers  the keys a message was encrypted for                         *)
(*   open     the message names no recipients and no trust list applied    *)
(***************************************************************************)
Locals == [cmd : {"none", "init", "create", "config"},
           channel : Channels, conf : SUBSET Channels,
           asked : SUBSET Keys, todo : SUBSET Keys, staged : SUBSET Keys,
           key : SUBSET Keys, readers : SUBSET Keys, open : BOOLEAN]

Blank == [cmd |-> "none", channel |-> Master, conf |-> {}, asked |-> {},
          todo |-> {}, staged |-> {}, key |-> {}, readers |-> {},
          open |-> FALSE]

Commits == [kind : {"none", "config", "import", "message"},
            channel : Channels, parent : Trees, tree : Trees,
            keys : SUBSET Keys, staged : SUBSET Keys, open : BOOLEAN]

NoCommit == [kind |-> "none", channel |-> Master, parent |-> Git!EmptyTree,
             tree |-> Git!EmptyTree, keys |-> {}, staged |-> {},
             open |-> FALSE]

-----------------------------------------------------------------------------
(* What the commands observe.                                              *)

\* is_inside_git_chat_space: both directories exist.
Inside == dotGit /\ dotChat

\* Mutant: the unborn branch is forgotten.
HeadTreeOfBornBranch == tree[head]

\* The tree HEAD resolves to; empty on an unborn branch.
HeadTree == IF tree[head] = NoTree THEN Git!EmptyTree ELSE tree[head]

\* The keys that have a file in tree t: the members of a channel.
Members(t) == {k \in Keys : t[k] # NoFile}

\* The keyring is rebuilt from whole key files only.
Readable(t) == {k \in Keys : t[k] = Whole}

-----------------------------------------------------------------------------
(* Control of a process.                                                   *)

Step(p, from, to) == pc[p] = from /\ pc' = [pc EXCEPT ![p] = to]

Assign(p, locals) == loc' = [loc EXCEPT ![p] = locals]

Exit(p) == pc' = [pc EXCEPT ![p] = "idle"] /\ Assign(p, Blank)

Quiet == commit' = NoCommit /\ UNCHANGED interrupted

\* A command that needs a git-chat space starts.
Starts(p) == pc[p] = "idle" /\ Inside

-----------------------------------------------------------------------------
(* git chat init                                                           *)

InitCheck(p) ==
  /\ ~Inside
  /\ Step(p, "idle", "git_init")
  /\ Assign(p, [Blank EXCEPT !.cmd = "init"])
  /\ Quiet /\ UNCHANGED <<repo, files, keyring>>

InitGit(p) ==
  /\ Step(p, "git_init", "copy_dir")
  /\ dotGit' = TRUE
  /\ Quiet /\ UNCHANGED <<tree, head, index, files, keyring, loc>>

\* copy_dir makes the directory before it copies the templates into it.
InitCopyDir(p) ==
  /\ Step(p, "copy_dir", "copy_config")
  /\ dotChat' = TRUE
  /\ Quiet /\ UNCHANGED <<repo, keysDir, work, keyring, loc>>

\* copy_file opens with O_EXCL; update_config parses the copied template.
InitCopyConfig(p) ==
  /\ work[ConfigPath] = NoFile
  /\ Step(p, "copy_config", "truncate")
  /\ work' = [work EXCEPT ![ConfigPath] = {Master}]
  /\ Assign(p, [loc[p] EXCEPT !.conf = {Master}])
  /\ Quiet /\ UNCHANGED <<repo, dotChat, keysDir, keyring>>

InitCopyFails(p) ==
  /\ pc[p] = "copy_config"
  /\ work[ConfigPath] # NoFile
  /\ Exit(p)
  /\ Quiet /\ UNCHANGED <<repo, files, keyring>>

InitKeysDir(p) ==
  /\ Step(p, "keys_dir", "add_config")
  /\ keysDir' = TRUE
  /\ Quiet /\ UNCHANGED <<repo, dotChat, work, keyring, loc>>

-----------------------------------------------------------------------------
(* write_config: open with O_TRUNC, then write.  Shared by init, by        *)
(* "channel create" and by "config".                                       *)

WriteConfigOpen(p) ==
  /\ Step(p, "truncate", "write")
  /\ work' = [work EXCEPT ![ConfigPath] = {}]
  /\ Quiet /\ UNCHANGED <<repo, dotChat, keysDir, keyring, loc>>

WriteConfigData(p) ==
  /\ pc[p] = "write"
  /\ work' = [work EXCEPT ![ConfigPath] = loc[p].conf]
  /\ \/ /\ loc[p].cmd = "init"
        /\ Step(p, "write", "keys_dir")
        /\ UNCHANGED loc
     \/ /\ loc[p].cmd = "create"
        /\ Step(p, "write", "add_config")
        /\ UNCHANGED loc
     \/ /\ loc[p].cmd = "config"
        /\ Exit(p)
  /\ Quiet /\ UNCHANGED <<repo, dotChat, keysDir, keyring>>

\* Mutant: the result of "git add" is never looked at, and it failed.
AddConfigUnchecked(p) ==
  /\ Step(p, "add_config", "commit_config")
  /\ Quiet /\ UNCHANGED <<repo, files, keyring, loc>>

\* git add .git-chat/config
AddConfig(p) ==
  /\ Step(p, "add_config", "commit_config")
  /\ index' = Git!Added(index, work, ConfigPath)
  /\ Quiet /\ UNCHANGED <<dotGit, tree, head, files, keyring, loc>>

-----------------------------------------------------------------------------
(* git commit: the whole index becomes the tip of the branch HEAD names    *)
(* now, whoever staged it.                                                 *)

CommitIndex(kind, keys, staged, open) ==
  /\ tree' = [tree EXCEPT ![head] = index]
  /\ commit' = [kind |-> kind, channel |-> head, parent |-> HeadTree,
                tree |-> index, keys |-> keys, staged |-> staged,
                open |-> open]
  /\ UNCHANGED <<dotGit, head, index, interrupted>>

CommitConfig(p) ==
  /\ pc[p] = "commit_config"
  /\ index # HeadTree
  /\ CommitIndex("config", {}, {}, FALSE)
  /\ Exit(p)
  /\ UNCHANGED <<files, keyring>>

\* Without --allow-empty git refuses when nothing is staged, and git-chat DIEs.
CommitNothing(p) ==
  /\ pc[p] \in {"commit_config", "commit_keys"}
  /\ index = HeadTree
  /\ Exit(p)
  /\ Quiet /\ UNCHANGED <<repo, files, keyring>>

-----------------------------------------------------------------------------
(* git chat channel create <c>                                             *)

\* The config is read, and extended in memory, before the branch is made.
CreateParse(p, c) ==
  /\ Starts(p)
  /\ work[ConfigPath] # NoFile
  /\ c \notin work[ConfigPath]
  /\ Step(p, "idle", "checkout")
  /\ Assign(p, [Blank EXCEPT !.cmd = "create", !.channel = c,
                             !.conf = work[ConfigPath] \cup {c}])
  /\ Quiet /\ UNCHANGED <<repo, files, keyring>>

\* Mutant: the branch starts a history of its own ("git checkout --orphan").
CreateCheckoutOrphan(p) ==
  /\ tree[loc[p].channel] = NoTree
  /\ Step(p, "checkout", "truncate")
  /\ head' = loc[p].channel
  /\ Quiet /\ UNCHANGED <<dotGit, tree, index, files, keyring, loc>>

\* git checkout -b <c>: also moves HEAD when its branch is unborn.
CreateCheckout(p) ==
  /\ tree[loc[p].channel] = NoTree
  /\ Step(p, "checkout", "truncate")
  /\ tree' = [tree EXCEPT ![loc[p].channel] = tree[head]]
  /\ head' = loc[p].channel
  /\ Quiet /\ UNCHANGED <<dotGit, index, files, keyring, loc>>

CreateCheckoutFails(p) ==
  /\ pc[p] = "checkout"
  /\ tree[loc[p].channel] # NoTree
  /\ Exit(p)
  /\ Quiet /\ UNCHANGED <<repo, files, keyring>>

-----------------------------------------------------------------------------
(* The working tree follows HEAD from HeadTree to t.  git removes a        *)
(* directory when it removes its last file.                                *)

MoveTo(t) ==
  /\ Git!CanMove(HeadTree, t, index, work)
  /\ index' = Git!Moved(HeadTree, t, index, index)
  /\ work' = Git!Moved(HeadTree, t, index, work)
  /\ keysDir' = \/ Members(work') # {}
                \/ keysDir /\ Members(work) = {}

\* git chat channel switch <c>
ChannelSwitch(p, c) ==
  /\ Starts(p)
  /\ c # head
  /\ tree[c] # NoTree
  /\ MoveTo(tree[c])
  /\ head' = c
  /\ Quiet /\ UNCHANGED <<dotGit, dotChat, tree, keyring, ctl>>

\* git chat channel delete <c>: git branch -D refuses the current branch.
ChannelDelete(p, c) ==
  /\ Starts(p)
  /\ c # head
  /\ tree[c] # NoTree
  /\ tree' = [tree EXCEPT ![c] = NoTree]
  /\ Quiet /\ UNCHANGED <<dotGit, head, index, files, keyring, ctl>>

\* git chat config --set / --unset, on the section of channel c.
ConfigSetValue(p, c) ==
  /\ Starts(p)
  /\ work[ConfigPath] # NoFile
  /\ Step(p, "idle", "truncate")
  /\ \E conf \in {work[ConfigPath] \cup {c}, work[ConfigPath] \ {c}} :
        Assign(p, [Blank EXCEPT !.cmd = "config", !.conf = conf])
  /\ Quiet /\ UNCHANGED <<repo, files, keyring>>

-----------------------------------------------------------------------------
(* git chat import-key                                                     *)

\* Keys from files reach the keyring before the unusable ones are filtered;
\* keys from a keyring are filtered first.  Then the keys directory is made.
ImportIntoKeyring(p, asked) ==
  /\ Starts(p)
  /\ asked # {}
  /\ \E imported \in {asked, asked \cap Usable} : keyring' = keyring \cup imported
  /\ IF asked \cap Usable = {}
     THEN UNCHANGED <<ctl, keysDir>>
     ELSE /\ Step(p, "idle", "export")
          /\ Assign(p, [Blank EXCEPT !.asked = asked \cap Usable,
                                     !.todo = asked \cap Usable])
          /\ keysDir' = TRUE
  /\ Quiet /\ UNCHANGED <<repo, dotChat, work>>

\* Mutant: the file is opened without O_EXCL.
ExportOpenShared(p, k) ==
  /\ k \in loc[p].todo
  /\ keysDir
  /\ Step(p, "export", "export_write")
  /\ work' = [work EXCEPT ![k] = Partial]
  /\ Assign(p, [loc[p] EXCEPT !.key = {k}])
  /\ Quiet /\ UNCHANGED <<repo, dotChat, keysDir, keyring>>

\* export_gpg_key: open with O_CREAT | O_EXCL ...
ExportOpen(p, k) ==
  /\ k \in loc[p].todo
  /\ keysDir /\ work[k] = NoFile
  /\ Step(p, "export", "export_write")
  /\ work' = [work EXCEPT ![k] = Partial]
  /\ Assign(p, [loc[p] EXCEPT !.key = {k}])
  /\ Quiet /\ UNCHANGED <<repo, dotChat, keysDir, keyring>>

\* Mutant: a file that exists is added to the index like a new one.
ExportSkipAdds(p, k) ==
  /\ k \in loc[p].todo
  /\ work[k] # NoFile
  /\ Step(p, "export", "add_key")
  /\ Assign(p, [loc[p] EXCEPT !.key = {k}])
  /\ Quiet /\ UNCHANGED <<repo, files, keyring>>

\* ... when that fails, be it that the file exists or that the directory went
\* away (a switch in another terminal), the key counts as imported before.
ExportSkip(p, k) ==
  /\ pc[p] = "export"
  /\ k \in loc[p].todo
  /\ work[k] # NoFile \/ ~keysDir
  /\ Assign(p, [loc[p] EXCEPT !.todo = @ \ {k}])
  /\ Quiet /\ UNCHANGED <<repo, files, keyring, pc>>

\* Mutant: a short write goes unnoticed.
ExportWriteShort(p, k) ==
  /\ loc[p].key = {k}
  /\ Step(p, "export_write", "add_key")
  /\ Quiet /\ UNCHANGED <<repo, files, keyring, loc>>

ExportWrite(p, k) ==
  /\ loc[p].key = {k}
  /\ Step(p, "export_write", "add_key")
  /\ work' = [work EXCEPT ![k] = Whole]
  /\ Quiet /\ UNCHANGED <<repo, dotChat, keysDir, keyring, loc>>

\* Mutant: the key counts as added although "git add" failed.
AddKeyUnchecked(p, k) ==
  /\ loc[p].key = {k}
  /\ Step(p, "add_key", "export")
  /\ Assign(p, [loc[p] EXCEPT !.key = {}, !.todo = @ \ {k},
                              !.staged = @ \cup {k}])
  /\ Quiet /\ UNCHANGED <<repo, files, keyring>>

\* git add .git-chat/keys/<k>
AddKey(p, k) ==
  /\ loc[p].key = {k}
  /\ Step(p, "add_key", "export")
  /\ index' = Git!Added(index, work, k)
  /\ Assign(p, [loc[p] EXCEPT !.key = {}, !.todo = @ \ {k},
                              !.staged = @ \cup {k}])
  /\ Quiet /\ UNCHANGED <<dotGit, tree, head, files, keyring>>

\* Mutant: one skipped key makes the import return before it commits.
ImportLoopEndsEarly(p) ==
  /\ pc[p] = "export"
  /\ loc[p].todo = {}
  /\ IF loc[p].staged # loc[p].asked
     THEN Exit(p)
     ELSE Step(p, "export", "commit_keys") /\ UNCHANGED loc
  /\ Quiet /\ UNCHANGED <<repo, files, keyring>>

ImportLoopEnds(p) ==
  /\ pc[p] = "export"
  /\ loc[p].todo = {}
  /\ IF loc[p].staged = {}
     THEN Exit(p)
     ELSE Step(p, "export", "commit_keys") /\ UNCHANGED loc
  /\ Quiet /\ UNCHANGED <<repo, files, keyring>>

\* The commit message announces every key that was asked for.
CommitKeys(p) ==
  /\ pc[p] = "commit_keys"
  /\ index # HeadTree
  /\ CommitIndex("import", loc[p].asked, loc[p].staged, FALSE)
  /\ Exit(p)
  /\ UNCHANGED <<files, keyring>>

-----------------------------------------------------------------------------
(* git chat message                                                        *)

\* Mutant: the keyring is taken as it is, without the keys others imported.
RebuildKeyringSkipped(p, recipients) ==
  /\ Starts(p)
  /\ keysDir
  /\ Step(p, "idle", "encrypt")
  /\ Assign(p, [Blank EXCEPT !.asked = recipients])
  /\ Quiet /\ UNCHANGED <<repo, files, keyring>>

\* rebuild_gpg_keyring adds the files of .git-chat/keys to the keyring, which
\* is never emptied.  GPGME refuses an empty or cut-off file, and git-chat
\* then stops with FATAL: the command changes nothing.
RebuildKeyring(p, recipients) ==
  /\ Starts(p)
  /\ keysDir
  /\ Members(work) = Readable(work)
  /\ Step(p, "idle", "encrypt")
  /\ keyring' = keyring \cup Members(work)
  /\ Assign(p, [Blank EXCEPT !.asked = recipients])
  /\ Quiet /\ UNCHANGED <<repo, files>>

\* The usable keys of the keyring, the named ones if any are named.
Candidates(recipients) ==
  IF recipients = {} THEN keyring \cap Usable
                     ELSE keyring \cap Usable \cap recipients

Trusted(trust) == IF trust = NoFile THEN Keys ELSE trust

\* encrypt_message_asym: every named recipient must have a key.
EncryptMessage(p, trust) ==
  LET cand    == Candidates(loc[p].asked)
      readers == cand \cap Trusted(trust)
  IN /\ loc[p].asked # {} => cand = loc[p].asked
     /\ readers # {}
     /\ Step(p, "encrypt", "write_commit")
     /\ Assign(p, [loc[p] EXCEPT !.readers = readers,
                     !.open = (loc[p].asked = {} /\ trust = NoFile)])
     /\ Quiet /\ UNCHANGED <<repo, files, keyring>>

\* DIE: an unknown recipient, or no recipient left.
EncryptRefused(p, trust) ==
  LET cand == Candidates(loc[p].asked)
  IN /\ pc[p] = "encrypt"
     /\ \/ loc[p].asked # {} /\ cand # loc[p].asked
        \/ cand \cap Trusted(trust) = {}
     /\ Exit(p)
     /\ Quiet /\ UNCHANGED <<repo, files, keyring>>

\* Mutant: the commit is made of an empty tree.
WriteCommitEmptyTree(p) ==
  /\ pc[p] = "write_commit"
  /\ tree' = [tree EXCEPT ![head] = Git!EmptyTree]
  /\ Exit(p)
  /\ Quiet /\ UNCHANGED <<dotGit, head, index, files, keyring>>

\* git commit --allow-empty
WriteCommit(p) ==
  /\ pc[p] = "write_commit"
  /\ CommitIndex("message", loc[p].readers, {}, loc[p].open)
  /\ Exit(p)
  /\ UNCHANGED <<files, keyring>>

-----------------------------------------------------------------------------
(* The environment.                                                        *)

\* git pull --ff-only (README.md): the channel gained members and sections.
Pull(p, newKeys, newChannels) ==
  /\ Starts(p)
  /\ tree[head] # NoTree
  /\ tree[head][ConfigPath] # NoFile
  /\ LET t == [q \in Paths |->
                 IF q = ConfigPath THEN tree[head][q] \cup newChannels
                 ELSE IF q \in newKeys THEN Whole ELSE tree[head][q]]
     IN /\ MoveTo(t)
        /\ tree' = [tree EXCEPT ![head] = t]
  /\ Quiet /\ UNCHANGED <<dotGit, dotChat, head, keyring, ctl>>

\* DIE, FATAL, a failing child, or a signal, before the next step.
Interrupt(p) ==
  /\ Faults
  /\ pc[p] # "idle"
  /\ Exit(p)
  /\ interrupted' = TRUE
  /\ commit' = NoCommit
  /\ UNCHANGED <<repo, files, keyring>>

-----------------------------------------------------------------------------
(* The command is run in an empty directory, or in a fresh clone of a      *)
(* space: git does not clone the keyring, nor an empty keys directory.     *)

CloneTree(members) ==
  [q \in Paths |-> IF q = ConfigPath THEN {Master}
                   ELSE IF q \in members THEN Whole ELSE NoFile]

Init ==
  /\ \/ /\ dotGit = FALSE /\ dotChat = FALSE /\ keysDir = FALSE
        /\ tree = [c \in Channels |-> NoTree]
        /\ index = Git!EmptyTree /\ work = Git!EmptyTree
     \/ \E members \in SUBSET Keys :
          /\ dotGit = TRUE /\ dotChat = TRUE /\ keysDir = (members # {})
          /\ tree = [c \in Channels |->
                       IF c = Master THEN CloneTree(members) ELSE NoTree]
          /\ index = CloneTree(members) /\ work = CloneTree(members)
  /\ head = Master
  /\ keyring = {}
  /\ pc = [p \in Procs |-> "idle"]
  /\ loc = [p \in Procs |-> Blank]
  /\ commit = NoCommit
  /\ interrupted = FALSE

InitCommand(p) ==
  \/ InitCheck(p) \/ InitGit(p) \/ InitCopyDir(p) \/ InitCopyConfig(p)
  \/ InitCopyFails(p) \/ InitKeysDir(p)

ConfigWrite(p) ==
  WriteConfigOpen(p) \/ WriteConfigData(p) \/ AddConfig(p) \/ CommitConfig(p)

ChannelCommand(p) ==
  \/ \E c \in Channels : \/ CreateParse(p, c) \/ ChannelSwitch(p, c)
                         \/ ChannelDelete(p, c) \/ ConfigSetValue(p, c)
  \/ CreateCheckout(p) \/ CreateCheckoutFails(p)

ImportCommand(p) ==
  \/ \E asked \in SUBSET Keys : ImportIntoKeyring(p, asked)
  \/ \E k \in Keys : \/ ExportOpen(p, k) \/ ExportSkip(p, k)
                     \/ ExportWrite(p, k) \/ AddKey(p, k)
  \/ ImportLoopEnds(p) \/ CommitKeys(p)

MessageCommand(p) ==
  \/ \E recipients \in SUBSET Keys : RebuildKeyring(p, recipients)
  \/ \E trust \in TrustLists : EncryptMessage(p, trust) \/ EncryptRefused(p, trust)
  \/ WriteCommit(p)

Next ==
  \E p \in Procs :
    \/ InitCommand(p) \/ ConfigWrite(p) \/ CommitNothing(p)
    \/ ChannelCommand(p) \/ ImportCommand(p) \/ MessageCommand(p)
    \/ \E ks \in SUBSET Keys, cs \in SUBSET Channels : Pull(p, ks, cs)
    \/ Interrupt(p)

Spec == Init /\ [][Next]_vars

-----------------------------------------------------------------------------
(* Properties.                                                             *)

\* Every variable holds a value of its kind.
TypeOK ==
  /\ dotGit \in BOOLEAN /\ dotChat \in BOOLEAN /\ keysDir \in BOOLEAN
  /\ tree \in [Channels -> {NoTree} \cup Trees]
  /\ head \in Channels
  /\ index \in Trees
  /\ work \in Trees
  /\ keyring \in SUBSET Keys
  /\ pc \in [Procs -> Steps]
  /\ loc \in [Procs -> Locals]
  /\ commit \in Commits
  /\ interrupted \in BOOLEAN

\* A message that names no recipients and that no trust list narrows can be
\* read by every member of the channel it is committed to: each usable key
\* in the tree the commit builds on is one of the readers.  The keys are read
\* from the working tree before the commit, so this relies on the working
\* tree never falling behind the branch.
MembersCanRead ==
  commit.kind = "message" /\ commit.open
    => Members(commit.parent) \cap Usable \subseteq commit.keys

\* No step takes a member off an existing channel: whatever was staged, cut
\* short or carried over from another branch, the key files of a branch only
\* grow.  The code has no such check; each commit takes the index as it is.
MembersStay ==
  [][\A c \in Channels :
       tree[c] # NoTree /\ tree'[c] # NoTree
         => Members(tree[c]) \subseteq Members(tree'[c])]_vars

\* A key file that was opened but not written out is never tracked: neither
\* staged nor part of a commit, on any channel, although the file stays in
\* the working tree for the next commands to find.
TrackedKeysAreWhole ==
  /\ \A k \in Keys : index[k] # Partial
  /\ \A c \in Channels : tree[c] # NoTree => \A k \in Keys : tree[c][k] # Partial

\* The keys an import has staged are in the commit it makes.
StagedKeysAreCommitted ==
  commit.kind = "import" => commit.staged \subseteq Readable(commit.tree)

\* A message commit changes no file, unless some earlier command was cut short
\* and left its files in the index.
MessagesChangeNothing ==
  commit.kind = "message" /\ ~interrupted => commit.tree = commit.parent

\* Every channel has a section in the config of its own tip, unless some
\* command was cut short: "channel create" makes the branch first and
\* describes it last.
ChannelsAreDescribed ==
  ~interrupted =>
    \A c \in Channels :
      /\ tree[c] # NoTree
      /\ \A p \in Procs : loc[p].cmd # "create"
      => tree[c][ConfigPath] # NoFile /\ c \in tree[c][ConfigPath]

\* Between commands, messages can be sent in a channel that has a member: the
\* keys directory exists and holds no cut-off file, unless a command was cut
\* short.  Messages of every channel fail as long as such a file stays.
MessagingIsPossible ==
  /\ ~interrupted
  /\ \A p \in Procs : pc[p] = "idle"
  /\ Inside /\ Members(HeadTree) # {}
  => keysDir /\ Members(work) = Readable(work)

\* Two processes never write the same key file: O_EXCL gives each file to the
\* one that made it.
OneWriterPerKey ==
  \A p, q \in Procs : p # q => loc[p].key \cap loc[q].key = {}

\* The space keeps the promises of ChannelMembership: the members of a channel
\* are the keys in the tree at its tip.
Membership == INSTANCE ChannelMembership WITH
  NoChannel <- NoTree,
  members <- [c \in Channels |->
                IF tree[c] = NoTree THEN NoTree ELSE Members(tree[c])],
  post <- [posted |-> commit.kind = "message",
           readers |-> IF commit.kind = "message" THEN commit.keys ELSE {},
           open |-> commit.open]

\* Whatever the commands do, and wherever they are cut short, channels only
\* gain members, a new channel starts with those of the one it branches from,
\* and an open message reaches every usable member.
ImplementsMembership == Membership!Spec

(* Stated by the documentation; not what the code does.                    *)

\* docs/git-chat-message.1: by default, messages are encrypted with the public
\* keys in the keys directory.
OnlyMembersCanRead ==
  commit.kind = "message" /\ commit.open => commit.keys \subseteq Members(commit.parent)
=============================================================================
