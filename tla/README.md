# A TLA+ model of git-chat

git-chat keeps a chat in a git repository: a channel is a branch, a message is
a commit whose body is encrypted, a member is a GPG key under `.git-chat/keys`.
These modules model what its commands do to that repository, check it with
TLC on small instances and prove the central results with TLAPS.

Paths below are relative to the repository; `src/x.c` is the file `x.c` of the
implementation.

## 1. The system

| Component | Code | State | Operations | Interacts with | What makes it correct |
|---|---|---|---|---|---|
| space initialisation | `builtin/init.c`, `fs-utils.c`, `working-tree.c` | `.git`, `.git-chat`, first commit | `init` | git, config store | an interrupted `init` leaves nothing that a later command takes for whole |
| channels | `builtin/channel*.c` | branches, HEAD, working tree, config sections | create, switch, delete | git, config store | every channel is described in its own config; no step loses a member |
| key import, keyring | `builtin/import-key.c`, `gnupg/key-manager.c` | key files, index, `.git/.gnupg` | import, rebuild | git, GPGME | only whole key files are tracked; a key file has one writer |
| messages | `builtin/message.c`, `gnupg/encryption.c` | index, HEAD commit, `.git/GC_EDITMSG`, `.git/GC_REPLY_LAST` | compose, encrypt, commit | keyring, git, editor | an open message is readable by every member of its channel; a named one by those named; what is sent is what was written; the editor's files are wiped |
| key filters, trust | `gnupg/key-filter.c`, `gnupg/key-trust.c` | `.git/.trusted-keys` (read) | filter | messages | exactly the named, usable, trusted keys remain |
| config store | `builtin/config.c`, `config/*.c` | `.git-chat/config` | get, set, unset, edit, validate | channels, init | the file is a map: one command changes one entry, and queries answer from it |
| reading | `builtin/read.c`, `git/graph-traversal.c` | pipes, descriptors, read buffer | read | child processes, pager | success means every message was shown; the pipeline ends |
| pager | `paging.c` | the pager child, exit and signal handlers | choose, start, stop | reading, listing | git-chat outlives its pager, also when signals interrupt each other; the pager found is the one asked for |
| child processes | `run-command.c` | descriptors, environment | start, finish, capture | everything | descriptors are closed where they must be; the child's variables win |
| commits | `git/commit.c`, `git/index.c` | index, commits | add, commit, parse | git | a commit is parsed as git wrote it |
| decryption, passphrases | `gnupg/decryption.c`, `gnupg/gpg-common.c` | a gpgme context, a descriptor or a file to answer from | init, decrypt, answer | reading | what can be opened is opened; nothing is shown for something else |
| channel list | `builtin/channel-list.c` | an array of refs with their details | list | git, pager | each ref is listed once, in the group of its remote; only remote channels that are up to date are left out |
| command line | `git-chat.c`, `parse-options.c` | none | dispatch, parse | all commands | the arguments mean what the usage says |
| strings, arrays | `strbuf.c`, `str-array.c`, `argv-array.c` | buffers | insert, remove, split, trim | everything | no element is lost or duplicated |

The hard behaviour is in six places.

* **Nothing is transactional.** A command is a sequence of git child processes
  and file writes. DIE, FATAL, a failing child or a signal ends it anywhere,
  and nothing is rolled back: staged files, half-written keys, a truncated
  config and a branch without its section stay for the next command to find.
* **State is read in one place and used in another.** The readers of a message
  come from the working tree (by way of a keyring that is never emptied), and
  the message goes to the branch HEAD names a moment later.
* **Four processes share three pipes.** `git chat read` relies on end of file
  and on broken pipes, both of which depend on every descriptor each child
  inherited.
* **The config is rewritten from a tree.** Each `--set` parses the file, edits
  a tree and writes the file from a walk over it.
* **Stopping the pager is re-entrant.** `pager_stop` runs from `exit` and from
  the handlers of five signals, any of which may interrupt any other.
* **Terminals share files and refs that nobody locks.** Every compose edits the
  same `GC_EDITMSG`; a listing reads the refs by two git commands, between
  which they move.

## 2. Modules

### GitRepo

The commands of git that git-chat runs, as operators over trees (a tree is a
function from tracked paths to contents): the two-way merge behind
`git checkout` and `git pull --ff-only`, and `git add`. It is external to the
repository and describes git as the code uses it.

### ChatSpace, ChannelMembership

`ChatSpace` is one clone of a space. A process of the model is a terminal; a
command runs as a program counter `pc[p]` with one action per externally
visible step of the handler (one child process, one file opened or written),
its C locals in `loc[p]`. Shared state is `tree` (the tip of each branch),
`head`, `index`, `work` (the files of `.git-chat`), `keysDir` and `keyring`.
The config file is abstracted to the set of channels it has a section for, a
key file to whole, partial or absent. An export skips a key whose file exists, and
every key when there is no keys directory (`ExportSkip`): `open` fails in both cases
and `import-key` goes on.

| Command | Actions |
|---|---|
| init | `InitCheck`, `InitGit`, `InitCopyDir`, `InitCopyConfig`/`InitCopyFails`, `InitKeysDir`, then the config write |
| channel create | `CreateParse`, `CreateCheckout`/`CreateCheckoutFails`, then the config write |
| config write (shared) | `WriteConfigOpen` (O_TRUNC), `WriteConfigData`, `AddConfig`, `CommitConfig` or `CommitNothing` |
| channel switch, delete | `ChannelSwitch`, `ChannelDelete` |
| config --set/--unset | `ConfigSetValue`, then the config write |
| import-key | `ImportIntoKeyring`, then per key `ExportOpen`, `ExportWrite`, `AddKey`, or `ExportSkip`; `ImportLoopEnds`, `CommitKeys` |
| message | `RebuildKeyring`, `EncryptMessage`/`EncryptRefused`, `WriteCommit` |
| environment | `Pull` (fast-forward), `Interrupt` (a command stops between two steps) |

`ChannelMembership` is the abstract promise: channels have members, members
only join, a new channel starts with the members of the one it branches from,
an open message reaches every usable member. `ChatSpace` implements it with
the key files at the tip of a branch for members (`ImplementsMembership`).

### ReadPipeline

`git rev-list | git cat-file --batch | git-chat | pager`. The data in a pipe is
a pair of counters, an object spans positions of the object stream, and the
reads of git-chat cut it anywhere. `held[p]` is the set of pipe ends process p
has open: a fork copies the parent's set, as `start_command` does, and the
explicit closes and close-on-exec descriptors are taken off. End of file and
broken pipe are derived from `held`. Children are killed or fail before
`execve`; Ctrl-C reaches git-chat.

### ConfigStore, Places, KeyValue

`git chat config` on `.git-chat/config`: a file is a sequence of
lines (section, property, or one that cannot be parsed), `Parse` is the parser,
`Places` picks elements out of a list (the children of a section, its entries),
a config_data is its sections and entries in the order they were made, and the
walk of `node_visitor_next` is taken step by step with its index stack. The
file is opened with O_TRUNC and gets one line per `write`; the command is
killed, or the disk fills up, between any two. What text can carry is kept:
an empty component is written as nothing, and a value with an unprintable
character becomes a line the parser refuses.

| Code | Actions |
|---|---|
| `config_set_value`, `config_unset_value` | `Set`, `Unset` |
| `config_query_value` | `Query`, with and without the default |
| `is_config_file_valid` | `ValidateConfig` |
| `editor_edit_config_file` | `EditConfig` (the user leaves any of `Files`) |
| `write_config`, `write_config_fd`, `node_visitor_next` | `OpenConfig`, `VisitNode`, `VisitFails`, `WriteLine`, `WriteFails`, `WriteDone` |
| a file that does not parse | `ParseFails`, which ends in DIE or, as its message is made of a structure in the place of a string, in a crash |
| environment | `Kill`, `DiskFills` |

`KeyValue` is the abstract promise: a partial map of which a command changes
one entry, at which queries look, which an edit may change in any way and
otherwise only a command that does not end well may spoil, and whose last
change is visible when the command is no longer busy. `ConfigStore`
implements it (`ImplementsKeyValue`), the map being what the file says, or what
the tree in memory says while the file is being written.

### StrArray, ChildEnvironment, Pager, CommitObject, ReadCommand

`git chat read` inside the process that `ReadPipeline` treats as a reader.

* `StrArray` is the array of strings with its allocation: the cells and which of
  them were written, how far it grows, and the terminator.
* `ChildEnvironment` is `merge_env`, as a loop with its indexes over two arrays.
  A string is the sequence of the ranks of its characters; what matters is which
  names are the beginning of others, and that a digit comes before `=`. The stage
  of a merge (copy, walk, add) stands for the loop that runs: the loops follow each
  other, so that a string which the last one adds never starts the walk again.
* `Pager` is `get_pager`, `start_command` up to `execve` and `pager_stop`. The
  calls of `pager_stop` under way are a stack: a signal that has a handler pushes
  a call between any two steps of the one below, is blocked while its handler
  runs, and `exit` inside `exit` ends the process.
* `CommitObject` is `commit_parse` over the lines of an object, next to `ObjectOf`,
  the text that git writes for a commit (external), and `IsCommit`, what a parse
  of it should give.
* `ReadCommand` composes these with decryption and printing. gpg and its agent
  are external; a world fixes what a command finds (files, PATH, environment,
  history, keys, passphrase, which signals may arrive).

| Code | Actions |
|---|---|
| `gpgme_context_init` | `InitContext`, `NoContext` |
| `pager_start`, `get_pager` | `NoPager`, `ChoosePager`, `PagerNotFound`, `RegisterSignal`, `RegisterExit` |
| `start_command`, `merge_env` | `LocatePager`, `MergeEnv`, `ForkPager`; in the child `PagerRuns`, `PagerFails` |
| `pager_stop`, `finish_command` | `StopWaits`, `StopFindsNoPid`, `StopFindsReport`, `StopFinishes` |
| `pager_stop_exit`, `pager_stop_signal` | `StopExits`; `StopRaises`, `StopReturns` |
| `read_messages`, `commit_parse` | `NextCommit`, `Parse`, `Malformed`, `AllRead` |
| `decrypt_asymmetric_message`, the passphrase callbacks | `IsPlain`, `KeyMissing`, `Decrypt`, `Ask`, `AnswerPassphrase` |
| `pretty_print_message` | `WriteHeader`, `WriteBody`, `WriteBreaks` |
| environment | `PagerEnds`, `Signal` |

### ParseOptions, Terminal, MessageCommand, ChannelList, CommandLine

Commands from their arguments on, in several terminals of a clone that is a
chat space (`is_inside_git_chat_space` holds, the output is a terminal).

* `ParseOptions` is `parse_options` as operators: an argument is a word, `--`, a
  long option or a cluster of short ones; `Parse` folds the loop over the
  vector, and `SearchStep` is one row of the search for a long option, which
  goes on with a value in place of a name. Its last section is the grammar that
  `include/parse-options.h` documents, written without looking at the parser: a
  phrase is one way to spell an option (`--help`, `--count=2`, `--count 2`,
  `-ab`, `-abn 2`, `-abn2`), with its arguments (`PhraseArgs`) and the
  assignments it stands for (`PhraseGiven`); after the phrases come words, or
  `--` and anything (`IsEnding`).
* `Terminal` has `main`, its options and its hand-over to a command, the options
  of `read`, and the state commands share: `tips` (local and remote refs; a tip
  is the sequence of its messages' authors) and `head`. Pushes, fetches, merges
  and switches by git are moves of the environment.
* `MessageCommand` is `cmd_message`: where the text comes from (`Source`), the
  files of the editor (`TruncateEditMsg`, `OpenReply`, `WriteReply`,
  `LaunchEditor`, `WipeReply`, `ReadBack`, `WipeEditMsg`), the choice of the
  readers (`Encrypt`) and the commit. The user saves drafts and quits; the
  editor, the traversal and the commit fail; the terminal is closed.
* `ChannelList` is `channel_list`: two reads of the refs, the filter, the sort and
  the printing of one group after the other, which empties the array.
* `CommandLine` runs these in all terminals at once. Its constant `Uses` are the
  documented uses that are asked about: a source of the passphrase or none, a
  command, any phrases of its table, and what follows (`IsUse`).

| Code | Actions |
|---|---|
| `main`, `cmd_read`, `cmd_channel` | `MainEnds`, `StartRead`, `ChannelEnds`, `StartList` |
| `cmd_message` | `StartMessage` |
| `compose_message`, `launch_editor` | `TruncateEditMsg` ... `WipeEditMsg`; `WriteReplyFails`, `EditorFails` |
| `read_message_from_file` | `ReadFile`, `ReadFileFails` |
| `create_message`, `encrypt_message_asym` | `Encrypt`, `EncryptFails` |
| `write_commit` | `WriteCommit`, `WriteCommitFails` |
| `channel_list` | `ListLocal`, `ListRemote`, `FilterChannels`, `PrintLocal`, `PrintRemote`, `ListDone`, `ListCrashes` |
| a signal | `KillMessage`, `KillList` |

### MC modules and proofs

`MCChatSpace`, `MCReadPipeline`, `MCConfigStore`, `MCReadCommand` and `MCCommandLine` give the
constants values.

| Proof module | Theorems about |
|---|---|
| `ChatSpaceProofs` | the space: every property a run checks, and the refinement |
| `ReadPipelineProofs` | the safety of the read pipeline |
| `ReadCommandProofs` | the pager's life and what exit status 0 means |
| `EnvironmentProofs` | arrays of strings, `strcmp`, `qsort` and `merge_env` |
| `ReadMessagesProofs` | what `read` parses, opens and shows; its pager and the pager's environment; types |
| `ConfigStoreProofs` | what the parser makes of a file, what queries answer, what a change writes, and the refinement |
| `CommandLineProofs` | the editor's files, what gets into a message and who can read it, listings, what `parse_options` makes of what is typed, which commands crash; types |
| `OrderLemmas` | least and greatest elements, induction, ranks, joined and picked sequences, folds, for the others |

## 3. Runs

| Run | Question | Result |
|---|---|---|
| `space_crash` | one terminal, any sequence of commands, each cut short anywhere | holds |
| `space_pair` | two terminals, every interleaving of two commands | holds |
| `space_readers` | are only the members readers of an open message? | violated |
| `pipeline` | three messages through small pipes, cut reads, kills, Ctrl-C | holds |
| `pipeline_quit` | does quitting the pager halt everything? | violated |
| `pipeline_truncated` | is a cut object stream reported? | violated |
| `pipeline_fatal` | does FATAL end git-chat? | violated |
| `config_store` | sets, unsets, queries and edits with kills and a full disk | holds |
| `config_set` | is a set that exits with zero effective? | violated |
| `config_ninth` | do the subsections of a section fit their array? | violated |
| `read_command` | one `read` in each of many worlds, signals at any moment | holds |
| `commands` | messages and listings in two terminals; any arguments alone | holds |

What the passing runs show:

* `MembersCanRead`: an open message is encrypted for every usable member of the
  channel it is committed to, although keyring, working tree and branch are
  updated at different times. `TrackedKeysAreWhole`: a half-written key file is
  never staged nor committed, whatever was interrupted. `StagedKeysAreCommitted`,
  `MessagesChangeNothing`, `ChannelsAreDescribed`, `MessagingIsPossible`: what
  holds as long as no command was cut short, which shows that interruption is
  the only cause of those anomalies. `OneWriterPerKey`, `MembersStay` need two
  terminals to be violated and are checked with two.
* `StagesInOrder`, `SuccessMeansAllShown`, `PagerIsWaitedFor`; `ChatTerminates`
  and `AllTerminate` under fairness.
* `WritesInOrder`: the file is at all times the beginning of the depth-first
  text of the tree (a definition that does not use the visitor's stack), with
  the entries outside sections first. `ReportedIsStored`, `RewritingIsStable`;
  `AnswersAreTrue`: a query answers what the lines of the file say, after any
  sequence of edits, and a file that is called valid has a meaning.
* `PagerEndsFirst`: once the handlers are registered, no sequence of signals and
  exits lets git-chat end before its pager. `ReadingEnds`: nor do the nested calls
  of `pager_stop` wait for one another. `SuccessMeansRead`, `MessagesAreShown`,
  `HeldKeysOpen`: what is printed is the history, each message under the flag it
  deserves. `EnvironmentIsMerged` states when the merge is right, which excepts
  names that another extends by a digit. `CommitsAreParsed`, `PagerIsFound`.
* `OptionsAreUnderstood`: each of 1820 documented uses of `message`, `read` and
  `channel list` assigns what it says, in order, and leaves what follows.
  `DocumentedUseNeverCrashes`: what crashes git-chat is not among them, and has
  one of two forms.
  `MessageIsAsMeant`: no text of an earlier command, killed or failed, gets into a
  message; only editors open at the same time share their text, which the
  property excepts. `PlaintextIsWiped`: a text in the clear is left only by a
  command that failed. `RecipientsCanRead`: with names that stand for one key
  each, the readers are those named, without the untrusted ones.
  `EveryChannelIsListed` holds however refs move between the two reads;
  `ListShowsWhatDiffers` when they do not; `ListingsEnd` under fairness.

What the violated ones show (each quotes the line it contradicts in
`PROJECT.json`): the keyring is never emptied, so keys of other channels stay
readers; `rev-list` inherits the read end of the pipe of `cat-file`, so both
hang when the pager is quit early; an object cut by the end of the stream is
waited for for ever; `FATAL` in a long history waits for `cat`, which waits for
`cat-file`, which waits for git-chat; `config --set` accepts values (UTF-8,
a tab) and names (`""`) that make the file unreadable to every later command;
and the ninth channel makes the array of the subsections of `[channel]` smaller
than eight pointers, because the new count is passed for a size in bytes.

### Bounds

* Two keys and two channels: a member and a newcomer, the channel of HEAD and
  another. Two terminals in `space_pair` (with symmetry over keys and
  terminals, none being named), from an empty directory or a clone, without `config`
  and `pull`, which `space_crash` has. Git's history is not kept: only tips
  matter to the properties, and the last commit is a history variable.
* Three messages, objects of one and two positions, pipes of one or two places
  and reads of two: smaller than the history, so that every pipe fills up and
  every object is cut.
* Seven keys with one to three components, among them two siblings below a
  section, a climb of two levels, an empty property and an empty section; two
  values, one unprintable; five initial files, among them one with `[]` and a
  dotted property, one with a duplicate and one that does not parse.
  `Slop` and `PointerSize` are 8 as in the code; `config_ninth` begins with the
  file of eight channels.
* Worlds of `read_command` differ from a plain one in one question at a time:
  every subset of eight variables, whose names extend each other by a letter and
  by a digit; every subset of the files and of the PATH that the choice of a pager
  looks at; roots, merges, signed and re-encoded commits with 13 zones; three
  messages for four sources of a passphrase; up to three signals (of three, or
  one) at any moment, which nest three deep and inside `exit`. Two descriptors
  stand for all there are, and an array grows by 3 cells where the code has 8,
  so that the merge grows it more than once. Two messages suffice for printing:
  what is carried from one to the next is the passphrase, which has three.
* Two terminals with one command each (two of four: compose, reply to a
  recipient, `-m`, list) and one move of a ref, at any moment; a second move
  cannot come between the two reads of one listing in a new way, as the second
  read sees only its result. All other arguments run alone: 1820 documented
  uses, with up to two phrases for `message` and `channel list` and three for `read`,
  and, where there is at most one, with words or `--` after it and with each source of
  the passphrase before the command; and 31 vectors that are not documented. Two keys of one team, of which one is
  trusted, so that a recipient names no, one or two keys and loses one. Two
  repositories: channels that are ahead, behind, equal and remote only; and one
  with a ref of three components, on which a listing crashes.

### Fairness

`ReadPipeline` assumes weak fairness of each process: a runnable process is
scheduled, and an `execve` that started ends. The user of `less` quits in the
end but need not read on; `cat` reads on. Faults are never forced.
`CommandLine` assumes weak fairness of the steps of a listing, which waits for
nobody, and of nothing else: a user may leave the editor open for ever, and
what stops a listing is not one of its steps. `ReadCommand` assumes weak
fairness of git-chat, of the child that becomes the pager, and of the user who
leaves the pager in the end; no signal has to arrive. The other modules check safety
only, and their specifications have no fairness: nothing obliges a user to go
on. `CHECK_DEADLOCK FALSE` appears in the runs of `ReadPipeline` and `ReadCommand`,
which end, and in `commands`, where the users stop at the bound of commands.

## 4. Proofs

All theorems are about the specification for every value of the constants
under the named assumptions of the modules:

* `ChatSpaceAssumption`, `NoTreeAssumption`, `PipelineAssumption`: the constants are
  of their kinds, and the values that stand for "nothing" are not among the others.
* `WorldsAssumption`: the signals that arrive are signals `pager_start` handles.
* `HistoryAssumption`: the history is a list of commits as git writes them, of
  any length, with any number of parents, headers and lines of text.
* `EnvironmentAssumption`: the environment of git-chat is a list of strings of any
  length over any alphabet, no name twice, none of them the null pointer. The code
  relies on the first part: `merge_env` keeps both strings of a name that comes
  twice, or drops one.
* `ConfigStoreAssumption`, `FilesAssumption`: keys on the command line have a
  component, and a file is a list of lines of any length: headings with any components
  (also none, `[]`), properties with a name and a value, and what cannot be parsed,
  which is where a property without a name belongs.
* `BrokenAssumption`: the mark for a file without a meaning is not itself a map
  from keys to values.
* `ParseOptionsAssumption`: what `strtol` makes of a text is an integer.
* `TerminalAssumption`: refs are pairs of a remote and a name, and `RefOrder`, the
  order of their full names, lists none twice, since no two refs have one name.
* `MessageCommandAssumption`: there are finitely many keys, some of them trusted.
* `CommandLineAssumption`: an argument vector is a sequence, and so is a cluster.
* `UsesAssumption`: `Uses` are documented uses, any number of them, each with any
  number of phrases.
* `SlopAssumption`: an array grows by two cells or more (by eight in the code).
* `SingleTerminal`, a hypothesis of some theorems about `ChatSpace`: one command
  at a time. It is needed: with two terminals and no fault, TLC finds a message that
  commits the keys another terminal is importing (`MessagesChangeNothing`), a
  channel whose section is committed to another one, because a switch came between
  (`ChannelsAreDescribed`), and an import that commits to a channel without the keys
  it had staged on the channel before the switch (`StagedKeysAreCommitted`).

| Theorem | Statement |
|---|---|
| `TypeCorrectness` | `ChatSpace` keeps its types |
| `KeyInvariance` | the inductive invariant `KeyInv` |
| `NoPartialKeyIsTracked`, `OneWriter`, `NobodyLeaves` | for any number of terminals, with or without faults |
| `OpenMessagesReachMembers` | `MembersCanRead`, for a single terminal |
| `SpaceImplementsMembership` | the refinement, for a single terminal |
| `PipelineTypes`, `StagesStayInOrder`, `SuccessIsComplete`, `PagerEndsFirst` | safety of the read pipeline for any history, pipe capacity, cut and pager |
| `PagerIsOutlived`, `SuccessIsRead` | `PagerEndsFirst` and `SuccessMeansRead` of `ReadCommand`, for any world, number of messages and number of signals |
| `NoPlaintextIsLeft`, `MessagesAreMeant` | `PlaintextIsWiped` and `MessageIsAsMeant` of `CommandLine`, for any number of terminals and any arguments |
| `ReadersAreRecipients` | `RecipientsCanRead`, for any keys, names, trust and arguments |
| `ChannelsAreListed`, `ListingsShowWhatDiffers` | `EveryChannelIsListed` and `ListShowsWhatDiffers`, for any refs, with refs moving at any time |
| `PhrasesAreUnderstood`, `OptionsUnderstood` | `parse_options` makes of any phrases, in any table whose flags differ, the assignments they stand for; `OptionsAreUnderstood`, for any documented uses |
| `ParseTakes`, `DocumentedUsesNeverCrash` | what a parse takes of any arguments, and when it reads a null pointer; `DocumentedUseNeverCrashes`, for any arguments and refs |
| `ParseStays`, `CommandTypes` | what `parse_options` returns, for any table and arguments; `TypeOK` of `CommandLine` |
| `MessagesGetThrough` | `MessagingIsPossible`, for any number of terminals |
| `ImportsAreCommitted`, `MessagesLeaveFilesAlone`, `ChannelsHaveSections` | `StagedKeysAreCommitted`, `MessagesChangeNothing` and `ChannelsAreDescribed`, for a single terminal |
| `PushKeeps`, `InsertKeeps`, `SortSorts` | an array of strings stays within its cells and loses no string, however it grows; sorted, it has the same strings in order |
| `MergeEnds`, `EnvironmentIsWhole` | what `merge_env` returns, for every environment; `EnvironmentIsMerged` of `ReadCommand` |
| `ParseReadsCommit`, `CommitsAreMeant` | `commit_parse` reads every commit as it was written; `CommitsAreParsed` |
| `MessagesAreRight`, `HeldKeysAreOpened` | `MessagesAreShown` and `HeldKeysOpen`, for any history, keyring and passphrase |
| `PagerIsThere` | `PagerIsFound`, for any files, PATH and variables |
| `TypesHold` | `TypeOK` of `ReadCommand`, the arrays of a merge within their cells |
| `ParseReads`, `FindMeans` | the parser accepts a file exactly if its lines are well-formed and name no key twice; looking a key up then finds what the lines say |
| `QueriesTellTheTruth` | `AnswersAreTrue` of `ConfigStore`, for every file, key and history of edits |
| `ConfigsAreTrees` | `TypeOK` of `ConfigStore`: sections form a tree, the visitor's stack fits its node |
| `SuccessIsStored` | `ReportedIsStored` of `ConfigStore`: a change that is reported is in the file, if the file parses |
| `WritesKeepOrder` | `WritesInOrder`: a file that is being written is the beginning of the depth-first text of its tree |
| `RewritingIsSettled` | `RewritingIsStable`: a file that was written, read back and written again is the same, line by line |
| `ConfigIsAMap` | `ImplementsKeyValue`: the config file refines the map of `KeyValue`, with kills, a full disk and editors |

*The key invariant.* `TrackedKeysAreWhole` is not inductive: a commit copies the
index, the index is copied from the working tree, and the working tree does
hold partial files. `KeyInv` adds `KeysFollow` (a key of the tip is in the index
and a key of the index is in the working tree, whole) and `KeysWritten` (a
process past `ExportWrite` has a whole file, and a file being written belongs to
one process: O_EXCL). Each git operation is one lemma: a commit, a move of the
working tree, an add.

*Open messages.* Between the rebuild of the keyring and the commit, the readers
must stay a superset of the usable members of HEAD (`MessageInPreparation`).
With two terminals a switch in between breaks it, so the theorem assumes one.

*Success of a read.* A stream that ended is complete only if its writer ended
well. `SuccessInv` says that the write end of each pipe is held by its writer
as long as it runs, that a child that ended well delivered all it was given,
and what git-chat knows in each step after its loop. Both exit statuses are
needed, and nothing else.

*The pager.* `PagerInv` says that each call of `pager_stop` on the stack that is
past its wait has collected the pager (`CallsWait`), that once `pager_start` is
through each of the five signals has its handler or is blocked by one that runs
(`Covered`), and that `finish_command` has forgotten only a pager that was
collected (`Collecting`). A handler that raised its signal ends with it, so the
stack never shrinks; this is what the nesting needs. `SuccessInv` adds that an
`exit(0)` is the first call on the stack, that a signal which was sent left a call
of its own there, and that what a pager reports stays to be read.

*The editor's files.* `PlaintextIsWiped` is not inductive: a terminal before its
first draft counts as using the file, and may fail without listing it as dirty.
`PlaintextInv` says that a text in the file belongs to a terminal between its
first draft and its wipe (`Editing`), or was given up. `MeantInv` says for each
step what an undisturbed command knows about the file, the screen and its buffer
(`OnTheWay`); a step of another terminal that changes the file marks it as disturbed.

*Who can read a message.* `encrypt_message_asym` compares the number of the keys it
found with the number of recipients, and nothing else; two recipients with one key and
one recipient with two would pass. `RecipientsCanRead` therefore speaks of recipients
that name at most one key each (`Plain`). `EachHasAKey` then is the pigeonhole
principle: the function from each key found to a recipient that names it is injective,
so as many keys as recipients leave no recipient without one. An earlier version of
`Plain` also asked that no key is named twice; the proof showed that the count sees
to this. `ReadersInv` carries the readers from the encryption to the commit, and says
that the recipients are a sequence, which rests on the parser (`ParseStays`): each turn
of its loop, whatever the argument and the table, leads from a state of its kind to
another, so the fold over the turns ends in one.

*Listings.* `ListedInv` says of each listing what holds before its next step (`Sound`).
While refs are read, the entries are those of the refs that were read (`Gathering`).
From the sort on, all that was read is either printed or to be printed, or its local
channel is; the entries left are in order, and those of a remote that is printed are
gone (`Printing`), which is why no group comes twice. `SortedAre` proves that placing
each entry by the number of entries before it is a sort: on an injective rank the
places are a permutation. As long as no ref has moved, the entries are the
refs as they are (`Current`). A step of `message` that commits, or of git in another
terminal, moves a ref, and marks each listing that runs.

*What is typed as documented.* `PhraseTurn` shows, for each way to spell an option, that
one turn of the loop of `parse_options` takes the arguments of the phrase and makes its
assignments. A long option is searched row by row (`SearchFinds`): no row before its own
has its name, and none after it changes what was found. A cluster of switches is a
fold of its own, of which each turn makes one assignment (`SwitchesAre`); what ends a
cluster takes the rest of it or the next argument. `PhrasesTurn` is the induction over
the phrases: after n turns the parse has made the assignments of the first n and is at
the arguments of the others. The ending stops it, and the turns that are left change
nothing (`EndedStays`). The tables of the commands have different flags
(`MessageIsDistinct` and its like); `UseParses` then goes through the two or three
parses of a use: main takes the passphrase and stops at the name of the command, whose
parse begins behind it.

*Which commands crash.* `ParseTakes` is about all arguments, documented or not. Each
turn takes one argument or two from the front (`TurnTakes`), a second one only as a
value; if no flag takes a value, as in the options of main (`MainFlags`), that is behind
a long option. So when main has nothing left to look a command up with, every
word it was given is such a value. `read` crashes at a flag that wants a number
and ends the arguments. A listing crashes when it meets an entry without a name, whose
ref `Printing` finds among the refs: they move, but none is created or deleted.
`NoCrashInv` says that a crashed command stays as it was. Planning this proof showed that
an earlier form of the property was false: it excused only command lines in which
every argument is an option, and `git chat --passphrase read` crashes too, `read` being
the value. The run had no such line; now it has one.

*What is staged.* `StagingInv` says that a staged key stays in the index until its
import commits it. `CleanInv` says who may have staged anything when no command was
cut short: a command that is about to commit the config, or an import that has
added a key. `DescribedInv` follows `init` and `channel create` from step to step:
the sections they carry (`loc[p].conf`), those in the file they write, those in the
index; and `TipsDescribed` excepts only the branch that is being made.

*What is shown.* `ShownInv` carries a commit from the object to the screen: the
object is that of the last commit (`Parsed`), gpg asks only for keys that are held
and locked (`Opening`), and what is about to be printed fits its kind. It rests on
`ParseReadsCommit`, which finds the lines of an object by their places; the blank
line ends the headers because no header is one. `KeysInv` adds that a descriptor
is used up only by an answer.

*The environment.* `MergeInv` has a part for each stage of `merge_env`. While it
copies, the arrays have the first strings of their lists (`Copies`). Afterwards the
environment is sorted (`Ranked`), and the result is made of the pager's variables
and of what the walk has taken in, each name once (`Collected`); in the walk, a
variable of the pager whose name is still to come is not yet passed (`Ahead`); when
strings are added, none is still to come (`Past`). The walk compares names, in an
order that the sort made by whole strings: `NamesOvertake` proves that the two
orders differ only where a name goes on with a character below `=`, which is why
the property excepts these names (`Overtaken`, `InPlace`) and no others. Working on
this proof showed that an earlier version of `ChildEnvironment` went back to the
walk after it had added a string; the code does not, and the model no longer does.

*What a config says.* `AnswersAreTrue` compares the answer of a query, which comes
from the tree that the parser built, with `Meaning`, which is read off the lines
without the parser: a property belongs to the last heading before it. `ReadTo` is
the invariant of the parse after n lines: as long as these are clear (`ClearTo`), the
section is that of the last heading, and the entries are those of the property lines,
each from its line (`Told`); from the first line on that is not, the parse has failed.
`LookupKeeps` shows that making the missing sections of a key touches no entry and
puts each section after the one it is in (`Nested`), which is also what the visitor
relies on when it goes down.

*What a config becomes.* `ReportedIsStored` is about the end of a command and the
refinement about every step; both rest on the invariant `Shape /\ Course`. `Shape`
has the kinds and the tree. `Course` says, from the first change of the tree to the
end of the write, that the tree in memory is the old map with the change that was
asked for (`Asked`, `Kept`), and that while the file is being written, its lines with
those that are pending say exactly what the visited sections have (`Underway`). Two
things make this enough at the end. The walk reaches every section, and each once:
`WalkGoesOn` shows that a step of `node_visitor_next` adds exactly the node it goes to
to those before it in the order of the index stack, and `WalkEnds` that none is left
when the stack runs out. And lines that were so written have a meaning, the map of
their tree (`Tells`, `Says`), provided every value can be carried by a line; one
that cannot spoils the file, which `KeyValue` grants (`AllCarried`). `ConfigIsAMap`
then maps each action: queries and lookups to a look (`LookMaps`), the opening of the
file to the change (`ChangeMaps`), lines to stutters, the ends of a write to the end of a
change (`EndMaps`), edits to edits (`EditMaps`).

*The order of the lines.* The text of a tree lists its nodes by their rank, the
number of nodes that come before them in the order of the ways down (`DepthFirst`);
the visitor knows no ranks, only its stack. `NextInOrder` shows that the node it goes
to has as rank the number of nodes it has been at, so what it has written is the
accumulator of the text at that number (`SoFar`, `InOrder`). For `RewritingIsStable`
the text is read back: after the lines of each node the parser has exactly the
sections and entries of the nodes so far (`Reread`, `Within`), its sections in the
order of the walk over the old tree, because a section that is made when a heading is
reached comes after all that are there (`Fits`, `LookupFits`). A tree whose sections
were made in the order of a walk is walked in that order (`WalksAgree`, `SameWalk`),
and nodes without entries leave no line (`Trimmed`), so the two texts are the same
(`SameText`).

*Folds.* The loops of `ConfigStore` are folds of the community modules. Their
definition chooses a recursive function; `PickUnfolds`, `ParseUnfolds` and
`MakeUnfolds` (and `TextUnfolds`, for the text) prove by induction that there is one, which turns a fold into a
sequence of accumulators. The loops of `parse_options` are folds over places, which
`FoldLoops` in `OrderLemmas` turns into a sequence of states, for any step that
stays in a set. An earlier version took the children and the entries of a
node with `SelectSeq`, and sorted the nodes with `SortSeq`, of which tlapm can prove
nothing, and wrote the parser as a
CASE with overlapping guards, which left open what follows a line that failed.

*Induction.* The library's induction theorems take an operator for the property,
which the installed provers cannot instantiate. `OrderLemmas` states induction for
a set of numbers instead, and derives it from the least element of a set, so that
facts about every length of a list can be proved.

Only model-checked: liveness (`ChatTerminates`, `AllTerminate`, `ListingsEnd`,
`ReadingEnds`), which depends on fairness and ENABLED. Every other property of a
passing run is the statement of a theorem.

## 5. Not modelled

* What is external: gpg, its agent and the keys' cryptography, git's storage, the
  text of messages, terminal formatting and the columns of a listing, logging.
* Extensions on PATH and the options of `init`, `config` and `import-key`. Vim is
  taken to save only when the user adds text.
* In the handlers of the pager: that `free` and stdio are not safe there, SIGKILL,
  and the redirection of stderr. `start_command`'s return to `sh -c` for a program
  without `#!`.
* What is in memory after a write past an array: `config_ninth` ends where the
  array no longer fits, and the stack of the node visitor, which grows in the same
  way at sixteen levels, is listed as a hazard. The capacity of string buffers
  (`strbuf.c`) is not modelled; they are values.
* Two concurrent writers of the config file overlay each other's bytes, which a
  model of lines cannot express.

Remarks on the code that no run states: `get_pager` reads the first of its three
variables each time, so `GIT_PAGER` and `PAGER` have no effect; a message commits
whatever an interrupted import left in the index, and an import announces keys
that were skipped because their file existed.

## 6. Plan

Done: the space with its faults and interleavings and its refinement; the read
pipeline; the read command with its pager, environment, parser and passphrases;
the config store with all operations; the command line with messages and
listings; proofs of every safety property that a passing run checks, of the
refinements of the membership and of the map, and of the grammar of the options.

Next, in this order:

1. `strbuf` edits with their capacity, as `StrArray` has it.
2. Two `config --set` that both parse before either writes, with a file of bytes.
