----------------------------- MODULE ReadPipeline -----------------------------
(***************************************************************************)
(* "git chat read": up to four processes joined by three pipes.            *)
(*                                                                         *)
(*   git rev-list --ids--> git cat-file --objs--> git-chat --out--> pager  *)
(*                                                                         *)
(* git-chat starts the pager, then the two git children, and reads commit  *)
(* objects until the end of the stream.  A pipe is at its end when no      *)
(* process holds its write end, and broken when none holds its read end:   *)
(* a child keeps every descriptor its parent had open at the fork, save    *)
(* those it closes itself and those marked close-on-exec.                  *)
(*                                                                         *)
(* The data in a pipe is a span of positions.  Commit n is the n-th id on  *)
(* ids, and the positions End[n-1]+1 .. End[n] of the object stream, which *)
(* the reads of git-chat cut anywhere.  The commands behind a message      *)
(* composed with --reply or --compose run the same traversal, without a    *)
(* pager.                                                                  *)
(***************************************************************************)
EXTENDS Integers

CONSTANTS
  N,            \* the number of commits that rev-list prints
  End,          \* End[n]: the position at which the object of commit n ends
  IdsCap,       \* the capacity of the pipe ids, in ids
  ObjsCap,      \* the capacity of the pipe objs, in positions
  OutCap,       \* the capacity of the pipe out, in messages
  ReadSize,     \* BUFF_LEN: the most that one read returns, in positions
  Malformed,    \* commits that commit_parse may refuse (0: none)
  Pagers,       \* the pagers a user may have: "none", "cat", "less"
  Faults        \* TRUE: children may be killed, or fail before execve

ASSUME PipelineAssumption ==
  /\ N \in Nat
  /\ End \in [0..N -> Nat]
  /\ End[0] = 0
  /\ \A m, n \in 0..N : m < n => End[m] < End[n]
  /\ IdsCap \in Nat \ {0} /\ ObjsCap \in Nat \ {0} /\ OutCap \in Nat \ {0}
  /\ ReadSize \in Nat \ {0}
  /\ Malformed \subseteq 0..N
  /\ Pagers \subseteq {"none", "cat", "less"}
  /\ Faults \in BOOLEAN

VARIABLES
  pc,           \* the next step of git-chat
  code,         \* how git-chat ends: "ok" or "fail"; "none" before
  pager,        \* the pager of this run: "less" waits for its user, "cat" does not
  malformed,    \* the commit that commit_parse refuses (0: none)
  state,        \* state[c]: the state of child c
  held,         \* held[p]: the pipe ends process p has open
  emitted,      \* ids written by rev-list
  taken,        \* ids read by cat-file
  wrote,        \* positions of the object stream written by cat-file
  got,          \* positions read by git-chat; those past End[parsed] are in its buffer
  parsed,       \* commits parsed
  eof,          \* the last read returned 0
  shown,        \* messages printed
  seen,         \* messages read by the pager
  disturbed     \* a child was killed or could not be executed (history variable)

vars == <<pc, code, pager, malformed, state, held, emitted, taken, wrote, got,
          parsed, eof, shown, seen, disturbed>>

Children == {"pager", "revlist", "catfile"}
Procs == Children \cup {"chat"}

Ends == {"ids_r", "ids_w", "objs_r", "objs_w", "out_r", "out_w"}

Held(e) == \E p \in Procs : e \in held[p]

Alive(c) == state[c] \in {"forked", "running"}
Ended(c) == state[c] \in {"done", "failed", "noexec"}

progress == <<emitted, taken, wrote, got, parsed, eof, shown, seen>>
chosen == <<pager, malformed>>

-----------------------------------------------------------------------------
(* git-chat starts its children.                                           *)

\* start_command: the child inherits every descriptor that is open.
Fork(c, fds) ==
  /\ state' = [state EXCEPT ![c] = "forked"]
  /\ held' = [held EXCEPT !["chat"] = fds, ![c] = fds]

\* pager_start, when stdout is a terminal ...
StartPager ==
  /\ pc = "start" /\ pager # "none"
  /\ Fork("pager", {"out_r", "out_w"})
  /\ pc' = "close_reader"
  /\ UNCHANGED <<code, chosen, progress, disturbed>>

\* Mutant: git-chat keeps the read end of the pager's pipe open.
CloseReaderNot ==
  /\ pc = "close_reader"
  /\ pc' = "start_revlist"
  /\ UNCHANGED <<code, chosen, state, held, progress, disturbed>>

\* ... git-chat writes to the pipe from here on.
CloseReader ==
  /\ pc = "close_reader"
  /\ held' = [held EXCEPT !["chat"] = @ \ {"out_r"}]
  /\ pc' = "start_revlist"
  /\ UNCHANGED <<code, chosen, state, progress, disturbed>>

\* ... and a plain write to stdout when it is not.
NoPager ==
  /\ pc = "start" /\ pager = "none"
  /\ pc' = "start_revlist"
  /\ UNCHANGED <<code, chosen, state, held, progress, disturbed>>

\* Both pipes are made before rev-list starts, which inherits the two of them.
StartRevList ==
  /\ pc = "start_revlist"
  /\ Fork("revlist", held["chat"] \cup {"ids_r", "ids_w", "objs_r", "objs_w"})
  /\ pc' = "start_catfile"
  /\ UNCHANGED <<code, chosen, progress, disturbed>>

StartCatFile ==
  /\ pc = "start_catfile"
  /\ Fork("catfile", held["chat"])
  /\ pc' = "close_ends"
  /\ UNCHANGED <<code, chosen, progress, disturbed>>

\* Mutant: git-chat keeps the write end of the ids pipe open.
CloseEndsButIds ==
  /\ pc = "close_ends"
  /\ held' = [held EXCEPT !["chat"] = @ \ {"ids_r", "objs_w"}]
  /\ pc' = "read"
  /\ UNCHANGED <<code, chosen, state, progress, disturbed>>

CloseEnds ==
  /\ pc = "close_ends"
  /\ held' = [held EXCEPT !["chat"] = @ \ {"ids_r", "ids_w", "objs_w"}]
  /\ pc' = "read"
  /\ UNCHANGED <<code, chosen, state, progress, disturbed>>

\* The ends a child closes, or marks close-on-exec, before execve.
Closes(c) == CASE c = "pager"   -> {"out_w"}
               [] c = "revlist" -> {"ids_r"}
               [] c = "catfile" -> {"ids_w", "objs_r"}

Exec(c) ==
  /\ state[c] = "forked"
  /\ state' = [state EXCEPT ![c] = "running"]
  /\ held' = [held EXCEPT ![c] = @ \ Closes(c)]
  /\ UNCHANGED <<pc, code, chosen, progress, disturbed>>

-----------------------------------------------------------------------------
(* git-chat reads: read_messages_single_pass, until the stream has ended   *)
(* and the buffer is empty.                                                *)

ReadObjects ==
  /\ pc = "read"
  /\ got < wrote
  /\ got' = IF wrote - got > ReadSize THEN got + ReadSize ELSE wrote
  /\ eof' = FALSE
  /\ pc' = "parse"
  /\ UNCHANGED <<code, chosen, state, held, emitted, taken, wrote, parsed,
                 shown, seen, disturbed>>

ReadEof ==
  /\ pc = "read"
  /\ got = wrote /\ ~Held("objs_w")
  /\ eof' = TRUE
  /\ pc' = "parse"
  /\ UNCHANGED <<code, chosen, state, held, emitted, taken, wrote, got, parsed,
                 shown, seen, disturbed>>

\* Mutant: only the summary line of the next commit is in the buffer.
CompleteSummary == parsed < N /\ got > End[parsed]

\* The whole object of the next commit is in the buffer.
Complete == parsed < N /\ got >= End[parsed + 1]

ParseObject ==
  /\ pc = "parse" /\ Complete
  /\ parsed + 1 # malformed
  /\ parsed' = parsed + 1
  /\ UNCHANGED <<pc, code, chosen, state, held, emitted, taken, wrote, got, eof,
                 shown, seen, disturbed>>

\* FATAL: the commits parsed by this pass are not shown.
ParseFails ==
  /\ pc = "parse" /\ Complete
  /\ parsed + 1 = malformed
  /\ code' = "fail"
  /\ pc' = "exiting"
  /\ UNCHANGED <<chosen, state, held, progress, disturbed>>

ParseEnds ==
  /\ pc = "parse" /\ ~Complete
  /\ pc' = "print"
  /\ UNCHANGED <<code, chosen, state, held, progress, disturbed>>

\* Mutant: the loop over the parsed commits runs once too often.
ShowTwice ==
  /\ pc = "print"
  /\ shown <= parsed
  /\ shown' = shown + 1
  /\ UNCHANGED <<pc, code, chosen, state, held, emitted, taken, wrote, got,
                 parsed, eof, seen, disturbed>>

\* The callback prints one message; it blocks as long as the pipe is full.
Show ==
  /\ pc = "print"
  /\ shown < parsed
  /\ pager = "none" \/ (shown - seen < OutCap /\ Held("out_r"))
  /\ shown' = shown + 1
  /\ UNCHANGED <<pc, code, chosen, state, held, emitted, taken, wrote, got,
                 parsed, eof, seen, disturbed>>

\* SIGPIPE: the handler stops the pager, and raises the signal again.
ShowBroken ==
  /\ pc = "print"
  /\ shown < parsed
  /\ pager # "none" /\ ~Held("out_r")
  /\ code' = "fail"
  /\ pc' = "exiting"
  /\ UNCHANGED <<chosen, state, held, progress, disturbed>>

PassEnds ==
  /\ pc = "print"
  /\ shown = parsed
  /\ pc' = IF eof /\ got = End[parsed] THEN "wait_revlist" ELSE "read"
  /\ UNCHANGED <<code, chosen, state, held, progress, disturbed>>

-----------------------------------------------------------------------------
(* finish_command and the end of git-chat.                                 *)

\* A child that failed before execve has said so on its notify pipe: FATAL.
FinishRevList ==
  /\ pc = "wait_revlist"
  /\ Ended("revlist")
  /\ IF state["revlist"] = "noexec"
     THEN pc' = "exiting" /\ code' = "fail" /\ UNCHANGED held
     ELSE /\ pc' = "wait_catfile"
          /\ held' = [held EXCEPT !["chat"] = @ \ {"objs_r"}]
          /\ UNCHANGED code
  /\ UNCHANGED <<chosen, state, progress, disturbed>>

\* Mutant: the exit status of the children is not looked at.
FinishCatFileAnyStatus ==
  /\ pc = "wait_catfile"
  /\ Ended("catfile")
  /\ code' = "ok"
  /\ pc' = "exiting"
  /\ UNCHANGED <<chosen, state, held, progress, disturbed>>

FinishCatFile ==
  /\ pc = "wait_catfile"
  /\ Ended("catfile")
  /\ code' = IF state["revlist"] = "done" /\ state["catfile"] = "done"
             THEN "ok" ELSE "fail"
  /\ pc' = "exiting"
  /\ UNCHANGED <<chosen, state, held, progress, disturbed>>

\* Without a pager nothing is left to do.
ExitPlain ==
  /\ pc = "exiting" /\ pager = "none"
  /\ held' = [held EXCEPT !["chat"] = {}]
  /\ pc' = "exited"
  /\ UNCHANGED <<code, chosen, state, progress, disturbed>>

\* pager_stop, run by atexit or by a signal handler: git-chat closes stdout,
\* stderr and the pipe ...
StopPager ==
  /\ pc = "exiting" /\ pager # "none"
  /\ held' = [held EXCEPT !["chat"] = @ \ {"out_w"}]
  /\ pc' = "wait_pager"
  /\ UNCHANGED <<code, chosen, state, progress, disturbed>>

\* Mutant: git-chat exits without waiting.
FinishPagerAtOnce ==
  /\ pc = "wait_pager"
  /\ held' = [held EXCEPT !["chat"] = {}]
  /\ pc' = "exited"
  /\ UNCHANGED <<code, chosen, state, progress, disturbed>>

\* ... and waits for the pager, holding its other descriptors.
FinishPager ==
  /\ pc = "wait_pager"
  /\ Ended("pager")
  /\ code' = IF state["pager"] = "noexec" THEN "fail" ELSE code
  /\ held' = [held EXCEPT !["chat"] = {}]
  /\ pc' = "exited"
  /\ UNCHANGED <<chosen, state, progress, disturbed>>

-----------------------------------------------------------------------------
(* The children.                                                           *)

EndsAs(c, how) ==
  /\ state' = [state EXCEPT ![c] = how]
  /\ held' = [held EXCEPT ![c] = {}]

RevListWrite ==
  /\ state["revlist"] = "running"
  /\ emitted < N /\ emitted - taken < IdsCap /\ Held("ids_r")
  /\ emitted' = emitted + 1
  /\ UNCHANGED <<pc, code, chosen, state, held, taken, wrote, got, parsed, eof,
                 shown, seen, disturbed>>

RevListEnds ==
  /\ state["revlist"] = "running"
  /\ \/ emitted = N /\ EndsAs("revlist", "done")
     \/ emitted < N /\ ~Held("ids_r") /\ EndsAs("revlist", "failed")
  /\ UNCHANGED <<pc, code, chosen, progress, disturbed>>

CatFileTake ==
  /\ state["catfile"] = "running"
  /\ wrote = End[taken] /\ taken < emitted
  /\ taken' = taken + 1
  /\ UNCHANGED <<pc, code, chosen, state, held, emitted, wrote, got, parsed, eof,
                 shown, seen, disturbed>>

CatFileWrite ==
  /\ state["catfile"] = "running"
  /\ wrote < End[taken] /\ wrote - got < ObjsCap /\ Held("objs_r")
  /\ wrote' = wrote + 1
  /\ UNCHANGED <<pc, code, chosen, state, held, emitted, taken, got, parsed, eof,
                 shown, seen, disturbed>>

CatFileEnds ==
  /\ state["catfile"] = "running"
  /\ \/ /\ wrote = End[taken] /\ taken = emitted /\ ~Held("ids_w")
        /\ EndsAs("catfile", "done")
     \/ /\ wrote < End[taken] /\ ~Held("objs_r")
        /\ EndsAs("catfile", "failed")
  /\ UNCHANGED <<pc, code, chosen, progress, disturbed>>

PagerRead ==
  /\ state["pager"] = "running"
  /\ seen < shown
  /\ seen' = seen + 1
  /\ UNCHANGED <<pc, code, chosen, state, held, emitted, taken, wrote, got,
                 parsed, eof, shown, disturbed>>

\* cat ends with its input; the user of less quits at any time.
PagerEnds ==
  /\ state["pager"] = "running"
  /\ pager = "cat" => seen = shown /\ ~Held("out_w")
  /\ EndsAs("pager", "done")
  /\ UNCHANGED <<pc, code, chosen, progress, disturbed>>

-----------------------------------------------------------------------------
(* Faults.                                                                 *)

Kill(c) ==
  /\ Faults
  /\ state[c] = "running"
  /\ EndsAs(c, "failed")
  /\ disturbed' = TRUE
  /\ UNCHANGED <<pc, code, chosen, progress>>

\* child_exit_routine: the status is written to the notify pipe.
ExecFails(c) ==
  /\ Faults
  /\ state[c] = "forked"
  /\ EndsAs(c, "noexec")
  /\ disturbed' = TRUE
  /\ UNCHANGED <<pc, code, chosen, progress>>

\* Ctrl-C reaches the whole foreground group.  less lives on; git-chat stops
\* the pager from its handler.
Interrupt ==
  /\ Faults
  /\ pc \notin {"start", "close_reader", "exited"}
  /\ \E hit \in {{"revlist", "catfile"}, Children} :
       LET dead == {c \in hit : Alive(c)}
       IN /\ state' = [c \in Children |-> IF c \in dead THEN "failed" ELSE state[c]]
          /\ held' = [p \in Procs |-> IF p \in dead THEN {} ELSE held[p]]
  /\ code' = "fail"
  /\ pc' = IF pc = "wait_pager" THEN pc ELSE "exiting"
  /\ disturbed' = TRUE
  /\ UNCHANGED <<chosen, progress>>

-----------------------------------------------------------------------------
Init ==
  /\ pc = "start"
  /\ code = "none"
  /\ pager \in Pagers
  /\ malformed \in Malformed
  /\ state = [c \in Children |-> "none"]
  /\ held = [p \in Procs |-> {}]
  /\ emitted = 0 /\ taken = 0 /\ wrote = 0 /\ got = 0 /\ parsed = 0
  /\ eof = FALSE
  /\ shown = 0 /\ seen = 0
  /\ disturbed = FALSE

Chat ==
  \/ StartPager \/ CloseReader \/ NoPager \/ StartRevList \/ StartCatFile
  \/ CloseEnds \/ ReadObjects \/ ReadEof \/ ParseObject \/ ParseFails
  \/ ParseEnds \/ Show \/ ShowBroken \/ PassEnds \/ FinishRevList
  \/ FinishCatFile \/ ExitPlain \/ StopPager \/ FinishPager

RevList == Exec("revlist") \/ RevListWrite \/ RevListEnds
CatFile == Exec("catfile") \/ CatFileTake \/ CatFileWrite \/ CatFileEnds
Pager == Exec("pager") \/ PagerRead \/ PagerEnds

Fault == Interrupt \/ \E c \in Children : Kill(c) \/ ExecFails(c)

Next == Chat \/ RevList \/ CatFile \/ Pager \/ Fault

\* Every process is scheduled; the user of less quits in the end, and need
\* not look at everything before.
Fairness ==
  /\ WF_vars(Chat) /\ WF_vars(RevList) /\ WF_vars(CatFile)
  /\ WF_vars(Exec("pager")) /\ WF_vars(PagerEnds)
  /\ WF_vars(pager = "cat" /\ PagerRead)

Spec == Init /\ [][Next]_vars /\ Fairness
-----------------------------------------------------------------------------
(* Properties.                                                             *)

\* Every variable holds a value of its kind.
TypeOK ==
  /\ pc \in {"start", "close_reader", "start_revlist", "start_catfile",
             "close_ends", "read", "parse", "print", "wait_revlist",
             "wait_catfile", "exiting", "wait_pager", "exited"}
  /\ code \in {"none", "ok", "fail"}
  /\ pager \in {"none", "cat", "less"}
  /\ malformed \in 0..N
  /\ state \in [Children -> {"none", "forked", "running", "done", "failed", "noexec"}]
  /\ held \in [Procs -> SUBSET Ends]
  /\ emitted \in 0..N /\ taken \in 0..N
  /\ wrote \in Nat /\ got \in Nat
  /\ parsed \in 0..N /\ shown \in 0..N /\ seen \in 0..N
  /\ eof \in BOOLEAN /\ disturbed \in BOOLEAN

\* Each stage stays behind the one before it: git-chat parses an object only
\* when all of it was read, however the reads cut the stream, and prints only
\* what it parsed.
StagesInOrder ==
  /\ seen <= shown /\ shown <= parsed
  /\ End[parsed] <= got /\ got <= wrote /\ wrote <= End[taken]
  /\ taken <= emitted

\* "git chat read" succeeds only if every message was printed: a child that
\* was killed or never ran, and so cut the stream, makes it fail.  The exit
\* statuses of the two children are the only evidence it has.
SuccessMeansAllShown == code = "ok" => shown = N

\* git-chat never gives the terminal back while the pager runs, whether it
\* ends by itself, by FATAL, by SIGPIPE or by Ctrl-C.
PagerIsWaitedFor == pc = "exited" => ~Alive("pager")

AllEnded ==
  pc = "exited" /\ \A c \in Children : state[c] = "none" \/ Ended(c)

\* git-chat ends, whatever the pager does: the end of the object stream, or
\* the broken pipe of a pager that was quit, reaches it through descriptors
\* that every other process inherited at its fork.
ChatTerminates == malformed = 0 => <>(disturbed \/ pc = "exited")

\* Unless the user quits the pager early, git's processes end as well.
AllTerminate == malformed = 0 /\ pager # "less" => <>(disturbed \/ AllEnded)

(* Stated by the documentation; not what the code does.                    *)

\* include/paging.h: the user terminates the pager, which will in turn halt
\* the git-chat runtime.
PagerQuitHaltsRuntime == state["pager"] = "done" ~> AllEnded

\* include/git/graph-traversal.h: negative is returned if an error occurred.
CatFileFailureIsReported == state["catfile"] = "failed" ~> code = "fail"

\* include/utils.h: FATAL prints, and the application exits.
FatalExits == code = "fail" ~> pc = "exited"
=============================================================================
