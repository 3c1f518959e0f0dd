-------------------------------- MODULE Pager --------------------------------
(***************************************************************************)
(* pager_start and pager_stop: git-chat chooses a pager, starts it with an *)
(* environment of its own, and must not end before the pager has.          *)
(*                                                                         *)
(* pager_stop runs from exit() and from the handler of five signals, and a *)
(* signal may arrive between any two of its steps, so the calls that are   *)
(* under way form a stack.  A signal whose handler runs is blocked; exit() *)
(* runs pager_stop once, and an exit() inside an exit() ends the process.  *)
(* ReadPipeline has the descriptors; here the pager is one that its user   *)
(* leaves in the end.                                                      *)
(***************************************************************************)
EXTENDS ChildEnvironment

CONSTANT
  MaxSignals    \* bound: how many signals are sent

VARIABLES
  world,        \* what the command finds; it does not change
  pc,           \* the next step of git-chat, when no call of the stack runs
  program,      \* the program that get_pager and start_command settled on
  merge,        \* merge_env, while it runs
  given,        \* the environment given to execve
  pager,        \* "none", "forked", "running" or "ended"
  collected,    \* waitpid has collected the pager
  pid,          \* cmd.pid is not -1
  report,       \* the child wrote to the notify pipe that it could not run
  registered,   \* how many of PagerSignals were registered
  handled,      \* the signals whose action is pager_stop_signal
  armed,        \* atexit was called
  exiting,      \* exit() has called pager_stop_exit
  stack,        \* the calls of pager_stop under way, the innermost last
  pending,      \* signals that wait for their handler to return
  sent,         \* the number of signals sent so far (history variable)
  end           \* "none", "success", "failure" or "killed"

setup == <<program, merge, given>>
child == <<pager, collected, pid, report>>
process == <<registered, handled, armed, exiting, stack, pending, sent, end>>
pagerVars == <<world, pc, setup, child, process>>

Ends == {"none", "success", "failure", "killed"}

\* git-chat itself runs: it has not ended, and no handler is under way.
Running == end = "none" /\ stack = << >>

Goto(step) == pc' = step

Call(sig, status) == [signal |-> sig, status |-> status, step |-> "wait"]

\* exit(status): pager_stop_exit runs first, if it was registered.
Exits(status) ==
  IF armed /\ ~exiting
    THEN /\ stack' = Append(stack, Call(Null, status))
         /\ exiting' = TRUE
         /\ UNCHANGED end
    ELSE /\ end' = status
         /\ UNCHANGED <<stack, exiting>>

-----------------------------------------------------------------------------
(* The choice of the pager.  A file is a directory and a name; a name that *)
(* was given without a slash has the directory "".                         *)

File(dir, name) == [dir |-> dir, name |-> name]

\* find_in_path
FindInPath(name) == IF name \in world.onPath THEN File("PATH", name) ELSE Null

\* is_executable: a name without a slash is looked for in this directory.
IsExecutable(file) == file \in world.files

Fallback ==
  LET found == SelectInSeq(<<"less", "more", "cat">>, LAMBDA name : name \in world.onPath)
  IN  IF found = 0 THEN Null ELSE FindInPath(<<"less", "more", "cat">>[found])

\* Mutant: the buffer is not cleared, and the fallback is appended to it.
GetPagerKept ==
  IF world.pagerVar = Null THEN Fallback
  ELSE IF IsExecutable(world.pagerVar) \/ Fallback = Null THEN world.pagerVar
  ELSE File(world.pagerVar.dir, "joined")

\* Of the variables only GIT_CHAT_PAGER is read, whatever the others hold.
GetPager ==
  IF world.pagerVar # Null /\ IsExecutable(world.pagerVar)
    THEN world.pagerVar
    ELSE Fallback

\* start_command: a name without a slash is looked for in PATH.
Located(file) == IF file.dir = "" THEN FindInPath(file.name) ELSE file

\* stdout is not a terminal.
NoPager ==
  /\ Running /\ pc = "pager" /\ ~world.tty
  /\ Goto("next")
  /\ UNCHANGED <<world, setup, child, process>>

ChoosePager ==
  /\ Running /\ pc = "pager" /\ world.tty
  /\ GetPager # Null
  /\ program' = GetPager
  /\ Goto("locate")
  /\ UNCHANGED <<world, merge, given, child, process>>

LocatePager ==
  /\ Running /\ pc = "locate"
  /\ Located(program) # Null
  /\ program' = Located(program)
  /\ merge' = MergeStarts(world.environ, PagerVariables)
  /\ Goto("merge")
  /\ UNCHANGED <<world, given, child, process>>

PagerNotFound ==
  /\ Running
  /\ \/ pc = "pager" /\ world.tty /\ GetPager = Null
     \/ pc = "locate" /\ Located(program) = Null
  /\ Exits("failure")
  /\ UNCHANGED <<world, pc, setup, child, registered, handled, armed, pending, sent>>

-----------------------------------------------------------------------------
(* start_command and the rest of pager_start.                              *)

MergeEnv ==
  /\ Running /\ pc = "merge"
  /\ \/ Copying(merge) /\ merge' = CopyString(merge)
     \/ Copied(merge) /\ merge' = SortBoth(merge)
     \/ Walking(merge) /\ merge' = MergeStep(merge)
     \/ Adding(merge) /\ merge' = AddString(merge)
  /\ UNCHANGED <<world, pc, program, given, child, process>>

\* fork; stdout becomes the pipe to the pager.
ForkPager ==
  /\ Running /\ pc = "merge"
  /\ Merged(merge)
  /\ given' = Detached(merge.result)
  /\ merge' = Null
  /\ pager' = "forked"
  /\ pid' = TRUE
  /\ Goto("register")
  /\ UNCHANGED <<world, program, collected, report, process>>

\* Mutant: a signal is forgotten.
PagerSignalsFewer == <<"INT", "HUP", "QUIT", "PIPE">>

PagerSignals == <<"INT", "HUP", "TERM", "QUIT", "PIPE">>

RegisterSignal ==
  /\ Running /\ pc = "register"
  /\ registered' = registered + 1
  /\ handled' = handled \cup {PagerSignals[registered + 1]}
  /\ Goto(IF registered + 1 = Len(PagerSignals) THEN "atexit" ELSE "register")
  /\ UNCHANGED <<world, setup, child, armed, exiting, stack, pending, sent, end>>

RegisterExit ==
  /\ Running /\ pc = "atexit"
  /\ armed' = TRUE
  /\ Goto("next")
  /\ UNCHANGED <<world, setup, child, registered, handled, exiting, stack, pending,
                 sent, end>>

StartPager == NoPager \/ ChoosePager \/ LocatePager \/ PagerNotFound \/ MergeEnv
              \/ ForkPager \/ RegisterSignal \/ RegisterExit

-----------------------------------------------------------------------------
(* The pager, and the signals.                                             *)

PagerRuns ==
  /\ pager = "forked" /\ ~world.broken
  /\ pager' = "running"
  /\ UNCHANGED <<world, pc, setup, collected, pid, report, process>>

\* execve fails: the child tells its parent and is gone.
PagerFails ==
  /\ pager = "forked" /\ world.broken
  /\ pager' = "ended"
  /\ report' = TRUE
  /\ UNCHANGED <<world, pc, setup, collected, pid, process>>

\* The user leaves the pager, at any time.
PagerEnds ==
  /\ pager = "running"
  /\ pager' = "ended"
  /\ UNCHANGED <<world, pc, setup, collected, pid, report, process>>

Blocked == {stack[i].signal : i \in DOMAIN stack}

Signalled(sig) ==
  /\ stack' = IF sig \in handled \ Blocked THEN Append(stack, Call(sig, "killed"))
                                           ELSE stack
  /\ pending' = IF sig \in Blocked THEN pending \cup {sig} ELSE pending
  /\ end' = IF sig \in handled \cup Blocked THEN end ELSE "killed"
  /\ UNCHANGED exiting

\* Somebody sends a signal to git-chat.
Signal ==
  /\ end = "none" /\ sent < MaxSignals
  /\ \E sig \in world.signals : Signalled(sig)
  /\ sent' = sent + 1
  /\ UNCHANGED <<world, pc, setup, child, registered, handled, armed>>

-----------------------------------------------------------------------------
(* pager_stop, one step of the innermost call at a time.                   *)

Top == stack[Len(stack)]
AtStep(step) == end = "none" /\ stack # << >> /\ Top.step = step
Step(step) == stack' = [stack EXCEPT ![Len(stack)].step = step]

\* Mutant: the loop goes on for any error of waitpid, ECHILD among them.
StopWaitsForever ==
  /\ AtStep("wait") /\ pid
  /\ pager = "ended" /\ ~collected
  /\ collected' = TRUE
  /\ Step("finish")
  /\ UNCHANGED <<world, pc, setup, pager, pid, report, registered, handled, armed,
                 exiting, pending, sent, end>>

\* The descriptors are closed, and waitpid returns once the pager has ended,
\* or at once when an outer call has already collected it.
StopWaits ==
  /\ AtStep("wait") /\ pid
  /\ pager = "ended"
  /\ collected' = TRUE
  /\ Step("finish")
  /\ UNCHANGED <<world, pc, setup, pager, pid, report, registered, handled, armed,
                 exiting, pending, sent, end>>

\* BUG: an outer call has been through finish_command.
StopFindsNoPid ==
  /\ AtStep("wait") /\ ~pid
  /\ Exits("failure")
  /\ UNCHANGED <<world, pc, setup, child, registered, handled, armed, pending, sent>>

\* FATAL: the pager reported that it could not run, which is read once.
StopFindsReport ==
  /\ AtStep("finish") /\ report
  /\ report' = FALSE
  /\ Exits("failure")
  /\ UNCHANGED <<world, pc, setup, pager, collected, pid, registered, handled, armed,
                 pending, sent>>

StopFinishes ==
  /\ AtStep("finish") /\ ~report
  /\ pid' = FALSE
  /\ Step("release")
  /\ UNCHANGED <<world, pc, setup, pager, collected, report, registered, handled, armed,
                 exiting, pending, sent, end>>

\* pager_stop_exit is done, and exit() ends the process.
StopExits ==
  /\ AtStep("release") /\ Top.signal = Null
  /\ end' = Top.status
  /\ UNCHANGED <<world, pc, setup, child, registered, handled, armed, exiting, stack,
                 pending, sent>>

\* Mutant: the handler does not raise the signal again.
StopKeepsSignal ==
  /\ AtStep("release") /\ Top.signal # Null
  /\ handled' = handled \ {Top.signal}
  /\ Step("return")
  /\ UNCHANGED <<world, pc, setup, child, registered, armed, exiting, pending, sent, end>>

\* pager_stop_signal restores the default action and raises the signal ...
StopRaises ==
  /\ AtStep("release") /\ Top.signal # Null
  /\ handled' = handled \ {Top.signal}
  /\ pending' = pending \cup {Top.signal}
  /\ Step("return")
  /\ UNCHANGED <<world, pc, setup, child, registered, armed, exiting, sent, end>>

\* ... which the return from the handler unblocks.
StopReturns ==
  /\ AtStep("return")
  /\ IF Top.signal \in pending
       THEN end' = "killed" /\ UNCHANGED stack
       ELSE stack' = SubSeq(stack, 1, Len(stack) - 1) /\ UNCHANGED end
  /\ UNCHANGED <<world, pc, setup, child, registered, handled, armed, exiting, pending,
                 sent>>

StopPager == StopWaits \/ StopFindsNoPid \/ StopFindsReport \/ StopFinishes
             \/ StopExits \/ StopRaises \/ StopReturns
=============================================================================
