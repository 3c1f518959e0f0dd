--------------------------- MODULE ReadCommandProofs ---------------------------
(***************************************************************************)
(* git chat read and its pager, for every world, any number of messages    *)
(* and any number of signals, each inside any other.                       *)
(***************************************************************************)
EXTENDS ReadCommand, TLAPS

Steps == {"wait", "finish", "release", "return"}
Signals == ToSet(PagerSignals)
Calls == [signal : Signals \cup {Null}, status : Ends \ {"none"}, step : Steps]

Early == {"context", "pager", "locate", "merge"}

-----------------------------------------------------------------------------
(* The stack of the calls of pager_stop.                                   *)

\* A call that is pushed leaves the calls below as they are.
LEMMA PushedStack ==
  ASSUME stack \in Seq(Calls), NEW c \in Calls, stack' = Append(stack, c)
  PROVE  /\ stack' \in Seq(Calls) /\ stack' # << >>
         /\ Len(stack') = Len(stack) + 1
         /\ \A i \in DOMAIN stack : stack'[i] = stack[i]
         /\ stack'[Len(stack) + 1] = c
         /\ Blocked' = Blocked \cup {c.signal}
  <1>1. /\ stack' \in Seq(Calls) /\ stack' # << >>
        /\ Len(stack') = Len(stack) + 1 /\ Len(stack) \in Nat
        /\ \A i \in DOMAIN stack : stack'[i] = stack[i]
        /\ stack'[Len(stack) + 1] = c
        /\ DOMAIN stack = 1..Len(stack) /\ DOMAIN stack' = 1..Len(stack) + 1
    OBVIOUS
  <1>2. ASSUME NEW x \in Blocked' PROVE x \in Blocked \cup {c.signal}
    BY <1>1 DEF Blocked
  <1>3. ASSUME NEW x \in Blocked \cup {c.signal} PROVE x \in Blocked'
    BY <1>1 DEF Blocked
  <1>4. QED
    BY <1>1, <1>2, <1>3

\* The innermost call takes a step, and the signals stay blocked.
LEMMA SteppedStack ==
  ASSUME stack \in Seq(Calls), stack # << >>, NEW s \in Steps, Step(s)
  PROVE  /\ stack' \in Seq(Calls) /\ stack' # << >>
         /\ Len(stack') = Len(stack)
         /\ \A i \in DOMAIN stack : /\ i # Len(stack) => stack'[i] = stack[i]
                                    /\ stack'[i].signal = stack[i].signal
                                    /\ stack'[i].status = stack[i].status
         /\ stack'[Len(stack)].step = s
         /\ Blocked' = Blocked
  <1>1. Len(stack) \in DOMAIN stack /\ stack[Len(stack)] \in Calls
        /\ DOMAIN stack = 1..Len(stack) /\ Len(stack) \in Nat
    OBVIOUS
  <1> DEFINE top == [stack[Len(stack)] EXCEPT !.step = s]
  <1>2. top \in Calls /\ top.signal = stack[Len(stack)].signal
        /\ top.status = stack[Len(stack)].status /\ top.step = s
    BY <1>1 DEF Calls
  <1>3. stack' = [stack EXCEPT ![Len(stack)] = top]
    BY DEF Step
  <1> HIDE DEF top
  <1>4. /\ stack' \in Seq(Calls) /\ stack' # << >>
        /\ Len(stack') = Len(stack) /\ DOMAIN stack' = DOMAIN stack
        /\ \A i \in DOMAIN stack : i # Len(stack) => stack'[i] = stack[i]
        /\ stack'[Len(stack)] = top
    BY <1>1, <1>2, <1>3
  <1>5. \A i \in DOMAIN stack : /\ stack'[i].signal = stack[i].signal
                                /\ stack'[i].status = stack[i].status
    BY <1>2, <1>4
  <1>6. Blocked' = Blocked
    BY <1>4, <1>5 DEF Blocked
  <1>7. QED
    BY <1>2, <1>4, <1>5, <1>6

-----------------------------------------------------------------------------
(* The invariant.                                                          *)

\* Before the pager is forked nothing of it is there to stop.
NotStarted ==
  pager = "none" => handled = {} /\ ~armed /\ stack = << >>

\* The pager is collected when it has ended, and finish_command forgets it
\* only then.
Collecting ==
  /\ collected => pager = "ended"
  /\ pager # "none" => pid \/ collected
  /\ pc \in Early => pager = "none" /\ registered = 0
  /\ pc \in {"register", "atexit"} => pager # "none"

\* A call that has waited has collected the pager, and a handler that has
\* raised its signal ends with it.
CallsWait ==
  /\ stack \in Seq(Calls)
  /\ \A i \in DOMAIN stack :
       /\ stack[i].step # "wait" => collected
       /\ stack[i].step = "return" => stack[i].signal \in pending
  /\ exiting => stack # << >>

\* While pager_start registers, and no handler runs, nothing is unregistered;
\* afterwards each of the signals is handled or blocked.
Covered ==
  /\ pc = "register" /\ stack = << >> =>
       /\ registered \in 0..4
       /\ \A i \in 1..registered : PagerSignals[i] \in handled
  /\ pc = "atexit" /\ stack = << >> => Signals \subseteq handled
  /\ armed => Signals \subseteq handled \cup Blocked

PagerInv ==
  /\ world \in Worlds /\ NotStarted /\ Collecting /\ CallsWait /\ Covered
  /\ PagerEndsFirst

\* What the invariant is about.
control == <<world, pc, pager, collected, pid, registered, handled, armed, exiting,
             stack, pending, end>>

-----------------------------------------------------------------------------
(* What exit() and a signal do to it.                                      *)

LEMMA SignalList == Signals = {"INT", "HUP", "TERM", "QUIT", "PIPE"} /\ Len(PagerSignals) = 5
  BY DEF Signals, ToSet, PagerSignals

\* exit() keeps the invariant where git-chat itself runs, and in a call of
\* pager_stop whose pager was collected.
LEMMA ExitKeeps ==
  ASSUME PagerInv, NEW s \in Ends \ {"none"}, Exits(s), end = "none",
         stack = << >> \/ collected,
         UNCHANGED <<world, pc, pager, collected, pid, registered, handled, armed, pending>>
  PROVE  PagerInv'
  <1>1. CASE armed /\ ~exiting
    <2> DEFINE c == Call(Null, s)
    <2>1. c \in Calls /\ c.step = "wait" /\ stack' = Append(stack, c) /\ end' = "none"
      BY <1>1 DEF Calls, Call, Exits, Steps
    <2> HIDE DEF c
    <2>2. stack \in Seq(Calls)
      BY DEF PagerInv, CallsWait
    <2>3. /\ stack' \in Seq(Calls) /\ stack' # << >> /\ Len(stack') = Len(stack) + 1
          /\ \A i \in DOMAIN stack : stack'[i] = stack[i]
          /\ stack'[Len(stack) + 1] = c /\ Blocked' = Blocked \cup {c.signal}
      BY <2>1, <2>2, PushedStack
    <2>4. DOMAIN stack' = DOMAIN stack \cup {Len(stack) + 1}
      BY <2>2, <2>3
    <2>5. CallsWait'
      BY <2>1, <2>3, <2>4 DEF PagerInv, CallsWait
    <2>6. Covered' /\ NotStarted' /\ Collecting' /\ PagerEndsFirst'
      BY <1>1, <2>1, <2>3 DEF PagerInv, Covered, NotStarted, Collecting, PagerEndsFirst, Signals
    <2>7. QED
      BY <2>5, <2>6 DEF PagerInv
  <1>2. CASE ~(armed /\ ~exiting)
    <2>1. UNCHANGED <<stack, exiting>>
      BY <1>2 DEF Exits
    <2>2. PagerEndsFirst'
      BY <1>2, <2>1 DEF PagerInv, PagerEndsFirst, CallsWait, Collecting
    <2>3. QED
      BY <2>1, <2>2 DEF PagerInv, NotStarted, Collecting, CallsWait, Covered, Blocked, Signals
  <1>3. QED
    BY <1>1, <1>2

\* A signal keeps the invariant, whenever it arrives.
LEMMA SignalKeeps ==
  ASSUME PagerInv, NEW sig \in Signals, Signalled(sig), end = "none",
         UNCHANGED <<world, pc, pager, collected, pid, registered, handled, armed>>
  PROVE  PagerInv'
  <1>0. pending \subseteq pending' /\ UNCHANGED exiting
    BY DEF Signalled
  <1>1. CASE sig \in handled \ Blocked
    <2> DEFINE c == Call(sig, "killed")
    <2>1. c \in Calls /\ c.step = "wait" /\ stack' = Append(stack, c) /\ end' = "none"
      BY <1>1 DEF Calls, Call, Signalled, Steps, Ends
    <2> HIDE DEF c
    <2>2. stack \in Seq(Calls)
      BY DEF PagerInv, CallsWait
    <2>3. /\ stack' \in Seq(Calls) /\ stack' # << >> /\ Len(stack') = Len(stack) + 1
          /\ \A i \in DOMAIN stack : stack'[i] = stack[i]
          /\ stack'[Len(stack) + 1] = c /\ Blocked' = Blocked \cup {c.signal}
      BY <2>1, <2>2, PushedStack
    <2>4. DOMAIN stack' = DOMAIN stack \cup {Len(stack) + 1}
      BY <2>2, <2>3
    <2>5. CallsWait'
      BY <1>0, <2>1, <2>3, <2>4 DEF PagerInv, CallsWait
    <2>6. Covered' /\ NotStarted' /\ Collecting' /\ PagerEndsFirst'
      BY <1>1, <2>1, <2>3 DEF PagerInv, Covered, NotStarted, Collecting, PagerEndsFirst, Signals
    <2>7. QED
      BY <2>5, <2>6 DEF PagerInv
  <1>2. CASE sig \notin handled \ Blocked
    <2>1. UNCHANGED stack
      BY <1>2 DEF Signalled
    <2>2. armed => end' = "none"
      BY DEF PagerInv, Covered, Signalled
    <2>3. PagerEndsFirst'
      BY <2>2 DEF PagerEndsFirst
    <2>4. QED
      BY <1>0, <2>1, <2>3 DEF PagerInv, NotStarted, Collecting, CallsWait, Covered, Blocked, Signals
  <1>3. QED
    BY <1>1, <1>2

-----------------------------------------------------------------------------
(* The steps, by what they do to it.                                       *)

\* git-chat goes on, before the pager or after it was started.
Going ==
  \/ InitContext \/ NextCommit \/ Parse \/ IsPlain \/ KeyMissing \/ Decrypt \/ Ask
  \/ AnswerPassphrase \/ WriteHeader \/ WriteBody
  \/ ((NoPager \/ ChoosePager \/ LocatePager \/ MergeEnv) /\ Still)

Leaving == NoContext \/ Malformed \/ AllRead \/ (PagerNotFound /\ Still)

Beginning == (ForkPager \/ RegisterSignal \/ RegisterExit) /\ Still

Stopping == StopPager /\ Still

ThePager == PagerBegins \/ PagerIsLeft

\* Every step is of one of these kinds, or a signal.
LEMMA Kinds ==
  Next => Going \/ Leaving \/ Beginning \/ Stopping \/ ThePager \/ SignalArrives \/ WriteBreaks
  BY DEF Next, Chat, ReadMessages, StartPager, Going, Leaving, Beginning, Stopping, ThePager

\* The start.
LEMMA InitPager == Init => PagerInv
  <1> SUFFICES ASSUME Init PROVE PagerInv
    OBVIOUS
  <1>1. stack \in Seq(Calls) /\ DOMAIN stack = {}
    BY DEF Init
  <1>2. QED
    BY <1>1 DEF Init, PagerInv, NotStarted, Collecting, CallsWait, Covered, PagerEndsFirst, Early

\* Going on touches the step alone, and never goes back to before the start.
LEMMA GoingStep ==
  Going => /\ UNCHANGED <<world, child, process>>
           /\ pc' \in Early => pc \in Early
           /\ pc' \notin {"register", "atexit"}
  <1> SUFFICES ASSUME Going
               PROVE  /\ UNCHANGED <<world, child, process>>
                      /\ pc' \in Early => pc \in Early
                      /\ pc' \notin {"register", "atexit"}
    OBVIOUS
  <1> USE DEF At, Goto, Shows, setup, Early
  <1>1. CASE InitContext \/ NextCommit \/ Parse \/ WriteHeader \/ WriteBody
    BY <1>1 DEF InitContext, NextCommit, Parse, WriteHeader, WriteBody
  <1>2. CASE IsPlain \/ KeyMissing \/ Decrypt \/ Ask
    BY <1>2 DEF IsPlain, KeyMissing, Decrypt, Ask
  <1>3. CASE AnswerPassphrase
    BY <1>3 DEF AnswerPassphrase, AnswerIs
  <1>4. CASE NoPager \/ ChoosePager
    BY <1>4 DEF NoPager, ChoosePager
  <1>5. CASE LocatePager \/ MergeEnv
    BY <1>5 DEF LocatePager, MergeEnv
  <1>6. QED
    BY <1>1, <1>2, <1>3, <1>4, <1>5 DEF Going

LEMMA GoingKeeps == PagerInv /\ Going => PagerInv'
  <1> SUFFICES ASSUME PagerInv, Going PROVE PagerInv'
    OBVIOUS
  <1>1. /\ UNCHANGED <<world, pager, collected, pid, registered, handled, armed, exiting,
                       stack, pending, end>>
        /\ pc' \in Early => pc \in Early
        /\ pc' \notin {"register", "atexit"}
    BY GoingStep DEF child, process
  <1>2. QED
    BY <1>1 DEF PagerInv, NotStarted, Collecting, CallsWait, Covered, PagerEndsFirst, Blocked,
                Signals

LEMMA LeavingKeeps == PagerInv /\ Leaving => PagerInv'
  <1> SUFFICES ASSUME PagerInv, Leaving PROVE PagerInv'
    OBVIOUS
  <1>1. PICK s \in Ends \ {"none"} : Exits(s)
    BY DEF Leaving, NoContext, Malformed, AllRead, PagerNotFound, Ends
  <1>2. /\ UNCHANGED <<world, pc, pager, collected, pid, registered, handled, armed, pending>>
        /\ stack = << >> /\ end = "none"
    BY DEF Leaving, NoContext, Malformed, AllRead, PagerNotFound, rest, child, At, Running
  <1>3. QED
    BY <1>1, <1>2, ExitKeeps

LEMMA BeginningKeeps == PagerInv /\ Beginning => PagerInv'
  <1> SUFFICES ASSUME PagerInv, Beginning PROVE PagerInv'
    OBVIOUS
  <1>0. stack = << >> /\ stack' = stack /\ end = "none" /\ end' = end
        /\ UNCHANGED <<world, exiting, pending>>
    BY DEF Beginning, ForkPager, RegisterSignal, RegisterExit, Running, process
  <1>1. CallsWait' /\ PagerEndsFirst' /\ world' \in Worlds /\ Blocked' = Blocked
    BY <1>0 DEF PagerInv, CallsWait, PagerEndsFirst, Blocked
  <1>2. CASE ForkPager
    BY <1>0, <1>1, <1>2
      DEF ForkPager, process, Goto, PagerInv, NotStarted, Collecting, Covered, Early, Signals
  <1>3. CASE RegisterSignal
    <2>1. /\ UNCHANGED <<pager, collected, pid, armed>> /\ pc = "register"
          /\ registered \in 0..4 /\ registered' = registered + 1
          /\ handled' = handled \cup {PagerSignals[registered + 1]}
          /\ pc' = IF registered + 1 = 5 THEN "atexit" ELSE "register"
      BY <1>0, <1>3, SignalList DEF RegisterSignal, child, Goto, PagerInv, Covered
    <2>2. \A i \in 1..registered' : PagerSignals[i] \in handled'
      BY <1>0, <2>1 DEF PagerInv, Covered
    <2>3. registered' = 5 => Signals \subseteq handled'
      BY <2>2, SignalList DEF PagerSignals
    <2>4. Covered'
      BY <1>0, <1>1, <2>1, <2>2, <2>3 DEF PagerInv, Covered
    <2>5. NotStarted' /\ Collecting'
      BY <1>0, <2>1 DEF PagerInv, NotStarted, Collecting, Early
    <2>6. QED
      BY <1>1, <2>4, <2>5 DEF PagerInv
  <1>4. CASE RegisterExit
    BY <1>0, <1>1, <1>4
      DEF RegisterExit, child, Goto, PagerInv, NotStarted, Collecting, Covered, Early, Signals
  <1>5. QED
    BY <1>2, <1>3, <1>4 DEF Beginning

\* The pager itself: what was collected has ended already.
LEMMA ThePagerKeeps == PagerInv /\ ThePager => PagerInv'
  <1> SUFFICES ASSUME PagerInv, ThePager PROVE PagerInv'
    OBVIOUS
  <1>1. /\ UNCHANGED <<world, pc, collected, pid, registered, handled, armed, exiting,
                       stack, pending, end>>
        /\ pager \notin {"none", "ended"} /\ pager' # "none"
    BY DEF ThePager, PagerBegins, PagerIsLeft, PagerRuns, PagerFails, PagerEnds, process
  <1>2. QED
    BY <1>1 DEF PagerInv, NotStarted, Collecting, CallsWait, Covered, PagerEndsFirst, Blocked,
                Signals

LEMMA ArrivingKeeps == PagerInv /\ (SignalArrives \/ WriteBreaks) => PagerInv'
  <1> SUFFICES ASSUME PagerInv, SignalArrives \/ WriteBreaks PROVE PagerInv'
    OBVIOUS
  <1>1. CASE SignalArrives
    <2>1. PICK sig \in world.signals : Signalled(sig)
      BY <1>1 DEF SignalArrives, Signal
    <2>2. sig \in Signals
      BY WorldsAssumption, SignalList DEF PagerInv, Signals
    <2>3. QED
      BY <1>1, <2>1, <2>2, SignalKeeps DEF SignalArrives, Signal, child
  <1>2. CASE WriteBreaks
    BY <1>2, SignalKeeps, SignalList DEF WriteBreaks, At, Running, rest, child
  <1>3. QED
    BY <1>1, <1>2

-----------------------------------------------------------------------------
(* Stopping.                                                               *)

\* pager_stop keeps the invariant, at each step of the innermost call.
LEMMA StoppingKeeps == PagerInv /\ Stopping => PagerInv'
  <1> SUFFICES ASSUME PagerInv, Stopping PROVE PagerInv'
    OBVIOUS
  <1>0. /\ stack \in Seq(Calls) /\ stack # << >> /\ end = "none"
        /\ Len(stack) \in DOMAIN stack /\ DOMAIN stack = 1..Len(stack)
        /\ pager # "none" /\ pc \notin Early
    BY DEF PagerInv, CallsWait, Collecting, NotStarted, Stopping, StopPager, StopWaits,
           StopFindsNoPid, StopFindsReport, StopFinishes, StopExits, StopRaises, StopReturns,
           AtStep
  <1>1. ASSUME NEW s \in Steps, Step(s), s = "return" => Top.signal \in pending',
               UNCHANGED <<world, pc, armed, exiting, registered, end>>,
               collected', pager' = "ended",
               pending \subseteq pending',
               handled \subseteq handled' \cup {Top.signal}
        PROVE  PagerInv'
    <2>1. /\ stack' \in Seq(Calls) /\ stack' # << >> /\ Len(stack') = Len(stack)
          /\ \A i \in DOMAIN stack : /\ i # Len(stack) => stack'[i] = stack[i]
                                     /\ stack'[i].signal = stack[i].signal
          /\ stack'[Len(stack)].step = s /\ Blocked' = Blocked
          /\ DOMAIN stack' = DOMAIN stack
      BY <1>0, <1>1, SteppedStack
    <2>2. Top.signal \in Blocked
      BY <1>0 DEF Top, Blocked
    <2>3. CallsWait'
      BY <1>0, <1>1, <2>1 DEF PagerInv, CallsWait, Top
    <2>4. Covered'
      BY <1>0, <1>1, <2>1, <2>2 DEF PagerInv, Covered, Signals
    <2>5. NotStarted' /\ Collecting' /\ PagerEndsFirst' /\ world' \in Worlds
      BY <1>0, <1>1, <2>1 DEF PagerInv, NotStarted, Collecting, PagerEndsFirst
    <2>6. QED
      BY <2>3, <2>4, <2>5 DEF PagerInv
  <1>2. AtStep("finish") \/ AtStep("release") \/ AtStep("return") => collected /\ pager = "ended"
    BY <1>0 DEF PagerInv, CallsWait, Collecting, AtStep, Top
  <1>3. CASE StopWaits
    BY <1>1, <1>3 DEF StopWaits, Steps
  <1>4. CASE StopFindsNoPid
    <2>1. collected
      BY <1>0, <1>4 DEF StopFindsNoPid, PagerInv, Collecting
    <2>2. QED
      BY <1>0, <1>4, <2>1, ExitKeeps DEF StopFindsNoPid, child, Ends
  <1>5. CASE StopFindsReport
    BY <1>0, <1>2, <1>5, ExitKeeps DEF StopFindsReport, Ends
  <1>6. CASE StopFinishes
    BY <1>1, <1>2, <1>6 DEF StopFinishes, Steps
  <1>7. CASE StopExits
    BY <1>2, <1>7 DEF StopExits, child, PagerInv, NotStarted, Collecting, CallsWait, Covered,
                      PagerEndsFirst, Blocked, Signals
  <1>8. CASE StopRaises
    BY <1>1, <1>2, <1>8 DEF StopRaises, child, Steps
  <1>9. CASE StopReturns
    <2>1. Top.signal \in pending
      BY <1>0, <1>9 DEF StopReturns, AtStep, Top, PagerInv, CallsWait
    <2>2. UNCHANGED <<world, pc, pager, collected, pid, registered, handled, armed, exiting,
                      stack, pending>>
      BY <1>9, <2>1 DEF StopReturns, child
    <2>3. QED
      BY <1>2, <1>9, <2>2 DEF StopReturns, PagerInv, NotStarted, Collecting, CallsWait, Covered,
                              PagerEndsFirst, Blocked, Signals
  <1>10. QED
    BY <1>3, <1>4, <1>5, <1>6, <1>7, <1>8, <1>9 DEF Stopping, StopPager

LEMMA PagerStep == PagerInv /\ [Next]_vars => PagerInv'
  <1>1. PagerInv /\ UNCHANGED vars => PagerInv'
    BY DEF vars, pagerVars, child, process, PagerInv, NotStarted, Collecting, CallsWait, Covered,
           PagerEndsFirst, Blocked
  <1>2. QED
    BY <1>1, Kinds, GoingKeeps, LeavingKeeps, BeginningKeeps, ThePagerKeeps, ArrivingKeeps,
       StoppingKeeps

\* Once pager_start is through, git-chat never ends before its pager has and
\* was collected, however many signals arrive, one inside the handler of the
\* other or inside exit().
THEOREM PagerIsOutlived == Spec => []PagerEndsFirst
  <1>1. PagerInv => PagerEndsFirst
    BY DEF PagerInv
  <1>2. QED
    BY <1>1, InitPager, PagerStep, PTL DEF Spec

-----------------------------------------------------------------------------
(* What exit status 0 means.                                               *)

First == Early \cup {"register", "atexit"}

\* Each commit that was parsed has left its header and its body, but for the
\* one that is on its way.
Counting ==
  /\ read \in Nat
  /\ shown \in Seq(ToSet(shown))
  /\ pc \in First => read = 0 /\ Len(shown) = 0
  /\ pc = "next" => Len(shown) = 2 * read
  /\ pc \in {"parse", "decrypt", "ask", "header"} => Len(shown) = 2 * read - 2
  /\ pc = "body" => Len(shown) = 2 * read - 1

\* An exit(0) is under way.
Succeeding == \E i \in DOMAIN stack : stack[i].status = "success"

\* It began when everything was shown, as the first call, and is the only exit().
Success ==
  /\ Succeeding \/ end = "success" => Len(shown) = 2 * Len(world.commits)
  /\ Succeeding => exiting /\ armed
  /\ \A i \in DOMAIN stack : stack[i].status = "success" => i = 1 /\ stack[i].signal = Null

\* A signal that was sent has ended git-chat, or its handler is under way.
Undisturbed ==
  /\ sent \in Nat
  /\ end = "none" /\ sent > 0 => \E i \in DOMAIN stack : stack[i].signal # Null
  /\ end = "success" => sent = 0

\* What a pager that cannot run has reported is there to be read, until an
\* exit() with another status has read it.
Reported ==
  /\ report \in BOOLEAN
  /\ world.broken => pager # "running"
  /\ pc \notin First /\ ~armed => pager = "none"
  /\ \A i \in DOMAIN stack : stack[i].step \in {"release", "return"} => ~report
  /\ end = "none" /\ world.broken /\ pager = "ended" /\ (stack = << >> \/ Succeeding) => report
  /\ end = "success" => ~world.broken \/ pager = "none"

SuccessInv == Counting /\ Success /\ Undisturbed /\ Reported

-----------------------------------------------------------------------------
(* The steps.                                                              *)

LEMMA InitSuccess == Init => SuccessInv
  <1> SUFFICES ASSUME Init PROVE SuccessInv
    OBVIOUS
  <1>1. stack = << >> /\ shown = << >>
    BY DEF Init
  <1>2. DOMAIN stack = {} /\ shown \in Seq(ToSet(shown)) /\ Len(shown) = 0
    BY <1>1
  <1>3. Counting
    BY <1>2 DEF Init, Counting, First, Early
  <1>4. ~Succeeding
    BY <1>2 DEF Succeeding
  <1>5. Success /\ Undisturbed
    BY <1>2, <1>4 DEF Init, Success, Undisturbed
  <1>6. Reported
    BY <1>2 DEF Init, Reported
  <1>7. QED
    BY <1>3, <1>5, <1>6 DEF SuccessInv

\* What a step that leaves the process, the pager and its report alone keeps.
LEMMA StillSucceeds ==
  ASSUME SuccessInv, UNCHANGED <<world, child, process>>, Counting',
         pc' \in First \/ pc \notin First \/ pager = "none",
         shown' = shown \/ (stack = << >> /\ end = "none")
  PROVE  SuccessInv'
  <1>1. UNCHANGED <<pager, report, armed, exiting, stack, sent, end>>
    BY DEF child, process
  <1>2. Succeeding' <=> Succeeding
    BY <1>1 DEF Succeeding
  <1>3. stack = << >> => ~Succeeding
    BY DEF Succeeding
  <1>4. Success' /\ Undisturbed'
    BY <1>1, <1>2, <1>3 DEF SuccessInv, Success, Undisturbed
  <1>5. Reported'
    BY <1>1, <1>2 DEF SuccessInv, Reported
  <1>6. QED
    BY <1>4, <1>5 DEF SuccessInv

\* One part more is shown.
LEMMA ShowsMore ==
  ASSUME shown \in Seq(ToSet(shown)), NEW part, shown' = Append(shown, part)
  PROVE  shown' \in Seq(ToSet(shown')) /\ Len(shown') = Len(shown) + 1 /\ Len(shown) \in Nat
  <1> DEFINE Parts == ToSet(shown) \cup {part}
  <1>1. shown \in Seq(Parts) /\ part \in Parts
    OBVIOUS
  <1> HIDE DEF Parts
  <1>2. shown' \in Seq(Parts) /\ Len(shown') = Len(shown) + 1 /\ Len(shown) \in Nat
    BY <1>1
  <1>3. \A i \in 1..Len(shown') : shown'[i] \in ToSet(shown')
    BY <1>2 DEF ToSet
  <1>4. shown' \in Seq(ToSet(shown'))
    BY <1>2, <1>3
  <1>5. QED
    BY <1>2, <1>4

LEMMA GoingCounts == SuccessInv /\ Going => Counting'
  <1> SUFFICES ASSUME SuccessInv, Going PROVE Counting'
    OBVIOUS
  <1> USE DEF SuccessInv, Counting, At, Goto, Shows, setup, First, Early, message
  <1>1. CASE InitContext \/ NextCommit \/ Parse
    BY <1>1 DEF InitContext, NextCommit, Parse
  <1>2. CASE IsPlain \/ KeyMissing \/ Decrypt \/ Ask
    BY <1>2 DEF IsPlain, KeyMissing, Decrypt, Ask
  <1>3. CASE AnswerPassphrase
    BY <1>3 DEF AnswerPassphrase, AnswerIs
  <1>4. CASE WriteHeader
    <2>1. shown' \in Seq(ToSet(shown')) /\ Len(shown') = Len(shown) + 1 /\ Len(shown) \in Nat
      BY <1>4, ShowsMore DEF WriteHeader
    <2>2. QED
      BY <1>4, <2>1 DEF WriteHeader
  <1>5. CASE WriteBody
    <2>1. shown' \in Seq(ToSet(shown')) /\ Len(shown') = Len(shown) + 1 /\ Len(shown) \in Nat
      BY <1>5, ShowsMore DEF WriteBody
    <2>2. QED
      BY <1>5, <2>1 DEF WriteBody
  <1>6. CASE (NoPager \/ ChoosePager) /\ Still
    BY <1>6 DEF NoPager, ChoosePager, Still
  <1>7. CASE (LocatePager \/ MergeEnv) /\ Still
    BY <1>7 DEF LocatePager, MergeEnv, Still
  <1>8. QED
    BY <1>1, <1>2, <1>3, <1>4, <1>5, <1>6, <1>7 DEF Going

LEMMA GoingSucceeds == PagerInv /\ SuccessInv /\ Going => SuccessInv'
  <1> SUFFICES ASSUME PagerInv, SuccessInv, Going PROVE SuccessInv'
    OBVIOUS
  <1>1. Counting'
    BY GoingCounts
  <1>2. stack = << >> /\ end = "none"
    BY DEF Going, InitContext, NextCommit, Parse, IsPlain, KeyMissing, Decrypt, Ask,
           AnswerPassphrase, WriteHeader, WriteBody, NoPager, ChoosePager, LocatePager, MergeEnv,
           At, Running
  <1>3. pc \notin First \/ pager = "none"
    <2>1. pc \notin {"register", "atexit"}
      BY DEF Going, InitContext, NextCommit, Parse, IsPlain, KeyMissing, Decrypt, Ask,
             AnswerPassphrase, WriteHeader, WriteBody, NoPager, ChoosePager, LocatePager, MergeEnv,
             At
    <2>2. QED
      BY <2>1 DEF First, PagerInv, Collecting
  <1>4. QED
    BY <1>1, <1>2, <1>3, GoingStep, StillSucceeds

\* exit(), with status 0 when all was read, with another in a call that has
\* read the pager's report.
LEMMA ExitSucceeds ==
  ASSUME PagerInv, SuccessInv, NEW s \in Ends \ {"none"}, Exits(s), end = "none",
         UNCHANGED <<world, pc, pager, armed, read, shown, sent>>,
         report' = report \/ (report' = FALSE /\ stack # << >>),
         s = "success" => /\ stack = << >> /\ pc = "next" /\ read = Len(world.commits)
                          /\ report' = report
  PROVE  SuccessInv'
  <1>0. stack \in Seq(Calls) /\ (exiting => stack # << >>)
    BY DEF PagerInv, CallsWait
  <1>1. Counting' /\ (s = "success" => Len(shown) = 2 * Len(world.commits))
    BY DEF SuccessInv, Counting
  <1>2. stack = << >> => sent = 0 /\ ~Succeeding
    BY DEF SuccessInv, Undisturbed, Succeeding
  <1>3. CASE armed /\ ~exiting
    <2> DEFINE c == Call(Null, s)
    <2>1. /\ c \in Calls /\ c.step = "wait" /\ c.signal = Null /\ c.status = s
          /\ stack' = Append(stack, c) /\ end' = "none" /\ exiting'
      BY <1>3 DEF Calls, Call, Exits, Steps
    <2> HIDE DEF c
    <2>2. /\ stack' \in Seq(Calls) /\ stack' # << >> /\ Len(stack') = Len(stack) + 1
          /\ \A i \in DOMAIN stack : stack'[i] = stack[i]
          /\ stack'[Len(stack) + 1] = c
      BY <1>0, <2>1, PushedStack
    <2>3. DOMAIN stack' = DOMAIN stack \cup {Len(stack) + 1}
      BY <1>0, <2>2
    <2>4. ~Succeeding
      BY <1>3 DEF SuccessInv, Success
    <2>5. Succeeding' <=> s = "success"
      BY <2>1, <2>2, <2>3, <2>4 DEF Succeeding
    <2>6. Success'
      <3>1. ASSUME NEW i \in DOMAIN stack', stack'[i].status = "success"
            PROVE  i = 1 /\ stack'[i].signal = Null
        BY <1>0, <2>1, <2>2, <2>3, <2>4, <3>1 DEF Succeeding
      <3>2. QED
        BY <1>1, <1>3, <2>1, <2>5, <3>1 DEF SuccessInv, Success
    <2>7. Undisturbed'
      BY <2>1, <2>2, <2>3 DEF SuccessInv, Undisturbed
    <2>8. Reported'
      <3>1. \A i \in DOMAIN stack' : stack'[i].step \in {"release", "return"} => ~report'
        BY <2>1, <2>2, <2>3 DEF SuccessInv, Reported
      <3>2. QED
        BY <2>1, <2>2, <2>5, <3>1 DEF SuccessInv, Reported
    <2>9. QED
      BY <1>1, <2>6, <2>7, <2>8 DEF SuccessInv
  <1>4. CASE ~(armed /\ ~exiting)
    <2>1. UNCHANGED <<stack, exiting>> /\ end' = s /\ s # "none"
      BY <1>4 DEF Exits
    <2>2. s = "success" => ~armed
      BY <1>0, <1>4
    <2>3. s = "success" => pager = "none"
      BY <2>2 DEF SuccessInv, Reported, First, Early
    <2>4. Success'
      BY <1>1, <2>1 DEF SuccessInv, Success, Succeeding
    <2>5. Undisturbed'
      BY <1>2, <2>1 DEF SuccessInv, Undisturbed
    <2>6. report' \in BOOLEAN /\ (report' => report)
      <3>1. report \in BOOLEAN
        BY DEF SuccessInv, Reported
      <3>2. report' = report \/ report' = FALSE
        OBVIOUS
      <3>3. CASE report' = report
        BY <3>1, <3>3
      <3>4. CASE report' = FALSE
        BY <3>4
      <3>5. QED
        BY <3>2, <3>3, <3>4
    <2>7. Reported'
      BY <2>1, <2>3, <2>6 DEF SuccessInv, Reported
    <2>8. QED
      BY <1>1, <2>4, <2>5, <2>7 DEF SuccessInv
  <1>5. QED
    BY <1>3, <1>4

LEMMA LeavingSucceeds == PagerInv /\ SuccessInv /\ Leaving => SuccessInv'
  <1> SUFFICES ASSUME PagerInv, SuccessInv, Leaving PROVE SuccessInv'
    OBVIOUS
  <1>1. PICK s \in Ends \ {"none"} :
          Exits(s) /\ (s = "success" => pc = "next" /\ read = Len(world.commits))
    BY DEF Leaving, NoContext, Malformed, AllRead, PagerNotFound, Ends, At
  <1>2. /\ UNCHANGED <<world, pc, pager, report, armed, read, shown, sent>>
        /\ stack = << >> /\ end = "none"
    BY DEF Leaving, NoContext, Malformed, AllRead, PagerNotFound, rest, child, At, Running, Still,
           message
  <1>3. QED
    BY <1>1, <1>2, ExitSucceeds

LEMMA BeginningSucceeds == PagerInv /\ SuccessInv /\ Beginning => SuccessInv'
  <1> SUFFICES ASSUME PagerInv, SuccessInv, Beginning PROVE SuccessInv'
    OBVIOUS
  <1>0. /\ UNCHANGED <<world, read, shown, report, exiting, stack, sent, end>>
        /\ stack = << >> /\ end = "none" /\ pc \in First
    BY DEF Beginning, ForkPager, RegisterSignal, RegisterExit, Running, process, child, Still,
           message, First, Early
  <1>1. ~Succeeding /\ ~Succeeding'
    BY <1>0 DEF Succeeding
  <1>2. pc' \in First \/ pc' = "next"
    BY DEF Beginning, ForkPager, RegisterSignal, RegisterExit, Goto, First
  <1>3. Counting'
    BY <1>0, <1>2 DEF SuccessInv, Counting, First, Early
  <1>4. Success' /\ Undisturbed'
    BY <1>0, <1>1 DEF SuccessInv, Success, Undisturbed
  <1>5. Reported'
    <2>1. \/ pager' = "forked" /\ pc' \in First
          \/ pager' = pager /\ (pc' \in First \/ armed')
      BY DEF Beginning, ForkPager, RegisterSignal, RegisterExit, Goto, First, child
    <2>2. QED
      BY <1>0, <1>1, <2>1 DEF SuccessInv, Reported
  <1>6. QED
    BY <1>3, <1>4, <1>5 DEF SuccessInv

\* A pager that cannot run reports before it ends; one that runs has no report.
LEMMA ThePagerSucceeds == PagerInv /\ SuccessInv /\ ThePager => SuccessInv'
  <1> SUFFICES ASSUME PagerInv, SuccessInv, ThePager PROVE SuccessInv'
    OBVIOUS
  <1>0. /\ UNCHANGED <<world, pc, collected, armed, exiting, stack, sent, end, read, shown>>
        /\ pager \in {"forked", "running"}
    BY DEF ThePager, PagerBegins, PagerIsLeft, PagerRuns, PagerFails, PagerEnds, process, Still,
           message
  <1>1. Counting'
    BY <1>0 DEF SuccessInv, Counting
  <1>2. Succeeding' <=> Succeeding
    BY <1>0 DEF Succeeding
  <1>3. Success' /\ Undisturbed'
    BY <1>0, <1>2 DEF SuccessInv, Success, Undisturbed
  <1>4. \/ pager' = "running" /\ ~world.broken /\ report' = report
        \/ pager' = "ended" /\ world.broken /\ report' = TRUE
        \/ pager' = "ended" /\ pager = "running" /\ report' = report
    BY DEF ThePager, PagerBegins, PagerIsLeft, PagerRuns, PagerFails, PagerEnds
  <1>5. \A i \in DOMAIN stack : stack[i].step \notin {"release", "return"}
    BY <1>0 DEF PagerInv, CallsWait, Collecting
  <1>6. Reported'
    BY <1>0, <1>2, <1>4, <1>5 DEF SuccessInv, Reported
  <1>7. QED
    BY <1>1, <1>3, <1>6 DEF SuccessInv

LEMMA SignalSucceeds ==
  ASSUME PagerInv, SuccessInv, NEW sig \in Signals, Signalled(sig), end = "none",
         UNCHANGED <<world, pc, pager, report, armed, read, shown>>,
         sent' \in {sent, sent + 1}
  PROVE  SuccessInv'
  <1>0. stack \in Seq(Calls) /\ sig # Null /\ UNCHANGED exiting /\ sent' \in Nat
    BY WorldsAssumption, SignalList DEF PagerInv, CallsWait, Signals, Signalled, SuccessInv, Undisturbed
  <1>1. Counting'
    BY DEF SuccessInv, Counting
  <1>2. CASE sig \in handled \ Blocked
    <2> DEFINE c == Call(sig, "killed")
    <2>1. /\ c \in Calls /\ c.step = "wait" /\ c.signal = sig /\ c.status = "killed"
          /\ stack' = Append(stack, c) /\ end' = "none"
      BY <1>2 DEF Calls, Call, Signalled, Steps, Ends
    <2> HIDE DEF c
    <2>2. /\ stack' \in Seq(Calls) /\ stack' # << >> /\ Len(stack') = Len(stack) + 1
          /\ \A i \in DOMAIN stack : stack'[i] = stack[i]
          /\ stack'[Len(stack) + 1] = c
      BY <1>0, <2>1, PushedStack
    <2>3. DOMAIN stack' = DOMAIN stack \cup {Len(stack) + 1}
      BY <1>0, <2>2
    <2>4. Succeeding' <=> Succeeding
      BY <2>1, <2>2, <2>3 DEF Succeeding
    <2>5. Success'
      <3>1. ASSUME NEW i \in DOMAIN stack', stack'[i].status = "success"
            PROVE  i = 1 /\ stack'[i].signal = Null
        BY <2>1, <2>2, <2>3, <3>1 DEF SuccessInv, Success
      <3>2. QED
        BY <1>0, <2>1, <2>4, <3>1 DEF SuccessInv, Success
    <2>6. Undisturbed'
      BY <1>0, <2>1, <2>2, <2>3 DEF SuccessInv, Undisturbed
    <2>7. Reported'
      <3>1. \A i \in DOMAIN stack' : stack'[i].step \in {"release", "return"} => ~report'
        BY <2>1, <2>2, <2>3 DEF SuccessInv, Reported
      <3>2. QED
        BY <2>1, <2>2, <2>4, <3>1 DEF SuccessInv, Reported
    <2>8. QED
      BY <1>1, <2>5, <2>6, <2>7 DEF SuccessInv
  <1>3. CASE sig \notin handled \ Blocked
    <2>1. stack' = stack /\ end' \in {"none", "killed"}
      BY <1>3 DEF Signalled
    <2>2. end' = "none" => \E i \in DOMAIN stack : stack[i].signal # Null
      BY <1>0, <1>3 DEF Signalled, Blocked
    <2>3. Succeeding' <=> Succeeding
      BY <2>1 DEF Succeeding
    <2>4. Success' /\ Undisturbed' /\ Reported'
      BY <1>0, <2>1, <2>2, <2>3 DEF SuccessInv, Success, Undisturbed, Reported
    <2>5. QED
      BY <1>1, <2>4 DEF SuccessInv
  <1>4. QED
    BY <1>2, <1>3

LEMMA ArrivingSucceeds == PagerInv /\ SuccessInv /\ (SignalArrives \/ WriteBreaks) => SuccessInv'
  <1> SUFFICES ASSUME PagerInv, SuccessInv, SignalArrives \/ WriteBreaks PROVE SuccessInv'
    OBVIOUS
  <1>1. CASE SignalArrives
    <2>1. PICK sig \in world.signals : Signalled(sig)
      BY <1>1 DEF SignalArrives, Signal
    <2>2. sig \in Signals
      BY WorldsAssumption, SignalList DEF PagerInv, Signals
    <2>3. QED
      BY <1>1, <2>1, <2>2, SignalSucceeds DEF SignalArrives, Signal, child, Still, message
  <1>2. CASE WriteBreaks
    BY <1>2, SignalSucceeds, SignalList DEF WriteBreaks, At, Running, rest, child, message
  <1>3. QED
    BY <1>1, <1>2

\* pager_stop: only the first call can end in success, when nothing that was
\* reported is left and no signal is being handled.
LEMMA StoppingSucceeds == PagerInv /\ SuccessInv /\ Stopping => SuccessInv'
  <1> SUFFICES ASSUME PagerInv, SuccessInv, Stopping PROVE SuccessInv'
    OBVIOUS
  <1>0. /\ stack \in Seq(Calls) /\ stack # << >> /\ end = "none"
        /\ Len(stack) \in DOMAIN stack /\ DOMAIN stack = 1..Len(stack) /\ Len(stack) \in Nat
        /\ UNCHANGED <<world, pc, pager, armed, read, shown, sent>>
    BY DEF PagerInv, CallsWait, Stopping, StopPager, StopWaits, StopFindsNoPid, StopFindsReport,
           StopFinishes, StopExits, StopRaises, StopReturns, AtStep, Still, message, child
  <1>1. Counting'
    BY <1>0 DEF SuccessInv, Counting
  <1>2. AtStep("release") \/ AtStep("return") => ~report /\ pager = "ended"
    BY <1>0 DEF PagerInv, CallsWait, Collecting, SuccessInv, Reported, AtStep, Top
  <1>3. ASSUME NEW s \in Steps, Step(s), UNCHANGED <<exiting, report, end>>,
               s \in {"release", "return"} => ~report
        PROVE  SuccessInv'
    <2>1. /\ stack' \in Seq(Calls) /\ stack' # << >> /\ Len(stack') = Len(stack)
          /\ \A i \in DOMAIN stack : /\ i # Len(stack) => stack'[i] = stack[i]
                                     /\ stack'[i].signal = stack[i].signal
                                     /\ stack'[i].status = stack[i].status
          /\ stack'[Len(stack)].step = s
          /\ DOMAIN stack' = DOMAIN stack
      BY <1>0, <1>3, SteppedStack
    <2>2. Succeeding' <=> Succeeding
      BY <2>1 DEF Succeeding
    <2>3. Success'
      BY <1>0, <1>3, <2>1, <2>2 DEF SuccessInv, Success
    <2>4. Undisturbed'
      BY <1>0, <1>3, <2>1 DEF SuccessInv, Undisturbed
    <2>5. Reported'
      BY <1>0, <1>3, <2>1, <2>2 DEF SuccessInv, Reported
    <2>6. QED
      BY <1>1, <2>3, <2>4, <2>5 DEF SuccessInv
  <1>4. CASE StopWaits
    BY <1>3, <1>4 DEF StopWaits, Steps
  <1>5. CASE StopFindsNoPid
    BY <1>0, <1>5, ExitSucceeds DEF StopFindsNoPid, child, Ends
  <1>6. CASE StopFindsReport
    BY <1>0, <1>6, ExitSucceeds DEF StopFindsReport, Ends
  <1>7. CASE StopFinishes
    BY <1>3, <1>7 DEF StopFinishes, Steps
  <1>8. CASE StopExits
    <2>1. UNCHANGED <<stack, exiting, report>> /\ end' = Top.status /\ Top.signal = Null
      BY <1>8 DEF StopExits, child
    <2>2. Succeeding' <=> Succeeding
      BY <2>1 DEF Succeeding
    <2>3. end' = "success" => Succeeding /\ Len(stack) = 1
      BY <1>0, <2>1 DEF Top, Succeeding, SuccessInv, Success
    <2>4. end' = "success" => sent = 0
      <3>1. end' = "success" => \A i \in DOMAIN stack : stack[i].signal = Null
        <4> SUFFICES ASSUME end' = "success", NEW i \in DOMAIN stack PROVE stack[i].signal = Null
          OBVIOUS
        <4>1. i = Len(stack)
          BY <1>0, <2>3
        <4>2. QED
          BY <2>1, <4>1 DEF Top
      <3>2. sent \in Nat /\ (sent > 0 => \E i \in DOMAIN stack : stack[i].signal # Null)
        BY <1>0 DEF SuccessInv, Undisturbed
      <3>3. QED
        BY <3>1, <3>2
    <2>5. end' = "success" => ~world.broken
      BY <1>0, <1>2, <1>8, <2>3 DEF StopExits, SuccessInv, Reported
    <2>6. end' # "none"
      <3>1. Top \in Calls
        BY <1>0 DEF Top
      <3>2. QED
        BY <2>1, <3>1 DEF Calls
    <2>7. Success' /\ Undisturbed' /\ Reported'
      BY <1>0, <2>1, <2>2, <2>3, <2>4, <2>5, <2>6 DEF SuccessInv, Success, Undisturbed, Reported
    <2>8. QED
      BY <1>1, <2>7 DEF SuccessInv
  <1>9. CASE StopRaises
    BY <1>2, <1>3, <1>9 DEF StopRaises, child, Steps
  <1>10. CASE StopReturns
    <2>1. Top.signal \in pending
      BY <1>0, <1>10 DEF StopReturns, AtStep, Top, PagerInv, CallsWait
    <2>2. UNCHANGED <<stack, exiting, report>> /\ end' = "killed"
      BY <1>10, <2>1 DEF StopReturns, child
    <2>3. Succeeding' <=> Succeeding
      BY <2>2 DEF Succeeding
    <2>4. Success' /\ Undisturbed' /\ Reported'
      BY <1>0, <2>2, <2>3 DEF SuccessInv, Success, Undisturbed, Reported
    <2>5. QED
      BY <1>1, <2>4 DEF SuccessInv
  <1>11. QED
    BY <1>4, <1>5, <1>6, <1>7, <1>8, <1>9, <1>10 DEF Stopping, StopPager

LEMMA SuccessStep == PagerInv /\ SuccessInv /\ [Next]_vars => SuccessInv'
  <1>1. SuccessInv /\ UNCHANGED vars => SuccessInv'
    BY DEF vars, pagerVars, child, process, message, SuccessInv, Counting, Success, Succeeding,
           Undisturbed, Reported
  <1>2. QED
    BY <1>1, Kinds, GoingSucceeds, LeavingSucceeds, BeginningSucceeds, ThePagerSucceeds,
       ArrivingSucceeds, StoppingSucceeds

\* git chat read reports success only when the header and the body of every
\* message were written, no signal was sent and the pager, if there was to be
\* one, could run; an exit(0) that is interrupted never becomes one.
THEOREM SuccessIsRead == Spec => []SuccessMeansRead
  <1>1. SuccessInv => SuccessMeansRead
    BY DEF SuccessInv, Success, Undisturbed, Reported, SuccessMeansRead, Begun
  <1>2. QED
    BY <1>1, InitPager, PagerStep, InitSuccess, SuccessStep, PTL DEF Spec
=============================================================================
