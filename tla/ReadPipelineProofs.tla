-------------------------- MODULE ReadPipelineProofs --------------------------
(***************************************************************************)
(* Safety of ReadPipeline for every history, every size of the objects and *)
(* of the pipes, and every kind of pager.                                  *)
(***************************************************************************)
EXTENDS ReadPipeline, TLAPS

\* The actions, by what they change besides pc: nothing but code and held,
\* the state of the children, or the progress of the data.
Closing ==
  \/ CloseReader \/ NoPager \/ CloseEnds \/ ParseFails \/ ParseEnds
  \/ ShowBroken \/ PassEnds \/ FinishRevList \/ FinishCatFile \/ ExitPlain
  \/ StopPager \/ FinishPager

Starting ==
  StartPager \/ StartRevList \/ StartCatFile \/ \E c \in Children : Exec(c)

Ending ==
  \/ RevListEnds \/ CatFileEnds \/ PagerEnds
  \/ Interrupt \/ \E c \in Children : Kill(c) \/ ExecFails(c)

Moving ==
  \/ ReadObjects \/ ReadEof \/ ParseObject \/ Show \/ RevListWrite
  \/ CatFileTake \/ CatFileWrite \/ PagerRead

\* Every step is of one of the four kinds.
LEMMA Kinds == Next => Closing \/ Starting \/ Ending \/ Moving
  BY DEF Next, Chat, RevList, CatFile, Pager, Fault, Closing, Starting, Ending,
         Moving, Children

-----------------------------------------------------------------------------
(* Types.                                                                  *)

\* The pipeline starts with every variable of its kind.
LEMMA InitType == Init => TypeOK
  <1> SUFFICES ASSUME Init PROVE TypeOK
    OBVIOUS
  <1>1. malformed \in 0..N /\ pager \in {"none", "cat", "less"} /\ 0 \in 0..N
    BY PipelineAssumption DEF Init
  <1>2. QED
    BY <1>1 DEF Init, TypeOK

\* The steps of git-chat between starting and reading its children keep the types.
LEMMA ClosingType == TypeOK /\ Closing => TypeOK'
  <1> SUFFICES ASSUME TypeOK, Closing PROVE TypeOK'
    OBVIOUS
  <1> USE DEF TypeOK, chosen, progress, Procs
  <1>1. CASE CloseReader \/ NoPager \/ CloseEnds
    BY <1>1 DEF CloseReader, NoPager, CloseEnds
  <1>2. CASE ParseFails \/ ParseEnds \/ ShowBroken \/ PassEnds
    BY <1>2 DEF ParseFails, ParseEnds, ShowBroken, PassEnds
  <1>3. CASE FinishRevList \/ FinishCatFile
    BY <1>3 DEF FinishRevList, FinishCatFile
  <1>4. CASE ExitPlain \/ StopPager \/ FinishPager
    BY <1>4 DEF ExitPlain, StopPager, FinishPager
  <1>5. QED
    BY <1>1, <1>2, <1>3, <1>4 DEF Closing

\* Forking, closing ends and executing keep the types.
LEMMA StartingType == TypeOK /\ Starting => TypeOK'
  <1> SUFFICES ASSUME TypeOK, Starting PROVE TypeOK'
    OBVIOUS
  <1> USE DEF TypeOK, chosen, progress, Procs, Children, Ends
  <1>1. CASE StartPager
    BY <1>1 DEF StartPager, Fork
  <1>2. CASE StartRevList
    BY <1>2 DEF StartRevList, Fork
  <1>3. CASE StartCatFile
    BY <1>3 DEF StartCatFile, Fork
  <1>4. ASSUME NEW c \in Children, Exec(c) PROVE TypeOK'
    BY <1>4 DEF Exec
  <1>5. QED
    BY <1>1, <1>2, <1>3, <1>4 DEF Starting

\* A child that ends, and a signal to git-chat, keep the types.
LEMMA EndingType == TypeOK /\ Ending => TypeOK'
  <1> SUFFICES ASSUME TypeOK, Ending PROVE TypeOK'
    OBVIOUS
  <1> USE DEF TypeOK, chosen, progress, Procs, Children
  <1>1. CASE RevListEnds
    BY <1>1 DEF RevListEnds, EndsAs
  <1>2. CASE CatFileEnds
    BY <1>2 DEF CatFileEnds, EndsAs
  <1>3. CASE PagerEnds
    BY <1>3 DEF PagerEnds, EndsAs
  <1>4. CASE Interrupt
    BY <1>4 DEF Interrupt
  <1>5. ASSUME NEW c \in Children, Kill(c) PROVE TypeOK'
    BY <1>5 DEF Kill, EndsAs
  <1>6. ASSUME NEW c \in Children, ExecFails(c) PROVE TypeOK'
    BY <1>6 DEF ExecFails, EndsAs
  <1>7. QED
    BY <1>1, <1>2, <1>3, <1>4, <1>5, <1>6 DEF Ending

\* Data that moves from one stage to the next keeps the types.
LEMMA MovingType == TypeOK /\ Moving => TypeOK'
  <1> SUFFICES ASSUME TypeOK, Moving PROVE TypeOK'
    OBVIOUS
  <1>0. N \in Nat /\ ReadSize \in Nat
    BY PipelineAssumption
  <1> USE <1>0 DEF TypeOK, chosen
  <1>1. CASE ReadObjects
    <2>1. got' \in Nat
      BY <1>1 DEF ReadObjects
    <2>2. QED
      BY <1>1, <2>1 DEF ReadObjects
  <1>2. CASE ReadEof
    BY <1>2 DEF ReadEof
  <1>3. CASE ParseObject
    BY <1>3 DEF ParseObject, Complete
  <1>4. CASE Show
    BY <1>4 DEF Show
  <1>5. CASE PagerRead
    BY <1>5 DEF PagerRead
  <1>6. CASE RevListWrite
    BY <1>6 DEF RevListWrite
  <1>7. CASE CatFileTake
    BY <1>7 DEF CatFileTake
  <1>8. CASE CatFileWrite
    BY <1>8 DEF CatFileWrite
  <1>9. QED
    BY <1>1, <1>2, <1>3, <1>4, <1>5, <1>6, <1>7, <1>8 DEF Moving

\* Every step keeps the types.
LEMMA StepType == TypeOK /\ [Next]_vars => TypeOK'
  <1>1. TypeOK /\ UNCHANGED vars => TypeOK'
    BY DEF TypeOK, vars
  <1>2. QED
    BY <1>1, Kinds, ClosingType, StartingType, EndingType, MovingType

\* Every variable of the pipeline keeps a value of its kind, for histories of
\* any length and pipes of any capacity.
THEOREM PipelineTypes == Spec => []TypeOK
  BY InitType, StepType, PTL DEF Spec

-----------------------------------------------------------------------------
(* The stages.                                                             *)

\* What a step may do to the data, apart from moving one stage forward.
LEMMA DataStill == Closing \/ Starting \/ Ending => UNCHANGED progress
  BY DEF Closing, Starting, Ending, Children,
         CloseReader, NoPager, CloseEnds, ParseFails, ParseEnds, ShowBroken,
         PassEnds, FinishRevList, FinishCatFile, ExitPlain, StopPager,
         FinishPager, StartPager, StartRevList, StartCatFile, Exec,
         RevListEnds, CatFileEnds, PagerEnds, Interrupt, Kill, ExecFails

\* Data that moves on never overtakes the stage before it.
LEMMA MovingStages == TypeOK /\ StagesInOrder /\ Moving => StagesInOrder'
  <1> SUFFICES ASSUME TypeOK, StagesInOrder, Moving PROVE StagesInOrder'
    OBVIOUS
  <1>0. /\ N \in Nat /\ ReadSize \in Nat \ {0} /\ End \in [0..N -> Nat]
        /\ \A m, n \in 0..N : m < n => End[m] < End[n]
    BY PipelineAssumption
  <1> USE <1>0 DEF TypeOK, StagesInOrder, chosen
  <1>1. CASE ReadObjects
    BY <1>1 DEF ReadObjects
  <1>2. CASE ReadEof
    BY <1>2 DEF ReadEof
  <1>3. CASE ParseObject
    BY <1>3 DEF ParseObject, Complete
  <1>4. CASE Show
    BY <1>4 DEF Show
  <1>5. CASE PagerRead
    BY <1>5 DEF PagerRead
  <1>6. CASE RevListWrite
    BY <1>6 DEF RevListWrite
  <1>7. CASE CatFileTake
    <2>1. taken + 1 \in 0..N /\ End[taken] < End[taken + 1]
      BY <1>7 DEF CatFileTake
    <2>2. QED
      BY <1>7, <2>1 DEF CatFileTake
  <1>8. CASE CatFileWrite
    BY <1>8 DEF CatFileWrite
  <1>9. QED
    BY <1>1, <1>2, <1>3, <1>4, <1>5, <1>6, <1>7, <1>8 DEF Moving

\* Every step keeps the stages in order.
LEMMA StageStep == TypeOK /\ StagesInOrder /\ [Next]_vars => StagesInOrder'
  <1>1. UNCHANGED vars \/ Closing \/ Starting \/ Ending => UNCHANGED progress
    BY DataStill DEF vars, progress
  <1>2. StagesInOrder /\ UNCHANGED progress => StagesInOrder'
    BY DEF StagesInOrder, progress
  <1>3. QED
    BY <1>1, <1>2, Kinds, MovingStages

\* git-chat parses an object only when all of it was read, and prints only
\* what it parsed, wherever its reads cut the object stream.
THEOREM StagesStayInOrder == Spec => []StagesInOrder
  <1>1. Init => StagesInOrder
    BY PipelineAssumption DEF Init, StagesInOrder
  <1>2. QED
    BY <1>1, StageStep, PipelineTypes, PTL DEF Spec

-----------------------------------------------------------------------------
(* What success and the end of git-chat mean.                              *)

\* A git child holds the write end of its output as long as it lives, so the
\* end of a stream tells that its writer has ended.
WritersHold ==
  /\ Alive("revlist") => "ids_w" \in held["revlist"]
  /\ Alive("catfile") => "objs_w" \in held["catfile"]
  /\ pc = "start_catfile" => {"ids_w", "objs_w"} \subseteq held["chat"]

Reading == {"close_ends", "read", "parse", "print", "wait_revlist", "wait_catfile"}

\* Which children have been started.
ChildrenStarted ==
  /\ pc \in {"start", "close_reader", "start_revlist"} => state["revlist"] = "none"
  /\ pc \in {"start", "close_reader", "start_revlist", "start_catfile"}
       => state["catfile"] = "none"
  /\ pc \in Reading => state["catfile"] # "none"
  /\ state["catfile"] # "none" => state["revlist"] # "none"
  /\ pc = "start_catfile" => state["revlist"] # "none"

\* A git child that ended well has passed on all it was given, and was given
\* all there is.
ChildrenDelivered ==
  /\ state["revlist"] = "done" => emitted = N
  /\ state["catfile"] = "done"
       => wrote = End[taken] /\ taken = emitted /\ Ended("revlist")

\* What git-chat knows when it has left its loop, and when it succeeds.
LoopDone ==
  /\ eof => got = wrote /\ Ended("catfile")
  /\ pc \in {"wait_revlist", "wait_catfile"}
       => eof /\ got = End[parsed] /\ shown = parsed
  /\ code = "ok" => shown = N /\ pc \in {"exiting", "wait_pager", "exited"}

SuccessInv == WritersHold /\ ChildrenStarted /\ ChildrenDelivered /\ LoopDone

\* Nothing has been delivered and nobody has ended at first.
LEMMA SuccessInit == Init => SuccessInv
  BY PipelineAssumption DEF Init, SuccessInv, WritersHold, ChildrenStarted,
     ChildrenDelivered, LoopDone, Reading, Alive, Ended, Children

\* End is one to one.
LEMMA EndInjective == \A n \in 0..N : End[n] = End[N] => n = N
  BY PipelineAssumption

\* git-chat goes on to success only past children that ended well.
LEMMA SuccessClosing == TypeOK /\ SuccessInv /\ Closing => SuccessInv'
  <1> SUFFICES ASSUME TypeOK, SuccessInv, Closing PROVE SuccessInv'
    OBVIOUS
  <1> USE DEF TypeOK, SuccessInv, WritersHold, ChildrenStarted,
              ChildrenDelivered, LoopDone, Reading, Alive, Ended,
              chosen, progress, Procs, Children
  <1>1. CASE CloseReader
    BY <1>1 DEF CloseReader
  <1>2. CASE NoPager
    BY <1>2 DEF NoPager
  <1>3. CASE CloseEnds
    BY <1>3 DEF CloseEnds
  <1>4. CASE ParseFails
    BY <1>4 DEF ParseFails
  <1>5. CASE ParseEnds
    BY <1>5 DEF ParseEnds
  <1>6. CASE ShowBroken
    BY <1>6 DEF ShowBroken
  <1>7. CASE PassEnds
    BY <1>7 DEF PassEnds
  <1>8. CASE FinishRevList
    BY <1>8 DEF FinishRevList
  <1>9. CASE FinishCatFile
    <2>1. code' = "ok" => shown = N
      <3> SUFFICES ASSUME code' = "ok" PROVE shown = N
        OBVIOUS
      <3>1. state["revlist"] = "done" /\ state["catfile"] = "done"
        BY <1>9 DEF FinishCatFile
      <3>2. got = End[N] /\ got = End[parsed] /\ shown = parsed
        BY <1>9, <3>1 DEF FinishCatFile
      <3>3. QED
        BY <3>2, EndInjective
    <2>2. QED
      BY <1>9, <2>1 DEF FinishCatFile
  <1>10. CASE ExitPlain
    BY <1>10 DEF ExitPlain
  <1>11. CASE StopPager
    BY <1>11 DEF StopPager
  <1>12. CASE FinishPager
    BY <1>12 DEF FinishPager
  <1>13. QED
    BY <1>1, <1>2, <1>3, <1>4, <1>5, <1>6, <1>7, <1>8, <1>9, <1>10, <1>11, <1>12
       DEF Closing

\* Starting the children delivers nothing.
LEMMA SuccessStarting == TypeOK /\ SuccessInv /\ Starting => SuccessInv'
  <1> SUFFICES ASSUME TypeOK, SuccessInv, Starting PROVE SuccessInv'
    OBVIOUS
  <1> USE DEF TypeOK, SuccessInv, WritersHold, ChildrenStarted,
              ChildrenDelivered, LoopDone, Reading, Alive, Ended,
              chosen, progress, Procs, Children
  <1>1. CASE StartPager
    BY <1>1 DEF StartPager, Fork
  <1>2. CASE StartRevList
    BY <1>2 DEF StartRevList, Fork
  <1>3. CASE StartCatFile
    BY <1>3 DEF StartCatFile, Fork
  <1>4. ASSUME NEW c \in Children, Exec(c) PROVE SuccessInv'
    BY <1>4 DEF Exec, Closes
  <1>5. QED
    BY <1>1, <1>2, <1>3, <1>4 DEF Starting

\* A child that ends well has delivered all it was given.
LEMMA SuccessEnding == TypeOK /\ SuccessInv /\ Ending => SuccessInv'
  <1> SUFFICES ASSUME TypeOK, SuccessInv, Ending PROVE SuccessInv'
    OBVIOUS
  <1> USE DEF TypeOK, SuccessInv, WritersHold, ChildrenStarted,
              ChildrenDelivered, LoopDone, Reading, Alive, Ended,
              chosen, progress, Procs, Children
  <1>1. CASE RevListEnds
    BY <1>1 DEF RevListEnds, EndsAs
  <1>2. CASE CatFileEnds
    BY <1>2 DEF CatFileEnds, EndsAs, Held
  <1>3. CASE PagerEnds
    BY <1>3 DEF PagerEnds, EndsAs
  <1>4. CASE Interrupt
    BY <1>4 DEF Interrupt
  <1>5. ASSUME NEW c \in Children, Kill(c) PROVE SuccessInv'
    BY <1>5 DEF Kill, EndsAs
  <1>6. ASSUME NEW c \in Children, ExecFails(c) PROVE SuccessInv'
    BY <1>6 DEF ExecFails, EndsAs
  <1>7. QED
    BY <1>1, <1>2, <1>3, <1>4, <1>5, <1>6 DEF Ending

\* Data that moves on is delivered to the next stage.
LEMMA SuccessMoving == TypeOK /\ StagesInOrder /\ SuccessInv /\ Moving => SuccessInv'
  <1> SUFFICES ASSUME TypeOK, StagesInOrder, SuccessInv, Moving PROVE SuccessInv'
    OBVIOUS
  <1>0. N \in Nat
    BY PipelineAssumption
  <1> USE <1>0 DEF TypeOK, SuccessInv, WritersHold, ChildrenStarted,
              ChildrenDelivered, LoopDone, Reading, Alive, Ended, chosen
  <1>1. CASE ReadObjects
    BY <1>1 DEF ReadObjects
  <1>2. CASE ReadEof
    BY <1>2 DEF ReadEof, Held, Procs, Children
  <1>3. CASE ParseObject
    BY <1>3 DEF ParseObject, Complete
  <1>4. CASE Show
    BY <1>4 DEF Show
  <1>5. CASE PagerRead
    BY <1>5 DEF PagerRead
  <1>6. CASE RevListWrite
    BY <1>6 DEF RevListWrite
  <1>7. CASE CatFileTake
    BY <1>7 DEF CatFileTake
  <1>8. CASE CatFileWrite
    BY <1>8 DEF CatFileWrite
  <1>9. QED
    BY <1>1, <1>2, <1>3, <1>4, <1>5, <1>6, <1>7, <1>8 DEF Moving

\* Every step keeps the invariant behind success.
LEMMA SuccessStep ==
  TypeOK /\ StagesInOrder /\ SuccessInv /\ [Next]_vars => SuccessInv'
  <1>1. SuccessInv /\ UNCHANGED vars => SuccessInv'
    BY DEF vars, SuccessInv, WritersHold, ChildrenStarted, ChildrenDelivered,
           LoopDone, Alive, Ended
  <1>2. QED
    BY <1>1, Kinds, SuccessClosing, SuccessStarting, SuccessEnding, SuccessMoving

\* "git chat read" succeeds only if it printed every message of the channel,
\* whichever of its children are killed or never run.
THEOREM SuccessIsComplete == Spec => []SuccessMeansAllShown
  <1>1. SuccessInv => SuccessMeansAllShown
    BY DEF SuccessInv, LoopDone, SuccessMeansAllShown
  <1>2. QED
    BY <1>1, SuccessInit, SuccessStep, PipelineTypes, StagesStayInOrder, PTL DEF Spec

-----------------------------------------------------------------------------
(* The pager.                                                              *)

PagerInv ==
  /\ PagerIsWaitedFor
  /\ pager = "none" => state["pager"] = "none"
  /\ pc = "wait_pager" => pager # "none"

\* Every step keeps the pager invariant: git-chat is past its exit only when the
\* pager it started has ended.
LEMMA PagerStep == TypeOK /\ PagerInv /\ [Next]_vars => PagerInv'
  <1> SUFFICES ASSUME TypeOK, PagerInv, [Next]_vars PROVE PagerInv'
    OBVIOUS
  <1> USE DEF TypeOK, PagerInv, PagerIsWaitedFor, Alive, Ended, chosen, progress,
              Children
  <1>1. CASE Closing
    BY <1>1 DEF Closing, CloseReader, NoPager, CloseEnds, ParseFails, ParseEnds,
                ShowBroken, PassEnds, FinishRevList, FinishCatFile, ExitPlain,
                StopPager, FinishPager
  <1>2. CASE Starting
    <2>1. ASSUME NEW c \in Children, Exec(c) PROVE PagerInv'
      BY <2>1 DEF Exec
    <2>2. QED
      BY <1>2, <2>1 DEF Starting, StartPager, StartRevList, StartCatFile, Fork
  <1>3. CASE Ending
    <2>1. CASE RevListEnds \/ CatFileEnds \/ PagerEnds
      BY <2>1 DEF RevListEnds, CatFileEnds, PagerEnds, EndsAs
    <2>2. CASE Interrupt
      BY <2>2 DEF Interrupt
    <2>3. ASSUME NEW c \in Children, Kill(c) \/ ExecFails(c) PROVE PagerInv'
      BY <2>3 DEF Kill, ExecFails, EndsAs
    <2>4. QED
      BY <1>3, <2>1, <2>2, <2>3 DEF Ending
  <1>4. CASE Moving
    BY <1>4 DEF Moving, ReadObjects, ReadEof, ParseObject, Show, PagerRead,
                RevListWrite, CatFileTake, CatFileWrite
  <1>5. CASE UNCHANGED vars
    BY <1>5 DEF vars
  <1>6. QED
    BY <1>1, <1>2, <1>3, <1>4, <1>5, Kinds

\* git-chat never exits before its pager, however it comes to exit.
THEOREM PagerEndsFirst == Spec => []PagerIsWaitedFor
  <1>1. Init => PagerInv
    BY DEF Init, PagerInv, PagerIsWaitedFor, Alive, Children
  <1>2. PagerInv => PagerIsWaitedFor
    BY DEF PagerInv
  <1>3. QED
    BY <1>1, <1>2, PagerStep, PipelineTypes, PTL DEF Spec
=============================================================================
