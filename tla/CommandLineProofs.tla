--------------------------- MODULE CommandLineProofs ---------------------------
(***************************************************************************)
(* For any number of terminals, of commands and of arguments: what is left *)
(* in the clear, what is committed and who can read it, what is listed,    *)
(* that what is documented is what parse_options makes of it, and which    *)
(* commands crash.                                                         *)
(***************************************************************************)
EXTENDS CommandLine, OrderLemmas, FiniteSetTheorems

\* The functions of the terminals are functions of the terminals.
PerTerminal ==
  /\ pc = [t \in Terminals |-> pc[t]]
  /\ opt = [t \in Terminals |-> opt[t]]

\* A step of terminal t that has nothing to do with the editor's files: it is
\* in no step of message, and goes to none that uses them.
Elsewhere(t) ==
  /\ pc[t] \notin MessageSteps
  /\ pc' = [pc EXCEPT ![t] = pc'[t]]
  /\ opt' = [opt EXCEPT ![t] = opt'[t]]
  /\ pc'[t] \notin Composing \cup {"wipe", "commit"}
  /\ UNCHANGED <<editmsg, replyLast, sent, dirty>>

-----------------------------------------------------------------------------
(* The steps.                                                              *)

LEMMA StepSets ==
  /\ MessageSteps = {"truncate", "wipe", "read_file", "encrypt", "commit",
                     "reply_open", "reply_write", "editor", "vim", "reply_wipe", "read_back"}
  /\ "idle" \notin MessageSteps /\ ListSteps \cap MessageSteps = {}
  BY DEF MessageSteps, Composing, ListSteps

\* Once its arguments are parsed, a command is where Parsed put it.
LEMMA ParsedMoves ==
  ASSUME PerTerminal, NEW t \in Terminals, NEW args, NEW p, NEW to, NEW s,
         Parsed(t, args, p, to, s)
  PROVE  /\ pc' = [pc EXCEPT ![t] = pc'[t]] /\ pc'[t] = to
         /\ opt' = [opt EXCEPT ![t] = opt'[t]] /\ opt'[t] = p
         /\ PerTerminal'
  <1>1. pc' = [pc EXCEPT ![t] = to] /\ opt' = [opt EXCEPT ![t] = p]
    BY DEF Parsed
  <1>2. pc'[t] = to /\ opt'[t] = p
    BY <1>1 DEF PerTerminal
  <1>3. pc' = [u \in Terminals |-> pc'[u]]
    BY <1>1 DEF PerTerminal
  <1>4. opt' = [u \in Terminals |-> opt'[u]]
    BY <1>1 DEF PerTerminal
  <1>5. QED
    BY <1>1, <1>2, <1>3, <1>4 DEF PerTerminal

\* A command of another kind is started.
LEMMA StartsElsewhere ==
  ASSUME PerTerminal, NEW t \in Terminals, NEW args, Start(t, args), ~StartMessage(t, args)
  PROVE  Elsewhere(t) /\ PerTerminal' /\ msg' = msg /\ pc'[t] \notin MessageSteps
  <1> USE StepSets DEF Elsewhere, messageVars
  <1>1. CASE MainEnds(t, args) /\ UNCHANGED <<refs, messageVars, listing>>
    BY <1>1, ParsedMoves DEF MainEnds, Composing
  <1>2. CASE StartRead(t, args) /\ UNCHANGED <<refs, messageVars, listing>>
    <2>1. pc[t] = "idle" /\ \E p, s : Parsed(t, args, p, "idle", s)
      BY <1>2 DEF StartRead, Runs
    <2>2. QED
      BY <1>2, <2>1, ParsedMoves DEF Composing
  <1>3. CASE ChannelEnds(t, args) /\ UNCHANGED messageVars
    BY <1>3, ParsedMoves DEF ChannelEnds, Runs, Composing
  <1>4. CASE StartList(t, args) /\ UNCHANGED messageVars
    <2> DEFINE p == Parse(ListOptions, Tail(ChannelParse(args).left), FALSE, TRUE)
    <2> HIDE DEF p
    <2>1. \E to \in {"idle", "list_local"} : \E s : Parsed(t, args, p, to, s)
      BY <1>4 DEF StartList, p
    <2>2. pc[t] = "idle"
      BY <1>4 DEF StartList, Runs
    <2>3. QED
      BY <1>4, <2>1, <2>2, ParsedMoves DEF Composing
  <1>5. QED
    BY <1>1, <1>2, <1>3, <1>4 DEF Start

\* A message is started.
LEMMA MessageStarts ==
  ASSUME PerTerminal, NEW t \in Terminals, NEW args, StartMessage(t, args)
  PROVE  /\ Elsewhere(t) /\ PerTerminal'
         /\ pc'[t] \in {"idle", "read_file", "encrypt", "truncate"}
         /\ pc'[t] = "truncate" => Given(opt'[t]) = << >>
         /\ msg' = [msg EXCEPT ![t] =
                      [Blank EXCEPT !.buff = Given(opt'[t]), !.meant = Given(opt'[t])]]
  <1> DEFINE p == Parse(MessageOptions, MainParse(args).left, TRUE, TRUE)
  <1> HIDE DEF p
  <1>1. PICK to, s : /\ Parsed(t, args, p, to, s)
                     /\ to \in {"idle", Source(p)}
    BY DEF StartMessage, p
  <1>2. Source(p) \in {"read_file", "encrypt", "truncate"}
        /\ (Source(p) = "truncate" => ~IsGiven(p, "message"))
    BY DEF Source
  <1>3. /\ pc' = [pc EXCEPT ![t] = pc'[t]] /\ pc'[t] = to
        /\ opt' = [opt EXCEPT ![t] = opt'[t]] /\ opt'[t] = p
        /\ PerTerminal'
    BY <1>1, ParsedMoves
  <1>4. pc[t] = "idle" /\ UNCHANGED <<editmsg, replyLast, sent, dirty>>
        /\ msg' = [msg EXCEPT ![t] = [Blank EXCEPT !.buff = Given(p), !.meant = Given(p)]]
    BY DEF StartMessage, Runs, p
  <1>5. pc'[t] = "truncate" => Given(opt'[t]) = << >>
    BY <1>1, <1>2, <1>3 DEF Given
  <1>6. QED
    BY <1>1, <1>2, <1>3, <1>4, <1>5, StepSets DEF Elsewhere, Composing

\* Step and Ends move one terminal and leave its options alone.
LEMMA StepMoves ==
  ASSUME PerTerminal, NEW t \in Terminals, NEW from, NEW to,
         Step(t, from, to) \/ (pc[t] = from /\ to = "idle" /\ \E s : Ends(t, s))
  PROVE  /\ pc[t] = from /\ pc'[t] = to /\ pc' = [pc EXCEPT ![t] = pc'[t]]
         /\ \A u \in Terminals : u # t => pc'[u] = pc[u]
         /\ opt' = opt /\ PerTerminal'
  <1>1. pc[t] = from /\ pc' = [pc EXCEPT ![t] = to] /\ opt' = opt
    BY DEF Step, Ends
  <1>2. pc'[t] = to /\ \A u \in Terminals : u # t => pc'[u] = pc[u]
    BY <1>1 DEF PerTerminal
  <1>3. pc' = [u \in Terminals |-> pc'[u]]
    BY <1>1 DEF PerTerminal
  <1>4. QED
    BY <1>1, <1>2, <1>3 DEF PerTerminal

\* The steps of a listing.
LEMMA ListsElsewhere ==
  ASSUME PerTerminal, NEW t \in Terminals, List(t) \/ StopList(t)
  PROVE  Elsewhere(t) /\ PerTerminal' /\ msg' = msg /\ pc'[t] \notin MessageSteps
  <1>0. UNCHANGED <<editmsg, replyLast, sent, dirty, msg>>
    BY DEF List, StopList, messageVars
  <1>1. PICK from \in ListSteps, to \in ListSteps \cup {"idle"} :
          Step(t, from, to) \/ (pc[t] = from /\ to = "idle" /\ \E s : Ends(t, s))
    BY DEF List, StopList, ListStep, KillList, ListLocal, ListRemote, FilterChannels, PrintLocal,
           PrintRemote, ListDone, ListCrashes, ListSteps
  <1>2. /\ pc[t] = from /\ pc'[t] = to /\ pc' = [pc EXCEPT ![t] = pc'[t]]
        /\ opt' = opt /\ PerTerminal'
    BY <1>1, StepMoves
  <1>3. opt' = [opt EXCEPT ![t] = opt'[t]]
    BY <1>2 DEF PerTerminal
  <1>4. QED
    BY <1>0, <1>2, <1>3, StepSets DEF Elsewhere, MessageSteps

-----------------------------------------------------------------------------
(* Nothing stays in the clear.                                             *)

\* The steps of the editor that opened the file last: from its first draft to
\* the wipe.
Editing == {"vim", "reply_wipe", "read_back", "wipe"}

\* A text in GC_EDITMSG belongs to one who will wipe it, or was given up; the
\* messages in GC_REPLY_LAST belong to one who shows them.
PlaintextInv ==
  /\ PerTerminal
  /\ editmsg # << >> => "GC_EDITMSG" \in dirty \/ \E t \in Terminals : pc[t] \in Editing
  /\ replyLast # << >> =>
       "GC_REPLY_LAST" \in dirty \/ \E t \in Terminals : pc[t] \in Replying /\ Shows(t)
  /\ \A t \in Terminals : pc[t] \in {"reply_open", "reply_write", "reply_wipe"} => Shows(t)

LEMMA InitPlaintext == Init => PlaintextInv
  BY DEF Init, TerminalInit, MessageInit, PlaintextInv, PerTerminal

\* Other commands, and messages that are started.
LEMMA ElsewherePlaintext ==
  ASSUME PlaintextInv, NEW t \in Terminals, Elsewhere(t), PerTerminal'
  PROVE  PlaintextInv'
  <1>1. \A u \in Terminals : u # t => pc'[u] = pc[u] /\ opt'[u] = opt[u] /\ (Shows(u)' <=> Shows(u))
    BY DEF Elsewhere, PlaintextInv, PerTerminal, Shows
  <1>2. pc[t] \notin MessageSteps /\ pc'[t] \notin Composing
        /\ UNCHANGED <<editmsg, replyLast, dirty>>
    BY DEF Elsewhere
  <1>3. QED
    BY <1>1, <1>2 DEF PlaintextInv, Editing, Replying, MessageSteps, Composing

\* A step of message changes one pc, and the options of none.
LEMMA MessageMoves ==
  ASSUME PerTerminal, NEW t \in Terminals, MessageStep(t)
  PROVE  /\ pc[t] \in MessageSteps /\ pc'[t] \in MessageSteps \cup {"idle"}
         /\ pc' = [pc EXCEPT ![t] = pc'[t]]
         /\ \A u \in Terminals : u # t => pc'[u] = pc[u]
         /\ opt' = opt /\ PerTerminal'
  <1>1. PICK from \in MessageSteps, to \in MessageSteps \cup {"idle"} :
          Step(t, from, to) \/ (pc[t] = from /\ to = "idle" /\ \E s : Ends(t, s))
    <2> USE StepSets
    <2>1. CASE TruncateEditMsg(t) \/ OpenReply(t) \/ WriteReply(t) \/ WriteReplyFails(t)
      BY <2>1 DEF TruncateEditMsg, OpenReply, WriteReply, WriteReplyFails
    <2>2. CASE LaunchEditor(t) \/ SaveDraft(t) \/ QuitEditor(t) \/ EditorFails(t)
      BY <2>2 DEF LaunchEditor, SaveDraft, QuitEditor, EditorFails
    <2>3. CASE WipeReply(t) \/ ReadBack(t) \/ WipeEditMsg(t)
      BY <2>3 DEF WipeReply, ReadBack, WipeEditMsg
    <2>4. CASE ReadFile(t) \/ ReadFileFails(t) \/ Encrypt(t) \/ EncryptFails(t)
      BY <2>4 DEF ReadFile, ReadFileFails, Encrypt, EncryptFails
    <2>5. CASE WriteCommit(t) \/ WriteCommitFails(t) \/ KillMessage(t)
      BY <2>5 DEF WriteCommit, WriteCommitFails, KillMessage
    <2>6. QED
      BY <2>1, <2>2, <2>3, <2>4, <2>5 DEF MessageStep
  <1>2. QED
    BY <1>1, StepMoves

LEMMA MessagePlaintext ==
  ASSUME PlaintextInv, NEW t \in Terminals, MessageStep(t)
  PROVE  PlaintextInv'
  <1>0. /\ \A u \in Terminals : u # t => pc'[u] = pc[u]
        /\ opt' = opt /\ PerTerminal'
        /\ \A u \in Terminals : Shows(u)' <=> Shows(u)
    BY MessageMoves DEF PlaintextInv, Shows
  <1>m. ASSUME NEW from, NEW to, Step(t, from, to)
        PROVE  pc[t] = from /\ pc'[t] = to
    BY <1>m, StepMoves DEF PlaintextInv
  <1>e. ASSUME NEW s, Ends(t, s)
        PROVE  pc'[t] = "idle"
    BY <1>e DEF Ends, PlaintextInv, PerTerminal
  <1> USE <1>0, <1>m, <1>e DEF PlaintextInv, Editing, Replying, Composing
  <1>1. CASE TruncateEditMsg(t)
    BY <1>1 DEF TruncateEditMsg
  <1>2. CASE OpenReply(t)
    BY <1>2 DEF OpenReply
  <1>3. CASE WriteReply(t)
    BY <1>3 DEF WriteReply
  <1>4. CASE WriteReplyFails(t)
    BY <1>4 DEF WriteReplyFails
  <1>5. CASE LaunchEditor(t)
    BY <1>5 DEF LaunchEditor
  <1>6. CASE SaveDraft(t)
    BY <1>6 DEF SaveDraft
  <1>7. CASE QuitEditor(t)
    BY <1>7 DEF QuitEditor, messageVars
  <1>8. CASE EditorFails(t)
    BY <1>8 DEF EditorFails
  <1>9. CASE WipeReply(t)
    BY <1>9 DEF WipeReply
  <1>10. CASE ReadBack(t)
    BY <1>10 DEF ReadBack
  <1>11. CASE WipeEditMsg(t)
    BY <1>11 DEF WipeEditMsg
  <1>12. CASE ReadFile(t) \/ ReadFileFails(t) \/ Encrypt(t) \/ EncryptFails(t)
    BY <1>12 DEF ReadFile, ReadFileFails, Encrypt, EncryptFails
  <1>13. CASE WriteCommit(t) \/ WriteCommitFails(t)
    BY <1>13 DEF WriteCommit, WriteCommitFails
  <1>14. CASE KillMessage(t)
    BY <1>14 DEF KillMessage
  <1>15. QED
    BY <1>1, <1>2, <1>3, <1>4, <1>5, <1>6, <1>7, <1>8, <1>9, <1>10, <1>11, <1>12, <1>13, <1>14
      DEF MessageStep

\* What a step is: of a message, or elsewhere, or none of a terminal's.
LEMMA Kinds ==
  ASSUME PerTerminal, [Next]_vars
  PROVE  \/ \E t \in Terminals : MessageStep(t)
         \/ \E t \in Terminals : \E args \in Lines \cup Solo : StartMessage(t, args)
         \/ \E t \in Terminals : Elsewhere(t) /\ PerTerminal' /\ msg' = msg
                                 /\ pc'[t] \notin MessageSteps
         \/ UNCHANGED <<pc, opt, messageVars>>
  <1>1. ASSUME NEW t \in Terminals, StartSide(t) \/ StartAlone(t)
        PROVE  \/ \E args \in Lines \cup Solo : StartMessage(t, args)
               \/ Elsewhere(t) /\ PerTerminal' /\ msg' = msg /\ pc'[t] \notin MessageSteps
    <2>1. PICK args \in Lines \cup Solo : Start(t, args)
      BY <1>1 DEF StartSide, StartAlone
    <2>2. QED
      BY <2>1, StartsElsewhere
  <1>2. ASSUME NEW t \in Terminals, Message(t) PROVE MessageStep(t)
    BY <1>2 DEF Message
  <1>3. Move \/ UNCHANGED vars => UNCHANGED <<pc, opt, messageVars>>
    BY DEF Move, vars, control
  <1>4. QED
    BY <1>1, <1>2, <1>3, ListsElsewhere DEF Next

LEMMA PlaintextStep == PlaintextInv /\ [Next]_vars => PlaintextInv'
  <1> SUFFICES ASSUME PlaintextInv, [Next]_vars PROVE PlaintextInv'
    OBVIOUS
  <1>1. PerTerminal
    BY DEF PlaintextInv
  <1>2. CASE UNCHANGED <<pc, opt, messageVars>>
    BY <1>2 DEF PlaintextInv, PerTerminal, messageVars, Shows
  <1>3. CASE \E t \in Terminals : \E args : StartMessage(t, args)
    BY <1>1, <1>3, MessageStarts, ElsewherePlaintext
  <1>4. QED
    BY <1>1, <1>2, <1>3, Kinds, MessagePlaintext, ElsewherePlaintext

\* With no editor at work, neither of its files holds a message in the clear,
\* however many terminals have shared them, unless a command that failed left
\* it there.
THEOREM NoPlaintextIsLeft == Spec => []PlaintextIsWiped
  <1>1. PlaintextInv => PlaintextIsWiped
    BY DEF PlaintextInv, PlaintextIsWiped, Editing, Composing
  <1>2. QED
    BY <1>1, InitPlaintext, PlaintextStep, PTL DEF Spec

-----------------------------------------------------------------------------
(* A message says what its author wrote.                                   *)

\* A local record of a message command has the fields it has.
Fields(m) ==
  m = [shown |-> m.shown, vimOk |-> m.vimOk, buff |-> m.buff, readers |-> m.readers,
       meant |-> m.meant, disturbed |-> m.disturbed]

\* What an undisturbed command of terminal t knows at each of its steps: before
\* the editor the file is empty, in it the file is what the editor shows and the
\* user wrote, and what is read back is what will be committed.
OnTheWay(t, m) ==
  ~m.disturbed =>
    /\ pc[t] = "truncate" => m.meant = << >>
    /\ pc[t] \in {"reply_open", "reply_write", "editor"} => editmsg = << >> /\ m.meant = << >>
    /\ pc[t] = "vim" => /\ m.shown = editmsg /\ m.meant = editmsg
                        /\ editmsg \in {<< >>, <<t>>}
    /\ pc[t] \in {"reply_wipe", "read_back"} => m.meant = editmsg
    /\ pc[t] \in {"wipe", "encrypt", "commit"} => m.buff = m.meant

MeantInv ==
  /\ PerTerminal
  /\ msg = [t \in Terminals |-> msg[t]]
  /\ \A t \in Terminals : Fields(msg[t]) /\ OnTheWay(t, msg[t])
  /\ sent \in Seq(ToSet(sent))
  /\ MessageIsAsMeant

LEMMA InitMeant == Init => MeantInv
  <1> SUFFICES ASSUME Init PROVE MeantInv
    OBVIOUS
  <1>1. sent \in Seq(ToSet(sent)) /\ DOMAIN sent = {}
    BY DEF Init, MessageInit
  <1>2. \A t \in Terminals : Fields(msg[t]) /\ OnTheWay(t, msg[t])
    BY DEF Init, TerminalInit, MessageInit, Blank, Fields, OnTheWay
  <1>3. QED
    BY <1>1, <1>2 DEF Init, TerminalInit, MessageInit, MeantInv, PerTerminal, MessageIsAsMeant

\* What a step of one terminal has to show for itself, when it leaves the file
\* alone or tells the others.
LEMMA OthersKeep ==
  ASSUME MeantInv, NEW t \in Terminals, NEW m, PerTerminal',
         \A u \in Terminals : u # t => pc'[u] = pc[u],
         \/ editmsg' = editmsg /\ Assign(t, m)
         \/ Disturb(t, m),
         Fields(m), OnTheWay(t, m)',
         UNCHANGED sent \/ (sent' \in Seq(ToSet(sent')) /\ MessageIsAsMeant')
  PROVE  MeantInv'
  <1>1. msg' = [u \in Terminals |-> msg'[u]] /\ msg'[t] = m
    BY DEF Assign, Disturb, MeantInv
  <1>2. ASSUME NEW u \in Terminals, u # t
        PROVE  Fields(msg'[u]) /\ OnTheWay(u, msg[u])'
    <2>1. Fields(msg[u]) /\ OnTheWay(u, msg[u]) /\ pc'[u] = pc[u]
      BY <1>2 DEF MeantInv
    <2>2. CASE msg'[u] = msg[u] /\ (editmsg' = editmsg \/ pc[u] \notin Composing)
      BY <2>1, <2>2 DEF OnTheWay, Composing
    <2>3. CASE msg'[u] = [msg[u] EXCEPT !.disturbed = TRUE]
      <3>1. msg'[u] = [shown |-> msg[u].shown, vimOk |-> msg[u].vimOk, buff |-> msg[u].buff,
                       readers |-> msg[u].readers, meant |-> msg[u].meant, disturbed |-> TRUE]
        BY <2>1, <2>3 DEF Fields
      <3>2. QED
        BY <3>1 DEF Fields, OnTheWay
    <2>4. QED
      BY <1>2, <2>2, <2>3 DEF Assign, Disturb, MeantInv
  <1>3. Fields(msg'[t]) /\ OnTheWay(t, msg[t])'
    BY <1>1
  <1>4. sent' \in Seq(ToSet(sent')) /\ MessageIsAsMeant'
    BY DEF MeantInv, MessageIsAsMeant
  <1>5. QED
    BY <1>1, <1>2, <1>3, <1>4 DEF MeantInv

LEMMA ElsewhereMeant ==
  ASSUME MeantInv, NEW t \in Terminals, Elsewhere(t), PerTerminal',
         msg' = msg /\ pc'[t] \notin MessageSteps
  PROVE  MeantInv'
  <1>1. PICK m : m = msg[t]
    OBVIOUS
  <1>2. /\ \A u \in Terminals : u # t => pc'[u] = pc[u]
        /\ editmsg' = editmsg /\ sent' = sent
    BY DEF Elsewhere, MeantInv, PerTerminal
  <1>3. Assign(t, m)
    BY <1>1 DEF Assign, MeantInv
  <1>4. Fields(m) /\ OnTheWay(t, m)'
    BY <1>1, StepSets DEF MeantInv, OnTheWay
  <1>5. QED
    BY <1>2, <1>3, <1>4, OthersKeep

LEMMA StartMeant ==
  ASSUME MeantInv, NEW t \in Terminals, NEW args, StartMessage(t, args)
  PROVE  MeantInv'
  <1>1. PICK g : g = Given(opt'[t])
    OBVIOUS
  <1>2. PICK m : m = [Blank EXCEPT !.buff = g, !.meant = g]
    OBVIOUS
  <1>3. m = [shown |-> << >>, vimOk |-> TRUE, buff |-> g, readers |-> {}, meant |-> g,
             disturbed |-> FALSE]
    BY <1>2 DEF Blank
  <1>4. /\ Elsewhere(t) /\ PerTerminal'
        /\ pc'[t] \in {"idle", "read_file", "encrypt", "truncate"}
        /\ pc'[t] = "truncate" => g = << >>
        /\ Assign(t, m)
    BY <1>1, <1>2, MessageStarts DEF MeantInv, Assign
  <1>5. /\ \A u \in Terminals : u # t => pc'[u] = pc[u]
        /\ editmsg' = editmsg /\ sent' = sent
    BY <1>4 DEF Elsewhere, MeantInv, PerTerminal
  <1>6. Fields(m) /\ OnTheWay(t, m)'
    BY <1>3, <1>4 DEF Fields, OnTheWay
  <1>7. QED
    BY <1>4, <1>5, <1>6, OthersKeep

\* A command that ends forgets its record.
LEMMA EndsMeant ==
  ASSUME MeantInv, NEW t \in Terminals, MessageStep(t), pc'[t] = "idle",
         Assign(t, Blank), editmsg' = editmsg,
         UNCHANGED sent \/ (sent' \in Seq(ToSet(sent')) /\ MessageIsAsMeant')
  PROVE  MeantInv'
  <1>1. PICK m : m = Blank
    OBVIOUS
  <1>2. Fields(m) /\ OnTheWay(t, m)'
    BY <1>1 DEF Blank, Fields, OnTheWay
  <1>3. PerTerminal' /\ \A u \in Terminals : u # t => pc'[u] = pc[u]
    BY MessageMoves DEF MeantInv
  <1>4. Assign(t, m)
    BY <1>1
  <1>5. QED
    BY <1>2, <1>3, <1>4, OthersKeep

\* The message that is committed.
LEMMA CommitMeant ==
  ASSUME MeantInv, NEW t \in Terminals, WriteCommit(t)
  PROVE  sent' \in Seq(ToSet(sent')) /\ MessageIsAsMeant'
  <1> DEFINE s == [by |-> t, text |-> msg[t].buff, meant |-> msg[t].meant,
                   disturbed |-> msg[t].disturbed, readers |-> msg[t].readers,
                   recipients |-> Recipients(opt[t])]
             All == ToSet(sent) \cup {s}
  <1>1. sent' = Append(sent, s)
    BY DEF WriteCommit
  <1>2. ~s.disturbed => s.text = s.meant
    BY DEF WriteCommit, MeantInv, OnTheWay
  <1>3. sent \in Seq(ToSet(sent)) /\ sent \in Seq(All) /\ s \in All
    BY DEF MeantInv
  <1> HIDE DEF s, All
  <1>4. /\ sent' \in Seq(All) /\ Len(sent') = Len(sent) + 1 /\ Len(sent) \in Nat
        /\ DOMAIN sent' = 1..Len(sent') /\ DOMAIN sent = 1..Len(sent)
        /\ \A i \in DOMAIN sent : sent'[i] = sent[i]
        /\ sent'[Len(sent) + 1] = s
    BY <1>1, <1>3
  <1>5. \A i \in 1..Len(sent') : sent'[i] \in ToSet(sent')
    BY <1>4 DEF ToSet
  <1>6. sent' \in Seq(ToSet(sent'))
    BY <1>4, <1>5
  <1>7. \A i \in DOMAIN sent' : i \in DOMAIN sent \/ i = Len(sent) + 1
    BY <1>4
  <1>8. MessageIsAsMeant'
    BY <1>2, <1>4, <1>7 DEF MeantInv, MessageIsAsMeant
  <1>9. QED
    BY <1>6, <1>8

LEMMA MessageMeant ==
  ASSUME MeantInv, NEW t \in Terminals, MessageStep(t)
  PROVE  MeantInv'
  <1>0. /\ \A u \in Terminals : u # t => pc'[u] = pc[u]
        /\ PerTerminal' /\ Fields(msg[t]) /\ OnTheWay(t, msg[t])
    BY MessageMoves DEF MeantInv
  <1>m. ASSUME NEW from, NEW to, Step(t, from, to)
        PROVE  pc[t] = from /\ pc'[t] = to
    BY <1>m, StepMoves DEF MeantInv
  <1>e. ASSUME NEW s, Ends(t, s)
        PROVE  pc'[t] = "idle"
    BY <1>e DEF Ends, MeantInv, PerTerminal
  \* A record that changes in no field, in one, or in two.
  <1>k. ASSUME NEW m, Fields(m), OnTheWay(t, m)', UNCHANGED sent,
               (editmsg' = editmsg /\ Assign(t, m)) \/ Disturb(t, m)
        PROVE  MeantInv'
    BY <1>0, <1>k, OthersKeep
  <1>u. ASSUME msg' = msg PROVE Assign(t, msg[t])
    BY <1>u DEF Assign, MeantInv
  <1>1. CASE TruncateEditMsg(t)
    <2>1. PICK m : m = msg[t]
      OBVIOUS
    <2>2. Fields(m) /\ OnTheWay(t, m)' /\ Disturb(t, m)
      BY <1>0, <1>1, <1>m, <2>1 DEF TruncateEditMsg, OnTheWay
    <2>3. QED
      BY <1>1, <1>k, <2>2 DEF TruncateEditMsg
  <1>2. CASE OpenReply(t) \/ WriteReply(t) \/ QuitEditor(t)
    <2>1. PICK m : m = msg[t]
      OBVIOUS
    <2>2. UNCHANGED <<msg, editmsg, sent>>
      BY <1>2 DEF OpenReply, WriteReply, QuitEditor, messageVars
    <2>3. \/ pc[t] = "reply_open" /\ pc'[t] = "reply_write"
          \/ pc[t] = "reply_write" /\ pc'[t] = "editor"
          \/ pc[t] = "vim" /\ pc'[t] \in {"reply_wipe", "read_back"}
      BY <1>2, <1>m DEF OpenReply, WriteReply, QuitEditor
    <2>4. Fields(m) /\ OnTheWay(t, m)' /\ Assign(t, m)
      BY <1>0, <1>u, <2>1, <2>2, <2>3 DEF OnTheWay
    <2>5. QED
      BY <1>k, <2>2, <2>4
  <1>3. CASE LaunchEditor(t)
    <2>1. PICK m : m = [msg[t] EXCEPT !.shown = editmsg]
      OBVIOUS
    <2>2. m = [shown |-> editmsg, vimOk |-> msg[t].vimOk, buff |-> msg[t].buff,
               readers |-> msg[t].readers, meant |-> msg[t].meant,
               disturbed |-> msg[t].disturbed]
      BY <1>0, <2>1 DEF Fields
    <2>3. Fields(m) /\ OnTheWay(t, m)' /\ Assign(t, m)
      BY <1>0, <1>3, <1>m, <2>1, <2>2 DEF LaunchEditor, Fields, OnTheWay
    <2>4. QED
      BY <1>3, <1>k, <2>3 DEF LaunchEditor
  <1>4. CASE SaveDraft(t)
    <2>1. PICK m : m = [msg[t] EXCEPT !.shown = Append(msg[t].shown, t), !.meant = <<t>>]
      OBVIOUS
    <2>2. m = [shown |-> Append(msg[t].shown, t), vimOk |-> msg[t].vimOk, buff |-> msg[t].buff,
               readers |-> msg[t].readers, meant |-> <<t>>, disturbed |-> msg[t].disturbed]
      BY <1>0, <2>1 DEF Fields
    <2>3. /\ Disturb(t, m) /\ pc[t] = "vim" /\ pc'[t] = "vim" /\ sent' = sent
          /\ editmsg' = Append(msg[t].shown, t) /\ t \notin ToSet(msg[t].shown)
      BY <1>4, <1>m, <2>1 DEF SaveDraft
    <2>4. msg[t].shown # <<t>>
      <3>1. t \in ToSet(<<t>>)
        BY DEF ToSet
      <3>2. QED
        BY <2>3, <3>1
    <2>5. ~msg[t].disturbed => Append(msg[t].shown, t) = <<t>>
      <3>1. Append(<< >>, t) = <<t>>
        OBVIOUS
      <3>2. ~msg[t].disturbed => msg[t].shown = << >>
        BY <1>0, <2>3, <2>4 DEF OnTheWay
      <3>3. QED
        BY <3>1, <3>2
    <2>6. Fields(m) /\ OnTheWay(t, m)'
      BY <2>2, <2>3, <2>5 DEF Fields, OnTheWay
    <2>7. QED
      BY <1>k, <2>3, <2>6
  <1>5. CASE EditorFails(t) /\ ~Shows(t)
    BY <1>5, <1>e, EndsMeant DEF EditorFails
  <1>6. CASE EditorFails(t) /\ Shows(t)
    <2>1. PICK m : m = [msg[t] EXCEPT !.vimOk = FALSE]
      OBVIOUS
    <2>2. m = [shown |-> msg[t].shown, vimOk |-> FALSE, buff |-> msg[t].buff,
               readers |-> msg[t].readers, meant |-> msg[t].meant,
               disturbed |-> msg[t].disturbed]
      BY <1>0, <2>1 DEF Fields
    <2>3. /\ Step(t, "vim", "reply_wipe") /\ UNCHANGED <<editmsg, sent>>
          /\ Assign(t, [msg[t] EXCEPT !.vimOk = FALSE])
      BY <1>6 DEF EditorFails
    <2>4. pc[t] = "vim" /\ pc'[t] = "reply_wipe"
      BY <1>m, <2>3
    <2>5. Fields(m) /\ OnTheWay(t, m)'
      BY <1>0, <2>2, <2>3, <2>4 DEF Fields, OnTheWay
    <2>6. Assign(t, m)
      BY <2>1, <2>3
    <2>7. QED
      BY <1>k, <2>3, <2>5, <2>6
  <1>7. CASE WipeReply(t) /\ msg[t].vimOk
    <2>1. PICK m : m = msg[t]
      OBVIOUS
    <2>2. Fields(m) /\ OnTheWay(t, m)' /\ Assign(t, m)
      BY <1>0, <1>7, <1>m, <1>u, <2>1 DEF WipeReply, OnTheWay
    <2>3. QED
      BY <1>7, <1>k, <2>2 DEF WipeReply
  <1>8. CASE WipeReply(t) /\ ~msg[t].vimOk
    BY <1>8, <1>e, EndsMeant DEF WipeReply
  <1>9. CASE ReadBack(t)
    <2>1. PICK m : m = [msg[t] EXCEPT !.buff = editmsg]
      OBVIOUS
    <2>2. m = [shown |-> msg[t].shown, vimOk |-> msg[t].vimOk, buff |-> editmsg,
               readers |-> msg[t].readers, meant |-> msg[t].meant,
               disturbed |-> msg[t].disturbed]
      BY <1>0, <2>1 DEF Fields
    <2>3. Fields(m) /\ OnTheWay(t, m)' /\ Assign(t, m)
      BY <1>0, <1>9, <1>m, <2>1, <2>2 DEF ReadBack, Fields, OnTheWay
    <2>4. QED
      BY <1>9, <1>k, <2>3 DEF ReadBack
  <1>10. CASE WipeEditMsg(t)
    <2>1. PICK m : m = msg[t]
      OBVIOUS
    <2>2. Fields(m) /\ OnTheWay(t, m)' /\ Disturb(t, m)
      BY <1>0, <1>10, <1>m, <2>1 DEF WipeEditMsg, OnTheWay
    <2>3. QED
      BY <1>10, <1>k, <2>2 DEF WipeEditMsg
  <1>11. CASE ReadFile(t)
    <2>1. PICK text \in FileTexts : Assign(t, [msg[t] EXCEPT !.buff = text, !.meant = text])
      BY <1>11 DEF ReadFile
    <2>2. PICK m : m = [msg[t] EXCEPT !.buff = text, !.meant = text]
      OBVIOUS
    <2>3. m = [shown |-> msg[t].shown, vimOk |-> msg[t].vimOk, buff |-> text,
               readers |-> msg[t].readers, meant |-> text, disturbed |-> msg[t].disturbed]
      BY <1>0, <2>2 DEF Fields
    <2>4. pc'[t] = "encrypt" /\ UNCHANGED <<editmsg, sent>>
      BY <1>11, <1>m DEF ReadFile
    <2>5. Fields(m) /\ OnTheWay(t, m)'
      BY <2>3, <2>4 DEF Fields, OnTheWay
    <2>6. Assign(t, m)
      BY <2>1, <2>2
    <2>7. QED
      BY <1>k, <2>4, <2>5, <2>6
  <1>12. CASE Encrypt(t)
    <2>1. PICK m : m = [msg[t] EXCEPT !.readers = Readers(opt[t])]
      OBVIOUS
    <2>2. m = [shown |-> msg[t].shown, vimOk |-> msg[t].vimOk, buff |-> msg[t].buff,
               readers |-> Readers(opt[t]), meant |-> msg[t].meant,
               disturbed |-> msg[t].disturbed]
      BY <1>0, <2>1 DEF Fields
    <2>3. Fields(m) /\ OnTheWay(t, m)' /\ Assign(t, m)
      BY <1>0, <1>12, <1>m, <2>1, <2>2 DEF Encrypt, Fields, OnTheWay
    <2>4. QED
      BY <1>12, <1>k, <2>3 DEF Encrypt
  <1>13. CASE WriteCommit(t)
    BY <1>13, <1>e, EndsMeant, CommitMeant DEF WriteCommit
  <1>14. CASE WriteReplyFails(t) \/ ReadFileFails(t) \/ EncryptFails(t)
    BY <1>14, <1>e, EndsMeant DEF WriteReplyFails, ReadFileFails, EncryptFails
  <1>15. CASE WriteCommitFails(t) \/ KillMessage(t)
    BY <1>15, <1>e, EndsMeant DEF WriteCommitFails, KillMessage
  <1>16. QED
    BY <1>1, <1>2, <1>3, <1>4, <1>5, <1>6, <1>7, <1>8, <1>9, <1>10, <1>11, <1>12, <1>13, <1>14,
       <1>15 DEF MessageStep

LEMMA MeantStep == MeantInv /\ [Next]_vars => MeantInv'
  <1> SUFFICES ASSUME MeantInv, [Next]_vars PROVE MeantInv'
    OBVIOUS
  <1>1. PerTerminal
    BY DEF MeantInv
  <1>2. CASE UNCHANGED <<pc, opt, messageVars>>
    BY <1>2 DEF MeantInv, PerTerminal, messageVars, OnTheWay, Fields, MessageIsAsMeant
  <1>3. QED
    BY <1>1, <1>2, Kinds, StartMeant, MessageMeant, ElsewhereMeant

\* Whatever killed and failed commands left in the editor's file, and however
\* many terminals share it: a message that is committed is what its author
\* wrote, unless another terminal changed the file while the editor was open.
THEOREM MessagesAreMeant == Spec => []MessageIsAsMeant
  <1>1. MeantInv => MessageIsAsMeant
    BY DEF MeantInv
  <1>2. QED
    BY <1>1, InitMeant, MeantStep, PTL DEF Spec

-----------------------------------------------------------------------------
(* What parse_options makes of its arguments.                              *)

\* What an argument is made of, and the rows of a table.
IsArg(a, V) == {a.text, a.name, a.value} \subseteq V /\ a.flags \in Seq(V)

IsTable(opts, I) == opts \in Seq(ToSet(opts)) /\ \A op \in ToSet(opts) : op.id \in I

\* What a list of arguments is made of.
Texts(A) ==
  {None} \cup {a.text : a \in A} \cup {a.name : a \in A} \cup {a.value : a \in A}
    \cup UNION {ToSet(a.flags) : a \in A}

LEMMA TextsAre ==
  ASSUME NEW A, \A a \in A : a.flags \in Seq(ToSet(a.flags))
  PROVE  None \in Texts(A) /\ \A a \in A : IsArg(a, Texts(A))
  <1>1. None \in Texts(A)
    BY DEF Texts
  <1>2. ASSUME NEW a \in A PROVE IsArg(a, Texts(A))
    <2>1. ToSet(a.flags) \subseteq Texts(A) /\ {a.text, a.name, a.value} \subseteq Texts(A)
      BY DEF Texts
    <2>2. a.flags \in Seq(ToSet(a.flags))
      OBVIOUS
    <2>3. a.flags \in Seq(Texts(A))
      BY <2>1, <2>2
    <2>4. QED
      BY <2>1, <2>3 DEF IsArg
  <1>3. QED
    BY <1>1, <1>2

\* The states of a parse of arguments in A, whose texts are in V.
States(A, V, I) ==
  [left : Seq(A), at : Nat \ {0}, given : Seq([id : I, value : V]),
   over : BOOLEAN, crashed : BOOLEAN]

\* Arguments are taken out, one or two at a time.
LEMMA ShiftStays ==
  ASSUME NEW A, NEW V, NEW I, NEW s \in States(A, V, I), NEW n \in {1, 2},
         s.at + n - 1 <= Len(s.left)
  PROVE  Shift(s, n) \in States(A, V, I)
  <1> DEFINE k == s.at
             l == s.left
             a == SubSeq(l, 1, k - 1)
             b == SubSeq(l, k + n, Len(l))
  <1>1. l \in Seq(A) /\ k \in Nat /\ k >= 1 /\ k + n - 1 <= Len(l) /\ Len(l) \in Nat
    BY DEF States
  <1> HIDE DEF l, k
  <1>2. \A i \in 1..(k - 1) : i \in 1..Len(l)
    BY <1>1
  <1>3. \A i \in (k + n)..Len(l) : i \in 1..Len(l)
    BY <1>1
  <1>4. a \in Seq(A)
    BY <1>1, <1>2
  <1>5. b \in Seq(A)
    BY <1>1, <1>3
  <1> HIDE DEF a, b
  <1>6. a \o b \in Seq(A)
    BY <1>4, <1>5
  <1>7. Shift(s, n) = [s EXCEPT !.left = a \o b]
    BY DEF Shift, a, b, l, k
  <1>8. QED
    BY <1>6, <1>7 DEF States

\* An option is given a value.
LEMMA GiveStays ==
  ASSUME NEW A, NEW V, NEW I, NEW s \in States(A, V, I), NEW op, op.id \in I, NEW v \in V
  PROVE  Give(s, op, v) \in States(A, V, I)
  <1>1. [id |-> op.id, value |-> v] \in [id : I, value : V]
    OBVIOUS
  <1>2. Append(s.given, [id |-> op.id, value |-> v]) \in Seq([id : I, value : V])
    BY <1>1 DEF States
  <1>3. QED
    BY <1>2 DEF Give, States

\* An argument that is no option stays, or is passed over.
LEMMA UnknownStays ==
  ASSUME NEW A, NEW V, NEW I, NEW s \in States(A, V, I), NEW stop
  PROVE  Unknown(s, stop) \in States(A, V, I)
  <1>1. s.at + 1 \in Nat \ {0}
    BY DEF States
  <1>2. QED
    BY <1>1 DEF Unknown, States

\* What the loop over the table keeps of an argument.
Finds(A, V, I) == [name : V, value : V, result : SUBSET States(A, V, I)]

\* One row of the table, for an argument.
LEMMA SearchStays ==
  ASSUME NEW A, NEW V, NEW I, NEW s \in States(A, V, I), s.at <= Len(s.left), None \in V,
         \A a \in A : IsArg(a, V),
         NEW find \in Finds(A, V, I), NEW op, op.id \in I
  PROVE  SearchStep(s, find, op) \in Finds(A, V, I)
  <1> DEFINE joined  == find.value # None
             matches == find.result = {} /\ op.long = find.name /\ op.long # None
             switch  == op.type = "bool" /\ ~joined
             has     == ~switch /\ (joined \/ HasValue(s))
             value   == IF joined THEN find.value ELSE ValueArg(s)
             n == IF joined THEN 1 ELSE 2
  <1>0. s.left \in Seq(A) /\ s.at \in Nat /\ s.at >= 1 /\ Len(s.left) \in Nat
    BY DEF States
  <1>1. HasValue(s) => ValueArg(s) \in V
    <2>1. HasValue(s) => s.left[s.at + 1] \in A
      BY <1>0 DEF HasValue
    <2>2. QED
      BY <2>1 DEF ValueArg, IsArg
  <1>2. has => value \in V /\ n \in {1, 2} /\ s.at + n - 1 <= Len(s.left)
    BY <1>0, <1>1 DEF HasValue, Finds
  <1>3. Give(Shift(s, 1), op, None) \in States(A, V, I)
    <2>1. s.at + 1 - 1 <= Len(s.left) /\ 1 \in {1, 2}
      BY <1>0
    <2>2. Shift(s, 1) \in States(A, V, I)
      BY <2>1, ShiftStays
    <2>3. QED
      BY <2>2, GiveStays
  <1>4. has => Give(Shift(s, n), op, value) \in States(A, V, I)
    <2>1. has => Shift(s, n) \in States(A, V, I)
      BY <1>2, ShiftStays
    <2> HIDE DEF has, n
    <2>2. QED
      BY <1>2, <2>1, GiveStays
  <1>5. SearchStep(s, find, op) =
          CASE matches /\ switch -> [find EXCEPT !.result = {Give(Shift(s, 1), op, None)}]
            [] matches /\ has /\ Fits(op, value) ->
                 [find EXCEPT !.result = {Give(Shift(s, n), op, value)}]
            [] matches /\ has /\ ~Fits(op, value) -> [find EXCEPT !.name = value, !.value = None]
            [] OTHER -> find
    BY DEF SearchStep
  <1>6. switch => ~has
    OBVIOUS
  <1> HIDE DEF joined, matches, switch, has, value, n
  <1>7. CASE matches /\ switch
    BY <1>3, <1>5, <1>6, <1>7 DEF Finds
  <1>8. CASE matches /\ has /\ Fits(op, value)
    BY <1>4, <1>5, <1>6, <1>8 DEF Finds
  <1>9. CASE matches /\ has /\ ~Fits(op, value)
    BY <1>2, <1>5, <1>6, <1>9 DEF Finds
  <1>10. CASE ~matches \/ (~switch /\ ~has)
    BY <1>5, <1>10
  <1>11. QED
    BY <1>7, <1>8, <1>9, <1>10

\* What the search through the table finds, and has found after each of its rows.
Search(opts, s, base) == FoldLeft(LAMBDA f, op : SearchStep(s, f, op), base, opts)

Searches(T, A, V, I, opts, s, base) ==
  /\ T \in [0..Len(opts) -> Finds(A, V, I)]
  /\ T[0] = base
  /\ \A k \in 1..Len(opts) : T[k] = SearchStep(s, T[k - 1], opts[k])

LEMMA SearchFolds ==
  ASSUME NEW A, NEW V, NEW I, NEW s \in States(A, V, I), s.at <= Len(s.left), None \in V,
         \A a \in A : IsArg(a, V),
         NEW opts, IsTable(opts, I), NEW base \in Finds(A, V, I)
  PROVE  \E T : /\ Searches(T, A, V, I, opts, s, base)
                /\ T[Len(opts)] = Search(opts, s, base)
  <1> DEFINE N == Len(opts)
             St == Finds(A, V, I)
             F == [p \in St \X (1..N) |-> SearchStep(s, p[1], opts[p[2]])]
             Raw(g) == g = [S \in SUBSET (1..N) |->
                       IF S = {} THEN base ELSE SearchStep(s, g[S \ {Max(S)}], opts[Max(S)])]
             it == CHOOSE g : Raw(g)
  <1>1. N \in Nat /\ DOMAIN opts = 1..N /\ \A i \in 1..N : opts[i].id \in I
    BY DEF IsTable
  <1> HIDE DEF N
  <1>2. ASSUME NEW f \in St, NEW i \in 1..N PROVE SearchStep(s, f, opts[i]) \in St
    BY <1>1, SearchStays
  <1> HIDE DEF St
  <1>3. F \in [St \X (1..N) -> St]
    BY <1>2
  <1>4. \A f \in St, i \in 1..N : F[<<f, i>>] = SearchStep(s, f, opts[i])
    OBVIOUS
  <1> HIDE DEF F
  <1>5. \E g : Raw(g)
    <2>1. FoldUnfolds(St, base, F, N)
      BY <1>1, <1>3, FoldExists DEF St
    <2>2. PICK g \in [SUBSET (1..N) -> St] : FoldUnfolded(g, base, F, N)
      BY <2>1 DEF FoldUnfolds
    <2>3. ASSUME NEW S \in SUBSET (1..N)
          PROVE  (IF S = {} THEN base ELSE F[<<g[S \ {Max(S)}], Max(S)>>])
                 = (IF S = {} THEN base ELSE SearchStep(s, g[S \ {Max(S)}], opts[Max(S)]))
      BY <1>1, <1>4, LastPlace
    <2>4. Raw(g)
      BY <2>2, <2>3 DEF FoldUnfolded
    <2>5. QED
      BY <2>4
  <1>6. Raw(it)
    BY <1>5
  <1>7. Search(opts, s, base) = it[1..N]
    BY <1>1 DEF Search, FoldLeft, MapThenFoldSet
  <1> HIDE DEF it
  <1>8. FoldsIn(it, St, base, F, N)
    <2>1. it[{}] = base
      BY <1>6
    <2>2. ASSUME NEW S \in SUBSET (1..N), S # {}, it[S \ {Max(S)}] \in St
          PROVE  it[S] = F[<<it[S \ {Max(S)}], Max(S)>>]
      BY <1>1, <1>4, <1>6, <2>2, LastPlace
    <2>3. QED
      BY <2>1, <2>2 DEF FoldsIn
  <1>9. base \in St
    BY DEF St
  <1>10. PICK T : Loop(T, St, base, F, N, it[1..N])
    BY <1>1, <1>3, <1>8, <1>9, FoldLoops
  <1>11. ASSUME NEW k \in 1..N PROVE T[k] = SearchStep(s, T[k - 1], opts[k])
    <2>1. k - 1 \in 0..N
      BY <1>1
    <2>2. T[k - 1] \in St /\ T[k] = F[<<T[k - 1], k>>]
      BY <1>10, <2>1 DEF Loop
    <2>3. QED
      BY <1>4, <2>2
  <1>12. Searches(T, A, V, I, opts, s, base)
    BY <1>10, <1>11 DEF Searches, Loop, N, St
  <1>13. QED
    BY <1>7, <1>10, <1>12 DEF N, Loop

\* An argument with two dashes.
LEMMA LongStays ==
  ASSUME NEW A, NEW V, NEW I, NEW s \in States(A, V, I), s.at <= Len(s.left), None \in V,
         \A a \in A : IsArg(a, V),
         NEW opts, IsTable(opts, I), NEW stop
  PROVE  ParseLong(opts, s, stop) \in States(A, V, I)
  <1> DEFINE arg == s.left[s.at]
             base == [name |-> arg.name, value |-> arg.value, result |-> {}]
             find == Search(opts, s, base)
  <1>1. arg \in A
    BY DEF States
  <1>2. arg.name \in V /\ arg.value \in V
    BY <1>1 DEF IsArg
  <1>3. base \in Finds(A, V, I)
    BY <1>2 DEF Finds
  <1>4. find \in Finds(A, V, I)
    <2>1. Len(opts) \in Nat
      BY DEF IsTable
    <2>2. PICK T : Searches(T, A, V, I, opts, s, base) /\ T[Len(opts)] = find
      BY <1>3, SearchFolds
    <2> HIDE DEF base, find
    <2>3. QED
      BY <2>1, <2>2 DEF Searches
  <1>5. ParseLong(opts, s, stop) =
          IF find.result = {} THEN Unknown(s, stop) ELSE CHOOSE r \in find.result : TRUE
    BY DEF ParseLong, Search
  <1> HIDE DEF find
  <1>6. find.result # {} => (CHOOSE r \in find.result : TRUE) \in States(A, V, I)
    BY <1>4 DEF Finds
  <1>7. QED
    BY <1>5, <1>6, UnknownStays

\* The row of a switch, and the assignment it makes.
Switch1(opts, s, flag) == Give(s, CHOOSE op \in Flagged(opts, flag) : TRUE, None)

\* The states after each of the switches of a cluster.
Switching(T, A, V, I, opts, s, flags, N) ==
  /\ T \in [0..N -> States(A, V, I)]
  /\ T[0] = s
  /\ \A k \in 1..N : T[k] = Switch1(opts, T[k - 1], flags[k])

LEMMA SwitchesFold ==
  ASSUME NEW A, NEW V, NEW I, NEW s \in States(A, V, I), None \in V,
         NEW opts, IsTable(opts, I), NEW flags \in Seq(V), NEW n \in 1..Len(flags) + 1,
         \A i \in 1..(n - 1) : IsSwitch(opts, flags[i])
  PROVE  \E T : /\ Switching(T, A, V, I, opts, s, flags, n - 1)
                /\ T[n - 1] = Switches(opts, s, flags, n)
                /\ \A k \in 0..(n - 1) : /\ T[k].left = s.left /\ T[k].at = s.at
                                          /\ T[k].crashed = s.crashed
  <1> DEFINE sub == SubSeq(flags, 1, n - 1)
             N == Len(sub)
             St == {r \in States(A, V, I) : r.left = s.left /\ r.at = s.at
                                    /\ r.crashed = s.crashed}
             Do(a, flag) == Give(a, CHOOSE op \in Flagged(opts, flag) : TRUE, None)
             F == [p \in St \X (1..N) |-> Do(p[1], sub[p[2]])]
             Raw(g) == g = [S \in SUBSET (1..N) |->
                       IF S = {} THEN s ELSE Do(g[S \ {Max(S)}], sub[Max(S)])]
             it == CHOOSE g : Raw(g)
  <1>1. N = n - 1 /\ N \in Nat /\ DOMAIN sub = 1..N /\ \A i \in 1..N : sub[i] = flags[i]
    OBVIOUS
  <1> HIDE DEF N, sub
  <1>2. ASSUME NEW f \in St, NEW i \in 1..N PROVE Do(f, sub[i]) \in St
    <2>1. IsSwitch(opts, sub[i])
      BY <1>1
    <2>2. Flagged(opts, sub[i]) # {}
      BY <2>1 DEF IsSwitch
    <2>3. (CHOOSE op \in Flagged(opts, sub[i]) : TRUE) \in ToSet(opts)
      BY <2>2 DEF Flagged
    <2>4. Do(f, sub[i]) \in States(A, V, I)
      BY <2>3, GiveStays DEF IsTable
    <2>5. Do(f, sub[i]).left = f.left /\ Do(f, sub[i]).at = f.at
          /\ Do(f, sub[i]).crashed = f.crashed
      BY DEF Give, States
    <2>6. QED
      BY <2>4, <2>5
  <1>3. s \in St /\ \A r \in St : r \in States(A, V, I) /\ r.left = s.left /\ r.at = s.at
                             /\ r.crashed = s.crashed
    OBVIOUS
  <1> HIDE DEF St, Do
  <1>4. F \in [St \X (1..N) -> St]
    BY <1>2
  <1>5. \A f \in St, i \in 1..N : F[<<f, i>>] = Do(f, sub[i])
    OBVIOUS
  <1> HIDE DEF F
  <1>6. \E g : Raw(g)
    <2>1. FoldUnfolds(St, s, F, N)
      BY <1>1, <1>3, <1>4, FoldExists
    <2>2. PICK g \in [SUBSET (1..N) -> St] : FoldUnfolded(g, s, F, N)
      BY <2>1 DEF FoldUnfolds
    <2>3. ASSUME NEW S \in SUBSET (1..N)
          PROVE  (IF S = {} THEN s ELSE F[<<g[S \ {Max(S)}], Max(S)>>])
                 = (IF S = {} THEN s ELSE Do(g[S \ {Max(S)}], sub[Max(S)]))
      BY <1>1, <1>5, LastPlace
    <2>4. Raw(g)
      BY <2>2, <2>3 DEF FoldUnfolded
    <2>5. QED
      BY <2>4
  <1>7. Raw(it)
    BY <1>6
  <1>8. Switches(opts, s, flags, n) = it[1..N]
    BY <1>1 DEF Switches, FoldLeft, MapThenFoldSet, Do, sub
  <1> HIDE DEF it
  <1>9. FoldsIn(it, St, s, F, N)
    <2>1. it[{}] = s
      BY <1>7
    <2>2. ASSUME NEW S \in SUBSET (1..N), S # {}, it[S \ {Max(S)}] \in St
          PROVE  it[S] = F[<<it[S \ {Max(S)}], Max(S)>>]
      <3>1. Max(S) \in 1..N
        BY <1>1, <2>2, LastPlace
      <3>2. it[S] = Do(it[S \ {Max(S)}], sub[Max(S)])
        BY <1>7, <2>2
      <3>3. QED
        BY <1>5, <2>2, <3>1, <3>2
    <2>3. QED
      BY <2>1, <2>2 DEF FoldsIn
  <1>10. PICK T : Loop(T, St, s, F, N, it[1..N])
    BY <1>1, <1>3, <1>4, <1>9, FoldLoops
  <1>11. ASSUME NEW k \in 1..N PROVE T[k] = Switch1(opts, T[k - 1], flags[k])
    <2>1. k - 1 \in 0..N
      BY <1>1
    <2>2. T[k - 1] \in St /\ T[k] = F[<<T[k - 1], k>>]
      BY <1>10, <2>1 DEF Loop
    <2>3. QED
      BY <1>1, <1>5, <2>2 DEF Do, Switch1
  <1>12. Switching(T, A, V, I, opts, s, flags, N)
    BY <1>3, <1>10, <1>11 DEF Switching, Loop
  <1>13. \A k \in 0..N : T[k].left = s.left /\ T[k].at = s.at /\ T[k].crashed = s.crashed
    BY <1>3, <1>10 DEF Loop
  <1>14. QED
    BY <1>1, <1>8, <1>10, <1>12, <1>13 DEF Loop

LEMMA SwitchesStay ==
  ASSUME NEW A, NEW V, NEW I, NEW s \in States(A, V, I), None \in V,
         NEW opts, IsTable(opts, I), NEW flags \in Seq(V), NEW n \in 1..Len(flags) + 1,
         \A i \in 1..(n - 1) : IsSwitch(opts, flags[i])
  PROVE  /\ Switches(opts, s, flags, n) \in States(A, V, I)
         /\ Switches(opts, s, flags, n).left = s.left
         /\ Switches(opts, s, flags, n).at = s.at
         /\ Switches(opts, s, flags, n).crashed = s.crashed
  <1>1. PICK T : /\ Switching(T, A, V, I, opts, s, flags, n - 1)
                 /\ T[n - 1] = Switches(opts, s, flags, n)
                 /\ \A k \in 0..(n - 1) : /\ T[k].left = s.left /\ T[k].at = s.at
                                           /\ T[k].crashed = s.crashed
    BY SwitchesFold
  <1>2. n - 1 \in 0..(n - 1)
    OBVIOUS
  <1>3. QED
    BY <1>1, <1>2 DEF Switching

\* One flag of a cluster.
LEMMA FlagStays ==
  ASSUME NEW A, NEW V, NEW I, NEW s \in States(A, V, I), s.at <= Len(s.left),
         \A a \in A : IsArg(a, V),
         NEW op, op.id \in I, NEW rest \in Seq(V), NEW stop
  PROVE  ParseFlag(op, s, rest, stop) \in States(A, V, I)
  <1>0. s.left \in Seq(A) /\ s.at \in Nat /\ s.at >= 1 /\ Len(s.left) \in Nat
    BY DEF States
  <1>1. Len(rest) = 1 => Give(Shift(s, 1), op, rest[1]) \in States(A, V, I)
    <2>1. Shift(s, 1) \in States(A, V, I)
      BY <1>0, ShiftStays
    <2>2. Len(rest) = 1 => rest[1] \in V
      <3>1. \A i \in 1..Len(rest) : rest[i] \in V
        OBVIOUS
      <3>2. Len(rest) = 1 => 1 \in 1..Len(rest)
        OBVIOUS
      <3>3. QED
        BY <3>1, <3>2
    <2>3. QED
      BY <2>1, <2>2, GiveStays
  <1>2. HasValue(s) => Give(Shift(s, 2), op, ValueArg(s)) \in States(A, V, I)
    <2>1. HasValue(s) => Shift(s, 2) \in States(A, V, I)
      BY <1>0, ShiftStays DEF HasValue
    <2>2. HasValue(s) => s.left[s.at + 1] \in A
      BY <1>0 DEF HasValue
    <2>3. HasValue(s) => ValueArg(s) \in V
      BY <2>2 DEF ValueArg, IsArg
    <2>4. QED
      BY <2>1, <2>3, GiveStays
  <1>3. [s EXCEPT !.crashed = TRUE, !.over = TRUE] \in States(A, V, I)
    BY DEF States
  <1>4. Unknown(s, stop) \in States(A, V, I)
    BY UnknownStays
  <1> DEFINE close == op.type = "int" /\ Len(rest) = 1 /\ rest[1] \in DOMAIN Numbers
             apart == rest = << >> /\ HasValue(s) /\ Fits(op, ValueArg(s))
             null == op.type = "int" /\ rest = << >> /\ ~HasValue(s)
  <1>5. close => ~apart /\ ~null
    <2>1. rest = << >> => Len(rest) = 0
      OBVIOUS
    <2>2. QED
      BY <2>1
  <1>6. apart => ~null
    OBVIOUS
  <1>7. ParseFlag(op, s, rest, stop) =
          CASE close -> Give(Shift(s, 1), op, rest[1])
            [] apart -> Give(Shift(s, 2), op, ValueArg(s))
            [] null -> [s EXCEPT !.crashed = TRUE, !.over = TRUE]
            [] OTHER -> Unknown(s, stop)
    BY DEF ParseFlag
  <1>8. (close => Len(rest) = 1) /\ (apart => HasValue(s))
    OBVIOUS
  <1> HIDE DEF close, apart, null
  <1>9. CASE close
    BY <1>1, <1>5, <1>7, <1>8, <1>9
  <1>10. CASE apart
    BY <1>2, <1>5, <1>6, <1>7, <1>8, <1>10
  <1>11. CASE null
    BY <1>3, <1>5, <1>6, <1>7, <1>11
  <1>12. CASE ~close /\ ~apart /\ ~null
    BY <1>4, <1>7, <1>12
  <1>13. QED
    BY <1>9, <1>10, <1>11, <1>12

\* An argument with one dash.
LEMMA ShortStays ==
  ASSUME NEW A, NEW V, NEW I, NEW s \in States(A, V, I), s.at <= Len(s.left), None \in V,
         \A a \in A : IsArg(a, V),
         NEW opts, IsTable(opts, I), NEW stop
  PROVE  ParseShort(opts, s, stop) \in States(A, V, I)
  <1> DEFINE flags   == s.left[s.at].flags
             others  == {i \in DOMAIN flags : ~IsSwitch(opts, flags[i])}
             n       == CHOOSE i \in others : \A j \in others : i <= j
             ops     == Flagged(opts, flags[n])
             rest    == SubSeq(flags, n + 1, Len(flags))
             t       == Switches(opts, s, flags, n)
             all     == Switches(opts, s, flags, Len(flags) + 1)
  <1>0. s.left \in Seq(A) /\ s.at \in Nat /\ s.at >= 1 /\ Len(s.left) \in Nat
    BY DEF States
  <1>1. flags \in Seq(V)
    <2>1. s.left[s.at] \in A
      BY <1>0
    <2>2. QED
      BY <2>1 DEF IsArg
  <1>2. ParseShort(opts, s, stop) =
          IF others = {} THEN Shift(all, 1)
          ELSE IF ops = {} THEN Unknown(t, stop)
          ELSE ParseFlag(CHOOSE op \in ops : TRUE, t, rest, stop)
    BY DEF ParseShort
  <1> HIDE DEF flags
  <1>3. CASE others = {}
    <2>1. \A i \in 1..Len(flags) : IsSwitch(opts, flags[i])
      BY <1>1, <1>3
    <2>2. Len(flags) + 1 \in 1..Len(flags) + 1 /\ (Len(flags) + 1) - 1 = Len(flags)
      BY <1>1
    <2>3. all \in States(A, V, I) /\ all.left = s.left /\ all.at = s.at
      BY <1>1, <2>1, <2>2, SwitchesStay
    <2> HIDE DEF all, others
    <2>4. Shift(all, 1) \in States(A, V, I)
      BY <1>0, <2>3, ShiftStays
    <2>5. QED
      BY <1>2, <1>3, <2>4
  <1>4. CASE others # {}
    <2>1. others \subseteq Nat /\ others \subseteq 1..Len(flags)
      BY <1>1
    <2>2. n \in others /\ \A j \in others : n <= j
      <3> HIDE DEF others
      <3>1. \E x \in others : \A y \in others : x <= y
        BY <1>4, <2>1, LeastExists
      <3>2. QED
        BY <3>1
    <2>3. n \in 1..Len(flags) /\ Len(flags) \in Nat
      BY <1>1, <2>1, <2>2
    <2>4. \A i \in 1..(n - 1) : IsSwitch(opts, flags[i])
      <3>1. \A i \in 1..(n - 1) : i \in 1..Len(flags) /\ i \notin others
        BY <2>2, <2>3
      <3>2. QED
        BY <1>1, <3>1
    <2> HIDE DEF n, others
    <2>5. t \in States(A, V, I) /\ t.left = s.left /\ t.at = s.at
      BY <1>1, <2>3, <2>4, SwitchesStay
    <2>6. rest \in Seq(V)
      BY <1>1, <2>3
    <2>7. ops # {} => (CHOOSE op \in ops : TRUE).id \in I
      <3>1. ops # {} => (CHOOSE op \in ops : TRUE) \in ToSet(opts)
        BY DEF Flagged
      <3>2. QED
        BY <3>1 DEF IsTable
    <2>8. Unknown(t, stop) \in States(A, V, I)
      BY <2>5, UnknownStays
    <2> HIDE DEF t, rest, ops
    <2>9. ops # {} => ParseFlag(CHOOSE op \in ops : TRUE, t, rest, stop) \in States(A, V, I)
      BY <1>0, <2>5, <2>6, <2>7, FlagStays
    <2>10. QED
      BY <1>2, <1>4, <2>8, <2>9
  <1>5. QED
    BY <1>3, <1>4

\* One turn of the loop.
LEMMA ArgStays ==
  ASSUME NEW A, NEW V, NEW I, NEW s \in States(A, V, I), None \in V,
         \A a \in A : IsArg(a, V),
         NEW opts, IsTable(opts, I), NEW stop
  PROVE  ParseArg(opts, s, stop) \in States(A, V, I)
  <1>0. s.left \in Seq(A) /\ s.at \in Nat /\ s.at >= 1 /\ Len(s.left) \in Nat
    BY DEF States
  <1>1. [s EXCEPT !.over = TRUE] \in States(A, V, I)
    BY DEF States
  <1>2. ASSUME s.at <= Len(s.left)
        PROVE  ParseNext(opts, s, s.left[s.at], stop) \in States(A, V, I)
    <2> DEFINE form == s.left[s.at].form
               cmd == IsCommand(opts, s.left[s.at].text)
               sh == Shift(s, 1)
    <2>1. sh \in States(A, V, I)
      BY <1>0, <1>2, ShiftStays
    <2>2. [sh EXCEPT !.over = TRUE] \in States(A, V, I)
      <3> HIDE DEF sh
      <3>1. QED
        BY <2>1 DEF States
    <2>3. ParseLong(opts, s, stop) \in States(A, V, I)
      BY <1>2, LongStays
    <2>4. ParseShort(opts, s, stop) \in States(A, V, I)
      BY <1>2, ShortStays
    <2>5. Unknown(s, stop) \in States(A, V, I)
      BY UnknownStays
    <2>6. ParseNext(opts, s, s.left[s.at], stop) =
            CASE form = "dashes" -> [sh EXCEPT !.over = TRUE]
              [] form = "long" -> ParseLong(opts, s, stop)
              [] form = "short" -> ParseShort(opts, s, stop)
              [] form = "word" /\ cmd -> [s EXCEPT !.over = TRUE]
              [] OTHER -> Unknown(s, stop)
      BY DEF ParseNext
    <2> HIDE DEF form, sh, cmd
    <2>7. QED
      BY <1>1, <2>2, <2>3, <2>4, <2>5, <2>6
  <1>3. QED
    BY <1>0, <1>1, <1>2 DEF ParseArg

\* The states of a parse, turn by turn.
Turns(T, A, V, I, opts, first, stop, N) ==
  /\ T \in [0..N -> States(A, V, I)]
  /\ T[0] = Parsing(first)
  /\ \A k \in 1..N : T[k] = ParseArg(opts, T[k - 1], stop)

LEMMA ParseTurns ==
  ASSUME NEW A, NEW V, NEW I, None \in V, \A a \in A : IsArg(a, V),
         NEW args \in Seq(A), NEW opts, IsTable(opts, I), NEW skip, NEW stop,
         skip => args # << >>
  PROVE  \E T : /\ Turns(T, A, V, I, opts, IF skip THEN Tail(args) ELSE args, stop, Len(args))
                /\ T[Len(args)] = Parse(opts, args, skip, stop)
  <1> DEFINE N == Len(args)
             base == Parsing(IF skip THEN Tail(args) ELSE args)
             St == States(A, V, I)
             F == [p \in St \X (1..N) |-> ParseArg(opts, p[1], stop)]
             Raw(g) == g = [S \in SUBSET (1..N) |->
                       IF S = {} THEN base ELSE ParseArg(opts, g[S \ {Max(S)}], stop)]
             it == CHOOSE g : Raw(g)
  <1>1. N \in Nat /\ DOMAIN args = 1..N
    OBVIOUS
  <1>2. base \in St
    <2>1. (IF skip THEN Tail(args) ELSE args) \in Seq(A)
      OBVIOUS
    <2>2. << >> \in Seq([id : I, value : V])
      OBVIOUS
    <2>3. QED
      BY <2>1, <2>2 DEF Parsing, States
  <1> HIDE DEF N, base
  <1>3. ASSUME NEW f \in St, NEW i \in 1..N PROVE ParseArg(opts, f, stop) \in St
    BY ArgStays
  <1> HIDE DEF St
  <1>4. F \in [St \X (1..N) -> St]
    BY <1>3
  <1>5. \A f \in St, i \in 1..N : F[<<f, i>>] = ParseArg(opts, f, stop)
    OBVIOUS
  <1> HIDE DEF F
  <1>6. \E g : Raw(g)
    <2>1. FoldUnfolds(St, base, F, N)
      BY <1>1, <1>2, <1>4, FoldExists
    <2>2. PICK g \in [SUBSET (1..N) -> St] : FoldUnfolded(g, base, F, N)
      BY <2>1 DEF FoldUnfolds
    <2>3. ASSUME NEW S \in SUBSET (1..N)
          PROVE  (IF S = {} THEN base ELSE F[<<g[S \ {Max(S)}], Max(S)>>])
                 = (IF S = {} THEN base ELSE ParseArg(opts, g[S \ {Max(S)}], stop))
      BY <1>1, <1>5, LastPlace
    <2>4. Raw(g)
      BY <2>2, <2>3 DEF FoldUnfolded
    <2>5. QED
      BY <2>4
  <1>7. Raw(it)
    BY <1>6
  <1>8. Parse(opts, args, skip, stop) = it[1..N]
    BY <1>1 DEF Parse, FoldLeft, MapThenFoldSet, N, base
  <1> HIDE DEF it
  <1>9. FoldsIn(it, St, base, F, N)
    <2>1. it[{}] = base
      BY <1>7
    <2>2. ASSUME NEW S \in SUBSET (1..N), S # {}, it[S \ {Max(S)}] \in St
          PROVE  it[S] = F[<<it[S \ {Max(S)}], Max(S)>>]
      BY <1>1, <1>5, <1>7, <2>2, LastPlace
    <2>3. QED
      BY <2>1, <2>2 DEF FoldsIn
  <1>10. PICK T : Loop(T, St, base, F, N, it[1..N])
    BY <1>1, <1>2, <1>4, <1>9, FoldLoops
  <1>11. ASSUME NEW k \in 1..N PROVE T[k] = ParseArg(opts, T[k - 1], stop)
    <2>1. k - 1 \in 0..N
      BY <1>1
    <2>2. T[k - 1] \in St /\ T[k] = F[<<T[k - 1], k>>]
      BY <1>10, <2>1 DEF Loop
    <2>3. QED
      BY <1>5, <2>2
  <1>12. Turns(T, A, V, I, opts, IF skip THEN Tail(args) ELSE args, stop, N)
    BY <1>10, <1>11 DEF Turns, Loop, St, base
  <1>13. QED
    BY <1>8, <1>10, <1>12 DEF N, Loop

\* Whatever the arguments, a parse ends in a state, in which the arguments left
\* are some of them and the assignments are assignments to options.
THEOREM ParseStays ==
  ASSUME NEW A, NEW V, NEW I, None \in V, \A a \in A : IsArg(a, V),
         NEW args \in Seq(A), NEW opts, IsTable(opts, I), NEW skip, NEW stop,
         skip => args # << >>
  PROVE  Parse(opts, args, skip, stop) \in States(A, V, I)
  <1>1. PICK T : /\ Turns(T, A, V, I, opts, IF skip THEN Tail(args) ELSE args, stop, Len(args))
                 /\ T[Len(args)] = Parse(opts, args, skip, stop)
    BY ParseTurns
  <1>2. Len(args) \in 0..Len(args)
    OBVIOUS
  <1>3. QED
    BY <1>1, <1>2 DEF Turns

-----------------------------------------------------------------------------
(* The readers of a message.                                               *)

\* A sequence is one of its own elements.
LEMMA SequenceOfItsOwn ==
  ASSUME NEW T, NEW s \in Seq(T)
  PROVE  s \in Seq(ToSet(s)) /\ ToSet(s) \subseteq T
  <1>1. s \in [1..Len(s) -> T] /\ Len(s) \in Nat /\ DOMAIN s = 1..Len(s)
    OBVIOUS
  <1>2. \A i \in 1..Len(s) : s[i] \in ToSet(s)
    BY <1>1 DEF ToSet
  <1>3. QED
    BY <1>1, <1>2 DEF ToSet

\* Two keys are two.
LEMMA TwoKeys ==
  ASSUME NEW K, IsFiniteSet(K), NEW x \in K, NEW y \in K, x # y
  PROVE  ~(Cardinality(K) <= 1)
  <1>1. IsFiniteSet({x}) /\ Cardinality({x}) = 1
    BY FS_Singleton
  <1>2. IsFiniteSet({x} \cup {y}) /\ Cardinality({x} \cup {y}) = 2
    <2>1. PICK S : S = {x}
      OBVIOUS
    <2>2. IsFiniteSet(S) /\ Cardinality(S) = 1 /\ y \notin S
      BY <1>1, <2>1
    <2>3. IsFiniteSet(S \cup {y}) /\ Cardinality(S \cup {y}) = Cardinality(S) + 1
      BY <2>2, FS_AddElement
    <2>4. QED
      BY <2>1, <2>2, <2>3
  <1>3. {x} \cup {y} \in SUBSET K
    OBVIOUS
  <1>4. Cardinality({x} \cup {y}) <= Cardinality(K)
    BY <1>2, <1>3, FS_Subset
  <1>5. Cardinality(K) \in Nat
    BY FS_CardinalityType
  <1>6. QED
    BY <1>2, <1>4, <1>5

\* A message that can be read by those it is for.
Readable(s) ==
  s.recipients # << >> /\ Plain(s) =>
    \A j \in DOMAIN s.recipients :
      \E k \in Keys : /\ s.recipients[j].value \in Names[k]
                      /\ k \in s.readers <=> k \in Trusted

\* As many keys as recipients, none of which has two: every recipient has one.
LEMMA EachHasAKey ==
  ASSUME NEW p, NEW T, Recipients(p) \in Seq(T), CountMatches(p),
         NEW s, s.recipients = Recipients(p), s.readers = Readers(p)
  PROVE  Readable(s)
  <1> DEFINE r == Recipients(p)
             n == Len(r)
             C == Candidates(p)
             Of1(i) == {k \in Keys : r[i].value \in Names[k]}
  <1> SUFFICES ASSUME r # << >>, \A i \in DOMAIN r : Cardinality(Of1(i)) <= 1,
                      NEW j \in DOMAIN r
               PROVE  \E k \in Keys : /\ r[j].value \in Names[k]
                                      /\ k \in Readers(p) <=> k \in Trusted
    BY DEF Readable, Plain
  <1>1. n \in Nat /\ DOMAIN r = 1..n /\ j \in 1..n
    OBVIOUS
  <1>2. C = {k \in Keys : \E i \in 1..n : r[i].value \in Names[k]} /\ Cardinality(C) = n
    BY <1>1 DEF Candidates, CountMatches
  <1>3. IsFiniteSet(Keys)
    BY MessageCommandAssumption
  <1>4. IsFiniteSet(C)
    BY <1>2, <1>3, FS_Subset
  <1>5. Of1(j) # {}
    <2> SUFFICES ASSUME Of1(j) = {} PROVE FALSE
      OBVIOUS
    <2> DEFINE T1 == (1..n) \ {j}
               f == [k \in C |-> CHOOSE i \in 1..n : r[i].value \in Names[k]]
    <2>1. \A k \in C : f[k] \in 1..n /\ k \in Of1(f[k])
      BY <1>2
    <2>2. f \in [C -> T1]
      BY <2>1
    <2>3. IsFiniteSet(1..n) /\ Cardinality(1..n) = n
      BY <1>1, FS_Interval
    <2> HIDE DEF f, C, n, r
    <2>4. IsFiniteSet(T1) /\ Cardinality(T1) = n - 1
      BY <1>1, <2>3, FS_RemoveElement
    <2> HIDE DEF T1
    <2>5. Cardinality(T1) < Cardinality(C)
      BY <1>1, <1>2, <2>4
    <2>6. PICK x \in C, y \in C : x # y /\ f[x] = f[y]
      BY <1>4, <2>2, <2>4, <2>5, FS_PigeonHole
    <2>7. PICK i : i = f[x]
      OBVIOUS
    <2>8. i \in 1..n /\ x \in Of1(i) /\ y \in Of1(i)
      BY <2>1, <2>6, <2>7
    <2>9. IsFiniteSet(Of1(i))
      BY <1>3, FS_Subset
    <2>10. ~(Cardinality(Of1(i)) <= 1)
      BY <2>6, <2>8, <2>9, TwoKeys
    <2>11. QED
      BY <1>1, <2>8, <2>10
  <1>6. PICK k : k \in Of1(j)
    BY <1>5
  <1>7. k \in C
    BY <1>1, <1>2, <1>6
  <1>8. QED
    BY <1>6, <1>7 DEF Readers

\* The tables of main and of message are tables.
LEMMA Tables ==
  ASSUME NEW I, {op.id : op \in ToSet(MainOptions) \cup ToSet(MessageOptions)} \subseteq I
  PROVE  IsTable(MainOptions, I) /\ IsTable(MessageOptions, I)
  <1>1. MessageOptions \in Seq(ToSet(MessageOptions))
    <2> DEFINE T == {MessageOptions[i] : i \in 1..6}
    <2>1. MessageOptions \in Seq(T)
      BY DEF MessageOptions
    <2>2. QED
      BY <2>1, SequenceOfItsOwn
  <1>2. MainOptions \in Seq(ToSet(MainOptions))
    <2> DEFINE cmds == [i \in DOMAIN MainCommands |-> Option("command", MainCommands[i], None, None)]
               more == <<Option("int", "passphrase-fd", None, "passphrase-fd"),
                         Option("string", "passphrase-file", None, "passphrase-file"),
                         Option("string", "passphrase", None, "passphrase"),
                         Option("bool", "help", "h", "help"),
                         Option("bool", "version", "v", "version")>>
               T == {cmds[i] : i \in 1..7} \cup {more[i] : i \in 1..5}
    <2>1. DOMAIN MainCommands = 1..7
      BY DEF MainCommands
    <2>2. cmds \in [1..7 -> T]
      BY <2>1
    <2>3. cmds \in Seq(T)
      BY <2>2
    <2>4. more \in Seq(T)
      OBVIOUS
    <2>5. MainOptions = cmds \o more
      BY DEF MainOptions
    <2> HIDE DEF cmds, more, T
    <2>6. MainOptions \in Seq(T)
      BY <2>3, <2>4, <2>5
    <2>7. QED
      BY <2>6, SequenceOfItsOwn
  <1>3. QED
    BY <1>1, <1>2 DEF IsTable

\* A message command has a sequence of assignments.
LEMMA GivenIsASequence ==
  ASSUME NEW args \in Lines \cup Solo, MainParse(args).left # << >>
  PROVE  \E T : Parse(MessageOptions, MainParse(args).left, TRUE, TRUE).given \in Seq(T)
  <1> DEFINE A == ToSet(args) \cup {Word("git-chat")}
             V == Texts(A)
             I == {op.id : op \in ToSet(MainOptions) \cup ToSet(MessageOptions)}
             all == <<Word("git-chat")>> \o args
  <1>1. args \in Seq(ToSet(args)) /\ \A i \in DOMAIN args : args[i].flags \in Seq(ToSet(args[i].flags))
    BY CommandLineAssumption
  <1>2. \A a \in A : a.flags \in Seq(ToSet(a.flags))
    <2>1. \A a \in ToSet(args) : a.flags \in Seq(ToSet(a.flags))
      BY <1>1 DEF ToSet
    <2>2. Word("git-chat").flags = << >> /\ << >> \in Seq(ToSet(<< >>))
      BY DEF Word, Arg
    <2>3. QED
      BY <2>1, <2>2
  <1>3. \A a \in A : IsArg(a, V)
    BY <1>2, TextsAre
  <1>4. None \in V
    BY DEF Texts
  <1>5. all \in Seq(A) /\ all # << >>
    <2>1. args \in Seq(A) /\ <<Word("git-chat")>> \in Seq(A)
      BY <1>1
    <2>2. QED
      BY <2>1
  <1>6. IsTable(MainOptions, I) /\ IsTable(MessageOptions, I)
    BY Tables
  <1> HIDE DEF A, V, I, all
  <1>7. Parse(MainOptions, all, TRUE, TRUE) \in States(A, V, I)
    BY <1>3, <1>4, <1>5, <1>6, ParseStays
  <1>8. MainParse(args).left \in Seq(A)
    BY <1>7 DEF MainParse, all, States
  <1>9. Parse(MessageOptions, MainParse(args).left, TRUE, TRUE) \in States(A, V, I)
    BY <1>3, <1>4, <1>6, <1>8, ParseStays
  <1>10. QED
    BY <1>9 DEF States

\* Recipients are some of the assignments, in order.
LEMMA RecipientsAre ==
  ASSUME NEW p, NEW T, p.given \in Seq(T)
  PROVE  Recipients(p) \in Seq(T)
  <1>1. PICK D : D = PlacesOf(p, "recipient")
    OBVIOUS
  <1>2. PICK s : s = p.given
    OBVIOUS
  <1>3. PICK r : r = AtPlaces(s, D)
    OBVIOUS
  <1>4. \E at : Picked(s, T, D, r, Len(s), at)
    BY <1>2, <1>3, AtPlacesAre
  <1>5. QED
    BY <1>1, <1>2, <1>3, <1>4 DEF Picked, Recipients, ValuesOf

\* The assignments of each message are a sequence; one about to be committed is
\* for the readers its recipients name; those committed can be read.
ReadersInv ==
  /\ \A t \in Terminals :
       /\ pc[t] \in MessageSteps => \E T : Recipients(opt[t]) \in Seq(T)
       /\ pc[t] = "commit" => msg[t].readers = Readers(opt[t]) /\ CountMatches(opt[t])
  /\ \A i \in DOMAIN sent : Readable(sent[i])

LEMMA InitReaders == Init => ReadersInv
  BY DEF Init, TerminalInit, MessageInit, ReadersInv, MessageSteps, Composing

\* The readers of the other messages stay.
LEMMA ReadersStay ==
  ASSUME MeantInv, NEW t \in Terminals, NEW u \in Terminals, u # t, NEW m,
         Assign(t, m) \/ Disturb(t, m)
  PROVE  msg'[u].readers = msg[u].readers
  <1>1. msg[u] = [shown |-> msg[u].shown, vimOk |-> msg[u].vimOk, buff |-> msg[u].buff,
                  readers |-> msg[u].readers, meant |-> msg[u].meant,
                  disturbed |-> msg[u].disturbed]
    BY DEF MeantInv, Fields
  <1>2. msg'[u] \in {msg[u], [msg[u] EXCEPT !.disturbed = TRUE]}
    BY DEF Assign, Disturb, MeantInv
  <1>3. QED
    BY <1>1, <1>2

\* A step of message.
LEMMA MessageReaders ==
  ASSUME MeantInv, ReadersInv, NEW t \in Terminals, MessageStep(t)
  PROVE  ReadersInv'
  <1>0. /\ pc[t] \in MessageSteps
        /\ \A u \in Terminals : u # t => pc'[u] = pc[u]
        /\ opt' = opt /\ PerTerminal'
        /\ Fields(msg[t]) /\ msg = [u \in Terminals |-> msg[u]]
    BY MessageMoves DEF MeantInv
  <1>m. ASSUME NEW from, NEW to, Step(t, from, to)
        PROVE  pc[t] = from /\ pc'[t] = to
    BY <1>m, StepMoves DEF MeantInv
  <1>e. ASSUME NEW s, Ends(t, s)
        PROVE  pc'[t] = "idle"
    BY <1>e DEF Ends, MeantInv, PerTerminal
  <1>1. \A u \in Terminals : u # t => msg'[u].readers = msg[u].readers
    <2>1. (\E m : Assign(t, m) \/ Disturb(t, m)) \/ msg' = msg
      <3>1. CASE TruncateEditMsg(t) \/ OpenReply(t) \/ WriteReply(t) \/ WriteReplyFails(t)
        BY <3>1 DEF TruncateEditMsg, OpenReply, WriteReply, WriteReplyFails
      <3>2. CASE LaunchEditor(t) \/ SaveDraft(t) \/ QuitEditor(t)
        BY <3>2 DEF LaunchEditor, SaveDraft, QuitEditor, messageVars
      <3>3. CASE EditorFails(t) \/ WipeReply(t) \/ ReadBack(t) \/ WipeEditMsg(t)
        BY <3>3 DEF EditorFails, WipeReply, ReadBack, WipeEditMsg
      <3>4. CASE ReadFile(t) \/ ReadFileFails(t) \/ Encrypt(t) \/ EncryptFails(t)
        BY <3>4 DEF ReadFile, ReadFileFails, Encrypt, EncryptFails
      <3>5. CASE WriteCommit(t) \/ WriteCommitFails(t) \/ KillMessage(t)
        BY <3>5 DEF WriteCommit, WriteCommitFails, KillMessage
      <3>6. QED
        BY <3>1, <3>2, <3>3, <3>4, <3>5 DEF MessageStep
    <2>2. QED
      BY <2>1, ReadersStay
  <1>2. pc'[t] = "commit" => Encrypt(t)
    <2>1. CASE TruncateEditMsg(t) \/ OpenReply(t) \/ WriteReply(t) \/ WriteReplyFails(t)
      BY <1>m, <1>e, <2>1 DEF TruncateEditMsg, OpenReply, WriteReply, WriteReplyFails
    <2>2. CASE LaunchEditor(t) \/ SaveDraft(t) \/ QuitEditor(t)
      BY <1>m, <2>2 DEF LaunchEditor, SaveDraft, QuitEditor
    <2>3. CASE EditorFails(t) \/ WipeReply(t) \/ ReadBack(t) \/ WipeEditMsg(t)
      BY <1>m, <1>e, <2>3 DEF EditorFails, WipeReply, ReadBack, WipeEditMsg
    <2>4. CASE ReadFile(t) \/ ReadFileFails(t) \/ EncryptFails(t)
      <3>1. Step(t, "read_file", "encrypt") \/ Ends(t, "failed")
        BY <2>4 DEF ReadFile, ReadFileFails, EncryptFails
      <3>2. QED
        BY <1>m, <1>e, <3>1
    <2>5. CASE WriteCommit(t) \/ WriteCommitFails(t) \/ KillMessage(t)
      BY <1>e, <2>5 DEF WriteCommit, WriteCommitFails, KillMessage
    <2>6. QED
      BY <2>1, <2>2, <2>3, <2>4, <2>5 DEF MessageStep
  <1>3. Encrypt(t) => msg'[t].readers = Readers(opt[t]) /\ CountMatches(opt[t])
    <2>1. [msg[t] EXCEPT !.readers = Readers(opt[t])].readers = Readers(opt[t])
      BY <1>0 DEF Fields
    <2>2. QED
      BY <1>0, <2>1 DEF Encrypt, Assign
  <1>4. \A u \in Terminals :
          /\ pc'[u] \in MessageSteps => \E T : Recipients(opt'[u]) \in Seq(T)
          /\ pc'[u] = "commit" => msg'[u].readers = Readers(opt'[u]) /\ CountMatches(opt'[u])
    BY <1>0, <1>1, <1>2, <1>3 DEF ReadersInv
  <1>5. \A i \in DOMAIN sent' : Readable(sent'[i])
    <2>1. CASE sent' = sent
      BY <2>1 DEF ReadersInv
    <2>2. CASE WriteCommit(t)
      <3> DEFINE s == [by |-> t, text |-> msg[t].buff, meant |-> msg[t].meant,
                       disturbed |-> msg[t].disturbed, readers |-> msg[t].readers,
                       recipients |-> Recipients(opt[t])]
      <3>1. pc[t] = "commit" /\ sent' = Append(sent, s)
        BY <2>2 DEF WriteCommit
      <3>2. s.recipients = Recipients(opt[t]) /\ s.readers = Readers(opt[t]) /\ CountMatches(opt[t])
        BY <3>1 DEF ReadersInv
      <3>3. PICK T : Recipients(opt[t]) \in Seq(T)
        BY <1>0 DEF ReadersInv
      <3> HIDE DEF s
      <3>4. PICK p : p = opt[t]
        OBVIOUS
      <3>5. Readable(s)
        BY <3>2, <3>3, <3>4, EachHasAKey
      <3>6. sent \in Seq(ToSet(sent))
        BY DEF MeantInv
      <3>7. \A i \in DOMAIN sent' : (i \in DOMAIN sent /\ sent'[i] = sent[i]) \/ sent'[i] = s
        <4> DEFINE all == ToSet(sent) \cup {s}
        <4>1. sent \in Seq(all) /\ s \in all
          BY <3>6
        <4> HIDE DEF all
        <4>2. QED
          BY <3>1, <4>1
      <3>8. QED
        BY <3>5, <3>7 DEF ReadersInv
    <2>3. sent' = sent \/ WriteCommit(t)
      <3>1. CASE TruncateEditMsg(t) \/ OpenReply(t) \/ WriteReply(t) \/ WriteReplyFails(t)
        BY <3>1 DEF TruncateEditMsg, OpenReply, WriteReply, WriteReplyFails
      <3>2. CASE LaunchEditor(t) \/ SaveDraft(t) \/ QuitEditor(t)
        BY <3>2 DEF LaunchEditor, SaveDraft, QuitEditor, messageVars
      <3>3. CASE EditorFails(t) \/ WipeReply(t) \/ ReadBack(t) \/ WipeEditMsg(t)
        BY <3>3 DEF EditorFails, WipeReply, ReadBack, WipeEditMsg
      <3>4. CASE ReadFile(t) \/ ReadFileFails(t) \/ Encrypt(t) \/ EncryptFails(t)
        BY <3>4 DEF ReadFile, ReadFileFails, Encrypt, EncryptFails
      <3>5. CASE WriteCommitFails(t) \/ KillMessage(t)
        BY <3>5 DEF WriteCommitFails, KillMessage
      <3>6. QED
        BY <3>1, <3>2, <3>3, <3>4, <3>5 DEF MessageStep
    <2>4. QED
      BY <2>1, <2>2, <2>3
  <1>6. QED
    BY <1>4, <1>5 DEF ReadersInv

LEMMA ReadersStep == MeantInv /\ ReadersInv /\ [Next]_vars => ReadersInv'
  <1> SUFFICES ASSUME MeantInv, ReadersInv, [Next]_vars PROVE ReadersInv'
    OBVIOUS
  <1>1. PerTerminal
    BY DEF MeantInv
  <1>2. CASE UNCHANGED <<pc, opt, messageVars>>
    BY <1>2 DEF ReadersInv, messageVars
  <1>3. ASSUME NEW t \in Terminals, NEW args \in Lines \cup Solo, StartMessage(t, args)
        PROVE  ReadersInv'
    <2>1. /\ Elsewhere(t) /\ pc'[t] # "commit"
          /\ \A u \in Terminals : u # t => msg'[u] = msg[u]
          /\ opt'[t] = Parse(MessageOptions, MainParse(args).left, TRUE, TRUE)
      <3>1. PICK to, s :
              Parsed(t, args, Parse(MessageOptions, MainParse(args).left, TRUE, TRUE), to, s)
        BY <1>3 DEF StartMessage
      <3>2. opt'[t] = Parse(MessageOptions, MainParse(args).left, TRUE, TRUE)
        BY <1>1, <3>1, ParsedMoves
      <3>3. PICK m : m = [Blank EXCEPT !.buff = Given(opt'[t]), !.meant = Given(opt'[t])]
        OBVIOUS
      <3>4. /\ Elsewhere(t)
            /\ pc'[t] \in {"idle", "read_file", "encrypt", "truncate"}
            /\ msg' = [msg EXCEPT ![t] = m]
        BY <1>1, <1>3, <3>3, MessageStarts
      <3>5. msg = [u \in Terminals |-> msg[u]]
        BY DEF MeantInv
      <3>6. \A u \in Terminals : u # t => msg'[u] = msg[u]
        BY <3>4, <3>5
      <3>7. QED
        BY <3>2, <3>4, <3>6
    <2>2. MainParse(args).left # << >>
      BY <1>3 DEF StartMessage, Runs, Delegates
    <2>3. PICK p : p = Parse(MessageOptions, MainParse(args).left, TRUE, TRUE)
      OBVIOUS
    <2>4. \E T : p.given \in Seq(T)
      BY <2>2, <2>3, GivenIsASequence
    <2>5. \E T : Recipients(opt'[t]) \in Seq(T)
      BY <2>1, <2>3, <2>4, RecipientsAre
    <2>6. \A u \in Terminals : u # t => pc'[u] = pc[u] /\ opt'[u] = opt[u]
      BY <1>1, <2>1 DEF Elsewhere, PerTerminal
    <2>7. sent' = sent
      BY <2>1 DEF Elsewhere
    <2>8. QED
      BY <2>1, <2>5, <2>6, <2>7 DEF ReadersInv
  <1>4. ASSUME NEW t \in Terminals, Elsewhere(t), msg' = msg, pc'[t] \notin MessageSteps
        PROVE  ReadersInv'
    <2>1. \A u \in Terminals : u # t => pc'[u] = pc[u] /\ opt'[u] = opt[u]
      BY <1>1, <1>4 DEF Elsewhere, PerTerminal
    <2>2. sent' = sent /\ pc'[t] # "commit"
      BY <1>4, StepSets DEF Elsewhere
    <2>3. QED
      BY <1>4, <2>1, <2>2 DEF ReadersInv
  <1>5. QED
    BY <1>1, <1>2, <1>3, <1>4, Kinds, MessageReaders

\* However the recipients were given: if none of them stands for several keys,
\* each of them has a key, which can read the message if and only if it is
\* trusted, although git-chat only counts the keys it finds.
THEOREM ReadersAreRecipients == Spec => []RecipientsCanRead
  <1>1. ReadersInv => RecipientsCanRead
    BY DEF ReadersInv, RecipientsCanRead, Readable
  <1>2. QED
    BY <1>1, InitMeant, MeantStep, InitReaders, ReadersStep, PTL DEF Spec

-----------------------------------------------------------------------------
(* Lists of refs and of entries.                                           *)

\* Each ref has its rank in the order of their names, which is its own.
LEMMA RefsAre ==
  /\ RefOrder \in Seq(Refs)
  /\ \A ref \in Refs : ref = <<ref[1], ref[2]>>
  /\ \A ref \in Refs : Rank(ref) \in 1..Len(RefOrder) /\ RefOrder[Rank(ref)] = ref
  /\ \A i \in 1..Len(RefOrder) : RefOrder[i] \in Refs /\ Rank(RefOrder[i]) = i
  <1>1. RefOrder \in Seq(Refs) /\ \A ref \in Refs : ref = <<ref[1], ref[2]>>
    BY TerminalAssumption
  <1>2. DOMAIN RefOrder = 1..Len(RefOrder) /\ Len(RefOrder) \in Nat
    BY <1>1
  <1>3. \A i, j \in 1..Len(RefOrder) : RefOrder[i] = RefOrder[j] => i = j
    BY <1>2, TerminalAssumption DEF IsInjective
  <1>4. \A ref \in Refs : \E i \in 1..Len(RefOrder) : RefOrder[i] = ref
    BY <1>2 DEF Refs, ToSet
  <1>5. \A i \in 1..Len(RefOrder) : RefOrder[i] \in Refs
    BY <1>2 DEF Refs, ToSet
  <1>6. \A ref \in Refs : Rank(ref) \in 1..Len(RefOrder) /\ RefOrder[Rank(ref)] = ref
    <2> SUFFICES ASSUME NEW ref \in Refs
                 PROVE  Rank(ref) \in 1..Len(RefOrder) /\ RefOrder[Rank(ref)] = ref
      OBVIOUS
    <2>1. \E i \in DOMAIN RefOrder : RefOrder[i] = ref
      BY <1>2, <1>4
    <2>2. Rank(ref) \in DOMAIN RefOrder /\ RefOrder[Rank(ref)] = ref
      BY <2>1 DEF Rank
    <2>3. QED
      BY <1>2, <2>2
  <1>7. \A i \in 1..Len(RefOrder) : Rank(RefOrder[i]) = i
    BY <1>3, <1>5, <1>6
  <1>8. QED
    BY <1>1, <1>5, <1>6, <1>7

\* A list of entries: of refs, and of none twice.
Entries(es) ==
  /\ es \in Seq(ToSet(es))
  /\ \A i \in 1..Len(es) : es[i].ref \in Refs /\ (es[i].remote <=> ~IsLocal(es[i].ref))
  /\ \A i, j \in 1..Len(es) : es[i].ref = es[j].ref => i = j

InOrder(es) == \A i, j \in 1..Len(es) : i < j => Before(es[i], es[j])

\* The elements at places that are in order.
LEMMA PickedEntries ==
  ASSUME NEW es, Entries(es), NEW D, NEW r, r = AtPlaces(es, D)
  PROVE  /\ Entries(r)
         /\ ToSet(r) = {es[i] : i \in D \cap (1..Len(es))}
         /\ InOrder(es) => InOrder(r)
  <1> DEFINE n == Len(es)
             T == ToSet(es)
  <1>1. es \in Seq(T) /\ n \in Nat
    BY DEF Entries
  <1>2. PICK at : Picked(es, T, D, r, n, at)
    BY <1>1, AtPlacesAre
  <1> HIDE DEF n, T
  <1> DEFINE m == Len(r)
  <1>3. /\ r \in Seq(T) /\ m \in Nat /\ at \in [1..m -> 1..n]
        /\ \A k \in 1..m : at[k] \in D /\ r[k] = es[at[k]] /\ at[k] \in 1..n
        /\ \A k, l \in 1..m : k < l => at[k] < at[l]
        /\ \A i \in 1..n : i \in D => \E k \in 1..m : at[k] = i
    BY <1>2 DEF Picked
  <1>4. DOMAIN r = 1..m
    BY <1>3
  <1> HIDE DEF m
  <1>5. ToSet(r) = {es[i] : i \in D \cap (1..n)}
    <2>1. ASSUME NEW k \in 1..m PROVE r[k] \in {es[i] : i \in D \cap (1..n)}
      BY <1>3
    <2>2. ASSUME NEW i \in D \cap (1..n) PROVE es[i] \in ToSet(r)
      <3>1. PICK k \in 1..m : at[k] = i
        BY <1>3
      <3>2. r[k] = es[i]
        BY <1>3, <3>1
      <3>3. QED
        BY <1>4, <3>2 DEF ToSet
    <2>3. ToSet(r) \subseteq {es[i] : i \in D \cap (1..n)}
      BY <1>4, <2>1 DEF ToSet
    <2>4. QED
      BY <2>2, <2>3
  <1>6. r \in Seq(ToSet(r))
    BY <1>3, SequenceOfItsOwn
  <1>7. \A k \in 1..m : r[k].ref \in Refs /\ (r[k].remote <=> ~IsLocal(r[k].ref))
    <2> SUFFICES ASSUME NEW k \in 1..m
                 PROVE  r[k].ref \in Refs /\ (r[k].remote <=> ~IsLocal(r[k].ref))
      OBVIOUS
    <2>1. PICK i \in 1..n : r[k] = es[i]
      BY <1>3
    <2>2. \A j \in 1..n : es[j].ref \in Refs /\ (es[j].remote <=> ~IsLocal(es[j].ref))
      BY DEF Entries, n
    <2>3. QED
      BY <2>1, <2>2, Zenon
  <1>8. ASSUME NEW k \in 1..m, NEW l \in 1..m, r[k].ref = r[l].ref PROVE k = l
    <2>1. at[k] = at[l]
      BY <1>3, <1>8 DEF Entries, n
    <2>2. k \in Nat /\ l \in Nat /\ at[k] \in Nat /\ at[l] \in Nat
      BY <1>1, <1>3
    <2>3. ~(k < l) /\ ~(l < k)
      BY <1>3, <2>1, <2>2
    <2>4. QED
      BY <2>2, <2>3
  <1>9. Entries(r)
    BY <1>6, <1>7, <1>8 DEF Entries, m
  <1>10. InOrder(es) => InOrder(r)
    BY <1>3 DEF InOrder, n, m
  <1>11. QED
    BY <1>5, <1>9, <1>10 DEF n

\* What a fetch inserts: an entry for each ref.
LEMMA InsertionsAre ==
  ASSUME NEW S, S \subseteq Refs, NEW found, found = ForEachRef(S), NEW es, es = Insertions(found)
  PROVE  Entries(es) /\ ToSet(es) = {Entry(ref) : ref \in S}
  <1> DEFINE D == {i \in DOMAIN RefOrder : RefOrder[i] \in S}
             n == Len(RefOrder)
             m == Len(found)
  <1>1. RefOrder \in Seq(Refs) /\ n \in Nat /\ DOMAIN RefOrder = 1..n
    BY RefsAre
  <1>2. found = AtPlaces(RefOrder, D)
    BY DEF ForEachRef
  <1>3. PICK at : Picked(RefOrder, Refs, D, found, n, at)
    BY <1>1, <1>2, AtPlacesAre
  <1>4. /\ found \in Seq(Refs) /\ m \in Nat /\ DOMAIN found = 1..m
        /\ \A k \in 1..m : at[k] \in D /\ found[k] = RefOrder[at[k]] /\ at[k] \in 1..n
        /\ \A k, l \in 1..m : k < l => at[k] < at[l]
        /\ \A i \in 1..n : i \in D => \E k \in 1..m : at[k] = i
    BY <1>3 DEF Picked
  <1>5. \A k \in 1..m : found[k] \in S
    BY <1>4
  <1>6. \A ref \in S : \E k \in 1..m : found[k] = ref
    <2> SUFFICES ASSUME NEW ref \in S PROVE \E k \in 1..m : found[k] = ref
      OBVIOUS
    <2>1. Rank(ref) \in 1..n /\ RefOrder[Rank(ref)] = ref
      BY RefsAre
    <2>2. Rank(ref) \in D
      BY <1>1, <2>1
    <2>3. QED
      BY <1>4, <2>1, <2>2
  <1>7. ASSUME NEW k \in 1..m, NEW l \in 1..m, found[k] = found[l] PROVE k = l
    <2>1. /\ at[k] \in 1..n /\ at[l] \in 1..n
          /\ RefOrder[at[k]] = RefOrder[at[l]]
      BY <1>4, <1>7
    <2> HIDE DEF D, n, m
    <2>2. \A i \in 1..n : Rank(RefOrder[i]) = i
      BY RefsAre DEF n
    <2>3. at[k] = at[l]
      <3>1. Rank(RefOrder[at[k]]) = at[k] /\ Rank(RefOrder[at[l]]) = at[l]
        BY <2>1, <2>2
      <3>2. QED
        BY <2>1, <3>1
    <2>4. k \in Nat /\ l \in Nat /\ at[k] \in Nat /\ at[l] \in Nat
      BY <1>1, <1>4
    <2>5. ~(k < l) /\ ~(l < k)
      BY <1>4, <2>3, <2>4
    <2>6. QED
      BY <2>4, <2>5
  <1> HIDE DEF D, n, m
  <1>8. es = [k \in 1..m |-> Entry(found[m + 1 - k])]
    BY <1>4 DEF Insertions, m
  <1>9. es \in Seq({Entry(ref) : ref \in S}) /\ Len(es) = m /\ DOMAIN es = 1..m
    <2>1. \A k \in 1..m : m + 1 - k \in 1..m
      BY <1>4
    <2>2. \A k \in 1..m : Entry(found[m + 1 - k]) \in {Entry(ref) : ref \in S}
      BY <1>5, <2>1
    <2>3. QED
      BY <1>4, <1>8, <2>2
  <1>10. \A k \in 1..m : m + 1 - k \in 1..m /\ es[k] = Entry(found[m + 1 - k])
                         /\ es[k].ref = found[m + 1 - k]
                         /\ (es[k].remote <=> ~IsLocal(es[k].ref))
    <2> SUFFICES ASSUME NEW k \in 1..m
                 PROVE  /\ m + 1 - k \in 1..m /\ es[k] = Entry(found[m + 1 - k])
                        /\ es[k].ref = found[m + 1 - k]
                        /\ (es[k].remote <=> ~IsLocal(es[k].ref))
      OBVIOUS
    <2>1. m + 1 - k \in 1..m /\ es[k] = Entry(found[m + 1 - k])
      BY <1>4, <1>8
    <2>2. PICK ref : ref = found[m + 1 - k]
      OBVIOUS
    <2>3. PICK e : e = es[k]
      OBVIOUS
    <2>4. e = [ref |-> ref, remote |-> ~IsLocal(ref), oid |-> tips[ref], current |-> ref = HeadRef]
      BY <2>1, <2>2, <2>3 DEF Entry
    <2>5. e.ref = ref /\ e.remote = ~IsLocal(ref)
      BY <2>4
    <2>6. QED
      BY <2>1, <2>2, <2>3, <2>5
  <1>11. ToSet(es) = {Entry(ref) : ref \in S}
    <2>1. ToSet(es) \subseteq {Entry(ref) : ref \in S}
      BY <1>9, SequenceOfItsOwn
    <2>2. ASSUME NEW ref \in S PROVE Entry(ref) \in ToSet(es)
      <3>1. PICK k \in 1..m : found[k] = ref
        BY <1>6
      <3>2. m + 1 - k \in 1..m /\ m + 1 - (m + 1 - k) = k
        BY <1>4
      <3>3. es[m + 1 - k] = Entry(ref)
        BY <1>8, <3>1, <3>2
      <3>4. QED
        BY <1>9, <3>2, <3>3 DEF ToSet
    <2>3. QED
      BY <2>1, <2>2
  <1>12. ASSUME NEW k \in 1..m, NEW l \in 1..m, es[k].ref = es[l].ref PROVE k = l
    <2>1. m + 1 - k = m + 1 - l
      BY <1>7, <1>10, <1>12
    <2>2. QED
      BY <1>4, <2>1
  <1>13. es \in Seq(ToSet(es))
    BY <1>9, <1>11
  <1>14. \A k \in 1..m : es[k].ref \in Refs
    BY <1>5, <1>10
  <1>15. QED
    BY <1>9, <1>10, <1>11, <1>12, <1>13, <1>14 DEF Entries

\* Two lists of different refs, one after the other.
LEMMA EntriesJoin ==
  ASSUME NEW a, NEW b, Entries(a), Entries(b),
         \A x \in ToSet(a), y \in ToSet(b) : x.ref # y.ref
  PROVE  Entries(a \o b) /\ ToSet(a \o b) = ToSet(a) \cup ToSet(b)
  <1> DEFINE T == ToSet(a) \cup ToSet(b)
             n == Len(a)
             m == Len(b)
             c == a \o b
  <1>1. a \in Seq(T) /\ b \in Seq(T) /\ n \in Nat /\ m \in Nat
    BY DEF Entries
  <1>2. /\ c \in Seq(T) /\ Len(c) = n + m /\ DOMAIN c = 1..(n + m)
        /\ \A i \in 1..n : c[i] = a[i]
        /\ \A i \in 1..m : c[n + i] = b[i]
    BY <1>1, Joined
  <1> HIDE DEF c
  <1>3. \A i \in 1..(n + m) : i \in 1..n \/ (i - n \in 1..m /\ i = n + (i - n))
    BY <1>1
  <1>4. DOMAIN a = 1..n /\ DOMAIN b = 1..m
    BY <1>1
  <1> HIDE DEF n, m
  <1>5. /\ \A i \in 1..n : a[i] \in ToSet(a)
        /\ \A i \in 1..m : b[i] \in ToSet(b)
    BY <1>4 DEF ToSet
  <1>6. ToSet(c) = T
    <2>1. ToSet(c) \subseteq T
      BY <1>2, SequenceOfItsOwn
    <2>2. \A x \in ToSet(a) : x \in ToSet(c)
      <3>1. \A i \in 1..n : i \in 1..(n + m)
        BY <1>1 DEF n, m
      <3>2. QED
        BY <1>2, <1>4, <3>1 DEF ToSet
    <2>3. \A x \in ToSet(b) : x \in ToSet(c)
      <3>1. \A i \in 1..m : n + i \in 1..(n + m)
        BY <1>1 DEF n, m
      <3>2. QED
        BY <1>2, <1>4, <3>1 DEF ToSet
    <2>4. QED
      BY <2>1, <2>2, <2>3
  <1>7. \A i \in 1..(n + m) : c[i].ref \in Refs /\ (c[i].remote <=> ~IsLocal(c[i].ref))
    <2> SUFFICES ASSUME NEW i \in 1..(n + m)
                 PROVE  c[i].ref \in Refs /\ (c[i].remote <=> ~IsLocal(c[i].ref))
      OBVIOUS
    <2>1. CASE i \in 1..n
      BY <1>2, <2>1 DEF Entries, n
    <2>2. CASE i - n \in 1..m /\ i = n + (i - n)
      <3>1. c[i] = b[i - n]
        BY <1>2, <2>2
      <3>2. QED
        BY <2>2, <3>1 DEF Entries, m
    <2>3. QED
      BY <1>3, <2>1, <2>2
  <1>8. ASSUME NEW i \in 1..(n + m), NEW j \in 1..(n + m), c[i].ref = c[j].ref PROVE i = j
    <2>1. CASE i \in 1..n /\ j \in 1..n
      BY <1>2, <1>8, <2>1 DEF Entries, n
    <2>2. CASE i - n \in 1..m /\ i = n + (i - n) /\ j \in 1..n
      BY <1>2, <1>5, <1>8, <2>2
    <2>3. CASE i \in 1..n /\ j - n \in 1..m /\ j = n + (j - n)
      BY <1>2, <1>5, <1>8, <2>3
    <2>4. CASE i - n \in 1..m /\ i = n + (i - n) /\ j - n \in 1..m /\ j = n + (j - n)
      <3>1. c[i] = b[i - n] /\ c[j] = b[j - n]
        BY <1>2, <2>4
      <3>2. i - n = j - n
        BY <1>8, <2>4, <3>1 DEF Entries, m
      <3>3. QED
        BY <2>4, <3>2
    <2>5. QED
      BY <1>3, <2>1, <2>2, <2>3, <2>4
  <1>9. QED
    BY <1>2, <1>6, <1>7, <1>8 DEF Entries, c

\* str_array_sort, for a list of entries: the same entries, in order.
LEMMA SortedAre ==
  ASSUME NEW es, Entries(es), NEW r, r = Sorted(es)
  PROVE  Entries(r) /\ ToSet(r) = ToSet(es) /\ InOrder(r)
  <1> DEFINE n == Len(es)
             rk == [i \in 1..n |-> Rank(es[i].ref)]
             R == {e \in (1..n) \X (1..n) : rk[e[1]] < rk[e[2]]}
             Ahead(i) == {j \in 1..n : Before(es[j], es[i])}
             InR(i) == {j \in 1..n : <<j, i>> \in R}
             from == [k \in 1..n |-> CHOOSE i \in 1..n : Cardinality(Ahead(i)) + 1 = k]
  <1>1. es \in Seq(ToSet(es)) /\ n \in Nat /\ DOMAIN es = 1..n
    BY DEF Entries
  <1>2. /\ \A i \in 1..n : es[i].ref \in Refs /\ (es[i].remote <=> ~IsLocal(es[i].ref))
        /\ \A i, j \in 1..n : es[i].ref = es[j].ref => i = j
    BY DEF Entries
  <1>3. \A i \in 1..n : rk[i] \in Nat
    BY <1>2, RefsAre
  <1>4. \A i, j \in 1..n : rk[i] = rk[j] => i = j
    BY <1>2, RefsAre
  <1>5. \A i, j \in 1..n : Before(es[i], es[j]) <=> rk[i] < rk[j]
    BY DEF Before
  <1> HIDE DEF rk, n
  <1>6. \A i, j \in 1..n : <<i, j>> \in R <=> rk[i] < rk[j]
    <2> SUFFICES ASSUME NEW i \in 1..n, NEW j \in 1..n
                 PROVE  <<i, j>> \in R <=> rk[i] < rk[j]
      OBVIOUS
    <2> DEFINE e == <<i, j>>
    <2>1. e \in (1..n) \X (1..n) /\ e[1] = i /\ e[2] = j
      OBVIOUS
    <2>2. e \in R <=> rk[e[1]] < rk[e[2]]
      <3> HIDE DEF e
      <3> QED
        BY <2>1
    <2>3. QED
      BY <2>1, <2>2
  <1> HIDE DEF R
  <1>7. \A i \in 1..n : Ahead(i) = InR(i)
    BY <1>5, <1>6
  <1>8. /\ \A i \in 1..n : <<i, i>> \notin R
        /\ \A i, j, k \in 1..n : <<i, j>> \in R /\ <<j, k>> \in R => <<i, k>> \in R
        /\ \A i, j \in 1..n : i # j => <<i, j>> \in R \/ <<j, i>> \in R
    <2>1. \A i \in 1..n : <<i, i>> \notin R
      BY <1>3, <1>6
    <2>2. \A i, j, k \in 1..n : <<i, j>> \in R /\ <<j, k>> \in R => <<i, k>> \in R
      BY <1>3, <1>6
    <2>3. ASSUME NEW i \in 1..n, NEW j \in 1..n, i # j
          PROVE  <<i, j>> \in R \/ <<j, i>> \in R
      <3>1. rk[i] # rk[j] /\ rk[i] \in Nat /\ rk[j] \in Nat
        BY <1>3, <1>4, <2>3
      <3>2. rk[i] < rk[j] \/ rk[j] < rk[i]
        BY <3>1
      <3>3. QED
        BY <1>6, <3>2
    <2>4. QED
      BY <2>1, <2>2, <2>3
  <1>9. /\ \A i \in 1..n : Cardinality(InR(i)) \in 0..(n - 1)
        /\ \A i, j \in 1..n : <<i, j>> \in R => Cardinality(InR(i)) < Cardinality(InR(j))
        /\ \A k \in 1..n : \E i \in 1..n : Cardinality(InR(i)) = k - 1
    <2>1. /\ n \in Nat
          /\ \A i \in 1..n : <<i, i>> \notin R
          /\ \A i, j, k \in 1..n : <<i, j>> \in R /\ <<j, k>> \in R => <<i, k>> \in R
          /\ \A i, j \in 1..n : i # j => <<i, j>> \in R \/ <<j, i>> \in R
      BY <1>1, <1>8
    <2>2. QED
      BY <2>1, Ranks, Zenon
  <1>10. /\ \A i \in 1..n : Cardinality(Ahead(i)) \in Nat /\ Cardinality(Ahead(i)) + 1 \in 1..n
         /\ \A i, j \in 1..n : <<i, j>> \in R => Cardinality(Ahead(i)) < Cardinality(Ahead(j))
         /\ \A k \in 1..n : \E i \in 1..n : Cardinality(Ahead(i)) + 1 = k
    <2> HIDE DEF Ahead, InR
    <2>1. \A i \in 1..n : Cardinality(Ahead(i)) \in 0..(n - 1)
      BY <1>7, <1>9
    <2>2. \A i \in 1..n : Cardinality(Ahead(i)) \in Nat /\ Cardinality(Ahead(i)) + 1 \in 1..n
      BY <1>1, <2>1
    <2>3. \A i, j \in 1..n : <<i, j>> \in R => Cardinality(Ahead(i)) < Cardinality(Ahead(j))
      BY <1>7, <1>9
    <2>4. ASSUME NEW k \in 1..n PROVE \E i \in 1..n : Cardinality(Ahead(i)) + 1 = k
      <3>1. PICK i \in 1..n : Cardinality(Ahead(i)) = k - 1
        BY <1>7, <1>9
      <3>2. Cardinality(Ahead(i)) + 1 = k
        BY <1>1, <3>1
      <3>3. QED
        BY <3>2
    <2>5. QED
      BY <2>2, <2>3, <2>4
  <1>11. r = [k \in 1..n |-> es[from[k]]]
    <2>1. \A k \in 1..n : r[k] = es[CHOOSE i \in 1..n : Cardinality(Ahead(i)) + 1 = k]
      <3> SUFFICES ASSUME NEW k \in 1..n
                   PROVE  r[k] = es[CHOOSE i \in 1..n : Cardinality(Ahead(i)) + 1 = k]
        OBVIOUS
      <3> DEFINE at == [i \in 1..n |-> Cardinality(Ahead(i)) + 1]
      <3>1. r[k] = es[CHOOSE i \in 1..n : at[i] = k]
        BY <1>1 DEF Sorted
      <3>2. \A i \in 1..n : at[i] = Cardinality(Ahead(i)) + 1
        OBVIOUS
      <3> HIDE DEF at, Ahead
      <3>3. (CHOOSE i \in 1..n : at[i] = k) = (CHOOSE i \in 1..n : Cardinality(Ahead(i)) + 1 = k)
        BY <3>2
      <3>4. QED
        BY <3>1, <3>3
    <2>2. r = [k \in 1..n |-> r[k]]
      BY <1>1 DEF Sorted
    <2> HIDE DEF Ahead
    <2>3. QED
      BY <2>1, <2>2
  <1> HIDE DEF Ahead, InR
  <1>12. \A k \in 1..n : from[k] \in 1..n /\ Cardinality(Ahead(from[k])) + 1 = k
    BY <1>10
  <1> HIDE DEF from
  <1>13. \A i \in 1..n : \E k \in 1..n : from[k] = i
    <2> SUFFICES ASSUME NEW i \in 1..n PROVE \E k \in 1..n : from[k] = i
      OBVIOUS
    <2>1. PICK k \in 1..n : k = Cardinality(Ahead(i)) + 1
      BY <1>10
    <2>2. from[k] \in 1..n /\ Cardinality(Ahead(from[k])) + 1 = k
      BY <1>12
    <2>3. Cardinality(Ahead(from[k])) = Cardinality(Ahead(i))
      <3>1. Cardinality(Ahead(from[k])) \in Nat /\ Cardinality(Ahead(i)) \in Nat
        BY <1>10, <2>2
      <3>2. QED
        BY <2>1, <2>2, <3>1
    <2>4. from[k] = i
      <3>1. SUFFICES ASSUME from[k] # i PROVE FALSE
        OBVIOUS
      <3>2. <<from[k], i>> \in R \/ <<i, from[k]>> \in R
        BY <1>8, <2>2, <3>1
      <3>3. Cardinality(Ahead(i)) < Cardinality(Ahead(i))
        BY <1>10, <2>2, <2>3, <3>2
      <3>4. Cardinality(Ahead(i)) \in Nat
        BY <1>10
      <3>5. QED
        BY <3>3, <3>4
    <2>5. QED
      BY <2>4
  <1>14. \A k, l \in 1..n : k < l => rk[from[k]] < rk[from[l]]
    <2> SUFFICES ASSUME NEW k \in 1..n, NEW l \in 1..n, k < l
                 PROVE  rk[from[k]] < rk[from[l]]
      OBVIOUS
    <2>1. PICK i \in 1..n : i = from[k] /\ Cardinality(Ahead(i)) + 1 = k
      BY <1>12
    <2>2. PICK j \in 1..n : j = from[l] /\ Cardinality(Ahead(j)) + 1 = l
      BY <1>12
    <2>3. Cardinality(Ahead(i)) \in Nat /\ Cardinality(Ahead(j)) \in Nat
      BY <1>10
    <2>4. Cardinality(Ahead(i)) < Cardinality(Ahead(j))
      BY <2>1, <2>2, <2>3
    <2>5. i # j
      BY <2>3, <2>4
    <2>6. <<j, i>> \notin R
      <3>1. <<j, i>> \in R => Cardinality(Ahead(j)) < Cardinality(Ahead(i))
        BY <1>10
      <3>2. QED
        BY <2>3, <2>4, <3>1
    <2>7. <<i, j>> \in R
      BY <1>8, <2>5, <2>6
    <2>8. QED
      BY <1>6, <2>1, <2>2, <2>7
  <1>15. DOMAIN r = 1..n /\ Len(r) = n /\ \A k \in 1..n : r[k] = es[from[k]]
    BY <1>1, <1>11
  <1>16. ToSet(r) = ToSet(es)
    <2>1. \A k \in 1..n : r[k] \in ToSet(es)
      BY <1>1, <1>12, <1>15 DEF ToSet
    <2>2. \A i \in 1..n : es[i] \in ToSet(r)
      <3> SUFFICES ASSUME NEW i \in 1..n PROVE es[i] \in ToSet(r)
        OBVIOUS
      <3>1. PICK k \in 1..n : from[k] = i
        BY <1>13
      <3>2. r[k] = es[i]
        BY <1>15, <3>1
      <3>3. QED
        BY <1>15, <3>2 DEF ToSet
    <2>3. ToSet(r) \subseteq ToSet(es)
      BY <1>15, <2>1 DEF ToSet
    <2>4. ToSet(es) \subseteq ToSet(r)
      BY <1>1, <2>2 DEF ToSet
    <2>5. QED
      BY <2>3, <2>4
  <1>17. r \in Seq(ToSet(r))
    <2>1. \A k \in 1..n : r[k] \in ToSet(r)
      BY <1>15 DEF ToSet
    <2>2. r = [k \in 1..n |-> r[k]]
      BY <1>11, <1>15
    <2>3. QED
      BY <1>1, <2>1, <2>2
  <1>18. \A k \in 1..n : r[k].ref \in Refs /\ (r[k].remote <=> ~IsLocal(r[k].ref))
    <2> SUFFICES ASSUME NEW k \in 1..n
                 PROVE  r[k].ref \in Refs /\ (r[k].remote <=> ~IsLocal(r[k].ref))
      OBVIOUS
    <2>1. PICK i \in 1..n : r[k] = es[i]
      BY <1>12, <1>15
    <2>2. QED
      BY <1>2, <2>1, Zenon
  <1>19. \A k, l \in 1..n : r[k].ref = r[l].ref => k = l
    <2> SUFFICES ASSUME NEW k \in 1..n, NEW l \in 1..n, r[k].ref = r[l].ref PROVE k = l
      OBVIOUS
    <2>1. from[k] \in 1..n /\ from[l] \in 1..n
      BY <1>12
    <2>2. from[k] = from[l]
      BY <1>2, <1>15, <2>1
    <2>3. Cardinality(Ahead(from[k])) + 1 = k /\ Cardinality(Ahead(from[l])) + 1 = l
      BY <1>12
    <2>4. QED
      BY <2>2, <2>3
  <1>20. InOrder(r)
    BY <1>5, <1>12, <1>14, <1>15 DEF InOrder
  <1>21. QED
    BY <1>15, <1>16, <1>17, <1>18, <1>19, <1>20 DEF Entries

\* The locals of a listing have the fields they have.
Record(l) == l = [entries |-> l.entries, out |-> l.out, read |-> l.read, moved |-> l.moved]

\* What a listing shows, or is about to.
Shown(l) == ToSet(l.entries) \cup UNION {ToSet(g.rows) : g \in ToSet(l.out)}

ReadOf(es) == {<<e.ref, e.oid>> : e \in es}

\* The locals after a fetch of the refs S, the sort of the entries left, and the
\* group of an origin.
WithFetched(l, S) ==
  [entries |-> Insertions(ForEachRef(S)) \o l.entries, out |-> l.out,
   read |-> l.read \cup {<<ref, tips[ref]>> : ref \in S}, moved |-> l.moved]

WithSorted(l, left) ==
  [entries |-> Sorted(left), out |-> l.out, read |-> l.read, moved |-> l.moved]

WithPrinted(l, origin) ==
  [entries |-> AtPlaces(l.entries, {i \in DOMAIN l.entries : l.entries[i].ref[1] # origin}),
   out |-> Append(l.out, [origin |-> origin, rows |-> Of(l.entries, origin)]),
   read |-> l.read, moved |-> l.moved]

\* A fetch: an entry for each ref of S is added.
LEMMA FetchAdds ==
  ASSUME NEW l, Record(l), Entries(l.entries), NEW S, S \subseteq Refs,
         \A e \in ToSet(l.entries) : e.ref \notin S,
         l.read = ReadOf(ToSet(l.entries)),
         NEW new, new = WithFetched(l, S)
  PROVE  /\ Record(new) /\ new.out = l.out /\ new.moved = l.moved
         /\ Entries(new.entries)
         /\ ToSet(new.entries) = ToSet(l.entries) \cup {Entry(ref) : ref \in S}
         /\ new.read = ReadOf(ToSet(new.entries))
  <1>1. PICK a : a = Insertions(ForEachRef(S))
    OBVIOUS
  <1>2. PICK b : b = l.entries
    OBVIOUS
  <1>3. PICK c : c = a \o b
    OBVIOUS
  <1>4. PICK rd : rd = l.read \cup {<<ref, tips[ref]>> : ref \in S}
    OBVIOUS
  <1>5. new = [entries |-> c, out |-> l.out, read |-> rd, moved |-> l.moved]
    BY <1>1, <1>2, <1>3, <1>4 DEF WithFetched
  <1>6. Record(new) /\ new.out = l.out /\ new.moved = l.moved /\ new.entries = c /\ new.read = rd
    BY <1>5 DEF Record
  <1>7. Entries(a) /\ ToSet(a) = {Entry(ref) : ref \in S}
    BY <1>1, InsertionsAre
  <1>8. \A ref : Entry(ref).ref = ref /\ Entry(ref).oid = tips[ref]
    BY DEF Entry
  <1>9. \A x \in ToSet(a), y \in ToSet(b) : x.ref # y.ref
    <2> SUFFICES ASSUME NEW x \in ToSet(a), NEW y \in ToSet(b) PROVE x.ref # y.ref
      OBVIOUS
    <2>1. x.ref \in S
      BY <1>7, <1>8
    <2>2. QED
      BY <1>2, <2>1
  <1>10. Entries(c) /\ ToSet(c) = ToSet(a) \cup ToSet(b)
    BY <1>2, <1>3, <1>7, <1>9, EntriesJoin
  <1>11. rd = ReadOf(ToSet(c))
    <2>1. {<<ref, tips[ref]>> : ref \in S} = ReadOf(ToSet(a))
      <3>1. \A ref \in S : <<Entry(ref).ref, Entry(ref).oid>> = <<ref, tips[ref]>>
        BY <1>8
      <3>2. ReadOf(ToSet(a)) = {<<Entry(ref).ref, Entry(ref).oid>> : ref \in S}
        BY <1>7 DEF ReadOf
      <3>3. QED
        BY <3>1, <3>2
    <2>2. ReadOf(ToSet(c)) = ReadOf(ToSet(a)) \cup ReadOf(ToSet(b))
      BY <1>10 DEF ReadOf
    <2>3. QED
      BY <1>2, <1>4, <2>1, <2>2
  <1>12. ToSet(c) = ToSet(l.entries) \cup {Entry(ref) : ref \in S}
    BY <1>2, <1>7, <1>10
  <1>13. QED
    BY <1>6, <1>10, <1>11, <1>12

\* The filter and the sort.
LEMMA FilterKeeps ==
  ASSUME NEW es, Entries(es), NEW left, left = Filtered(es)
  PROVE  /\ Entries(left)
         /\ ToSet(left) = {e \in ToSet(es) : ~\E l \in ToSet(es) : Shadows(e, l)}
  <1> DEFINE D == {i \in DOMAIN es : ~\E l \in ToSet(es) : Shadows(es[i], l)}
  <1>1. DOMAIN es = 1..Len(es)
    BY DEF Entries
  <1>2. left = AtPlaces(es, D)
    BY DEF Filtered
  <1> HIDE DEF D
  <1>3. Entries(left) /\ ToSet(left) = {es[i] : i \in D \cap (1..Len(es))}
    BY <1>2, PickedEntries
  <1>4. ToSet(es) = {es[i] : i \in 1..Len(es)}
    BY <1>1 DEF ToSet
  <1>5. \A i : i \in D <=> i \in 1..Len(es) /\ ~\E l \in ToSet(es) : Shadows(es[i], l)
    BY <1>1 DEF D
  <1>6. QED
    BY <1>3, <1>4, <1>5

\* Those of one remote, and the others.
LEMMA SplitByOrigin ==
  ASSUME NEW es, Entries(es), InOrder(es), NEW o,
         NEW rows, rows = Of(es, o),
         NEW rest, rest = AtPlaces(es, {i \in DOMAIN es : es[i].ref[1] # o})
  PROVE  /\ Entries(rows) /\ InOrder(rows)
         /\ Entries(rest) /\ InOrder(rest)
         /\ ToSet(rows) = {e \in ToSet(es) : e.ref[1] = o}
         /\ ToSet(rest) = {e \in ToSet(es) : e.ref[1] # o}
  <1> DEFINE D == {i \in DOMAIN es : es[i].ref[1] = o}
             F == {i \in DOMAIN es : es[i].ref[1] # o}
  <1>1. DOMAIN es = 1..Len(es)
    BY DEF Entries
  <1>2. rows = AtPlaces(es, D) /\ rest = AtPlaces(es, F)
    BY DEF Of
  <1>3. \A i : i \in D <=> i \in 1..Len(es) /\ es[i].ref[1] = o
    BY <1>1
  <1>4. \A i : i \in F <=> i \in 1..Len(es) /\ es[i].ref[1] # o
    BY <1>1
  <1> HIDE DEF D, F
  <1>5. Entries(rows) /\ ToSet(rows) = {es[i] : i \in D \cap (1..Len(es))} /\ InOrder(rows)
    BY <1>2, PickedEntries
  <1>6. Entries(rest) /\ ToSet(rest) = {es[i] : i \in F \cap (1..Len(es))} /\ InOrder(rest)
    BY <1>2, PickedEntries
  <1>7. ToSet(es) = {es[i] : i \in 1..Len(es)}
    BY <1>1 DEF ToSet
  <1>8. QED
    BY <1>3, <1>4, <1>5, <1>6, <1>7

-----------------------------------------------------------------------------
(* What a listing shows.                                                   *)

\* The refs a listing has read before step p.
Fetched(p) == {ref \in DOMAIN tips : p = "list_filter" \/ (p = "list_remote" /\ IsLocal(ref))}

\* While refs are read, an entry is listed for each of them, and no other.
Gathering(p, l) ==
  /\ l.out = << >>
  /\ l.read = ReadOf(ToSet(l.entries))
  /\ {e.ref : e \in ToSet(l.entries)} = Fetched(p)

\* A group of a listing: in order, of one remote.
Group(g) == Entries(g.rows) /\ InOrder(g.rows) /\ \A e \in ToSet(g.rows) : e.ref[1] = g.origin

\* From the sort on, all that was read is shown, and each remote is either
\* printed or to be printed.
Printing(l) ==
  /\ InOrder(l.entries) /\ l.out \in Seq(ToSet(l.out)) /\ l.read # {}
  /\ \A e \in ToSet(l.entries) : e.ref \in DOMAIN tips
  /\ \A r \in l.read : \E e \in Shown(l) : e.oid = r[2] /\ e.ref \in {r[1], Local(r[1][2])}
  /\ \A g \in ToSet(l.out) : Group(g)
  /\ \A g \in ToSet(l.out), e \in ToSet(l.entries) : e.ref[1] # g.origin
  /\ \A i, j \in DOMAIN l.out : l.out[i].origin = l.out[j].origin => i = j

\* The refs to show without --all.
Differing ==
  {ref \in DOMAIN tips : \/ IsLocal(ref)
                         \/ Local(ref[2]) \notin DOMAIN tips
                         \/ tips[Local(ref[2])] # tips[ref]}

IsCurrent(e) == e.ref \in DOMAIN tips /\ e.oid = tips[e.ref] /\ (e.current <=> e.ref = HeadRef)

\* If no ref moved, the details are those of the refs, and those that are shown
\* are those that differ.
Current(p, l, o) ==
  ~l.moved =>
    /\ \A e \in Shown(l) : IsCurrent(e)
    /\ p \in {"print_local", "print_remote"} /\ ~IsGiven(o, "all") =>
         {e.ref : e \in Shown(l)} = Differing

\* What holds of a listing with the options o before step p.
Sound(p, l, o) ==
  /\ Record(l) /\ Entries(l.entries)
  /\ p \in {"list_local", "list_remote", "list_filter"} => Gathering(p, l)
  /\ p \in {"print_local", "print_remote"} => Printing(l)
  /\ p = "print_local" => l.out = << >>
  /\ p \in ListSteps => Current(p, l, o)

\* Refs only move: none is created or deleted, and that of HEAD exists.
RefsInv ==
  /\ DOMAIN tips \subseteq Refs /\ HeadRef \in DOMAIN tips
  /\ \E tip \in Starts : DOMAIN tips = DOMAIN tip

\* The local refs, or the remote ones, are fetched.
LEMMA FetchIsSound ==
  ASSUME RefsInv, NEW p, NEW q, NEW S,
         \/ p = "list_local" /\ q = "list_remote" /\ S = {ref \in DOMAIN tips : IsLocal(ref)}
         \/ p = "list_remote" /\ q = "list_filter" /\ S = {ref \in DOMAIN tips : ~IsLocal(ref)},
         NEW l, NEW o, Sound(p, l, o), NEW new, new = WithFetched(l, S)
  PROVE  Sound(q, new, o)
  <1>1. /\ Record(l) /\ Entries(l.entries) /\ l.out = << >>
        /\ l.read = ReadOf(ToSet(l.entries))
        /\ {e.ref : e \in ToSet(l.entries)} = Fetched(p)
        /\ Current(p, l, o)
    BY DEF Sound, Gathering, ListSteps
  <1>2. S \subseteq Refs /\ S \subseteq DOMAIN tips
    BY DEF RefsInv
  <1>3. S \cap Fetched(p) = {} /\ S \cup Fetched(p) = Fetched(q)
    BY DEF Fetched
  <1>4. \A e \in ToSet(l.entries) : e.ref \notin S
    BY <1>1, <1>3
  <1>5. /\ Record(new) /\ new.out = l.out /\ new.moved = l.moved
        /\ Entries(new.entries)
        /\ ToSet(new.entries) = ToSet(l.entries) \cup {Entry(ref) : ref \in S}
        /\ new.read = ReadOf(ToSet(new.entries))
    BY <1>1, <1>2, <1>4, FetchAdds
  <1>6. \A ref : Entry(ref).ref = ref
    BY DEF Entry
  <1>7. {e.ref : e \in ToSet(new.entries)} = Fetched(q)
    <2>1. {e.ref : e \in {Entry(ref) : ref \in S}} = S
      BY <1>6
    <2>2. {e.ref : e \in ToSet(new.entries)} =
            {e.ref : e \in ToSet(l.entries)} \cup {e.ref : e \in {Entry(ref) : ref \in S}}
      BY <1>5
    <2>3. QED
      BY <1>1, <1>3, <2>1, <2>2
  <1>8. Current(q, new, o)
    <2>1. Shown(l) = ToSet(l.entries) /\ Shown(new) = ToSet(new.entries)
      BY <1>1, <1>5 DEF Shown, ToSet
    <2>2. ~l.moved => \A e \in ToSet(l.entries) : IsCurrent(e)
      BY <1>1, <2>1 DEF Current
    <2>3. ASSUME NEW ref \in S PROVE IsCurrent(Entry(ref))
      <3>1. PICK e : e = Entry(ref)
        OBVIOUS
      <3>2. e = [ref |-> ref, remote |-> ~IsLocal(ref), oid |-> tips[ref], current |-> ref = HeadRef]
        BY <3>1 DEF Entry
      <3>3. e.ref = ref /\ e.oid = tips[ref]
        BY <3>2
      <3>4. e.current <=> ref = HeadRef
        BY <3>2
      <3>5. QED
        BY <1>2, <3>1, <3>3, <3>4 DEF IsCurrent
    <2>4. ~new.moved => \A e \in Shown(new) : IsCurrent(e)
      BY <1>5, <2>1, <2>2, <2>3
    <2>5. q \notin {"print_local", "print_remote"}
      OBVIOUS
    <2>6. QED
      BY <2>4, <2>5 DEF Current
  <1>9. Gathering(q, new)
    BY <1>1, <1>5, <1>7 DEF Gathering
  <1>10. QED
    BY <1>5, <1>8, <1>9 DEF Sound

\* The channels are filtered and sorted.
LEMMA FilterIsSound ==
  ASSUME RefsInv, NEW l, NEW o, Sound("list_filter", l, o), NEW left,
         left = IF IsGiven(o, "all") THEN l.entries ELSE Filtered(l.entries),
         NEW new, new = WithSorted(l, left)
  PROVE  Sound("print_local", new, o)
  <1>1. /\ Record(l) /\ Entries(l.entries) /\ l.out = << >>
        /\ l.read = ReadOf(ToSet(l.entries))
        /\ {e.ref : e \in ToSet(l.entries)} = DOMAIN tips
        /\ Current("list_filter", l, o)
    BY DEF Sound, Gathering, ListSteps, Fetched
  <1>2. PICK es : es = l.entries
    OBVIOUS
  <1>3. /\ Entries(left)
        /\ ToSet(left) = {e \in ToSet(es) : IsGiven(o, "all") \/ ~\E f \in ToSet(es) : Shadows(e, f)}
    BY <1>1, <1>2, FilterKeeps
  <1>4. PICK r : r = Sorted(left)
    OBVIOUS
  <1>5. Entries(r) /\ ToSet(r) = ToSet(left) /\ InOrder(r)
    BY <1>3, <1>4, SortedAre
  <1>6. new = [entries |-> r, out |-> << >>, read |-> l.read, moved |-> l.moved]
    BY <1>1, <1>4 DEF WithSorted
  <1>7. Record(new) /\ new.entries = r /\ new.out = << >> /\ new.read = l.read /\ new.moved = l.moved
    BY <1>6 DEF Record
  <1>8. Shown(new) = ToSet(left) /\ Shown(l) = ToSet(es) /\ ToSet(new.out) = {}
    <2>1. ToSet(<< >>) = {}
      BY DEF ToSet
    <2>2. QED
      BY <1>1, <1>2, <1>5, <1>7, <2>1 DEF Shown
  <1>9. DOMAIN es = 1..Len(es) /\ \A e \in ToSet(es) : e.ref \in Refs /\ (e.remote <=> ~IsLocal(e.ref))
    <2>1. es \in Seq(ToSet(es))
          /\ \A i \in 1..Len(es) : es[i].ref \in Refs /\ (es[i].remote <=> ~IsLocal(es[i].ref))
      BY <1>1, <1>2 DEF Entries
    <2>2. DOMAIN es = 1..Len(es)
      BY <2>1
    <2>3. \A e \in ToSet(es) : \E i \in 1..Len(es) : e = es[i]
      BY <2>2 DEF ToSet
    <2>4. QED
      BY <2>1, <2>2, <2>3, Zenon
  <1>10. \A e, f \in ToSet(es) :
           Shadows(e, f) <=> ~IsLocal(e.ref) /\ f.ref = Local(e.ref[2]) /\ f.oid = e.oid
    <2> SUFFICES ASSUME NEW e \in ToSet(es), NEW f \in ToSet(es)
                 PROVE  Shadows(e, f) <=> ~IsLocal(e.ref) /\ f.ref = Local(e.ref[2]) /\ f.oid = e.oid
      OBVIOUS
    <2>1. (e.remote <=> ~IsLocal(e.ref)) /\ (f.remote <=> ~IsLocal(f.ref))
      BY <1>9
    <2>2. f.ref = <<f.ref[1], f.ref[2]>>
      BY <1>9, RefsAre
    <2>3. f.ref = Local(e.ref[2]) <=> IsLocal(f.ref) /\ f.ref[2] = e.ref[2]
      BY <2>2 DEF Local, IsLocal
    <2>4. QED
      BY <2>1, <2>3 DEF Shadows
  <1>11. \A r1 \in l.read : \E e \in Shown(new) : e.oid = r1[2] /\ e.ref \in {r1[1], Local(r1[1][2])}
    <2> SUFFICES ASSUME NEW r1 \in l.read
                 PROVE  \E e \in ToSet(left) : e.oid = r1[2] /\ e.ref \in {r1[1], Local(r1[1][2])}
      BY <1>8
    <2>0. PICK x \in ToSet(es) : r1[1] = x.ref /\ r1[2] = x.oid
      <3>1. PICK x \in ToSet(es) : r1 = <<x.ref, x.oid>>
        BY <1>1, <1>2 DEF ReadOf
      <3>2. QED
        BY <3>1
    <2>1. CASE x \in ToSet(left)
      BY <2>0, <2>1
    <2>2. CASE x \notin ToSet(left)
      <3>1. PICK f \in ToSet(es) : Shadows(x, f)
        BY <1>3, <2>2
      <3>2. f.ref = Local(x.ref[2]) /\ f.oid = x.oid
        BY <1>10, <3>1
      <3>3. IsLocal(f.ref)
        BY <3>2 DEF Local, IsLocal
      <3>4. \A h \in ToSet(es) : ~Shadows(f, h)
        BY <1>10, <3>3
      <3>5. f \in ToSet(left)
        BY <1>3, <3>4
      <3>6. QED
        BY <2>0, <3>2, <3>5
    <2>3. QED
      BY <2>1, <2>2
  <1>12. l.read # {}
    <2>1. PICK e \in ToSet(es) : e.ref = HeadRef
      BY <1>1, <1>2 DEF RefsInv
    <2>2. <<e.ref, e.oid>> \in ReadOf(ToSet(es))
      BY DEF ReadOf
    <2>3. QED
      BY <1>1, <1>2, <2>2
  <1>13. Printing(new)
    <2>1. new.out \in Seq(ToSet(new.out)) /\ DOMAIN new.out = {}
      <3>1. \A T : << >> \in Seq(T) /\ DOMAIN << >> = {}
        OBVIOUS
      <3>2. QED
        BY <1>7, <3>1
    <2>2. \A e \in ToSet(r) : e.ref \in DOMAIN tips
      BY <1>1, <1>2, <1>3, <1>5
    <2>3. QED
      BY <1>5, <1>7, <1>8, <1>11, <1>12, <2>1, <2>2 DEF Printing
  <1>14. Current("print_local", new, o)
    <2> SUFFICES ASSUME ~l.moved
                 PROVE  /\ \A e \in ToSet(left) : IsCurrent(e)
                        /\ ~IsGiven(o, "all") => {e.ref : e \in ToSet(left)} = Differing
      BY <1>7, <1>8 DEF Current
    <2>1. \A e \in ToSet(es) : IsCurrent(e)
      BY <1>1, <1>8 DEF Current
    <2>2. \A e \in ToSet(left) : IsCurrent(e)
      BY <1>3, <2>1
    <2>3. ASSUME ~IsGiven(o, "all") PROVE {e.ref : e \in ToSet(left)} = Differing
      <3>1. ASSUME NEW e \in ToSet(es)
            PROVE  e \in ToSet(left) <=> e.ref \in Differing
        <4>1. e.ref \in DOMAIN tips /\ e.oid = tips[e.ref]
          BY <2>1 DEF IsCurrent
        <4>2. (\E f \in ToSet(es) : Shadows(e, f)) <=>
                ~IsLocal(e.ref) /\ Local(e.ref[2]) \in DOMAIN tips /\ tips[Local(e.ref[2])] = tips[e.ref]
          <5>1. ASSUME NEW f \in ToSet(es), Shadows(e, f)
                PROVE  ~IsLocal(e.ref) /\ Local(e.ref[2]) \in DOMAIN tips
                         /\ tips[Local(e.ref[2])] = tips[e.ref]
            <6>1. ~IsLocal(e.ref) /\ f.ref = Local(e.ref[2]) /\ f.oid = e.oid
              BY <1>10, <5>1
            <6>2. f.ref \in DOMAIN tips /\ f.oid = tips[f.ref]
              BY <2>1 DEF IsCurrent
            <6>3. QED
              BY <4>1, <6>1, <6>2
          <5>2. ASSUME ~IsLocal(e.ref), Local(e.ref[2]) \in DOMAIN tips,
                       tips[Local(e.ref[2])] = tips[e.ref]
                PROVE  \E f \in ToSet(es) : Shadows(e, f)
            <6>1. PICK f \in ToSet(es) : f.ref = Local(e.ref[2])
              BY <1>1, <1>2, <5>2
            <6>2. f.oid = e.oid
              BY <2>1, <4>1, <5>2, <6>1 DEF IsCurrent
            <6>3. QED
              BY <1>10, <5>2, <6>1, <6>2
          <5>3. QED
            BY <5>1, <5>2
        <4>3. QED
          BY <1>3, <2>3, <4>1, <4>2 DEF Differing
      <3>2. ToSet(left) \subseteq ToSet(es)
        BY <1>3
      <3>3. \A ref \in Differing : \E e \in ToSet(es) : e.ref = ref
        BY <1>1, <1>2 DEF Differing
      <3> HIDE DEF Differing
      <3>4. QED
        BY <3>1, <3>2, <3>3
    <2>4. QED
      BY <2>2, <2>3
  <1>15. QED
    BY <1>5, <1>7, <1>13, <1>14 DEF Sound

\* A group is printed: that of an origin that has none yet.
LEMMA PrintIsSound ==
  ASSUME NEW p \in {"print_local", "print_remote"}, NEW l, NEW o, Sound(p, l, o), NEW origin,
         \A g \in ToSet(l.out) : g.origin # origin,
         NEW new, new = WithPrinted(l, origin)
  PROVE  Sound("print_remote", new, o)
  <1>1. Record(l) /\ Entries(l.entries) /\ Printing(l) /\ Current(p, l, o)
    BY DEF Sound, ListSteps
  <1>2. PICK es : es = l.entries
    OBVIOUS
  <1>3. PICK out : out = l.out
    OBVIOUS
  <1>4. PICK rows : rows = Of(es, origin)
    OBVIOUS
  <1>5. PICK rest : rest = AtPlaces(es, {i \in DOMAIN es : es[i].ref[1] # origin})
    OBVIOUS
  <1>6. /\ Entries(rows) /\ InOrder(rows)
        /\ Entries(rest) /\ InOrder(rest)
        /\ ToSet(rows) = {e \in ToSet(es) : e.ref[1] = origin}
        /\ ToSet(rest) = {e \in ToSet(es) : e.ref[1] # origin}
    BY <1>1, <1>2, <1>4, <1>5, SplitByOrigin DEF Printing
  <1>7. PICK g : g = [origin |-> origin, rows |-> rows]
    OBVIOUS
  <1>8. g.origin = origin /\ g.rows = rows
    BY <1>7
  <1>9. PICK more : more = Append(out, g)
    OBVIOUS
  <1>10. new = [entries |-> rest, out |-> more, read |-> l.read, moved |-> l.moved]
    BY <1>2, <1>3, <1>4, <1>5, <1>7, <1>9 DEF WithPrinted
  <1>11. Record(new) /\ new.entries = rest /\ new.out = more /\ new.read = l.read /\ new.moved = l.moved
    BY <1>10 DEF Record
  <1>12. out \in Seq(ToSet(out)) /\ \A i, j \in DOMAIN out : out[i].origin = out[j].origin => i = j
    BY <1>1, <1>3 DEF Printing
  <1>13. /\ more \in Seq(ToSet(more)) /\ ToSet(more) = ToSet(out) \cup {g}
         /\ DOMAIN more = 1..(Len(out) + 1) /\ DOMAIN out = 1..Len(out) /\ Len(out) \in Nat
         /\ \A i \in 1..Len(out) : more[i] = out[i] /\ more[i] \in ToSet(out)
         /\ more[Len(out) + 1] = g
    <2> DEFINE T == ToSet(out) \cup {g}
               n == Len(out)
    <2>1. out \in Seq(T) /\ g \in T /\ n \in Nat
      BY <1>12
    <2>2. DOMAIN out = 1..n
      BY <1>12
    <2>3. \A i \in 1..n : out[i] \in ToSet(out)
      BY <2>2 DEF ToSet
    <2> HIDE DEF T
    <2>4. /\ more \in Seq(T) /\ Len(more) = n + 1 /\ more[n + 1] = g
          /\ \A i \in 1..n : more[i] = out[i]
      BY <1>9, <2>1
    <2>5. DOMAIN more = 1..(n + 1)
      BY <2>4
    <2> HIDE DEF n
    <2>6. more \in Seq(ToSet(more)) /\ ToSet(more) \subseteq T
      BY <2>4, SequenceOfItsOwn
    <2>7. \A i \in 1..n : i \in 1..(n + 1)
      BY <2>1
    <2>8. n + 1 \in 1..(n + 1)
      BY <2>1
    <2>9. T \subseteq ToSet(more)
      BY <2>2, <2>4, <2>5, <2>7, <2>8 DEF ToSet, T
    <2>10. QED
      BY <2>1, <2>2, <2>3, <2>4, <2>5, <2>6, <2>9 DEF T, n
  <1>14. Shown(new) = Shown(l)
    <2>1. \A x : x \in Shown(new) <=> x \in ToSet(rest) \/ \E h \in ToSet(more) : x \in ToSet(h.rows)
      BY <1>11 DEF Shown
    <2>2. \A x : x \in Shown(l) <=> x \in ToSet(es) \/ \E h \in ToSet(out) : x \in ToSet(h.rows)
      BY <1>2, <1>3 DEF Shown
    <2>3. \A x : (\E h \in ToSet(more) : x \in ToSet(h.rows)) <=>
                   x \in ToSet(rows) \/ \E h \in ToSet(out) : x \in ToSet(h.rows)
      BY <1>8, <1>13
    <2>4. \A x : x \in ToSet(es) <=> x \in ToSet(rest) \/ x \in ToSet(rows)
      BY <1>6
    <2>5. \A x : x \in Shown(new) <=> x \in Shown(l)
      BY <2>1, <2>2, <2>3, <2>4
    <2>6. QED
      BY <2>5
  <1>15. \A h \in ToSet(more) : Group(h)
    <2>1. Group(g)
      BY <1>6, <1>8 DEF Group
    <2>2. QED
      BY <1>1, <1>3, <1>13, <2>1 DEF Printing
  <1>16. \A h \in ToSet(more), e \in ToSet(rest) : e.ref[1] # h.origin
    BY <1>1, <1>2, <1>3, <1>6, <1>8, <1>13 DEF Printing
  <1>17. \A i, j \in DOMAIN more : more[i].origin = more[j].origin => i = j
    <2> DEFINE n == Len(out)
    <2>1. \A i \in DOMAIN more : i \in 1..n \/ i = n + 1
      BY <1>13
    <2>2. \A i \in 1..n : more[i].origin # origin
      BY <1>3, <1>13
    <2>3. \A i, j \in 1..n : more[i].origin = more[j].origin => i = j
      BY <1>12, <1>13
    <2> HIDE DEF n
    <2>4. QED
      BY <1>8, <1>13, <2>1, <2>2, <2>3 DEF n
  <1>18. Printing(new)
    <2>1. \A e \in ToSet(rest) : e.ref \in DOMAIN tips
      BY <1>1, <1>2, <1>6 DEF Printing
    <2>2. QED
      BY <1>1, <1>6, <1>11, <1>13, <1>14, <1>15, <1>16, <1>17, <2>1 DEF Printing
  <1>19. Current("print_remote", new, o)
    BY <1>1, <1>11, <1>14 DEF Current
  <1>20. QED
    BY <1>6, <1>11, <1>18, <1>19 DEF Sound

\* A listing of another terminal, or one that notices a move of a ref.
LEMMA StaysSound ==
  ASSUME NEW p, NEW l, NEW o, Sound(p, l, o), DOMAIN tips' = DOMAIN tips,
         NEW new,
         \/ new = l /\ UNCHANGED <<tips, head>>
         \/ new = l /\ p \notin ListSteps \ {"list_local"}
         \/ new = [entries |-> l.entries, out |-> l.out, read |-> l.read, moved |-> TRUE]
  PROVE  Sound(p, new, o)'
  <1>1. CASE new = l /\ UNCHANGED <<tips, head>>
    BY <1>1 DEF Sound, Gathering, Printing, Current, Fetched, IsCurrent, Differing, Shown, Local,
                IsLocal, HeadRef
  <1>2. CASE new = l /\ p \notin ListSteps \ {"list_local"}
    <2>1. p = "list_local" => Shown(l) = {}
      <3>1. ASSUME p = "list_local" PROVE l.out = << >> /\ {e.ref : e \in ToSet(l.entries)} = {}
        BY <3>1 DEF Sound, Gathering, Fetched
      <3>2. ToSet(<< >>) = {}
        BY DEF ToSet
      <3>3. QED
        BY <3>1, <3>2 DEF Shown
    <2>2. p = "list_local" => Current(p, new, o)'
      BY <1>2, <2>1 DEF Current, Shown
    <2>3. p = "list_local" => Gathering(p, new)'
      BY <1>2 DEF Sound, Gathering, Fetched, IsLocal
    <2>4. QED
      BY <1>2, <2>2, <2>3 DEF Sound, ListSteps
  <1>3. CASE new = [entries |-> l.entries, out |-> l.out, read |-> l.read, moved |-> TRUE]
    <2>1. /\ Record(new) /\ new.entries = l.entries /\ new.out = l.out /\ new.read = l.read
          /\ new.moved
      BY <1>3 DEF Record
    <2>2. Current(p, new, o)'
      BY <2>1 DEF Current
    <2>3. Gathering(p, l) => Gathering(p, new)'
      BY <2>1 DEF Gathering, Fetched, IsLocal
    <2>4. Shown(new) = Shown(l)
      BY <2>1 DEF Shown
    <2>5. Printing(l) => Printing(new)'
      BY <2>1, <2>4 DEF Printing
    <2>6. QED
      BY <2>1, <2>2, <2>3, <2>5 DEF Sound
  <1>4. QED
    BY <1>1, <1>2, <1>3

-----------------------------------------------------------------------------
(* The listings, step by step.                                             *)

\* Each listing is what it should be before its next step.
ListedInv ==
  /\ PerTerminal /\ listing = [t \in Terminals |-> listing[t]]
  /\ RefsInv
  /\ \A t \in Terminals : Sound(pc[t], listing[t], opt[t])

\* Nothing is listed yet.
LEMMA BlankIsSound ==
  ASSUME NEW p, p \notin ListSteps \ {"list_local"}, NEW o
  PROVE  Sound(p, NoListing, o)
  <1>1. PICK l : l = NoListing
    OBVIOUS
  <1>2. /\ l = [entries |-> << >>, out |-> << >>, read |-> {}, moved |-> FALSE]
        /\ l.entries = << >> /\ l.out = << >> /\ l.read = {}
    BY <1>1 DEF NoListing
  <1>3. Record(l)
    <2>1. l.moved = FALSE
      BY <1>2
    <2>2. QED
      BY <1>2, <2>1 DEF Record
  <1>4. ToSet(<< >>) = {} /\ << >> \in Seq({}) /\ Len(<< >>) = 0
    BY DEF ToSet
  <1>5. Entries(<< >>)
    BY <1>4 DEF Entries
  <1>6. p = "list_local" => Gathering(p, l)
    BY <1>2, <1>4 DEF Gathering, Fetched, ReadOf
  <1>7. Shown(l) = {}
    BY <1>2, <1>4 DEF Shown
  <1>8. p = "list_local" => Current(p, l, o)
    BY <1>7 DEF Current
  <1>9. QED
    BY <1>1, <1>2, <1>3, <1>5, <1>6, <1>8 DEF Sound, ListSteps

LEMMA InitListed == Init => ListedInv
  <1> SUFFICES ASSUME Init PROVE ListedInv
    OBVIOUS
  <1>1. /\ pc = [t \in Terminals |-> "idle"] /\ listing = [t \in Terminals |-> NoListing]
        /\ tips \in Starts /\ head \in {ref[2] : ref \in {r \in DOMAIN tips : IsLocal(r)}}
        /\ PerTerminal
    BY DEF Init, TerminalInit, ListInit, PerTerminal
  <1>2. RefsInv
    <2>1. PICK ref \in DOMAIN tips : IsLocal(ref) /\ head = ref[2]
      BY <1>1
    <2>2. DOMAIN tips \subseteq Refs
      BY <1>1, TerminalAssumption
    <2>3. ref = <<ref[1], ref[2]>>
      BY <2>2, RefsAre
    <2>4. HeadRef = ref
      BY <2>1, <2>3 DEF HeadRef, Local, IsLocal
    <2>5. QED
      BY <1>1, <2>2, <2>4 DEF RefsInv
  <1>3. \A t \in Terminals : Sound("idle", NoListing, opt[t])
    BY BlankIsSound DEF ListSteps
  <1>4. QED
    BY <1>1, <1>2, <1>3 DEF ListedInv

\* A command of terminal t that is no listing, or that starts or ends one.
Leaves(t) ==
  /\ pc' = [pc EXCEPT ![t] = pc'[t]] /\ opt' = [opt EXCEPT ![t] = opt'[t]]
  /\ UNCHANGED refs
  /\ \/ UNCHANGED listing /\ pc'[t] \notin ListSteps
     \/ /\ listing' = [listing EXCEPT ![t] = NoListing]
        /\ pc'[t] \notin ListSteps \ {"list_local"}

\* A ref moves.
Noticed ==
  /\ DOMAIN tips' = DOMAIN tips /\ HeadRef' \in DOMAIN tips' /\ Notice
  /\ \A t \in Terminals :
       \/ pc'[t] = pc[t] /\ opt'[t] = opt[t]
       \/ pc[t] \notin ListSteps /\ pc'[t] \notin ListSteps

\* A message that is committed moves the ref of its channel.
LEMMA MessageMovesRefs ==
  ASSUME NEW t \in Terminals, MessageStep(t)
  PROVE  DOMAIN tips' = DOMAIN tips /\ head' = head
  <1>1. CASE TruncateEditMsg(t) \/ OpenReply(t) \/ WriteReply(t) \/ WriteReplyFails(t)
    BY <1>1 DEF TruncateEditMsg, OpenReply, WriteReply, WriteReplyFails, refs
  <1>2. CASE LaunchEditor(t) \/ SaveDraft(t) \/ QuitEditor(t) \/ EditorFails(t)
    BY <1>2 DEF LaunchEditor, SaveDraft, QuitEditor, EditorFails, refs
  <1>3. CASE WipeReply(t) \/ ReadBack(t) \/ WipeEditMsg(t)
    BY <1>3 DEF WipeReply, ReadBack, WipeEditMsg, refs
  <1>4. CASE ReadFile(t) \/ ReadFileFails(t) \/ Encrypt(t) \/ EncryptFails(t)
    BY <1>4 DEF ReadFile, ReadFileFails, Encrypt, EncryptFails, refs
  <1>5. CASE WriteCommit(t) \/ WriteCommitFails(t) \/ KillMessage(t)
    BY <1>5 DEF WriteCommit, WriteCommitFails, KillMessage, refs
  <1>6. QED
    BY <1>1, <1>2, <1>3, <1>4, <1>5 DEF MessageStep

\* Where the options are parsed, the refs stay.
LEMMA StartLeaves ==
  ASSUME PerTerminal, NEW t \in Terminals, NEW args, Start(t, args)
  PROVE  Leaves(t) /\ PerTerminal'
  <1> USE DEF ListSteps
  <1>1. CASE MainEnds(t, args) /\ UNCHANGED <<refs, messageVars, listing>>
    BY <1>1, ParsedMoves DEF MainEnds, Leaves
  <1>2. CASE StartRead(t, args) /\ UNCHANGED <<refs, messageVars, listing>>
    <2>1. \E p, s : Parsed(t, args, p, "idle", s)
      BY <1>2 DEF StartRead
    <2>2. QED
      BY <1>2, <2>1, ParsedMoves DEF Leaves
  <1>3. CASE StartMessage(t, args) /\ UNCHANGED listing
    <2>1. pc' = [pc EXCEPT ![t] = pc'[t]] /\ opt' = [opt EXCEPT ![t] = opt'[t]] /\ PerTerminal'
          /\ pc'[t] \in {"idle", "read_file", "encrypt", "truncate"}
      BY <1>3, MessageStarts DEF Elsewhere
    <2>2. UNCHANGED refs
      BY <1>3 DEF StartMessage, refs
    <2>3. QED
      BY <1>3, <2>1, <2>2 DEF Leaves
  <1>4. CASE ChannelEnds(t, args) /\ UNCHANGED messageVars
    BY <1>4, ParsedMoves DEF ChannelEnds, Leaves, refs
  <1>5. CASE StartList(t, args) /\ UNCHANGED messageVars
    <2> DEFINE p == Parse(ListOptions, Tail(ChannelParse(args).left), FALSE, TRUE)
    <2> HIDE DEF p
    <2>1. \E to \in {"idle", "list_local"} : \E s : Parsed(t, args, p, to, s)
      BY <1>5 DEF StartList, p
    <2>2. listing' = [listing EXCEPT ![t] = NoListing] /\ UNCHANGED refs
      BY <1>5 DEF StartList
    <2>3. QED
      BY <2>1, <2>2, ParsedMoves DEF Leaves
  <1>6. QED
    BY <1>1, <1>2, <1>3, <1>4, <1>5 DEF Start

\* What another git command moves.
LEMMA MovesKeep ==
  ASSUME RefsInv, Moves
  PROVE  DOMAIN tips' = DOMAIN tips /\ HeadRef' \in DOMAIN tips'
  <1>1. PICK ref \in Refs : Publish(ref) \/ Fetch(ref) \/ Merge(ref) \/ Switch(ref[2])
    BY DEF Moves
  <1>2. CASE Publish(ref) \/ Fetch(ref) \/ Merge(ref)
    BY <1>2 DEF Publish, Fetch, Merge, RefsInv, HeadRef, Local
  <1>3. CASE Switch(ref[2])
    BY <1>3 DEF Switch, HeadRef, Local
  <1>4. QED
    BY <1>1, <1>2, <1>3

\* What a step is to a listing: one of its own, another command's, or the move
\* of a ref.
LEMMA ListKinds ==
  ASSUME ListedInv, [Next]_vars
  PROVE  \/ \E t \in Terminals : ListStep(t) \/ (Leaves(t) /\ PerTerminal')
         \/ Noticed /\ PerTerminal'
         \/ UNCHANGED <<pc, opt, refs, listing>>
  <1>0. PerTerminal /\ RefsInv
    BY DEF ListedInv
  <1>1. ASSUME NEW t \in Terminals, StartSide(t) \/ StartAlone(t)
        PROVE  Leaves(t) /\ PerTerminal'
    <2>1. PICK args : Start(t, args)
      BY <1>1 DEF StartSide, StartAlone
    <2>2. QED
      BY <1>0, <2>1, StartLeaves
  <1>2. ASSUME NEW t \in Terminals, Message(t)
        PROVE  (Leaves(t) /\ PerTerminal') \/ (Noticed /\ PerTerminal')
    <2>1. MessageStep(t)
      BY <1>2 DEF Message
    <2>2. /\ pc[t] \in MessageSteps /\ pc'[t] \in MessageSteps \cup {"idle"}
          /\ pc' = [pc EXCEPT ![t] = pc'[t]]
          /\ \A u \in Terminals : u # t => pc'[u] = pc[u]
          /\ opt' = opt /\ PerTerminal'
      BY <1>0, <2>1, MessageMoves
    <2>3. DOMAIN tips' = DOMAIN tips /\ head' = head
      BY <2>1, MessageMovesRefs
    <2>4. pc[t] \notin ListSteps /\ pc'[t] \notin ListSteps
      BY <2>2, StepSets DEF ListSteps
    <2>5. CASE tips' = tips /\ UNCHANGED listing
      <3>1. opt' = [opt EXCEPT ![t] = opt'[t]]
        BY <1>0, <2>2 DEF PerTerminal
      <3>2. QED
        BY <2>2, <2>3, <2>4, <2>5, <3>1 DEF Leaves, refs
    <2>6. CASE Notice
      <3>1. HeadRef' \in DOMAIN tips'
        BY <1>0, <2>3 DEF RefsInv, HeadRef, Local
      <3>2. QED
        BY <2>2, <2>3, <2>4, <2>6, <3>1 DEF Noticed
    <2>7. QED
      BY <1>2, <2>5, <2>6 DEF Message
  <1>3. ASSUME NEW t \in Terminals, StopList(t) PROVE Leaves(t) /\ PerTerminal'
    <2>1. Ends(t, "failed") /\ UNCHANGED <<refs, listing>>
      BY <1>3 DEF StopList, KillList
    <2>2. pc' = [pc EXCEPT ![t] = "idle"] /\ opt' = opt
      BY <2>1 DEF Ends
    <2>3. pc'[t] = "idle" /\ opt' = [opt EXCEPT ![t] = opt'[t]] /\ PerTerminal'
      BY <1>0, <2>2 DEF PerTerminal
    <2>4. QED
      BY <2>1, <2>2, <2>3 DEF Leaves, ListSteps
  <1>4. ASSUME Move PROVE Noticed /\ PerTerminal'
    <2>1. Moves /\ Notice /\ UNCHANGED <<pc, opt>>
      BY <1>4 DEF Move, control
    <2>2. QED
      BY <1>0, <2>1, MovesKeep DEF Noticed, PerTerminal
  <1>5. UNCHANGED vars => UNCHANGED <<pc, opt, refs, listing>>
    BY DEF vars, control
  <1>6. Next => \/ \E t \in Terminals : StartSide(t) \/ StartAlone(t)
                \/ \E t \in Terminals : Message(t)
                \/ \E t \in Terminals : ListStep(t)
                \/ \E t \in Terminals : StopList(t)
                \/ Move
    BY DEF Next, List
  <1>7. ASSUME NEW t \in Terminals, StartSide(t) \/ StartAlone(t) \/ StopList(t)
        PROVE  \E u \in Terminals : ListStep(u) \/ (Leaves(u) /\ PerTerminal')
    BY <1>1, <1>3, <1>7
  <1>8. ASSUME NEW t \in Terminals, Message(t)
        PROVE  \/ \E u \in Terminals : ListStep(u) \/ (Leaves(u) /\ PerTerminal')
               \/ Noticed /\ PerTerminal'
    BY <1>2, <1>8
  <1>9. CASE UNCHANGED vars
    BY <1>5, <1>9
  <1>10. CASE Next
    <2>1. CASE \E t \in Terminals : StartSide(t) \/ StartAlone(t)
      BY <1>7, <2>1
    <2>2. CASE \E t \in Terminals : Message(t)
      BY <1>8, <2>2
    <2>3. ASSUME NEW t \in Terminals, ListStep(t)
          PROVE  \E u \in Terminals : ListStep(u) \/ (Leaves(u) /\ PerTerminal')
      BY <2>3
    <2>4. CASE \E t \in Terminals : StopList(t)
      BY <1>7, <2>4
    <2>5. CASE Move
      BY <1>4, <2>5
    <2>6. QED
      BY <1>6, <1>10, <2>1, <2>2, <2>3, <2>4, <2>5
  <1>11. QED
    BY <1>9, <1>10

\* The listing of one terminal takes a step; those of the others stay.
LEMMA OneIsSound ==
  ASSUME ListedInv, NEW t \in Terminals, PerTerminal',
         \A u \in Terminals : u # t => pc'[u] = pc[u], opt' = opt, UNCHANGED refs,
         NEW new, listing' = [listing EXCEPT ![t] = new], Sound(pc'[t], new, opt[t])
  PROVE  ListedInv'
  <1>1. listing' = [u \in Terminals |-> listing'[u]] /\ listing'[t] = new
        /\ \A u \in Terminals : u # t => listing'[u] = listing[u]
    BY DEF ListedInv
  <1>2. UNCHANGED <<tips, head>>
    BY DEF refs
  <1>3. RefsInv'
    BY <1>2 DEF ListedInv, RefsInv, HeadRef, Local
  <1>4. ASSUME NEW u \in Terminals PROVE Sound(pc[u], listing[u], opt[u])'
    <2>1. CASE u = t
      <3>1. PICK o : o = opt[t]
        OBVIOUS
      <3>2. PICK p : p = pc'[t]
        OBVIOUS
      <3>3. Sound(p, new, o)'
        BY <1>2, <3>1, <3>2, StaysSound
      <3>4. QED
        BY <1>1, <2>1, <3>1, <3>2, <3>3
    <2>2. CASE u # t
      <3>1. PICK p, l, o : p = pc[u] /\ l = listing[u] /\ o = opt[u]
        OBVIOUS
      <3>2. Sound(p, l, o)
        BY <3>1 DEF ListedInv
      <3>3. Sound(p, l, o)'
        BY <1>2, <3>2, StaysSound
      <3>4. QED
        BY <1>1, <2>2, <3>1, <3>3
    <2>3. QED
      BY <2>1, <2>2
  <1>5. QED
    BY <1>1, <1>3, <1>4 DEF ListedInv

\* One field of a record is set.
LEMMA FieldsSet ==
  ASSUME NEW e, NEW o, NEW r, NEW m, NEW x, NEW l,
         l = [entries |-> e, out |-> o, read |-> r, moved |-> m]
  PROVE  /\ [l EXCEPT !.entries = x] = [entries |-> x, out |-> o, read |-> r, moved |-> m]
         /\ [l EXCEPT !.out = x] = [entries |-> e, out |-> x, read |-> r, moved |-> m]
         /\ [l EXCEPT !.read = x] = [entries |-> e, out |-> o, read |-> x, moved |-> m]
  OBVIOUS

\* A fetch sets two fields of the record.
LEMMA FetchSets ==
  ASSUME ListedInv, NEW t \in Terminals, NEW S, FetchChannels(t, S),
         NEW l, l = listing[t]
  PROVE  listing' = [listing EXCEPT ![t] = WithFetched(l, S)]
  <1>1. PICK a : a = Insertions(ForEachRef(S))
    OBVIOUS
  <1>2. PICK rd : rd = {<<ref, tips[ref]>> : ref \in S}
    OBVIOUS
  <1>3. listing' = [listing EXCEPT ![t].entries = a \o @, ![t].read = @ \cup rd]
    BY <1>1, <1>2 DEF FetchChannels
  <1>4. listing = [u \in Terminals |-> listing[u]] /\ Record(l)
    BY DEF ListedInv, Sound
  <1>5. listing' = [listing EXCEPT ![t] = [[l EXCEPT !.entries = a \o @] EXCEPT !.read = @ \cup rd]]
    BY <1>3, <1>4
  <1>6. [[l EXCEPT !.entries = a \o @] EXCEPT !.read = @ \cup rd] =
          [entries |-> a \o l.entries, out |-> l.out, read |-> l.read \cup rd, moved |-> l.moved]
    <2>1. PICK m : m = [l EXCEPT !.entries = a \o @]
      OBVIOUS
    <2>2. m = [entries |-> a \o l.entries, out |-> l.out, read |-> l.read, moved |-> l.moved]
      BY <1>4, <2>1 DEF Record
    <2>3. PICK es, out, old, moved :
            es = a \o l.entries /\ out = l.out /\ old = l.read /\ moved = l.moved
      OBVIOUS
    <2>4. m = [entries |-> es, out |-> out, read |-> old, moved |-> moved]
      BY <2>2, <2>3
    <2>5. m.read = old
      BY <2>4
    <2>6. PICK x : x = old \cup rd
      OBVIOUS
    <2>7. [m EXCEPT !.read = x] = [entries |-> es, out |-> out, read |-> x, moved |-> moved]
      BY <2>4, FieldsSet
    <2>8. QED
      BY <2>1, <2>3, <2>5, <2>6, <2>7
  <1>7. QED
    BY <1>1, <1>2, <1>5, <1>6 DEF WithFetched

\* The printing of a group does, too.
LEMMA PrintSets ==
  ASSUME ListedInv, NEW t \in Terminals, NEW origin, PrintChannels(t, origin),
         NEW l, l = listing[t]
  PROVE  listing' = [listing EXCEPT ![t] = WithPrinted(l, origin)]
  <1>1. PICK g : g = [origin |-> origin, rows |-> Of(l.entries, origin)]
    OBVIOUS
  <1>2. PICK rest : rest = AtPlaces(l.entries,
                             {i \in DOMAIN l.entries : l.entries[i].ref[1] # origin})
    OBVIOUS
  <1>3. listing' = [listing EXCEPT ![t].out = Append(@, g), ![t].entries = rest]
    BY <1>1, <1>2 DEF PrintChannels
  <1>4. listing = [u \in Terminals |-> listing[u]] /\ Record(l)
    BY DEF ListedInv, Sound
  <1>5. listing' = [listing EXCEPT ![t] = [[l EXCEPT !.out = Append(@, g)] EXCEPT !.entries = rest]]
    BY <1>3, <1>4
  <1>6. [[l EXCEPT !.out = Append(@, g)] EXCEPT !.entries = rest] =
          [entries |-> rest, out |-> Append(l.out, g), read |-> l.read, moved |-> l.moved]
    <2>1. PICK m : m = [l EXCEPT !.out = Append(@, g)]
      OBVIOUS
    <2>2. m = [entries |-> l.entries, out |-> Append(l.out, g), read |-> l.read, moved |-> l.moved]
      BY <1>4, <2>1 DEF Record
    <2>3. PICK es, out, rd, moved :
            es = l.entries /\ out = Append(l.out, g) /\ rd = l.read /\ moved = l.moved
      OBVIOUS
    <2>4. m = [entries |-> es, out |-> out, read |-> rd, moved |-> moved]
      BY <2>2, <2>3
    <2>5. [m EXCEPT !.entries = rest] = [entries |-> rest, out |-> out, read |-> rd, moved |-> moved]
      BY <2>4, FieldsSet
    <2>6. QED
      BY <2>1, <2>3, <2>5
  <1>7. QED
    BY <1>1, <1>2, <1>5, <1>6 DEF WithPrinted

\* A command that is no listing, or that starts or ends one.
LEMMA LeavesSound ==
  ASSUME ListedInv, NEW t \in Terminals, Leaves(t), PerTerminal'
  PROVE  ListedInv'
  <1>1. UNCHANGED <<tips, head>>
    BY DEF Leaves, refs
  <1>2. /\ listing' = [u \in Terminals |-> listing'[u]]
        /\ \A u \in Terminals : u # t =>
             listing'[u] = listing[u] /\ pc'[u] = pc[u] /\ opt'[u] = opt[u]
    BY DEF Leaves, ListedInv, PerTerminal
  <1>3. RefsInv'
    BY <1>1 DEF ListedInv, RefsInv, HeadRef, Local
  <1>4. PICK p, l, o : p = pc'[t] /\ l = listing'[t] /\ o = opt'[t]
    OBVIOUS
  <1>5. Sound(p, l, o)
    <2>1. CASE UNCHANGED listing /\ pc'[t] \notin ListSteps
      <3>1. Record(l) /\ Entries(l.entries)
        BY <1>4, <2>1 DEF ListedInv, Sound
      <3>2. QED
        BY <1>4, <2>1, <3>1 DEF Sound, ListSteps
    <2>2. CASE listing' = [listing EXCEPT ![t] = NoListing]
               /\ pc'[t] \notin ListSteps \ {"list_local"}
      <3>1. l = NoListing
        BY <1>4, <2>2 DEF ListedInv
      <3>2. QED
        BY <1>4, <2>2, <3>1, BlankIsSound
    <2>3. QED
      BY <2>1, <2>2 DEF Leaves
  <1>6. Sound(p, l, o)'
    BY <1>1, <1>5, StaysSound
  <1>7. ASSUME NEW u \in Terminals, u # t PROVE Sound(pc[u], listing[u], opt[u])'
    <2>1. PICK q, k, r : q = pc[u] /\ k = listing[u] /\ r = opt[u]
      OBVIOUS
    <2>2. Sound(q, k, r)'
      BY <1>1, <2>1, StaysSound DEF ListedInv
    <2>3. QED
      BY <1>2, <1>7, <2>1, <2>2
  <1>8. QED
    BY <1>2, <1>3, <1>4, <1>6, <1>7 DEF ListedInv

\* A ref moves.
LEMMA NoticedSound ==
  ASSUME ListedInv, Noticed, PerTerminal'
  PROVE  ListedInv'
  <1>1. /\ DOMAIN tips' = DOMAIN tips /\ HeadRef' \in DOMAIN tips' /\ Notice
        /\ \A t \in Terminals :
             \/ pc'[t] = pc[t] /\ opt'[t] = opt[t]
             \/ pc[t] \notin ListSteps /\ pc'[t] \notin ListSteps
    BY DEF Noticed
  <1>2. listing' = [t \in Terminals |-> listing'[t]]
    BY <1>1 DEF Notice
  <1>3. RefsInv'
    BY <1>1 DEF ListedInv, RefsInv
  <1>4. ASSUME NEW t \in Terminals PROVE Sound(pc[t], listing[t], opt[t])'
    <2>1. PICK p, l, o : p = pc[t] /\ l = listing[t] /\ o = opt[t]
      OBVIOUS
    <2>2. Sound(p, l, o)
      BY <2>1 DEF ListedInv
    <2>3. PICK new : new = listing'[t]
      OBVIOUS
    <2>4. \/ new = l /\ p \notin ListSteps \ {"list_local"}
          \/ new = [entries |-> l.entries, out |-> l.out, read |-> l.read, moved |-> TRUE]
      <3>1. CASE pc[t] \in ListSteps \ {"list_local"}
        <4>1. new = [l EXCEPT !.moved = TRUE]
          BY <1>1, <2>1, <2>3, <3>1 DEF Notice
        <4>2. QED
          BY <2>2, <4>1 DEF Sound, Record
      <3>2. CASE pc[t] \notin ListSteps \ {"list_local"}
        BY <1>1, <2>1, <2>3, <3>2 DEF Notice
      <3>3. QED
        BY <3>1, <3>2
    <2>5. Sound(p, new, o)'
      BY <1>1, <2>2, <2>4, StaysSound
    <2>6. CASE pc'[t] = pc[t] /\ opt'[t] = opt[t]
      BY <2>1, <2>3, <2>5, <2>6
    <2>7. CASE pc[t] \notin ListSteps /\ pc'[t] \notin ListSteps
      <3>1. PICK q, r : q = pc'[t] /\ r = opt'[t]
        OBVIOUS
      <3>2. (Record(new) /\ Entries(new.entries))'
        BY <2>5 DEF Sound
      <3>3. Sound(q, new, r)'
        BY <2>7, <3>1, <3>2 DEF Sound, ListSteps
      <3>4. QED
        BY <2>3, <3>1, <3>3
    <2>8. QED
      BY <1>1, <2>6, <2>7
  <1>5. QED
    BY <1>2, <1>3, <1>4 DEF ListedInv

\* The steps of the listing itself.
LEMMA ListStepSound ==
  ASSUME ListedInv, NEW t \in Terminals, ListStep(t)
  PROVE  ListedInv'
  <1>0. /\ PerTerminal /\ RefsInv /\ listing = [u \in Terminals |-> listing[u]]
        /\ Sound(pc[t], listing[t], opt[t])
    BY DEF ListedInv
  <1>1. PICK l, o : l = listing[t] /\ o = opt[t]
    OBVIOUS
  <1>2. Record(l) /\ Entries(l.entries)
    BY <1>0, <1>1 DEF Sound
  <1>m. ASSUME NEW from, NEW to, Step(t, from, to)
        PROVE  /\ pc[t] = from /\ pc'[t] = to /\ opt' = opt /\ PerTerminal'
               /\ \A u \in Terminals : u # t => pc'[u] = pc[u]
    BY <1>0, <1>m, StepMoves
  <1>3. CASE ListLocal(t)
    <2>1. PICK S : S = {ref \in DOMAIN tips : IsLocal(ref)}
      OBVIOUS
    <2>2. Step(t, "list_local", "list_remote") /\ FetchChannels(t, S) /\ UNCHANGED refs
      BY <1>3, <2>1 DEF ListLocal
    <2>3. PICK new : new = WithFetched(l, S)
      OBVIOUS
    <2>4. listing' = [listing EXCEPT ![t] = new]
      BY <1>1, <2>2, <2>3, FetchSets
    <2>5. Sound("list_remote", new, o)
      <3>1. Sound("list_local", l, o)
        BY <1>0, <1>1, <1>m, <2>2
      <3>2. QED
        BY <1>0, <2>1, <2>3, <3>1, FetchIsSound
    <2>6. QED
      BY <1>1, <1>m, <2>2, <2>4, <2>5, OneIsSound
  <1>4. CASE ListRemote(t)
    <2>1. PICK S : S = {ref \in DOMAIN tips : ~IsLocal(ref)}
      OBVIOUS
    <2>2. Step(t, "list_remote", "list_filter") /\ FetchChannels(t, S) /\ UNCHANGED refs
      BY <1>4, <2>1 DEF ListRemote
    <2>3. PICK new : new = WithFetched(l, S)
      OBVIOUS
    <2>4. listing' = [listing EXCEPT ![t] = new]
      BY <1>1, <2>2, <2>3, FetchSets
    <2>5. Sound("list_filter", new, o)
      <3>1. Sound("list_remote", l, o)
        BY <1>0, <1>1, <1>m, <2>2
      <3>2. QED
        BY <1>0, <2>1, <2>3, <3>1, FetchIsSound
    <2>6. QED
      BY <1>1, <1>m, <2>2, <2>4, <2>5, OneIsSound
  <1>5. CASE FilterChannels(t)
    <2>1. PICK left : left = IF IsGiven(o, "all") THEN l.entries ELSE Filtered(l.entries)
      OBVIOUS
    <2>2. /\ Step(t, "list_filter", "print_local") /\ UNCHANGED refs
          /\ listing' = [listing EXCEPT ![t].entries = Sorted(left)]
      BY <1>1, <1>5, <2>1 DEF FilterChannels
    <2>3. PICK new : new = WithSorted(l, left)
      OBVIOUS
    <2>4. listing' = [listing EXCEPT ![t] = new]
      <3>1. PICK r : r = Sorted(left)
        OBVIOUS
      <3>2. listing' = [listing EXCEPT ![t] = [l EXCEPT !.entries = r]]
        BY <1>0, <1>1, <2>2, <3>1
      <3>3. PICK es, out, rd, moved :
              es = l.entries /\ out = l.out /\ rd = l.read /\ moved = l.moved
        OBVIOUS
      <3>4. l = [entries |-> es, out |-> out, read |-> rd, moved |-> moved]
        BY <1>2, <3>3 DEF Record
      <3>5. [l EXCEPT !.entries = r] = [entries |-> r, out |-> out, read |-> rd, moved |-> moved]
        BY <3>4, FieldsSet
      <3>6. QED
        BY <2>3, <3>1, <3>2, <3>3, <3>5 DEF WithSorted
    <2>5. Sound("print_local", new, o)
      BY <1>0, <1>1, <1>m, <2>1, <2>2, <2>3, FilterIsSound
    <2>6. Sound(pc'[t], new, opt[t])
      BY <1>1, <1>m, <2>2, <2>5
    <2>7. QED
      BY <1>m, <2>2, <2>4, <2>6, OneIsSound
  <1>6. ASSUME NEW p \in {"print_local", "print_remote"}, NEW origin, Sound(p, l, o),
               Step(t, p, "print_remote"), PrintChannels(t, origin), UNCHANGED refs,
               \A g \in ToSet(l.out) : g.origin # origin
        PROVE  ListedInv'
    <2>1. PICK new : new = WithPrinted(l, origin)
      OBVIOUS
    <2>2. listing' = [listing EXCEPT ![t] = new]
      BY <1>1, <1>6, <2>1, PrintSets
    <2>3. Sound("print_remote", new, o)
      BY <1>6, <2>1, PrintIsSound
    <2>4. QED
      BY <1>1, <1>m, <1>6, <2>2, <2>3, OneIsSound
  <1>7. CASE PrintLocal(t)
    <2>1. /\ Step(t, "print_local", "print_remote") /\ PrintChannels(t, None) /\ UNCHANGED refs
          /\ pc[t] = "print_local"
      BY <1>7, <1>m DEF PrintLocal
    <2>2. l.out = << >> /\ Sound("print_local", l, o)
      BY <1>0, <1>1, <2>1 DEF Sound
    <2>3. ToSet(l.out) = {}
      BY <2>2 DEF ToSet
    <2>4. QED
      BY <1>6, <2>1, <2>2, <2>3
  <1>8. CASE PrintRemote(t)
    <2>1. PICK e : e = Head(l.entries)
      OBVIOUS
    <2>2. /\ Step(t, "print_remote", "print_remote") /\ PrintChannels(t, e.ref[1])
          /\ UNCHANGED refs /\ pc[t] = "print_remote" /\ l.entries # << >>
      BY <1>1, <1>8, <1>m, <2>1 DEF PrintRemote
    <2>3. e \in ToSet(l.entries)
      <3>1. PICK es : es = l.entries
        OBVIOUS
      <3>2. es \in Seq(ToSet(es)) /\ es # << >>
        BY <1>2, <2>2, <3>1 DEF Entries
      <3>3. Head(es) \in ToSet(es)
        BY <3>2
      <3>4. QED
        BY <2>1, <3>1, <3>3
    <2>4. Sound("print_remote", l, o)
      BY <1>0, <1>1, <2>2
    <2>5. \A g \in ToSet(l.out) : g.origin # e.ref[1]
      BY <2>3, <2>4 DEF Sound, Printing
    <2>6. QED
      BY <1>6, <2>2, <2>4, <2>5
  <1>9. CASE ListDone(t) \/ ListCrashes(t)
    <2>1. (\E s : Ends(t, s)) /\ UNCHANGED <<refs, listing>>
      BY <1>9 DEF ListDone, ListCrashes
    <2>2. pc' = [pc EXCEPT ![t] = "idle"] /\ opt' = opt
      BY <2>1 DEF Ends
    <2>3. pc'[t] = "idle" /\ opt' = [opt EXCEPT ![t] = opt'[t]] /\ PerTerminal'
      BY <1>0, <2>2 DEF PerTerminal
    <2>4. Leaves(t)
      BY <2>1, <2>2, <2>3 DEF Leaves, ListSteps
    <2>5. QED
      BY <2>3, <2>4, LeavesSound
  <1>10. QED
    BY <1>3, <1>4, <1>5, <1>7, <1>8, <1>9 DEF ListStep

LEMMA ListedStep == ListedInv /\ [Next]_vars => ListedInv'
  <1> SUFFICES ASSUME ListedInv, [Next]_vars PROVE ListedInv'
    OBVIOUS
  <1>1. CASE UNCHANGED <<pc, opt, refs, listing>>
    <2>1. UNCHANGED <<pc, opt, tips, head, listing>>
      BY <1>1 DEF refs
    <2>2. RefsInv' /\ PerTerminal'
      BY <2>1 DEF ListedInv, RefsInv, HeadRef, Local, PerTerminal
    <2>3. ASSUME NEW t \in Terminals PROVE Sound(pc[t], listing[t], opt[t])'
      <3>1. PICK p, l, o : p = pc[t] /\ l = listing[t] /\ o = opt[t]
        OBVIOUS
      <3>2. Sound(p, l, o)'
        BY <2>1, <3>1, StaysSound DEF ListedInv
      <3>3. QED
        BY <2>1, <3>1, <3>2
    <2>4. QED
      BY <2>1, <2>2, <2>3 DEF ListedInv
  <1>2. QED
    BY <1>1, ListKinds, ListStepSound, LeavesSound, NoticedSound

\* The rows of a listing at its end, place by place.
LEMMA RowsAre ==
  ASSUME NEW t \in Terminals, Sound("print_remote", listing[t], opt[t]), Listed(t)
  PROVE  /\ \A p \in Printed(t) :
              /\ p = <<p[1], p[2]>> /\ p[1] \in DOMAIN listing[t].out
              /\ p[2] \in 1..Len(listing[t].out[p[1]].rows)
              /\ Group(listing[t].out[p[1]])
              /\ Row(t, p) = listing[t].out[p[1]].rows[p[2]]
              /\ Row(t, p).ref[1] = listing[t].out[p[1]].origin
         /\ Shown(listing[t]) = {Row(t, p) : p \in Printed(t)}
  <1>1. PICK l : l = listing[t]
    OBVIOUS
  <1>2. PICK out : out = l.out
    OBVIOUS
  <1>3. l.entries = << >> /\ Printing(l)
    BY <1>1 DEF Sound, Listed
  <1>4. \A g \in DOMAIN out : Group(out[g]) /\ DOMAIN out[g].rows = 1..Len(out[g].rows)
    <2> SUFFICES ASSUME NEW g \in DOMAIN out
                 PROVE  Group(out[g]) /\ DOMAIN out[g].rows = 1..Len(out[g].rows)
      OBVIOUS
    <2>1. out[g] \in ToSet(out)
      BY DEF ToSet
    <2>2. Group(out[g])
      BY <1>2, <1>3, <2>1 DEF Printing
    <2>3. PICK rows : rows = out[g].rows
      OBVIOUS
    <2>4. rows \in Seq(ToSet(rows))
      BY <2>2, <2>3 DEF Group, Entries
    <2>5. DOMAIN rows = 1..Len(rows)
      BY <2>4
    <2>6. QED
      BY <2>2, <2>3, <2>5
  <1>5. ASSUME NEW p \in Printed(t)
        PROVE  /\ p = <<p[1], p[2]>> /\ p[1] \in DOMAIN out
               /\ p[2] \in 1..Len(out[p[1]].rows)
    <2>1. PICK g \in DOMAIN out : \E k \in DOMAIN out[g].rows : p = <<g, k>>
      BY <1>1, <1>2 DEF Printed
    <2>2. PICK k \in DOMAIN out[g].rows : p = <<g, k>>
      BY <2>1
    <2>3. p[1] = g /\ p[2] = k
      BY <2>2
    <2>4. QED
      BY <1>4, <2>2, <2>3
  <1>6. \A p : Row(t, p) = out[p[1]].rows[p[2]]
    BY <1>1, <1>2 DEF Row
  <1>7. ASSUME NEW p \in Printed(t)
        PROVE  Group(out[p[1]]) /\ Row(t, p).ref[1] = out[p[1]].origin
    <2>1. PICK g : g = p[1]
      OBVIOUS
    <2>2. PICK rows : rows = out[g].rows
      OBVIOUS
    <2>3. g \in DOMAIN out /\ p[2] \in DOMAIN rows /\ Group(out[g])
      BY <1>4, <1>5, <2>1, <2>2
    <2>4. rows[p[2]] \in ToSet(rows)
      BY <2>3 DEF ToSet
    <2>5. rows[p[2]].ref[1] = out[g].origin
      BY <2>2, <2>3, <2>4 DEF Group
    <2>6. QED
      BY <1>6, <2>1, <2>2, <2>3, <2>5
  <1>8. Shown(l) = {Row(t, p) : p \in Printed(t)}
    <2>1. \A e : e \in Shown(l) <=> \E h \in ToSet(out) : e \in ToSet(h.rows)
      <3>1. ToSet(<< >>) = {}
        BY DEF ToSet
      <3>2. QED
        BY <1>2, <1>3, <3>1 DEF Shown
    <2>2. ASSUME NEW e \in Shown(l) PROVE \E p \in Printed(t) : e = Row(t, p)
      <3>1. PICK h \in ToSet(out) : e \in ToSet(h.rows)
        BY <2>1
      <3>2. PICK g \in DOMAIN out : h = out[g]
        BY <3>1 DEF ToSet
      <3>3. PICK k \in DOMAIN out[g].rows : e = out[g].rows[k]
        BY <3>1, <3>2 DEF ToSet
      <3>4. PICK p : p = <<g, k>>
        OBVIOUS
      <3>5. p[1] = g /\ p[2] = k
        BY <3>4
      <3>6. p \in Printed(t)
        BY <1>1, <1>2, <3>4 DEF Printed
      <3>7. QED
        BY <1>6, <3>3, <3>5, <3>6
    <2>3. ASSUME NEW p \in Printed(t) PROVE Row(t, p) \in Shown(l)
      <3>1. PICK g : g = p[1]
        OBVIOUS
      <3>2. PICK rows : rows = out[g].rows
        OBVIOUS
      <3>3. g \in DOMAIN out /\ p[2] \in DOMAIN rows
        BY <1>4, <1>5, <3>1, <3>2
      <3>4. rows[p[2]] \in ToSet(rows) /\ out[g] \in ToSet(out)
        BY <3>3 DEF ToSet
      <3>5. QED
        BY <1>6, <2>1, <3>1, <3>2, <3>4
    <2>4. QED
      BY <2>2, <2>3
  <1>9. QED
    BY <1>1, <1>2, <1>5, <1>6, <1>7, <1>8

\* However many remotes and channels there are, and however refs move while
\* they are listed: every ref that was read is printed, or its local channel
\* is, once, under its remote and in order.
THEOREM ChannelsAreListed == Spec => []EveryChannelIsListed
  <1>1. ListedInv => EveryChannelIsListed
    <2> SUFFICES ASSUME ListedInv, NEW t \in Terminals, Listed(t)
                 PROVE  /\ \A r \in listing[t].read : \E p \in Printed(t) :
                             Row(t, p).oid = r[2] /\ Row(t, p).ref \in {r[1], Local(r[1][2])}
                        /\ \A p, q \in Printed(t) : Row(t, p).ref = Row(t, q).ref => p = q
                        /\ \A p, q \in Printed(t) :
                             p[1] = q[1] /\ p[2] < q[2] => Before(Row(t, p), Row(t, q))
                        /\ \A p \in Printed(t) : Row(t, p).ref[1] = listing[t].out[p[1]].origin
                        /\ \A i, j \in DOMAIN listing[t].out :
                             listing[t].out[i].origin = listing[t].out[j].origin => i = j
      BY DEF EveryChannelIsListed
    <2>1. Sound("print_remote", listing[t], opt[t]) /\ Printing(listing[t])
      BY DEF ListedInv, Listed, Sound
    <2>2. PICK out : out = listing[t].out
      OBVIOUS
    <2>3. /\ \A p \in Printed(t) :
               /\ p = <<p[1], p[2]>> /\ p[1] \in DOMAIN out
               /\ p[2] \in 1..Len(out[p[1]].rows)
               /\ Group(out[p[1]])
               /\ Row(t, p) = out[p[1]].rows[p[2]]
               /\ Row(t, p).ref[1] = out[p[1]].origin
          /\ Shown(listing[t]) = {Row(t, p) : p \in Printed(t)}
      BY <2>1, <2>2, RowsAre
    <2>4. \A i, j \in DOMAIN out : out[i].origin = out[j].origin => i = j
      BY <2>1, <2>2 DEF Printing
    <2>5. \A r \in listing[t].read : \E p \in Printed(t) :
            Row(t, p).oid = r[2] /\ Row(t, p).ref \in {r[1], Local(r[1][2])}
      <3> SUFFICES ASSUME NEW r \in listing[t].read
                   PROVE  \E p \in Printed(t) :
                            Row(t, p).oid = r[2] /\ Row(t, p).ref \in {r[1], Local(r[1][2])}
        OBVIOUS
      <3>1. PICK e \in Shown(listing[t]) : e.oid = r[2] /\ e.ref \in {r[1], Local(r[1][2])}
        BY <2>1 DEF Printing
      <3>2. PICK p \in Printed(t) : e = Row(t, p)
        BY <2>3
      <3>3. QED
        BY <3>1, <3>2
    <2>6. ASSUME NEW p \in Printed(t), NEW q \in Printed(t), Row(t, p).ref = Row(t, q).ref
          PROVE  p = q
      <3>1. p[1] = q[1]
        BY <2>3, <2>4, <2>6
      <3>2. PICK rows : rows = out[p[1]].rows
        OBVIOUS
      <3>3. p[2] \in 1..Len(rows) /\ q[2] \in 1..Len(rows) /\ rows[p[2]].ref = rows[q[2]].ref
        BY <2>3, <2>6, <3>1, <3>2
      <3>4. Entries(rows)
        BY <2>3, <3>2 DEF Group
      <3>5. p[2] = q[2]
        BY <3>3, <3>4 DEF Entries
      <3>6. QED
        BY <2>3, <3>1, <3>5
    <2>7. ASSUME NEW p \in Printed(t), NEW q \in Printed(t), p[1] = q[1], p[2] < q[2]
          PROVE  Before(Row(t, p), Row(t, q))
      <3>1. PICK rows : rows = out[p[1]].rows
        OBVIOUS
      <3>2. /\ p[2] \in 1..Len(rows) /\ q[2] \in 1..Len(rows)
            /\ Row(t, p) = rows[p[2]] /\ Row(t, q) = rows[q[2]]
        BY <2>3, <2>7, <3>1
      <3>3. InOrder(rows)
        BY <2>3, <3>1 DEF Group
      <3>4. QED
        BY <2>7, <3>2, <3>3 DEF InOrder
    <2>8. QED
      BY <2>2, <2>3, <2>4, <2>5, <2>6, <2>7
  <1>2. QED
    BY <1>1, InitListed, ListedStep, PTL DEF Spec

\* If no ref moved while a listing was made, it shows, without --all, the local
\* channels and the remote ones that are not up to date with them, and it
\* marks the channel of HEAD, and no other.
THEOREM ListingsShowWhatDiffers == Spec => []ListShowsWhatDiffers
  <1>1. ListedInv => ListShowsWhatDiffers
    <2> SUFFICES ASSUME ListedInv, NEW t \in Terminals, Listed(t), ~listing[t].moved,
                        ~IsGiven(opt[t], "all")
                 PROVE  /\ {Row(t, p).ref : p \in Printed(t)} = Differing
                        /\ {Row(t, p).ref : p \in {q \in Printed(t) : Row(t, q).current}} = {HeadRef}
      BY DEF ListShowsWhatDiffers, Differing
    <2>1. /\ Sound("print_remote", listing[t], opt[t]) /\ RefsInv
          /\ Current("print_remote", listing[t], opt[t])
      BY DEF ListedInv, Listed, Sound, ListSteps
    <2>2. PICK shown : shown = Shown(listing[t])
      OBVIOUS
    <2>3. /\ shown = {Row(t, p) : p \in Printed(t)}
          /\ \A e \in shown : IsCurrent(e)
          /\ {e.ref : e \in shown} = Differing
      BY <2>1, <2>2, RowsAre DEF Current
    <2>4. {Row(t, p).ref : p \in Printed(t)} = Differing
      BY <2>3
    <2>5. HeadRef \in Differing
      BY <2>1 DEF RefsInv, Differing, HeadRef, Local, IsLocal
    <2>6. PICK h \in Printed(t) : Row(t, h).ref = HeadRef
      BY <2>4, <2>5
    <2>7. \A p \in Printed(t) : Row(t, p).current <=> Row(t, p).ref = HeadRef
      BY <2>3 DEF IsCurrent
    <2>8. h \in {q \in Printed(t) : Row(t, q).current}
      BY <2>6, <2>7
    <2>9. \A p \in {q \in Printed(t) : Row(t, q).current} : Row(t, p).ref = HeadRef
      BY <2>7
    <2>10. QED
      BY <2>4, <2>6, <2>8, <2>9
  <1>2. QED
    BY <1>1, InitListed, ListedStep, PTL DEF Spec

-----------------------------------------------------------------------------
(* The kinds of the variables.                                             *)

Statuses == {"none", "done", "failed", "crashed"}
Steps == {"idle"} \cup MessageSteps \cup ListSteps
EditorFiles == {"GC_EDITMSG", "GC_REPLY_LAST"}

\* The kinds of the other variables.
TypesInv ==
  /\ status = [t \in Terminals |-> status[t]]
  /\ \A t \in Terminals :
       pc[t] \in Steps /\ status[t] \in Statuses /\ msg[t].readers \subseteq Trusted
  /\ dirty \subseteq EditorFiles

LEMMA InitTypes == Init => TypesInv
  BY DEF Init, TerminalInit, MessageInit, TypesInv, Steps, Statuses, Blank

\* A terminal goes to a step and has a status.
Goes(t) ==
  /\ pc' = [pc EXCEPT ![t] = pc'[t]] /\ pc'[t] \in Steps
  /\ status' = [status EXCEPT ![t] = status'[t]] /\ status'[t] \in Statuses

LEMMA StepGoes ==
  ASSUME PerTerminal, TypesInv, NEW t \in Terminals, NEW to \in Steps, NEW s \in Statuses,
         \/ \E from : Step(t, from, to)
         \/ to = "idle" /\ Ends(t, s)
         \/ \E args, p : Parsed(t, args, p, to, s)
  PROVE  Goes(t)
  <1>1. status = [u \in Terminals |-> status[u]] /\ status[t] \in Statuses
        /\ pc = [u \in Terminals |-> pc[u]]
    BY DEF TypesInv, PerTerminal
  <1>2. pc' = [pc EXCEPT ![t] = to] /\ (status' = status \/ status' = [status EXCEPT ![t] = s])
    BY DEF Step, Ends, Parsed
  <1>3. QED
    BY <1>1, <1>2 DEF Goes

\* A command that is started.
LEMMA StartGoes ==
  ASSUME PerTerminal, TypesInv, NEW t \in Terminals, NEW args, Start(t, args)
  PROVE  Goes(t)
  <1>0. "idle" \in Steps /\ "list_local" \in Steps
        /\ \A s \in {"read_file", "encrypt", "truncate"} : s \in Steps
    BY DEF Steps, ListSteps, MessageSteps
  <1>1. \E p : \E to \in Steps, s \in Statuses : Parsed(t, args, p, to, s)
    <2>1. CASE MainEnds(t, args)
      <3>1. PICK p : p = MainParse(args)
        OBVIOUS
      <3>2. \E s \in {"done", "crashed", "failed"} : Parsed(t, args, p, "idle", s)
        BY <2>1, <3>1 DEF MainEnds
      <3>3. QED
        BY <1>0, <3>2 DEF Statuses
    <2>2. CASE StartRead(t, args)
      <3>1. PICK p : p = Parse(ReadOptions, MainParse(args).left, TRUE, TRUE)
        OBVIOUS
      <3>2. \E s \in {"done", "crashed", "failed"} : Parsed(t, args, p, "idle", s)
        BY <2>2, <3>1 DEF StartRead
      <3>3. QED
        BY <1>0, <3>2 DEF Statuses
    <2>3. CASE StartMessage(t, args)
      <3>1. PICK p : p = Parse(MessageOptions, MainParse(args).left, TRUE, TRUE)
        OBVIOUS
      <3>2. Source(p) \in {"read_file", "encrypt", "truncate"}
        BY DEF Source
      <3>3. \E to \in {"idle", Source(p)} : \E s \in {"done", "failed", "none"} :
              Parsed(t, args, p, to, s)
        BY <2>3, <3>1 DEF StartMessage
      <3>4. QED
        BY <1>0, <3>2, <3>3 DEF Statuses
    <2>4. CASE ChannelEnds(t, args)
      <3>1. PICK p : p = ChannelParse(args)
        OBVIOUS
      <3>2. \E s \in {"done", "failed"} : Parsed(t, args, p, "idle", s)
        BY <2>4, <3>1 DEF ChannelEnds
      <3>3. QED
        BY <1>0, <3>2 DEF Statuses
    <2>5. CASE StartList(t, args)
      <3>1. PICK p : p = Parse(ListOptions, Tail(ChannelParse(args).left), FALSE, TRUE)
        OBVIOUS
      <3>2. \E to \in {"idle", "list_local"} : \E s \in {"done", "failed", "none"} :
              Parsed(t, args, p, to, s)
        BY <2>5, <3>1 DEF StartList
      <3>3. QED
        BY <1>0, <3>2 DEF Statuses
    <2>6. QED
      BY <2>1, <2>2, <2>3, <2>4, <2>5 DEF Start
  <1>2. QED
    BY <1>1, StepGoes

\* A step of message.
LEMMA MessageGoes ==
  ASSUME PerTerminal, TypesInv, NEW t \in Terminals, MessageStep(t)
  PROVE  Goes(t)
  <1>1. PICK to \in Steps, s \in Statuses :
          \/ \E from : Step(t, from, to)
          \/ to = "idle" /\ Ends(t, s)
    <2> USE StepSets DEF Steps, Statuses
    <2>1. CASE TruncateEditMsg(t) \/ OpenReply(t) \/ WriteReply(t) \/ WriteReplyFails(t)
      BY <2>1 DEF TruncateEditMsg, OpenReply, WriteReply, WriteReplyFails
    <2>2. CASE LaunchEditor(t) \/ SaveDraft(t) \/ QuitEditor(t) \/ EditorFails(t)
      BY <2>2 DEF LaunchEditor, SaveDraft, QuitEditor, EditorFails
    <2>3. CASE WipeReply(t) \/ ReadBack(t) \/ WipeEditMsg(t)
      BY <2>3 DEF WipeReply, ReadBack, WipeEditMsg
    <2>4. CASE ReadFile(t) \/ ReadFileFails(t) \/ Encrypt(t) \/ EncryptFails(t)
      BY <2>4 DEF ReadFile, ReadFileFails, Encrypt, EncryptFails
    <2>5. CASE WriteCommit(t) \/ WriteCommitFails(t) \/ KillMessage(t)
      BY <2>5 DEF WriteCommit, WriteCommitFails, KillMessage
    <2>6. QED
      BY <2>1, <2>2, <2>3, <2>4, <2>5 DEF MessageStep
  <1>2. QED
    BY <1>1, StepGoes

\* A step of a listing.
LEMMA ListGoes ==
  ASSUME PerTerminal, TypesInv, NEW t \in Terminals, List(t) \/ StopList(t)
  PROVE  Goes(t)
  <1>1. PICK to \in Steps, s \in Statuses :
          \/ \E from : Step(t, from, to)
          \/ to = "idle" /\ Ends(t, s)
    BY DEF List, StopList, ListStep, KillList, ListLocal, ListRemote, FilterChannels, PrintLocal,
           PrintRemote, ListDone, ListCrashes, ListSteps, Steps, Statuses
  <1>2. QED
    BY <1>1, StepGoes

\* The files a command leaves behind are the editor's.
LEMMA MessageDirties ==
  ASSUME NEW t \in Terminals, MessageStep(t), dirty \subseteq EditorFiles
  PROVE  dirty' \subseteq EditorFiles
  <1> USE DEF EditorFiles
  <1>1. CASE TruncateEditMsg(t) \/ OpenReply(t) \/ WriteReply(t) \/ WriteReplyFails(t)
    BY <1>1 DEF TruncateEditMsg, OpenReply, WriteReply, WriteReplyFails
  <1>2. CASE LaunchEditor(t) \/ SaveDraft(t) \/ QuitEditor(t) \/ EditorFails(t)
    BY <1>2 DEF LaunchEditor, SaveDraft, QuitEditor, EditorFails, messageVars
  <1>3. CASE WipeReply(t) \/ ReadBack(t) \/ WipeEditMsg(t)
    BY <1>3 DEF WipeReply, ReadBack, WipeEditMsg
  <1>4. CASE ReadFile(t) \/ ReadFileFails(t) \/ Encrypt(t) \/ EncryptFails(t)
    BY <1>4 DEF ReadFile, ReadFileFails, Encrypt, EncryptFails
  <1>5. CASE WriteCommit(t) \/ WriteCommitFails(t) \/ KillMessage(t)
    BY <1>5 DEF WriteCommit, WriteCommitFails, KillMessage
  <1>6. QED
    BY <1>1, <1>2, <1>3, <1>4, <1>5 DEF MessageStep

\* A message is never for somebody who is not trusted.
LEMMA MessageTrusts ==
  ASSUME MeantInv, TypesInv, NEW t \in Terminals, MessageStep(t)
  PROVE  \A u \in Terminals : msg'[u].readers \subseteq Trusted
  <1>1. msg = [u \in Terminals |-> msg[u]] /\ Fields(msg[t]) /\ msg[t].readers \subseteq Trusted
    BY DEF MeantInv, TypesInv
  <1>2. PICK b : b = Blank
    OBVIOUS
  <1>3. b.readers = {}
    BY <1>2 DEF Blank
  <1>4. PICK m : m = msg[t]
    OBVIOUS
  <1>5. m = [shown |-> m.shown, vimOk |-> m.vimOk, buff |-> m.buff, readers |-> m.readers,
             meant |-> m.meant, disturbed |-> m.disturbed] /\ m.readers \subseteq Trusted
    BY <1>1, <1>4 DEF Fields
  <1>6. Readers(opt[t]) \subseteq Trusted
    BY DEF Readers
  <1>7. \/ msg' = msg
        \/ \E n : n.readers \subseteq Trusted /\ (Assign(t, n) \/ Disturb(t, n))
    <2>1. CASE TruncateEditMsg(t) \/ OpenReply(t) \/ WriteReply(t)
      BY <1>4, <1>5, <2>1 DEF TruncateEditMsg, OpenReply, WriteReply
    <2>2. CASE LaunchEditor(t)
      <3>1. PICK n : n = [m EXCEPT !.shown = editmsg]
        OBVIOUS
      <3>2. n.readers = m.readers
        BY <1>5, <3>1
      <3>3. Assign(t, n)
        BY <1>4, <2>2, <3>1 DEF LaunchEditor
      <3>4. QED
        BY <1>5, <3>2, <3>3
    <2>3. CASE SaveDraft(t)
      <3>1. PICK n : n = [m EXCEPT !.shown = Append(m.shown, t), !.meant = <<t>>]
        OBVIOUS
      <3>2. n.readers = m.readers
        BY <1>5, <3>1
      <3>3. Disturb(t, n)
        BY <1>4, <2>3, <3>1 DEF SaveDraft
      <3>4. QED
        BY <1>5, <3>2, <3>3
    <2>4. CASE QuitEditor(t)
      BY <2>4 DEF QuitEditor, messageVars
    <2>5. CASE EditorFails(t)
      <3>1. PICK n : n = [m EXCEPT !.vimOk = FALSE]
        OBVIOUS
      <3>2. n.readers = m.readers
        BY <1>5, <3>1
      <3>3. Assign(t, n) \/ Assign(t, b)
        BY <1>2, <1>4, <2>5, <3>1 DEF EditorFails
      <3>4. QED
        BY <1>3, <1>5, <3>2, <3>3
    <2>6. CASE WipeReply(t)
      BY <1>2, <1>3, <2>6 DEF WipeReply
    <2>7. CASE ReadBack(t)
      <3>1. PICK n : n = [m EXCEPT !.buff = editmsg]
        OBVIOUS
      <3>2. n.readers = m.readers
        BY <1>5, <3>1
      <3>3. Assign(t, n)
        BY <1>4, <2>7, <3>1 DEF ReadBack
      <3>4. QED
        BY <1>5, <3>2, <3>3
    <2>8. CASE WipeEditMsg(t)
      BY <1>4, <1>5, <2>8 DEF WipeEditMsg
    <2>9. CASE ReadFile(t)
      <3>1. PICK text \in FileTexts : Assign(t, [m EXCEPT !.buff = text, !.meant = text])
        BY <1>4, <2>9 DEF ReadFile
      <3>2. PICK n : n = [m EXCEPT !.buff = text, !.meant = text]
        OBVIOUS
      <3>3. n.readers = m.readers
        BY <1>5, <3>2
      <3>4. QED
        BY <1>5, <3>1, <3>2, <3>3
    <2>10. CASE Encrypt(t)
      <3>1. PICK r : r = Readers(opt[t])
        OBVIOUS
      <3>2. PICK n : n = [m EXCEPT !.readers = r]
        OBVIOUS
      <3>3. n.readers = r
        BY <1>5, <3>2
      <3>4. Assign(t, n)
        BY <1>4, <2>10, <3>1, <3>2 DEF Encrypt
      <3>5. QED
        BY <1>6, <3>1, <3>3, <3>4
    <2>11. CASE WriteReplyFails(t) \/ ReadFileFails(t) \/ EncryptFails(t)
      BY <1>2, <1>3, <2>11 DEF WriteReplyFails, ReadFileFails, EncryptFails
    <2>12. CASE WriteCommit(t) \/ WriteCommitFails(t) \/ KillMessage(t)
      BY <1>2, <1>3, <2>12 DEF WriteCommit, WriteCommitFails, KillMessage
    <2>13. QED
      BY <2>1, <2>2, <2>3, <2>4, <2>5, <2>6, <2>7, <2>8, <2>9, <2>10, <2>11, <2>12 DEF MessageStep
  <1>8. CASE msg' = msg
    BY <1>8 DEF TypesInv
  <1>9. ASSUME NEW n, n.readers \subseteq Trusted, Assign(t, n) \/ Disturb(t, n)
        PROVE  \A u \in Terminals : msg'[u].readers \subseteq Trusted
    <2>1. msg'[t] = n
      BY <1>1, <1>9 DEF Assign, Disturb
    <2>2. \A u \in Terminals : u # t => msg'[u].readers = msg[u].readers
      BY <1>9, ReadersStay
    <2>3. QED
      BY <1>9, <2>1, <2>2 DEF TypesInv
  <1>10. QED
    BY <1>7, <1>8, <1>9

LEMMA TypesStep == MeantInv /\ TypesInv /\ [Next]_vars => TypesInv'
  <1> SUFFICES ASSUME MeantInv, TypesInv, [Next]_vars PROVE TypesInv'
    OBVIOUS
  <1>1. PerTerminal
    BY DEF MeantInv
  <1>2. ASSUME NEW t \in Terminals, Goes(t)
        PROVE  /\ status' = [u \in Terminals |-> status'[u]]
               /\ \A u \in Terminals : pc'[u] \in Steps /\ status'[u] \in Statuses
    BY <1>1, <1>2 DEF Goes, TypesInv, PerTerminal
  <1>3. ASSUME NEW t \in Terminals, Goes(t), dirty' \subseteq EditorFiles,
               \A u \in Terminals : msg'[u].readers \subseteq Trusted
        PROVE  TypesInv'
    BY <1>2, <1>3 DEF TypesInv
  <1>4. ASSUME NEW t \in Terminals, StartSide(t) \/ StartAlone(t) PROVE TypesInv'
    <2>1. PICK args : Start(t, args)
      BY <1>4 DEF StartSide, StartAlone
    <2>2. Goes(t)
      BY <1>1, <2>1, StartGoes
    <2>3. dirty' = dirty /\ \A u \in Terminals : msg'[u].readers \subseteq Trusted
      <3>1. CASE StartMessage(t, args)
        <4>1. PICK g : g = Given(opt'[t])
          OBVIOUS
        <4>2. PICK n : n = [Blank EXCEPT !.buff = g, !.meant = g]
          OBVIOUS
        <4>3. n.readers = {}
          BY <4>2 DEF Blank
        <4>4. dirty' = dirty /\ msg' = [msg EXCEPT ![t] = n]
          BY <1>1, <3>1, <4>1, <4>2, MessageStarts DEF Elsewhere
        <4>5. \A u \in Terminals : msg'[u] = n \/ msg'[u] = msg[u]
          BY <4>4 DEF MeantInv
        <4>6. QED
          BY <4>3, <4>4, <4>5 DEF TypesInv
      <3>2. CASE ~StartMessage(t, args)
        BY <1>1, <2>1, <3>2, StartsElsewhere DEF Elsewhere, TypesInv
      <3>3. QED
        BY <3>1, <3>2
    <2>4. QED
      BY <1>3, <2>2, <2>3 DEF TypesInv
  <1>5. ASSUME NEW t \in Terminals, Message(t) PROVE TypesInv'
    <2>1. MessageStep(t)
      BY <1>5 DEF Message
    <2>2. QED
      BY <1>1, <1>3, <2>1, MessageGoes, MessageDirties, MessageTrusts DEF TypesInv
  <1>6. ASSUME NEW t \in Terminals, List(t) \/ StopList(t) PROVE TypesInv'
    <2>1. Goes(t)
      BY <1>1, <1>6, ListGoes
    <2>2. UNCHANGED <<dirty, msg>>
      BY <1>6 DEF List, StopList, messageVars
    <2>3. QED
      BY <1>3, <2>1, <2>2 DEF TypesInv
  <1>7. ASSUME Move \/ UNCHANGED vars PROVE TypesInv'
    BY <1>7 DEF Move, vars, control, messageVars, TypesInv
  <1>8. QED
    BY <1>4, <1>5, <1>6, <1>7 DEF Next

\* The kinds of the variables, and what is blank outside a command.
THEOREM CommandTypes == Spec => []TypeOK
  <1>1. ListedInv /\ TypesInv => TypeOK
    <2> SUFFICES ASSUME ListedInv, TypesInv PROVE TypeOK
      OBVIOUS
    <2>1. ASSUME NEW t \in Terminals
          PROVE  /\ pc[t] \in ListSteps => listing[t].read # {} \/ pc[t] = "list_local"
                 /\ \A i \in DOMAIN listing[t].entries : listing[t].entries[i].ref \in Refs
      <3>1. PICK l : l = listing[t]
        OBVIOUS
      <3>2. Sound(pc[t], l, opt[t])
        BY <3>1 DEF ListedInv
      <3>3. \A i \in DOMAIN l.entries : l.entries[i].ref \in Refs
        <4>1. PICK es : es = l.entries
          OBVIOUS
        <4>2. Entries(es)
          BY <3>2, <4>1 DEF Sound
        <4>3. DOMAIN es = 1..Len(es)
          BY <4>2 DEF Entries
        <4>4. QED
          BY <4>1, <4>2, <4>3 DEF Entries
      <3>4. CASE pc[t] \in {"print_local", "print_remote"}
        BY <3>1, <3>2, <3>3, <3>4 DEF Sound, Printing
      <3>5. CASE pc[t] \in {"list_remote", "list_filter"}
        <4>1. l.read = ReadOf(ToSet(l.entries)) /\ {e.ref : e \in ToSet(l.entries)} = Fetched(pc[t])
          BY <3>2, <3>5 DEF Sound, Gathering
        <4>2. HeadRef \in Fetched(pc[t])
          BY <3>5 DEF ListedInv, RefsInv, Fetched, HeadRef, Local, IsLocal
        <4>3. \E e \in ToSet(l.entries) : TRUE
          BY <4>1, <4>2
        <4>4. l.read # {}
          BY <4>1, <4>3 DEF ReadOf
        <4>5. QED
          BY <3>1, <3>3, <4>4
      <3>6. QED
        BY <3>1, <3>3, <3>4, <3>5 DEF ListSteps
    <2>2. QED
      BY <2>1 DEF TypeOK, TypesInv, Steps, Statuses, EditorFiles, ListedInv, RefsInv
  <1>2. QED
    BY <1>1, InitListed, ListedStep, InitMeant, MeantStep, InitTypes, TypesStep, PTL DEF Spec

-----------------------------------------------------------------------------
(* What is documented is understood: the turns of the loop.                *)

\* A parse that goes on with the first argument left, and one that is over.
Ready(s, left, given) ==
  s.left = left /\ s.at = 1 /\ s.given = given /\ ~s.over /\ ~s.crashed

Ended(s, left, given) ==
  s.left = left /\ s.at = 1 /\ s.given = given /\ s.over /\ ~s.crashed

\* No two rows of a table have the same flag.
Distinct(opts) ==
  /\ opts \in Seq(ToSet(opts))
  /\ \A i, j \in DOMAIN opts :
       /\ opts[i].long = opts[j].long /\ opts[i].long # None => i = j
       /\ opts[i].short = opts[j].short /\ opts[i].short # None => i = j

\* The arguments that are spelled.
LEMMA ArgsAre ==
  /\ \A v : Word(v).form = "word" /\ Word(v).text = v /\ Word(v).flags = << >>
  /\ \A n, v : /\ LongArg(n, v).form = "long" /\ LongArg(n, v).name = n
               /\ LongArg(n, v).value = v /\ LongArg(n, v).flags = << >>
  /\ \A f : Cluster(f).form = "short" /\ Cluster(f).flags = f
  /\ Dashes.form = "dashes" /\ Dashes.flags = << >>
  <1>1. \A v : Word(v).form = "word" /\ Word(v).text = v /\ Word(v).flags = << >>
    BY DEF Word, Arg
  <1>2. ASSUME NEW n, NEW v
        PROVE  /\ LongArg(n, v).form = "long" /\ LongArg(n, v).name = n
               /\ LongArg(n, v).value = v /\ LongArg(n, v).flags = << >>
    <2>1. PICK text : LongArg(n, v) = Long(text, n, v)
      BY DEF LongArg
    <2>2. QED
      BY <2>1 DEF Long, Arg
  <1>3. ASSUME NEW f PROVE Cluster(f).form = "short" /\ Cluster(f).flags = f
    <2>1. PICK text : Cluster(f) = Short(text, f)
      BY DEF Cluster
    <2>2. QED
      BY <2>1 DEF Short, Arg
  <1>4. QED
    BY <1>1, <1>2, <1>3 DEF Dashes, Arg

\* One argument, or two, in front of others.
LEMMA InFront ==
  ASSUME NEW A, NEW a \in A, NEW r \in Seq(A)
  PROVE  /\ <<a>> \o r \in Seq(A) /\ Len(<<a>> \o r) = Len(r) + 1 /\ (<<a>> \o r)[1] = a
         /\ SubSeq(<<a>> \o r, 1, 0) \o SubSeq(<<a>> \o r, 2, Len(<<a>> \o r)) = r
         /\ Tail(<<a>> \o r) = r
  <1>1. PICK s : s = <<a>> \o r
    OBVIOUS
  <1>2. s \in Seq(A) /\ Len(s) = Len(r) + 1 /\ s[1] = a /\ \A i \in 1..Len(r) : s[i + 1] = r[i]
    BY <1>1
  <1>3. SubSeq(s, 1, 0) = << >>
    BY <1>2
  <1>4. SubSeq(s, 2, Len(s)) = r
    <2>1. SubSeq(s, 2, Len(s)) \in Seq(A)
      BY <1>2
    <2>2. Len(SubSeq(s, 2, Len(s))) = Len(r)
      BY <1>2
    <2>3. \A i \in 1..Len(r) : SubSeq(s, 2, Len(s))[i] = r[i]
      BY <1>2
    <2>4. QED
      BY <2>1, <2>2, <2>3, SameElements
  <1>5. Tail(s) = r
    BY <1>2, <1>4
  <1>6. << >> \o r = r
    OBVIOUS
  <1>7. QED
    BY <1>1, <1>2, <1>3, <1>4, <1>5, <1>6

LEMMA TwoInFront ==
  ASSUME NEW A, NEW a \in A, NEW b \in A, NEW r \in Seq(A)
  PROVE  /\ <<a, b>> \o r \in Seq(A) /\ Len(<<a, b>> \o r) = Len(r) + 2
         /\ (<<a, b>> \o r)[1] = a /\ (<<a, b>> \o r)[2] = b
         /\ SubSeq(<<a, b>> \o r, 1, 0) \o SubSeq(<<a, b>> \o r, 3, Len(<<a, b>> \o r)) = r
  <1>1. PICK s : s = <<a, b>> \o r
    OBVIOUS
  <1>2. s \in Seq(A) /\ Len(s) = Len(r) + 2 /\ s[1] = a /\ s[2] = b
        /\ \A i \in 1..Len(r) : s[i + 2] = r[i]
    BY <1>1
  <1>3. SubSeq(s, 1, 0) = << >>
    BY <1>2
  <1>4. SubSeq(s, 3, Len(s)) = r
    <2>1. SubSeq(s, 3, Len(s)) \in Seq(A)
      BY <1>2
    <2>2. Len(SubSeq(s, 3, Len(s))) = Len(r)
      BY <1>2
    <2>3. \A i \in 1..Len(r) : SubSeq(s, 3, Len(s))[i] = r[i]
      BY <1>2
    <2>4. QED
      BY <2>1, <2>2, <2>3, SameElements
  <1>5. << >> \o r = r
    OBVIOUS
  <1>6. QED
    BY <1>1, <1>2, <1>3, <1>4, <1>5

\* Arguments taken out of the front, and assignments at the end.
LEMMA ReadyShifts ==
  ASSUME NEW A, NEW V, NEW I, NEW s \in States(A, V, I), NEW given, NEW l, Ready(s, l, given),
         NEW r, NEW n \in {1, 2}, n <= Len(l), SubSeq(l, 1, 0) \o SubSeq(l, 1 + n, Len(l)) = r
  PROVE  Shift(s, n) \in States(A, V, I) /\ Ready(Shift(s, n), r, given)
  <1>1. s.left = l /\ s.at = 1 /\ s.given = given /\ ~s.over /\ ~s.crashed
    BY DEF Ready
  <1>2. l \in Seq(A) /\ Len(l) \in Nat
    BY <1>1 DEF States
  <1>3. s.at + n - 1 <= Len(s.left)
    BY <1>1, <1>2
  <1>4. SubSeq(s.left, 1, s.at - 1) \o SubSeq(s.left, s.at + n, Len(s.left)) = r
    BY <1>1
  <1>5. Shift(s, n) = [s EXCEPT !.left = r]
    BY <1>4 DEF Shift
  <1>6. Shift(s, n) \in States(A, V, I)
    BY <1>3, ShiftStays
  <1>7. QED
    BY <1>1, <1>5, <1>6 DEF Ready, States

LEMMA ReadyGives ==
  ASSUME NEW A, NEW V, NEW I, NEW s \in States(A, V, I), NEW left, NEW given,
         Ready(s, left, given), NEW op, op.id \in I, NEW v \in V
  PROVE  /\ Give(s, op, v) \in States(A, V, I)
         /\ Ready(Give(s, op, v), left, Append(given, [id |-> op.id, value |-> v]))
  <1>1. Give(s, op, v) \in States(A, V, I)
    BY GiveStays
  <1>2. QED
    BY <1>1 DEF Give, Ready, States

\* An option in front, with its value in it or after it.
LEMMA TakesOne ==
  ASSUME NEW A, NEW V, NEW I, NEW s \in States(A, V, I), NEW a \in A, NEW r \in Seq(A),
         NEW given, Ready(s, <<a>> \o r, given), NEW op, op.id \in I, NEW v \in V
  PROVE  Ready(Give(Shift(s, 1), op, v), r, Append(given, [id |-> op.id, value |-> v]))
  <1>1. PICK l : l = <<a>> \o r
    OBVIOUS
  <1>2. /\ SubSeq(l, 1, 0) \o SubSeq(l, 1 + 1, Len(l)) = r /\ 1 <= Len(l)
        /\ Ready(s, l, given)
    BY <1>1, InFront
  <1>3. Shift(s, 1) \in States(A, V, I) /\ Ready(Shift(s, 1), r, given)
    BY <1>2, ReadyShifts
  <1>4. QED
    BY <1>3, ReadyGives

LEMMA TakesTwo ==
  ASSUME NEW A, NEW V, NEW I, NEW s \in States(A, V, I), NEW a \in A, NEW b \in A,
         NEW r \in Seq(A), NEW given, Ready(s, <<a, b>> \o r, given), NEW op, op.id \in I,
         NEW v \in V
  PROVE  Ready(Give(Shift(s, 2), op, v), r, Append(given, [id |-> op.id, value |-> v]))
  <1>1. PICK l : l = <<a, b>> \o r
    OBVIOUS
  <1>2. /\ SubSeq(l, 1, 0) \o SubSeq(l, 1 + 2, Len(l)) = r /\ 2 <= Len(l)
        /\ Ready(s, l, given)
    BY <1>1, TwoInFront
  <1>3. Shift(s, 2) \in States(A, V, I) /\ Ready(Shift(s, 2), r, given)
    BY <1>2, ReadyShifts
  <1>4. QED
    BY <1>3, ReadyGives

-----------------------------------------------------------------------------
(* A phrase is one turn of the loop of parse_options.                      *)

\* What the arguments and the table are made of.
Context(A, V, I, opts) ==
  None \in V /\ (\A a \in A : IsArg(a, V)) /\ IsTable(opts, I) /\ Distinct(opts)

\* The row that is searched for.
Matches(opts, op, base) ==
  op \in ToSet(opts) /\ op.long # None /\ base.name = op.long /\ base.result = {}

\* An argument is left, and a row that takes it.
Looking(A, V, I, s) == s \in States(A, V, I) /\ s.at <= Len(s.left)

Hits(s, base, op, r) == SearchStep(s, base, op).result = {r}

\* The one row with a long flag is what a search for it finds.
LEMMA SearchFinds ==
  ASSUME NEW A, NEW V, NEW I, NEW opts, Context(A, V, I, opts), NEW s, Looking(A, V, I, s),
         NEW base, base \in Finds(A, V, I), NEW op, Matches(opts, op, base),
         NEW r, Hits(s, base, op, r)
  PROVE  Search(opts, s, base) = SearchStep(s, base, op)
  <1>f. PICK found : found = SearchStep(s, base, op)
    OBVIOUS
  <1>0. PICK T : Searches(T, A, V, I, opts, s, base) /\ T[Len(opts)] = Search(opts, s, base)
    BY SearchFolds DEF Context, Looking
  <1>1. Len(opts) \in Nat /\ DOMAIN opts = 1..Len(opts)
    BY DEF Context, Distinct
  <1>2. PICK m \in 1..Len(opts) : opts[m] = op
    BY <1>1 DEF ToSet, Matches
  <1>3. \A k \in 1..Len(opts) : k # m => opts[k].long # op.long
    BY <1>1, <1>2 DEF Context, Distinct, Matches
  <1>4. \A k \in 1..Len(opts) : k # m => SearchStep(s, base, opts[k]) = base
    BY <1>3 DEF SearchStep, Matches
  <1>5. \A o : SearchStep(s, found, o) = found
    <2>1. found.result # {}
      BY <1>f DEF Hits
    <2>2. QED
      BY <2>1 DEF SearchStep
  <1> DEFINE Q(n) == n <= Len(opts) => T[n] = IF n < m THEN base ELSE found
             P == {n \in Nat : Q(n)}
  <1>6. Q(0)
    BY <1>0, <1>1, <1>2 DEF Searches
  <1>7. ASSUME NEW n \in Nat, Q(n), n + 1 <= Len(opts)
        PROVE  T[n + 1] = IF n + 1 < m THEN base ELSE found
    <2>1. PICK k : k = n + 1
      OBVIOUS
    <2>2. k \in 1..Len(opts) /\ k - 1 = n /\ n <= Len(opts)
      BY <1>1, <1>7, <2>1
    <2>3. T[k] = SearchStep(s, T[n], opts[k])
      BY <1>0, <2>2 DEF Searches
    <2>4. T[n] = IF n < m THEN base ELSE found
      BY <1>7, <2>2
    <2>5. QED
      BY <1>f, <1>2, <1>4, <1>5, <2>1, <2>2, <2>3, <2>4
  <1>8. Q(Len(opts))
    <2>1. \A n \in Nat : Q(n) => Q(n + 1)
      BY <1>7
    <2> HIDE DEF Q
    <2>2. 0 \in P /\ \A n \in Nat : n \in P => n + 1 \in P
      BY <1>6, <2>1
    <2>3. Len(opts) \in P
      <3> HIDE DEF P
      <3>1. QED
        BY <1>1, <2>2, Induction
    <2>4. QED
      BY <2>3
  <1>9. QED
    BY <1>f, <1>0, <1>1, <1>2, <1>8

\* What is searched for, for the next argument.
Looks(s) == [name |-> s.left[s.at].name, value |-> s.left[s.at].value, result |-> {}]

\* The row that is found decides.
LEMMA LongFinds ==
  ASSUME NEW A, NEW V, NEW I, NEW opts, Context(A, V, I, opts), NEW stop,
         NEW s, Looking(A, V, I, s), NEW op, Matches(opts, op, Looks(s)),
         NEW r, Hits(s, Looks(s), op, r)
  PROVE  ParseLong(opts, s, stop) = r
  <1>1. ParseLong(opts, s, stop) =
          IF Search(opts, s, Looks(s)).result = {} THEN Unknown(s, stop)
          ELSE CHOOSE x \in Search(opts, s, Looks(s)).result : TRUE
    BY DEF ParseLong, Search, Looks
  <1>2. Looks(s) \in Finds(A, V, I)
    <2>1. s.left[s.at] \in A
      BY DEF States, Looking
    <2>2. QED
      BY <2>1 DEF Looks, Finds, IsArg, Context
  <1>3. Search(opts, s, Looks(s)) = SearchStep(s, Looks(s), op)
    BY <1>2, SearchFinds
  <1>4. QED
    BY <1>1, <1>3 DEF Hits

\* --help.
LEMMA NameIs ==
  ASSUME NEW A, NEW V, NEW I, NEW opts, Context(A, V, I, opts), NEW stop,
         NEW op \in ToSet(opts), op.long # None, op.type = "bool",
         NEW s \in States(A, V, I), NEW r \in Seq(A), NEW given,
         LongArg(op.long, None) \in A, Ready(s, <<LongArg(op.long, None)>> \o r, given)
  PROVE  Ready(ParseLong(opts, s, stop), r, Append(given, [id |-> op.id, value |-> None]))
  <1>1. PICK arg \in A : arg = LongArg(op.long, None)
    OBVIOUS
  <1>2. arg.name = op.long /\ arg.value = None
    BY <1>1, ArgsAre
  <1>3. s.left[s.at] = arg /\ s.at <= Len(s.left)
    BY <1>1, InFront DEF Ready
  <1>4. Looking(A, V, I, s)
    BY <1>3 DEF Looking
  <1>5. Looks(s) = [name |-> op.long, value |-> None, result |-> {}]
    BY <1>2, <1>3 DEF Looks
  <1>m. Matches(opts, op, Looks(s))
    BY <1>5 DEF Matches
  <1>6. PICK x : x = Give(Shift(s, 1), op, None)
    OBVIOUS
  <1>7. Hits(s, Looks(s), op, x)
    BY <1>5, <1>6 DEF SearchStep, Matches, Hits
  <1>8. ParseLong(opts, s, stop) = x
    BY <1>4, <1>m, <1>7, LongFinds
  <1>9. op.id \in I /\ None \in V
    BY <1>2 DEF IsTable, IsArg, Context
  <1>10. QED
    BY <1>1, <1>6, <1>8, <1>9, TakesOne

\* --count=2.
LEMMA EqualsIs ==
  ASSUME NEW A, NEW V, NEW I, NEW opts, Context(A, V, I, opts), NEW stop,
         NEW op \in ToSet(opts), op.long # None, NEW v, v # None, Fits(op, v),
         op.type \in {"int", "string", "list"},
         NEW s \in States(A, V, I), NEW r \in Seq(A), NEW given,
         LongArg(op.long, v) \in A, Ready(s, <<LongArg(op.long, v)>> \o r, given)
  PROVE  Ready(ParseLong(opts, s, stop), r, Append(given, [id |-> op.id, value |-> v]))
  <1>1. PICK arg \in A : arg = LongArg(op.long, v)
    OBVIOUS
  <1>2. arg.name = op.long /\ arg.value = v
    BY <1>1, ArgsAre
  <1>3. s.left[s.at] = arg /\ s.at <= Len(s.left)
    BY <1>1, InFront DEF Ready
  <1>4. Looking(A, V, I, s)
    BY <1>3 DEF Looking
  <1>5. Looks(s) = [name |-> op.long, value |-> v, result |-> {}]
    BY <1>2, <1>3 DEF Looks
  <1>m. Matches(opts, op, Looks(s))
    BY <1>5 DEF Matches
  <1>6. PICK x : x = Give(Shift(s, 1), op, v)
    OBVIOUS
  <1>7. Hits(s, Looks(s), op, x)
    <2>1. op.type # "bool"
      OBVIOUS
    <2>2. QED
      BY <1>5, <1>6, <2>1 DEF SearchStep, Matches, Hits
  <1>8. ParseLong(opts, s, stop) = x
    BY <1>4, <1>m, <1>7, LongFinds
  <1>9. op.id \in I /\ v \in V
    BY <1>2 DEF IsTable, IsArg, Context
  <1>10. QED
    BY <1>1, <1>6, <1>8, <1>9, TakesOne

\* --count 2.
LEMMA ApartIs ==
  ASSUME NEW A, NEW V, NEW I, NEW opts, Context(A, V, I, opts), NEW stop,
         NEW op \in ToSet(opts), op.long # None, NEW v, Fits(op, v),
         op.type \in {"int", "string", "list"},
         NEW s \in States(A, V, I), NEW r \in Seq(A), NEW given,
         LongArg(op.long, None) \in A, Word(v) \in A,
         Ready(s, <<LongArg(op.long, None), Word(v)>> \o r, given)
  PROVE  Ready(ParseLong(opts, s, stop), r, Append(given, [id |-> op.id, value |-> v]))
  <1>1. PICK arg \in A, word \in A : arg = LongArg(op.long, None) /\ word = Word(v)
    OBVIOUS
  <1>2. arg.name = op.long /\ arg.value = None /\ word.text = v
    BY <1>1, ArgsAre
  <1>3. PICK l : l = <<arg, word>> \o r
    OBVIOUS
  <1>4. l[1] = arg /\ l[2] = word /\ Len(l) = Len(r) + 2 /\ Len(r) \in Nat /\ s.left = l /\ s.at = 1
    BY <1>1, <1>3, TwoInFront DEF Ready
  <1>5. HasValue(s) /\ ValueArg(s) = v /\ s.left[s.at] = arg /\ s.at <= Len(s.left)
    BY <1>2, <1>4 DEF HasValue, ValueArg
  <1>6. Looking(A, V, I, s)
    BY <1>5 DEF Looking
  <1>7. Looks(s) = [name |-> op.long, value |-> None, result |-> {}]
    BY <1>2, <1>5 DEF Looks
  <1>m. Matches(opts, op, Looks(s))
    BY <1>7 DEF Matches
  <1>8. PICK x : x = Give(Shift(s, 2), op, v)
    OBVIOUS
  <1>9. Hits(s, Looks(s), op, x)
    <2>1. op.type # "bool"
      OBVIOUS
    <2>2. QED
      BY <1>5, <1>7, <1>8, <2>1 DEF SearchStep, Matches, Hits
  <1>10. ParseLong(opts, s, stop) = x
    BY <1>6, <1>m, <1>9, LongFinds
  <1>11. op.id \in I /\ v \in V
    BY <1>2 DEF IsTable, IsArg, Context
  <1>12. QED
    BY <1>1, <1>8, <1>10, <1>11, TakesTwo

\* The rows that a cluster may name, and the assignments that switches make.
SwitchesOf(opts) == {op \in ToSet(opts) : op.type = "bool" /\ op.short # None}

Sets(switches) == [i \in DOMAIN switches |-> [id |-> switches[i].id, value |-> None]]

\* The one row with a short flag.
LEMMA FlaggedIs ==
  ASSUME NEW opts, Distinct(opts), NEW op \in ToSet(opts), op.short # None
  PROVE  Flagged(opts, op.short) = {op}
  <1>1. \A x \in ToSet(opts) : \E i \in DOMAIN opts : opts[i] = x
    BY DEF ToSet
  <1>2. \A x \in ToSet(opts) : x.short = op.short => x = op
    BY <1>1 DEF Distinct
  <1>3. QED
    BY <1>2 DEF Flagged

LEMMA SwitchIs ==
  ASSUME NEW opts, Distinct(opts), NEW op \in SwitchesOf(opts), NEW s
  PROVE  IsSwitch(opts, op.short) /\ Switch1(opts, s, op.short) = Give(s, op, None)
  <1>1. Flagged(opts, op.short) = {op} /\ op.type = "bool"
    BY FlaggedIs DEF SwitchesOf
  <1>2. IsSwitch(opts, op.short)
    BY <1>1 DEF IsSwitch
  <1>3. (CHOOSE x \in Flagged(opts, op.short) : TRUE) = op
    BY <1>1
  <1>4. QED
    BY <1>2, <1>3 DEF Switch1

\* The first flags of a cluster are those of some switches.
Leads(opts, switches, flags) ==
  /\ switches \in Seq(SwitchesOf(opts)) /\ Len(switches) <= Len(flags)
  /\ \A i \in 1..Len(switches) : flags[i] = switches[i].short

LEMMA SetsAre ==
  ASSUME NEW A, NEW V, NEW I, NEW opts, Context(A, V, I, opts), NEW switches \in Seq(SwitchesOf(opts))
  PROVE  /\ Sets(switches) \in Seq([id : I, value : V]) /\ Len(Sets(switches)) = Len(switches)
         /\ \A i \in 1..Len(switches) : /\ Sets(switches)[i] = [id |-> switches[i].id, value |-> None]
                                        /\ switches[i].id \in I
  <1>1. DOMAIN switches = 1..Len(switches) /\ Len(switches) \in Nat
        /\ \A i \in 1..Len(switches) : switches[i] \in SwitchesOf(opts)
    OBVIOUS
  <1>2. \A op \in SwitchesOf(opts) : op.id \in I
    BY DEF SwitchesOf, Context, IsTable
  <1>3. \A i \in 1..Len(switches) : [id |-> switches[i].id, value |-> None] \in [id : I, value : V]
    BY <1>1, <1>2 DEF Context
  <1>4. Sets(switches) = [i \in 1..Len(switches) |-> [id |-> switches[i].id, value |-> None]]
    BY <1>1 DEF Sets
  <1>5. Sets(switches) \in [1..Len(switches) -> [id : I, value : V]]
    BY <1>3, <1>4
  <1>6. QED
    BY <1>1, <1>2, <1>4, <1>5

\* One more at the end.
LEMMA OneMore ==
  ASSUME NEW T, NEW g \in Seq(T), NEW x \in Seq(T), NEW k \in Nat, k + 1 <= Len(x)
  PROVE  Append(g \o SubSeq(x, 1, k), x[k + 1]) = g \o SubSeq(x, 1, k + 1)
  <1>1. k \in 0..Len(x) /\ k + 1 \in 1..Len(x)
    OBVIOUS
  <1>2. PICK a : a = SubSeq(x, 1, k)
    OBVIOUS
  <1>3. PICK b : b = SubSeq(x, 1, k + 1)
    OBVIOUS
  <1>4. a \in Seq(T) /\ Len(a) = k /\ \A i \in 1..k : a[i] = x[i]
    BY <1>1, <1>2
  <1>5. b \in Seq(T) /\ Len(b) = k + 1 /\ \A i \in 1..(k + 1) : b[i] = x[i]
    BY <1>1, <1>3
  <1>6. x[k + 1] \in T
    BY <1>1
  <1>7. b = Append(a, x[k + 1])
    <2>1. Append(a, x[k + 1]) \in Seq(T) /\ Len(Append(a, x[k + 1])) = k + 1
          /\ \A i \in 1..(k + 1) : Append(a, x[k + 1])[i] = x[i]
      BY <1>4, <1>6
    <2>2. QED
      BY <1>5, <2>1, SameElements
  <1>8. Append(g \o a, x[k + 1]) = g \o Append(a, x[k + 1])
    BY <1>4, <1>6
  <1>9. QED
    BY <1>2, <1>3, <1>7, <1>8

\* The switches at the start of a cluster.
LEMMA SwitchesAre ==
  ASSUME NEW A, NEW V, NEW I, NEW opts, Context(A, V, I, opts), NEW s \in States(A, V, I),
         NEW left, NEW given, Ready(s, left, given), NEW flags \in Seq(V),
         NEW switches, Leads(opts, switches, flags), NEW n, n = Len(switches) + 1
  PROVE  /\ Switches(opts, s, flags, n) \in States(A, V, I)
         /\ Ready(Switches(opts, s, flags, n), left, given \o Sets(switches))
         /\ \A i \in 1..(n - 1) : IsSwitch(opts, flags[i])
  <1> DEFINE x == Sets(switches)
  <1>1. /\ n - 1 = Len(switches) /\ Len(switches) \in Nat /\ n \in 1..Len(flags) + 1
        /\ \A i \in 1..(n - 1) : switches[i] \in SwitchesOf(opts) /\ flags[i] = switches[i].short
    BY DEF Leads
  <1>2. \A i \in 1..(n - 1) : IsSwitch(opts, flags[i])
    BY <1>1, SwitchIs DEF Context
  <1>3. PICK T : /\ Switching(T, A, V, I, opts, s, flags, n - 1)
                 /\ T[n - 1] = Switches(opts, s, flags, n)
    BY <1>1, <1>2, SwitchesFold DEF Context
  <1>4. given \in Seq([id : I, value : V])
    BY DEF Ready, States
  <1>5. /\ x \in Seq([id : I, value : V]) /\ Len(x) = n - 1
        /\ \A i \in 1..(n - 1) : x[i] = [id |-> switches[i].id, value |-> None] /\ switches[i].id \in I
    BY <1>1, SetsAre DEF Leads
  <1> HIDE DEF x
  <1> DEFINE Q(k) == k <= n - 1 => Ready(T[k], left, given \o SubSeq(x, 1, k))
             P == {k \in Nat : Q(k)}
  <1>6. Q(0)
    <2>1. given \o SubSeq(x, 1, 0) = given
      BY <1>4, <1>5
    <2>2. T[0] = s
      BY <1>3 DEF Switching
    <2>3. QED
      BY <2>1, <2>2
  <1>7. ASSUME NEW k \in Nat, Q(k), k + 1 <= n - 1
        PROVE  Ready(T[k + 1], left, given \o SubSeq(x, 1, k + 1))
    <2>1. k \in 0..(n - 1) /\ k + 1 \in 1..(n - 1) /\ (k + 1) - 1 = k
      BY <1>1, <1>7
    <2>2. T[k] \in States(A, V, I) /\ T[k + 1] = Switch1(opts, T[k], flags[k + 1])
      BY <1>3, <2>1 DEF Switching
    <2>3. T[k + 1] = Give(T[k], switches[k + 1], None)
      BY <1>1, <2>1, <2>2, SwitchIs DEF Context
    <2>4. PICK g : g = given \o SubSeq(x, 1, k)
      OBVIOUS
    <2>5. Ready(T[k], left, g)
      BY <1>7, <2>1, <2>4
    <2>6. PICK op : op = switches[k + 1] /\ op.id \in I
      BY <1>5, <2>1
    <2>7. Ready(Give(T[k], op, None), left, Append(g, [id |-> op.id, value |-> None]))
      BY <2>2, <2>5, <2>6, ReadyGives DEF Context
    <2>8. Append(g, [id |-> op.id, value |-> None]) = given \o SubSeq(x, 1, k + 1)
      <3>1. x[k + 1] = [id |-> op.id, value |-> None]
        BY <1>5, <2>1, <2>6
      <3>2. Append(g, x[k + 1]) = given \o SubSeq(x, 1, k + 1)
        BY <1>4, <1>5, <1>7, <2>4, OneMore
      <3>3. QED
        BY <3>1, <3>2
    <2>9. QED
      BY <2>3, <2>6, <2>7, <2>8
  <1>8. Q(n - 1)
    <2>1. \A k \in Nat : Q(k) => Q(k + 1)
      BY <1>7
    <2> HIDE DEF Q
    <2>2. 0 \in P /\ \A k \in Nat : k \in P => k + 1 \in P
      BY <1>6, <2>1
    <2>3. n - 1 \in P
      <3> HIDE DEF P
      <3>1. QED
        BY <1>1, <2>2, Induction
    <2>4. QED
      BY <2>3
  <1>9. SubSeq(x, 1, n - 1) = x
    BY <1>5
  <1>10. T[n - 1] \in States(A, V, I)
    BY <1>1, <1>3 DEF Switching
  <1>11. Ready(T[n - 1], left, given \o x)
    <2>1. n - 1 <= n - 1
      BY <1>1
    <2>2. QED
      BY <1>8, <1>9, <2>1
  <1>12. PICK last : last = T[n - 1]
    OBVIOUS
  <1>13. last = Switches(opts, s, flags, n) /\ last \in States(A, V, I) /\ Ready(last, left, given \o x)
    BY <1>3, <1>10, <1>11, <1>12
  <1>14. QED
    BY <1>2, <1>13 DEF x

\* After its switches, a cluster names a row that takes a value.
Closes(opts, switches, flags, op) ==
  /\ Leads(opts, switches, flags) /\ Len(switches) + 1 <= Len(flags)
  /\ op \in ToSet(opts) /\ op.short # None /\ op.type # "bool"
  /\ flags[Len(switches) + 1] = op.short

\* The next argument is a cluster with these flags.
Clustered(A, V, I, s, flags) ==
  s \in States(A, V, I) /\ s.left[s.at].flags = flags /\ flags \in Seq(V)

\* -ab.
LEMMA ClusterParses ==
  ASSUME NEW A, NEW V, NEW I, NEW opts, Context(A, V, I, opts), NEW s, NEW flags,
         Clustered(A, V, I, s, flags), NEW left, NEW given, Ready(s, left, given),
         NEW switches, Leads(opts, switches, flags), Len(flags) = Len(switches), NEW stop
  PROVE  ParseShort(opts, s, stop) = Shift(Switches(opts, s, flags, Len(flags) + 1), 1)
  <1> DEFINE others == {i \in DOMAIN flags : ~IsSwitch(opts, flags[i])}
  <1>1. flags \in Seq(V) /\ DOMAIN flags = 1..Len(flags) /\ s \in States(A, V, I)
    BY DEF Clustered
  <1>2. PICK n : n = Len(switches) + 1 /\ n - 1 = Len(flags)
    BY <1>1
  <1>3. \A i \in 1..(n - 1) : IsSwitch(opts, flags[i])
    BY <1>1, <1>2, SwitchesAre
  <1>4. others = {}
    BY <1>1, <1>2, <1>3
  <1>5. s.left[s.at].flags = flags
    BY DEF Clustered
  <1>6. QED
    BY <1>4, <1>5 DEF ParseShort

\* -abn: the first flag that is no switch decides.
LEMMA ClusterCloses ==
  ASSUME NEW A, NEW V, NEW I, NEW opts, Context(A, V, I, opts), NEW s, NEW flags,
         Clustered(A, V, I, s, flags), NEW left, NEW given, Ready(s, left, given),
         NEW switches, NEW op, Closes(opts, switches, flags, op), NEW stop,
         NEW n, n = Len(switches) + 1
  PROVE  ParseShort(opts, s, stop) =
           ParseFlag(op, Switches(opts, s, flags, n), SubSeq(flags, n + 1, Len(flags)), stop)
  <1> DEFINE others == {i \in DOMAIN flags : ~IsSwitch(opts, flags[i])}
  <1>1. /\ flags \in Seq(V) /\ DOMAIN flags = 1..Len(flags) /\ s \in States(A, V, I)
        /\ Leads(opts, switches, flags)
    BY DEF Clustered, Closes
  <1>2. n \in 1..Len(flags) /\ Len(flags) \in Nat
    <2>1. Len(switches) \in Nat
      BY <1>1 DEF Leads
    <2>2. QED
      BY <1>1, <2>1 DEF Closes
  <1>3. \A i \in 1..(n - 1) : IsSwitch(opts, flags[i])
    BY <1>1, SwitchesAre
  <1>4. Flagged(opts, flags[n]) = {op} /\ op.type # "bool"
    <2>1. op \in ToSet(opts) /\ op.short # None /\ op.type # "bool" /\ flags[n] = op.short
      BY DEF Closes
    <2>2. QED
      BY <2>1, FlaggedIs DEF Context
  <1>5. ~IsSwitch(opts, flags[n])
    BY <1>4 DEF IsSwitch
  <1>6. n \in others /\ \A j \in others : n <= j
    <2>1. \A j \in others : j \in 1..Len(flags) /\ j \notin 1..(n - 1)
      BY <1>1, <1>3
    <2>2. QED
      BY <1>1, <1>2, <1>5, <2>1
  <1>7. (CHOOSE i \in others : \A j \in others : i <= j) = n
    <2>1. others \subseteq Nat
      BY <1>1
    <2> HIDE DEF others
    <2>2. \A i \in others : (\A j \in others : i <= j) => i = n
      BY <1>6, <2>1
    <2>3. QED
      BY <1>6, <2>2
  <1>8. others # {}
    BY <1>6
  <1>9. s.left[s.at].flags = flags
    BY DEF Clustered
  <1>10. (CHOOSE x \in Flagged(opts, flags[n]) : TRUE) = op /\ Flagged(opts, flags[n]) # {}
    BY <1>4
  <1>11. ParseShort(opts, s, stop) =
          IF others = {} THEN Shift(Switches(opts, s, flags, Len(flags) + 1), 1)
          ELSE LET m == CHOOSE i \in others : \A j \in others : i <= j
                   t == Switches(opts, s, flags, m)
               IN IF Flagged(opts, flags[m]) = {} THEN Unknown(t, stop)
                  ELSE ParseFlag(CHOOSE x \in Flagged(opts, flags[m]) : TRUE, t,
                                 SubSeq(flags, m + 1, Len(flags)), stop)
    BY <1>9 DEF ParseShort
  <1> HIDE DEF others
  <1>12. QED
    BY <1>7, <1>8, <1>10, <1>11

LEMMA ClusterIs ==
  ASSUME NEW A, NEW V, NEW I, NEW opts, Context(A, V, I, opts), NEW stop,
         NEW flags, NEW switches, Leads(opts, switches, flags), Len(flags) = Len(switches),
         NEW s \in States(A, V, I), NEW r \in Seq(A), NEW given,
         Cluster(flags) \in A, Ready(s, <<Cluster(flags)>> \o r, given)
  PROVE  Ready(ParseShort(opts, s, stop), r, given \o Sets(switches))
  <1>1. PICK arg \in A : arg = Cluster(flags)
    OBVIOUS
  <1>2. arg.flags = flags
    BY <1>1, ArgsAre
  <1>3. PICK l : l = <<arg>> \o r
    OBVIOUS
  <1>4. /\ l[1] = arg /\ 1 <= Len(l) /\ SubSeq(l, 1, 0) \o SubSeq(l, 1 + 1, Len(l)) = r
        /\ Ready(s, l, given)
    BY <1>1, <1>3, InFront
  <1>5. Clustered(A, V, I, s, flags)
    BY <1>2, <1>4 DEF Clustered, Ready, Context, IsArg
  <1>6. PICK n : n = Len(flags) + 1 /\ n = Len(switches) + 1
    OBVIOUS
  <1>7. PICK t : t = Switches(opts, s, flags, n)
    OBVIOUS
  <1>8. flags \in Seq(V)
    BY <1>5 DEF Clustered
  <1>9. t \in States(A, V, I) /\ Ready(t, l, given \o Sets(switches))
    BY <1>4, <1>6, <1>7, <1>8, SwitchesAre
  <1>10. Ready(Shift(t, 1), r, given \o Sets(switches))
    <2>1. PICK g : g = given \o Sets(switches)
      OBVIOUS
    <2>2. Ready(Shift(t, 1), r, g)
      BY <1>4, <1>9, <2>1, ReadyShifts
    <2>3. QED
      BY <2>1, <2>2
  <1>11. ParseShort(opts, s, stop) = Shift(t, 1)
    BY <1>4, <1>5, <1>6, <1>7, ClusterParses
  <1>12. QED
    BY <1>10, <1>11

\* -abn 2.
LEMMA FlagIs ==
  ASSUME NEW A, NEW V, NEW I, NEW opts, Context(A, V, I, opts), NEW stop,
         NEW flags, NEW switches, NEW op, Closes(opts, switches, flags, op),
         Len(flags) = Len(switches) + 1, NEW v, Fits(op, v),
         NEW s \in States(A, V, I), NEW r \in Seq(A), NEW given,
         Cluster(flags) \in A, Word(v) \in A, Ready(s, <<Cluster(flags), Word(v)>> \o r, given)
  PROVE  Ready(ParseShort(opts, s, stop), r,
               Append(given \o Sets(switches), [id |-> op.id, value |-> v]))
  <1>1. PICK arg \in A, word \in A : arg = Cluster(flags) /\ word = Word(v)
    OBVIOUS
  <1>2. arg.flags = flags /\ word.text = v
    BY <1>1, ArgsAre
  <1>3. PICK l : l = <<arg, word>> \o r
    OBVIOUS
  <1>4. /\ l[1] = arg /\ l[2] = word /\ Len(l) = Len(r) + 2 /\ Len(r) \in Nat
        /\ Ready(s, l, given)
    BY <1>1, <1>3, TwoInFront
  <1>5. Clustered(A, V, I, s, flags)
    BY <1>2, <1>4 DEF Clustered, Ready, Context, IsArg
  <1>6. flags \in Seq(V) /\ Leads(opts, switches, flags)
    BY <1>5 DEF Clustered, Closes
  <1>7. PICK n : n = Len(switches) + 1 /\ n = Len(flags) /\ n \in Nat
    BY <1>6
  <1>8. PICK t : t = Switches(opts, s, flags, n)
    OBVIOUS
  <1>9. PICK g : g = given \o Sets(switches)
    OBVIOUS
  <1>10. t \in States(A, V, I) /\ Ready(t, l, g)
    BY <1>4, <1>6, <1>7, <1>8, <1>9, SwitchesAre
  <1>11. HasValue(t) /\ ValueArg(t) = v
    BY <1>2, <1>4, <1>10 DEF HasValue, ValueArg, Ready
  <1>12. PICK rest : rest = SubSeq(flags, n + 1, Len(flags))
    OBVIOUS
  <1>13. rest = << >> /\ Len(rest) = 0
    BY <1>6, <1>7, <1>12
  <1>14. ParseFlag(op, t, rest, stop) = Give(Shift(t, 2), op, v)
    BY <1>11, <1>13 DEF ParseFlag
  <1>15. ParseShort(opts, s, stop) = ParseFlag(op, t, rest, stop)
    BY <1>4, <1>5, <1>7, <1>8, <1>12, ClusterCloses
  <1>16. op.id \in I /\ v \in V
    <2>1. op \in ToSet(opts)
      BY DEF Closes
    <2>2. IsArg(word, V)
      BY DEF Context
    <2>3. QED
      BY <1>2, <2>1, <2>2 DEF IsTable, IsArg, Context
  <1>17. Ready(Give(Shift(t, 2), op, v), r, Append(g, [id |-> op.id, value |-> v]))
    BY <1>3, <1>10, <1>16, TakesTwo
  <1>18. QED
    BY <1>9, <1>14, <1>15, <1>17

\* -abn2.
LEMMA CloseIs ==
  ASSUME NEW A, NEW V, NEW I, NEW opts, Context(A, V, I, opts), NEW stop,
         NEW flags, NEW switches, NEW op, Closes(opts, switches, flags, op),
         Len(flags) = Len(switches) + 2, NEW v, v = flags[Len(switches) + 2],
         op.type = "int", v \in DOMAIN Numbers,
         NEW s \in States(A, V, I), NEW r \in Seq(A), NEW given,
         Cluster(flags) \in A, Ready(s, <<Cluster(flags)>> \o r, given)
  PROVE  Ready(ParseShort(opts, s, stop), r,
               Append(given \o Sets(switches), [id |-> op.id, value |-> v]))
  <1>1. PICK arg \in A : arg = Cluster(flags)
    OBVIOUS
  <1>2. arg.flags = flags
    BY <1>1, ArgsAre
  <1>3. PICK l : l = <<arg>> \o r
    OBVIOUS
  <1>4. l[1] = arg /\ Ready(s, l, given)
    BY <1>1, <1>3, InFront
  <1>5. Clustered(A, V, I, s, flags)
    BY <1>2, <1>4 DEF Clustered, Ready, Context, IsArg
  <1>6. flags \in Seq(V) /\ Leads(opts, switches, flags)
    BY <1>5 DEF Clustered, Closes
  <1>7. PICK n : n = Len(switches) + 1 /\ n + 1 = Len(flags) /\ n \in Nat /\ v = flags[n + 1]
    BY <1>6
  <1>8. PICK t : t = Switches(opts, s, flags, n)
    OBVIOUS
  <1>9. PICK g : g = given \o Sets(switches)
    OBVIOUS
  <1>10. t \in States(A, V, I) /\ Ready(t, l, g)
    BY <1>4, <1>6, <1>7, <1>8, <1>9, SwitchesAre
  <1>11. PICK rest : rest = SubSeq(flags, n + 1, Len(flags))
    OBVIOUS
  <1>12. Len(rest) = 1 /\ rest[1] = v
    BY <1>6, <1>7, <1>11
  <1>13. rest # << >>
    <2>1. rest = << >> => Len(rest) = 0
      OBVIOUS
    <2>2. QED
      BY <1>12, <2>1
  <1>14. ParseFlag(op, t, rest, stop) = Give(Shift(t, 1), op, v)
    BY <1>12, <1>13 DEF ParseFlag
  <1>15. ParseShort(opts, s, stop) = ParseFlag(op, t, rest, stop)
    BY <1>4, <1>5, <1>7, <1>8, <1>11, ClusterCloses
  <1>16. op.id \in I /\ v \in V
    <2>1. op \in ToSet(opts)
      BY DEF Closes
    <2>2. v \in V
      BY <1>6, <1>7
    <2>3. QED
      BY <2>1, <2>2 DEF IsTable, Context
  <1>17. Ready(Give(Shift(t, 1), op, v), r, Append(g, [id |-> op.id, value |-> v]))
    BY <1>3, <1>10, <1>16, TakesOne
  <1>18. QED
    BY <1>9, <1>14, <1>15, <1>17

\* The form of the next argument decides how it is read.
LEMMA TurnIs ==
  ASSUME NEW opts, NEW stop, NEW s, NEW left, NEW given, Ready(s, left, given),
         Len(left) \in Nat, Len(left) >= 1
  PROVE  /\ left[1].form = "long" => ParseArg(opts, s, stop) = ParseLong(opts, s, stop)
         /\ left[1].form = "short" => ParseArg(opts, s, stop) = ParseShort(opts, s, stop)
         /\ left[1].form = "dashes" => ParseArg(opts, s, stop) = [Shift(s, 1) EXCEPT !.over = TRUE]
         /\ left[1].form = "word" =>
              ParseArg(opts, s, stop) =
                IF IsCommand(opts, left[1].text) THEN [s EXCEPT !.over = TRUE]
                ELSE Unknown(s, stop)
  <1>1. s.left = left /\ s.at = 1 /\ s.over = FALSE
    BY DEF Ready
  <1>2. ParseArg(opts, s, stop) = ParseNext(opts, s, left[1], stop)
    BY <1>1 DEF ParseArg
  <1>3. QED
    BY <1>2 DEF ParseNext

\* The rows of a phrase, and its switches.
LEMMA PhraseRows ==
  ASSUME NEW opts, NEW ph, IsPhrase(opts, ph)
  PROVE  /\ ph.how \in {"name", "equals", "apart", "cluster", "flag", "close"}
         /\ ph.how \in {"name", "equals", "apart"} =>
              ph.switches = << >> /\ ph.op \in ToSet(opts) /\ ph.op.long # None
         /\ ph.how = "name" => ph.op.type = "bool"
         /\ ph.how \in {"equals", "apart", "flag", "close"} =>
              /\ ph.op \in ToSet(opts) /\ ph.op.type \in {"int", "string", "list"}
              /\ Fits(ph.op, ph.value)
         /\ ph.how = "equals" => ph.value # None
         /\ ph.how \in {"cluster", "flag", "close"} => ph.switches \in Seq(SwitchesOf(opts))
         /\ ph.how = "cluster" => ph.switches # << >>
         /\ ph.how \in {"flag", "close"} => ph.op.short # None
         /\ ph.how = "close" => ph.op.type = "int" /\ ph.value \in DOMAIN Numbers
  <1> DEFINE bools == {op \in ToSet(opts) : op.type = "bool"}
             takes == /\ ph.op \in ToSet(opts) /\ ph.op.type \in {"int", "string", "list"}
                      /\ Fits(ph.op, ph.value)
             long  == ph.switches = << >> /\ ph.op.long # None
             short == ph.switches \in Seq({op \in bools : op.short # None})
  <1>1. {op \in bools : op.short # None} = SwitchesOf(opts)
    BY DEF SwitchesOf
  <1>2. short => ph.switches \in Seq(SwitchesOf(opts))
    BY <1>1
  <1>3. \/ ph.how = "name" /\ long /\ ph.op \in bools
        \/ ph.how = "equals" /\ long /\ takes /\ ph.value # None
        \/ ph.how = "apart" /\ long /\ takes
        \/ ph.how = "cluster" /\ short /\ ph.switches # << >>
        \/ ph.how = "flag" /\ short /\ takes /\ ph.op.short # None
        \/ ph.how = "close" /\ short /\ takes /\ ph.op.short # None /\ ph.op.type = "int"
    BY DEF IsPhrase
  <1>4. takes /\ ph.op.type = "int" => ph.value \in DOMAIN Numbers
    BY DEF Fits
  <1>5. takes => /\ ph.op \in ToSet(opts) /\ ph.op.type \in {"int", "string", "list"}
                 /\ Fits(ph.op, ph.value)
    OBVIOUS
  <1>6. ph.op \in bools => ph.op \in ToSet(opts) /\ ph.op.type = "bool"
    OBVIOUS
  <1>7. long => ph.switches = << >> /\ ph.op.long # None
    OBVIOUS
  <1>8. takes => ph.op \in ToSet(opts)
    OBVIOUS
  <1> HIDE DEF takes, long, short, bools
  <1>9. QED
    BY <1>2, <1>3, <1>4, <1>5, <1>6, <1>7, <1>8

\* A sequence with two more at its end.
Behind(g, f, n, x, y) ==
  Len(g) = n + 2 /\ (\A i \in 1..n : g[i] = f[i]) /\ g[n + 1] = x /\ g[n + 2] = y

LEMMA TwoBehind ==
  ASSUME NEW T, NEW f \in Seq(T), NEW x \in T, NEW y \in T, NEW n, n = Len(f),
         NEW g, g = f \o <<x, y>>
  PROVE  Behind(g, f, n, x, y)
  <1>2. Len(g) = n + 2 /\ n \in Nat
    OBVIOUS
  <1>3. \A i \in 1..n : g[i] = f[i]
    OBVIOUS
  <1>4. g[n + 1] = x
    OBVIOUS
  <1>5. g[n + 2] = y
    OBVIOUS
  <1>6. QED
    BY <1>2, <1>3, <1>4, <1>5 DEF Behind

\* The flags of the switches of a phrase, at the start of its cluster.
FlagsOf(switches) == [i \in DOMAIN switches |-> switches[i].short]

LEMMA FlagsLead ==
  ASSUME NEW opts, NEW switches \in Seq(SwitchesOf(opts)), NEW x, NEW y
  PROVE  /\ Leads(opts, switches, FlagsOf(switches)) /\ Len(FlagsOf(switches)) = Len(switches)
         /\ Leads(opts, switches, Append(FlagsOf(switches), x))
         /\ Len(Append(FlagsOf(switches), x)) = Len(switches) + 1
         /\ Append(FlagsOf(switches), x)[Len(switches) + 1] = x
         /\ Leads(opts, switches, FlagsOf(switches) \o <<x, y>>)
         /\ Len(FlagsOf(switches) \o <<x, y>>) = Len(switches) + 2
         /\ (FlagsOf(switches) \o <<x, y>>)[Len(switches) + 1] = x
         /\ (FlagsOf(switches) \o <<x, y>>)[Len(switches) + 2] = y
  <1> DEFINE T == {switches[i].short : i \in 1..Len(switches)} \cup {x, y}
  <1>1. PICK f : f = FlagsOf(switches)
    OBVIOUS
  <1>2. PICK n \in Nat : n = Len(switches)
    OBVIOUS
  <1>3. f \in Seq(T) /\ Len(f) = n /\ (\A i \in 1..n : f[i] = switches[i].short) /\ x \in T /\ y \in T
    <2>1. DOMAIN switches = 1..n
      BY <1>2
    <2>2. f = [i \in 1..n |-> switches[i].short]
      BY <1>1, <2>1 DEF FlagsOf
    <2>3. \A i \in 1..n : switches[i].short \in T
      BY <1>2
    <2>4. f \in [1..n -> T]
      BY <2>2, <2>3
    <2>5. QED
      BY <2>2, <2>4
  <1> HIDE DEF T
  <1>4. Len(Append(f, x)) = n + 1 /\ Append(f, x)[n + 1] = x /\ \A i \in 1..n : Append(f, x)[i] = f[i]
    BY <1>3
  <1>5. PICK g : g = f \o <<x, y>>
    OBVIOUS
  <1>6. Len(g) = n + 2 /\ g[n + 1] = x /\ g[n + 2] = y /\ \A i \in 1..n : g[i] = f[i]
    <2>1. f \in Seq(T) /\ x \in T /\ y \in T /\ n = Len(f)
      BY <1>3
    <2>2. Behind(g, f, n, x, y)
      BY <1>5, <2>1, TwoBehind
    <2>3. QED
      BY <2>2 DEF Behind
  <1>7. Leads(opts, switches, f)
    BY <1>2, <1>3 DEF Leads
  <1>8. Leads(opts, switches, Append(f, x))
    BY <1>2, <1>3, <1>4 DEF Leads
  <1>9. Leads(opts, switches, g)
    BY <1>2, <1>3, <1>6 DEF Leads
  <1>10. QED
    BY <1>1, <1>2, <1>3, <1>4, <1>5, <1>6, <1>7, <1>8, <1>9

\* The assignments of a phrase follow those before it.
LEMMA GivenAfter ==
  ASSUME NEW B, NEW given \in Seq(B), NEW x \in Seq(B), NEW e \in B
  PROVE  /\ given \o (<< >> \o <<e>>) = Append(given, e)
         /\ given \o (x \o <<e>>) = Append(given \o x, e)
         /\ given \o (x \o << >>) = given \o x
  OBVIOUS

\* A phrase in front of other arguments is one turn of the loop.
LEMMA PhraseTurn ==
  ASSUME NEW A, NEW V, NEW I, NEW opts, Context(A, V, I, opts), NEW stop,
         NEW ph, IsPhrase(opts, ph), PhraseArgs(ph) \in Seq(A),
         NEW s \in States(A, V, I), NEW r \in Seq(A), NEW given,
         Ready(s, PhraseArgs(ph) \o r, given)
  PROVE  Ready(ParseArg(opts, s, stop), r, given \o PhraseGiven(ph))
  <1> DEFINE B == [id : I, value : V]
             op == ph.op
             v == ph.value
             sw == ph.switches
             flags == FlagsOf(sw)
             left == PhraseArgs(ph) \o r
  <1>1. given \in Seq(B)
    BY DEF Ready, States
  <1>2. Len(left) \in Nat
    OBVIOUS
  <1>3. /\ ph.how \in {"name", "equals", "apart", "cluster", "flag", "close"}
        /\ ph.how \in {"name", "equals", "apart"} => sw = << >> /\ op \in ToSet(opts) /\ op.long # None
        /\ ph.how = "name" => op.type = "bool"
        /\ ph.how \in {"equals", "apart", "flag", "close"} =>
             op \in ToSet(opts) /\ op.type \in {"int", "string", "list"} /\ Fits(op, v)
        /\ ph.how = "equals" => v # None
        /\ ph.how \in {"cluster", "flag", "close"} => sw \in Seq(SwitchesOf(opts))
        /\ ph.how = "cluster" => sw # << >>
        /\ ph.how \in {"flag", "close"} => op.short # None
        /\ ph.how = "close" => op.type = "int" /\ v \in DOMAIN Numbers
    BY PhraseRows
  <1>4. PhraseArgs(ph) =
          CASE ph.how = "name" -> <<LongArg(op.long, None)>>
            [] ph.how = "equals" -> <<LongArg(op.long, v)>>
            [] ph.how = "apart" -> <<LongArg(op.long, None), Word(v)>>
            [] ph.how = "cluster" -> <<Cluster(flags)>>
            [] ph.how = "flag" -> <<Cluster(Append(flags, op.short)), Word(v)>>
            [] ph.how = "close" -> <<Cluster(flags \o <<op.short, v>>)>>
    BY DEF PhraseArgs, FlagsOf
  <1>5. PhraseGiven(ph) =
          Sets(sw) \o (IF ph.how = "cluster" THEN << >>
                       ELSE <<[id |-> op.id, value |-> IF ph.how = "name" THEN None ELSE v]>>)
    BY DEF PhraseGiven, Sets
  <1>6. sw = << >> => Sets(sw) = << >>
    BY DEF Sets
  <1>7. op \in ToSet(opts) => op.id \in I
    BY DEF Context, IsTable
  <1>8. \A a : <<a>> \in Seq(A) => a \in A
    <2>1. ASSUME NEW a, <<a>> \in Seq(A) PROVE a \in A
      <3>1. PICK q \in Seq(A) : q = <<a>>
        BY <2>1
      <3>2. Len(q) = 1 /\ q[1] = a
        BY <3>1
      <3>3. \A i \in 1..Len(q) : q[i] \in A
        OBVIOUS
      <3>4. QED
        BY <3>2, <3>3
    <2>2. QED
      BY <2>1
  <1>9. \A a, b : <<a, b>> \in Seq(A) => a \in A /\ b \in A
    <2>1. ASSUME NEW a, NEW b, <<a, b>> \in Seq(A) PROVE a \in A /\ b \in A
      <3>1. PICK q \in Seq(A) : q = <<a, b>>
        BY <2>1
      <3>2. Len(q) = 2 /\ q[1] = a /\ q[2] = b
        BY <3>1
      <3>3. \A i \in 1..Len(q) : q[i] \in A
        OBVIOUS
      <3>4. QED
        BY <3>2, <3>3
    <2>2. QED
      BY <2>1
  <1>10. None \in V /\ \A a \in A : IsArg(a, V)
    BY DEF Context
  <1> HIDE DEF op, v, sw, flags
  <1>11. CASE ph.how = "name"
    <2>1. PhraseArgs(ph) = <<LongArg(op.long, None)>>
      BY <1>4, <1>11
    <2>2. LongArg(op.long, None) \in A
      BY <1>8, <2>1
    <2>3. op \in ToSet(opts) /\ op.long # None /\ op.type = "bool" /\ sw = << >>
      BY <1>3, <1>11
    <2>4. Ready(ParseLong(opts, s, stop), r, Append(given, [id |-> op.id, value |-> None]))
      BY <2>1, <2>2, <2>3, NameIs
    <2>5. ParseArg(opts, s, stop) = ParseLong(opts, s, stop)
      <3>1. PICK l : l = left
        OBVIOUS
      <3>2. Ready(s, l, given) /\ Len(l) \in Nat /\ Len(l) >= 1 /\ l[1] = LongArg(op.long, None)
        BY <2>1, <2>2, <3>1, InFront
      <3>3. l[1].form = "long"
        BY <3>2, ArgsAre
      <3>4. QED
        BY <3>2, <3>3, TurnIs
    <2>6. given \o PhraseGiven(ph) = Append(given, [id |-> op.id, value |-> None])
      <3>1. PICK e : e = [id |-> op.id, value |-> None]
        OBVIOUS
      <3>2. e \in B
        BY <1>7, <1>10, <2>3, <3>1
      <3>3. PhraseGiven(ph) = << >> \o <<e>>
        BY <1>5, <1>6, <1>11, <2>3, <3>1
      <3>4. << >> \in Seq(B)
        OBVIOUS
      <3>5. QED
        BY <1>1, <3>1, <3>2, <3>3, <3>4, GivenAfter
    <2>7. QED
      BY <2>4, <2>5, <2>6
  <1>12. CASE ph.how = "equals"
    <2>1. PhraseArgs(ph) = <<LongArg(op.long, v)>>
      BY <1>4, <1>12
    <2>2. LongArg(op.long, v) \in A
      BY <1>8, <2>1
    <2>3. /\ op \in ToSet(opts) /\ op.long # None /\ op.type \in {"int", "string", "list"}
          /\ Fits(op, v) /\ v # None /\ sw = << >>
      BY <1>3, <1>12
    <2>4. Ready(ParseLong(opts, s, stop), r, Append(given, [id |-> op.id, value |-> v]))
      BY <2>1, <2>2, <2>3, EqualsIs
    <2>5. ParseArg(opts, s, stop) = ParseLong(opts, s, stop)
      <3>1. PICK l : l = left
        OBVIOUS
      <3>2. Ready(s, l, given) /\ Len(l) \in Nat /\ Len(l) >= 1 /\ l[1] = LongArg(op.long, v)
        BY <2>1, <2>2, <3>1, InFront
      <3>3. l[1].form = "long"
        BY <3>2, ArgsAre
      <3>4. QED
        BY <3>2, <3>3, TurnIs
    <2>6. given \o PhraseGiven(ph) = Append(given, [id |-> op.id, value |-> v])
      <3>1. PICK e : e = [id |-> op.id, value |-> v]
        OBVIOUS
      <3>2. e \in B
        <4>1. v \in V
          BY <1>10, <2>2, ArgsAre DEF IsArg
        <4>2. QED
          BY <1>7, <2>3, <3>1, <4>1
      <3>3. PhraseGiven(ph) = << >> \o <<e>>
        BY <1>5, <1>6, <1>12, <2>3, <3>1
      <3>4. << >> \in Seq(B)
        OBVIOUS
      <3>5. QED
        BY <1>1, <3>1, <3>2, <3>3, <3>4, GivenAfter
    <2>7. QED
      BY <2>4, <2>5, <2>6
  <1>13. CASE ph.how = "apart"
    <2>1. PhraseArgs(ph) = <<LongArg(op.long, None), Word(v)>>
      BY <1>4, <1>13
    <2>2. LongArg(op.long, None) \in A /\ Word(v) \in A
      BY <1>9, <2>1
    <2>3. /\ op \in ToSet(opts) /\ op.long # None /\ op.type \in {"int", "string", "list"}
          /\ Fits(op, v) /\ sw = << >>
      BY <1>3, <1>13
    <2>4. Ready(ParseLong(opts, s, stop), r, Append(given, [id |-> op.id, value |-> v]))
      BY <2>1, <2>2, <2>3, ApartIs
    <2>5. ParseArg(opts, s, stop) = ParseLong(opts, s, stop)
      <3>1. PICK l : l = left
        OBVIOUS
      <3>2. Ready(s, l, given) /\ Len(l) \in Nat /\ Len(l) >= 1 /\ l[1] = LongArg(op.long, None)
        BY <2>1, <2>2, <3>1, TwoInFront
      <3>3. l[1].form = "long"
        BY <3>2, ArgsAre
      <3>4. QED
        BY <3>2, <3>3, TurnIs
    <2>6. given \o PhraseGiven(ph) = Append(given, [id |-> op.id, value |-> v])
      <3>1. PICK e : e = [id |-> op.id, value |-> v]
        OBVIOUS
      <3>2. e \in B
        <4>1. v \in V
          BY <1>10, <2>2, ArgsAre DEF IsArg
        <4>2. QED
          BY <1>7, <2>3, <3>1, <4>1
      <3>3. PhraseGiven(ph) = << >> \o <<e>>
        BY <1>5, <1>6, <1>13, <2>3, <3>1
      <3>4. << >> \in Seq(B)
        OBVIOUS
      <3>5. QED
        BY <1>1, <3>1, <3>2, <3>3, <3>4, GivenAfter
    <2>7. QED
      BY <2>4, <2>5, <2>6
  <1>14. CASE ph.how \in {"cluster", "flag", "close"}
    <2>0. sw \in Seq(SwitchesOf(opts))
      BY <1>3, <1>14
    <2>1. Sets(sw) \in Seq(B)
      BY <2>0, SetsAre
    <2>2. ASSUME NEW f, Cluster(f) \in A, PhraseArgs(ph) = <<Cluster(f)>>
          PROVE  ParseArg(opts, s, stop) = ParseShort(opts, s, stop)
      <3>1. PICK l : l = left
        OBVIOUS
      <3>2. Ready(s, l, given) /\ Len(l) \in Nat /\ Len(l) >= 1 /\ l[1] = Cluster(f)
        BY <2>2, <3>1, InFront
      <3>3. l[1].form = "short"
        BY <3>2, ArgsAre
      <3>4. QED
        BY <3>2, <3>3, TurnIs
    <2>3. CASE ph.how = "cluster"
      <3>1. PhraseArgs(ph) = <<Cluster(flags)>>
        BY <1>4, <2>3
      <3>2. Cluster(flags) \in A
        BY <1>8, <3>1
      <3>3. Leads(opts, sw, flags) /\ Len(flags) = Len(sw)
        BY <2>0, FlagsLead DEF flags
      <3>4. Ready(ParseShort(opts, s, stop), r, given \o Sets(sw))
        BY <3>1, <3>2, <3>3, ClusterIs
      <3>5. PhraseGiven(ph) = Sets(sw) \o << >>
        BY <1>5, <2>3
      <3>6. given \o PhraseGiven(ph) = given \o Sets(sw)
        BY <1>1, <2>1, <3>5
      <3>7. QED
        BY <2>2, <3>1, <3>2, <3>4, <3>6
    <2>4. CASE ph.how = "flag"
      <3>1. PICK f : f = Append(flags, op.short)
        OBVIOUS
      <3>2. PhraseArgs(ph) = <<Cluster(f), Word(v)>>
        BY <1>4, <2>4, <3>1
      <3>3. Cluster(f) \in A /\ Word(v) \in A
        BY <1>9, <3>2
      <3>4. op \in ToSet(opts) /\ op.type \in {"int", "string", "list"} /\ Fits(op, v) /\ op.short # None
        BY <1>3, <2>4
      <3>5. Closes(opts, sw, f, op) /\ Len(f) = Len(sw) + 1
        <4>1. Leads(opts, sw, f) /\ Len(f) = Len(sw) + 1 /\ f[Len(sw) + 1] = op.short
          BY <2>0, <3>1, FlagsLead DEF flags
        <4>2. QED
          BY <2>0, <3>4, <4>1 DEF Closes
      <3>6. Ready(ParseShort(opts, s, stop), r, Append(given \o Sets(sw), [id |-> op.id, value |-> v]))
        BY <3>2, <3>3, <3>4, <3>5, FlagIs
      <3>7. ParseArg(opts, s, stop) = ParseShort(opts, s, stop)
        <4>1. PICK l : l = left
          OBVIOUS
        <4>2. Ready(s, l, given) /\ Len(l) \in Nat /\ Len(l) >= 1 /\ l[1] = Cluster(f)
          BY <3>2, <3>3, <4>1, TwoInFront
        <4>3. l[1].form = "short"
          BY <4>2, ArgsAre
        <4>4. QED
          BY <4>2, <4>3, TurnIs
      <3>8. given \o PhraseGiven(ph) = Append(given \o Sets(sw), [id |-> op.id, value |-> v])
        <4>1. PICK e : e = [id |-> op.id, value |-> v]
          OBVIOUS
        <4>2. v \in V
          BY <1>10, <3>3, ArgsAre DEF IsArg
        <4>3. e \in B
          BY <1>7, <3>4, <4>1, <4>2
        <4>4. PhraseGiven(ph) = Sets(sw) \o <<e>>
          BY <1>5, <2>4, <4>1
        <4>5. QED
          BY <1>1, <2>1, <4>1, <4>3, <4>4, GivenAfter
      <3>9. QED
        BY <3>6, <3>7, <3>8
    <2>5. CASE ph.how = "close"
      <3>1. PICK f : f = flags \o <<op.short, v>>
        OBVIOUS
      <3>2. PhraseArgs(ph) = <<Cluster(f)>>
        BY <1>4, <2>5, <3>1
      <3>3. Cluster(f) \in A
        BY <1>8, <3>2
      <3>4. op \in ToSet(opts) /\ op.type = "int" /\ v \in DOMAIN Numbers /\ op.short # None
        BY <1>3, <2>5
      <3>5. Closes(opts, sw, f, op) /\ Len(f) = Len(sw) + 2 /\ v = f[Len(sw) + 2]
        <4>1. Leads(opts, sw, f) /\ Len(f) = Len(sw) + 2 /\ f[Len(sw) + 1] = op.short /\ f[Len(sw) + 2] = v
          BY <2>0, <3>1, FlagsLead DEF flags
        <4>2. QED
          BY <2>0, <3>4, <4>1 DEF Closes
      <3>6. Ready(ParseShort(opts, s, stop), r, Append(given \o Sets(sw), [id |-> op.id, value |-> v]))
        BY <3>2, <3>3, <3>4, <3>5, CloseIs
      <3>7. given \o PhraseGiven(ph) = Append(given \o Sets(sw), [id |-> op.id, value |-> v])
        <4>1. PICK e : e = [id |-> op.id, value |-> v]
          OBVIOUS
        <4>2. v \in V
          <5>1. f \in Seq(V)
            BY <1>10, <3>3, ArgsAre DEF IsArg
          <5>2. Len(sw) \in Nat
            BY <2>0
          <5>3. QED
            BY <3>5, <5>1, <5>2
        <4>3. e \in B
          BY <1>7, <3>4, <4>1, <4>2
        <4>4. PhraseGiven(ph) = Sets(sw) \o <<e>>
          BY <1>5, <2>5, <4>1
        <4>5. QED
          BY <1>1, <2>1, <4>1, <4>3, <4>4, GivenAfter
      <3>8. QED
        BY <2>2, <3>2, <3>3, <3>6, <3>7
    <2>6. QED
      BY <1>14, <2>3, <2>4, <2>5
  <1>15. QED
    BY <1>3, <1>11, <1>12, <1>13, <1>14

\* Arguments and assignments are sequences, whatever the phrase.
LEMMA PhraseIs ==
  ASSUME NEW opts, NEW ph, IsPhrase(opts, ph)
  PROVE  /\ PhraseArgs(ph) \in Seq(ToSet(PhraseArgs(ph))) /\ Len(PhraseArgs(ph)) >= 1
         /\ \A a \in ToSet(PhraseArgs(ph)) : a.flags \in Seq(ToSet(a.flags))
         /\ PhraseGiven(ph) \in Seq(ToSet(PhraseGiven(ph)))
  <1> DEFINE op == ph.op
             v == ph.value
             sw == ph.switches
             flags == FlagsOf(sw)
             Good(a) == a.flags \in Seq(ToSet(a.flags))
             end == IF ph.how = "cluster" THEN << >>
                    ELSE <<[id |-> op.id, value |-> IF ph.how = "name" THEN None ELSE v]>>
  <1>1. /\ ph.how \in {"name", "equals", "apart", "cluster", "flag", "close"}
        /\ ph.how \in {"name", "equals", "apart"} => sw = << >>
        /\ ph.how \in {"cluster", "flag", "close"} => sw \in Seq(SwitchesOf(opts))
    BY PhraseRows
  <1>2. PhraseArgs(ph) =
          CASE ph.how = "name" -> <<LongArg(op.long, None)>>
            [] ph.how = "equals" -> <<LongArg(op.long, v)>>
            [] ph.how = "apart" -> <<LongArg(op.long, None), Word(v)>>
            [] ph.how = "cluster" -> <<Cluster(flags)>>
            [] ph.how = "flag" -> <<Cluster(Append(flags, op.short)), Word(v)>>
            [] ph.how = "close" -> <<Cluster(flags \o <<op.short, v>>)>>
    BY DEF PhraseArgs, FlagsOf
  <1>3. PhraseGiven(ph) = Sets(sw) \o end
    BY DEF PhraseGiven, Sets
  <1>4. sw = << >> \/ sw \in Seq(SwitchesOf(opts))
    BY <1>1
  <1>5. \E T : sw \in Seq(T)
    <2>1. << >> \in Seq({})
      OBVIOUS
    <2>2. QED
      BY <1>4, <2>1
  <1>6. PICK T : sw \in Seq(T)
    BY <1>5
  <1>7. DOMAIN sw = 1..Len(sw) /\ Len(sw) \in Nat
    BY <1>6
  <1>8. Sets(sw) \in Seq({[id |-> sw[i].id, value |-> None] : i \in 1..Len(sw)})
    <2>1. Sets(sw) = [i \in 1..Len(sw) |-> [id |-> sw[i].id, value |-> None]]
      BY <1>7 DEF Sets
    <2> DEFINE S == {[id |-> sw[i].id, value |-> None] : i \in 1..Len(sw)}
    <2>2. \A i \in 1..Len(sw) : [id |-> sw[i].id, value |-> None] \in S
      OBVIOUS
    <2> HIDE DEF S
    <2>3. Sets(sw) \in [1..Len(sw) -> S]
      BY <2>1, <2>2
    <2>4. Sets(sw) \in Seq(S)
      BY <1>7, <2>3
    <2>5. QED
      BY <2>4 DEF S
  <1>9. flags \in Seq({sw[i].short : i \in 1..Len(sw)})
    <2>1. flags = [i \in 1..Len(sw) |-> sw[i].short]
      BY <1>7 DEF FlagsOf
    <2> DEFINE S == {sw[i].short : i \in 1..Len(sw)}
    <2>2. \A i \in 1..Len(sw) : sw[i].short \in S
      OBVIOUS
    <2>3. flags \in [1..Len(sw) -> S]
      BY <2>1, <2>2
    <2>4. QED
      BY <1>7, <2>3
  <1>10. \A n, x : Good(LongArg(n, x)) /\ Good(Word(x))
    <2>1. << >> \in Seq(ToSet(<< >>))
      OBVIOUS
    <2>2. ASSUME NEW n, NEW x PROVE LongArg(n, x).flags = << >> /\ Word(x).flags = << >>
      BY ArgsAre
    <2>3. QED
      BY <2>1, <2>2
  <1>11. \A f, S : f \in Seq(S) => Good(Cluster(f))
    BY ArgsAre, SequenceOfItsOwn
  <1>12. \A x, y : Good(Cluster(flags)) /\ Good(Cluster(Append(flags, x))) /\ Good(Cluster(flags \o <<x, y>>))
    <2> SUFFICES ASSUME NEW x, NEW y
                 PROVE  Good(Cluster(flags)) /\ Good(Cluster(Append(flags, x))) /\ Good(Cluster(flags \o <<x, y>>))
      OBVIOUS
    <2> DEFINE S == {sw[i].short : i \in 1..Len(sw)} \cup {x, y}
    <2>1. PICK f : f = flags
      OBVIOUS
    <2>2. f \in Seq(S) /\ x \in S /\ y \in S
      BY <1>9, <2>1
    <2> HIDE DEF S, Good, flags
    <2>3. Append(f, x) \in Seq(S) /\ f \o <<x, y>> \in Seq(S)
      BY <2>2
    <2>4. QED
      BY <1>11, <2>1, <2>2, <2>3
  <1> HIDE DEF flags, op, v, sw, Good
  <1>13. \A a, b : /\ Good(a) => /\ <<a>> \in Seq(ToSet(<<a>>)) /\ Len(<<a>>) >= 1
                                 /\ \A c \in ToSet(<<a>>) : Good(c)
                   /\ Good(a) /\ Good(b) => /\ <<a, b>> \in Seq(ToSet(<<a, b>>)) /\ Len(<<a, b>>) >= 1
                                            /\ \A c \in ToSet(<<a, b>>) : Good(c)
    <2>1. ASSUME NEW a, Good(a)
          PROVE  <<a>> \in Seq(ToSet(<<a>>)) /\ Len(<<a>>) >= 1 /\ \A c \in ToSet(<<a>>) : Good(c)
      <3>1. PICK q : q = <<a>>
        OBVIOUS
      <3>2. q \in Seq({a}) /\ Len(q) = 1
        BY <3>1
      <3>3. q \in Seq(ToSet(q)) /\ ToSet(q) \subseteq {a}
        BY <3>2, SequenceOfItsOwn
      <3>4. QED
        BY <2>1, <3>1, <3>2, <3>3
    <2>2. ASSUME NEW a, NEW b, Good(a), Good(b)
          PROVE  /\ <<a, b>> \in Seq(ToSet(<<a, b>>)) /\ Len(<<a, b>>) >= 1
                 /\ \A c \in ToSet(<<a, b>>) : Good(c)
      <3>1. PICK q : q = <<a, b>>
        OBVIOUS
      <3>2. q \in Seq({a, b}) /\ Len(q) = 2
        BY <3>1
      <3>3. q \in Seq(ToSet(q)) /\ ToSet(q) \subseteq {a, b}
        BY <3>2, SequenceOfItsOwn
      <3>4. QED
        BY <2>2, <3>1, <3>2, <3>3
    <2>3. QED
      BY <2>1, <2>2
  <1>14. \/ \E a : Good(a) /\ PhraseArgs(ph) = <<a>>
         \/ \E a, b : Good(a) /\ Good(b) /\ PhraseArgs(ph) = <<a, b>>
    BY <1>1, <1>2, <1>10, <1>12
  <1>15. /\ PhraseArgs(ph) \in Seq(ToSet(PhraseArgs(ph))) /\ Len(PhraseArgs(ph)) >= 1
         /\ \A c \in ToSet(PhraseArgs(ph)) : Good(c)
    BY <1>13, <1>14
  <1>16. \E S : PhraseGiven(ph) \in Seq(S)
    <2> DEFINE S1 == {[id |-> sw[i].id, value |-> None] : i \in 1..Len(sw)}
    <2>1. \E S2 : end \in Seq(S2)
      <3>1. << >> \in Seq({})
        OBVIOUS
      <3>2. \A e : <<e>> \in Seq({e})
        OBVIOUS
      <3>3. end = << >> \/ \E e : end = <<e>>
        OBVIOUS
      <3> HIDE DEF end
      <3>4. QED
        BY <3>1, <3>2, <3>3
    <2>2. PICK S2 : end \in Seq(S2)
      BY <2>1
    <2>3. Sets(sw) \in Seq(S1)
      BY <1>8
    <2> HIDE DEF S1, end
    <2>4. PICK x : x = Sets(sw)
      OBVIOUS
    <2>5. x \in Seq(S1 \cup S2) /\ end \in Seq(S1 \cup S2)
      BY <2>2, <2>3, <2>4
    <2>6. x \o end \in Seq(S1 \cup S2)
      BY <2>5
    <2>7. QED
      BY <1>3, <2>4, <2>6
  <1>17. QED
    BY <1>15, <1>16, SequenceOfItsOwn DEF Good

\* What a parse has made of its arguments.
Understood(p, left, given) == p.left = left /\ p.given = given /\ ~p.crashed

\* Phrases of a table, made of arguments in A.
PhrasesIn(phrases, opts, A) ==
  /\ phrases \in Seq(ToSet(phrases))
  /\ \A ph \in ToSet(phrases) : IsPhrase(opts, ph) /\ PhraseArgs(ph) \in Seq(A)

\* What follows the phrases ends a parse.
EndsThere(dashes, rest, opts, stop, A) ==
  /\ dashes \in BOOLEAN /\ rest \in Seq(A)
  /\ dashes => Dashes \in A
  /\ ~dashes /\ rest # << >> =>
       rest[1].form = "word" /\ (stop = TRUE \/ IsCommand(opts, rest[1].text))

\* The turn that ends a parse, and those after it.
LEMMA EndingTurn ==
  ASSUME NEW A, NEW V, NEW I, NEW opts, Context(A, V, I, opts), NEW stop, NEW dashes, NEW rest,
         EndsThere(dashes, rest, opts, stop, A),
         NEW s \in States(A, V, I), NEW given, Ready(s, Ending(dashes, rest), given)
  PROVE  Ended(ParseArg(opts, s, stop), rest, given)
  <1>1. rest \in Seq(A) /\ Len(rest) \in Nat
    BY DEF EndsThere
  <1>2. CASE dashes
    <2>1. PICK arg \in A : arg = Dashes
      BY <1>2 DEF EndsThere
    <2>2. PICK l : l = <<arg>> \o rest
      OBVIOUS
    <2>3. /\ l[1] = arg /\ Len(l) = Len(rest) + 1
          /\ SubSeq(l, 1, 0) \o SubSeq(l, 1 + 1, Len(l)) = rest
      BY <1>1, <2>2, InFront
    <2>4. Ready(s, l, given)
      BY <1>2, <2>1, <2>2 DEF Ending
    <2>5. arg.form = "dashes"
      BY <2>1, ArgsAre
    <2>6. ParseArg(opts, s, stop) = [Shift(s, 1) EXCEPT !.over = TRUE]
      BY <1>1, <2>3, <2>4, <2>5, TurnIs
    <2>7. PICK x : x = Shift(s, 1)
      OBVIOUS
    <2>8. x \in States(A, V, I) /\ Ready(x, rest, given)
      BY <1>1, <2>3, <2>4, <2>7, ReadyShifts
    <2>9. QED
      BY <2>6, <2>7, <2>8 DEF Ready, Ended, States
  <1>3. CASE ~dashes
    <2>1. Ready(s, rest, given)
      BY <1>3 DEF Ending
    <2>2. CASE rest = << >>
      <3>1. Len(rest) = 0
        BY <2>2
      <3>2. ParseArg(opts, s, stop) = [s EXCEPT !.over = TRUE]
        BY <2>1, <3>1 DEF ParseArg, Ready
      <3>3. QED
        BY <2>1, <3>2 DEF Ready, Ended, States
    <2>3. CASE rest # << >>
      <3>1. rest[1].form = "word" /\ (stop = TRUE \/ IsCommand(opts, rest[1].text))
        BY <1>3, <2>3 DEF EndsThere
      <3>2. Len(rest) >= 1
        BY <1>1, <2>3
      <3>3. ParseArg(opts, s, stop) =
              IF IsCommand(opts, rest[1].text) THEN [s EXCEPT !.over = TRUE] ELSE Unknown(s, stop)
        BY <1>1, <2>1, <3>1, <3>2, TurnIs
      <3>4. ParseArg(opts, s, stop) = [s EXCEPT !.over = TRUE]
        BY <3>1, <3>3 DEF Unknown
      <3>5. QED
        BY <2>1, <3>4 DEF Ready, Ended, States
    <2>4. QED
      BY <2>2, <2>3
  <1>4. QED
    BY <1>2, <1>3 DEF EndsThere

LEMMA EndedStays ==
  ASSUME NEW A, NEW V, NEW I, NEW opts, NEW stop, NEW s \in States(A, V, I), NEW left, NEW given,
         Ended(s, left, given)
  PROVE  Ended(ParseArg(opts, s, stop), left, given)
  <1>1. ParseArg(opts, s, stop) = [s EXCEPT !.over = TRUE]
    BY DEF ParseArg, Ended
  <1>2. QED
    BY <1>1 DEF Ended, States

\* The arguments, and the assignments, of the first phrases.
Spoken(fa, ga, phrases, A, B) ==
  /\ fa \in [0..Len(phrases) -> Seq(A)] /\ ga \in [0..Len(phrases) -> Seq(B)]
  /\ fa[0] = << >> /\ fa[Len(phrases)] = ArgsOf(phrases)
  /\ ga[0] = << >> /\ ga[Len(phrases)] = GivenOf(phrases)
  /\ \A i \in 1..Len(phrases) :
       /\ fa[i] = fa[i - 1] \o PhraseArgs(phrases[i])
       /\ ga[i] = ga[i - 1] \o PhraseGiven(phrases[i])
       /\ Len(fa[i]) >= i

LEMMA PhrasesSpoken ==
  ASSUME NEW A, NEW opts, NEW phrases, PhrasesIn(phrases, opts, A)
  PROVE  \E fa, ga, B : Spoken(fa, ga, phrases, A, B)
  <1> DEFINE n == Len(phrases)
             B == UNION {ToSet(PhraseGiven(ph)) : ph \in ToSet(phrases)}
             F == [i \in DOMAIN phrases |-> PhraseArgs(phrases[i])]
             G == [i \in DOMAIN phrases |-> PhraseGiven(phrases[i])]
  <1>1. n \in Nat /\ DOMAIN phrases = 1..n /\ \A i \in 1..n : phrases[i] \in ToSet(phrases)
    BY DEF PhrasesIn
  <1>2. \A i \in 1..n : /\ PhraseArgs(phrases[i]) \in Seq(A) /\ Len(PhraseArgs(phrases[i])) >= 1
                        /\ PhraseGiven(phrases[i]) \in Seq(B)
    <2> SUFFICES ASSUME NEW i \in 1..n
                 PROVE  /\ PhraseArgs(phrases[i]) \in Seq(A) /\ Len(PhraseArgs(phrases[i])) >= 1
                        /\ PhraseGiven(phrases[i]) \in Seq(B)
      OBVIOUS
    <2>1. PICK ph \in ToSet(phrases) : ph = phrases[i]
      BY <1>1
    <2>2. IsPhrase(opts, ph) /\ PhraseArgs(ph) \in Seq(A)
      BY DEF PhrasesIn
    <2>3. Len(PhraseArgs(ph)) >= 1 /\ PhraseGiven(ph) \in Seq(ToSet(PhraseGiven(ph)))
      BY <2>2, PhraseIs
    <2>4. ToSet(PhraseGiven(ph)) \subseteq B
      OBVIOUS
    <2> HIDE DEF B
    <2>5. PhraseGiven(ph) \in Seq(B)
      BY <2>3, <2>4
    <2>6. QED
      BY <2>1, <2>2, <2>3, <2>5
  <1>3. F \in Seq(Seq(A)) /\ Len(F) = n /\ \A i \in 1..n : F[i] = PhraseArgs(phrases[i])
    <2>1. F = [i \in 1..n |-> PhraseArgs(phrases[i])]
      BY <1>1
    <2> HIDE DEF n
    <2>2. F \in [1..n -> Seq(A)]
      BY <1>2, <2>1
    <2>3. QED
      BY <1>1, <2>1, <2>2
  <1>4. G \in Seq(Seq(B)) /\ Len(G) = n /\ \A i \in 1..n : G[i] = PhraseGiven(phrases[i])
    <2>1. G = [i \in 1..n |-> PhraseGiven(phrases[i])]
      BY <1>1
    <2> HIDE DEF n, B
    <2>2. G \in [1..n -> Seq(B)]
      BY <1>2, <2>1
    <2>3. QED
      BY <1>1, <2>1, <2>2
  <1>5. ArgsOf(phrases) = FlattenSeq(F) /\ GivenOf(phrases) = FlattenSeq(G)
    BY DEF ArgsOf, GivenOf
  <1> HIDE DEF B, F, G, n
  <1>6. PICK fa : Joins(fa, A, F)
    BY <1>3, Flattens
  <1>7. PICK ga : Joins(ga, B, G)
    BY <1>4, Flattens
  <1>8. /\ fa \in [0..n -> Seq(A)] /\ fa[0] = << >> /\ fa[n] = ArgsOf(phrases)
        /\ \A i \in 1..n : fa[i] = fa[i - 1] \o PhraseArgs(phrases[i])
    BY <1>3, <1>5, <1>6 DEF Joins
  <1>9. /\ ga \in [0..n -> Seq(B)] /\ ga[0] = << >> /\ ga[n] = GivenOf(phrases)
        /\ \A i \in 1..n : ga[i] = ga[i - 1] \o PhraseGiven(phrases[i])
    BY <1>4, <1>5, <1>7 DEF Joins
  <1>10. \A i \in 1..n : Len(fa[i]) >= i
    <2> DEFINE Q(k) == k <= n => Len(fa[k]) >= k
               P == {k \in Nat : Q(k)}
    <2>1. Q(0)
      BY <1>8
    <2>2. ASSUME NEW k \in Nat, Q(k), k + 1 <= n PROVE Len(fa[k + 1]) >= k + 1
      <3>1. k \in 0..n /\ k + 1 \in 1..n /\ (k + 1) - 1 = k
        BY <1>1, <2>2
      <3>2. PICK x, y : x = fa[k] /\ y = PhraseArgs(phrases[k + 1])
        OBVIOUS
      <3>3. x \in Seq(A) /\ y \in Seq(A) /\ Len(y) >= 1 /\ Len(x) >= k /\ fa[k + 1] = x \o y
        <4>1. fa[k] \in Seq(A) /\ fa[k + 1] = fa[k] \o PhraseArgs(phrases[k + 1])
          BY <1>8, <3>1
        <4>2. PhraseArgs(phrases[k + 1]) \in Seq(A) /\ Len(PhraseArgs(phrases[k + 1])) >= 1
          BY <1>2, <3>1
        <4>3. Len(fa[k]) >= k
          BY <2>2, <3>1
        <4>4. QED
          BY <3>2, <4>1, <4>2, <4>3
      <3>4. QED
        BY <3>3
    <2>3. \A k \in Nat : Q(k) => Q(k + 1)
      BY <2>2
    <2> HIDE DEF Q
    <2>4. 0 \in P /\ \A k \in Nat : k \in P => k + 1 \in P
      BY <2>1, <2>3
    <2>5. Nat \subseteq P
      <3> HIDE DEF P
      <3>1. QED
        BY <2>4, Induction
    <2>6. \A k \in Nat : Q(k)
      BY <2>5
    <2>7. QED
      BY <2>6 DEF Q
  <1>11. Spoken(fa, ga, phrases, A, B)
    BY <1>8, <1>9, <1>10 DEF Spoken, n
  <1>12. QED
    BY <1>11

\* Each turn reads a phrase.
LEMMA PhrasesTurn ==
  ASSUME NEW A, NEW V, NEW I, NEW opts, Context(A, V, I, opts), NEW stop,
         NEW phrases, PhrasesIn(phrases, opts, A),
         NEW fa, NEW ga, NEW B, Spoken(fa, ga, phrases, A, B),
         NEW first, NEW N \in Nat, Len(phrases) <= N,
         NEW T, Turns(T, A, V, I, opts, first, stop, N),
         NEW r \in Seq(A), first = ArgsOf(phrases) \o r
  PROVE  Ready(T[Len(phrases)], r, GivenOf(phrases))
  <1>1. PICK n \in Nat : n = Len(phrases)
    BY DEF PhrasesIn
  <1>2. /\ fa \in [0..n -> Seq(A)] /\ fa[0] = << >> /\ fa[n] = ArgsOf(phrases)
        /\ \A i \in 1..n : fa[i] = fa[i - 1] \o PhraseArgs(phrases[i])
    BY <1>1 DEF Spoken
  <1>3. /\ ga \in [0..n -> Seq(B)] /\ ga[0] = << >> /\ ga[n] = GivenOf(phrases)
        /\ \A i \in 1..n : ga[i] = ga[i - 1] \o PhraseGiven(phrases[i])
    BY <1>1 DEF Spoken
  <1>4. \A i \in 1..n : IsPhrase(opts, phrases[i]) /\ PhraseArgs(phrases[i]) \in Seq(A)
    <2>1. \A i \in 1..n : phrases[i] \in ToSet(phrases)
      BY <1>1 DEF PhrasesIn
    <2>2. QED
      BY <2>1 DEF PhrasesIn
  <1>5. T[0] = Parsing(first) /\ \A k \in 1..N : T[k] = ParseArg(opts, T[k - 1], stop)
    BY DEF Turns
  <1>6. \A k \in 0..N : T[k] \in States(A, V, I)
    BY DEF Turns
  <1> DEFINE Q(k) == k <= n => \A q \in Seq(A) : first = fa[k] \o q => Ready(T[k], q, ga[k])
             P == {k \in Nat : Q(k)}
  <1>7. Q(0)
    <2> SUFFICES ASSUME NEW q \in Seq(A), first = fa[0] \o q PROVE Ready(T[0], q, ga[0])
      OBVIOUS
    <2>1. first = q
      BY <1>2
    <2>2. QED
      BY <1>3, <1>5, <2>1 DEF Parsing, Ready
  <1>8. ASSUME NEW k \in Nat, Q(k), k + 1 <= n, NEW q \in Seq(A), first = fa[k + 1] \o q
        PROVE  Ready(T[k + 1], q, ga[k + 1])
    <2>1. k \in 0..n /\ k + 1 \in 1..n /\ (k + 1) - 1 = k /\ k \in 0..N /\ k + 1 \in 1..N /\ k <= n
      BY <1>1, <1>8
    <2>2. PICK ph : ph = phrases[k + 1]
      OBVIOUS
    <2>3. IsPhrase(opts, ph) /\ PhraseArgs(ph) \in Seq(A)
      BY <1>4, <2>1, <2>2
    <2>4. fa[k] \in Seq(A) /\ fa[k + 1] = fa[k] \o PhraseArgs(ph)
      BY <1>2, <2>1, <2>2
    <2>5. ga[k + 1] = ga[k] \o PhraseGiven(ph)
      BY <1>3, <2>1, <2>2
    <2>6. PICK l : l = PhraseArgs(ph) \o q
      OBVIOUS
    <2>7. l \in Seq(A) /\ first = fa[k] \o l
      <3>1. PICK x, y : x = fa[k] /\ y = PhraseArgs(ph)
        OBVIOUS
      <3>2. x \in Seq(A) /\ y \in Seq(A) /\ l = y \o q /\ first = (x \o y) \o q
        BY <1>8, <2>3, <2>4, <2>6, <3>1
      <3>3. (x \o y) \o q = x \o (y \o q)
        BY <3>2, Associates
      <3>4. QED
        BY <3>1, <3>2, <3>3
    <2>8. Ready(T[k], l, ga[k])
      BY <1>8, <2>1, <2>7
    <2>9. PICK s, given : s = T[k] /\ given = ga[k]
      OBVIOUS
    <2>10. s \in States(A, V, I) /\ T[k + 1] = ParseArg(opts, s, stop)
      BY <1>5, <1>6, <2>1, <2>9
    <2>11. Ready(s, PhraseArgs(ph) \o q, given)
      BY <2>6, <2>8, <2>9
    <2>12. Ready(ParseArg(opts, s, stop), q, given \o PhraseGiven(ph))
      BY <2>3, <2>10, <2>11, PhraseTurn
    <2>13. QED
      BY <2>5, <2>9, <2>10, <2>12
  <1>9. \A k \in Nat : Q(k) => Q(k + 1)
    BY <1>8
  <1>10. Q(n)
    <2> HIDE DEF Q
    <2>1. 0 \in P /\ \A k \in Nat : k \in P => k + 1 \in P
      BY <1>7, <1>9
    <2>2. Nat \subseteq P
      <3> HIDE DEF P
      <3>1. QED
        BY <2>1, Induction
    <2>3. QED
      BY <2>2
  <1>11. Ready(T[n], r, ga[n])
    <2>1. n <= n /\ first = fa[n] \o r
      BY <1>2
    <2>2. QED
      BY <1>10, <2>1
  <1>12. QED
    BY <1>1, <1>3, <1>11

\* Phrases in a row, and what follows them, are understood.
LEMMA PhrasesParse ==
  ASSUME NEW A, NEW V, NEW I, NEW opts, Context(A, V, I, opts),
         NEW phrases, PhrasesIn(phrases, opts, A), NEW stop,
         NEW dashes, NEW rest, EndsThere(dashes, rest, opts, stop, A),
         NEW skip, NEW args \in Seq(A), skip => args # << >>,
         (IF skip THEN Tail(args) ELSE args) = ArgsOf(phrases) \o Ending(dashes, rest)
  PROVE  Understood(Parse(opts, args, skip, stop), rest, GivenOf(phrases))
  <1>1. PICK first : first = IF skip THEN Tail(args) ELSE args
    OBVIOUS
  <1>2. PICK N \in Nat : N = Len(args)
    OBVIOUS
  <1>3. PICK T : Turns(T, A, V, I, opts, first, stop, N) /\ T[N] = Parse(opts, args, skip, stop)
    <2>1. None \in V /\ (\A a \in A : IsArg(a, V)) /\ IsTable(opts, I)
      BY DEF Context
    <2>2. QED
      BY <1>1, <1>2, <2>1, ParseTurns
  <1>4. PICK fa, ga, B : Spoken(fa, ga, phrases, A, B)
    BY PhrasesSpoken
  <1>5. PICK n \in Nat : n = Len(phrases)
    BY DEF PhrasesIn
  <1>6. PICK e : e = Ending(dashes, rest)
    OBVIOUS
  <1>7. e \in Seq(A)
    <2>1. rest \in Seq(A) /\ dashes \in BOOLEAN
      BY DEF EndsThere
    <2>2. CASE dashes
      <3>1. PICK d \in A : d = Dashes
        BY <2>2 DEF EndsThere
      <3>2. e = <<d>> \o rest
        BY <1>6, <2>2, <3>1 DEF Ending
      <3>3. QED
        BY <2>1, <3>2, InFront
    <2>3. CASE ~dashes
      BY <1>6, <2>1, <2>3 DEF Ending
    <2>4. QED
      BY <2>1, <2>2, <2>3
  <1>8. ArgsOf(phrases) \in Seq(A) /\ (n = 0 => ArgsOf(phrases) = << >>) /\ Len(ArgsOf(phrases)) >= n
    <2>1. fa[n] = ArgsOf(phrases) /\ fa \in [0..n -> Seq(A)] /\ fa[0] = << >>
          /\ \A i \in 1..n : Len(fa[i]) >= i
      BY <1>4, <1>5 DEF Spoken
    <2>2. fa[n] \in Seq(A)
      BY <2>1
    <2>3. CASE n = 0
      BY <2>1, <2>3
    <2>4. CASE n # 0
      BY <2>1, <2>2, <2>4
    <2>5. QED
      BY <2>3, <2>4
  <1>9. Len(first) <= N /\ first \in Seq(A)
    BY <1>1, <1>2
  <1>10. first = ArgsOf(phrases) \o e
    BY <1>1, <1>6
  <1>11. n <= N /\ (n = N => e = << >>)
    <2>1. PICK x : x = ArgsOf(phrases)
      OBVIOUS
    <2>2. x \in Seq(A) /\ Len(x) >= n /\ first = x \o e
      BY <1>8, <1>10, <2>1
    <2>3. Len(first) = Len(x) + Len(e) /\ Len(e) \in Nat /\ Len(x) \in Nat
      BY <1>7, <2>2
    <2>4. n <= N /\ (n = N => Len(e) = 0)
      BY <1>2, <1>9, <2>2, <2>3
    <2>5. QED
      BY <1>7, <2>4
  <1>12. Ready(T[n], e, GivenOf(phrases))
    BY <1>3, <1>4, <1>5, <1>7, <1>10, <1>11, PhrasesTurn
  <1>13. T[n] \in States(A, V, I) /\ \A k \in 1..N : T[k] = ParseArg(opts, T[k - 1], stop)
    BY <1>3, <1>11 DEF Turns
  <1>14. CASE n = N
    <2>1. e = << >> /\ rest = << >>
      <3>1. e = << >> /\ Len(e) = 0
        BY <1>11, <1>14
      <3>2. ~dashes
        <4>1. ASSUME dashes PROVE FALSE
          <5>1. PICK d \in A : d = Dashes
            BY <4>1 DEF EndsThere
          <5>2. e = <<d>> \o rest /\ rest \in Seq(A)
            BY <1>6, <4>1, <5>1 DEF Ending, EndsThere
          <5>3. Len(e) = Len(rest) + 1 /\ Len(rest) \in Nat
            BY <5>2, InFront
          <5>4. QED
            BY <3>1, <5>3
        <4>2. QED
          BY <4>1
      <3>3. QED
        BY <1>6, <3>1, <3>2 DEF Ending
    <2>2. QED
      BY <1>3, <1>12, <1>14, <2>1 DEF Ready, Understood
  <1>15. CASE n # N
    <2>1. n + 1 \in 1..N /\ (n + 1) - 1 = n /\ n + 1 <= N
      BY <1>11, <1>15
    <2>2. PICK s, given : s = T[n] /\ given = GivenOf(phrases)
      OBVIOUS
    <2>3. s \in States(A, V, I) /\ Ready(s, Ending(dashes, rest), given)
      BY <1>6, <1>12, <1>13, <2>2
    <2>4. Ended(ParseArg(opts, s, stop), rest, given)
      BY <2>3, EndingTurn
    <2>5. Ended(T[n + 1], rest, given)
      BY <1>13, <2>1, <2>2, <2>4
    <2> DEFINE Q(k) == n + 1 + k <= N => Ended(T[n + 1 + k], rest, given)
               P == {k \in Nat : Q(k)}
    <2>6. Q(0)
      BY <2>5
    <2>7. ASSUME NEW k \in Nat, Q(k), n + 1 + (k + 1) <= N
          PROVE  Ended(T[n + 1 + (k + 1)], rest, given)
      <3>1. PICK m : m = n + 1 + k
        OBVIOUS
      <3>2. m \in 0..N /\ n + 1 + (k + 1) = m + 1 /\ m + 1 \in 1..N /\ (m + 1) - 1 = m /\ n + 1 + k <= N
        BY <2>7, <3>1
      <3>3. T[m] \in States(A, V, I) /\ Ended(T[m], rest, given)
        BY <1>3, <2>7, <3>1, <3>2 DEF Turns
      <3>4. T[m + 1] = ParseArg(opts, T[m], stop)
        BY <1>13, <3>2
      <3>5. PICK x : x = T[m]
        OBVIOUS
      <3>6. Ended(ParseArg(opts, x, stop), rest, given)
        BY <3>3, <3>5, EndedStays
      <3>7. QED
        BY <3>2, <3>4, <3>5, <3>6
    <2>8. \A k \in Nat : Q(k) => Q(k + 1)
      BY <2>7
    <2>9. \A k \in Nat : Q(k)
      <3> HIDE DEF Q
      <3>1. 0 \in P /\ \A k \in Nat : k \in P => k + 1 \in P
        BY <2>6, <2>8
      <3>2. Nat \subseteq P
        <4> HIDE DEF P
        <4>1. QED
          BY <3>1, Induction
      <3>3. QED
        BY <3>2
    <2>10. Ended(T[N], rest, given)
      <3>1. PICK k \in Nat : n + 1 + k = N
        <4>1. N - n - 1 \in Nat /\ n + 1 + (N - n - 1) = N
          BY <2>1
        <4>2. QED
          BY <4>1
      <3>2. Q(k)
        BY <2>9
      <3>3. QED
        BY <3>1, <3>2
    <2>11. QED
      BY <1>3, <2>2, <2>10 DEF Ended, Understood
  <1>16. QED
    BY <1>14, <1>15

\* Phrases of a table.
ArePhrases(phrases, opts) ==
  phrases \in Seq(ToSet(phrases)) /\ \A ph \in ToSet(phrases) : IsPhrase(opts, ph)

\* The arguments of phrases.
Speaks(phrases) == UNION {ToSet(PhraseArgs(ph)) : ph \in ToSet(phrases)}

LEMMA SpeaksAre ==
  ASSUME NEW opts, NEW phrases, ArePhrases(phrases, opts), NEW A, Speaks(phrases) \subseteq A
  PROVE  /\ \A a \in Speaks(phrases) : a.flags \in Seq(ToSet(a.flags))
         /\ PhrasesIn(phrases, opts, A) /\ ArgsOf(phrases) \in Seq(A)
  <1>1. \A ph \in ToSet(phrases) :
          /\ PhraseArgs(ph) \in Seq(ToSet(PhraseArgs(ph)))
          /\ \A a \in ToSet(PhraseArgs(ph)) : a.flags \in Seq(ToSet(a.flags))
    BY PhraseIs DEF ArePhrases
  <1>2. ASSUME NEW ph \in ToSet(phrases) PROVE PhraseArgs(ph) \in Seq(A)
    <2>1. ToSet(PhraseArgs(ph)) \subseteq A
      BY DEF Speaks
    <2>2. QED
      BY <1>1, <2>1
  <1>3. PhrasesIn(phrases, opts, A)
    BY <1>2 DEF ArePhrases, PhrasesIn
  <1>4. ArgsOf(phrases) \in Seq(A)
    <2>1. PICK fa, ga, B : Spoken(fa, ga, phrases, A, B)
      BY <1>3, PhrasesSpoken
    <2>2. Len(phrases) \in 0..Len(phrases)
      BY DEF ArePhrases
    <2>3. QED
      BY <2>1, <2>2 DEF Spoken
  <1>5. QED
    BY <1>1, <1>3, <1>4 DEF Speaks

LEMMA EndingIs ==
  ASSUME NEW dashes, NEW rest, IsEnding(dashes, rest), NEW A, Dashes \in A, ToSet(rest) \subseteq A
  PROVE  rest \in Seq(A) /\ Ending(dashes, rest) \in Seq(A)
  <1>1. rest \in Seq(A) /\ dashes \in BOOLEAN
    BY DEF IsEnding
  <1>2. <<Dashes>> \o rest \in Seq(A)
    <2>1. PICK d \in A : d = Dashes
      OBVIOUS
    <2>2. QED
      BY <1>1, <2>1, InFront
  <1>3. QED
    BY <1>1, <1>2 DEF Ending

\* The grammar that parse-options.h documents is the one that is parsed: in a
\* table in which no two options share a flag, phrases in a row make their
\* assignments, in order, whatever the number of phrases and the way each is
\* spelled, and what follows them is left as it is.  It is a "--" and anything,
\* the name of a command, or, where the first argument that is no option ends
\* the parse, any word.
THEOREM PhrasesAreUnderstood ==
  ASSUME NEW opts, Distinct(opts),
         NEW phrases, ArePhrases(phrases, opts),
         NEW dashes, NEW rest, IsEnding(dashes, rest), NEW stop \in BOOLEAN,
         ~dashes /\ rest # << >> => stop \/ IsCommand(opts, Head(rest).text),
         NEW name, NEW skip \in BOOLEAN
  PROVE  LET args == ArgsOf(phrases) \o Ending(dashes, rest)
         IN  Understood(Parse(opts, IF skip THEN <<Word(name)>> \o args ELSE args, skip, stop),
                        rest, GivenOf(phrases))
  <1> DEFINE A == Speaks(phrases) \cup ToSet(rest) \cup {Dashes, Word(name)}
             V == Texts(A)
             I == {op.id : op \in ToSet(opts)}
             args == ArgsOf(phrases) \o Ending(dashes, rest)
             all == IF skip THEN <<Word(name)>> \o args ELSE args
  <1>1. /\ Speaks(phrases) \subseteq A /\ ToSet(rest) \subseteq A /\ Dashes \in A /\ Word(name) \in A
    OBVIOUS
  <1>2. \A a \in A : a.flags \in Seq(ToSet(a.flags))
    <2>1. \A a \in Speaks(phrases) : a.flags \in Seq(ToSet(a.flags))
      BY SpeaksAre
    <2>2. \A a \in ToSet(rest) : a.flags \in Seq(ToSet(a.flags))
      BY DEF IsEnding, ToSet
    <2>3. << >> \in Seq(ToSet(<< >>))
      OBVIOUS
    <2>4. Dashes.flags = << >> /\ Word(name).flags = << >>
      BY ArgsAre
    <2>5. QED
      BY <2>1, <2>2, <2>3, <2>4
  <1> HIDE DEF A
  <1>3. None \in V /\ \A a \in A : IsArg(a, V)
    BY <1>2, TextsAre
  <1>4. IsTable(opts, I)
    BY DEF IsTable, Distinct
  <1> HIDE DEF V, I
  <1>5. Context(A, V, I, opts)
    BY <1>3, <1>4 DEF Context
  <1>6. PhrasesIn(phrases, opts, A) /\ ArgsOf(phrases) \in Seq(A)
    BY <1>1, SpeaksAre
  <1>7. rest \in Seq(A) /\ Ending(dashes, rest) \in Seq(A)
    BY <1>1, EndingIs
  <1>8. EndsThere(dashes, rest, opts, stop, A)
    <2>1. rest # << >> => Head(rest) = rest[1]
      BY <1>7
    <2>2. QED
      BY <1>1, <1>7, <2>1 DEF EndsThere, IsEnding
  <1>9. args \in Seq(A)
    BY <1>6, <1>7
  <1> HIDE DEF args
  <1>10. PICK w \in A : w = Word(name)
    BY <1>1
  <1>11. all \in Seq(A) /\ (skip => all # << >>) /\ (IF skip THEN Tail(all) ELSE all) = args
    <2>1. CASE skip
      <3>1. PICK x : x = <<w>> \o args
        OBVIOUS
      <3>2. x \in Seq(A) /\ Len(x) = Len(args) + 1 /\ Tail(x) = args
        BY <1>9, <3>1, InFront
      <3>3. x # << >>
        BY <1>9, <3>2
      <3>4. all = x
        BY <1>10, <2>1, <3>1
      <3>5. QED
        BY <2>1, <3>2, <3>3, <3>4
    <2>2. CASE ~skip
      BY <1>9, <2>2
    <2>3. QED
      BY <2>1, <2>2
  <1>12. PICK x : x = all
    OBVIOUS
  <1>13. Understood(Parse(opts, x, skip, stop), rest, GivenOf(phrases))
    <2>1. x \in Seq(A) /\ (skip => x # << >>)
          /\ (IF skip THEN Tail(x) ELSE x) = ArgsOf(phrases) \o Ending(dashes, rest)
      BY <1>11, <1>12 DEF args
    <2>2. QED
      BY <1>5, <1>6, <1>8, <2>1, PhrasesParse
  <1>14. QED
    BY <1>12, <1>13 DEF args

-----------------------------------------------------------------------------
(* The documented uses.                                                    *)

\* Two sequences, joined.
IsJoined(all, x, y, T) ==
  /\ all \in Seq(T) /\ Len(all) = Len(x) + Len(y)
  /\ \A i \in 1..Len(x) : all[i] = x[i]
  /\ \A j \in 1..Len(y) : all[Len(x) + j] = y[j]

LEMMA JoinedAre ==
  ASSUME NEW T, NEW x \in Seq(T), NEW y \in Seq(T), NEW all, all = x \o y
  PROVE  IsJoined(all, x, y, T)
  BY DEF IsJoined

\* The rows of a table, numbered.
LEMMA MainRows ==
  /\ MainOptions \in Seq(ToSet(MainOptions)) /\ DOMAIN MainOptions = 1..12
  /\ \A i \in 1..7 : MainOptions[i] = Option("command", MainCommands[i], None, None)
  /\ MainOptions[8] = Option("int", "passphrase-fd", None, "passphrase-fd")
  /\ MainOptions[9] = Option("string", "passphrase-file", None, "passphrase-file")
  /\ MainOptions[10] = Option("string", "passphrase", None, "passphrase")
  /\ MainOptions[11] = Option("bool", "help", "h", "help")
  /\ MainOptions[12] = Option("bool", "version", "v", "version")
  <1> DEFINE cmds == [i \in DOMAIN MainCommands |-> Option("command", MainCommands[i], None, None)]
             a == Option("int", "passphrase-fd", None, "passphrase-fd")
             b == Option("string", "passphrase-file", None, "passphrase-file")
             c == Option("string", "passphrase", None, "passphrase")
             d == Option("bool", "help", "h", "help")
             e == Option("bool", "version", "v", "version")
             T == {cmds[i] : i \in 1..7} \cup {a, b, c, d, e}
  <1>1. DOMAIN MainCommands = 1..7
    BY DEF MainCommands
  <1>2. cmds \in [1..7 -> T] /\ \A i \in 1..7 : cmds[i] = Option("command", MainCommands[i], None, None)
    BY <1>1
  <1>3. MainOptions = cmds \o <<a, b, c, d, e>>
    BY DEF MainOptions
  <1> HIDE DEF cmds, a, b, c, d, e
  <1>4. cmds \in Seq(T) /\ Len(cmds) = 7
    <2> HIDE DEF T
    <2>1. cmds \in [1..7 -> T]
      BY <1>2
    <2>2. PICK n \in Nat : n = 7
      OBVIOUS
    <2>3. cmds \in [1..n -> T]
      BY <2>1, <2>2
    <2>4. cmds \in Seq(T) /\ Len(cmds) = n
      BY <2>3
    <2>5. QED
      BY <2>2, <2>4
  <1>5. PICK more : more = <<a, b, c, d, e>>
    OBVIOUS
  <1>6. /\ more \in Seq(T) /\ Len(more) = 5 /\ more[1] = a /\ more[2] = b /\ more[3] = c
        /\ more[4] = d /\ more[5] = e
    BY <1>5
  <1> HIDE DEF T
  <1>7. PICK all : all = cmds \o more
    OBVIOUS
  <1>8. all \in Seq(T) /\ Len(all) = 12 /\ \A i \in 1..7 : all[i] = cmds[i]
    <2>1. more \in Seq(T) /\ Len(more) = 5
      BY <1>6
    <2>2. IsJoined(all, cmds, more, T)
      BY <1>4, <1>7, <2>1, JoinedAre
    <2>3. QED
      BY <1>4, <2>1, <2>2 DEF IsJoined
  <1>9. all[8] = a /\ all[9] = b /\ all[10] = c /\ all[11] = d /\ all[12] = e
    <2>1. more \in Seq(T) /\ Len(more) = 5
      BY <1>6
    <2>2. IsJoined(all, cmds, more, T)
      BY <1>4, <1>7, <2>1, JoinedAre
    <2>3. \A j \in 1..5 : all[7 + j] = more[j]
      BY <1>4, <2>1, <2>2 DEF IsJoined
    <2>4. all[7 + 1] = a /\ all[7 + 2] = b /\ all[7 + 3] = c /\ all[7 + 4] = d /\ all[7 + 5] = e
      BY <1>6, <2>3
    <2>5. QED
      BY <2>4
  <1>10. MainOptions = all
    BY <1>3, <1>5, <1>7
  <1>11. all \in Seq(ToSet(all)) /\ DOMAIN all = 1..12
    BY <1>8, SequenceOfItsOwn
  <1>12. QED
    BY <1>2, <1>8, <1>9, <1>10, <1>11 DEF a, b, c, d, e

\* No two options of a table share a flag.
LEMMA MainIsDistinct == Distinct(MainOptions)
  <1> USE MainRows DEF Option
  <1>1. \A i, j \in 1..12 :
          MainOptions[i].long = MainOptions[j].long /\ MainOptions[i].long # None => i = j
    OBVIOUS
  <1>2. \A i, j \in 1..12 :
          MainOptions[i].short = MainOptions[j].short /\ MainOptions[i].short # None => i = j
    OBVIOUS
  <1>3. QED
    BY <1>1, <1>2 DEF Distinct

LEMMA MessageIsDistinct == Distinct(MessageOptions)
  <1>1. MessageOptions \in Seq(ToSet(MessageOptions)) /\ DOMAIN MessageOptions = 1..6
    <2> DEFINE T == {MessageOptions[i] : i \in 1..6}
    <2>1. MessageOptions \in Seq(T) /\ Len(MessageOptions) = 6
      BY DEF MessageOptions
    <2>2. QED
      BY <2>1, SequenceOfItsOwn
  <1>2. \A i, j \in 1..6 :
          MessageOptions[i].long = MessageOptions[j].long /\ MessageOptions[i].long # None => i = j
    BY DEF MessageOptions, Option
  <1>3. \A i, j \in 1..6 :
          MessageOptions[i].short = MessageOptions[j].short /\ MessageOptions[i].short # None => i = j
    BY DEF MessageOptions, Option
  <1>4. QED
    BY <1>1, <1>2, <1>3 DEF Distinct

LEMMA ReadIsDistinct == Distinct(ReadOptions)
  <1>1. ReadOptions \in Seq(ToSet(ReadOptions)) /\ DOMAIN ReadOptions = 1..3
    <2> DEFINE T == {ReadOptions[i] : i \in 1..3}
    <2>1. ReadOptions \in Seq(T) /\ Len(ReadOptions) = 3
      BY DEF ReadOptions
    <2>2. QED
      BY <2>1, SequenceOfItsOwn
  <1>2. \A i, j \in 1..3 :
          ReadOptions[i].long = ReadOptions[j].long /\ ReadOptions[i].long # None => i = j
    BY DEF ReadOptions, Option
  <1>3. \A i, j \in 1..3 :
          ReadOptions[i].short = ReadOptions[j].short /\ ReadOptions[i].short # None => i = j
    BY DEF ReadOptions, Option
  <1>4. QED
    BY <1>1, <1>2, <1>3 DEF Distinct

LEMMA ChannelIsDistinct == Distinct(ChannelOptions) /\ IsCommand(ChannelOptions, "list")
  <1>1. ChannelOptions \in Seq(ToSet(ChannelOptions)) /\ DOMAIN ChannelOptions = 1..5
    <2> DEFINE T == {ChannelOptions[i] : i \in 1..5}
    <2>1. ChannelOptions \in Seq(T) /\ Len(ChannelOptions) = 5
      BY DEF ChannelOptions
    <2>2. QED
      BY <2>1, SequenceOfItsOwn
  <1>2. \A i, j \in 1..5 :
          ChannelOptions[i].long = ChannelOptions[j].long /\ ChannelOptions[i].long # None => i = j
    BY DEF ChannelOptions, Option
  <1>3. \A i, j \in 1..5 :
          ChannelOptions[i].short = ChannelOptions[j].short /\ ChannelOptions[i].short # None => i = j
    BY DEF ChannelOptions, Option
  <1>4. ChannelOptions[4].type = "command" /\ ChannelOptions[4].id = "list"
    BY DEF ChannelOptions, Option
  <1>5. IsCommand(ChannelOptions, "list")
    BY <1>1, <1>4 DEF IsCommand, ToSet
  <1>6. QED
    BY <1>1, <1>2, <1>3, <1>5 DEF Distinct

LEMMA ListIsDistinct == Distinct(ListOptions)
  <1>1. ListOptions \in Seq(ToSet(ListOptions)) /\ DOMAIN ListOptions = 1..2
    <2> DEFINE T == {ListOptions[i] : i \in 1..2}
    <2>1. ListOptions \in Seq(T) /\ Len(ListOptions) = 2
      BY DEF ListOptions
    <2>2. QED
      BY <2>1, SequenceOfItsOwn
  <1>2. \A i, j \in 1..2 :
          ListOptions[i].long = ListOptions[j].long /\ ListOptions[i].long # None => i = j
    BY DEF ListOptions, Option
  <1>3. \A i, j \in 1..2 :
          ListOptions[i].short = ListOptions[j].short /\ ListOptions[i].short # None => i = j
    BY DEF ListOptions, Option
  <1>4. QED
    BY <1>1, <1>2, <1>3 DEF Distinct

\* What follows the name of the command.
After(u) == ArgsOf(u.phrases) \o Ending(u.dashes, u.rest)

\* Arguments whose clusters are sequences.
Plainly(A) == \A a \in A : a.flags \in Seq(ToSet(a.flags))

\* Arguments that begin with a word are what may follow options.
Begins(x, w, s, A) ==
  /\ IsEnding(FALSE, x) /\ Ending(FALSE, x) = x
  /\ x \in Seq(A) /\ x # << >> /\ Head(x) = w /\ Tail(x) = s

LEMMA WordEnding ==
  ASSUME NEW A, Plainly(A), NEW w \in A, w.form = "word", NEW s \in Seq(A), NEW x, x = <<w>> \o s
  PROVE  Begins(x, w, s, A)
  <1>1. x \in Seq(A) /\ Len(x) = Len(s) + 1 /\ x[1] = w /\ Tail(x) = s
    BY InFront
  <1>2. x # << >> /\ Head(x) = w
    BY <1>1
  <1>3. x \in Seq(ToSet(x))
    BY <1>1, SequenceOfItsOwn
  <1>4. \A i \in DOMAIN x : x[i] \in A
    BY <1>1
  <1>5. IsEnding(FALSE, x)
    BY <1>2, <1>3, <1>4 DEF IsEnding, Plainly
  <1>6. QED
    BY <1>1, <1>2, <1>5 DEF Begins, Ending

LEMMA TwoWords ==
  ASSUME NEW A, NEW v \in A, NEW w \in A
  PROVE  <<v, w>> = <<v>> \o <<w>> /\ <<v>> \in Seq(A) /\ <<w>> \in Seq(A)
  <1>1. PICK a, b : a = <<v, w>> /\ b = <<v>> \o <<w>>
    OBVIOUS
  <1>2. a \in Seq(A) /\ Len(a) = 2 /\ a[1] = v /\ a[2] = w
    BY <1>1
  <1>3. <<v>> \in Seq(A) /\ <<w>> \in Seq(A)
    OBVIOUS
  <1>4. b \in Seq(A) /\ Len(b) = 2 /\ b[1] = v /\ b[2] = w
    BY <1>1
  <1>5. a = b
    <2>1. \A i \in 1..Len(a) : a[i] = b[i]
      BY <1>2, <1>4
    <2>2. QED
      BY <1>2, <1>4, <2>1, SameElements
  <1>6. QED
    BY <1>1, <1>3, <1>5

\* The arguments of a use: the options of main, and the command that follows.
LEMMA UseIs ==
  ASSUME NEW u, IsUse(u)
  PROVE  \E A, name :
           /\ Plainly(A) /\ Word(name) \in A /\ Word("list") \in A /\ After(u) \in Seq(A)
           /\ name = (IF u.command = "list" THEN "channel" ELSE u.command)
           /\ ArgsOf(u.main) \in Seq(A)
           /\ UseArgs(u) = ArgsOf(u.main) \o
                (<<Word(name)>> \o (IF u.command = "list" THEN <<Word("list")>> \o After(u)
                                    ELSE After(u)))
  <1> DEFINE name == IF u.command = "list" THEN "channel" ELSE u.command
             A == Speaks(u.main) \cup Speaks(u.phrases) \cup ToSet(u.rest)
                    \cup {Dashes, Word("list"), Word(name)}
  <1>1. /\ ArePhrases(u.main, MainOptions) /\ ArePhrases(u.phrases, Table(u))
        /\ IsEnding(u.dashes, u.rest)
    BY DEF IsUse, ArePhrases
  <1>2. /\ Speaks(u.main) \subseteq A /\ Speaks(u.phrases) \subseteq A /\ ToSet(u.rest) \subseteq A
        /\ Dashes \in A /\ Word("list") \in A /\ Word(name) \in A
    OBVIOUS
  <1>3. Plainly(A)
    <2>1. \A a \in Speaks(u.main) \cup Speaks(u.phrases) : a.flags \in Seq(ToSet(a.flags))
      BY <1>1, SpeaksAre
    <2>2. \A a \in ToSet(u.rest) : a.flags \in Seq(ToSet(a.flags))
      BY <1>1 DEF IsEnding, ToSet
    <2>3. << >> \in Seq(ToSet(<< >>))
      OBVIOUS
    <2>4. Dashes.flags = << >> /\ Word(name).flags = << >> /\ Word("list").flags = << >>
      BY ArgsAre
    <2>5. QED
      BY <2>1, <2>2, <2>3, <2>4 DEF Plainly
  <1> HIDE DEF A, name
  <1>4. ArgsOf(u.main) \in Seq(A) /\ ArgsOf(u.phrases) \in Seq(A)
    BY <1>1, <1>2, SpeaksAre
  <1>5. Ending(u.dashes, u.rest) \in Seq(A)
    BY <1>1, <1>2, EndingIs
  <1>6. After(u) \in Seq(A)
    BY <1>4, <1>5 DEF After
  <1>7. PICK a, b, c, d : /\ a = ArgsOf(u.main) /\ b = Command(u)
                          /\ c = ArgsOf(u.phrases) /\ d = Ending(u.dashes, u.rest)
    OBVIOUS
  <1>8. PICK v \in A, w \in A : v = Word(name) /\ w = Word("list")
    BY <1>2
  <1>9. b = IF u.command = "list" THEN <<v, w>> ELSE <<v>>
    BY <1>7, <1>8 DEF Command, name
  <1>10. a \in Seq(A) /\ b \in Seq(A) /\ c \in Seq(A) /\ d \in Seq(A)
    BY <1>4, <1>5, <1>7, <1>9
  <1>11. ((a \o b) \o c) \o d = a \o (b \o (c \o d))
    <2>1. ((a \o b) \o c) \o d = (a \o b) \o (c \o d)
      <3>1. a \o b \in Seq(A)
        BY <1>10
      <3>2. QED
        BY <1>10, <3>1, Associates
    <2>2. (a \o b) \o (c \o d) = a \o (b \o (c \o d))
      <3>1. c \o d \in Seq(A)
        BY <1>10
      <3>2. QED
        BY <1>10, <3>1, Associates
    <2>3. QED
      BY <2>1, <2>2
  <1>12. UseArgs(u) = a \o (b \o After(u))
    BY <1>7, <1>11 DEF UseArgs, After
  <1>13. b \o After(u) = <<v>> \o (IF u.command = "list" THEN <<w>> \o After(u) ELSE After(u))
    <2>1. CASE u.command = "list"
      <3>1. <<v, w>> = <<v>> \o <<w>> /\ <<v>> \in Seq(A) /\ <<w>> \in Seq(A)
        BY TwoWords
      <3>2. (<<v>> \o <<w>>) \o After(u) = <<v>> \o (<<w>> \o After(u))
        BY <1>6, <3>1, Associates
      <3>3. QED
        BY <1>9, <2>1, <3>1, <3>2
    <2>2. QED
      BY <1>9, <2>1
  <1>14. QED
    BY <1>2, <1>3, <1>4, <1>6, <1>7, <1>8, <1>12, <1>13 DEF name

\* No phrases.
LEMMA NoPhrases == ArgsOf(<< >>) = << >> /\ GivenOf(<< >>) = << >> /\ \A opts : ArePhrases(<< >>, opts)
  <1>1. << >> \in Seq(ToSet(<< >>)) /\ ToSet(<< >>) = {} /\ Len(<< >>) = 0
    BY DEF ToSet
  <1>2. \A opts : ArePhrases(<< >>, opts)
    BY <1>1 DEF ArePhrases
  <1>3. PhrasesIn(<< >>, << >>, {})
    BY <1>1 DEF PhrasesIn
  <1>4. PICK fa, ga, B : Spoken(fa, ga, << >>, {}, B)
    BY <1>3, PhrasesSpoken
  <1>5. QED
    BY <1>1, <1>2, <1>4 DEF Spoken

\* main hands a use over to its command.
LEMMA UseIsDelegated ==
  ASSUME NEW u, IsUse(u), NEW p, p.given = GivenOf(u.main), p.left # << >>
  PROVE  Delegates(p)
  <1>1. /\ u.main \in Seq(ToSet(u.main)) /\ Len(u.main) <= 1
        /\ \A ph \in ToSet(u.main) : IsPhrase(MainOptions, ph) /\ ph.how \in {"equals", "apart"}
    BY DEF IsUse
  <1>2. \/ p.given = << >>
        \/ \E e : /\ p.given = <<e>>
                  /\ e.id \in {"passphrase-fd", "passphrase-file", "passphrase"}
    <2>1. Len(u.main) \in {0, 1}
      <3>1. PICK n \in Nat : n = Len(u.main)
        BY <1>1
      <3>2. n <= 1
        BY <1>1, <3>1
      <3>3. n = 0 \/ n = 1
        BY <3>2
      <3>4. QED
        BY <3>1, <3>3
    <2>2. PICK fa, ga, B : Spoken(fa, ga, u.main, Speaks(u.main), B)
      <3>1. ArePhrases(u.main, MainOptions)
        BY <1>1 DEF ArePhrases
      <3>2. QED
        BY <3>1, SpeaksAre, PhrasesSpoken
    <2>3. CASE Len(u.main) = 0
      BY <2>2, <2>3 DEF Spoken
    <2>4. CASE Len(u.main) = 1
      <3>1. u.main[1] \in ToSet(u.main)
        BY <1>1, <2>4
      <3>2. PICK ph : ph = u.main[1] /\ IsPhrase(MainOptions, ph) /\ ph.how \in {"equals", "apart"}
        BY <1>1, <3>1
      <3>3. /\ ph.switches = << >> /\ ph.op \in ToSet(MainOptions)
            /\ ph.op.type \in {"int", "string", "list"}
        BY <3>2, PhraseRows
      <3>4. ph.op.id \in {"passphrase-fd", "passphrase-file", "passphrase"}
        <4>1. PICK i \in 1..12 : ph.op = MainOptions[i]
          BY <3>3, MainRows DEF ToSet
        <4>2. QED
          BY <3>3, <4>1, MainRows DEF Option
      <3>5. PICK e : e = [id |-> ph.op.id, value |-> ph.value]
        OBVIOUS
      <3>6. PhraseGiven(ph) = << >> \o <<e>>
        <4>1. PhraseGiven(ph) =
                Sets(ph.switches) \o (IF ph.how = "cluster" THEN << >>
                  ELSE <<[id |-> ph.op.id, value |-> IF ph.how = "name" THEN None ELSE ph.value]>>)
          BY DEF PhraseGiven, Sets
        <4>2. Sets(ph.switches) = << >>
          BY <3>3 DEF Sets
        <4>3. QED
          BY <3>2, <3>5, <4>1, <4>2
      <3>7. << >> \o (<< >> \o <<e>>) = <<e>>
        OBVIOUS
      <3>8. ga[1] = ga[0] \o PhraseGiven(u.main[1]) /\ ga[0] = << >> /\ ga[1] = GivenOf(u.main)
        <4>1. 1 \in 1..Len(u.main) /\ 1 - 1 = 0
          BY <2>4
        <4>2. QED
          BY <2>2, <2>4, <4>1 DEF Spoken
      <3>9. GivenOf(u.main) = <<e>>
        BY <3>2, <3>6, <3>7, <3>8
      <3>10. QED
        BY <3>4, <3>5, <3>9
    <2>5. QED
      BY <2>1, <2>3, <2>4
  <1>3. \A x, y : IsGiven(p, x) /\ IsGiven(p, y) => x = y
    <2>1. CASE p.given = << >>
      BY <2>1 DEF IsGiven, PlacesOf
    <2>2. ASSUME NEW e, p.given = <<e>> PROVE \A x, y : IsGiven(p, x) /\ IsGiven(p, y) => x = y
      BY <2>2 DEF IsGiven, PlacesOf
    <2>3. QED
      BY <1>2, <2>1, <2>2
  <1>4. ~IsGiven(p, "help") /\ ~IsGiven(p, "version")
    BY <1>2 DEF IsGiven, PlacesOf
  <1>5. ~Conflicts(p)
    BY <1>3 DEF Conflicts, Descriptor
  <1>6. QED
    BY <1>4, <1>5 DEF Delegates

\* A use is understood: by main, then by its command.
LEMMA UseParses ==
  ASSUME NEW u, IsUse(u)
  PROVE  /\ Delegates(MainParse(UseArgs(u)))
         /\ Head(MainParse(UseArgs(u)).left).text =
              (IF u.command = "list" THEN "channel" ELSE u.command)
         /\ u.command # "list" =>
              Understood(Parse(Table(u), MainParse(UseArgs(u)).left, TRUE, TRUE),
                         u.rest, GivenOf(u.phrases))
         /\ u.command = "list" =>
              /\ IsList(ChannelParse(UseArgs(u)))
              /\ Understood(Parse(ListOptions, Tail(ChannelParse(UseArgs(u)).left), FALSE, TRUE),
                            u.rest, GivenOf(u.phrases))
  <1>1. PICK A, name :
           /\ Plainly(A) /\ Word(name) \in A /\ Word("list") \in A /\ After(u) \in Seq(A)
           /\ name = (IF u.command = "list" THEN "channel" ELSE u.command)
           /\ ArgsOf(u.main) \in Seq(A)
           /\ UseArgs(u) = ArgsOf(u.main) \o
                (<<Word(name)>> \o (IF u.command = "list" THEN <<Word("list")>> \o After(u)
                                    ELSE After(u)))
    BY UseIs
  <1>2. PICK v \in A, w \in A : v = Word(name) /\ w = Word("list")
    BY <1>1
  <1>3. v.form = "word" /\ v.text = name /\ w.form = "word" /\ w.text = "list"
    BY <1>2, ArgsAre
  <1>4. PICK l : l = <<w>> \o After(u)
    OBVIOUS
  <1>5. /\ IsEnding(FALSE, l) /\ l \in Seq(A) /\ l # << >> /\ Head(l) = w /\ Tail(l) = After(u)
        /\ Ending(FALSE, l) = l
    <2>1. After(u) \in Seq(A) /\ Plainly(A) /\ w.form = "word"
      BY <1>1, <1>3
    <2>2. Begins(l, w, After(u), A)
      BY <1>4, <2>1, WordEnding
    <2>3. QED
      BY <2>2 DEF Begins
  <1>6. PICK r : r = IF u.command = "list" THEN l ELSE After(u)
    OBVIOUS
  <1>7. r \in Seq(A)
    BY <1>1, <1>5, <1>6
  <1>8. PICK x : x = <<v>> \o r
    OBVIOUS
  <1>9. /\ IsEnding(FALSE, x) /\ x \in Seq(A) /\ x # << >> /\ Head(x) = v /\ Tail(x) = r
        /\ Ending(FALSE, x) = x
    <2>1. Plainly(A) /\ v.form = "word"
      BY <1>1, <1>3
    <2>2. Begins(x, v, r, A)
      BY <1>7, <1>8, <2>1, WordEnding
    <2>3. QED
      BY <2>2 DEF Begins
  <1>10. UseArgs(u) = ArgsOf(u.main) \o Ending(FALSE, x)
    BY <1>1, <1>2, <1>4, <1>6, <1>8, <1>9
  <1>11. /\ ArePhrases(u.main, MainOptions) /\ ArePhrases(u.phrases, Table(u))
         /\ IsEnding(u.dashes, u.rest) /\ u.command \in {"message", "read", "list"}
    BY DEF IsUse, ArePhrases
  <1>12. Understood(MainParse(UseArgs(u)), x, GivenOf(u.main))
    <2>1. Understood(Parse(MainOptions, <<Word("git-chat")>> \o (ArgsOf(u.main) \o Ending(FALSE, x)),
                           TRUE, TRUE), x, GivenOf(u.main))
      BY <1>9, <1>11, MainIsDistinct, PhrasesAreUnderstood
    <2>2. QED
      BY <1>10, <2>1 DEF MainParse
  <1>13. Delegates(MainParse(UseArgs(u))) /\ Head(MainParse(UseArgs(u)).left).text = name
    BY <1>3, <1>9, <1>12, UseIsDelegated DEF Understood
  <1>14. Distinct(Table(u))
    BY MessageIsDistinct, ReadIsDistinct, ListIsDistinct DEF Table
  <1>15. ASSUME u.command # "list"
         PROVE  Understood(Parse(Table(u), MainParse(UseArgs(u)).left, TRUE, TRUE),
                           u.rest, GivenOf(u.phrases))
    <2>1. MainParse(UseArgs(u)).left = <<Word(name)>> \o (ArgsOf(u.phrases) \o Ending(u.dashes, u.rest))
      BY <1>2, <1>6, <1>8, <1>12, <1>15 DEF Understood, After
    <2>2. Understood(Parse(Table(u), <<Word(name)>> \o (ArgsOf(u.phrases) \o Ending(u.dashes, u.rest)),
                           TRUE, TRUE), u.rest, GivenOf(u.phrases))
      BY <1>11, <1>14, PhrasesAreUnderstood
    <2>3. QED
      BY <2>1, <2>2
  <1>16. ASSUME u.command = "list"
         PROVE  /\ IsList(ChannelParse(UseArgs(u)))
                /\ Understood(Parse(ListOptions, Tail(ChannelParse(UseArgs(u)).left), FALSE, TRUE),
                              u.rest, GivenOf(u.phrases))
    <2>1. MainParse(UseArgs(u)).left = <<Word("channel")>> \o l
      BY <1>1, <1>2, <1>6, <1>8, <1>12, <1>16 DEF Understood
    <2>2. Understood(Parse(ChannelOptions, <<Word("channel")>> \o (ArgsOf(<< >>) \o Ending(FALSE, l)),
                           TRUE, TRUE), l, GivenOf(<< >>))
      BY <1>5, NoPhrases, ChannelIsDistinct, PhrasesAreUnderstood
    <2>3. ArgsOf(<< >>) \o Ending(FALSE, l) = l
      <3>1. l \in Seq(A) /\ Ending(FALSE, l) = l /\ ArgsOf(<< >>) = << >>
        BY <1>5, NoPhrases
      <3>2. << >> \o l = l
        BY <3>1
      <3>3. QED
        BY <3>1, <3>2
    <2>4. Understood(ChannelParse(UseArgs(u)), l, << >>)
      BY <2>1, <2>2, <2>3, NoPhrases DEF ChannelParse
    <2>5. IsList(ChannelParse(UseArgs(u)))
      BY <1>3, <1>5, <2>4 DEF IsList, Understood, IsGiven, PlacesOf
    <2>6. Understood(Parse(ListOptions, ArgsOf(u.phrases) \o Ending(u.dashes, u.rest), FALSE, TRUE),
                     u.rest, GivenOf(u.phrases))
      <3>1. Table(u) = ListOptions
        BY <1>16 DEF Table
      <3>2. QED
        BY <1>11, <1>14, <3>1, PhrasesAreUnderstood
    <2>7. Tail(ChannelParse(UseArgs(u)).left) = ArgsOf(u.phrases) \o Ending(u.dashes, u.rest)
      BY <1>5, <2>4 DEF Understood, After
    <2>8. QED
      BY <2>5, <2>6, <2>7
  <1>17. Head(MainParse(UseArgs(u)).left).text = (IF u.command = "list" THEN "channel" ELSE u.command)
    BY <1>1, <1>13
  <1>18. QED
    BY <1>13, <1>15, <1>16, <1>17

\* A step of message keeps the arguments of every command, and what was made
\* of them.
LEMMA MessageKeepsLine ==
  ASSUME NEW t \in Terminals, Message(t)
  PROVE  UNCHANGED <<line, opt>>
  <1> USE DEF Step, Ends
  <1>0. MessageStep(t)
    BY DEF Message
  <1>1. CASE TruncateEditMsg(t) \/ OpenReply(t) \/ WriteReply(t) \/ WriteReplyFails(t)
    BY <1>1 DEF TruncateEditMsg, OpenReply, WriteReply, WriteReplyFails
  <1>2. CASE LaunchEditor(t) \/ SaveDraft(t) \/ QuitEditor(t) \/ EditorFails(t)
    BY <1>2 DEF LaunchEditor, SaveDraft, QuitEditor, EditorFails
  <1>3. CASE WipeReply(t) \/ ReadBack(t) \/ WipeEditMsg(t)
    BY <1>3 DEF WipeReply, ReadBack, WipeEditMsg
  <1>4. CASE ReadFile(t) \/ ReadFileFails(t) \/ Encrypt(t) \/ EncryptFails(t)
    BY <1>4 DEF ReadFile, ReadFileFails, Encrypt, EncryptFails
  <1>5. CASE WriteCommit(t) \/ WriteCommitFails(t) \/ KillMessage(t)
    BY <1>5 DEF WriteCommit, WriteCommitFails, KillMessage
  <1>6. QED
    BY <1>0, <1>1, <1>2, <1>3, <1>4, <1>5 DEF MessageStep

\* A command keeps its arguments, and what was made of them, to its end.
LEMMA OnlyStartsParse ==
  ASSUME [Next]_vars
  PROVE  \/ UNCHANGED <<line, opt>>
         \/ \E t \in Terminals : \E args : Start(t, args)
  <1>1. ASSUME NEW t \in Terminals, StartSide(t) \/ StartAlone(t)
        PROVE  \E args : Start(t, args)
    BY <1>1 DEF StartSide, StartAlone
  <1>2. ASSUME NEW t \in Terminals, Message(t) PROVE UNCHANGED <<line, opt>>
    BY <1>2, MessageKeepsLine
  <1>3. ASSUME NEW t \in Terminals, List(t) \/ StopList(t) PROVE UNCHANGED <<line, opt>>
    BY <1>3 DEF List, StopList, ListStep, KillList, ListLocal, ListRemote, FilterChannels, PrintLocal,
           PrintRemote, ListDone, ListCrashes, Step, Ends
  <1>4. Move \/ UNCHANGED vars => UNCHANGED <<line, opt>>
    BY DEF Move, vars, control
  <1>5. QED
    BY <1>1, <1>2, <1>3, <1>4 DEF Next

\* A use that is started is understood.
LEMMA UseStarts ==
  ASSUME NEW t \in Terminals, NEW u, IsUse(u), Start(t, UseArgs(u))
  PROVE  \E p, to, s : /\ Parsed(t, UseArgs(u), p, to, s)
                       /\ Understood(p, u.rest, GivenOf(u.phrases)) /\ s # "crashed"
  <1>1. PICK args : args = UseArgs(u)
    OBVIOUS
  <1>2. PICK m, q, r, l :
          /\ m = MainParse(args) /\ q = ChannelParse(args)
          /\ r = Parse(Table(u), m.left, TRUE, TRUE)
          /\ l = Parse(ListOptions, Tail(q.left), FALSE, TRUE)
    OBVIOUS
  <1>3. /\ Delegates(m) /\ Head(m.left).text = (IF u.command = "list" THEN "channel" ELSE u.command)
        /\ u.command # "list" => Understood(r, u.rest, GivenOf(u.phrases))
        /\ u.command = "list" => IsList(q) /\ Understood(l, u.rest, GivenOf(u.phrases))
    BY <1>1, <1>2, UseParses
  <1>4. u.command \in {"message", "read", "list"}
    BY DEF IsUse
  <1>5. Head(m.left).text \in Builtins
    BY <1>3, <1>4 DEF Builtins
  <1>6. CASE MainEnds(t, args)
    BY <1>2, <1>3, <1>5, <1>6 DEF MainEnds
  <1>7. CASE StartRead(t, args)
    <2>1. u.command = "read"
      BY <1>2, <1>3, <1>4, <1>7 DEF StartRead, Runs
    <2>2. r = Parse(ReadOptions, m.left, TRUE, TRUE) /\ Understood(r, u.rest, GivenOf(u.phrases))
      BY <1>2, <1>3, <2>1 DEF Table
    <2>3. ~r.crashed
      BY <2>2 DEF Understood
    <2>4. \E s \in {"failed", "done"} : Parsed(t, args, r, "idle", s)
      BY <1>2, <1>7, <2>2, <2>3 DEF StartRead
    <2>5. QED
      BY <1>1, <2>2, <2>4
  <1>8. CASE StartMessage(t, args)
    <2>1. u.command = "message"
      BY <1>2, <1>3, <1>4, <1>8 DEF StartMessage, Runs
    <2>2. r = Parse(MessageOptions, m.left, TRUE, TRUE) /\ Understood(r, u.rest, GivenOf(u.phrases))
      BY <1>2, <1>3, <2>1 DEF Table
    <2>3. \E to : \E s \in {"failed", "done", "none"} : Parsed(t, args, r, to, s)
      BY <1>2, <1>8, <2>2 DEF StartMessage
    <2>4. QED
      BY <1>1, <2>2, <2>3
  <1>9. CASE ChannelEnds(t, args)
    <2>1. u.command = "list"
      BY <1>2, <1>3, <1>4, <1>9 DEF ChannelEnds, Runs
    <2>2. QED
      BY <1>2, <1>3, <1>9, <2>1 DEF ChannelEnds
  <1>10. CASE StartList(t, args)
    <2>1. u.command = "list"
      BY <1>2, <1>3, <1>4, <1>10 DEF StartList, Runs
    <2>2. \E to : \E s \in {"failed", "done", "none"} : Parsed(t, args, l, to, s)
      BY <1>2, <1>10 DEF StartList
    <2>3. QED
      BY <1>1, <1>3, <2>1, <2>2
  <1>11. QED
    BY <1>1, <1>6, <1>7, <1>8, <1>9, <1>10 DEF Start

\* The arguments of a use have been understood.
UnderstoodInv ==
  /\ line = [t \in Terminals |-> line[t]] /\ opt = [t \in Terminals |-> opt[t]]
  /\ OptionsAreUnderstood

\* What the documented grammar generates is what is done, for any documented
\* uses, any number of options in each, and any commands around them.
THEOREM OptionsUnderstood == Spec => []OptionsAreUnderstood
  <1>1. Init => UnderstoodInv
    <2> SUFFICES ASSUME Init PROVE UnderstoodInv
      OBVIOUS
    <2>1. line = [t \in Terminals |-> << >>] /\ opt = [t \in Terminals |-> Parsing(<< >>)]
      BY DEF Init, TerminalInit
    <2>2. << >> \notin Spelled
      <3> SUFFICES ASSUME NEW u \in Uses, UseArgs(u) = << >> PROVE FALSE
        BY DEF Spelled
      <3>1. IsUse(u)
        BY UsesAssumption
      <3>2. PICK A, name :
              /\ Word(name) \in A /\ Word("list") \in A /\ After(u) \in Seq(A)
              /\ ArgsOf(u.main) \in Seq(A)
              /\ UseArgs(u) = ArgsOf(u.main) \o
                   (<<Word(name)>> \o (IF u.command = "list" THEN <<Word("list")>> \o After(u)
                                       ELSE After(u)))
        BY <3>1, UseIs
      <3>3. PICK v \in A, w \in A : v = Word(name) /\ w = Word("list")
        BY <3>2
      <3>4. PICK a, r : a = ArgsOf(u.main) /\ r = IF u.command = "list" THEN <<w>> \o After(u) ELSE After(u)
        OBVIOUS
      <3>5. a \in Seq(A) /\ r \in Seq(A)
        BY <3>2, <3>4
      <3>6. <<v>> \o r \in Seq(A) /\ Len(<<v>> \o r) = Len(r) + 1
        BY <3>5, InFront
      <3>7. Len(a \o (<<v>> \o r)) = Len(a) + (Len(r) + 1)
        BY <3>5, <3>6
      <3>8. UseArgs(u) = a \o (<<v>> \o r)
        BY <3>2, <3>3, <3>4
      <3>9. Len(UseArgs(u)) = 0 /\ Len(a) \in Nat /\ Len(r) \in Nat
        BY <3>5
      <3>10. QED
        BY <3>7, <3>8, <3>9
    <2>3. QED
      BY <2>1, <2>2 DEF UnderstoodInv, OptionsAreUnderstood
  <1>2. UnderstoodInv /\ [Next]_vars => UnderstoodInv'
    <2> SUFFICES ASSUME UnderstoodInv, [Next]_vars PROVE UnderstoodInv'
      OBVIOUS
    <2>1. CASE UNCHANGED <<line, opt>>
      BY <2>1 DEF UnderstoodInv, OptionsAreUnderstood
    <2>2. ASSUME NEW t \in Terminals, NEW args, Start(t, args) PROVE UnderstoodInv'
      <3>1. PICK p, to, s : Parsed(t, args, p, to, s)
        <4>1. \E p, to, s : Parsed(t, args, p, to, s)
          BY <2>2 DEF Start, MainEnds, StartRead, StartMessage, ChannelEnds, StartList
        <4>2. QED
          BY <4>1
      <3>2. line' = [line EXCEPT ![t] = args] /\ opt' = [opt EXCEPT ![t] = p]
        BY <3>1 DEF Parsed
      <3>3. /\ line' = [u \in Terminals |-> line'[u]] /\ opt' = [u \in Terminals |-> opt'[u]]
            /\ line'[t] = args /\ opt'[t] = p
            /\ \A u \in Terminals : u # t => line'[u] = line[u] /\ opt'[u] = opt[u]
        BY <3>2 DEF UnderstoodInv
      <3>4. args \in Spelled => <<args, p.given, p.left>> \in Readings
        <4> SUFFICES ASSUME NEW u \in Uses, args = UseArgs(u)
                     PROVE  <<args, p.given, p.left>> \in Readings
          BY DEF Spelled
        <4>1. IsUse(u)
          BY UsesAssumption
        <4>2. PICK p1, to1, s1 : Parsed(t, args, p1, to1, s1) /\ Understood(p1, u.rest, GivenOf(u.phrases))
          BY <2>2, <4>1, UseStarts
        <4>3. opt' = [opt EXCEPT ![t] = p1]
          BY <4>2 DEF Parsed
        <4>4. p1 = p
          BY <3>3, <4>3 DEF UnderstoodInv
        <4>5. QED
          BY <4>2, <4>4 DEF Understood, Readings
      <3>5. QED
        BY <3>3, <3>4 DEF UnderstoodInv, OptionsAreUnderstood
    <2>3. QED
      BY <2>1, <2>2, OnlyStartsParse
  <1>3. UnderstoodInv => OptionsAreUnderstood
    BY DEF UnderstoodInv
  <1>4. QED
    BY <1>1, <1>2, <1>3, PTL DEF Spec

-----------------------------------------------------------------------------
(* What a parse takes: arguments from the front, and a word only as the    *)
(* value of the option before it.                                          *)

\* An option that takes a value has a flag of its own.
HasValueFlag(opts) == \E op \in ToSet(opts) : op.type # "bool" /\ op.short # None

\* The first n arguments of the state s are taken to get to the state r.
Drops(s, r, n) ==
  /\ n <= Len(s.left) /\ r.left = SubSeq(s.left, n + 1, Len(s.left))
  /\ r.at = s.at /\ r.crashed = s.crashed

Takes(s, r) == Drops(s, r, 1) \/ Drops(s, r, 2)

\* At the first argument, a shift takes arguments from the front.
LEMMA ShiftDrops ==
  ASSUME NEW A, NEW V, NEW I, NEW s \in States(A, V, I), s.at = 1,
         NEW n \in {1, 2}, n <= Len(s.left)
  PROVE  /\ Drops(s, Shift(s, n), n)
         /\ \A op, v : Drops(s, Give(Shift(s, n), op, v), n)
  <1>1. PICK l : l = s.left
    OBVIOUS
  <1>2. l \in Seq(A) /\ Len(l) \in Nat /\ n <= Len(l)
    BY <1>1 DEF States
  <1>3. PICK b : b = SubSeq(l, n + 1, Len(l))
    OBVIOUS
  <1>4. b \in Seq(A)
    <2>1. \A i \in (n + 1)..Len(l) : i \in 1..Len(l)
      BY <1>2
    <2>2. QED
      BY <1>2, <1>3, <2>1
  <1>5. SubSeq(l, 1, 0) = << >>
    BY <1>2
  <1>6. << >> \o b = b
    BY <1>4
  <1>7. Shift(s, n) = [s EXCEPT !.left = b]
    <2>1. SubSeq(l, 1, s.at - 1) \o SubSeq(l, s.at + n, Len(l)) = b
      <3>1. s.at - 1 = 0 /\ s.at + n = n + 1
        OBVIOUS
      <3>2. QED
        BY <1>3, <1>5, <1>6, <3>1
    <2>2. QED
      BY <1>1, <2>1 DEF Shift
  <1>8. PICK r : r = [s EXCEPT !.left = b]
    OBVIOUS
  <1>9. r.left = b /\ r.at = s.at /\ r.crashed = s.crashed
    BY <1>8 DEF States
  <1>10. \A op, v : /\ Give(r, op, v).left = b /\ Give(r, op, v).at = s.at
                    /\ Give(r, op, v).crashed = s.crashed
    BY <1>8, <1>9 DEF Give, States
  <1>11. Drops(s, r, n) /\ \A op, v : Drops(s, Give(r, op, v), n)
    BY <1>1, <1>3, <1>9, <1>10 DEF Drops
  <1>12. r = Shift(s, n)
    BY <1>7, <1>8
  <1>13. QED
    BY <1>11, <1>12

\* One row of the table, for an argument.
LEMMA SearchDrops ==
  ASSUME NEW A, NEW V, NEW I, NEW s \in States(A, V, I), s.at = 1, s.at <= Len(s.left),
         NEW find \in Finds(A, V, I), \A r \in find.result : Takes(s, r), NEW op
  PROVE  \A r \in SearchStep(s, find, op).result : Takes(s, r)
  <1> DEFINE joined  == find.value # None
             matches == find.result = {} /\ op.long = find.name /\ op.long # None
             switch  == op.type = "bool" /\ ~joined
             has     == ~switch /\ (joined \/ HasValue(s))
             value   == IF joined THEN find.value ELSE ValueArg(s)
             n == IF joined THEN 1 ELSE 2
  <1>1. Takes(s, Give(Shift(s, 1), op, None))
    BY ShiftDrops DEF Takes
  <1>2. has => Takes(s, Give(Shift(s, n), op, value))
    <2>1. has => n \in {1, 2} /\ n <= Len(s.left)
      BY DEF HasValue, States
    <2>2. has => Drops(s, Give(Shift(s, n), op, value), n)
      BY <2>1, ShiftDrops
    <2>3. QED
      BY <2>1, <2>2 DEF Takes
  <1>3. SearchStep(s, find, op) =
          CASE matches /\ switch -> [find EXCEPT !.result = {Give(Shift(s, 1), op, None)}]
            [] matches /\ has /\ Fits(op, value) ->
                 [find EXCEPT !.result = {Give(Shift(s, n), op, value)}]
            [] matches /\ has /\ ~Fits(op, value) -> [find EXCEPT !.name = value, !.value = None]
            [] OTHER -> find
    BY DEF SearchStep
  <1>4. switch => ~has
    OBVIOUS
  <1> HIDE DEF joined, matches, switch, has, value, n
  <1>5. CASE matches /\ switch
    BY <1>1, <1>3, <1>4, <1>5 DEF Finds
  <1>6. CASE matches /\ has /\ Fits(op, value)
    BY <1>2, <1>3, <1>4, <1>6 DEF Finds
  <1>7. CASE matches /\ has /\ ~Fits(op, value)
    BY <1>3, <1>4, <1>7 DEF Finds
  <1>8. CASE ~matches \/ (~switch /\ ~has)
    BY <1>3, <1>8
  <1>9. QED
    BY <1>5, <1>6, <1>7, <1>8

\* An argument with two dashes is taken, or its value is, too, or it stays.
LEMMA LongDrops ==
  ASSUME NEW A, NEW V, NEW I, NEW s \in States(A, V, I), s.at = 1, s.at <= Len(s.left), None \in V,
         \A a \in A : IsArg(a, V),
         NEW opts, IsTable(opts, I)
  PROVE  ParseLong(opts, s, TRUE) = Unknown(s, TRUE) \/ Takes(s, ParseLong(opts, s, TRUE))
  <1> DEFINE arg == s.left[s.at]
             base == [name |-> arg.name, value |-> arg.value, result |-> {}]
             find == Search(opts, s, base)
  <1>1. ParseLong(opts, s, TRUE) =
          IF find.result = {} THEN Unknown(s, TRUE) ELSE CHOOSE r \in find.result : TRUE
    BY DEF ParseLong, Search
  <1>2. base.result = {} /\ base.name = arg.name /\ base.value = arg.value
    OBVIOUS
  <1>3. base \in Finds(A, V, I) /\ base.result = {}
    <2>1. arg \in A
      BY DEF States
    <2>2. arg.name \in V /\ arg.value \in V
      BY <2>1 DEF IsArg
    <2>3. QED
      BY <1>2, <2>2 DEF Finds
  <1> HIDE DEF base
  <1>5. PICK N : N = Len(opts) /\ N \in Nat
    BY DEF IsTable
  <1>6. PICK T : Searches(T, A, V, I, opts, s, base) /\ T[N] = find
    BY <1>3, <1>5, SearchFolds
  <1> HIDE DEF find
  <1>7. /\ T[0] = base /\ \A k \in 0..N : T[k] \in Finds(A, V, I)
        /\ \A k \in 1..N : T[k] = SearchStep(s, T[k - 1], opts[k])
    BY <1>5, <1>6 DEF Searches
  <1> DEFINE Q(k) == k <= N => \A r \in T[k].result : Takes(s, r)
             P == {k \in Nat : Q(k)}
  <1>8. Q(0)
    BY <1>3, <1>7
  <1>9. ASSUME NEW k \in Nat, Q(k) PROVE Q(k + 1)
    <2> SUFFICES ASSUME k + 1 <= N PROVE \A r \in T[k + 1].result : Takes(s, r)
      OBVIOUS
    <2>1. k \in 0..N /\ k + 1 \in 1..N /\ (k + 1) - 1 = k
      BY <1>5
    <2>2. PICK find0 : find0 = T[k]
      OBVIOUS
    <2>3. find0 \in Finds(A, V, I) /\ \A r \in find0.result : Takes(s, r)
      BY <1>5, <1>7, <1>9, <2>1, <2>2
    <2>4. T[k + 1] = SearchStep(s, find0, opts[k + 1])
      BY <1>7, <2>1, <2>2
    <2>5. QED
      BY <2>3, <2>4, SearchDrops
  <1> HIDE DEF Q
  <1>10. 0 \in P /\ \A k \in P : k + 1 \in P
    BY <1>8, <1>9
  <1> HIDE DEF P
  <1>11. Nat \subseteq P
    BY <1>10, Induction
  <1>12. \A r \in find.result : Takes(s, r)
    BY <1>5, <1>6, <1>11 DEF P, Q
  <1>13. QED
    BY <1>1, <1>12

\* The arguments stay; if a null pointer is read, the last argument is a cluster.
Stays(s, r) ==
  /\ r.left = s.left /\ r.at = s.at
  /\ r.crashed => s.crashed \/ (Len(s.left) = 1 /\ s.left[1].form = "short")

LEMMA UnknownStops ==
  ASSUME NEW A, NEW V, NEW I, NEW s \in States(A, V, I)
  PROVE  Stays(s, Unknown(s, TRUE)) /\ Stays(s, [s EXCEPT !.over = TRUE])
  BY DEF Stays, Unknown, States

\* One flag of a cluster.
LEMMA FlagDrops ==
  ASSUME NEW A, NEW V, NEW I, NEW s \in States(A, V, I), s.at = 1, s.at <= Len(s.left),
         s.left[1].form = "short", NEW op, NEW rest \in Seq(V)
  PROVE  Stays(s, ParseFlag(op, s, rest, TRUE)) \/ Takes(s, ParseFlag(op, s, rest, TRUE))
  <1> DEFINE close == op.type = "int" /\ Len(rest) = 1 /\ rest[1] \in DOMAIN Numbers
             apart == rest = << >> /\ HasValue(s) /\ Fits(op, ValueArg(s))
             null == op.type = "int" /\ rest = << >> /\ ~HasValue(s)
  <1>0. Len(s.left) \in Nat /\ 1 <= Len(s.left) /\ (HasValue(s) <=> 2 <= Len(s.left))
    BY DEF States, HasValue
  <1>1. Takes(s, Give(Shift(s, 1), op, rest[1]))
    <2>1. Drops(s, Give(Shift(s, 1), op, rest[1]), 1)
      BY <1>0, ShiftDrops
    <2>2. QED
      BY <2>1 DEF Takes
  <1>2. HasValue(s) => Takes(s, Give(Shift(s, 2), op, ValueArg(s)))
    <2>1. HasValue(s) => Drops(s, Give(Shift(s, 2), op, ValueArg(s)), 2)
      BY <1>0, ShiftDrops
    <2>2. QED
      BY <2>1 DEF Takes
  <1>3. ~HasValue(s) => Stays(s, [s EXCEPT !.crashed = TRUE, !.over = TRUE])
    <2>1. ~HasValue(s) => Len(s.left) = 1
      <3>1. PICK m \in Nat : m = Len(s.left)
        BY <1>0
      <3>2. 1 <= m
        BY <1>0, <3>1
      <3>3. ASSUME ~HasValue(s) PROVE m = 1
        <4>1. ~(1 < m)
          BY <3>1, <3>3 DEF HasValue
        <4>2. QED
          BY <3>2, <4>1
      <3>4. QED
        BY <3>1, <3>3
    <2>2. PICK r : r = [s EXCEPT !.crashed = TRUE, !.over = TRUE]
      OBVIOUS
    <2>3. r.left = s.left /\ r.at = s.at
      BY <2>2 DEF States
    <2>4. QED
      BY <2>1, <2>2, <2>3 DEF Stays
  <1>4. Stays(s, Unknown(s, TRUE))
    BY UnknownStops
  <1>5. close => ~apart /\ ~null
    <2>1. rest = << >> => Len(rest) = 0
      OBVIOUS
    <2>2. QED
      BY <2>1
  <1>6. apart => ~null
    OBVIOUS
  <1>7. ParseFlag(op, s, rest, TRUE) =
          CASE close -> Give(Shift(s, 1), op, rest[1])
            [] apart -> Give(Shift(s, 2), op, ValueArg(s))
            [] null -> [s EXCEPT !.crashed = TRUE, !.over = TRUE]
            [] OTHER -> Unknown(s, TRUE)
    BY DEF ParseFlag
  <1>8. (apart => HasValue(s)) /\ (null => ~HasValue(s))
    OBVIOUS
  <1> HIDE DEF close, apart, null
  <1>9. CASE close
    BY <1>1, <1>5, <1>7, <1>9
  <1>10. CASE apart
    BY <1>2, <1>5, <1>6, <1>7, <1>8, <1>10
  <1>11. CASE null
    BY <1>3, <1>5, <1>6, <1>7, <1>8, <1>11
  <1>12. CASE ~close /\ ~apart /\ ~null
    BY <1>4, <1>7, <1>12
  <1>13. QED
    BY <1>9, <1>10, <1>11, <1>12

\* An argument with one dash: its value is taken with it only if there is an
\* option whose flag takes one.
LEMMA ShortDrops ==
  ASSUME NEW A, NEW V, NEW I, NEW s \in States(A, V, I), s.at = 1, s.at <= Len(s.left), None \in V,
         \A a \in A : IsArg(a, V), s.left[1].form = "short",
         NEW opts, IsTable(opts, I), NEW r, r = ParseShort(opts, s, TRUE)
  PROVE  Stays(s, r) \/ Drops(s, r, 1) \/ (HasValueFlag(opts) /\ Drops(s, r, 2))
  <1> DEFINE flags   == s.left[s.at].flags
             others  == {i \in DOMAIN flags : ~IsSwitch(opts, flags[i])}
             n       == CHOOSE i \in others : \A j \in others : i <= j
             ops     == Flagged(opts, flags[n])
             rest    == SubSeq(flags, n + 1, Len(flags))
             t       == Switches(opts, s, flags, n)
             all     == Switches(opts, s, flags, Len(flags) + 1)
  <1>0. s.left \in Seq(A) /\ s.at \in Nat /\ s.at >= 1 /\ Len(s.left) \in Nat
    BY DEF States
  <1>1. flags \in Seq(V)
    <2>1. s.left[s.at] \in A
      BY <1>0
    <2>2. QED
      BY <2>1 DEF IsArg
  <1>2. r = IF others = {} THEN Shift(all, 1)
            ELSE IF ops = {} THEN Unknown(t, TRUE)
            ELSE ParseFlag(CHOOSE op \in ops : TRUE, t, rest, TRUE)
    BY DEF ParseShort
  <1>m. ASSUME NEW u, u.left = s.left, u.at = s.at, u.crashed = s.crashed
        PROVE  /\ Stays(u, r) => Stays(s, r)
               /\ \A i : Drops(u, r, i) => Drops(s, r, i)
    BY <1>m DEF Stays, Drops
  <1> HIDE DEF flags
  <1>3. CASE others = {}
    <2>1. \A i \in 1..Len(flags) : IsSwitch(opts, flags[i])
      BY <1>1, <1>3
    <2>2. Len(flags) + 1 \in 1..Len(flags) + 1 /\ (Len(flags) + 1) - 1 = Len(flags)
      BY <1>1
    <2>3. all \in States(A, V, I) /\ all.left = s.left /\ all.at = s.at /\ all.crashed = s.crashed
      BY <1>1, <2>1, <2>2, SwitchesStay
    <2> HIDE DEF all, others
    <2>4. Drops(all, Shift(all, 1), 1)
      BY <1>0, <2>3, ShiftDrops
    <2>5. QED
      BY <1>2, <1>3, <1>m, <2>3, <2>4
  <1>4. CASE others # {}
    <2>1. others \subseteq Nat /\ others \subseteq 1..Len(flags)
      BY <1>1
    <2>2. n \in others /\ \A j \in others : n <= j
      <3> HIDE DEF others
      <3>1. \E x \in others : \A y \in others : x <= y
        BY <1>4, <2>1, LeastExists
      <3>2. QED
        BY <3>1
    <2>3. n \in 1..Len(flags) /\ Len(flags) \in Nat
      BY <1>1, <2>1, <2>2
    <2>4. \A i \in 1..(n - 1) : IsSwitch(opts, flags[i])
      <3>1. \A i \in 1..(n - 1) : i \in 1..Len(flags) /\ i \notin others
        BY <2>2, <2>3
      <3>2. QED
        BY <1>1, <3>1
    <2>5. ops # {} => HasValueFlag(opts)
      <3>1. ~IsSwitch(opts, flags[n])
        BY <2>2
      <3>2. QED
        BY <3>1 DEF IsSwitch, Flagged, HasValueFlag
    <2> HIDE DEF n, others
    <2>6. t \in States(A, V, I) /\ t.left = s.left /\ t.at = s.at /\ t.crashed = s.crashed
      BY <1>1, <2>3, <2>4, SwitchesStay
    <2>7. rest \in Seq(V)
      BY <1>1, <2>3
    <2> HIDE DEF t, rest, ops
    <2>8. Stays(t, Unknown(t, TRUE))
      BY <2>6, UnknownStops
    <2>9. PICK op : op = CHOOSE x \in ops : TRUE
      OBVIOUS
    <2>10. Stays(t, ParseFlag(op, t, rest, TRUE)) \/ Takes(t, ParseFlag(op, t, rest, TRUE))
      BY <2>6, <2>7, FlagDrops
    <2>11. CASE ops = {}
      <3>1. Stays(t, r)
        BY <1>2, <1>4, <2>8, <2>11
      <3>2. QED
        BY <1>m, <2>6, <3>1
    <2>12. CASE ops # {}
      <3>1. Stays(t, r) \/ Takes(t, r)
        BY <1>2, <1>4, <2>9, <2>10, <2>12
      <3>2. Stays(s, r) \/ Drops(s, r, 1) \/ Drops(s, r, 2)
        BY <1>m, <2>6, <3>1 DEF Takes
      <3>3. QED
        BY <2>5, <2>12, <3>2
    <2>13. QED
      BY <2>11, <2>12
  <1>5. QED
    BY <1>3, <1>4

\* What a turn does with the first argument: a word is never taken by itself.
Turned(opts, s, r) ==
  \/ Stays(s, r)
  \/ s.left[1].form # "word" /\ Drops(s, r, 1)
  \/ s.left[1].form # "word" /\ (s.left[1].form = "long" \/ HasValueFlag(opts)) /\ Drops(s, r, 2)

LEMMA ArgDrops ==
  ASSUME NEW A, NEW V, NEW I, NEW s \in States(A, V, I), s.at = 1, None \in V,
         \A a \in A : IsArg(a, V),
         NEW opts, IsTable(opts, I)
  PROVE  Turned(opts, s, ParseArg(opts, s, TRUE))
  <1>0. Len(s.left) \in Nat
    BY DEF States
  <1>1. Stays(s, Unknown(s, TRUE)) /\ Stays(s, [s EXCEPT !.over = TRUE])
    BY UnknownStops
  <1>2. ASSUME s.at <= Len(s.left)
        PROVE  Turned(opts, s, ParseNext(opts, s, s.left[1], TRUE))
    <2> DEFINE form == s.left[1].form
               cmd == IsCommand(opts, s.left[1].text)
               r == ParseNext(opts, s, s.left[1], TRUE)
    <2>1. Drops(s, [Shift(s, 1) EXCEPT !.over = TRUE], 1)
      <3>1. PICK sh : sh = Shift(s, 1)
        OBVIOUS
      <3>2. sh \in States(A, V, I) /\ Drops(s, sh, 1)
        BY <1>0, <1>2, <3>1, ShiftDrops, ShiftStays
      <3>3. PICK x : x = [sh EXCEPT !.over = TRUE]
        OBVIOUS
      <3>4. x.left = sh.left /\ x.at = sh.at /\ x.crashed = sh.crashed
        BY <3>2, <3>3 DEF States
      <3>5. Drops(s, x, 1)
        BY <3>2, <3>4 DEF Drops
      <3>6. QED
        BY <3>1, <3>3, <3>5
    <2>2. /\ form = "dashes" => r = [Shift(s, 1) EXCEPT !.over = TRUE]
          /\ form = "long" => r = ParseLong(opts, s, TRUE)
          /\ form = "short" => r = ParseShort(opts, s, TRUE)
          /\ form \notin {"dashes", "long", "short"} =>
               r = [s EXCEPT !.over = TRUE] \/ r = Unknown(s, TRUE)
      BY DEF ParseNext
    <2> SUFFICES Turned(opts, s, r)
      OBVIOUS
    <2> HIDE DEF r
    <2>3. CASE form = "dashes"
      BY <2>1, <2>2, <2>3 DEF Turned
    <2>4. CASE form = "long"
      <3>1. Stays(s, r) \/ Takes(s, r)
        <4>1. PICK x : x = ParseLong(opts, s, TRUE)
          OBVIOUS
        <4>2. x = Unknown(s, TRUE) \/ Takes(s, x)
          BY <1>2, <4>1, LongDrops
        <4>3. r = x
          BY <2>2, <2>4, <4>1
        <4>4. QED
          BY <1>1, <4>2, <4>3
      <3>2. QED
        BY <2>4, <3>1 DEF Turned, Takes
    <2>5. CASE form = "short"
      <3>1. Stays(s, r) \/ Drops(s, r, 1) \/ (HasValueFlag(opts) /\ Drops(s, r, 2))
        BY <1>2, <2>2, <2>5, ShortDrops
      <3>2. QED
        BY <2>5, <3>1 DEF Turned
    <2>6. CASE form \notin {"dashes", "long", "short"}
      BY <1>1, <2>2, <2>6 DEF Turned
    <2>7. QED
      BY <2>3, <2>4, <2>5, <2>6
  <1>3. QED
    <2>1. CASE s.over \/ s.at > Len(s.left)
      BY <1>1, <2>1 DEF ParseArg, Turned
    <2>2. CASE ~(s.over \/ s.at > Len(s.left))
      <3>1. s.at <= Len(s.left)
        BY <1>0, <2>2
      <3>2. ParseArg(opts, s, TRUE) = ParseNext(opts, s, s.left[1], TRUE)
        BY <2>2 DEF ParseArg
      <3>3. QED
        BY <1>2, <3>1, <3>2
    <2>3. QED
      BY <2>1, <2>2

\* Each word among the first k arguments follows a long option.
ValuesOnly(all, k) ==
  \A i \in 1..k : all[i].form = "word" => i > 1 /\ all[i - 1].form = "long"

\* The first k arguments have been taken.
Taken(opts, all, s, k) ==
  /\ s.left = SubSeq(all, k + 1, Len(all))
  /\ HasValueFlag(opts) \/ ValuesOnly(all, k)

\* Where a parse that stops at what it does not know has got to.
GotTo(opts, all, s) ==
  /\ s.at = 1
  /\ \E k \in 0..Len(all) : Taken(opts, all, s, k)
  /\ s.crashed => all # << >> /\ all[Len(all)].form = "short"

\* The end of a sequence.
LEMMA EndOf ==
  ASSUME NEW A, NEW all \in Seq(A), NEW k \in 0..Len(all), NEW l, l = SubSeq(all, k + 1, Len(all))
  PROVE  /\ l \in Seq(A) /\ Len(l) = Len(all) - k
         /\ \A i \in 1..(Len(all) - k) : l[i] = all[k + i]
         /\ \A n \in 1..(Len(all) - k) : SubSeq(l, n + 1, Len(l)) = SubSeq(all, (k + n) + 1, Len(all))
  <1>1. PICK N \in Nat : N = Len(all)
    OBVIOUS
  <1>2. \A i \in (k + 1)..N : i \in 1..Len(all)
    BY <1>1
  <1>3. l \in Seq(A)
    BY <1>1, <1>2
  <1>4. Len(l) = N - k /\ \A i \in 1..(N - k) : l[i] = all[k + i]
    BY <1>1
  <1>5. ASSUME NEW n \in 1..(N - k)
        PROVE  SubSeq(l, n + 1, N - k) = SubSeq(all, (k + n) + 1, N)
    <2>1. SubSeq(l, n + 1, N - k) = [i \in 1..(N - k - n) |-> l[n + i]]
      BY <1>1
    <2>2. SubSeq(all, (k + n) + 1, N) = [i \in 1..(N - k - n) |-> all[k + n + i]]
      BY <1>1
    <2>3. \A i \in 1..(N - k - n) : l[n + i] = all[k + n + i]
      BY <1>1, <1>4
    <2>4. QED
      BY <2>1, <2>2, <2>3
  <1>6. QED
    BY <1>1, <1>3, <1>4, <1>5

\* A turn takes it further.
LEMMA TurnTakes ==
  ASSUME NEW A, NEW all \in Seq(A), NEW opts, NEW s, GotTo(opts, all, s), NEW r, Turned(opts, s, r)
  PROVE  GotTo(opts, all, r)
  <1>1. PICK k \in 0..Len(all) : Taken(opts, all, s, k)
    BY DEF GotTo
  <1>2. PICK N \in Nat : N = Len(all) /\ k \in 0..N
    OBVIOUS
  <1>3. PICK l : l = s.left
    OBVIOUS
  <1>4. /\ l \in Seq(A) /\ Len(l) = N - k
        /\ \A i \in 1..(N - k) : l[i] = all[k + i]
        /\ \A n \in 1..(N - k) : SubSeq(l, n + 1, Len(l)) = SubSeq(all, (k + n) + 1, N)
    BY <1>1, <1>2, <1>3, EndOf DEF Taken
  <1>m. PICK m : m = Len(l) /\ m = N - k
    BY <1>4
  <1>5. CASE Stays(s, r)
    <2>1. Taken(opts, all, r, k) /\ r.at = 1
      BY <1>1, <1>5 DEF Stays, Taken, GotTo
    <2>2. ASSUME Len(l) = 1, l[1].form = "short" PROVE all # << >> /\ all[N].form = "short"
      <3>a. m = 1
        BY <1>m, <2>2
      <3>b. N \in Nat /\ k \in Nat
        BY <1>2
      <3>0. N - k = 1 /\ N \in Nat /\ k \in Nat
        BY <1>m, <3>a, <3>b
      <3>1. k + 1 = N /\ 1 \in 1..(N - k)
        BY <3>0
      <3>2. l[1] = all[N]
        BY <1>4, <3>1
      <3>3. N # 0
        BY <1>2, <3>1
      <3>4. QED
        BY <1>2, <2>2, <3>2, <3>3
    <2>3. r.crashed => all # << >> /\ all[N].form = "short"
      BY <1>2, <1>3, <1>5, <2>2 DEF Stays, GotTo
    <2>4. QED
      BY <1>2, <2>1, <2>3 DEF GotTo
  <1>6. ASSUME NEW n \in {1, 2}, Drops(s, r, n), l[1].form # "word",
               n = 2 => l[1].form = "long" \/ HasValueFlag(opts)
        PROVE  GotTo(opts, all, r)
    <2>1. n \in 1..(N - k)
      BY <1>2, <1>3, <1>4, <1>6 DEF Drops
    <2>2. r.left = SubSeq(all, (k + n) + 1, N)
      BY <1>3, <1>4, <1>6, <2>1 DEF Drops
    <2>3. k + n \in 0..N
      BY <1>2, <2>1
    <2>4. HasValueFlag(opts) \/ ValuesOnly(all, k + n)
      <3>1. SUFFICES ASSUME ~HasValueFlag(opts), NEW i \in 1..(k + n), all[i].form = "word"
                     PROVE  i > 1 /\ all[i - 1].form = "long"
        BY DEF ValuesOnly
      <3>2. ValuesOnly(all, k)
        BY <1>1, <3>1 DEF Taken
      <3>3. CASE i \in 1..k
        BY <3>1, <3>2, <3>3 DEF ValuesOnly
      <3>4. CASE i = k + 1
        <4>0. 1 \in 1..(N - k)
          BY <1>2, <2>1
        <4>1. l[1] = all[k + 1]
          BY <1>4, <4>0
        <4>2. QED
          BY <1>6, <3>1, <3>4, <4>1
      <3>5. CASE n = 2 /\ i = k + 2
        <4>0. 1 \in 1..(N - k) /\ i - 1 = k + 1 /\ i > 1
          BY <1>2, <2>1, <3>5
        <4>1. l[1] = all[k + 1]
          BY <1>4, <4>0
        <4>2. l[1].form = "long"
          BY <1>6, <3>1, <3>5
        <4>3. QED
          BY <4>0, <4>1, <4>2
      <3>6. QED
        BY <1>2, <3>3, <3>4, <3>5
    <2>5. r.at = 1 /\ (r.crashed => all # << >> /\ all[N].form = "short")
      BY <1>2, <1>6 DEF Drops, GotTo
    <2>6. Taken(opts, all, r, k + n)
      BY <1>2, <2>2, <2>4 DEF Taken
    <2>7. QED
      BY <1>2, <2>3, <2>5, <2>6 DEF GotTo
  <1>7. QED
    BY <1>3, <1>5, <1>6 DEF Turned

LEMMA ParseGets ==
  ASSUME NEW A, NEW V, NEW I, None \in V, \A a \in A : IsArg(a, V),
         NEW args \in Seq(A), NEW opts, IsTable(opts, I), NEW skip, NEW stop,
         skip => args # << >>
  PROVE  skip = TRUE /\ stop = TRUE =>
           /\ GotTo(opts, Tail(args), Parse(opts, args, skip, stop))
           /\ Parse(opts, args, skip, stop).left \in Seq(A)
  <1>2. PICK first : first = IF skip THEN Tail(args) ELSE args
    OBVIOUS
  <1>3. PICK N \in Nat : N = Len(args)
    OBVIOUS
  <1>4. PICK T : Turns(T, A, V, I, opts, first, stop, N) /\ T[N] = Parse(opts, args, skip, stop)
    BY <1>2, <1>3, ParseTurns
  <1> SUFFICES ASSUME skip = TRUE, stop = TRUE
               PROVE  /\ GotTo(opts, Tail(args), Parse(opts, args, skip, stop))
                      /\ Parse(opts, args, skip, stop).left \in Seq(A)
    OBVIOUS
  <1>1. PICK all : all = Tail(args) /\ all \in Seq(A)
    <2>1. Tail(args) \in Seq(A)
      OBVIOUS
    <2>2. QED
      BY <2>1
  <1>5. first = all
    BY <1>1, <1>2
  <1>6. /\ T[0] = Parsing(all) /\ \A k \in 0..N : T[k] \in States(A, V, I)
        /\ \A k \in 1..N : T[k] = ParseArg(opts, T[k - 1], TRUE)
    BY <1>3, <1>4, <1>5 DEF Turns
  <1> DEFINE Q(k) == k <= N => GotTo(opts, all, T[k])
             P == {k \in Nat : Q(k)}
  <1>7. Q(0)
    <2>1. PICK s : s = Parsing(all)
      OBVIOUS
    <2>2. s.left = all /\ s.at = 1 /\ ~s.crashed
      BY <2>1 DEF Parsing
    <2>3. SubSeq(all, 0 + 1, Len(all)) = all
      BY <1>1
    <2>4. Taken(opts, all, s, 0)
      BY <2>2, <2>3 DEF Taken, ValuesOnly
    <2>5. 0 \in 0..Len(all)
      BY <1>1
    <2>6. QED
      BY <1>6, <2>1, <2>2, <2>4, <2>5 DEF GotTo
  <1>8. ASSUME NEW k \in Nat, Q(k) PROVE Q(k + 1)
    <2> SUFFICES ASSUME k + 1 <= N PROVE GotTo(opts, all, T[k + 1])
      OBVIOUS
    <2>1. k \in 0..N /\ k + 1 \in 1..N /\ (k + 1) - 1 = k
      BY <1>3
    <2>2. PICK s : s = T[k]
      OBVIOUS
    <2>3. s \in States(A, V, I) /\ GotTo(opts, all, s)
      BY <1>6, <1>8, <2>1, <2>2
    <2>4. T[k + 1] = ParseArg(opts, s, TRUE)
      BY <1>6, <2>1, <2>2
    <2>5. s.at = 1
      BY <2>3 DEF GotTo
    <2>6. Turned(opts, s, ParseArg(opts, s, TRUE))
      BY <2>3, <2>5, ArgDrops
    <2>7. QED
      BY <1>1, <2>3, <2>4, <2>6, TurnTakes
  <1> HIDE DEF Q
  <1>9. 0 \in P /\ \A k \in P : k + 1 \in P
    BY <1>7, <1>8
  <1> HIDE DEF P
  <1>10. Nat \subseteq P
    BY <1>9, Induction
  <1>11. GotTo(opts, all, T[N])
    BY <1>3, <1>10 DEF P, Q
  <1>12. T[N].left \in Seq(A)
    BY <1>3, <1>6 DEF States
  <1>13. QED
    BY <1>1, <1>4, <1>11, <1>12

\* A parse that stops at what it does not know takes arguments from the front.
\* If no flag takes a value, words are taken only as the values of long options;
\* and it reads a null pointer only at a cluster that ends the arguments.
THEOREM ParseTakes ==
  ASSUME NEW A, \A a \in A : a.flags \in Seq(ToSet(a.flags)),
         NEW args \in Seq(A), args # << >>, NEW opts, opts \in Seq(ToSet(opts))
  PROVE  /\ GotTo(opts, Tail(args), Parse(opts, args, TRUE, TRUE))
         /\ Parse(opts, args, TRUE, TRUE).left \in Seq(A)
  <1> DEFINE V == Texts(A)
             I == {op.id : op \in ToSet(opts)}
  <1>1. None \in V /\ \A a \in A : IsArg(a, V)
    BY TextsAre
  <1>2. IsTable(opts, I)
    BY DEF IsTable
  <1> HIDE DEF V, I
  <1>3. PICK skip, stop : skip = TRUE /\ stop = TRUE
    OBVIOUS
  <1>4. /\ GotTo(opts, Tail(args), Parse(opts, args, skip, stop))
        /\ Parse(opts, args, skip, stop).left \in Seq(A)
    BY <1>1, <1>2, <1>3, ParseGets
  <1>5. QED
    BY <1>3, <1>4

-----------------------------------------------------------------------------
(* Which commands crash.                                                   *)

\* No option of main has a flag with a value.
LEMMA MainFlags == ~HasValueFlag(MainOptions)
  <1> SUFFICES ASSUME NEW op \in ToSet(MainOptions), op.short # None PROVE op.type = "bool"
    BY DEF HasValueFlag
  <1>1. PICK i \in 1..12 : op = MainOptions[i]
    BY MainRows DEF ToSet
  <1>2. i \in 1..7 \/ i = 8 \/ i = 9 \/ i = 10 \/ i = 11 \/ i = 12
    OBVIOUS
  <1>3. CASE i \in 1..7
    <2>1. op = Option("command", MainCommands[i], None, None)
      BY <1>1, <1>3, MainRows
    <2>2. QED
      BY <2>1 DEF Option
  <1>4. CASE i = 8
    <2>1. op = Option("int", "passphrase-fd", None, "passphrase-fd")
      BY <1>1, <1>4, MainRows
    <2>2. QED
      BY <2>1 DEF Option
  <1>5. CASE i = 9
    <2>1. op = Option("string", "passphrase-file", None, "passphrase-file")
      BY <1>1, <1>5, MainRows
    <2>2. QED
      BY <2>1 DEF Option
  <1>6. CASE i = 10
    <2>1. op = Option("string", "passphrase", None, "passphrase")
      BY <1>1, <1>6, MainRows
    <2>2. QED
      BY <2>1 DEF Option
  <1>7. CASE i = 11
    <2>1. op = Option("bool", "help", "h", "help")
      BY <1>1, <1>7, MainRows
    <2>2. QED
      BY <2>1 DEF Option
  <1>8. CASE i = 12
    <2>1. op = Option("bool", "version", "v", "version")
      BY <1>1, <1>8, MainRows
    <2>2. QED
      BY <2>1 DEF Option
  <1>9. QED
    BY <1>2, <1>3, <1>4, <1>5, <1>6, <1>7, <1>8

\* main takes arguments from the front.
LEMMA MainTakes ==
  ASSUME NEW args \in Lines \cup Solo, NEW m, m = MainParse(args)
  PROVE  /\ GotTo(MainOptions, args, m)
         /\ \E A : /\ \A a \in A : a.flags \in Seq(ToSet(a.flags))
                   /\ args \in Seq(A) /\ m.left \in Seq(A)
  <1>1. PICK w : w = Word("git-chat")
    OBVIOUS
  <1>2. PICK A : A = ToSet(args) \cup {w}
    OBVIOUS
  <1>3. /\ args \in Seq(ToSet(args))
        /\ \A i \in DOMAIN args : args[i].flags \in Seq(ToSet(args[i].flags))
    BY CommandLineAssumption
  <1>4. \A a \in A : a.flags \in Seq(ToSet(a.flags))
    <2>1. \A a \in ToSet(args) : a.flags \in Seq(ToSet(a.flags))
      BY <1>3 DEF ToSet
    <2>2. w.flags = << >> /\ << >> \in Seq(ToSet(<< >>))
      BY <1>1, ArgsAre
    <2>3. QED
      BY <1>2, <2>1, <2>2
  <1>5. args \in Seq(A)
    BY <1>2, <1>3
  <1>6. PICK all : all = <<w>> \o args
    OBVIOUS
  <1>7. all \in Seq(A) /\ all # << >> /\ Tail(all) = args
    BY <1>2, <1>5, <1>6, InFront
  <1>8. m = Parse(MainOptions, all, TRUE, TRUE)
    BY <1>1, <1>6 DEF MainParse
  <1>9. MainOptions \in Seq(ToSet(MainOptions))
    BY MainRows
  <1>10. GotTo(MainOptions, args, m) /\ m.left \in Seq(A)
    BY <1>4, <1>7, <1>8, <1>9, ParseTakes
  <1>11. QED
    BY <1>4, <1>5, <1>10

\* Which arguments make a command crash at its start.
CrashArgs(args) ==
  \/ \A i \in DOMAIN args : args[i].form = "word" => i > 1 /\ args[i - 1].form = "long"
  \/ Last(args).form = "short"

\* main has no argument left.
LEMMA MainCrashes ==
  ASSUME NEW args \in Lines \cup Solo, MainParse(args).left = << >>
  PROVE  CrashArgs(args)
  <1>1. PICK m : m = MainParse(args)
    OBVIOUS
  <1>2. GotTo(MainOptions, args, m) /\ \E A : args \in Seq(A)
    BY <1>1, MainTakes
  <1>3. PICK A : args \in Seq(A)
    BY <1>2
  <1>4. PICK k \in 0..Len(args) : Taken(MainOptions, args, m, k)
    BY <1>2 DEF GotTo
  <1>5. PICK l : l = SubSeq(args, k + 1, Len(args))
    OBVIOUS
  <1>6. l = << >> /\ ValuesOnly(args, k)
    BY <1>1, <1>4, <1>5, MainFlags DEF Taken
  <1>7. Len(l) = Len(args) - k
    BY <1>3, <1>5, EndOf
  <1>8. PICK N \in Nat : N = Len(args)
    BY <1>3
  <1>9. k = N
    <2>1. Len(l) = 0
      BY <1>6
    <2>2. N - k = 0 /\ k \in Nat
      BY <1>7, <1>8, <2>1
    <2>3. QED
      BY <1>8, <2>2
  <1>10. DOMAIN args = 1..k
    BY <1>3, <1>8, <1>9
  <1>11. QED
    BY <1>6, <1>10 DEF CrashArgs, ValuesOnly

\* read is given a flag that wants a number, and none.
LEMMA ReadCrashes ==
  ASSUME NEW args \in Lines \cup Solo, MainParse(args).left # << >>,
         Parse(ReadOptions, MainParse(args).left, TRUE, TRUE).crashed
  PROVE  CrashArgs(args)
  <1>1. PICK m : m = MainParse(args)
    OBVIOUS
  <1>2. PICK l : l = m.left
    OBVIOUS
  <1>3. PICK r : r = Parse(ReadOptions, l, TRUE, TRUE)
    OBVIOUS
  <1>4. l # << >> /\ r.crashed
    BY <1>1, <1>2, <1>3
  <1>5. GotTo(MainOptions, args, m)
    BY <1>1, MainTakes
  <1>6. PICK A : /\ \A a \in A : a.flags \in Seq(ToSet(a.flags))
                 /\ args \in Seq(A) /\ l \in Seq(A)
    BY <1>1, <1>2, MainTakes
  <1>7. PICK k \in 0..Len(args) : l = SubSeq(args, k + 1, Len(args))
    BY <1>2, <1>5 DEF GotTo, Taken
  <1>8. PICK rest : rest = Tail(l)
    OBVIOUS
  <1>9. GotTo(ReadOptions, rest, r)
    <2>1. ReadOptions \in Seq(ToSet(ReadOptions))
      BY ReadIsDistinct DEF Distinct
    <2>2. QED
      BY <1>3, <1>4, <1>6, <1>8, <2>1, ParseTakes
  <1>10. rest # << >> /\ rest[Len(rest)].form = "short"
    BY <1>4, <1>9 DEF GotTo
  <1>11. PICK N \in Nat : N = Len(args)
    BY <1>6
  <1>12. PICK n \in Nat : n = Len(l) /\ n = N - k
    <2>1. Len(l) = Len(args) - k
      BY <1>6, <1>7, EndOf
    <2>2. Len(l) \in Nat
      BY <1>6
    <2>3. QED
      BY <1>11, <2>1, <2>2
  <1>13. \A i \in 1..n : l[i] = args[k + i]
    <2>1. \A i \in 1..(Len(args) - k) : l[i] = args[k + i]
      BY <1>6, <1>7, EndOf
    <2>2. QED
      BY <1>11, <1>12, <2>1
  <1>14. n # 0
    <2>1. Len(l) # 0
      BY <1>4, <1>6
    <2>2. QED
      BY <1>12, <2>1
  <1>15. /\ rest \in Seq(A) /\ Len(rest) = n - 1 /\ n - 1 # 0
         /\ \A i \in 1..(n - 1) : rest[i] = l[i + 1]
    <2>1. /\ rest \in Seq(A) /\ Len(rest) = Len(l) - 1
          /\ \A i \in 1..(Len(l) - 1) : rest[i] = l[i + 1]
      BY <1>4, <1>6, <1>8
    <2>2. Len(rest) # 0
      BY <1>10, <2>1
    <2>3. QED
      BY <1>12, <2>1, <2>2
  <1>16. n - 1 \in 1..(n - 1) /\ (n - 1) + 1 = n /\ n \in 1..n /\ k + n = N
    <2>1. k \in Nat
      BY <1>11
    <2>2. QED
      BY <1>11, <1>12, <1>14, <1>15, <2>1
  <1>17. rest[n - 1] = args[N]
    BY <1>13, <1>15, <1>16
  <1>18. Last(args).form = "short"
    BY <1>10, <1>11, <1>15, <1>17 DEF Last
  <1>19. QED
    BY <1>18 DEF CrashArgs

\* A listing crashes only for a ref without a name.
LEMMA ListCrashesAre ==
  ASSUME ListedInv, NEW t \in Terminals, ListCrashes(t)
  PROVE  listing[t].read # {} /\ \E ref \in DOMAIN tips : ref[2] = None
  <1>1. PICK l, p : l = listing[t] /\ p = pc[t]
    OBVIOUS
  <1>2. Sound(p, l, opt[t])
    BY <1>1 DEF ListedInv
  <1>3. PICK es : es = l.entries
    OBVIOUS
  <1>4. CASE p = "list_filter" /\ FilterCrashes(es)
    <2>1. PICK e \in ToSet(es) : e.ref[2] = None
      BY <1>4 DEF FilterCrashes
    <2>2. l.read = ReadOf(ToSet(es)) /\ {x.ref : x \in ToSet(es)} = Fetched(p)
      BY <1>2, <1>3, <1>4 DEF Sound, Gathering
    <2>3. e.ref \in DOMAIN tips
      BY <2>2 DEF Fetched
    <2>4. <<e.ref, e.oid>> \in l.read
      BY <2>2 DEF ReadOf
    <2>5. QED
      BY <1>1, <2>1, <2>3, <2>4
  <1>5. CASE p = "print_remote" /\ \E e \in ToSet(es) : e.ref[2] = None
    <2>1. PICK e \in ToSet(es) : e.ref[2] = None
      BY <1>5
    <2>2. l.read # {} /\ e.ref \in DOMAIN tips
      BY <1>2, <1>3, <1>5, <2>1 DEF Sound, Printing
    <2>3. QED
      BY <1>1, <2>1, <2>2
  <1>6. QED
    BY <1>1, <1>3, <1>4, <1>5 DEF ListCrashes, HasBareRef

\* What is excused: arguments that no documented use has, or a ref like
\* refs/remotes/svn.
Excused(args, l) ==
  \/ args \notin Spelled /\ CrashArgs(args)
  \/ l.read # {} /\ \E ref \in DOMAIN tips : ref[2] = None

NoCrashInv ==
  /\ line = [t \in Terminals |-> line[t]] /\ status = [t \in Terminals |-> status[t]]
  /\ \A t \in Terminals :
       status[t] = "crashed" => pc[t] = "idle" /\ Excused(line[t], listing[t])

\* A command that is started and crashes does so for its arguments.
LEMMA StartCrashes ==
  ASSUME NoCrashInv, NEW t \in Terminals, NEW args \in Lines \cup Solo, Start(t, args)
  PROVE  \E p, to, s : /\ Parsed(t, args, p, to, s)
                       /\ s = "crashed" => to = "idle" /\ args \notin Spelled /\ CrashArgs(args)
  <1>1. CASE args \in Spelled
    <2>1. PICK u \in Uses : args = UseArgs(u)
      BY <1>1 DEF Spelled
    <2>2. IsUse(u)
      BY UsesAssumption
    <2>3. \E p, to, s : Parsed(t, args, p, to, s) /\ s # "crashed"
      BY <2>1, <2>2, UseStarts
    <2>4. QED
      BY <2>3
  <1>2. CASE args \notin Spelled
    <2>1. PICK m : m = MainParse(args)
      OBVIOUS
    <2>2. CASE MainEnds(t, args)
      <3>1. \E s : Parsed(t, args, m, "idle", s) /\ (s = "crashed" => m.left = << >>)
        BY <2>1, <2>2 DEF MainEnds
      <3>2. QED
        BY <1>2, <2>1, <3>1, MainCrashes
    <2>3. CASE StartRead(t, args)
      <3>1. PICK r : r = Parse(ReadOptions, m.left, TRUE, TRUE)
        OBVIOUS
      <3>2. MainParse(args).left # << >>
        BY <2>3 DEF StartRead, Runs, Delegates
      <3>3. CASE r.crashed
        <4>1. Parsed(t, args, r, "idle", "crashed")
          BY <2>1, <2>3, <3>1, <3>3 DEF StartRead
        <4>2. CrashArgs(args)
          BY <2>1, <3>1, <3>2, <3>3, ReadCrashes
        <4>3. QED
          BY <1>2, <4>1, <4>2
      <3>4. CASE ~r.crashed
        <4>1. \E s \in {"failed", "done"} : Parsed(t, args, r, "idle", s)
          BY <2>1, <2>3, <3>1, <3>4 DEF StartRead
        <4>2. QED
          BY <4>1
      <3>5. QED
        BY <3>3, <3>4
    <2>4. CASE StartMessage(t, args)
      <3>1. \E p, to : \E s \in {"failed", "done", "none"} : Parsed(t, args, p, to, s)
        BY <2>4 DEF StartMessage
      <3>2. QED
        BY <3>1
    <2>5. CASE ChannelEnds(t, args)
      <3>1. \E p, to : \E s \in {"failed", "done"} : Parsed(t, args, p, to, s)
        BY <2>5 DEF ChannelEnds
      <3>2. QED
        BY <3>1
    <2>6. CASE StartList(t, args)
      <3>1. \E p, to : \E s \in {"failed", "done", "none"} : Parsed(t, args, p, to, s)
        BY <2>6 DEF StartList
      <3>2. QED
        BY <3>1
    <2>7. QED
      BY <2>2, <2>3, <2>4, <2>5, <2>6 DEF Start
  <1>3. QED
    BY <1>1, <1>2

\* A step of terminal t leaves what the others did.
Alone(t) ==
  /\ DOMAIN tips' = DOMAIN tips
  /\ line' = [line EXCEPT ![t] = line'[t]] /\ status' = [status EXCEPT ![t] = status'[t]]
  /\ \A u \in Terminals : u # t => pc'[u] = pc[u] /\ listing'[u].read = listing[u].read

LEMMA AloneKeeps ==
  ASSUME NoCrashInv, NEW t \in Terminals, Alone(t),
         status'[t] = "crashed" => pc'[t] = "idle" /\ Excused(line[t], listing[t])'
  PROVE  NoCrashInv'
  <1>1. /\ line' = [u \in Terminals |-> line'[u]] /\ status' = [u \in Terminals |-> status'[u]]
        /\ \A u \in Terminals : u # t => line'[u] = line[u] /\ status'[u] = status[u]
    BY DEF NoCrashInv, Alone
  <1>2. ASSUME NEW u \in Terminals, u # t, status'[u] = "crashed"
        PROVE  pc'[u] = "idle" /\ Excused(line[u], listing[u])'
    <2>1. pc[u] = "idle" /\ Excused(line[u], listing[u])
      BY <1>1, <1>2 DEF NoCrashInv
    <2>2. pc'[u] = pc[u] /\ listing'[u].read = listing[u].read /\ DOMAIN tips' = DOMAIN tips
      BY <1>2 DEF Alone
    <2>3. QED
      BY <1>1, <1>2, <2>1, <2>2 DEF Excused
  <1>3. QED
    BY <1>1, <1>2 DEF NoCrashInv

\* The steps of message end it, or leave its status.
LEMMA MessageEnds ==
  ASSUME NEW t \in Terminals, MessageStep(t)
  PROVE  status' = status \/ \E s \in {"done", "failed"} : status' = [status EXCEPT ![t] = s]
  <1> USE DEF Step, Ends
  <1>1. CASE TruncateEditMsg(t) \/ OpenReply(t) \/ WriteReply(t) \/ WriteReplyFails(t)
    BY <1>1 DEF TruncateEditMsg, OpenReply, WriteReply, WriteReplyFails
  <1>2. CASE LaunchEditor(t) \/ SaveDraft(t) \/ QuitEditor(t) \/ EditorFails(t)
    BY <1>2 DEF LaunchEditor, SaveDraft, QuitEditor, EditorFails
  <1>3. CASE WipeReply(t) \/ ReadBack(t) \/ WipeEditMsg(t)
    BY <1>3 DEF WipeReply, ReadBack, WipeEditMsg
  <1>4. CASE ReadFile(t) \/ ReadFileFails(t) \/ Encrypt(t) \/ EncryptFails(t)
    BY <1>4 DEF ReadFile, ReadFileFails, Encrypt, EncryptFails
  <1>5. CASE WriteCommit(t) \/ WriteCommitFails(t) \/ KillMessage(t)
    BY <1>5 DEF WriteCommit, WriteCommitFails, KillMessage
  <1>6. QED
    BY <1>1, <1>2, <1>3, <1>4, <1>5 DEF MessageStep

\* A listing notices a move, and keeps what it read.
LEMMA NoticeKeeps ==
  ASSUME ListedInv, Notice, NEW t \in Terminals
  PROVE  listing'[t].read = listing[t].read
  <1>1. PICK l : l = listing[t]
    OBVIOUS
  <1>2. Record(l)
    BY <1>1 DEF ListedInv, Sound
  <1>3. PICK new : new = [l EXCEPT !.moved = TRUE]
    OBVIOUS
  <1>4. new.read = l.read
    BY <1>2, <1>3 DEF Record
  <1>5. listing'[t] = new \/ listing'[t] = l
    BY <1>1, <1>3 DEF Notice
  <1>6. QED
    BY <1>1, <1>4, <1>5

\* The steps of a listing leave the other listings, and those that do not end
\* it leave its status.
LEMMA ListStepEnds ==
  ASSUME ListedInv, NEW t \in Terminals, ListStep(t)
  PROVE  /\ pc[t] \in ListSteps /\ line' = line /\ UNCHANGED refs
         /\ \E to : pc' = [pc EXCEPT ![t] = to]
         /\ \E l : listing' = [listing EXCEPT ![t] = l]
         /\ \/ status' = status
            \/ status' = [status EXCEPT ![t] = "done"]
            \/ ListCrashes(t)
  <1>1. PICK l : l = listing[t]
    OBVIOUS
  <1>2. listing = [u \in Terminals |-> listing[u]]
    BY DEF ListedInv
  <1>3. UNCHANGED listing => \E x : listing' = [listing EXCEPT ![t] = x]
    <2>1. UNCHANGED listing => listing' = [listing EXCEPT ![t] = l]
      BY <1>1, <1>2
    <2>2. QED
      BY <2>1
  <1>4. CASE ListLocal(t) \/ ListRemote(t)
    <2>1. PICK S : FetchChannels(t, S)
      BY <1>4 DEF ListLocal, ListRemote
    <2>2. listing' = [listing EXCEPT ![t] = WithFetched(l, S)]
      BY <1>1, <2>1, FetchSets
    <2>3. \E x : listing' = [listing EXCEPT ![t] = x]
      BY <2>2
    <2>4. QED
      BY <1>4, <2>3 DEF ListLocal, ListRemote, Step, ListSteps
  <1>5. CASE FilterChannels(t)
    <2>1. PICK left : listing' = [listing EXCEPT ![t].entries = Sorted(left)]
      BY <1>5 DEF FilterChannels
    <2>2. listing' = [listing EXCEPT ![t] = [l EXCEPT !.entries = Sorted(left)]]
      BY <1>1, <2>1
    <2>3. \E x : listing' = [listing EXCEPT ![t] = x]
      BY <2>2
    <2>4. QED
      BY <1>5, <2>3 DEF FilterChannels, Step, ListSteps
  <1>6. CASE PrintLocal(t) \/ PrintRemote(t)
    <2>1. PICK origin : PrintChannels(t, origin)
      BY <1>6 DEF PrintLocal, PrintRemote
    <2>2. listing' = [listing EXCEPT ![t] = WithPrinted(l, origin)]
      BY <1>1, <2>1, PrintSets
    <2>3. \E x : listing' = [listing EXCEPT ![t] = x]
      BY <2>2
    <2>4. QED
      BY <1>6, <2>3 DEF PrintLocal, PrintRemote, Step, ListSteps
  <1>7. CASE ListDone(t)
    BY <1>3, <1>7 DEF ListDone, Ends, ListSteps
  <1>8. CASE ListCrashes(t)
    BY <1>3, <1>8 DEF ListCrashes, Ends, ListSteps
  <1>9. QED
    BY <1>4, <1>5, <1>6, <1>7, <1>8 DEF ListStep

\* What a start, a step of message, a step of a listing and a move do to the
\* commands that crashed, in turn.
LEMMA StartKeepsCrashes ==
  ASSUME NoCrashInv, ListedInv, NEW t \in Terminals, StartSide(t) \/ StartAlone(t)
  PROVE  NoCrashInv'
  <1>1. PICK args \in Lines \cup Solo : Start(t, args)
    BY DEF StartSide, StartAlone
  <1>2. PICK p, to, s : /\ Parsed(t, args, p, to, s)
                        /\ s = "crashed" => to = "idle" /\ args \notin Spelled /\ CrashArgs(args)
    BY <1>1, StartCrashes
  <1>3. PerTerminal
    BY DEF ListedInv
  <1>4. Leaves(t)
    BY <1>1, <1>3, StartLeaves
  <1>5. /\ line' = [line EXCEPT ![t] = args] /\ status' = [status EXCEPT ![t] = s]
        /\ pc' = [pc EXCEPT ![t] = to]
    BY <1>2 DEF Parsed
  <1>6. line'[t] = args /\ status'[t] = s /\ pc'[t] = to
    BY <1>3, <1>5 DEF NoCrashInv, PerTerminal
  <1>7. \A u \in Terminals : u # t => pc'[u] = pc[u] /\ listing'[u] = listing[u]
    BY <1>3, <1>4, <1>5 DEF Leaves, ListedInv, PerTerminal
  <1>8. tips' = tips
    BY <1>4 DEF Leaves, refs
  <1>9. Alone(t)
    BY <1>5, <1>6, <1>7, <1>8 DEF Alone
  <1>10. status'[t] = "crashed" => pc'[t] = "idle" /\ Excused(line[t], listing[t])'
    BY <1>2, <1>6 DEF Excused
  <1>11. QED
    BY <1>9, <1>10, AloneKeeps

LEMMA MessageKeepsCrashes ==
  ASSUME NoCrashInv, ListedInv, NEW t \in Terminals, Message(t), line' = line
  PROVE  NoCrashInv'
  <1>1. MessageStep(t)
    BY DEF Message
  <1>2. PerTerminal
    BY DEF ListedInv
  <1>3. /\ pc[t] \in MessageSteps
        /\ \A u \in Terminals : u # t => pc'[u] = pc[u]
    BY <1>1, <1>2, MessageMoves
  <1>4. pc[t] # "idle"
    BY <1>3, StepSets
  <1>5. status[t] # "crashed"
    BY <1>4 DEF NoCrashInv
  <1>6. status' = status \/ \E s \in {"done", "failed"} : status' = [status EXCEPT ![t] = s]
    BY <1>1, MessageEnds
  <1>7. status' = [status EXCEPT ![t] = status'[t]] /\ status'[t] # "crashed"
    BY <1>5, <1>6 DEF NoCrashInv
  <1>8. line' = [line EXCEPT ![t] = line'[t]]
    BY DEF NoCrashInv
  <1>9. DOMAIN tips' = DOMAIN tips
    BY <1>1, MessageMovesRefs
  <1>10. \A u \in Terminals : listing'[u].read = listing[u].read
    BY NoticeKeeps DEF Message
  <1>11. Alone(t)
    BY <1>3, <1>7, <1>8, <1>9, <1>10 DEF Alone
  <1>12. QED
    BY <1>7, <1>11, AloneKeeps

LEMMA ListKeepsCrashes ==
  ASSUME NoCrashInv, ListedInv, NEW t \in Terminals, List(t) \/ StopList(t)
  PROVE  NoCrashInv'
  <1>1. PerTerminal
    BY DEF ListedInv
  <1>2. CASE List(t)
    <2>1. /\ pc[t] \in ListSteps /\ line' = line /\ UNCHANGED refs
          /\ \E to : pc' = [pc EXCEPT ![t] = to]
          /\ \E l : listing' = [listing EXCEPT ![t] = l]
          /\ \/ status' = status
             \/ status' = [status EXCEPT ![t] = "done"]
             \/ ListCrashes(t)
      BY <1>2, ListStepEnds DEF List
    <2>2. \A u \in Terminals : u # t => pc'[u] = pc[u] /\ listing'[u] = listing[u]
      BY <1>1, <2>1 DEF ListedInv, PerTerminal
    <2>3. tips' = tips
      BY <2>1 DEF refs
    <2>4. line' = [line EXCEPT ![t] = line'[t]]
      BY <2>1 DEF NoCrashInv
    <2>5. status[t] # "crashed"
      BY <2>1 DEF NoCrashInv, ListSteps
    <2>6. CASE ListCrashes(t)
      <3>1. listing[t].read # {} /\ \E ref \in DOMAIN tips : ref[2] = None
        BY <2>6, ListCrashesAre
      <3>2. Ends(t, "crashed") /\ UNCHANGED listing
        BY <2>6 DEF ListCrashes
      <3>3. status' = [status EXCEPT ![t] = status'[t]] /\ pc'[t] = "idle"
        BY <1>1, <3>2 DEF Ends, NoCrashInv, PerTerminal
      <3>4. Alone(t)
        BY <2>2, <2>3, <2>4, <3>3 DEF Alone
      <3>5. Excused(line[t], listing[t])'
        BY <2>3, <3>1, <3>2 DEF Excused
      <3>6. QED
        BY <3>3, <3>4, <3>5, AloneKeeps
    <2>7. CASE status' = status \/ status' = [status EXCEPT ![t] = "done"]
      <3>1. status' = [status EXCEPT ![t] = status'[t]] /\ status'[t] # "crashed"
        BY <2>5, <2>7 DEF NoCrashInv
      <3>2. Alone(t)
        BY <2>2, <2>3, <2>4, <3>1 DEF Alone
      <3>3. QED
        BY <3>1, <3>2, AloneKeeps
    <2>8. QED
      BY <2>1, <2>6, <2>7
  <1>3. CASE StopList(t)
    <2>1. Ends(t, "failed") /\ UNCHANGED <<refs, listing>>
      BY <1>3 DEF StopList, KillList
    <2>2. \A u \in Terminals : u # t => pc'[u] = pc[u] /\ listing'[u] = listing[u]
      BY <1>1, <2>1 DEF Ends, PerTerminal
    <2>3. tips' = tips
      BY <2>1 DEF refs
    <2>4. line' = [line EXCEPT ![t] = line'[t]]
      BY <2>1 DEF Ends, NoCrashInv
    <2>5. status' = [status EXCEPT ![t] = status'[t]] /\ status'[t] # "crashed"
      BY <2>1 DEF Ends, NoCrashInv
    <2>6. Alone(t)
      BY <2>2, <2>3, <2>4, <2>5 DEF Alone
    <2>7. QED
      BY <2>5, <2>6, AloneKeeps
  <1>4. QED
    BY <1>2, <1>3

LEMMA MoveKeepsCrashes ==
  ASSUME NoCrashInv, ListedInv, Move
  PROVE  NoCrashInv'
  <1>1. Moves /\ Notice /\ UNCHANGED <<line, status, pc>>
    BY DEF Move, control
  <1>2. DOMAIN tips' = DOMAIN tips
    BY <1>1, MovesKeep DEF ListedInv
  <1>3. \A t \in Terminals : listing'[t].read = listing[t].read
    BY <1>1, NoticeKeeps
  <1>4. QED
    BY <1>1, <1>2, <1>3 DEF NoCrashInv, Excused

LEMMA NoCrashStep ==
  ASSUME NoCrashInv, ListedInv, [Next]_vars
  PROVE  NoCrashInv'
  <1>1. CASE UNCHANGED vars
    BY <1>1 DEF vars, control, refs, NoCrashInv, Excused
  <1>2. ASSUME NEW t \in Terminals, StartSide(t) \/ StartAlone(t)
        PROVE  NoCrashInv'
    BY <1>2, StartKeepsCrashes
  <1>3. ASSUME NEW t \in Terminals, Message(t)
        PROVE  NoCrashInv'
    BY <1>3, MessageKeepsLine, MessageKeepsCrashes
  <1>4. ASSUME NEW t \in Terminals, List(t) \/ StopList(t)
        PROVE  NoCrashInv'
    BY <1>4, ListKeepsCrashes
  <1>5. CASE Move
    BY <1>5, MoveKeepsCrashes
  <1>6. QED
    BY <1>1, <1>2, <1>3, <1>4, <1>5 DEF Next

\* For any command lines, documented uses, refs and schedules: a command that
\* reads through a null pointer was given arguments that no documented use has,
\* of one of two forms, or it lists a ref without a name.
THEOREM DocumentedUsesNeverCrash == Spec => []DocumentedUseNeverCrashes
  <1>1. Init => NoCrashInv
    BY DEF Init, TerminalInit, NoCrashInv
  <1>2. ListedInv /\ NoCrashInv /\ [Next]_vars => (ListedInv /\ NoCrashInv)'
    BY ListedStep, NoCrashStep
  <1>3. NoCrashInv => DocumentedUseNeverCrashes
    BY DEF NoCrashInv, DocumentedUseNeverCrashes, Excused, CrashArgs
  <1>4. QED
    BY <1>1, <1>2, <1>3, InitListed, PTL DEF Spec
=============================================================================
