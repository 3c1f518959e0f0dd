----------------------------- MODULE CommandLine -----------------------------
(***************************************************************************)
(* Commands typed in several terminals of one clone: messages are written  *)
(* and channels are listed while refs move.                                *)
(***************************************************************************)
EXTENDS MessageCommand, ChannelList

CONSTANTS
  Lines,        \* the arguments of commands that run side by side
  Solo,         \* the arguments that are only tried alone
  Uses,         \* documented uses: the command, the phrases before and after it,
                \* whether there is a "--", and the arguments that follow
  MaxRuns,      \* the number of commands
  MaxMoves      \* the number of times another git command moves a ref

\* An argument vector is a sequence, and so is a cluster of flags.
ASSUME CommandLineAssumption ==
  /\ MaxRuns \in Nat \ {0} /\ MaxMoves \in Nat
  /\ \A args \in Lines \cup Solo :
       /\ args \in Seq(ToSet(args))
       /\ \A i \in DOMAIN args : args[i].flags \in Seq(ToSet(args[i].flags))

\* A use: where the passphrase comes from, a command, its options, and what
\* follows them.
Command(u) == IF u.command = "list" THEN <<Word("channel"), Word("list")>> ELSE <<Word(u.command)>>

Table(u) ==
  IF u.command = "message" THEN MessageOptions
  ELSE IF u.command = "read" THEN ReadOptions ELSE ListOptions

UseArgs(u) ==
  ArgsOf(u.main) \o Command(u) \o ArgsOf(u.phrases) \o Ending(u.dashes, u.rest)

IsUse(u) ==
  /\ u.command \in {"message", "read", "list"}
  /\ u.main \in Seq(ToSet(u.main)) /\ Len(u.main) <= 1
  /\ \A ph \in ToSet(u.main) : IsPhrase(MainOptions, ph) /\ ph.how \in {"equals", "apart"}
  /\ u.phrases \in Seq(ToSet(u.phrases))
  /\ \A ph \in ToSet(u.phrases) : IsPhrase(Table(u), ph)
  /\ IsEnding(u.dashes, u.rest)

ASSUME UsesAssumption == \A u \in Uses : IsUse(u)

VARIABLES
  runs, moves   \* the commands and the moves so far

vars == <<control, refs, messageVars, listing, runs, moves>>

Init ==
  /\ TerminalInit /\ MessageInit /\ ListInit
  /\ runs = 0 /\ moves = 0

\* A move of a ref is noticed by the listings that are being made.
Notice ==
  listing' = [t \in Terminals |->
    IF pc[t] \in ListSteps \ {"list_local"} THEN [listing[t] EXCEPT !.moved = TRUE]
    ELSE listing[t]]

Start(t, args) ==
  \/ MainEnds(t, args) /\ UNCHANGED <<refs, messageVars, listing>>
  \/ StartRead(t, args) /\ UNCHANGED <<refs, messageVars, listing>>
  \/ StartMessage(t, args) /\ UNCHANGED listing
  \/ ChannelEnds(t, args) /\ UNCHANGED messageVars
  \/ StartList(t, args) /\ UNCHANGED messageVars

StartSide(t) ==
  /\ runs < MaxRuns
  /\ runs' = runs + 1 /\ UNCHANGED moves
  /\ \E args \in Lines : Start(t, args)

StartAlone(t) ==
  /\ runs = 0
  /\ runs' = MaxRuns /\ moves' = MaxMoves
  /\ \E args \in Solo : Start(t, args)

Message(t) ==
  /\ MessageStep(t)
  /\ IF tips' = tips THEN UNCHANGED listing ELSE Notice
  /\ UNCHANGED <<runs, moves>>

List(t) == ListStep(t) /\ UNCHANGED <<messageVars, runs, moves>>

StopList(t) == KillList(t) /\ UNCHANGED <<messageVars, runs, moves>>

Move ==
  /\ moves < MaxMoves
  /\ moves' = moves + 1
  /\ Moves
  /\ Notice
  /\ UNCHANGED <<control, messageVars, runs>>

Next ==
  \/ \E t \in Terminals :
       StartSide(t) \/ StartAlone(t) \/ Message(t) \/ List(t) \/ StopList(t)
  \/ Move

\* A listing that was started goes on, if nothing stops it; users need not.
Spec == Init /\ [][Next]_vars /\ \A t \in Terminals : WF_vars(List(t))

-----------------------------------------------------------------------------
(* Properties.                                                             *)

\* Each variable holds a value of its kind, and each local of a command is
\* blank outside it.
TypeOK ==
  /\ \A t \in Terminals :
       /\ pc[t] \in {"idle"} \cup MessageSteps \cup ListSteps
       /\ status[t] \in {"none", "done", "failed", "crashed"}
       /\ msg[t].readers \subseteq Trusted
       /\ pc[t] \in ListSteps => listing[t].read # {} \/ pc[t] = "list_local"
       /\ \A i \in DOMAIN listing[t].entries : listing[t].entries[i].ref \in Refs
  /\ \E tip \in Starts : DOMAIN tips = DOMAIN tip
  /\ HeadRef \in DOMAIN tips
  /\ dirty \subseteq {"GC_EDITMSG", "GC_REPLY_LAST"}

Spelled == {UseArgs(u) : u \in Uses}
Readings == {<<UseArgs(u), GivenOf(u.phrases), u.rest>> : u \in Uses}

\* Each argument vector that the documented grammar generates is understood:
\* values are attached or not, flags share a cluster or not, "--" ends the
\* options, and every assignment is made, in order, with nothing left over.
OptionsAreUnderstood ==
  \A t \in Terminals : line[t] \in Spelled =>
    <<line[t], opt[t].given, opt[t].left>> \in Readings

\* No command reads through a null pointer when its arguments are what the
\* documented grammar generates and every ref has a name.  It takes arguments
\* that name no command, in which each word is the value of an option (git chat
\* --), or a flag at their end that wants a number (git chat read -n), or, for
\* a listing, a ref like refs/remotes/svn.
DocumentedUseNeverCrashes ==
  \A t \in Terminals : status[t] = "crashed" =>
    \/ /\ line[t] \notin Spelled
       /\ \/ \A i \in DOMAIN line[t] :
               line[t][i].form = "word" => i > 1 /\ line[t][i - 1].form = "long"
          \/ Last(line[t]).form = "short"
    \/ listing[t].read # {} /\ \E ref \in DOMAIN tips : ref[2] = None

\* A message that reaches a channel is what its author wrote, whatever
\* earlier commands, killed ones too, left in GC_EDITMSG; only an editor open
\* in another terminal at the same time can change it.
MessageIsAsMeant ==
  \A i \in DOMAIN sent : ~sent[i].disturbed => sent[i].text = sent[i].meant

\* With no editor at work, neither file holds a message in the clear, but for
\* what a failed command left: a failed editor leaves GC_EDITMSG alone.
PlaintextIsWiped ==
  /\ (\A t \in Terminals : pc[t] \notin Composing \cup {"wipe"}) /\ "GC_EDITMSG" \notin dirty
       => editmsg = << >>
  /\ (\A t \in Terminals : ~(pc[t] \in Replying /\ Shows(t))) /\ "GC_REPLY_LAST" \notin dirty
       => replyLast = << >>

\* A recipient has at most one key.
Plain(s) ==
  \A i \in DOMAIN s.recipients :
    Cardinality({k \in Keys : s.recipients[i].value \in Names[k]}) <= 1

\* With recipients that name no more than one key each, every recipient has a
\* key, and exactly those that are trusted can read the message.  (The keys
\* are only counted: "team" and an unknown name pass for two recipients.)
RecipientsCanRead ==
  \A i \in DOMAIN sent : LET s == sent[i] IN
    s.recipients # << >> /\ Plain(s) =>
      \A j \in DOMAIN s.recipients :
        \E k \in Keys : /\ s.recipients[j].value \in Names[k]
                        /\ k \in s.readers <=> k \in Trusted

\* A listing is at its last step.
Listed(t) == pc[t] = "print_remote" /\ listing[t].entries = << >>

\* A row is printed at its place in a group.
Printed(t) ==
  LET out == listing[t].out
  IN  UNION {{<<g, k>> : k \in DOMAIN out[g].rows} : g \in DOMAIN out}

Row(t, p) == listing[t].out[p[1]].rows[p[2]]

\* Every ref that was read is printed, unless a local channel of the same name
\* and with the same messages is; no ref is printed twice; and the rows are
\* those of the remote their group is headed by, in order.
EveryChannelIsListed ==
  \A t \in Terminals : Listed(t) =>
    /\ \A r \in listing[t].read : \E p \in Printed(t) :
         Row(t, p).oid = r[2] /\ Row(t, p).ref \in {r[1], Local(r[1][2])}
    /\ \A p, q \in Printed(t) : Row(t, p).ref = Row(t, q).ref => p = q
    /\ \A p, q \in Printed(t) : p[1] = q[1] /\ p[2] < q[2] => Before(Row(t, p), Row(t, q))
    /\ \A p \in Printed(t) : Row(t, p).ref[1] = listing[t].out[p[1]].origin
    /\ \A i, j \in DOMAIN listing[t].out :
         listing[t].out[i].origin = listing[t].out[j].origin => i = j

\* If no ref moved meanwhile, the remote channels a listing shows without --all
\* are those that differ from the local channel of their name, and the channel
\* of HEAD is marked.
ListShowsWhatDiffers ==
  \A t \in Terminals :
    Listed(t) /\ ~listing[t].moved /\ ~IsGiven(opt[t], "all") =>
      /\ {Row(t, p).ref : p \in Printed(t)} =
           {ref \in DOMAIN tips : \/ IsLocal(ref)
                                  \/ Local(ref[2]) \notin DOMAIN tips
                                  \/ tips[Local(ref[2])] # tips[ref]}
      /\ {Row(t, p).ref : p \in {q \in Printed(t) : Row(t, q).current}} = {HeadRef}

\* Each listing comes to its end, however many remotes there are.
ListingsEnd == \A t \in Terminals : pc[t] = "list_local" ~> pc[t] = "idle"
=============================================================================
