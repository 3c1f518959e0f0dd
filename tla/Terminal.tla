------------------------------ MODULE Terminal ------------------------------
(***************************************************************************)
(* What the commands of several terminals share: the arguments each of     *)
(* them parses, and the local and remote refs of the repository.           *)
(*                                                                         *)
(* A tip is the sequence of the authors of its messages: None for a        *)
(* message from elsewhere.  Two refs hold the same object if their tips    *)
(* are equal, and a tip grows with each message.                           *)
(***************************************************************************)
EXTENDS ParseOptions

CONSTANTS
  Terminals,    \* where commands are run from
  RefOrder,     \* the refs <<origin, channel>> in the order of their full
                \* names; local ones have the origin None, and a name of
                \* fewer components than refs/remotes/x/y the channel None
  Starts,       \* the repositories to start from: the tip of each ref
  Faults        \* TRUE: a command is killed, or a program it runs fails

Refs == ToSet(RefOrder)

\* No two refs have one name.
ASSUME TerminalAssumption ==
  /\ RefOrder \in Seq(Refs) /\ IsInjective(RefOrder)
  /\ \A ref \in Refs : ref = <<ref[1], ref[2]>>
  /\ \A tip \in Starts : DOMAIN tip \subseteq Refs
  /\ Faults \in BOOLEAN

VARIABLES
  pc,           \* pc[t]: the next step of the command in terminal t
  line,         \* line[t]: the arguments of that command
  opt,          \* opt[t]: what parse_options made of them
  status,       \* how the last command ended: "done" with status 0, "failed"
                \* with another, "crashed" through a null pointer
  tips,         \* tips[ref]: the object a ref holds
  head          \* the channel of HEAD

control == <<pc, line, opt, status>>
refs == <<tips, head>>

Local(c) == <<None, c>>

IsLocal(ref) == ref[1] = None

HeadRef == Local(head)

TerminalInit ==
  /\ pc = [t \in Terminals |-> "idle"]
  /\ line = [t \in Terminals |-> << >>]
  /\ opt = [t \in Terminals |-> Parsing(<< >>)]
  /\ status = [t \in Terminals |-> "none"]
  /\ tips \in Starts
  /\ head \in {ref[2] : ref \in {r \in DOMAIN tips : IsLocal(r)}}

-----------------------------------------------------------------------------
(* Control of a terminal.                                                  *)

Step(t, from, to) ==
  pc[t] = from /\ pc' = [pc EXCEPT ![t] = to] /\ UNCHANGED <<line, opt, status>>

Ends(t, s) ==
  /\ pc' = [pc EXCEPT ![t] = "idle"]
  /\ status' = [status EXCEPT ![t] = s]
  /\ UNCHANGED <<line, opt>>

\* A command has parsed its arguments: it goes to a step, or ends.
Parsed(t, args, p, to, s) ==
  /\ pc' = [pc EXCEPT ![t] = to]
  /\ line' = [line EXCEPT ![t] = args]
  /\ opt' = [opt EXCEPT ![t] = p]
  /\ status' = [status EXCEPT ![t] = s]

-----------------------------------------------------------------------------
(* main: the options of git-chat itself, up to the name of a command.      *)

MainCommands == <<"channel", "message", "publish", "get", "read", "import-key", "config">>

MainOptions ==
  [i \in DOMAIN MainCommands |-> Option("command", MainCommands[i], None, None)] \o
  <<Option("int", "passphrase-fd", None, "passphrase-fd"),
    Option("string", "passphrase-file", None, "passphrase-file"),
    Option("string", "passphrase", None, "passphrase"),
    Option("bool", "help", "h", "help"),
    Option("bool", "version", "v", "version")>>

MainParse(args) == Parse(MainOptions, <<Word("git-chat")>> \o args, TRUE, TRUE)

Descriptor(p) ==
  IsGiven(p, "passphrase-fd") /\ Numbers[LastValue(p, "passphrase-fd")] >= 0

\* The passphrase comes from one source at most.
Conflicts(p) ==
  \/ Descriptor(p) /\ (IsGiven(p, "passphrase-file") \/ IsGiven(p, "passphrase"))
  \/ IsGiven(p, "passphrase-file") /\ IsGiven(p, "passphrase")

\* main hands the arguments over to a command.
Delegates(p) ==
  ~IsGiven(p, "help") /\ ~IsGiven(p, "version") /\ ~Conflicts(p) /\ p.left # << >>

\* registered_builtins.  The first three are modelled here.
Builtins == {"message", "channel", "read", "config", "init", "publish", "get", "import-key"}

\* main ends by itself: with its usage or version, with an error, or, when no
\* argument is left to look for, in strcmp.
MainEnds(t, args) ==
  LET p == MainParse(args) IN
  /\ pc[t] = "idle"
  /\ Delegates(p) => Head(p.left).text \notin Builtins
  /\ Parsed(t, args, p, "idle",
            IF args = << >> \/ IsGiven(p, "help") \/ IsGiven(p, "version") THEN "done"
            ELSE IF ~Conflicts(p) /\ p.left = << >> THEN "crashed"
            ELSE "failed")

\* A command is run with the arguments that main left, its name the first.
Runs(t, args, command) ==
  LET p == MainParse(args) IN
  pc[t] = "idle" /\ Delegates(p) /\ Head(p.left).text = command

\* read: its options; ReadPipeline is what follows.
ReadOptions ==
  <<Option("int", "max-count", "n", "max-count"),
    Option("bool", "no-color", None, "no-color"),
    Option("bool", "help", "h", "help")>>

StartRead(t, args) ==
  LET p == Parse(ReadOptions, MainParse(args).left, TRUE, TRUE) IN
  /\ Runs(t, args, "read")
  /\ Parsed(t, args, p, "idle",
            IF p.crashed THEN "crashed"
            ELSE IF ~IsGiven(p, "help") /\ Len(p.left) > 1 THEN "failed"
            ELSE "done")

-----------------------------------------------------------------------------
(* Other git commands move refs: a push, a fetch of somebody's message, a  *)
(* merge of what was fetched, and a switch of the channel.                 *)

Publish(ref) ==
  /\ ref \in DOMAIN tips /\ ~IsLocal(ref) /\ Local(ref[2]) \in DOMAIN tips
  /\ IsStrictPrefix(tips[ref], tips[Local(ref[2])])
  /\ tips' = [tips EXCEPT ![ref] = tips[Local(ref[2])]]
  /\ UNCHANGED head

Fetch(ref) ==
  /\ ref \in DOMAIN tips /\ ~IsLocal(ref)
  /\ tips' = [tips EXCEPT ![ref] = Append(@, None)]
  /\ UNCHANGED head

Merge(ref) ==
  /\ ref \in DOMAIN tips /\ ~IsLocal(ref) /\ Local(ref[2]) \in DOMAIN tips
  /\ IsStrictPrefix(tips[Local(ref[2])], tips[ref])
  /\ tips' = [tips EXCEPT ![Local(ref[2])] = tips[ref]]
  /\ UNCHANGED head

Switch(c) == Local(c) \in DOMAIN tips /\ c # head /\ head' = c /\ UNCHANGED tips

Moves == \E ref \in Refs : Publish(ref) \/ Fetch(ref) \/ Merge(ref) \/ Switch(ref[2])
=============================================================================
