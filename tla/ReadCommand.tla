----------------------------- MODULE ReadCommand -----------------------------
(***************************************************************************)
(* git chat read, from the gpgme context to the last message: each commit  *)
(* is parsed, decrypted as far as the keys and the passphrase allow, and   *)
(* written to the pager, header and body.                                  *)
(*                                                                         *)
(* The commits arrive one at a time (ReadPipeline has the processes that   *)
(* bring them).  gpg is external: a body that is a PGP message names a     *)
(* cipher, world.ciphers tells whether its key is held and locked, and an  *)
(* agent may remember a passphrase that was right, or forget it.           *)
(***************************************************************************)
EXTENDS Pager, CommitObject

CONSTANTS
  Worlds,       \* what a command may find when it starts
  FdLimit       \* the descriptors that are left for passphrase files

(* The signals that may arrive are the ones that by convention end a       *)
(* program and can be handled; nothing outlives SIGKILL.                   *)
ASSUME WorldsAssumption ==
  /\ \A w \in Worlds : w.signals \subseteq {"INT", "HUP", "TERM", "QUIT", "PIPE"}
  /\ Null \notin {"INT", "HUP", "TERM", "QUIT", "PIPE"}

(* The history is a list of commits that git wrote, at most one passphrase *)
(* option is given, and what is found is a file.                           *)
ASSUME HistoryAssumption ==
  /\ FdLimit \in Nat
  /\ \A w \in Worlds :
       /\ IsList(w.commits) /\ \A i \in DOMAIN w.commits : IsWritten(w.commits[i])
       /\ w.source \in {"pinentry", "fd", "file", "pass"}
       /\ Null \notin w.files /\ \A name \in w.onPath : File("PATH", name) # Null

(* The environment is a list of strings, no name twice, as shells build    *)
(* it; none of them is where the null pointer points to.                   *)
ASSUME EnvironmentAssumption ==
  /\ MaxSignals \in Nat
  /\ \A w \in Worlds :
       /\ w.environ \in Seq(Seq(Nat))
       /\ \A i, j \in DOMAIN w.environ : i # j => Key(w.environ[i]) # Key(w.environ[j])
       /\ {Null, Garbage} \cap (ToSet(w.environ) \cup ToSet(PagerVariables)) = {}

VARIABLES
  read,         \* commits parsed so far
  object,       \* the commit object that git-chat has in its buffer
  commit,       \* the commit that is on its way to the pager
  kind,         \* its message_type: "DEC", "PLN" or "ERR"
  text,         \* what is printed for it
  spent,        \* the passphrase descriptor was read to its end
  opened,       \* descriptors of the passphrase file left open
  remembered,   \* the agent may remember the passphrase
  answers,      \* what gpg was answered, each time it asked (history variable)
  shown         \* what was written to stdout

message == <<read, object, commit, kind, text>>
passphrase == <<spent, opened, remembered, answers>>
vars == <<pagerVars, message, passphrase, shown>>

Init ==
  /\ world \in Worlds
  /\ pc = "context"
  /\ program = Null /\ merge = Null /\ given = << >>
  /\ pager = "none" /\ collected = FALSE /\ pid = FALSE /\ report = FALSE
  /\ registered = 0 /\ handled = {} /\ armed = FALSE /\ exiting = FALSE
  /\ stack = << >> /\ pending = {} /\ sent = 0 /\ end = "none"
  /\ read = 0 /\ object = << >> /\ commit = None /\ kind = None /\ text = << >>
  /\ spent = FALSE /\ opened = 0 /\ remembered = FALSE /\ answers = << >>
  /\ shown = << >>

At(step) == Running /\ pc = step

\* The parts of the process that an exit leaves alone.
rest == <<world, pc, setup, child, registered, handled, armed, pending, sent>>

-----------------------------------------------------------------------------
(* read_messages                                                           *)

\* gpgme_context_init
InitContext ==
  /\ At("context") /\ world.home
  /\ Goto("pager")
  /\ UNCHANGED <<world, setup, child, process, message, passphrase, shown>>

NoContext ==
  /\ At("context") /\ ~world.home
  /\ Exits("failure")
  /\ UNCHANGED <<rest, message, passphrase, shown>>

NextCommit ==
  /\ At("next") /\ read < Len(world.commits)
  /\ object' = ObjectOf(world.commits[read + 1])
  /\ read' = read + 1
  /\ Goto("parse")
  /\ UNCHANGED <<world, setup, child, process, commit, kind, text, passphrase, shown>>

Parse ==
  /\ At("parse")
  /\ commit' = ParseCommit(object)
  /\ commit' # None
  /\ Goto("decrypt")
  /\ UNCHANGED <<world, setup, child, process, read, object, kind, text, passphrase, shown>>

\* FATAL: commit graph traversal failed.
Malformed ==
  /\ At("parse") /\ ParseCommit(object) = None
  /\ Exits("failure")
  /\ UNCHANGED <<rest, message, passphrase, shown>>

\* cmd_read returns, and main with it.
AllRead ==
  /\ At("next") /\ read = Len(world.commits)
  /\ Exits("success")
  /\ UNCHANGED <<rest, message, passphrase, shown>>

-----------------------------------------------------------------------------
(* decrypt_asymmetric_message and the passphrase callbacks.                *)

Cipher(body) ==
  LET at == SelectInSeq(body, LAMBDA line : line.word = "PGP")
  IN  IF at = 0 THEN None ELSE world.ciphers[body[at].arg]

CouldNotDecrypt == <<Line("txt", "message could not be decrypted.")>>

Shows(type, lines) ==
  /\ kind' = type
  /\ text' = lines
  /\ Goto("header")

\* GPG_ERR_NO_DATA: the body is no PGP message.
IsPlain ==
  /\ At("decrypt") /\ Cipher(commit.body) = None
  /\ Shows("PLN", commit.body)
  /\ UNCHANGED <<world, setup, child, process, read, object, commit, passphrase, shown>>

\* Mutant: every error of gpg is taken for GPG_ERR_NO_DATA.
KeyMissingIsPlain ==
  /\ At("decrypt") /\ Cipher(commit.body) # None
  /\ ~Cipher(commit.body).held
  /\ Shows("PLN", commit.body)
  /\ UNCHANGED <<world, setup, child, process, read, object, commit, passphrase, shown>>

KeyMissing ==
  /\ At("decrypt") /\ Cipher(commit.body) # None
  /\ ~Cipher(commit.body).held
  /\ Shows("ERR", CouldNotDecrypt)
  /\ UNCHANGED <<world, setup, child, process, read, object, commit, passphrase, shown>>

Decrypt ==
  /\ At("decrypt") /\ Cipher(commit.body) # None
  /\ Cipher(commit.body).held
  /\ Cipher(commit.body).locked => remembered
  /\ Shows("DEC", Cipher(commit.body).text)
  /\ UNCHANGED <<world, setup, child, process, read, object, commit, passphrase, shown>>

\* The key is locked, and gpg asks.
Ask ==
  /\ At("decrypt") /\ Cipher(commit.body) # None
  /\ Cipher(commit.body).held /\ Cipher(commit.body).locked
  /\ Goto("ask")
  /\ UNCHANGED <<world, setup, child, process, message, passphrase, shown>>

\* Mutant: the file is read once, as the descriptor is.
AnswersOnce ==
  CASE world.source = "pinentry" -> {"line", "other"}
    [] world.source = "fd"       -> {IF spent THEN "nothing" ELSE "line"}
    [] world.source = "file"     -> {IF opened = 0 THEN "line" ELSE "nothing"}
    [] world.source = "pass"     -> {"line"}

(* What the callbacks write: the descriptor is read to its end each time,  *)
(* and the file opened each time, and never closed.  Without a callback    *)
(* the user is asked.                                                      *)
Answers ==
  CASE world.source = "pinentry" -> {"line", "other"}
    [] world.source = "fd"       -> {IF spent THEN "nothing" ELSE "line"}
    [] world.source = "file"     -> {IF opened < FdLimit THEN "line" ELSE "error"}
    [] world.source = "pass"     -> {"line"}

AnswerIs(answer) ==
  /\ answers' = Append(answers, answer)
  /\ spent' = (spent \/ world.source = "fd")
  /\ opened' = IF world.source = "file" /\ answer # "error" THEN opened + 1 ELSE opened
  /\ IF answer = "line" /\ world.right
       THEN /\ remembered' = TRUE
            /\ Shows("DEC", Cipher(commit.body).text)
       ELSE /\ UNCHANGED remembered
            /\ Shows("ERR", CouldNotDecrypt)

AnswerPassphrase ==
  /\ At("ask")
  /\ \E answer \in Answers : AnswerIs(answer)
  /\ UNCHANGED <<world, setup, child, process, read, object, commit, shown>>

-----------------------------------------------------------------------------
(* pretty_print_message: two writes, each of which may find the pager gone.*)

Broken == pager = "ended"

WriteHeader ==
  /\ At("header") /\ ~Broken
  /\ shown' = Append(shown, [part |-> "header", kind |-> kind, author |-> commit.author])
  /\ Goto("body")
  /\ UNCHANGED <<world, setup, child, process, message, passphrase>>

WriteBody ==
  /\ At("body") /\ ~Broken
  /\ shown' = Append(shown, [part |-> "body", kind |-> kind, text |-> text])
  /\ Goto("next")
  /\ UNCHANGED <<world, setup, child, process, message, passphrase>>

\* SIGPIPE
WriteBreaks ==
  /\ (At("header") \/ At("body")) /\ Broken
  /\ Signalled("PIPE")
  /\ UNCHANGED <<rest, message, passphrase, shown>>

-----------------------------------------------------------------------------

ReadMessages ==
  \/ InitContext \/ NoContext \/ NextCommit \/ Parse \/ Malformed \/ AllRead
  \/ IsPlain \/ KeyMissing \/ Decrypt \/ Ask \/ AnswerPassphrase
  \/ WriteHeader \/ WriteBody \/ WriteBreaks

Still == UNCHANGED <<message, passphrase, shown>>

Chat == ReadMessages \/ (StartPager /\ Still) \/ (StopPager /\ Still)
PagerBegins == (PagerRuns \/ PagerFails) /\ Still
PagerIsLeft == PagerEnds /\ Still
SignalArrives == Signal /\ Still

Next == Chat \/ PagerBegins \/ PagerIsLeft \/ SignalArrives

(* git-chat and the child that becomes the pager run when they can, and    *)
(* the user leaves the pager in the end; nobody has to send a signal.      *)
Fairness == WF_vars(Chat) /\ WF_vars(PagerBegins) /\ WF_vars(PagerIsLeft)

Spec == Init /\ [][Next]_vars /\ Fairness

-----------------------------------------------------------------------------
(* Properties                                                              *)

TypeOK ==
  /\ pager \in {"none", "forked", "running", "ended"}
  /\ merge # Null => Holds(merge.current) /\ Holds(merge.result)
  /\ {collected, pid, report, armed, exiting, spent, remembered} \subseteq BOOLEAN
  /\ registered \in 0..Len(PagerSignals)
  /\ handled \cup pending \subseteq ToSet(PagerSignals)
  /\ Blocked \subseteq ToSet(PagerSignals) \cup {Null}
  /\ \A i \in DOMAIN stack : stack[i].step \in {"wait", "finish", "release", "return"}
  /\ end \in Ends
  /\ sent \in 0..MaxSignals
  /\ read \in 0..Len(world.commits)
  /\ opened \in 0..FdLimit

Begun == pager # "none"

(* Once pager_start is through, git-chat does not end before the pager:    *)
(* not by exit(), and not by a signal that arrives while it reads, while   *)
(* it waits for the pager, or while another signal is handled.             *)
PagerEndsFirst == armed /\ end # "none" => pager = "ended" /\ collected

(* Exit status 0 means that every message was written, and that neither a  *)
(* signal nor a pager that was left came in between.                       *)
SuccessMeansRead ==
  end = "success" =>
    /\ sent = 0
    /\ ~world.broken \/ ~Begun
    /\ Len(shown) = 2 * Len(world.commits)

(* A pager that is started can be executed; it is the one GIT_CHAT_PAGER   *)
(* names, when that is an executable file.  With a terminal, a command     *)
(* ends for the want of a pager only when PATH has no less, no more and    *)
(* no cat, or when the name that was given is executable here, and not in  *)
(* PATH.                                                                   *)
PagerIsFound ==
  /\ Begun =>
       /\ program \in world.files \/ (program.dir = "PATH" /\ program.name \in world.onPath)
       /\ world.pagerVar \in world.files => program.name = world.pagerVar.name
  /\ world.home /\ world.tty /\ ~Begun /\ end = "failure" =>
       \/ world.onPath \cap {"less", "more", "cat"} = {}
       \/ /\ world.pagerVar \in world.files
          /\ world.pagerVar.dir = "" /\ world.pagerVar.name \notin world.onPath

(* The environment of the pager is whole: terminated, without a cell that  *)
(* was never written, with every variable of git-chat's own as it was, and *)
(* with the three variables of configure_pager_env in place of the user's, *)
(* each of them once.                                                      *)
(* Where a name of the user's extends one of the three by a digit, as LV2  *)
(* does, the sort mixes them up and the user's value may stay.             *)
EnvironmentIsMerged ==
  Begun =>
    LET strings == SubSeq(given, 1, Len(given) - 1)
        ours == Names(ToSet(PagerVariables))
        theirs == ToSet(world.environ)
    IN  /\ given[Len(given)] = Null
        /\ ToSet(strings) \cap {Null, Garbage} = {}
        /\ \A s \in theirs : Key(s) \notin ours => Lookup(given, Key(s)) = Value(s)
        /\ \A s \in ToSet(PagerVariables) :
             ~Overtaken(world.environ, Key(s)) => Lookup(given, Key(s)) = Value(s)
        /\ (\A name \in ours : ~Overtaken(world.environ, name)) =>
             Cardinality(Names(ToSet(strings))) = Len(strings)

(* A commit that git wrote is read as what was committed, whatever headers *)
(* it has besides, and whichever way its time zone lies.                   *)
CommitsAreParsed ==
  pc = "decrypt" => IsCommit(commit, world.commits[read])

\* The cipher of a commit, as it was committed.
Sealed(c) == Cipher(TrimmedFrom(c.message, 1))

(* What is printed is the history, in order, one header and one body for   *)
(* each commit: a plain message as it is and flagged PLN, a sealed one     *)
(* opened and flagged DEC, and the text of neither when it could not be    *)
(* opened, which a key without a passphrase always can.                    *)
MessagesAreShown ==
  \A i \in DOMAIN shown :
    LET part == shown[i]
        c == world.commits[(i + 1) \div 2]
    IN  /\ part.part = IF i % 2 = 1 THEN "header" ELSE "body"
        /\ part.kind = "PLN" <=> Sealed(c) = None
        /\ part.kind = "ERR" => ~Sealed(c).held \/ Sealed(c).locked
        /\ part.part = "header" => part.author = Meant(c.author)
        /\ part.part = "body" =>
             part.text = CASE part.kind = "PLN" -> TrimmedFrom(c.message, 1)
                           [] part.kind = "DEC" -> Sealed(c).text
                           [] part.kind = "ERR" -> CouldNotDecrypt

(* With the right passphrase on the command line, in a file or in a        *)
(* descriptor, every message whose key is held is opened: until the open   *)
(* files run out, and until gpg asks for the descriptor a second time.     *)
HeldKeysOpen ==
  \A i \in DOMAIN shown :
    LET c == world.commits[(i + 1) \div 2]
    IN  shown[i].kind = "ERR" /\ Sealed(c).held /\ world.right =>
          \/ world.source = "pinentry"
          \/ world.source = "fd" /\ Len(answers) > 1
          \/ world.source = "file" /\ opened = FdLimit

(* git chat read ends, also when signals arrive one inside the other and   *)
(* whoever calls waitpid second finds no child to wait for.                *)
ReadingEnds == <>(end # "none")
=============================================================================
