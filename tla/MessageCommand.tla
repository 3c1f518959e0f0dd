--------------------------- MODULE MessageCommand ---------------------------
(***************************************************************************)
(* git chat message, from its arguments to the commit: where the text      *)
(* comes from, the two files the editor works on, and who can read it.     *)
(*                                                                         *)
(* The text of a message is the sequence of the drafts in it.  Every       *)
(* terminal edits the same .git/GC_EDITMSG, in a vim without a swap file.  *)
(***************************************************************************)
EXTENDS Terminal, FiniteSets

CONSTANTS
  Keys,         \* the usable public keys of the keyring
  Names,        \* Names[k]: the fingerprint of key k and the fields of its ids
  Trusted,      \* the keys .git/.trusted-keys lists (all: there is none)
  FileTexts     \* what the file given with --file may hold

ASSUME MessageCommandAssumption == Trusted \subseteq Keys /\ IsFiniteSet(Keys)

VARIABLES
  editmsg,      \* the text in .git/GC_EDITMSG
  replyLast,    \* the decrypted messages in .git/GC_REPLY_LAST
  msg,          \* msg[t]: the local variables of a message command
  sent,         \* the messages committed (history variable)
  dirty         \* the files a failed command did not wipe (history variable)

messageVars == <<editmsg, replyLast, msg, sent, dirty>>

\* shown: the text in the editor; vimOk: the editor ended with status 0; buff:
\* the message; meant: what the user gave; disturbed: another terminal changed
\* GC_EDITMSG meanwhile (history variables).
Blank ==
  [shown |-> << >>, vimOk |-> TRUE, buff |-> << >>, readers |-> {},
   meant |-> << >>, disturbed |-> FALSE]

MessageInit ==
  /\ editmsg = << >> /\ replyLast = << >>
  /\ msg = [t \in Terminals |-> Blank]
  /\ sent = << >> /\ dirty = {}

\* The steps at which the editor's file is in use.
Composing == {"reply_open", "reply_write", "editor", "vim", "reply_wipe", "read_back"}

\* The steps from which the file of the earlier messages is to be wiped.
Replying == {"reply_write", "editor", "vim", "reply_wipe"}

-----------------------------------------------------------------------------
(* cmd_message.                                                            *)

MessageOptions ==
  <<Option("list", "recipient", None, "recipient"),
    Option("string", "message", "m", "message"),
    Option("string", "file", "f", "file"),
    Option("bool", "reply", None, "reply"),
    Option("int", "compose", None, "compose"),
    Option("bool", "help", "h", "help")>>

ComposeValue(p) == IF IsGiven(p, "compose") THEN Numbers[LastValue(p, "compose")] ELSE 0

\* How many of the last messages the editor shows.
ReplyCount(p) ==
  IF ComposeValue(p) > 0 THEN ComposeValue(p) ELSE IF IsGiven(p, "reply") THEN 1 ELSE 0

Shows(t) == ReplyCount(opt[t]) > 0

Refused(p) ==
  p.left # << >> \/ (IsGiven(p, "message") /\ IsGiven(p, "file")) \/ ComposeValue(p) < 0

\* Where the text comes from.
Source(p) ==
  CASE IsGiven(p, "file") -> "read_file"
    [] IsGiven(p, "message") -> "encrypt"
    [] OTHER -> "truncate"

Given(p) ==
  IF ~IsGiven(p, "message") \/ LastValue(p, "message") = "" THEN << >>
  ELSE <<LastValue(p, "message")>>

StartMessage(t, args) ==
  LET p == Parse(MessageOptions, MainParse(args).left, TRUE, TRUE) IN
  /\ Runs(t, args, "message")
  /\ CASE p.left # << >> -> Parsed(t, args, p, "idle", "failed")
       [] p.left = << >> /\ IsGiven(p, "help") -> Parsed(t, args, p, "idle", "done")
       [] ~IsGiven(p, "help") /\ p.left = << >> /\ Refused(p) ->
            Parsed(t, args, p, "idle", "failed")
       [] OTHER -> Parsed(t, args, p, Source(p), "none")
  /\ msg' = [msg EXCEPT ![t] = [Blank EXCEPT !.buff = Given(p), !.meant = Given(p)]]
  /\ UNCHANGED <<refs, editmsg, replyLast, sent, dirty>>

-----------------------------------------------------------------------------
(* compose_message.                                                        *)

\* Another terminal sees its file change.
Disturb(t, m) ==
  msg' = [u \in Terminals |->
            CASE u = t -> m
              [] u # t /\ pc[u] \in Composing -> [msg[u] EXCEPT !.disturbed = TRUE]
              [] OTHER -> msg[u]]

Assign(t, m) == msg' = [msg EXCEPT ![t] = m]

\* Mutant: the editor opens the file as it is.
KeepEditMsg(t) ==
  /\ Step(t, "truncate", IF Shows(t) THEN "reply_open" ELSE "editor")
  /\ dirty' = dirty \ {"GC_EDITMSG"}
  /\ UNCHANGED <<refs, editmsg, replyLast, msg, sent>>

TruncateEditMsg(t) ==
  /\ Step(t, "truncate", IF Shows(t) THEN "reply_open" ELSE "editor")
  /\ editmsg' = << >>
  /\ Disturb(t, msg[t])
  /\ dirty' = dirty \ {"GC_EDITMSG"}
  /\ UNCHANGED <<refs, replyLast, sent>>

OpenReply(t) ==
  /\ Step(t, "reply_open", "reply_write")
  /\ replyLast' = << >>
  /\ dirty' = dirty \ {"GC_REPLY_LAST"}
  /\ UNCHANGED <<refs, editmsg, msg, sent>>

\* The last messages of the channel HEAD is on by now, decrypted.
LastMessages(t) ==
  LET tip == tips[HeadRef]
      n == ReplyCount(opt[t])
  IN SubSeq(tip, IF Len(tip) > n THEN Len(tip) - n + 1 ELSE 1, Len(tip))

WriteReply(t) ==
  /\ Step(t, "reply_write", "editor")
  /\ replyLast' = LastMessages(t)
  /\ UNCHANGED <<refs, editmsg, msg, sent, dirty>>

\* FATAL: commit graph traversal failed, maybe after the first messages.
WriteReplyFails(t) ==
  /\ Faults /\ pc[t] = "reply_write"
  /\ replyLast' \in {replyLast, LastMessages(t)}
  /\ Ends(t, "failed")
  /\ Assign(t, Blank)
  /\ dirty' = dirty \cup {"GC_REPLY_LAST"}
  /\ UNCHANGED <<refs, editmsg, sent>>

LaunchEditor(t) ==
  /\ Step(t, "editor", "vim")
  /\ Assign(t, [msg[t] EXCEPT !.shown = editmsg])
  /\ UNCHANGED <<refs, editmsg, replyLast, sent, dirty>>

\* The user adds a draft to what the editor shows, and saves.
SaveDraft(t) ==
  LET text == Append(msg[t].shown, t) IN
  /\ Step(t, "vim", "vim")
  /\ t \notin ToSet(msg[t].shown)
  /\ editmsg' = text
  /\ Disturb(t, [msg[t] EXCEPT !.shown = text, !.meant = <<t>>])
  /\ UNCHANGED <<refs, replyLast, sent, dirty>>

QuitEditor(t) ==
  /\ Step(t, "vim", IF Shows(t) THEN "reply_wipe" ELSE "read_back")
  /\ UNCHANGED <<refs, messageVars>>

\* vim ends with an error.
EditorFails(t) ==
  /\ Faults /\ pc[t] = "vim"
  /\ IF Shows(t)
     THEN Step(t, "vim", "reply_wipe") /\ Assign(t, [msg[t] EXCEPT !.vimOk = FALSE])
          /\ UNCHANGED dirty
     ELSE Ends(t, "failed") /\ Assign(t, Blank) /\ dirty' = dirty \cup {"GC_EDITMSG"}
  /\ UNCHANGED <<refs, editmsg, replyLast, sent>>

\* Mutant: the earlier messages are wiped only when the editor went well.
WipeReplyIfOk(t) ==
  /\ pc[t] = "reply_wipe"
  /\ IF msg[t].vimOk
     THEN Step(t, "reply_wipe", "read_back") /\ replyLast' = << >> /\ UNCHANGED <<msg, dirty>>
     ELSE /\ Ends(t, "failed") /\ Assign(t, Blank)
          /\ dirty' = dirty \cup {"GC_EDITMSG"}
          /\ UNCHANGED replyLast
  /\ UNCHANGED <<refs, editmsg, sent>>

WipeReply(t) ==
  /\ pc[t] = "reply_wipe"
  /\ replyLast' = << >>
  /\ IF msg[t].vimOk
     THEN Step(t, "reply_wipe", "read_back") /\ UNCHANGED <<msg, dirty>>
     ELSE Ends(t, "failed") /\ Assign(t, Blank) /\ dirty' = dirty \cup {"GC_EDITMSG"}
  /\ UNCHANGED <<refs, editmsg, sent>>

ReadBack(t) ==
  /\ Step(t, "read_back", "wipe")
  /\ Assign(t, [msg[t] EXCEPT !.buff = editmsg])
  /\ UNCHANGED <<refs, editmsg, replyLast, sent, dirty>>

WipeEditMsg(t) ==
  /\ Step(t, "wipe", "encrypt")
  /\ editmsg' = << >>
  /\ Disturb(t, msg[t])
  /\ UNCHANGED <<refs, replyLast, sent, dirty>>

\* read_message_from_file.
ReadFile(t) ==
  /\ Step(t, "read_file", "encrypt")
  /\ \E text \in FileTexts : Assign(t, [msg[t] EXCEPT !.buff = text, !.meant = text])
  /\ UNCHANGED <<refs, editmsg, replyLast, sent, dirty>>

\* DIE: there is no such file.
ReadFileFails(t) ==
  /\ pc[t] = "read_file"
  /\ Ends(t, "failed") /\ Assign(t, Blank)
  /\ UNCHANGED <<refs, editmsg, replyLast, sent, dirty>>

-----------------------------------------------------------------------------
(* encrypt_message_asym and write_commit.                                  *)

Recipients(p) == ValuesOf(p, "recipient")

\* The keys one of the recipients names; all of them if none is given.
Candidates(p) ==
  IF Recipients(p) = << >> THEN Keys
  ELSE {k \in Keys : \E i \in DOMAIN Recipients(p) : Recipients(p)[i].value \in Names[k]}

\* Mutant: the keys are not counted.
CountIgnored(p) == TRUE

\* There are as many keys as recipients.
CountMatches(p) ==
  Recipients(p) = << >> \/ Cardinality(Candidates(p)) = Len(Recipients(p))

\* Mutant: the trust list is not looked at.
ReadersUntrusted(p) == Candidates(p)

Readers(p) == Candidates(p) \cap Trusted

Encrypt(t) ==
  /\ Step(t, "encrypt", "commit")
  /\ msg[t].buff # << >> /\ CountMatches(opt[t]) /\ Readers(opt[t]) # {}
  /\ Assign(t, [msg[t] EXCEPT !.readers = Readers(opt[t])])
  /\ UNCHANGED <<refs, editmsg, replyLast, sent, dirty>>

\* DIE: no text, a recipient without a key, or no reader.
EncryptFails(t) ==
  /\ pc[t] = "encrypt"
  /\ msg[t].buff = << >> \/ ~CountMatches(opt[t]) \/ Readers(opt[t]) = {}
  /\ Ends(t, "failed") /\ Assign(t, Blank)
  /\ UNCHANGED <<refs, editmsg, replyLast, sent, dirty>>

\* The message is committed, and git show may fail to print it after that.
WriteCommit(t) ==
  /\ pc[t] = "commit"
  /\ tips' = [tips EXCEPT ![HeadRef] = Append(@, t)]
  /\ sent' = Append(sent, [by |-> t, text |-> msg[t].buff, meant |-> msg[t].meant,
                           disturbed |-> msg[t].disturbed, readers |-> msg[t].readers,
                           recipients |-> Recipients(opt[t])])
  /\ Ends(t, "done") \/ (Faults /\ Ends(t, "failed"))
  /\ Assign(t, Blank)
  /\ UNCHANGED <<head, editmsg, replyLast, dirty>>

\* FATAL: the commit is refused, as when another git holds a lock.
WriteCommitFails(t) ==
  /\ Faults /\ pc[t] = "commit"
  /\ Ends(t, "failed") /\ Assign(t, Blank)
  /\ UNCHANGED <<refs, editmsg, replyLast, sent, dirty>>

MessageSteps ==
  {"truncate", "wipe", "read_file", "encrypt", "commit"} \cup Composing

\* The terminal is closed, which ends git-chat and its editor.
KillMessage(t) ==
  /\ Faults /\ pc[t] \in MessageSteps
  /\ Ends(t, "failed") /\ Assign(t, Blank)
  /\ dirty' = dirty \cup (IF pc[t] \in Composing \cup {"wipe"} THEN {"GC_EDITMSG"} ELSE {})
                    \cup (IF pc[t] \in Replying /\ Shows(t) THEN {"GC_REPLY_LAST"} ELSE {})
  /\ UNCHANGED <<refs, editmsg, replyLast, sent>>

MessageStep(t) ==
  \/ TruncateEditMsg(t) \/ OpenReply(t) \/ WriteReply(t) \/ WriteReplyFails(t)
  \/ LaunchEditor(t) \/ SaveDraft(t) \/ QuitEditor(t) \/ EditorFails(t)
  \/ WipeReply(t) \/ ReadBack(t) \/ WipeEditMsg(t)
  \/ ReadFile(t) \/ ReadFileFails(t)
  \/ Encrypt(t) \/ EncryptFails(t) \/ WriteCommit(t) \/ WriteCommitFails(t)
  \/ KillMessage(t)
=============================================================================
