---------------------------- MODULE MCReadCommand ----------------------------
(***************************************************************************)
(* ReadCommand, one question at a time: a world differs from Plain in what *)
(* the question is about, so that the questions add up, not multiply.      *)
(***************************************************************************)
EXTENDS ReadCommand

Txt(word) == Line("txt", word)
Pgp(cipher) == Line("PGP", cipher)

Ann(hours, minutes, east) ==
  [name |-> "ann", mail |-> "a", time |-> 7, hours |-> hours, minutes |-> minutes,
   east |-> east]
Bob == [name |-> "bob", mail |-> "b", time |-> 9, hours |-> 1, minutes |-> 0, east |-> TRUE]

Commit(lines) ==
  [tree |-> "t", parents |-> <<"p">>, author |-> Ann(0, 0, TRUE), committer |-> Bob,
   headers |-> << >>, message |-> lines]

Key_(held, locked) == [held |-> held, locked |-> locked, text |-> <<Txt("opened")>>]

Plain ==
  [tty |-> TRUE, home |-> TRUE, broken |-> FALSE, environ |-> << >>, pagerVar |-> Null,
   files |-> {}, onPath |-> {"less"}, source |-> "pinentry", right |-> TRUE,
   commits |-> << >>, signals |-> {},
   ciphers |-> [c \in {"open", "locked", "foreign"} |-> Key_(c # "foreign", c = "locked")]]

-----------------------------------------------------------------------------
(* The environment: names that extend each other, with a letter and with a *)
(* digit, next to ones that do not.                                        *)

Var(name) == name \o <<Eq, 8>>

Variables ==
  <<Var(<<8>>), Var(MoreName), Var(LessName \o <<6>>), Var(LvName \o <<Digit>>), Var(<<3>>),
    Var(LessName), Var(LessName \o <<Digit>>), Var(LvName)>>

EnvWorlds ==
  {[Plain EXCEPT !.environ = SelectSeq(Variables, LAMBDA s : s \in chosen)] :
     chosen \in SUBSET ToSet(Variables)}

(* The pager: what GIT_CHAT_PAGER names, what is executable here, and what *)
(* PATH has.                                                               *)

PagerVars == {Null, File("", "most"), File("./", "most"), File("./", "less")}

PagerWorlds ==
  {[Plain EXCEPT !.pagerVar = var, !.files = files, !.onPath = onPath, !.home = home] :
     var \in PagerVars, files \in SUBSET (PagerVars \ {Null}),
     onPath \in SUBSET {"most", "less", "more", "cat"}, home \in BOOLEAN}

-----------------------------------------------------------------------------
(* Commits: merges and roots, signed and re-encoded ones, time zones with  *)
(* half hours, messages with blank lines.                                  *)

Headers ==
  {<< >>, <<Line("encoding", "latin1")>>,
   <<Line("gpgsig", "begin"), Line(" ", ""), Line(" ", "end")>>}

Messages ==
  {<< >>, <<Txt("a")>>, <<BlankLine, Txt("a"), BlankLine, Txt("b"), BlankLine>>,
   <<Txt("a"), Pgp("open")>>}

Authors == {Ann(h, m, e) : h \in {0, 3, 11}, m \in {0, 30, 45}, e \in BOOLEAN}
           \cup {[Bob EXCEPT !.mail = None]}

CommitWorlds ==
  {[Plain EXCEPT !.tty = FALSE, !.commits =
      <<[Commit(lines) EXCEPT !.parents = parents, !.headers = headers, !.author = author],
        Commit(<<Txt("c")>>)>>] :
     parents \in {<< >>, <<"p">>, <<"p", "q">>}, headers \in Headers,
     lines \in Messages, author \in Authors}

(* Passphrases: three messages, the locked ones of which gpg asks for.     *)

Bodies == {<<Txt("a")>>, <<Pgp("locked")>>, <<Pgp("foreign")>>}

CryptoWorlds ==
  {[Plain EXCEPT !.tty = FALSE, !.source = source, !.right = right, !.commits =
      <<Commit(first), Commit(second), Commit(<<Pgp("locked")>>)>>] :
     source \in {"pinentry", "fd", "file", "pass"}, right \in BOOLEAN,
     first \in Bodies, second \in Bodies}

(* Signals at any moment, one inside the other, with a pager that may be   *)
(* left at any moment, or that does not run at all.                        *)

SignalWorlds ==
  {[Plain EXCEPT !.signals = signals, !.broken = broken, !.commits = commits] :
     signals \in {{"INT", "TERM", "QUIT"}, {"HUP"}}, broken \in BOOLEAN,
     commits \in {<< >>, <<Commit(<<Txt("a")>>), Commit(<<Pgp("open")>>)>>}}

MCWorlds == EnvWorlds \cup PagerWorlds \cup CommitWorlds \cup CryptoWorlds \cup SignalWorlds
=============================================================================
