---------------------------- MODULE MCCommandLine ----------------------------
(* Two terminals, two keys of one team, local channels a and b, remotes o  *)
(* and u, and maybe a ref refs/remotes/svn as git-svn makes it.            *)
EXTENDS CommandLine, TLC

MCNumbers == ("2" :> 2 @@ "-1" :> -1)

MCFileTexts == {<< >>, <<"f">>}

MCNames == [k \in {"k1", "k2"} |-> IF k = "k1" THEN {"ann", "team"} ELSE {"bob", "team"}]

MCRefOrder ==
  <<<<None, "a">>, <<None, "b">>, <<"o", "a">>, <<"o", "c">>, <<"svn", None>>, <<"u", "a">>>>

\* With two channels and three remote ones; and, with a bare ref, one of each.
MCStarts ==
  {[ref \in Refs \ {<<"svn", None>>} |->
      IF ref \in {<<"o", "c">>, <<"u", "a">>} THEN <<None, None>> ELSE <<None>>],
   [ref \in {<<None, "a">>, <<"o", "a">>, <<"svn", None>>} |-> <<None>>]}

-----------------------------------------------------------------------------
(* Commands run side by side.                                              *)

Msg(args) == <<Word("message")>> \o args
List_(args) == <<Word("channel"), Word("list")>> \o args
Recipient(name) == <<LongArg("recipient", name)>>

MCLines == {Msg(<< >>), Msg(<<LongArg("reply", None)>> \o Recipient("bob")),
            Msg(<<Cluster(<<"m">>), Word("x")>>), List_(<< >>)}

(* Documented uses: up to two phrases for message and list, three for      *)
(* read; nothing after them, a word, or "--" and what looks like an option; *)
(* and each way to give a passphrase.                                      *)

MCPhrases(opts, values) ==
  LET flags == {op \in ToSet(opts) : op.type = "bool" /\ op.short # None}
      clusters == {<< >>} \cup {<<op>> : op \in flags}
  IN {ph \in {Phrase(how, switches, op, v) :
                 how \in {"name", "equals", "apart", "cluster", "flag", "close"},
                 switches \in clusters, op \in ToSet(opts), v \in values} :
        /\ IsPhrase(opts, ph)
        /\ ph.how \in {"name", "cluster"} => ph.value = "2"
        /\ ph.how = "cluster" => ph.op = Head(ph.switches)}

UpTo(n, S) == UNION {[1..k -> S] : k \in 0..n}

Use(command, main, phrases, dashes, rest) ==
  [command |-> command, main |-> main, phrases |-> phrases, dashes |-> dashes, rest |-> rest]

MCUses ==
  LET message == MCPhrases(MessageOptions, {"2", "x"})
      read == MCPhrases(ReadOptions, {"2"})
      list == MCPhrases(ListOptions, {"2"})
      pass == {ph \in MCPhrases(MainOptions, {"2"}) : ph.how \in {"equals", "apart"}}
      all == {Use("message", << >>, ps, FALSE, << >>) : ps \in UpTo(2, message)}
               \cup {Use("read", << >>, ps, FALSE, << >>) : ps \in UpTo(3, read)}
               \cup {Use("list", << >>, ps, FALSE, << >>) : ps \in UpTo(2, list)}
      short == {u \in all : Len(u.phrases) <= 1}
  IN all \cup {[u EXCEPT !.dashes = TRUE, !.rest = <<Cluster(<<"h">>)>>] : u \in short}
         \cup {[u EXCEPT !.rest = <<Word("x")>>] : u \in short}
         \cup {[u EXCEPT !.main = <<ph>>] : u \in short, ph \in pass}

(* Arguments that are refused, or understood otherwise than they look.     *)

Odd ==
  {<< >>, <<Dashes>>, <<LongArg("passphrase", None), Word("read")>>,
   <<Cluster(<<"h">>)>>, <<Cluster(<<"v">>)>>, <<Word("nope")>>,
   <<LongArg("passphrase", "x")>>,
   <<LongArg("passphrase", "x"), LongArg("passphrase-fd", "2"), Word("read")>>,
   <<LongArg("passphrase-file", "x"), Word("read"), Word("HEAD")>>,
   <<Word("read"), Word("x"), Word("y")>>,
   <<Word("read"), Cluster(<<"n">>)>>, <<Word("read"), Cluster(<<"n">>), Word("x")>>,
   <<Word("read"), LongArg("no-color", "help")>>,
   <<Word("channel")>>, <<Word("channel"), Word("nope")>>, <<Word("channel"), Cluster(<<"h">>)>>,
   List_(<<Cluster(<<"a", "h">>)>>), List_(<<Word("x")>>), List_(<<Cluster(<<"a">>)>>),
   <<Word("channel"), Word("ls"), LongArg("all", None)>>,
   Msg(<<Cluster(<< >>)>>), Msg(<<Cluster(<<"h", "x">>)>>), Msg(<<LongArg("compose", None), Word("help")>>),
   Msg(<<LongArg("compose", "-1")>>), Msg(<<Cluster(<<"m">>), Word("")>>),
   Msg(Recipient("zoe")), Msg(Recipient("ann") \o Recipient("ann")),
   Msg(<<Cluster(<<"m">>), Word("x")>> \o Recipient("ann") \o Recipient("bob")),
   Msg(<<Cluster(<<"m">>), Word("x")>> \o Recipient("bob") \o Recipient("zoe")),
   Msg(<<Cluster(<<"m">>), Word("x")>> \o Recipient("team") \o Recipient("zoe")),
   Msg(<<Cluster(<<"m">>), Word("x")>> \o Recipient("team"))}

MCSolo == {args \in Odd \cup {UseArgs(u) : u \in MCUses} : args \notin MCLines}
=============================================================================
