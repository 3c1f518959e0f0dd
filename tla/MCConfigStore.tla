---------------------------- MODULE MCConfigStore ----------------------------
(* Keys of one to three components, two of them with an empty component; a *)
(* file as git-chat writes it, and files as an editor may leave them.      *)
EXTENDS ConfigStore

MCKeys == {<<"a">>, <<"b", "a">>, <<"b", "b">>, <<"channel", "b", "name">>, <<"b", "b", "a">>,
           <<"b", "">>, <<"", "a">>}

Written == <<SectionLine(<<"b">>), PropLine(<<"a">>, "x")>>
Edited == <<SectionLine(<<"b">>), PropLine(<<"b", "a">>, "x"),
            SectionLine(<< >>), PropLine(<<"a">>, "y")>>
Twice == <<PropLine(<<"a">>, "x"), PropLine(<<"a">>, "y")>>

\* The config of a space with eight channels, and the key of one more.
Channels == {"a", "b", "c", "d", "e", "f", "g", "h"}
NinthKey == {<<"channel", "i", "name">>}
EightChannels ==
  {FoldSet(LAMBDA c, f : f \o <<SectionLine(<<"channel", c>>), PropLine(<<"name">>, "x")>>,
           << >>, Channels)}

MCFiles == {<< >>, Written, Edited, Twice, <<BadLine>>}
=============================================================================
