-------------------------- MODULE ChannelMembership --------------------------
(***************************************************************************)
(* What a git-chat space promises about who is in a channel and who can    *)
(* read its messages, whatever its commands do to branches, index, files   *)
(* and keyring, and wherever they are cut short.                           *)
(*                                                                         *)
(* A channel has a set of members, the users whose key it carries.         *)
(* Members join; nobody is taken off.  A new channel starts with the       *)
(* members of the one it branches from.  A message that is open to the     *)
(* channel can be read by every usable member.                             *)
(***************************************************************************)
CONSTANTS
  Channels,     \* channel refs
  Keys,         \* the users, by key
  Usable,       \* the keys a message can be encrypted for
  NoChannel     \* the members of a channel that does not exist

VARIABLES
  members,      \* members[c]: the keys of channel c, or NoChannel
  post          \* the message posted by the last step, or NoPost

NoPost == [posted |-> FALSE, readers |-> {}, open |-> FALSE]
Message(readers, open) == [posted |-> TRUE, readers |-> readers, open |-> open]

Exists(c) == members[c] # NoChannel

Init ==
  /\ \/ members = [c \in Channels |-> NoChannel]
     \/ \E m \in Channels, S \in SUBSET Keys :
          members = [c \in Channels |-> IF c = m THEN S ELSE NoChannel]
  /\ post = NoPost

\* The first channel of a space appears.
Found(c, S) ==
  /\ \A d \in Channels : ~Exists(d)
  /\ members' = [members EXCEPT ![c] = S]

Join(c, S) ==
  /\ Exists(c)
  /\ members' = [members EXCEPT ![c] = @ \cup S]

\* Channel d branches from channel c.
Fork(c, d) ==
  /\ Exists(c) /\ ~Exists(d)
  /\ members' = [members EXCEPT ![d] = members[c]]

Drop(c) ==
  /\ Exists(c)
  /\ members' = [members EXCEPT ![c] = NoChannel]

\* A message is posted; members whose key was left in the index join by it.
Post(c, S, readers, open) ==
  /\ \/ Found(c, S)
     \/ Join(c, S) /\ (open => members[c] \cap Usable \subseteq readers)
  /\ post' = Message(readers, open)

Next ==
  \/ /\ post' = NoPost
     /\ \/ UNCHANGED members
        \/ \E c \in Channels :
             \/ Drop(c)
             \/ \E S \in SUBSET Keys : Found(c, S) \/ Join(c, S)
             \/ \E d \in Channels : Fork(c, d)
  \/ \E c \in Channels, S \in SUBSET Keys, R \in SUBSET Keys, open \in BOOLEAN :
       Post(c, S, R, open)

Spec == Init /\ [][Next]_<<members, post>>
=============================================================================
