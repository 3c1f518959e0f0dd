----------------------------- MODULE ChannelList -----------------------------
(***************************************************************************)
(* git chat channel list: the local refs are read, then the remote ones;   *)
(* remote channels that are up to date are left out; the rest is sorted    *)
(* and printed, local channels first, then one group for each remote.      *)
(***************************************************************************)
EXTENDS Terminal, FiniteSets

VARIABLES
  listing       \* listing[t]: the local variables of a channel list

\* entries: the str_array of refs with their details; out: the groups printed;
\* read: the refs that were read, moved: a ref moved since (history variables).
NoListing == [entries |-> << >>, out |-> << >>, read |-> {}, moved |-> FALSE]

ListInit == listing = [t \in Terminals |-> NoListing]

-----------------------------------------------------------------------------
(* cmd_channel, and the options of channel_list.                           *)

ChannelOptions ==
  <<Option("command", "create", None, None),
    Option("command", "switch", None, None),
    Option("command", "delete", None, None),
    Option("command", "list", None, None),
    Option("bool", "help", "h", "help")>>

ListOptions == <<Option("bool", "all", "a", "all"), Option("bool", "help", "h", "help")>>

ChannelParse(args) == Parse(ChannelOptions, MainParse(args).left, TRUE, TRUE)

IsList(p) == ~IsGiven(p, "help") /\ p.left # << >> /\ Head(p.left).text \in {"list", "ls"}

\* The usage; create, switch and delete are commands of ChatSpace.
ChannelEnds(t, args) ==
  LET p == ChannelParse(args) IN
  /\ Runs(t, args, "channel")
  /\ ~IsList(p)
  /\ Parsed(t, args, p, "idle",
            IF IsGiven(p, "help") \/ p.left = << >> THEN "done" ELSE "failed")
  /\ UNCHANGED <<refs, listing>>

StartList(t, args) ==
  LET q == ChannelParse(args)
      p == Parse(ListOptions, Tail(q.left), FALSE, TRUE) IN
  /\ Runs(t, args, "channel")
  /\ IsList(q)
  /\ CASE IsGiven(p, "help") -> Parsed(t, args, p, "idle", "done")
       [] ~IsGiven(p, "help") /\ p.left # << >> -> Parsed(t, args, p, "idle", "failed")
       [] OTHER -> Parsed(t, args, p, "list_local", "none")
  /\ listing' = [listing EXCEPT ![t] = NoListing]
  /\ UNCHANGED refs

-----------------------------------------------------------------------------
(* fetch_channels.                                                         *)

\* Mutant: a remote channel with the name of HEAD is marked.
EntryByName(ref) ==
  [ref |-> ref, remote |-> ~IsLocal(ref), oid |-> tips[ref], current |-> ref[2] = head]

\* A channel_details: what a ref holds, and the origin and name in it.
Entry(ref) ==
  [ref |-> ref, remote |-> ~IsLocal(ref), oid |-> tips[ref], current |-> ref = HeadRef]

\* strcmp of the full names of two refs.
Rank(ref) == CHOOSE i \in DOMAIN RefOrder : RefOrder[i] = ref

Before(a, b) == Rank(a.ref) < Rank(b.ref)

\* for-each-ref lists the refs in order, and each goes to the front.
ForEachRef(S) == AtPlaces(RefOrder, {i \in DOMAIN RefOrder : RefOrder[i] \in S})

Insertions(found) == [i \in DOMAIN found |-> Entry(found[Len(found) + 1 - i])]

FetchChannels(t, S) ==
  \E found \in {ForEachRef(S)} :
    listing' = [listing EXCEPT
      ![t].entries = Insertions(found) \o @,
      ![t].read = @ \cup {<<ref, tips[ref]>> : ref \in S}]

ListLocal(t) ==
  /\ Step(t, "list_local", "list_remote")
  /\ FetchChannels(t, {ref \in DOMAIN tips : IsLocal(ref)})
  /\ UNCHANGED refs

ListRemote(t) ==
  /\ Step(t, "list_remote", "list_filter")
  /\ FetchChannels(t, {ref \in DOMAIN tips : ~IsLocal(ref)})
  /\ UNCHANGED refs

-----------------------------------------------------------------------------
(* filter_uninteresting_remote_channels and the sort.                      *)

\* Mutant: a remote channel is left out for its name alone.
SameName(e, l) == e.remote /\ ~l.remote /\ l.ref[2] = e.ref[2]

\* The remote channel e has the object and the name of the local channel l.
Shadows(e, l) == e.remote /\ ~l.remote /\ l.oid = e.oid /\ l.ref[2] = e.ref[2]

Filtered(entries) ==
  AtPlaces(entries,
           {i \in DOMAIN entries : ~\E l \in ToSet(entries) : Shadows(entries[i], l)})

\* The names of two refs with the same object are compared, and one has none.
FilterCrashes(entries) ==
  \E e, l \in ToSet(entries) : e.remote /\ ~l.remote /\ l.oid = e.oid /\ e.ref[2] = None

\* str_array_sort: an entry comes after those that are before it.
Sorted(entries) ==
  LET Ahead(i) == {j \in DOMAIN entries : Before(entries[j], entries[i])}
      at == [i \in DOMAIN entries |-> Cardinality(Ahead(i)) + 1]
  IN  [k \in DOMAIN entries |-> entries[CHOOSE i \in DOMAIN entries : at[i] = k]]

FilterChannels(t) ==
  LET all == IsGiven(opt[t], "all")
      entries == listing[t].entries IN
  /\ all \/ ~FilterCrashes(entries)
  /\ Step(t, "list_filter", "print_local")
  /\ \E left \in {IF all THEN entries ELSE Filtered(entries)} :
       listing' = [listing EXCEPT ![t].entries = Sorted(left)]
  /\ UNCHANGED refs

-----------------------------------------------------------------------------
(* print_channels takes out of the array what it prints.                   *)

Of(entries, origin) ==
  AtPlaces(entries, {i \in DOMAIN entries : entries[i].ref[1] = origin})

\* Mutant: what was printed stays in the array.
PrintAndKeep(t, origin) ==
  IF \E g \in ToSet(listing[t].out) : g.origin = origin THEN UNCHANGED listing
  ELSE listing' = [listing EXCEPT
    ![t].out = Append(@, [origin |-> origin, rows |-> Of(listing[t].entries, origin)])]

PrintChannels(t, origin) ==
  listing' = [listing EXCEPT
    ![t].out = Append(@, [origin |-> origin, rows |-> Of(listing[t].entries, origin)]),
    ![t].entries = AtPlaces(@, {i \in DOMAIN @ : @[i].ref[1] # origin})]

PrintLocal(t) ==
  /\ Step(t, "print_local", "print_remote")
  /\ PrintChannels(t, None)
  /\ UNCHANGED refs

HasBareRef(t) == \E e \in ToSet(listing[t].entries) : e.ref[2] = None

\* The remote of the first entry left is next.
PrintRemote(t) ==
  /\ listing[t].entries # << >> /\ ~HasBareRef(t)
  /\ Step(t, "print_remote", "print_remote")
  /\ PrintChannels(t, Head(listing[t].entries).ref[1])
  /\ UNCHANGED refs

ListDone(t) ==
  /\ pc[t] = "print_remote" /\ listing[t].entries = << >>
  /\ Ends(t, "done")
  /\ UNCHANGED <<refs, listing>>

\* A remote ref without a name has no origin either: strcmp and strlen are
\* given a null pointer.
ListCrashes(t) ==
  /\ \/ /\ pc[t] = "list_filter" /\ ~IsGiven(opt[t], "all")
        /\ FilterCrashes(listing[t].entries)
     \/ pc[t] = "print_remote" /\ HasBareRef(t)
  /\ Ends(t, "crashed")
  /\ UNCHANGED <<refs, listing>>

ListSteps == {"list_local", "list_remote", "list_filter", "print_local", "print_remote"}

\* FATAL: for-each-ref fails; or the terminal is closed.
KillList(t) ==
  /\ Faults /\ pc[t] \in ListSteps
  /\ Ends(t, "failed")
  /\ UNCHANGED <<refs, listing>>

ListStep(t) ==
  \/ ListLocal(t) \/ ListRemote(t) \/ FilterChannels(t)
  \/ PrintLocal(t) \/ PrintRemote(t) \/ ListDone(t) \/ ListCrashes(t)
=============================================================================
