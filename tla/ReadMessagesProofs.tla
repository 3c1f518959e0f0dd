-------------------------- MODULE ReadMessagesProofs --------------------------
(***************************************************************************)
(* What git chat read shows, for every history, keyring and passphrase: a  *)
(* commit is parsed as it was committed, a message is shown as it was      *)
(* written, the pager is one that can be executed and its environment is   *)
(* whole; and the types.                                                   *)
(***************************************************************************)
EXTENDS ReadCommandProofs, EnvironmentProofs

-----------------------------------------------------------------------------
(* The lines of an object, and where the parser finds them.                *)

\* The places of the lines in the object of a commit.
LEMMA ObjectLines ==
  ASSUME NEW c, IsWritten(c)
  PROVE  LET P == Len(c.parents)
             H == Len(c.headers)
             M == Len(c.message)
             o == ObjectOf(c)
         IN  /\ P \in Nat /\ H \in Nat /\ M \in Nat
             /\ o # << >> /\ Len(o) = P + H + 4 + M
             /\ o[1] = Line("tree", c.tree)
             /\ \A i \in 1..P : o[i + 1] = Line("parent", c.parents[i])
             /\ o[P + 2] = PersonLine("author", c.author)
             /\ o[P + 3] = PersonLine("committer", c.committer)
             /\ \A i \in 1..H : o[P + 3 + i] # BlankLine
             /\ o[P + H + 4] = BlankLine
             /\ \A i \in 1..M : o[P + H + 4 + i] = c.message[i]
  <1> DEFINE P == Len(c.parents)
             H == Len(c.headers)
             M == Len(c.message)
             parents == [i \in DOMAIN c.parents |-> Line("parent", c.parents[i])]
             heading == <<PersonLine("author", c.author), PersonLine("committer", c.committer)>>
             first == <<Line("tree", c.tree)>> \o parents
             second == first \o heading
             third == second \o c.headers
             fourth == third \o <<BlankLine>>
             Lines(s) == {s[i] : i \in DOMAIN s}
             T == {Line("tree", c.tree), BlankLine} \cup Lines(parents) \cup Lines(heading)
                    \cup Lines(c.headers) \cup Lines(c.message)
  <1>1. /\ c.parents \in Seq(Lines(c.parents)) /\ c.headers \in Seq(Lines(c.headers))
        /\ c.message \in Seq(Lines(c.message))
    BY DEF IsWritten, IsList
  <1>2. /\ P \in Nat /\ DOMAIN c.parents = 1..P /\ H \in Nat /\ DOMAIN c.headers = 1..H
        /\ M \in Nat /\ DOMAIN c.message = 1..M
    BY <1>1
  <1>3. parents \in Seq(T) /\ Len(parents) = P
        /\ \A i \in 1..P : parents[i] = Line("parent", c.parents[i])
    <2>1. \A i \in 1..P : parents[i] \in T /\ parents[i] = Line("parent", c.parents[i])
      BY <1>2
    <2>2. parents = [i \in 1..P |-> parents[i]]
      BY <1>2
    <2> HIDE DEF parents, T, P
    <2>3. QED
      BY <1>2, <2>1, <2>2
  <1>4. c.headers \in Seq(T) /\ c.message \in Seq(T)
    BY <1>1, <1>2
  <1>5. heading \in Seq(T) /\ <<BlankLine>> \in Seq(T) /\ <<Line("tree", c.tree)>> \in Seq(T)
    BY DEF PersonLine
  <1>6. first \in Seq(T) /\ Len(first) = P + 1 /\ first[1] = Line("tree", c.tree)
        /\ \A i \in 1..P : first[i + 1] = Line("parent", c.parents[i])
    <2> HIDE DEF parents, T
    <2> QED
      BY <1>2, <1>3, <1>5
  <1>7. second \in Seq(T) /\ Len(second) = P + 3 /\ (\A i \in 1..P + 1 : second[i] = first[i])
        /\ second[P + 2] = heading[1] /\ second[P + 3] = heading[2]
    <2> HIDE DEF first, T
    <2> QED
      BY <1>2, <1>5, <1>6
  <1>8. third \in Seq(T) /\ Len(third) = P + 3 + H /\ (\A i \in 1..P + 3 : third[i] = second[i])
        /\ \A i \in 1..H : third[P + 3 + i] = c.headers[i]
    <2>0. c.headers \in Seq(T)
      BY <1>4
    <2>1. second \in Seq(T) /\ P + 3 \in Nat /\ Len(second) = P + 3
      BY <1>2, <1>7
    <2> HIDE DEF second, T, P
    <2>2. /\ second \o c.headers \in Seq(T)
          /\ Len(second \o c.headers) = P + 3 + Len(c.headers)
          /\ \A i \in 1..P + 3 : (second \o c.headers)[i] = second[i]
          /\ \A i \in 1..Len(c.headers) : (second \o c.headers)[P + 3 + i] = c.headers[i]
      BY <2>0, <2>1, Joined
    <2>3. QED
      BY <2>2
  <1>9. fourth \in Seq(T) /\ Len(fourth) = P + H + 4
        /\ (\A i \in 1..P + 3 + H : fourth[i] = third[i]) /\ fourth[P + H + 4] = BlankLine
    <2> HIDE DEF third, T, P, H
    <2>1. /\ third \o <<BlankLine>> \in Seq(T) /\ Len(third \o <<BlankLine>>) = P + 3 + H + 1
          /\ \A i \in 1..P + 3 + H : (third \o <<BlankLine>>)[i] = third[i]
          /\ (third \o <<BlankLine>>)[P + 3 + H + 1] = BlankLine
      <3>1. Len(<<BlankLine>>) = 1 /\ <<BlankLine>>[1] = BlankLine /\ P + 3 + H \in Nat
        BY <1>2
      <3>2. QED
        BY <1>5, <1>8, <3>1, Joined
    <2>2. P + 3 + H + 1 = P + H + 4
      BY <1>2
    <2>3. QED
      BY <2>1, <2>2 DEF fourth
  <1>10. /\ Len(fourth \o c.message) = P + H + 4 + M
         /\ \A i \in 1..P + H + 4 : (fourth \o c.message)[i] = fourth[i]
         /\ \A i \in 1..M : (fourth \o c.message)[P + H + 4 + i] = c.message[i]
         /\ fourth \o c.message # << >>
    <2> HIDE DEF fourth, T, P, H
    <2> DEFINE n == P + H + 4
    <2>1. fourth \in Seq(T) /\ n \in Nat /\ Len(fourth) = n /\ c.message \in Seq(T)
      BY <1>2, <1>4, <1>9
    <2> HIDE DEF n, M
    <2>2. /\ fourth \o c.message \in Seq(T) /\ Len(fourth \o c.message) = n + Len(c.message)
          /\ \A i \in 1..n : (fourth \o c.message)[i] = fourth[i]
          /\ \A i \in 1..Len(c.message) : (fourth \o c.message)[n + i] = c.message[i]
      BY <2>1, Joined
    <2>3. n + M # 0
      BY <1>2 DEF n
    <2>4. QED
      BY <2>2, <2>3 DEF n, M
  <1>11. ObjectOf(c) = fourth \o c.message
    BY DEF ObjectOf
  <1> HIDE DEF fourth, third, second, first
  <1>12. \A i \in 1..H : c.headers[i] # BlankLine
    BY <1>2 DEF IsWritten
  <1> DEFINE o == ObjectOf(c)
  <1> HIDE DEF P, H, M, o
  <1>13. /\ o # << >> /\ Len(o) = P + H + 4 + M /\ o[P + H + 4] = BlankLine
         /\ \A i \in 1..M : o[P + H + 4 + i] = c.message[i]
         /\ \A i \in 1..P + 3 + H : o[i] = third[i]
    <2>1. P + H + 4 \in 1..P + H + 4 /\ \A i \in 1..P + 3 + H : i \in 1..P + H + 4
      BY <1>2
    <2>2. QED
      BY <1>9, <1>10, <1>11, <2>1 DEF o
  <1>14. (\A i \in 1..H : o[P + 3 + i] # BlankLine) /\ \A i \in 1..P + 3 : o[i] = second[i]
    <2>1. /\ \A i \in 1..H : P + 3 + i \in 1..P + 3 + H
          /\ \A i \in 1..P + 3 : i \in 1..P + 3 + H
      BY <1>2
    <2>2. QED
      BY <1>8, <1>12, <1>13, <2>1
  <1>15. /\ o[P + 2] = heading[1] /\ o[P + 3] = heading[2]
         /\ \A i \in 1..P + 1 : o[i] = first[i]
    <2>1. P + 2 \in 1..P + 3 /\ P + 3 \in 1..P + 3 /\ \A i \in 1..P + 1 : i \in 1..P + 3
      BY <1>2
    <2>2. QED
      BY <1>7, <1>14, <2>1
  <1>16. o[1] = Line("tree", c.tree) /\ \A i \in 1..P : o[i + 1] = Line("parent", c.parents[i])
    <2>1. 1 \in 1..P + 1 /\ \A i \in 1..P : i + 1 \in 1..P + 1
      BY <1>2
    <2>2. QED
      BY <1>6, <1>15, <2>1
  <1>17. QED
    BY <1>2, <1>13, <1>14, <1>15, <1>16 DEF P, H, M, o

\* The searches of the parser end at these lines.
LEMMA LinesFound ==
  ASSUME NEW c, IsWritten(c)
  PROVE  LET o == ObjectOf(c)
             P == Len(c.parents)
             H == Len(c.headers)
         IN  /\ AuthorLine(o) = P + 2 /\ CommitterLine(o) = P + 3
             /\ MessageLine(o) = P + H + 4
  <1> DEFINE o == ObjectOf(c)
             P == Len(c.parents)
             H == Len(c.headers)
             M == Len(c.message)
  <1>1. /\ P \in Nat /\ H \in Nat /\ M \in Nat /\ Len(o) = P + H + 4 + M
        /\ \A i \in 1..P : o[i + 1] = Line("parent", c.parents[i])
        /\ o[P + 2] = PersonLine("author", c.author)
        /\ o[P + 3] = PersonLine("committer", c.committer)
        /\ \A i \in 1..H : o[P + 3 + i] # BlankLine
        /\ o[P + H + 4] = BlankLine
    BY ObjectLines
  <1> HIDE DEF o, P, H, M
  <1>2. AuthorLine(o) = P + 2
    <2> DEFINE F == {k \in 2..Len(o) : o[k].word # "parent"}
    <2>1. o[P + 2].word # "parent"
      BY <1>1 DEF PersonLine, Line
    <2>2. ASSUME NEW k \in F PROVE P + 2 <= k
      <3>1. SUFFICES ASSUME k < P + 2 PROVE FALSE
        BY <1>1
      <3>2. k - 1 \in 1..P /\ (k - 1) + 1 = k
        BY <1>1, <3>1
      <3>3. o[k] = Line("parent", c.parents[k - 1])
        BY <1>1, <3>2
      <3>4. QED
        BY <3>3 DEF Line
    <2>3. P + 2 \in F /\ F \subseteq Int
      BY <1>1, <2>1
    <2>4. Min(F) = P + 2
      BY <2>2, <2>3, MinIs
    <2>5. QED
      BY <2>3, <2>4 DEF AuthorLine, FirstFrom
  <1>3. CommitterLine(o) = P + 3
    <2> DEFINE F == {k \in P + 3..Len(o) : o[k].word # "author" \/ ~Signed(o[k].arg)}
    <2>1. o[P + 3].word # "author"
      BY <1>1 DEF PersonLine, Line
    <2>2. P + 3 \in F /\ F \subseteq Int /\ \A k \in F : P + 3 <= k
      BY <1>1, <2>1
    <2>3. Min(F) = P + 3
      BY <2>2, MinIs
    <2>4. AuthorLine(o) + 1 = P + 3
      BY <1>1, <1>2
    <2>5. QED
      BY <2>2, <2>3, <2>4 DEF CommitterLine, FirstFrom
  <1>4. MessageLine(o) = P + H + 4
    <2> DEFINE F == {k \in P + 4..Len(o) : o[k] = BlankLine}
    <2>1. ASSUME NEW k \in F PROVE P + H + 4 <= k
      <3>1. SUFFICES ASSUME k < P + H + 4 PROVE FALSE
        BY <1>1
      <3>2. k - P - 3 \in 1..H /\ P + 3 + (k - P - 3) = k
        BY <1>1, <3>1
      <3>3. QED
        BY <1>1, <3>2
    <2>2. P + H + 4 \in F /\ F \subseteq Int
      BY <1>1
    <2>3. Min(F) = P + H + 4
      BY <2>1, <2>2, MinIs
    <2>4. CommitterLine(o) + 1 = P + 4
      BY <1>1, <1>3
    <2>5. QED
      BY <2>2, <2>3, <2>4 DEF MessageLine, FirstFrom
  <1>5. QED
    BY <1>2, <1>3, <1>4 DEF o, P, H

\* The message is trimmed in the object as it is by itself: the blank line that
\* ends the headers is trimmed away.
LEMMA TrimmedInObject ==
  ASSUME NEW m, IsList(m), NEW o, NEW n \in Nat, n >= 1, Len(o) = n + Len(m),
         o[n] = BlankLine, \A i \in 1..Len(m) : o[n + i] = m[i]
  PROVE  TrimmedFrom(o, n) = TrimmedFrom(m, 1)
  <1> DEFINE L == Len(m)
             Fo == {k \in n..Len(o) : o[k] # BlankLine}
             Fm == {k \in 1..L : m[k] # BlankLine}
  <1>1. L \in Nat
    BY DEF IsList
  <1> HIDE DEF L
  <1>2. \A k \in Fm : n + k \in Fo
    BY <1>1 DEF L
  <1>3. ASSUME NEW k \in Fo PROVE k - n \in Fm
    <2>1. k - n \in 1..L /\ n + (k - n) = k
      BY <1>1 DEF L
    <2>2. QED
      BY <2>1 DEF L
  <1>4. CASE Fm = {}
    <2>1. Fo = {}
      BY <1>3, <1>4
    <2>2. QED
      BY <1>4, <2>1 DEF TrimmedFrom, L
  <1>5. CASE Fm # {}
    <2> DEFINE a == Min(Fm)
               b == Max(Fm)
    <2>1. Fm \subseteq 0..L /\ Fm \subseteq Nat
      BY <1>1
    <2>2. a \in Fm /\ (\A k \in Fm : a <= k) /\ b \in Fm /\ (\A k \in Fm : k <= b)
      <3> HIDE DEF Fm
      <3>1. QED
        BY <1>1, <1>5, <2>1, MinLeast, MaxGreatest
    <2> HIDE DEF a, b
    <2>3. a \in 1..L /\ b \in 1..L /\ a <= b
      BY <2>2
    <2>4. Fo \subseteq Int /\ n + a \in Fo /\ n + b \in Fo
      BY <1>1, <1>2, <2>2 DEF L
    <2>5. \A k \in Fo : n + a <= k /\ k <= n + b
      BY <1>3, <2>2, <2>3, <2>4
    <2>6. Min(Fo) = n + a /\ Max(Fo) = n + b
      <3> HIDE DEF Fo
      <3>1. QED
        BY <2>4, <2>5, MinIs, MaxIs
    <2>7. SubSeq(o, n + a, n + b) = SubSeq(m, a, b)
      <3>1. SubSeq(o, n + a, n + b) = [i \in 1..b - a + 1 |-> o[n + (a + i - 1)]]
        BY <1>1, <2>3
      <3>2. SubSeq(m, a, b) = [i \in 1..b - a + 1 |-> m[a + i - 1]]
        BY <1>1, <2>3
      <3>3. \A i \in 1..b - a + 1 : o[n + (a + i - 1)] = m[a + i - 1]
        <4>1. \A i \in 1..b - a + 1 : a + i - 1 \in 1..L
          BY <1>1, <2>3
        <4>2. QED
          BY <4>1 DEF L
      <3>4. QED
        BY <3>1, <3>2, <3>3
    <2>8. TrimmedFrom(o, n) = SubSeq(o, Min(Fo), Max(Fo))
      BY <2>4 DEF TrimmedFrom
    <2>9. TrimmedFrom(m, 1) = SubSeq(m, Min(Fm), Max(Fm))
      BY <1>5 DEF TrimmedFrom, L
    <2>10. QED
      BY <2>6, <2>7, <2>8, <2>9 DEF a, b
  <1>6. QED
    BY <1>4, <1>5

\* A person that can be parsed is the one git wrote, on either side of Greenwich.
LEMMA SignatureIsMeant ==
  ASSUME NEW word, NEW p, p.hours \in 0..23, p.minutes \in 0..59
  PROVE  /\ Signature(PersonLine(word, p).arg) = Meant(p)
         /\ PersonLine(word, p).word = word
         /\ Signed(PersonLine(word, p).arg) <=> p.mail # None
  <1> DEFINE h == p.hours
             m == p.minutes
             arg == PersonLine(word, p).arg
  <1>1. arg = [name |-> p.name, mail |-> p.mail, time |-> p.time, zone |-> Zone(p)]
    BY DEF PersonLine, Line
  <1>2. h \in 0..23 /\ m \in 0..59
    OBVIOUS
  <1> HIDE DEF h, m, arg
  <1>3. (h * 100 + m) \div 100 = h /\ (h * 100 + m) % 100 = m
    BY <1>2
  <1>4. Zone(p) = IF p.east THEN h * 100 + m ELSE -(h * 100 + m)
    BY DEF Zone, h, m
  <1>5. arg.zone \in -2400..2400
    BY <1>1, <1>2, <1>4
  <1>6. Minutes(arg.zone) = IF p.east THEN h * 60 + m ELSE -(h * 60 + m)
    <2>1. CASE p.east
      BY <1>1, <1>2, <1>3, <1>4, <2>1 DEF Minutes
    <2>2. CASE ~p.east
      <3>1. arg.zone = -(h * 100 + m)
        BY <1>1, <1>4, <2>2
      <3>2. CASE h = 0 /\ m = 0
        <4>1. arg.zone = 0
          <5>1. h * 100 + m = 0
            BY <3>2
          <5>2. QED
            BY <3>1, <5>1
        <4>2. Minutes(0) = 0
          BY DEF Minutes
        <4>3. QED
          BY <2>2, <3>2, <4>1, <4>2
      <3>3. CASE ~(h = 0 /\ m = 0)
        <4>1. arg.zone < 0 /\ -arg.zone = h * 100 + m
          BY <1>2, <3>1, <3>3
        <4>2. QED
          BY <1>2, <1>3, <2>2, <4>1 DEF Minutes
      <3>4. QED
        BY <3>2, <3>3
    <2>3. QED
      BY <2>1, <2>2
  <1>7. Signature(arg) = Meant(p)
    BY <1>1, <1>5, <1>6 DEF Signature, Meant, h, m
  <1>8. QED
    BY <1>1, <1>7 DEF PersonLine, Line, Signed, arg

\* commit_parse reads a commit that git wrote as what was committed, with any
\* number of parents, headers and lines, and in any time zone; it refuses those
\* whose author or committer has no address.
THEOREM ParseReadsCommit ==
  ASSUME NEW c, IsWritten(c)
  PROVE  LET parsed == ParseCommit(ObjectOf(c)) IN
         /\ parsed # None => IsCommit(parsed, c)
         /\ c.author.mail = None \/ c.committer.mail = None => parsed = None
  <1> DEFINE o == ObjectOf(c)
             P == Len(c.parents)
             H == Len(c.headers)
             M == Len(c.message)
             parents == [i \in 1..AuthorLine(o) - 2 |-> o[i + 1].arg]
             parsed == [tree |-> o[1].arg, parents |-> parents,
                        author |-> Signature(o[AuthorLine(o)].arg),
                        committer |-> Signature(o[CommitterLine(o)].arg),
                        body |-> TrimmedFrom(o, MessageLine(o))]
  <1>1. /\ P \in Nat /\ H \in Nat /\ M \in Nat /\ o # << >> /\ Len(o) = P + H + 4 + M
        /\ o[1] = Line("tree", c.tree)
        /\ \A i \in 1..P : o[i + 1] = Line("parent", c.parents[i])
        /\ o[P + 2] = PersonLine("author", c.author)
        /\ o[P + 3] = PersonLine("committer", c.committer)
        /\ o[P + H + 4] = BlankLine
        /\ \A i \in 1..M : o[P + H + 4 + i] = c.message[i]
    BY ObjectLines
  <1>2. AuthorLine(o) = P + 2 /\ CommitterLine(o) = P + 3 /\ MessageLine(o) = P + H + 4
    BY LinesFound
  <1>3. /\ Signature(o[P + 2].arg) = Meant(c.author)
        /\ Signature(o[P + 3].arg) = Meant(c.committer)
        /\ IsSigned(o, P + 2, "author") <=> c.author.mail # None
        /\ IsSigned(o, P + 3, "committer") <=> c.committer.mail # None
    <2>1. \A p \in {c.author, c.committer} : p.hours \in 0..23 /\ p.minutes \in 0..59
      BY DEF IsWritten
    <2> HIDE DEF o, P, H, M
    <2>2. P + 2 <= Len(o) /\ P + 3 <= Len(o)
      BY <1>1
    <2>3. /\ Signature(PersonLine("author", c.author).arg) = Meant(c.author)
          /\ PersonLine("author", c.author).word = "author"
          /\ Signed(PersonLine("author", c.author).arg) <=> c.author.mail # None
      BY <2>1, SignatureIsMeant, Zenon
    <2>4. /\ Signature(PersonLine("committer", c.committer).arg) = Meant(c.committer)
          /\ PersonLine("committer", c.committer).word = "committer"
          /\ Signed(PersonLine("committer", c.committer).arg) <=> c.committer.mail # None
      BY <2>1, SignatureIsMeant, Zenon
    <2>5. QED
      BY <1>1, <2>2, <2>3, <2>4 DEF IsSigned
  <1> HIDE DEF o, P, H, M
  <1>4. TrimmedFrom(o, P + H + 4) = TrimmedFrom(c.message, 1)
    <2>1. IsList(c.message) /\ P + H + 4 \in Nat /\ P + H + 4 >= 1
      BY <1>1 DEF IsWritten
    <2>2. QED
      BY <1>1, <2>1, TrimmedInObject DEF M
  <1>5. parents = c.parents
    <2>1. c.parents = [i \in 1..P |-> c.parents[i]]
      <3>1. c.parents \in Seq({c.parents[i] : i \in DOMAIN c.parents})
        BY DEF IsWritten, IsList
      <3>2. DOMAIN c.parents = 1..P
        BY <3>1 DEF P
      <3>3. c.parents = [i \in DOMAIN c.parents |-> c.parents[i]]
        BY <3>1
      <3>4. QED
        BY <3>2, <3>3
    <2>2. parents = [i \in 1..P |-> o[i + 1].arg]
      BY <1>1, <1>2
    <2>3. \A i \in 1..P : o[i + 1].arg = c.parents[i]
      <3>1. TAKE i \in 1..P
      <3>2. o[i + 1] = Line("parent", c.parents[i])
        BY <1>1
      <3>3. QED
        BY <3>2 DEF Line
    <2>4. QED
      BY <2>1, <2>2, <2>3
  <1>6. /\ ParseCommit(o) # None => ParseCommit(o) = parsed
        /\ c.author.mail = None \/ c.committer.mail = None => ParseCommit(o) = None
    BY <1>2, <1>3 DEF ParseCommit
  <1>7. IsCommit(parsed, c)
    <2>1. o[1].arg = c.tree
      BY <1>1 DEF Line
    <2> HIDE DEF parents
    <2>2. QED
      BY <1>2, <1>3, <1>4, <1>5, <2>1 DEF IsCommit
  <1>8. QED
    BY <1>6, <1>7 DEF o

-----------------------------------------------------------------------------
(* The invariant of the messages.                                          *)

\* The commit that is on its way.
Current == world.commits[read]

\* The object in the buffer is that of the last commit, and so is the commit.
Parsed ==
  /\ pc = "parse" => read \in DOMAIN world.commits /\ object = ObjectOf(Current)
  /\ pc \in {"decrypt", "ask", "header", "body"} => IsCommit(commit, Current)

\* What is printed of a commit, by its kind.
Fits(k, c) ==
  /\ k = "PLN" <=> Sealed(c) = None
  /\ k = "ERR" => ~Sealed(c).held \/ Sealed(c).locked

TextOf(k, c) ==
  CASE k = "PLN" -> TrimmedFrom(c.message, 1)
    [] k = "DEC" -> Sealed(c).text
    [] k = "ERR" -> CouldNotDecrypt

\* gpg asks for locked keys only, and what is about to be printed is what the
\* commit on its way is to be shown as.
Opening ==
  /\ pc = "ask" => /\ Sealed(Current) # None
                   /\ Sealed(Current).held /\ Sealed(Current).locked
  /\ pc \in {"header", "body"} => Fits(kind, Current) /\ text = TextOf(kind, Current)

ShownInv == Parsed /\ Opening /\ MessagesAreShown

\* A held key stays closed for one of these reasons.
Excused ==
  \/ world.source = "pinentry"
  \/ world.source = "fd" /\ Len(answers) > 1
  \/ world.source = "file" /\ opened = FdLimit

\* The descriptor was used up by an answer before.
Answering ==
  /\ opened \in 0..FdLimit
  /\ answers \in Seq({"line", "other", "nothing", "error"})
  /\ spent => Len(answers) > 0

KeysInv ==
  /\ Answering
  /\ pc \in {"header", "body"} /\ kind = "ERR" /\ Sealed(Current).held /\ world.right => Excused
  /\ HeldKeysOpen

-----------------------------------------------------------------------------
(* The steps.                                                              *)

Other == \/ Leaving \/ Beginning \/ Stopping \/ ThePager \/ SignalArrives \/ WriteBreaks
         \/ InitContext \/ ((NoPager \/ ChoosePager \/ LocatePager \/ MergeEnv) /\ Still)

\* Whatever is not about a message leaves the messages alone, and goes to the
\* next one at most.
LEMMA OtherSteps ==
  ASSUME Other
  PROVE  /\ UNCHANGED <<world, message, passphrase, shown>>
         /\ pc' = pc \/ pc' \in First \cup {"next"}
  <1>1. CASE Leaving
    BY <1>1 DEF Leaving, NoContext, Malformed, AllRead, PagerNotFound, rest, Still
  <1>2. CASE Beginning
    BY <1>2 DEF Beginning, ForkPager, RegisterSignal, RegisterExit, Still, Goto, First
  <1>3. CASE Stopping
    BY <1>3 DEF Stopping, StopPager, StopWaits, StopFindsNoPid, StopFindsReport, StopFinishes,
                StopExits, StopRaises, StopReturns, Still
  <1>4. CASE ThePager \/ SignalArrives \/ WriteBreaks
    BY <1>4 DEF ThePager, PagerBegins, PagerIsLeft, PagerRuns, PagerFails, PagerEnds,
                SignalArrives, Signal, WriteBreaks, rest, Still
  <1>5. CASE InitContext \/ ((NoPager \/ ChoosePager \/ LocatePager \/ MergeEnv) /\ Still)
    BY <1>5 DEF InitContext, NoPager, ChoosePager, LocatePager, MergeEnv, Still, Goto, First, Early
  <1>6. QED
    BY <1>1, <1>2, <1>3, <1>4, <1>5 DEF Other

LEMMA MessageKinds ==
  Next => \/ Other \/ NextCommit \/ Parse \/ IsPlain \/ KeyMissing \/ Decrypt \/ Ask
          \/ AnswerPassphrase \/ WriteHeader \/ WriteBody
  BY Kinds DEF Other, Going

\* What a cipher is does not change.
LEMMA SameCipher ==
  UNCHANGED world => /\ \A body : Cipher(body)' = Cipher(body)
                     /\ \A c : Sealed(c)' = Sealed(c)
  BY DEF Cipher, Sealed, SelectInSeq

\* While a commit is opened, the body that was parsed is the one committed.
LEMMA BodyIsMeant ==
  ASSUME ShownInv, pc \in {"decrypt", "ask", "header", "body"}
  PROVE  /\ commit.body = TrimmedFrom(Current.message, 1)
         /\ Cipher(commit.body) = Sealed(Current)
         /\ commit.author = Meant(Current.author)
  BY DEF ShownInv, Parsed, IsCommit, Sealed

LEMMA OtherShows == ShownInv /\ Other => ShownInv'
  <1> SUFFICES ASSUME ShownInv, Other PROVE ShownInv'
    OBVIOUS
  <1>1. /\ UNCHANGED <<world, read, object, commit, kind, text, shown>>
        /\ pc' = pc \/ pc' \notin {"parse", "decrypt", "ask", "header", "body"}
    BY OtherSteps DEF message, First, Early
  <1>2. \A c : Sealed(c)' = Sealed(c)
    BY <1>1, SameCipher
  <1>3. Current' = Current
    BY <1>1 DEF Current
  <1>4. Parsed'
    BY <1>1, <1>3 DEF ShownInv, Parsed
  <1>5. Opening'
    BY <1>1, <1>2, <1>3 DEF ShownInv, Opening, Fits, TextOf
  <1>6. MessagesAreShown'
    BY <1>1, <1>2 DEF ShownInv, MessagesAreShown
  <1>7. QED
    BY <1>4, <1>5, <1>6 DEF ShownInv

\* Fetching and parsing a commit.
LEMMA ParsingShows ==
  PagerInv /\ SuccessInv /\ ShownInv /\ (NextCommit \/ Parse) => ShownInv'
  <1> SUFFICES ASSUME PagerInv, SuccessInv, ShownInv, NextCommit \/ Parse PROVE ShownInv'
    OBVIOUS
  <1>1. UNCHANGED <<world, shown>> /\ pc' \in {"parse", "decrypt"}
    BY DEF NextCommit, Parse, Goto
  <1>2. MessagesAreShown'
    <2>1. \A c : Sealed(c)' = Sealed(c)
      BY <1>1, SameCipher
    <2>2. QED
      BY <1>1, <2>1 DEF ShownInv, MessagesAreShown
  <1>3. Opening'
    BY <1>1 DEF Opening
  <1>4. world \in Worlds /\ IsList(world.commits)
        /\ \A i \in DOMAIN world.commits : IsWritten(world.commits[i])
    BY HistoryAssumption DEF PagerInv
  <1>5. Parsed'
    <2>1. CASE NextCommit
      <3>1. read' = read + 1 /\ read < Len(world.commits) /\ read \in Nat
            /\ object' = ObjectOf(world.commits[read + 1]) /\ pc' = "parse"
        BY <2>1 DEF NextCommit, Goto, SuccessInv, Counting
      <3>2. DOMAIN world.commits = 1..Len(world.commits) /\ Len(world.commits) \in Nat
        BY <1>4 DEF IsList
      <3>3. read' \in DOMAIN world.commits /\ object' = ObjectOf(Current')
        BY <1>1, <3>1, <3>2 DEF Current
      <3>4. QED
        BY <1>1, <3>1, <3>3 DEF Parsed
    <2>2. CASE Parse
      <3>1. /\ pc = "parse" /\ pc' = "decrypt" /\ read' = read
            /\ commit' = ParseCommit(object) /\ commit' # None
        BY <2>2 DEF Parse, At, Goto
      <3>2. read \in DOMAIN world.commits /\ object = ObjectOf(Current)
        BY <3>1 DEF ShownInv, Parsed
      <3>3. IsWritten(Current)
        BY <1>4, <3>2 DEF Current
      <3>4. IsCommit(commit', Current)
        BY <3>1, <3>2, <3>3, ParseReadsCommit
      <3>5. Current' = Current
        BY <1>1, <3>1 DEF Current
      <3>6. QED
        BY <3>1, <3>4, <3>5 DEF Parsed
    <2>3. QED
      BY <2>1, <2>2
  <1>6. QED
    BY <1>2, <1>3, <1>5 DEF ShownInv

\* Opening a commit: the kind fits the cipher, and the text the kind.
Decrypting == IsPlain \/ KeyMissing \/ Decrypt \/ Ask \/ AnswerPassphrase

LEMMA DecryptingIs ==
  ASSUME ShownInv, Decrypting
  PROVE  /\ UNCHANGED <<world, read, object, commit, shown>>
         /\ pc \in {"decrypt", "ask"}
         /\ \/ /\ pc' = "ask" /\ Sealed(Current) # None
               /\ Sealed(Current).held /\ Sealed(Current).locked
            \/ /\ pc' = "header"
               /\ Fits(kind', Current) /\ text' = TextOf(kind', Current)
               /\ kind' = "ERR" /\ Sealed(Current).held => AnswerPassphrase
  <1>1. /\ UNCHANGED <<world, read, object, commit, shown>>
        /\ pc \in {"decrypt", "ask"}
    BY DEF Decrypting, IsPlain, KeyMissing, Decrypt, Ask, AnswerPassphrase, At, message
  <1>2. /\ commit.body = TrimmedFrom(Current.message, 1)
        /\ Cipher(commit.body) = Sealed(Current)
    BY <1>1, BodyIsMeant
  <1> USE DEF Shows, At, Goto, Fits, TextOf
  <1>3. CASE IsPlain
    BY <1>1, <1>2, <1>3 DEF IsPlain
  <1>4. CASE KeyMissing
    BY <1>1, <1>2, <1>4 DEF KeyMissing
  <1>5. CASE Decrypt
    BY <1>1, <1>2, <1>5 DEF Decrypt
  <1>6. CASE Ask
    BY <1>1, <1>2, <1>6 DEF Ask
  <1>7. CASE AnswerPassphrase
    <2>1. /\ Sealed(Current) # None
          /\ Sealed(Current).held /\ Sealed(Current).locked
      BY <1>7 DEF AnswerPassphrase, ShownInv, Opening
    <2>2. \/ kind' = "DEC" /\ text' = Cipher(commit.body).text /\ pc' = "header"
          \/ kind' = "ERR" /\ text' = CouldNotDecrypt /\ pc' = "header"
      BY <1>7 DEF AnswerPassphrase, AnswerIs
    <2>3. QED
      BY <1>1, <1>2, <1>7, <2>1, <2>2
  <1>8. QED
    BY <1>3, <1>4, <1>5, <1>6, <1>7 DEF Decrypting

LEMMA DecryptingShows == ShownInv /\ Decrypting => ShownInv'
  <1> SUFFICES ASSUME ShownInv, Decrypting PROVE ShownInv'
    OBVIOUS
  <1>1. /\ UNCHANGED <<world, read, object, commit, shown>>
        /\ pc \in {"decrypt", "ask"} /\ pc' \in {"ask", "header"}
    BY DecryptingIs
  <1>2. (\A c : Sealed(c)' = Sealed(c)) /\ Current' = Current
    BY <1>1, SameCipher DEF Current
  <1>3. Parsed'
    BY <1>1, <1>2 DEF ShownInv, Parsed
  <1>4. Opening'
    BY <1>1, <1>2, DecryptingIs DEF Opening, Fits, TextOf
  <1>5. MessagesAreShown'
    BY <1>1, <1>2 DEF ShownInv, MessagesAreShown
  <1>6. QED
    BY <1>3, <1>4, <1>5 DEF ShownInv

\* Where the next part of a commit is written.
LEMMA NextPart ==
  ASSUME PagerInv, SuccessInv, WriteHeader \/ WriteBody
  PROVE  /\ UNCHANGED <<world, message, passphrase>>
         /\ read \in Nat /\ Len(shown) \in Nat
         /\ DOMAIN shown' = DOMAIN shown \cup {Len(shown) + 1}
         /\ \A i \in DOMAIN shown : shown'[i] = shown[i]
         /\ (Len(shown) + 2) \div 2 = read
         /\ WriteHeader => /\ (Len(shown) + 1) % 2 = 1
                           /\ shown'[Len(shown) + 1] =
                                [part |-> "header", kind |-> kind, author |-> commit.author]
         /\ WriteBody => /\ (Len(shown) + 1) % 2 = 0
                         /\ shown'[Len(shown) + 1] =
                              [part |-> "body", kind |-> kind, text |-> text]
  <1>1. PICK part : /\ shown' = Append(shown, part)
                    /\ WriteHeader => part = [part |-> "header", kind |-> kind,
                                              author |-> commit.author]
                    /\ WriteBody => part = [part |-> "body", kind |-> kind, text |-> text]
    <2>1. ~(WriteHeader /\ WriteBody)
      BY DEF WriteHeader, WriteBody, At
    <2>2. CASE WriteHeader
      BY <2>1, <2>2 DEF WriteHeader
    <2>3. CASE WriteBody
      BY <2>1, <2>3 DEF WriteBody
    <2>4. QED
      BY <2>2, <2>3
  <1>2. /\ read \in Nat /\ shown \in Seq(ToSet(shown)) /\ Len(shown) \in Nat
        /\ pc = "header" => Len(shown) = 2 * read - 2
        /\ pc = "body" => Len(shown) = 2 * read - 1
    BY DEF SuccessInv, Counting
  <1>3. /\ DOMAIN shown' = DOMAIN shown \cup {Len(shown) + 1}
        /\ \A i \in DOMAIN shown : shown'[i] = shown[i]
        /\ shown'[Len(shown) + 1] = part
    BY <1>1, <1>2
  <1>4. CASE WriteHeader
    <2>1. UNCHANGED <<world, message, passphrase>> /\ pc = "header"
      BY <1>4 DEF WriteHeader, At
    <2>2. (Len(shown) + 2) \div 2 = read /\ (Len(shown) + 1) % 2 = 1
      BY <1>2, <2>1
    <2>3. ~WriteBody
      BY <2>1 DEF WriteBody, At
    <2>4. QED
      BY <1>1, <1>2, <1>3, <2>1, <2>2, <2>3
  <1>5. CASE WriteBody
    <2>1. UNCHANGED <<world, message, passphrase>> /\ pc = "body"
      BY <1>5 DEF WriteBody, At
    <2>2. (Len(shown) + 2) \div 2 = read /\ (Len(shown) + 1) % 2 = 0
      BY <1>2, <2>1
    <2>3. ~WriteHeader
      BY <2>1 DEF WriteHeader, At
    <2>4. QED
      BY <1>1, <1>2, <1>3, <2>1, <2>2, <2>3
  <1>6. QED
    BY <1>4, <1>5

LEMMA WritingShows ==
  PagerInv /\ SuccessInv /\ ShownInv /\ (WriteHeader \/ WriteBody) => ShownInv'
  <1> SUFFICES ASSUME PagerInv, SuccessInv, ShownInv, WriteHeader \/ WriteBody PROVE ShownInv'
    OBVIOUS
  <1> DEFINE n == Len(shown) + 1
  <1>1. /\ UNCHANGED <<world, read, object, commit, kind, text>>
        /\ pc \in {"header", "body"} /\ pc' \in {"body", "next"}
    BY NextPart DEF message, WriteHeader, WriteBody, At, Goto
  <1>2. (\A c : Sealed(c)' = Sealed(c)) /\ Current' = Current
    BY <1>1, SameCipher DEF Current
  <1>3. Parsed'
    BY <1>1, <1>2 DEF ShownInv, Parsed
  <1>4. Opening'
    BY <1>1, <1>2 DEF ShownInv, Opening, Fits, TextOf
  <1>5. commit.author = Meant(Current.author) /\ Fits(kind, Current) /\ text = TextOf(kind, Current)
    BY <1>1, BodyIsMeant DEF ShownInv, Opening
  <1>6. MessagesAreShown'
    <2>1. SUFFICES ASSUME NEW i \in DOMAIN shown'
          PROVE  LET part == shown'[i]
                     c == world.commits[(i + 1) \div 2]
                 IN  /\ part.part = IF i % 2 = 1 THEN "header" ELSE "body"
                     /\ part.kind = "PLN" <=> Sealed(c) = None
                     /\ part.kind = "ERR" => ~Sealed(c).held \/ Sealed(c).locked
                     /\ part.part = "header" => part.author = Meant(c.author)
                     /\ part.part = "body" => part.text = TextOf(part.kind, c)
      BY <1>1, <1>2 DEF MessagesAreShown, TextOf
    <2>2. CASE i \in DOMAIN shown
      BY <2>2, NextPart DEF ShownInv, MessagesAreShown, TextOf
    <2>3. CASE i = n
      <3>1. n + 1 = Len(shown) + 2
        BY NextPart
      <3>2. world.commits[(n + 1) \div 2] = Current
        BY <3>1, NextPart DEF Current
      <3> HIDE DEF n
      <3>3. CASE WriteHeader
        <4>1. n % 2 = 1
              /\ shown'[n] = [part |-> "header", kind |-> kind, author |-> commit.author]
          BY <3>3, NextPart DEF n
        <4>2. QED
          BY <1>5, <2>3, <3>2, <4>1 DEF Fits
      <3>4. CASE WriteBody
        <4>1. n % 2 = 0 /\ shown'[n] = [part |-> "body", kind |-> kind, text |-> text]
          BY <3>4, NextPart DEF n
        <4>2. QED
          BY <1>5, <2>3, <3>2, <4>1 DEF Fits
      <3>5. QED
        BY <3>3, <3>4
    <2>4. QED
      BY <2>2, <2>3, NextPart
  <1>7. QED
    BY <1>3, <1>4, <1>6 DEF ShownInv

LEMMA InitShown == Init => ShownInv
  BY DEF Init, ShownInv, Parsed, Opening, MessagesAreShown

LEMMA ShownStep == PagerInv /\ SuccessInv /\ ShownInv /\ [Next]_vars => ShownInv'
  <1>1. ASSUME ShownInv, UNCHANGED vars PROVE ShownInv'
    <2>1. UNCHANGED <<world, pc, read, object, commit, kind, text, shown>>
      BY <1>1 DEF vars, pagerVars, message
    <2>2. (\A c : Sealed(c)' = Sealed(c)) /\ Current' = Current
      BY <2>1, SameCipher DEF Current
    <2>3. QED
      BY <1>1, <2>1, <2>2 DEF ShownInv, Parsed, Opening, Fits, TextOf, MessagesAreShown
  <1>2. QED
    BY <1>1, MessageKinds, OtherShows, ParsingShows, DecryptingShows, WritingShows DEF Decrypting

\* What git chat read writes is the history, in order, one header and one body
\* for each commit: plain messages as they are, the sealed ones opened, or the
\* excuse for those that stay closed, for any keyring and any passphrase.
THEOREM MessagesAreRight == Spec => []MessagesAreShown
  <1>1. ShownInv => MessagesAreShown
    BY DEF ShownInv
  <1>2. QED
    BY <1>1, InitPager, PagerStep, InitSuccess, SuccessStep, InitShown, ShownStep, PTL DEF Spec

\* A commit that is about to be decrypted is the one that git wrote, whatever
\* its headers, its parents and its time zone.
THEOREM CommitsAreMeant == Spec => []CommitsAreParsed
  <1>1. ShownInv => CommitsAreParsed
    BY DEF ShownInv, Parsed, Current, CommitsAreParsed
  <1>2. QED
    BY <1>1, InitPager, PagerStep, InitSuccess, SuccessStep, InitShown, ShownStep, PTL DEF Spec

-----------------------------------------------------------------------------
(* The keys that are held.                                                 *)

\* A reason that excuses goes on excusing.
LEMMA StillExcused ==
  ASSUME KeysInv, UNCHANGED <<world, passphrase>>
  PROVE  Answering' /\ (Excused => Excused')
  BY DEF KeysInv, Answering, Excused, passphrase

LEMMA OtherOpens == KeysInv /\ Other => KeysInv'
  <1> SUFFICES ASSUME KeysInv, Other PROVE KeysInv'
    OBVIOUS
  <1>1. /\ UNCHANGED <<world, read, kind, shown, passphrase>>
        /\ pc' = pc \/ pc' \notin {"header", "body"}
    BY OtherSteps DEF message, First, Early
  <1>2. (\A c : Sealed(c)' = Sealed(c)) /\ Current' = Current
    BY <1>1, SameCipher DEF Current
  <1>3. HeldKeysOpen'
    BY <1>1, <1>2 DEF KeysInv, HeldKeysOpen, passphrase
  <1>4. QED
    BY <1>1, <1>2, <1>3, StillExcused DEF KeysInv

LEMMA ParsingOpens == KeysInv /\ (NextCommit \/ Parse) => KeysInv'
  <1> SUFFICES ASSUME KeysInv, NextCommit \/ Parse PROVE KeysInv'
    OBVIOUS
  <1>1. UNCHANGED <<world, shown, passphrase>> /\ pc' \in {"parse", "decrypt"}
    BY DEF NextCommit, Parse, Goto
  <1>2. \A c : Sealed(c)' = Sealed(c)
    BY <1>1, SameCipher
  <1>3. HeldKeysOpen'
    BY <1>1, <1>2 DEF KeysInv, HeldKeysOpen, passphrase
  <1>4. QED
    BY <1>1, <1>3, StillExcused DEF KeysInv

\* An answer to gpg leaves a held key closed when it is wrong, when the
\* descriptor was read before, or when no file can be opened any more.
LEMMA AnswerOpens ==
  ASSUME PagerInv, KeysInv, AnswerPassphrase
  PROVE  /\ Answering' /\ (Excused => Excused')
         /\ world.right /\ kind' = "ERR" => Excused'
  <1>1. PICK answer \in Answers : AnswerIs(answer)
    BY DEF AnswerPassphrase
  <1>2. /\ world' = world /\ world.source \in {"pinentry", "fd", "file", "pass"}
        /\ FdLimit \in Nat
    BY HistoryAssumption DEF PagerInv, AnswerPassphrase
  <1>3. /\ opened \in 0..FdLimit /\ answers \in Seq({"line", "other", "nothing", "error"})
        /\ spent => Len(answers) > 0
    BY DEF KeysInv, Answering
  <1>4. /\ answer \in {"line", "other", "nothing", "error"}
        /\ world.source = "fd" => (answer = IF spent THEN "nothing" ELSE "line")
        /\ world.source = "file" =>
             (answer = IF opened < FdLimit THEN "line" ELSE "error")
        /\ world.source = "pass" => answer = "line"
    BY <1>2 DEF Answers
  <1>5. /\ answers' = Append(answers, answer)
        /\ answers' \in Seq({"line", "other", "nothing", "error"})
        /\ Len(answers') = Len(answers) + 1 /\ Len(answers) \in Nat
    BY <1>1, <1>3, <1>4 DEF AnswerIs
  <1>6. opened' = IF world.source = "file" /\ answer # "error" THEN opened + 1 ELSE opened
    BY <1>1 DEF AnswerIs
  <1>7. Answering'
    <2>1. opened' \in 0..FdLimit
      BY <1>2, <1>3, <1>4, <1>6
    <2>2. QED
      BY <1>5, <2>1 DEF Answering
  <1>8. Excused => Excused'
    <2>1. world.source = "file" /\ opened = FdLimit => opened' = FdLimit
      BY <1>2, <1>4, <1>6
    <2>2. QED
      BY <1>2, <1>5, <2>1 DEF Excused
  <1>9. ASSUME world.right, kind' = "ERR" PROVE Excused'
    <2>1. answer # "line"
      BY <1>1, <1>9 DEF AnswerIs, Shows
    <2>2. CASE world.source = "fd"
      <3>1. Len(answers) > 0
        BY <1>3, <1>4, <2>1, <2>2
      <3>2. QED
        BY <1>2, <1>5, <2>2, <3>1 DEF Excused
    <2>3. CASE world.source = "file"
      <3>1. opened' = FdLimit
        BY <1>2, <1>3, <1>4, <1>6, <2>1, <2>3
      <3>2. QED
        BY <1>2, <2>3, <3>1 DEF Excused
    <2>4. QED
      BY <1>2, <1>4, <2>1, <2>2, <2>3 DEF Excused
  <1>10. QED
    BY <1>7, <1>8, <1>9

LEMMA DecryptingOpens == PagerInv /\ ShownInv /\ KeysInv /\ Decrypting => KeysInv'
  <1> SUFFICES ASSUME PagerInv, ShownInv, KeysInv, Decrypting PROVE KeysInv'
    OBVIOUS
  <1>1. UNCHANGED <<world, read, shown>> /\ pc' \in {"ask", "header"}
    BY DecryptingIs
  <1>2. (\A c : Sealed(c)' = Sealed(c)) /\ Current' = Current
    BY <1>1, SameCipher DEF Current
  <1>3. Answering' /\ (Excused => Excused')
    <2>1. CASE AnswerPassphrase
      BY <2>1, AnswerOpens
    <2>2. CASE ~AnswerPassphrase
      <3>1. UNCHANGED <<world, passphrase>>
        BY <1>1, <2>2 DEF Decrypting, IsPlain, KeyMissing, Decrypt, Ask
      <3>2. QED
        BY <3>1, StillExcused
    <2>3. QED
      BY <2>1, <2>2
  <1>4. ASSUME pc' = "header", kind' = "ERR", Sealed(Current).held, world.right
        PROVE  Excused'
    <2>1. AnswerPassphrase
      BY <1>4, DecryptingIs
    <2>2. QED
      BY <1>4, <2>1, AnswerOpens
  <1>5. HeldKeysOpen'
    BY <1>1, <1>2, <1>3 DEF KeysInv, HeldKeysOpen, Excused
  <1>6. QED
    BY <1>1, <1>2, <1>3, <1>4, <1>5 DEF KeysInv

LEMMA WritingOpens ==
  PagerInv /\ SuccessInv /\ KeysInv /\ (WriteHeader \/ WriteBody) => KeysInv'
  <1> SUFFICES ASSUME PagerInv, SuccessInv, KeysInv, WriteHeader \/ WriteBody PROVE KeysInv'
    OBVIOUS
  <1> DEFINE n == Len(shown) + 1
  <1>1. /\ UNCHANGED <<world, read, kind, passphrase>>
        /\ pc \in {"header", "body"} /\ pc' \in {"body", "next"}
    BY NextPart DEF message, WriteHeader, WriteBody, At, Goto
  <1>2. (\A c : Sealed(c)' = Sealed(c)) /\ Current' = Current
    BY <1>1, SameCipher DEF Current
  <1>3. /\ DOMAIN shown' = DOMAIN shown \cup {n} /\ shown'[n].kind = kind
        /\ \A i \in DOMAIN shown : shown'[i] = shown[i]
        /\ world.commits[(n + 1) \div 2] = Current
    <2>1. n + 1 = Len(shown) + 2
      BY NextPart
    <2>2. QED
      BY <2>1, NextPart DEF Current
  <1> HIDE DEF n
  <1>4. HeldKeysOpen'
    <2>1. ASSUME NEW i \in DOMAIN shown', shown'[i].kind = "ERR",
                 Sealed(world.commits[(i + 1) \div 2]).held, world.right
          PROVE  Excused
      <3>1. CASE i \in DOMAIN shown
        BY <1>3, <2>1, <3>1 DEF KeysInv, HeldKeysOpen, Excused
      <3>2. CASE i = n
        BY <1>1, <1>3, <2>1, <3>2 DEF KeysInv
      <3>3. QED
        BY <1>3, <3>1, <3>2
    <2>2. QED
      BY <1>1, <1>2, <2>1 DEF HeldKeysOpen, Excused, passphrase
  <1>5. QED
    BY <1>1, <1>2, <1>4, StillExcused DEF KeysInv

LEMMA InitKeys == Init => KeysInv
  BY HistoryAssumption DEF Init, KeysInv, Answering, HeldKeysOpen

LEMMA KeysStep == PagerInv /\ SuccessInv /\ ShownInv /\ KeysInv /\ [Next]_vars => KeysInv'
  <1>1. ASSUME KeysInv, UNCHANGED vars PROVE KeysInv'
    <2>1. UNCHANGED <<world, pc, read, kind, shown, passphrase>>
      BY <1>1 DEF vars, pagerVars, message
    <2>2. (\A c : Sealed(c)' = Sealed(c)) /\ Current' = Current
      BY <2>1, SameCipher DEF Current
    <2>3. HeldKeysOpen'
      BY <1>1, <2>1, <2>2 DEF KeysInv, HeldKeysOpen, passphrase
    <2>4. QED
      BY <1>1, <2>1, <2>2, <2>3, StillExcused DEF KeysInv
  <1>2. QED
    BY <1>1, MessageKinds, OtherOpens, ParsingOpens, DecryptingOpens, WritingOpens DEF Decrypting

\* With the right passphrase every message whose key is held is opened, until
\* the open files run out, and until gpg asks for the descriptor once more.
THEOREM HeldKeysAreOpened == Spec => []HeldKeysOpen
  <1>1. KeysInv => HeldKeysOpen
    BY DEF KeysInv
  <1>2. QED
    BY <1>1, InitPager, PagerStep, InitSuccess, SuccessStep, InitShown, ShownStep, InitKeys,
       KeysStep, PTL DEF Spec

-----------------------------------------------------------------------------
(* The choice of the pager.                                                *)

\* The pager that was chosen is the one that is started, and only the want of
\* one ends the command before.
Choosing ==
  /\ pc = "locate" => program = GetPager /\ program # Null
  /\ pc = "merge" \/ Begun =>
       GetPager # Null /\ program = Located(GetPager) /\ program # Null
  /\ pc \notin First /\ world.tty => Begun
  /\ world.home /\ world.tty /\ ~Begun /\ end = "failure" =>
       GetPager = Null \/ Located(GetPager) = Null

\* less, more and cat are looked for in PATH, in this order.
LEMMA FallbackIs ==
  ASSUME world \in Worlds
  PROVE  /\ Fallback # Null => \E name \in world.onPath : Fallback = File("PATH", name)
         /\ Fallback = Null => world.onPath \cap {"less", "more", "cat"} = {}
  <1> DEFINE names == <<"less", "more", "cat">>
             I == {i \in 1..Len(names) : names[i] \in world.onPath}
  <1>1. Len(names) = 3 /\ names[1] = "less" /\ names[2] = "more" /\ names[3] = "cat"
    OBVIOUS
  <1>2. I \subseteq 1..3 /\ I \subseteq Nat
    BY <1>1
  <1>3. Fallback = LET found == IF I # {} THEN Min(I) ELSE 0
                   IN  IF found = 0 THEN Null ELSE FindInPath(names[found])
    BY DEF Fallback, SelectInSeq
  <1>4. \A name \in world.onPath : File("PATH", name) # Null
    BY HistoryAssumption
  <1>5. CASE I = {}
    <2>1. Fallback = Null
      BY <1>3, <1>5
    <2>2. names[1] \notin world.onPath /\ names[2] \notin world.onPath
          /\ names[3] \notin world.onPath
      BY <1>1, <1>5
    <2>3. QED
      BY <1>1, <2>1, <2>2
  <1>6. CASE I # {}
    <2> HIDE DEF I
    <2>1. Min(I) \in I
      BY <1>2, <1>6, MinLeast
    <2>2. Min(I) # 0 /\ names[Min(I)] \in world.onPath
      BY <1>2, <2>1 DEF I
    <2>3. Fallback = File("PATH", names[Min(I)])
      BY <1>3, <1>6, <2>2 DEF FindInPath
    <2>4. QED
      BY <1>4, <2>2, <2>3
  <1>7. QED
    BY <1>5, <1>6

\* What was chosen and located is a file, or else there was none to be had.
LEMMA ChosenPager ==
  ASSUME world \in Worlds
  PROVE  /\ GetPager # Null /\ Located(GetPager) # Null =>
              LET file == Located(GetPager)
              IN  /\ file \in world.files \/ (file.dir = "PATH" /\ file.name \in world.onPath)
                  /\ world.pagerVar \in world.files => file.name = world.pagerVar.name
         /\ GetPager = Null \/ Located(GetPager) = Null =>
              \/ world.onPath \cap {"less", "more", "cat"} = {}
              \/ /\ world.pagerVar \in world.files
                 /\ world.pagerVar.dir = "" /\ world.pagerVar.name \notin world.onPath
  <1>1. Null \notin world.files /\ \A name \in world.onPath : File("PATH", name) # Null
    BY HistoryAssumption
  <1>2. CASE world.pagerVar \in world.files
    <2>1. GetPager = world.pagerVar /\ GetPager # Null
      BY <1>1, <1>2 DEF GetPager, IsExecutable
    <2>2. CASE world.pagerVar.dir = ""
      <3>1. Located(GetPager) = FindInPath(world.pagerVar.name)
        BY <2>1, <2>2 DEF Located
      <3>2. CASE world.pagerVar.name \in world.onPath
        <4>1. Located(GetPager) = File("PATH", world.pagerVar.name)
          BY <3>1, <3>2 DEF FindInPath
        <4>2. Located(GetPager) # Null
          BY <1>1, <3>2, <4>1
        <4>3. /\ Located(GetPager).dir = "PATH"
              /\ Located(GetPager).name = world.pagerVar.name
          BY <4>1 DEF File
        <4>4. QED
          BY <2>1, <3>2, <4>2, <4>3
      <3>3. CASE world.pagerVar.name \notin world.onPath
        BY <1>2, <2>1, <2>2, <3>1, <3>3 DEF FindInPath
      <3>4. QED
        BY <3>2, <3>3
    <2>3. CASE world.pagerVar.dir # ""
      BY <1>2, <2>1, <2>3 DEF Located
    <2>4. QED
      BY <2>2, <2>3
  <1>3. CASE world.pagerVar \notin world.files
    <2>1. GetPager = Fallback
      BY <1>3 DEF GetPager, IsExecutable
    <2>2. CASE Fallback = Null
      BY <2>1, <2>2, FallbackIs
    <2>3. CASE Fallback # Null
      <3>1. PICK name \in world.onPath : Fallback = File("PATH", name)
        BY <2>3, FallbackIs
      <3>2. Located(GetPager) = GetPager
        BY <2>1, <3>1 DEF Located, File
      <3>3. QED
        <4>1. Located(GetPager).dir = "PATH" /\ Located(GetPager).name \in world.onPath
          BY <2>1, <3>1, <3>2 DEF File
        <4>2. GetPager # Null /\ Located(GetPager) # Null
          BY <2>1, <2>3, <3>2
        <4>3. QED
          BY <1>3, <4>1, <4>2
    <2>4. QED
      BY <2>2, <2>3
  <1>4. QED
    BY <1>2, <1>3

\* The choice does not change.
LEMMA SameChoice ==
  UNCHANGED world => GetPager' = GetPager /\ \A file : Located(file)' = Located(file)
  BY DEF GetPager, Located, Fallback, FindInPath, IsExecutable, SelectInSeq

\* Steps that leave the choice and the pager as they are.
LEMMA StillChosen ==
  ASSUME Choosing, UNCHANGED <<world, program>>,
         pager' = pager \/ (Begun /\ Begun'),
         pc' # pc => /\ pc' \notin {"locate", "merge"}
                     /\ pc' \notin First => pc \notin First \/ Begun \/ ~world.tty,
         end' = "failure" /\ end # "failure" /\ world.tty => Begun
  PROVE  Choosing'
  <1>1. GetPager' = GetPager /\ Located(GetPager)' = Located(GetPager)
    BY SameChoice
  <1>2. Begun' <=> Begun
    BY DEF Begun
  <1>3. QED
    BY <1>1, <1>2 DEF Choosing, First, Early

LEMMA GoingChooses == PagerInv /\ Choosing /\ Going => Choosing'
  <1> SUFFICES ASSUME PagerInv, Choosing, Going PROVE Choosing'
    OBVIOUS
  <1>1. UNCHANGED <<world, child, process>> /\ end = "none"
    BY GoingStep DEF Going, InitContext, NextCommit, Parse, IsPlain, KeyMissing, Decrypt, Ask,
                     AnswerPassphrase, WriteHeader, WriteBody, NoPager, ChoosePager, LocatePager,
                     MergeEnv, At, Running
  <1>2. UNCHANGED <<pager, end>> /\ (Begun' <=> Begun)
    BY <1>1 DEF child, process, Begun
  <1>3. CASE ChoosePager \/ LocatePager
    <2>1. ~Begun
      BY <1>3 DEF ChoosePager, LocatePager, PagerInv, Collecting, Begun, Early
    <2>2. CASE ChoosePager
      BY <1>1, <1>2, <2>1, <2>2, SameChoice DEF ChoosePager, Goto, Choosing, First, Early
    <2>3. CASE LocatePager
      <3>1. /\ program = GetPager /\ program # Null /\ pc' = "merge"
            /\ program' = Located(program) /\ program' # Null
        BY <2>3 DEF LocatePager, Goto, Choosing
      <3>2. QED
        BY <1>1, <1>2, <2>1, <3>1, SameChoice DEF Choosing, First, Early
    <2>4. QED
      BY <1>3, <2>2, <2>3
  <1>4. CASE ~(ChoosePager \/ LocatePager)
    <2>1. /\ program' = program
          /\ pc' # pc => /\ pc' \notin {"locate", "merge"}
                         /\ pc' \notin First => pc \notin First \/ ~world.tty
      <3> USE DEF At, Goto, Shows, setup, First, Early
      <3>1. CASE InitContext \/ NextCommit \/ Parse \/ WriteHeader \/ WriteBody
        BY <3>1 DEF InitContext, NextCommit, Parse, WriteHeader, WriteBody
      <3>2. CASE IsPlain \/ KeyMissing \/ Decrypt \/ Ask
        BY <3>2 DEF IsPlain, KeyMissing, Decrypt, Ask
      <3>3. CASE AnswerPassphrase
        BY <3>3 DEF AnswerPassphrase, AnswerIs
      <3>4. CASE NoPager \/ MergeEnv
        BY <3>4 DEF NoPager, MergeEnv
      <3>5. QED
        BY <1>4, <3>1, <3>2, <3>3, <3>4 DEF Going
    <2>2. QED
      BY <1>1, <1>2, <2>1, StillChosen
  <1>5. QED
    BY <1>3, <1>4

\* git-chat begins its pager, or goes on with none when stdout is no terminal.
LEMMA BeginningChooses == PagerInv /\ Choosing /\ Beginning => Choosing'
  <1> SUFFICES ASSUME PagerInv, Choosing, Beginning PROVE Choosing'
    OBVIOUS
  <1>1. UNCHANGED <<world, program, end>> /\ end = "none"
    BY DEF Beginning, ForkPager, RegisterSignal, RegisterExit, Running, process, setup
  <1>2. CASE ForkPager
    <2>1. pc = "merge" /\ pc' = "register" /\ pager' = "forked"
      BY <1>2 DEF ForkPager, Goto
    <2>2. QED
      BY <1>1, <2>1, SameChoice DEF Choosing, Begun, First, Early
  <1>3. CASE RegisterSignal \/ RegisterExit
    <2>1. UNCHANGED pager /\ pc \in {"register", "atexit"} /\ pc' \in {"register", "atexit", "next"}
      BY <1>3 DEF RegisterSignal, RegisterExit, Goto, child
    <2>2. Begun
      BY <2>1 DEF PagerInv, Collecting, Begun
    <2>3. QED
      BY <1>1, <2>1, <2>2, StillChosen DEF First, Early
  <1>4. QED
    BY <1>2, <1>3 DEF Beginning

\* What ends the command before its pager has begun.
LEMMA LeavingChooses == PagerInv /\ Choosing /\ Leaving => Choosing'
  <1> SUFFICES ASSUME PagerInv, Choosing, Leaving PROVE Choosing'
    OBVIOUS
  <1>1. UNCHANGED <<world, pc, program, pager>>
    BY DEF Leaving, NoContext, Malformed, AllRead, PagerNotFound, rest, child, setup
  <1>2. CASE NoContext
    <2>1. ~world.home
      BY <1>2 DEF NoContext
    <2>2. QED
      BY <1>1, <2>1, SameChoice DEF Choosing, Begun
  <1>3. CASE Malformed \/ AllRead
    <2>1. pc \notin First
      BY <1>3 DEF Malformed, AllRead, At, First, Early
    <2>2. world.tty => Begun
      BY <2>1 DEF Choosing
    <2>3. QED
      BY <1>1, <2>2, StillChosen
  <1>4. CASE PagerNotFound
    <2>1. GetPager = Null \/ Located(GetPager) = Null
      BY <1>4 DEF PagerNotFound, Choosing
    <2>2. QED
      BY <1>1, <2>1, SameChoice DEF Choosing, Begun
  <1>5. QED
    BY <1>2, <1>3, <1>4 DEF Leaving

LEMMA StoppingChooses == PagerInv /\ Choosing /\ Stopping => Choosing'
  <1> SUFFICES ASSUME PagerInv, Choosing, Stopping PROVE Choosing'
    OBVIOUS
  <1>1. UNCHANGED <<world, pc, program, pager>> /\ stack # << >>
    BY DEF Stopping, StopPager, StopWaits, StopFindsNoPid, StopFindsReport, StopFinishes,
           StopExits, StopRaises, StopReturns, AtStep, setup, child
  <1>2. Begun
    BY <1>1 DEF PagerInv, NotStarted, Begun
  <1>3. QED
    BY <1>1, <1>2, StillChosen

\* A signal kills, and never fails.
LEMMA TheOthersChoose ==
  Choosing /\ (ThePager \/ SignalArrives \/ WriteBreaks) => Choosing'
  <1> SUFFICES ASSUME Choosing, ThePager \/ SignalArrives \/ WriteBreaks PROVE Choosing'
    OBVIOUS
  <1>1. CASE ThePager
    <2>1. /\ UNCHANGED <<world, pc, program, end>>
          /\ pager # "none" /\ pager' # "none"
      BY <1>1 DEF ThePager, PagerBegins, PagerIsLeft, PagerRuns, PagerFails, PagerEnds, process,
                  setup
    <2>2. Begun /\ Begun'
      BY <2>1 DEF Begun
    <2>3. QED
      BY <2>1, <2>2, StillChosen
  <1>2. CASE SignalArrives \/ WriteBreaks
    <2>1. UNCHANGED <<world, pc, program, pager>> /\ end' \in {end, "killed"}
      BY <1>2 DEF SignalArrives, Signal, WriteBreaks, Signalled, rest, setup, child
    <2>2. QED
      BY <2>1, StillChosen
  <1>3. QED
    BY <1>1, <1>2

LEMMA InitChosen == Init => Choosing
  BY DEF Init, Choosing, Begun, First, Early

LEMMA ChosenStep == PagerInv /\ Choosing /\ [Next]_vars => Choosing'
  <1>1. Choosing /\ UNCHANGED vars => Choosing'
    BY StillChosen DEF vars, pagerVars, setup, child, process
  <1>2. QED
    BY <1>1, Kinds, GoingChooses, BeginningChooses, LeavingChooses, StoppingChooses,
       TheOthersChoose

\* A pager that is started can be executed, and is the one that was asked for
\* when that one can; a command with a terminal fails for the want of a pager
\* only when PATH has none, or not the one that was asked for.
THEOREM PagerIsThere == Spec => []PagerIsFound
  <1>1. PagerInv /\ Choosing => PagerIsFound
    <2> SUFFICES ASSUME PagerInv, Choosing PROVE PagerIsFound
      OBVIOUS
    <2>1. world \in Worlds
      BY DEF PagerInv
    <2>2. Begun => GetPager # Null /\ Located(GetPager) # Null /\ program = Located(GetPager)
      BY DEF Choosing
    <2>3. QED
      BY <2>1, <2>2, ChosenPager DEF PagerIsFound, Choosing
  <1>2. QED
    BY <1>1, InitPager, PagerStep, InitChosen, ChosenStep, PTL DEF Spec

-----------------------------------------------------------------------------
(* The environment of the pager.                                           *)

\* While merge_env runs its invariant holds, and what it hands over is whole.
Merging ==
  /\ pc = "merge" => MergeInv(merge, world.environ)
  /\ pc # "merge" => merge = Null
  /\ Begun => WellMerged(given, world.environ)

\* The environment of a world is one.
LEMMA WorldHasEnvironment ==
  ASSUME world \in Worlds
  PROVE  IsEnvironment(world.environ)
  BY EnvironmentAssumption DEF IsEnvironment, Strings

\* Steps that do not build an environment.
LEMMA StillMerged ==
  ASSUME Merging, UNCHANGED <<world, merge, given>>, pc' = pc \/ {pc, pc'} \cap {"merge"} = {},
         Begun' => Begun
  PROVE  Merging'
  BY DEF Merging

\* merge_env starts, or takes one more step.
LEMMA GoingMerges == PagerInv /\ Merging /\ Going => Merging'
  <1> SUFFICES ASSUME PagerInv, Merging, Going PROVE Merging'
    OBVIOUS
  <1>1. UNCHANGED world /\ (Begun' <=> Begun) /\ IsEnvironment(world.environ)
    BY GoingStep, WorldHasEnvironment DEF child, Begun, PagerInv
  <1>2. CASE LocatePager
    <2>1. /\ pc' = "merge" /\ merge' = MergeStarts(world.environ, PagerVariables)
          /\ UNCHANGED given
      BY <1>2 DEF LocatePager, Goto
    <2>2. MergeInv(merge', world.environ)
      BY <1>1, <2>1, MergeStartsWell
    <2>3. QED
      BY <1>1, <2>1, <2>2 DEF Merging
  <1>3. CASE MergeEnv
    <2>1. pc = "merge" /\ pc' = "merge" /\ UNCHANGED given /\ MergeInv(merge, world.environ)
      BY <1>3 DEF MergeEnv, Merging
    <2>2. \/ Copying(merge) /\ merge' = CopyString(merge)
          \/ Copied(merge) /\ merge' = SortBoth(merge)
          \/ Walking(merge) /\ merge' = MergeStep(merge)
          \/ Adding(merge) /\ merge' = AddString(merge)
      BY <1>3 DEF MergeEnv
    <2>3. MergeInv(merge', world.environ)
      BY <1>1, <2>1, <2>2, CopyKeeps, SortKeeps, WalkKeeps, AddKeeps
    <2>4. QED
      BY <1>1, <2>1, <2>3 DEF Merging
  <1>4. CASE ~(LocatePager \/ MergeEnv)
    <2>1. UNCHANGED <<merge, given>> /\ {pc, pc'} \cap {"merge"} = {}
      <3> USE DEF At, Goto, Shows, setup
      <3>1. CASE InitContext \/ NextCommit \/ Parse \/ WriteHeader \/ WriteBody
        BY <3>1 DEF InitContext, NextCommit, Parse, WriteHeader, WriteBody
      <3>2. CASE IsPlain \/ KeyMissing \/ Decrypt \/ Ask
        BY <3>2 DEF IsPlain, KeyMissing, Decrypt, Ask
      <3>3. CASE AnswerPassphrase
        BY <3>3 DEF AnswerPassphrase, AnswerIs
      <3>4. CASE NoPager \/ ChoosePager
        BY <3>4 DEF NoPager, ChoosePager
      <3>5. QED
        BY <1>4, <3>1, <3>2, <3>3, <3>4 DEF Going
    <2>2. QED
      BY <1>1, <2>1, StillMerged
  <1>5. QED
    BY <1>2, <1>3, <1>4

\* The child gets what merge_env returned.
LEMMA BeginningMerges == PagerInv /\ Merging /\ Beginning => Merging'
  <1> SUFFICES ASSUME PagerInv, Merging, Beginning PROVE Merging'
    OBVIOUS
  <1>1. UNCHANGED world /\ IsEnvironment(world.environ)
    BY WorldHasEnvironment
       DEF PagerInv, Beginning, ForkPager, RegisterSignal, RegisterExit
  <1>2. CASE ForkPager
    <2>1. /\ pc = "merge" /\ pc' = "register" /\ merge' = Null /\ Merged(merge)
          /\ given' = Detached(merge.result)
      BY <1>2 DEF ForkPager, Goto
    <2>2. WellMerged(given', world.environ)
      BY <1>1, <2>1, MergeEnds DEF Merging
    <2>3. QED
      BY <1>1, <2>1, <2>2 DEF Merging
  <1>3. CASE RegisterSignal \/ RegisterExit
    <2>1. /\ UNCHANGED <<merge, given, pager>>
          /\ pc \in {"register", "atexit"} /\ pc' \in {"register", "atexit", "next"}
      BY <1>3 DEF RegisterSignal, RegisterExit, Goto, setup, child
    <2>2. QED
      BY <1>1, <2>1, StillMerged DEF Begun
  <1>4. QED
    BY <1>2, <1>3 DEF Beginning

\* Nothing else builds an environment.
LEMMA TheOthersMerge ==
  ASSUME Merging, Leaving \/ Stopping \/ ThePager \/ SignalArrives \/ WriteBreaks
  PROVE  Merging'
  <1>1. UNCHANGED <<world, pc, merge, given>> /\ (Begun' => Begun)
    <2> USE DEF setup, child, Begun, rest
    <2>1. CASE Leaving
      BY <2>1 DEF Leaving, NoContext, Malformed, AllRead, PagerNotFound
    <2>2. CASE Stopping
      BY <2>2 DEF Stopping, StopPager, StopWaits, StopFindsNoPid, StopFindsReport, StopFinishes,
                  StopExits, StopRaises, StopReturns
    <2>3. CASE ThePager
      BY <2>3 DEF ThePager, PagerBegins, PagerIsLeft, PagerRuns, PagerFails, PagerEnds
    <2>4. CASE SignalArrives \/ WriteBreaks
      BY <2>4 DEF SignalArrives, Signal, WriteBreaks
    <2>5. QED
      BY <2>1, <2>2, <2>3, <2>4
  <1>2. QED
    BY <1>1, StillMerged

LEMMA InitMerged == Init => Merging
  BY DEF Init, Merging, Begun

LEMMA MergingStep == PagerInv /\ Merging /\ [Next]_vars => Merging'
  <1>1. Merging /\ UNCHANGED vars => Merging'
    BY StillMerged DEF vars, pagerVars, setup, child, Begun
  <1>2. QED
    BY <1>1, Kinds, GoingMerges, BeginningMerges, TheOthersMerge

\* The pager's environment is whole: terminated, without a cell that was never
\* written, with every variable of git-chat's own as it was, and the three of
\* the pager in place of the user's, each of them once.
THEOREM EnvironmentIsWhole == Spec => []EnvironmentIsMerged
  <1>1. Merging => EnvironmentIsMerged
    BY Zenon DEF Merging, WellMerged, EnvironmentIsMerged, Ours
  <1>2. QED
    BY <1>1, InitPager, PagerStep, InitMerged, MergingStep, PTL DEF Spec

-----------------------------------------------------------------------------
(* Types.                                                                  *)

\* What the other invariants leave open.
Typed ==
  /\ pager \in {"none", "forked", "running", "ended"}
  /\ {collected, pid, armed, exiting, spent, remembered} \subseteq BOOLEAN
  /\ registered \in 0..5
  /\ handled \subseteq Signals /\ pending \subseteq Signals
  /\ end \in Ends
  /\ sent <= MaxSignals
  /\ read <= Len(world.commits)

\* The call on top of the stack, and its parameters.
LEMMA TopIsCall ==
  ASSUME PagerInv, stack # << >>
  PROVE  Top \in Calls /\ Top.signal \in Signals \cup {Null} /\ Top.status \in Ends
  <1>1. stack \in Seq(Calls)
    BY DEF PagerInv, CallsWait
  <1>2. Top \in Calls
    BY <1>1 DEF Top
  <1>3. QED
    BY <1>2 DEF Calls

\* A signal arrives: it kills, waits or is handled.
LEMMA SignalledTyped ==
  ASSUME Typed, NEW sig \in Signals, Signalled(sig),
         UNCHANGED <<pager, collected, pid, armed, spent, remembered, registered, handled, read,
                     world>>,
         sent' <= MaxSignals
  PROVE  Typed'
  <1>1. pending' \subseteq Signals /\ end' \in Ends /\ UNCHANGED exiting
    BY DEF Signalled, Typed, Ends
  <1>2. QED
    BY <1>1 DEF Typed, Signals

\* An exit runs the handler, or ends the process.
LEMMA ExitsTyped ==
  ASSUME Typed, NEW s \in Ends, Exits(s),
         UNCHANGED <<pager, collected, pid, armed, spent, remembered, registered, handled, pending,
                     sent, read, world>>
  PROVE  Typed'
  <1>1. end' \in Ends /\ exiting' \in BOOLEAN
    BY DEF Exits, Typed
  <1>2. QED
    BY <1>1 DEF Typed, Signals

\* The types, action by action.
LEMMA GoingTyped == SuccessInv /\ Typed /\ Going => Typed'
  <1> SUFFICES ASSUME SuccessInv, Typed, Going PROVE Typed'
    OBVIOUS
  <1>1. UNCHANGED <<world, pager, collected, pid, armed, exiting, registered, handled, pending, end,
                    sent>>
    BY GoingStep DEF child, process
  <1>2. {spent', remembered'} \subseteq BOOLEAN /\ read' <= Len(world.commits)
    <2> USE DEF message, passphrase, Still, Typed
    <2>1. CASE NextCommit
      <3>1. read \in Nat /\ Len(world.commits) \in Nat
        BY HistoryAssumption DEF SuccessInv, Counting, CallsWait
      <3>2. QED
        BY <2>1, <3>1 DEF NextCommit
    <2>2. CASE AnswerPassphrase
      BY <2>2 DEF AnswerPassphrase, AnswerIs
    <2>3. CASE InitContext \/ Parse \/ WriteHeader \/ WriteBody
      BY <2>3 DEF InitContext, Parse, WriteHeader, WriteBody
    <2>4. CASE IsPlain \/ KeyMissing \/ Decrypt \/ Ask
      BY <2>4 DEF IsPlain, KeyMissing, Decrypt, Ask
    <2>5. CASE (NoPager \/ ChoosePager \/ LocatePager \/ MergeEnv) /\ Still
      BY <2>5
    <2>6. QED
      BY <2>1, <2>2, <2>3, <2>4, <2>5 DEF Going
  <1>3. QED
    BY <1>1, <1>2 DEF Typed, Signals

LEMMA BeginningTyped == PagerInv /\ Typed /\ Beginning => Typed'
  <1> SUFFICES ASSUME PagerInv, Typed, Beginning PROVE Typed'
    OBVIOUS
  <1>1. UNCHANGED <<world, collected, pending, end, sent, exiting, read, spent, remembered>>
    BY DEF Beginning, ForkPager, RegisterSignal, RegisterExit, Still, message, passphrase, child,
           process
  <1>2. CASE ForkPager
    BY <1>1, <1>2 DEF ForkPager, process, Typed, Signals
  <1>3. CASE RegisterSignal
    <2>1. registered \in 0..4
      BY <1>3 DEF RegisterSignal, Running, PagerInv, Covered
    <2>2. PagerSignals[registered + 1] \in Signals
      <3>1. registered + 1 \in 1..5
        BY <2>1
      <3>2. DOMAIN PagerSignals = 1..5
        BY DEF PagerSignals
      <3>3. QED
        BY <3>1, <3>2 DEF Signals, ToSet
    <2>3. registered' \in 0..5 /\ handled' \subseteq Signals
      BY <1>3, <2>1, <2>2 DEF RegisterSignal, Typed
    <2>4. UNCHANGED <<pager, pid, armed>>
      BY <1>3 DEF RegisterSignal, child
    <2>5. QED
      BY <1>1, <2>3, <2>4 DEF Typed, Signals
  <1>4. CASE RegisterExit
    BY <1>1, <1>4 DEF RegisterExit, child, Typed, Signals
  <1>5. QED
    BY <1>2, <1>3, <1>4 DEF Beginning

LEMMA LeavingTyped == Typed /\ Leaving => Typed'
  <1> SUFFICES ASSUME Typed, Leaving PROVE Typed'
    OBVIOUS
  <1>1. /\ UNCHANGED <<pager, collected, pid, armed, spent, remembered, registered, handled, pending,
                       sent, read, world>>
        /\ Exits("failure") \/ Exits("success")
    BY DEF Leaving, NoContext, Malformed, AllRead, PagerNotFound, rest, Still, message, passphrase,
           child
  <1>2. QED
    BY <1>1, ExitsTyped DEF Ends

LEMMA StoppingTyped == PagerInv /\ SuccessInv /\ Typed /\ Stopping => Typed'
  <1> SUFFICES ASSUME PagerInv, SuccessInv, Typed, Stopping PROVE Typed'
    OBVIOUS
  <1>1. UNCHANGED <<world, pager, armed, registered, sent, spent, remembered, read>>
        /\ stack # << >>
    BY DEF Stopping, StopPager, StopWaits, StopFindsNoPid, StopFindsReport, StopFinishes,
           StopExits, StopRaises, StopReturns, AtStep, Still, message, passphrase, child
  <1>2. Top.signal \in Signals \cup {Null} /\ Top.status \in Ends
    BY <1>1, TopIsCall
  <1>3. CASE StopFindsNoPid \/ StopFindsReport
    <2>1. Exits("failure") /\ UNCHANGED <<collected, pid, handled, pending>>
      BY <1>3 DEF StopFindsNoPid, StopFindsReport, child
    <2>2. QED
      BY <1>1, <2>1, ExitsTyped DEF Ends
  <1>4. CASE StopWaits \/ StopFinishes
    BY <1>1, <1>4 DEF StopWaits, StopFinishes, Typed, Signals
  <1>5. CASE StopExits \/ StopReturns
    BY <1>1, <1>2, <1>5 DEF StopExits, StopReturns, child, Typed, Signals, Ends
  <1>6. CASE StopRaises
    BY <1>1, <1>2, <1>6 DEF StopRaises, child, Typed, Signals
  <1>7. QED
    BY <1>3, <1>4, <1>5, <1>6 DEF Stopping, StopPager

LEMMA TheOthersTyped ==
  ASSUME PagerInv, SuccessInv, Typed, ThePager \/ SignalArrives \/ WriteBreaks
  PROVE  Typed'
  <1>1. CASE ThePager
    BY <1>1 DEF ThePager, PagerBegins, PagerIsLeft, PagerRuns, PagerFails, PagerEnds, Still,
                message, passphrase, process, Typed, Signals
  <1>2. CASE SignalArrives
    <2>1. PICK sig \in world.signals : Signalled(sig)
      BY <1>2 DEF SignalArrives, Signal
    <2>2. sig \in Signals
      BY SignalList, WorldsAssumption DEF PagerInv
    <2>3. sent \in Nat /\ sent < MaxSignals /\ sent' = sent + 1 /\ MaxSignals \in Nat
      BY <1>2, EnvironmentAssumption DEF SignalArrives, Signal, SuccessInv, Undisturbed
    <2>4. /\ UNCHANGED <<pager, collected, pid, armed, spent, remembered, registered, handled, read,
                         world>>
          /\ sent' <= MaxSignals
      BY <1>2, <2>3 DEF SignalArrives, Signal, Still, message, passphrase, child
    <2>5. QED
      BY <2>1, <2>2, <2>4, SignalledTyped
  <1>3. CASE WriteBreaks
    <2>1. /\ UNCHANGED <<pager, collected, pid, armed, spent, remembered, registered, handled, read,
                         world, sent>>
          /\ Signalled("PIPE") /\ "PIPE" \in Signals
      BY <1>3, SignalList DEF WriteBreaks, rest, message, passphrase, child
    <2>2. QED
      BY <2>1, SignalledTyped DEF Typed
  <1>4. QED
    BY <1>1, <1>2, <1>3

LEMMA InitTyped == Init => Typed
  <1> SUFFICES ASSUME Init PROVE Typed
    OBVIOUS
  <1>1. MaxSignals \in Nat /\ Len(world.commits) \in Nat
    BY EnvironmentAssumption, HistoryAssumption DEF Init, IsList
  <1>2. /\ pager = "none" /\ end = "none" /\ registered = 0 /\ sent = 0 /\ read = 0
        /\ handled = {} /\ pending = {}
        /\ collected = FALSE /\ pid = FALSE /\ armed = FALSE /\ exiting = FALSE /\ spent = FALSE
        /\ remembered = FALSE
    BY DEF Init
  <1>3. {collected, pid, armed, exiting, spent, remembered} \subseteq BOOLEAN
    BY <1>2
  <1>4. registered \in 0..5 /\ sent <= MaxSignals /\ read <= Len(world.commits)
    BY <1>1, <1>2
  <1>5. handled \subseteq Signals /\ pending \subseteq Signals
    BY <1>2
  <1>6. pager \in {"none", "forked", "running", "ended"} /\ end \in Ends
    BY <1>2 DEF Ends
  <1>7. QED
    BY <1>3, <1>4, <1>5, <1>6 DEF Typed

LEMMA TypedStep == PagerInv /\ SuccessInv /\ Typed /\ [Next]_vars => Typed'
  <1>1. Typed /\ UNCHANGED vars => Typed'
    BY DEF vars, pagerVars, setup, child, process, message, passphrase, Typed, Signals
  <1>2. QED
    BY <1>1, Kinds, GoingTyped, BeginningTyped, LeavingTyped, StoppingTyped, TheOthersTyped

\* The types, of which the two arrays of the environment are the ones that the
\* code could get wrong: neither is ever written past its cells.
THEOREM TypesHold == Spec => []TypeOK
  <1>1. PagerInv /\ SuccessInv /\ KeysInv /\ Merging /\ Typed => TypeOK
    <2> SUFFICES ASSUME PagerInv, SuccessInv, KeysInv, Merging, Typed PROVE TypeOK
      OBVIOUS
    <2>1. merge # Null => Holds(merge.current) /\ Holds(merge.result)
      BY DEF Merging, MergeInv
    <2>2. stack \in Seq(Calls)
      BY DEF PagerInv, CallsWait
    <2>3. \A i \in DOMAIN stack : stack[i] \in Calls
      BY <2>2
    <2>4. Blocked \subseteq Signals \cup {Null}
      BY <2>3 DEF Blocked, Calls
    <2>5. \A i \in DOMAIN stack : stack[i].step \in {"wait", "finish", "release", "return"}
      BY <2>3 DEF Calls, Steps
    <2>6. sent \in 0..MaxSignals /\ read \in 0..Len(world.commits)
      <3>1. MaxSignals \in Nat /\ Len(world.commits) \in Nat
        BY EnvironmentAssumption, HistoryAssumption DEF PagerInv, IsList
      <3>2. QED
        BY <3>1 DEF Typed, SuccessInv, Undisturbed, Counting
    <2>7. opened \in 0..FdLimit /\ report \in BOOLEAN
      BY DEF KeysInv, Answering, SuccessInv, Reported
    <2>8. QED
      BY <2>1, <2>4, <2>5, <2>6, <2>7, SignalList DEF TypeOK, Typed, Signals
  <1>2. QED
    BY <1>1, InitPager, PagerStep, InitSuccess, SuccessStep, InitShown, ShownStep, InitKeys, KeysStep,
       InitMerged, MergingStep, InitTyped, TypedStep, PTL DEF Spec
=============================================================================
