----------------------------- MODULE DiffsProofs -----------------------------
(***************************************************************************)
(* Proofs that the diff reader of Diffs gives the new content, applies     *)
(* nothing but what the hunks show, and takes of a diff that ends inside a *)
(* hunk what CutIsWhole says, for all texts, contents and bounds.          *)
(*                                                                         *)
(* The writer leaves hunks whose lines follow each other in both versions  *)
(* (Chained) and say what those versions say (TruthfulLines); the parser   *)
(* holds the same hunks, or the last one is completed by the empty line or *)
(* the cut line that ends the text (ReadInv); the applier has matched what it has       *)
(* passed and put it in its place (PlaceInv, MatchInv, OwnInv, EndedInv),  *)
(* and none of it can fail on the old content (OwnApplies).                *)
(***************************************************************************)
EXTENDS Diffs, SequenceTheorems, TLAPS

Tags == {" ", "-", "+", "\\"}

DiffLine == [tag : Tags, text : Texts, old : Nat, new : Nat]

DiffHunk ==
    [start : Nat, oldCount : Nat, newCount : Nat, old : Nat, new : Nat, lines : Seq(DiffLine)]

WriterState ==
    [stage : {"---", "+++", "@"}, hunks : Seq(DiffHunk), seen : Nat, new : Seq(Texts),
     owed : [old : Nat, new : Nat], due : BOOLEAN, closed : BOOLEAN, done : BOOLEAN]

ParserState ==
    [mode : {"scan", "header", "body", "after", "failed"}, create : BOOLEAN, delete : BOOLEAN,
     found : BOOLEAN, hunks : Seq(DiffHunk), left : [old : Int, new : Int]]

ApplierState ==
    [source : Seq(Texts), ended : BOOLEAN, out : Seq(Texts), cursor : Nat, onNew : BOOLEAN,
     hunk : Nat, line : Nat]

TypeOK ==
    /\ old \in Contents \cup {Absent}
    /\ deletes \in BOOLEAN
    /\ writer \in WriterState
    /\ parser \in ParserState
    /\ current \in Contents \cup {Absent, Pending}
    /\ applier \in ApplierState
    /\ result \in Seq(Texts) \cup {Absent, Refused, Pending}
-----------------------------------------------------------------------------
\* Places in both versions.

OldAt(hunk, j) ==
    IF j = 0 THEN hunk.old
    ELSE hunk.lines[j].old + IF hunk.lines[j].tag \in OldSide THEN 1 ELSE 0

NewAt(hunk, j) ==
    IF j = 0 THEN hunk.new
    ELSE hunk.lines[j].new + IF hunk.lines[j].tag \in NewSide THEN 1 ELSE 0

OldEndOf(hunks, k) == IF k = 0 THEN 0 ELSE hunks[k].old + hunks[k].oldCount
NewEndOf(hunks, k) == IF k = 0 THEN 0 ELSE hunks[k].new + hunks[k].newCount

\* The lines of a hunk follow each other, and so do the hunks.
ChainedHunk(hunk) ==
    /\ hunk.start = IF hunk.oldCount > 0 THEN hunk.old + 1 ELSE hunk.old
    /\ \A j \in DOMAIN hunk.lines :
        /\ hunk.lines[j].old = OldAt(hunk, j - 1)
        /\ hunk.lines[j].new = NewAt(hunk, j - 1)

WholeHunk(hunk) ==
    /\ OldAt(hunk, Len(hunk.lines)) = hunk.old + hunk.oldCount
    /\ NewAt(hunk, Len(hunk.lines)) = hunk.new + hunk.newCount

Chained(hunks) ==
    \A k \in DOMAIN hunks :
        /\ ChainedHunk(hunks[k])
        /\ hunks[k].old >= OldEndOf(hunks, k - 1)
        /\ hunks[k].old - OldEndOf(hunks, k - 1) = hunks[k].new - NewEndOf(hunks, k - 1)

\* What a line says is what both versions say at its place.
TruthfulLine(line, w, lines) ==
    /\ line.tag \in OldSide => line.old < w.seen /\ line.text = lines[line.old + 1]
    /\ line.tag \in NewSide => line.new < Len(w.new) /\ line.text = w.new[line.new + 1]

\* The same as far as they are known.
TruthfulIfSeen(line, w, lines) ==
    /\ line.tag \in OldSide /\ line.old < w.seen => line.text = lines[line.old + 1]
    /\ line.tag \in NewSide /\ line.new < Len(w.new) => line.text = w.new[line.new + 1]

\* Both versions are alike between the hunks.
TruthfulGaps(hunks, w, lines) ==
    \A k \in DOMAIN hunks :
        /\ hunks[k].new <= Len(w.new)
        /\ hunks[k].old <= w.seen
        /\ \A i \in 1 .. hunks[k].old - OldEndOf(hunks, k - 1) :
            w.new[NewEndOf(hunks, k - 1) + i] = lines[OldEndOf(hunks, k - 1) + i]

TruthfulLines(hunks, w, lines) ==
    \A k \in DOMAIN hunks : \A j \in DOMAIN hunks[k].lines :
        TruthfulLine(hunks[k].lines[j], w, lines)

\* A deletion only removes, and from the first line on.
OnlyRemoves(hunks) ==
    \A k \in DOMAIN hunks :
        /\ hunks[k].old = OldEndOf(hunks, k - 1)
        /\ \A j \in DOMAIN hunks[k].lines : hunks[k].lines[j].tag \in {"-", "\\"}

\* A marker follows the line it is about.
MarkersFollow(hunks) ==
    \A k \in DOMAIN hunks : \A j \in DOMAIN hunks[k].lines :
        hunks[k].lines[j].tag = "\\" => j > 1 /\ hunks[k].lines[j - 1].tag # "\\"

\* Line j of hunk k says that the new content lacks its last newline.
MarksNew(hunks, k, j) ==
    j > 1 /\ hunks[k].lines[j].tag = "\\" /\ hunks[k].lines[j - 1].tag \in NewSide

Nowhere == [old |-> 0, new |-> 0]
-----------------------------------------------------------------------------
\* The writer.

\* The last hunk, and what is still owed to it.
OpenHunk(w) ==
    LET n == Len(w.hunks)
        hunk == w.hunks[n]
    IN IF n = 0
       THEN w.seen = 0 /\ w.new = <<>> /\ w.owed = Nowhere /\ ~w.due
       ELSE /\ \A k \in 1 .. n - 1 : WholeHunk(w.hunks[k])
            /\ OldAt(hunk, Len(hunk.lines)) = w.seen
            /\ NewAt(hunk, Len(hunk.lines)) = Len(w.new)
            /\ w.seen + w.owed.old = hunk.old + hunk.oldCount
            /\ Len(w.new) + w.owed.new = hunk.new + hunk.newCount

LastLine(w) == LET hunk == w.hunks[Len(w.hunks)] IN hunk.lines[Len(hunk.lines)]

\* A marker is due after the line it is about.
DueLine(w) ==
    w.due =>
        /\ Len(w.hunks) > 0
        /\ Len(w.hunks[Len(w.hunks)].lines) > 0
        /\ LastLine(w).tag # "\\"
        /\ LastLine(w).tag \in NewSide => w.closed

SomeMark(hunks) ==
    \E k \in DOMAIN hunks : \E j \in DOMAIN hunks[k].lines : MarksNew(hunks, k, j)

\* The new side is closed by a marker, or by the line one is due for.
ClosedSide(w) ==
    /\ SomeMark(w.hunks) => w.closed
    /\ w.closed =>
        /\ w.owed.new = 0
        /\ w.new # <<>>
        /\ SomeMark(w.hunks) \/ (w.due /\ LastLine(w).tag \in NewSide)

WriterInv ==
    /\ writer.seen + writer.owed.old <= Len(OldLines)
    /\ writer.stage # "@" => writer.hunks = <<>>
    /\ deletes => old # Absent /\ writer.new = <<>> /\ writer.owed.new = 0
    /\ OpenHunk(writer)
    /\ Chained(writer.hunks)
    /\ TruthfulGaps(writer.hunks, writer, OldLines)
    /\ TruthfulLines(writer.hunks, writer, OldLines)
    /\ deletes => OnlyRemoves(writer.hunks)
    /\ MarkersFollow(writer.hunks)
    /\ DueLine(writer)
    /\ ClosedSide(writer)
-----------------------------------------------------------------------------
\* The parser.

\* Before the text ends the parser holds what was written.
Follows ==
    /\ parser.hunks = writer.hunks
    /\ parser.left = writer.owed
    /\ parser.found = (writer.stage = "@")
    /\ parser.create = (writer.stage # "---" /\ old = Absent)
    /\ parser.delete = (writer.stage = "@" /\ deletes)
    /\ writer.stage = "---" => parser.mode = "scan"
    /\ writer.stage = "+++" => parser.mode = "header"
    /\ writer.stage = "@" /\ ~Settles => parser.mode = "body"
    /\ writer.stage = "@" /\ Settles =>
            parser.mode = "after" \/ (parser.mode = "scan" /\ ~writer.due)

\* A line that the text can end with, as it is read: empty, or cut.
LastRead(tag, text) == (tag = " " /\ text = Blank) \/ CutLine(tag, text)

\* What is owed to a hunk that only lacks one line.
Owing(tag) == [old |-> IF tag \in OldSide THEN 1 ELSE 0, new |-> IF tag \in NewSide THEN 1 ELSE 0]

\* The last hunk is completed by the line that ends the text.
CompletedBy(tag, text) ==
    /\ LastRead(tag, text)
    /\ writer.owed = Owing(tag)
    /\ parser.hunks = Shown(writer, Here(tag, text)).hunks

Completed == \E tag \in OldSide \cup NewSide, text \in Texts : CompletedBy(tag, text)

ReadInv ==
    IF ~writer.done THEN Follows
    ELSE Parses(parser) =>
            /\ writer.stage = "@"
            /\ parser.create = (old = Absent)
            /\ parser.delete = deletes
            /\ (Settles /\ parser.hunks = writer.hunks) \/ Completed

\* What the applier relies on.
HunksInv ==
    writer.done /\ Parses(parser) =>
        /\ Chained(parser.hunks)
        /\ \A k \in DOMAIN parser.hunks : WholeHunk(parser.hunks[k])
        /\ TruthfulGaps(parser.hunks, writer, OldLines)
        /\ \A k \in DOMAIN parser.hunks : \A j \in DOMAIN parser.hunks[k].lines :
                TruthfulIfSeen(parser.hunks[k].lines[j], writer, OldLines)
        /\ deletes => OnlyRemoves(parser.hunks)
        /\ MarkersFollow(parser.hunks)
-----------------------------------------------------------------------------
\* The applier.

OldPlace == IF applier.hunk = 0 THEN 0 ELSE OldAt(parser.hunks[applier.hunk], applier.line)
NewPlace == IF applier.hunk = 0 THEN 0 ELSE NewAt(parser.hunks[applier.hunk], applier.line)

Passed(k, j) == k < applier.hunk \/ (k = applier.hunk /\ j <= applier.line)

PlaceInv ==
    /\ writer.done /\ Parses(parser)
    /\ applier.source = LinesOf(current)
    /\ applier.hunk <= Len(parser.hunks)
    /\ applier.line <= Len(LinesOfHunk)
    /\ applier.cursor = OldPlace
    /\ ~deletes /\ applier.cursor <= Len(applier.source) => Len(applier.out) = NewPlace

\* A line that has been passed was found, or put in its place.
LineMatched(k, j) ==
    LET line == parser.hunks[k].lines[j]
    IN /\ line.tag \in OldSide =>
            /\ line.old < Len(applier.source)
            /\ applier.source[line.old + 1] = line.text
       /\ ~deletes /\ line.tag \in NewSide /\ line.old <= Len(applier.source) =>
            /\ line.new < Len(applier.out)
            /\ applier.out[line.new + 1] = line.text

\* The lines before a hunk were copied to their place.
GapKept(k) ==
    \A i \in 1 .. parser.hunks[k].old - OldEndOf(parser.hunks, k - 1) :
        OldEndOf(parser.hunks, k - 1) + i <= Len(applier.source) =>
            /\ NewEndOf(parser.hunks, k - 1) + i <= Len(applier.out)
            /\ applier.out[NewEndOf(parser.hunks, k - 1) + i] =
                    applier.source[OldEndOf(parser.hunks, k - 1) + i]

MatchInv ==
    /\ \A k \in DOMAIN parser.hunks : \A j \in DOMAIN parser.hunks[k].lines :
            Passed(k, j) => LineMatched(k, j)
    /\ ~deletes => \A k \in 1 .. applier.hunk : GapKept(k)

\* On the content it was made from the diff stays inside, and what comes out is new.
OwnInv ==
    ~deletes /\ current = old =>
        /\ applier.cursor <= Len(applier.source)
        /\ \A i \in DOMAIN applier.out :
                i <= Len(writer.new) => applier.out[i] = writer.new[i]

EndedInv ==
    ~deletes =>
        /\ applier.line > 0 =>
            LET line == LinesOfHunk[applier.line]
            IN line.tag # "\\" => applier.onNew = (line.tag \in NewSide)
        /\ applier.ended <=>
            /\ Ended(current)
            /\ \A k \in DOMAIN parser.hunks : \A j \in DOMAIN parser.hunks[k].lines :
                    Passed(k, j) => ~MarksNew(parser.hunks, k, j)

\* The answer is that of the last step.
ResultInv ==
    Applied =>
        /\ HunkIsDone /\ applier.hunk = Len(parser.hunks)
        /\ IF deletes THEN result = Absent /\ applier.cursor = Len(applier.source)
           ELSE result = Joined(applier.out \o SubSeq(applier.source, applier.cursor + 1,
                                                      Len(applier.source)), applier.ended)

ApplierInv ==
    IF current = Pending THEN result \in {Pending, Refused}
    ELSE PlaceInv /\ MatchInv /\ OwnInv /\ EndedInv /\ ResultInv

Inv == TypeOK /\ WriterInv /\ ReadInv /\ HunksInv /\ ApplierInv

\* A complete diff is not refused on the content it was made from.
OwnApplies == Complete /\ current = old => result # Refused
-----------------------------------------------------------------------------
\* Contents.

\* The lines of a content, with an empty one behind them when the last is ended.
LEMMA ContentLines ==
    ASSUME NEW content \in Contents \cup {Absent}
    PROVE  /\ LinesOf(content) \in Seq(Texts)
           /\ Ended(content) \in BOOLEAN
           /\ content # Absent =>
                /\ content \in Seq(Texts)
                /\ content # <<>>
                /\ Len(content) > 0
           /\ content # Absent /\ Ended(content) => content = Append(LinesOf(content), Blank)
           /\ ~Ended(content) => content = LinesOf(content) /\ LinesOf(content) # <<>>
<1>1. CASE content = Absent
    BY <1>1 DEF LinesOf, Ended
<1>2. CASE content # Absent
    <2>1. /\ content \in Seq(Texts)
          /\ content # <<>>
          /\ Blank \in Texts
        BY <1>2, DiffsAssumption
    <2>2. Len(content) \in Nat /\ Len(content) > 0
        BY <2>1
    <2>3. SubSeq(content, 1, Len(content) - 1) \in Seq(Texts)
        BY <2>1, <2>2
    <2>4. CASE Ended(content)
        <3>1. LinesOf(content) = SubSeq(content, 1, Len(content) - 1)
            BY <1>2, <2>4 DEF LinesOf
        <3>2. content[Len(content)] = Blank
            BY <1>2, <2>4 DEF Ended, LastOf
        <3>3. content = Append(SubSeq(content, 1, Len(content) - 1), content[Len(content)])
            BY <2>1, <2>2
        <3>4. QED BY <1>2, <2>1, <2>2, <2>3, <2>4, <3>1, <3>2, <3>3
    <2>5. CASE ~Ended(content)
        <3>1. LinesOf(content) = content
            BY <1>2, <2>5 DEF LinesOf
        <3>2. Ended(content) \in BOOLEAN
            BY DEF Ended
        <3>3. QED BY <1>2, <2>1, <2>2, <2>5, <3>1, <3>2
    <2>6. QED BY <2>4, <2>5
<1>3. QED BY <1>1, <1>2
-----------------------------------------------------------------------------
\* Lines of hunks.

\* The hunks with one more line in the last of them.
AddTo(hunks, line) == [hunks EXCEPT ![Len(hunks)].lines = Append(@, line)]

\* The writer and the parser add a line in the same way.
LEMMA ShownHunks ==
    ASSUME NEW w \in WriterState, NEW line
    PROVE  Shown(w, line) = [w EXCEPT !.hunks = AddTo(w.hunks, line)]
BY DEF Shown, AddTo

LEMMA AddedHunks ==
    ASSUME NEW s \in ParserState, NEW line
    PROVE  Added(s, line) = [s EXCEPT !.hunks = AddTo(s.hunks, line)]
BY DEF Added, AddTo

\* A line is added to the last hunk and changes nothing else of it.
LEMMA AddToType ==
    ASSUME NEW hunks \in Seq(DiffHunk), NEW line \in DiffLine, Len(hunks) > 0
    PROVE  /\ AddTo(hunks, line) \in Seq(DiffHunk)
           /\ Len(AddTo(hunks, line)) = Len(hunks)
           /\ DOMAIN AddTo(hunks, line) = DOMAIN hunks
           /\ \A k \in DOMAIN hunks : k # Len(hunks) => AddTo(hunks, line)[k] = hunks[k]
           /\ \A k \in DOMAIN hunks :
                /\ AddTo(hunks, line)[k].start = hunks[k].start
                /\ AddTo(hunks, line)[k].oldCount = hunks[k].oldCount
                /\ AddTo(hunks, line)[k].newCount = hunks[k].newCount
                /\ AddTo(hunks, line)[k].old = hunks[k].old
                /\ AddTo(hunks, line)[k].new = hunks[k].new
           /\ AddTo(hunks, line)[Len(hunks)].lines = Append(hunks[Len(hunks)].lines, line)
<1> DEFINE n == Len(hunks)
           hunk == [hunks[n] EXCEPT !.lines = Append(@, line)]
           H == AddTo(hunks, line)
<1>1. n \in DOMAIN hunks /\ hunks[n] \in DiffHunk /\ DOMAIN hunks = 1 .. n /\ n \in Nat
    OBVIOUS
<1>2. Append(hunks[n].lines, line) \in Seq(DiffLine)
    BY <1>1 DEF DiffHunk
<1>3. /\ hunk \in DiffHunk
      /\ hunk.lines = Append(hunks[n].lines, line)
      /\ hunk.start = hunks[n].start
      /\ hunk.oldCount = hunks[n].oldCount
      /\ hunk.newCount = hunks[n].newCount
      /\ hunk.old = hunks[n].old
      /\ hunk.new = hunks[n].new
    BY <1>1, <1>2 DEF DiffHunk
<1>4. H = [hunks EXCEPT ![n] = hunk]
    BY DEF AddTo
<1> HIDE DEF hunk, n, H
<1>5. H \in Seq(DiffHunk) /\ Len(H) = n /\ H[n] = hunk
    BY <1>1, <1>3, <1>4 DEF n
<1>6. \A k \in DOMAIN hunks : k # n => H[k] = hunks[k]
    BY <1>1, <1>3, <1>4
<1>7. DOMAIN H = DOMAIN hunks
    BY <1>1, <1>3, <1>4
<1>8. /\ H[n].lines = Append(hunks[n].lines, line)
      /\ \A k \in DOMAIN hunks :
                /\ H[k].start = hunks[k].start
                /\ H[k].oldCount = hunks[k].oldCount
                /\ H[k].newCount = hunks[k].newCount
                /\ H[k].old = hunks[k].old
                /\ H[k].new = hunks[k].new
    BY <1>3, <1>5, <1>6
<1>9. QED BY <1>5, <1>6, <1>7, <1>8 DEF n, H

\* The places of the lines there were stay, the new line is at the end.
LEMMA AddToPlaces ==
    ASSUME NEW hunks \in Seq(DiffHunk), NEW line \in DiffLine, Len(hunks) > 0
    PROVE  LET n == Len(hunks)
               m == Len(hunks[n].lines)
               H == AddTo(hunks, line)
           IN /\ \A k \in 0 .. n : /\ OldEndOf(H, k) = OldEndOf(hunks, k)
                                   /\ NewEndOf(H, k) = NewEndOf(hunks, k)
              /\ \A j \in 0 .. m : /\ OldAt(H[n], j) = OldAt(hunks[n], j)
                                   /\ NewAt(H[n], j) = NewAt(hunks[n], j)
              /\ Len(H[n].lines) = m + 1
              /\ \A j \in 1 .. m : H[n].lines[j] = hunks[n].lines[j]
              /\ H[n].lines[m + 1] = line
              /\ OldAt(H[n], m + 1) = line.old + IF line.tag \in OldSide THEN 1 ELSE 0
              /\ NewAt(H[n], m + 1) = line.new + IF line.tag \in NewSide THEN 1 ELSE 0
<1> DEFINE n == Len(hunks)
           m == Len(hunks[n].lines)
           H == AddTo(hunks, line)
<1>1. n \in DOMAIN hunks /\ hunks[n] \in DiffHunk /\ DOMAIN hunks = 1 .. n /\ n \in Nat
    OBVIOUS
<1>2. hunks[n].lines \in Seq(DiffLine) /\ m \in Nat
    BY <1>1 DEF DiffHunk
<1>3. /\ \A k \in 1 .. n : /\ H[k].oldCount = hunks[k].oldCount
                           /\ H[k].newCount = hunks[k].newCount
                           /\ H[k].old = hunks[k].old
                           /\ H[k].new = hunks[k].new
      /\ H[n].lines = Append(hunks[n].lines, line)
    BY <1>1, AddToType
<1> HIDE DEF H
<1>4. Len(H[n].lines) = m + 1
    BY <1>2, <1>3
<1>5. \A j \in 1 .. m : H[n].lines[j] = hunks[n].lines[j]
    BY <1>2, <1>3
<1>6. H[n].lines[m + 1] = line
    BY <1>2, <1>3
<1> HIDE DEF n, m
<1>7. \A k \in 0 .. n : /\ OldEndOf(H, k) = OldEndOf(hunks, k)
                        /\ NewEndOf(H, k) = NewEndOf(hunks, k)
    BY <1>1, <1>3 DEF OldEndOf, NewEndOf
<1>8. \A j \in 0 .. m : /\ OldAt(H[n], j) = OldAt(hunks[n], j)
                        /\ NewAt(H[n], j) = NewAt(hunks[n], j)
    <2>1. SUFFICES ASSUME NEW j \in 0 .. m
                   PROVE  /\ OldAt(H[n], j) = OldAt(hunks[n], j)
                          /\ NewAt(H[n], j) = NewAt(hunks[n], j)
        OBVIOUS
    <2>2. CASE j = 0
        BY <2>2, <1>1, <1>3 DEF OldAt, NewAt
    <2>3. CASE j # 0
        <3>1. H[n].lines[j] = hunks[n].lines[j]
            BY <2>3, <1>2, <1>5
        <3>2. QED BY <2>3, <3>1 DEF OldAt, NewAt
    <2>4. QED BY <2>2, <2>3
<1>9. /\ OldAt(H[n], m + 1) = line.old + IF line.tag \in OldSide THEN 1 ELSE 0
      /\ NewAt(H[n], m + 1) = line.new + IF line.tag \in NewSide THEN 1 ELSE 0
    BY <1>2, <1>6 DEF OldAt, NewAt
<1>10. QED BY <1>4, <1>5, <1>6, <1>7, <1>8, <1>9 DEF n, m, H

\* A line at the end of the last hunk continues it.
LEMMA AddToChained ==
    ASSUME NEW hunks \in Seq(DiffHunk), NEW line \in DiffLine, Len(hunks) > 0,
           Chained(hunks),
           line.old = OldAt(hunks[Len(hunks)], Len(hunks[Len(hunks)].lines)),
           line.new = NewAt(hunks[Len(hunks)], Len(hunks[Len(hunks)].lines))
    PROVE  Chained(AddTo(hunks, line))
<1> DEFINE n == Len(hunks)
           m == Len(hunks[n].lines)
           H == AddTo(hunks, line)
<1>1. n \in DOMAIN hunks /\ hunks[n] \in DiffHunk /\ DOMAIN hunks = 1 .. n /\ n \in Nat
    OBVIOUS
<1>2. hunks[n].lines \in Seq(DiffLine) /\ m \in Nat
    BY <1>1 DEF DiffHunk
<1>3. /\ DOMAIN H = DOMAIN hunks
      /\ \A k \in DOMAIN hunks : k # n => H[k] = hunks[k]
      /\ \A k \in 1 .. n : /\ H[k].start = hunks[k].start
                           /\ H[k].oldCount = hunks[k].oldCount
                           /\ H[k].newCount = hunks[k].newCount
                           /\ H[k].old = hunks[k].old
                           /\ H[k].new = hunks[k].new
      /\ H[n].lines = Append(hunks[n].lines, line)
    BY <1>1, AddToType
<1>4. /\ \A k \in 0 .. n : /\ OldEndOf(H, k) = OldEndOf(hunks, k)
                           /\ NewEndOf(H, k) = NewEndOf(hunks, k)
      /\ \A j \in 0 .. m : /\ OldAt(H[n], j) = OldAt(hunks[n], j)
                           /\ NewAt(H[n], j) = NewAt(hunks[n], j)
      /\ Len(H[n].lines) = m + 1
      /\ \A j \in 1 .. m : H[n].lines[j] = hunks[n].lines[j]
      /\ H[n].lines[m + 1] = line
    BY <1>1, AddToPlaces
<1>5. line.old = OldAt(hunks[n], m) /\ line.new = NewAt(hunks[n], m)
    OBVIOUS
<1>6. DOMAIN H[n].lines = 1 .. m + 1 /\ DOMAIN hunks[n].lines = 1 .. m
    BY <1>2, <1>3
<1> HIDE DEF H, n, m
<1>7. /\ ChainedHunk(hunks[n])
      /\ \A k \in 1 .. n :
            /\ ChainedHunk(hunks[k])
            /\ hunks[k].old >= OldEndOf(hunks, k - 1)
            /\ hunks[k].old - OldEndOf(hunks, k - 1) = hunks[k].new - NewEndOf(hunks, k - 1)
    BY <1>1 DEF Chained
<1>8. ASSUME NEW j \in 1 .. m + 1
      PROVE  H[n].lines[j].old = OldAt(H[n], j - 1) /\ H[n].lines[j].new = NewAt(H[n], j - 1)
    <2>1. CASE j = m + 1
        BY <2>1, <1>2, <1>4, <1>5
    <2>2. CASE j # m + 1
        <3>1. j \in 1 .. m /\ j - 1 \in 0 .. m
            BY <2>2, <1>2
        <3>2. hunks[n].lines[j].old = OldAt(hunks[n], j - 1)
              /\ hunks[n].lines[j].new = NewAt(hunks[n], j - 1)
            BY <3>1, <1>6, <1>7 DEF ChainedHunk
        <3>3. QED BY <3>1, <3>2, <1>4
    <2>3. QED BY <2>1, <2>2
<1>9. ChainedHunk(H[n])
    BY <1>1, <1>3, <1>6, <1>7, <1>8 DEF ChainedHunk
<1>10. ASSUME NEW k \in 1 .. n
       PROVE  /\ ChainedHunk(H[k])
              /\ H[k].old >= OldEndOf(H, k - 1)
              /\ H[k].old - OldEndOf(H, k - 1) = H[k].new - NewEndOf(H, k - 1)
    <2>1. k - 1 \in 0 .. n /\ k \in DOMAIN hunks
        BY <1>1
    <2>2. ChainedHunk(H[k])
        BY <2>1, <1>3, <1>7, <1>9
    <2>3. QED BY <2>1, <2>2, <1>3, <1>4, <1>7
<1>11. Chained(H)
    BY <1>1, <1>3, <1>10 DEF Chained
<1>12. QED BY <1>11 DEF H

LEMMA HunkType ==
    ASSUME NEW hunk \in DiffHunk
    PROVE  /\ hunk.start \in Nat /\ hunk.oldCount \in Nat /\ hunk.newCount \in Nat
           /\ hunk.old \in Nat /\ hunk.new \in Nat
           /\ hunk.lines \in Seq(DiffLine)
           /\ Len(hunk.lines) \in Nat
           /\ DOMAIN hunk.lines = 1 .. Len(hunk.lines)
           /\ \A j \in DOMAIN hunk.lines :
                /\ hunk.lines[j] \in DiffLine
                /\ hunk.lines[j].old \in Nat
                /\ hunk.lines[j].new \in Nat
                /\ hunk.lines[j].tag \in Tags
<1>1. /\ hunk.start \in Nat /\ hunk.oldCount \in Nat /\ hunk.newCount \in Nat
      /\ hunk.old \in Nat /\ hunk.new \in Nat
      /\ hunk.lines \in Seq(DiffLine)
    BY DEF DiffHunk
<1>2. \A j \in DOMAIN hunk.lines : hunk.lines[j] \in DiffLine
    BY <1>1
<1>3. \A line \in DiffLine : line.old \in Nat /\ line.new \in Nat /\ line.tag \in Tags
    BY DEF DiffLine
<1>4. Len(hunk.lines) \in Nat /\ DOMAIN hunk.lines = 1 .. Len(hunk.lines)
    BY <1>1
<1>5. QED BY <1>1, <1>2, <1>3, <1>4

LEMMA HunksType ==
    ASSUME NEW hunks \in Seq(DiffHunk)
    PROVE  /\ Len(hunks) \in Nat
           /\ DOMAIN hunks = 1 .. Len(hunks)
           /\ \A k \in DOMAIN hunks : hunks[k] \in DiffHunk
OBVIOUS

LEMMA EndsType ==
    ASSUME NEW hunks \in Seq(DiffHunk), NEW k \in 0 .. Len(hunks)
    PROVE  OldEndOf(hunks, k) \in Nat /\ NewEndOf(hunks, k) \in Nat
<1>1. CASE k = 0
    BY <1>1 DEF OldEndOf, NewEndOf
<1>2. CASE k # 0
    <2>1. hunks[k] \in DiffHunk
        BY <1>2
    <2>2. /\ hunks[k].old \in Nat /\ hunks[k].oldCount \in Nat
          /\ hunks[k].new \in Nat /\ hunks[k].newCount \in Nat
        BY <2>1, HunkType
    <2>3. QED BY <1>2, <2>2 DEF OldEndOf, NewEndOf
<1>3. QED BY <1>1, <1>2

\* The places in a hunk are numbers.
LEMMA PlacesType ==
    ASSUME NEW hunk \in DiffHunk, NEW j \in 0 .. Len(hunk.lines)
    PROVE  OldAt(hunk, j) \in Nat /\ NewAt(hunk, j) \in Nat
<1>1. CASE j = 0
    BY <1>1 DEF OldAt, NewAt, DiffHunk
<1>2. CASE j # 0
    <2>1. hunk.lines \in Seq(DiffLine)
        BY DEF DiffHunk
    <2>2. hunk.lines[j] \in DiffLine
        BY <1>2, <2>1
    <2>3. QED BY <1>2, <2>2 DEF OldAt, NewAt, DiffLine
<1>3. QED BY <1>1, <1>2

\* What was true of the versions stays so when more of them is written.
LEMMA GapsGrow ==
    ASSUME NEW hunks \in Seq(DiffHunk), NEW w \in WriterState, NEW v \in WriterState, NEW lines,
           Chained(hunks), TruthfulGaps(hunks, w, lines),
           w.seen <= v.seen, Len(w.new) <= Len(v.new),
           \A i \in 1 .. Len(w.new) : v.new[i] = w.new[i]
    PROVE  TruthfulGaps(hunks, v, lines)
<1>1. w.seen \in Nat /\ v.seen \in Nat /\ Len(w.new) \in Nat /\ Len(v.new) \in Nat
    BY DEF WriterState
<1>2. ASSUME NEW k \in DOMAIN hunks
      PROVE  /\ hunks[k].new <= Len(v.new)
             /\ hunks[k].old <= v.seen
             /\ \A i \in 1 .. hunks[k].old - OldEndOf(hunks, k - 1) :
                v.new[NewEndOf(hunks, k - 1) + i] = lines[OldEndOf(hunks, k - 1) + i]
    <2>1. hunks[k].new \in Nat /\ hunks[k].old \in Nat
        BY HunksType, HunkType
    <2>2. k - 1 \in 0 .. Len(hunks)
        OBVIOUS
    <2>3. OldEndOf(hunks, k - 1) \in Nat /\ NewEndOf(hunks, k - 1) \in Nat
        BY <2>2, EndsType
    <2>4. /\ hunks[k].old - OldEndOf(hunks, k - 1) = hunks[k].new - NewEndOf(hunks, k - 1)
          /\ hunks[k].new <= Len(w.new)
          /\ hunks[k].old <= w.seen
          /\ \A i \in 1 .. hunks[k].old - OldEndOf(hunks, k - 1) :
                w.new[NewEndOf(hunks, k - 1) + i] = lines[OldEndOf(hunks, k - 1) + i]
        BY DEF Chained, TruthfulGaps
    <2> DEFINE o == OldEndOf(hunks, k - 1)
               e == NewEndOf(hunks, k - 1)
    <2>5. ASSUME NEW i \in 1 .. hunks[k].old - o
          PROVE  e + i \in 1 .. Len(w.new)
        <3>1. i \in Nat /\ i >= 1 /\ i <= hunks[k].new - e /\ hunks[k].new <= Len(w.new)
            BY <2>1, <2>3, <2>4
        <3> HIDE DEF e
        <3>2. e \in Nat
            BY <2>3 DEF e
        <3>3. QED BY <1>1, <2>1, <3>1, <3>2, SMTT(30)
    <2>6. QED BY <1>1, <2>1, <2>4, <2>5
<1>3. QED BY <1>2 DEF TruthfulGaps

LEMMA LinesGrow ==
    ASSUME NEW hunks \in Seq(DiffHunk), NEW w \in WriterState, NEW v \in WriterState, NEW lines,
           TruthfulLines(hunks, w, lines),
           w.seen <= v.seen, Len(w.new) <= Len(v.new),
           \A i \in 1 .. Len(w.new) : v.new[i] = w.new[i]
    PROVE  TruthfulLines(hunks, v, lines)
<1>1. w.seen \in Nat /\ v.seen \in Nat /\ Len(w.new) \in Nat /\ Len(v.new) \in Nat
    BY DEF WriterState
<1>2. ASSUME NEW k \in DOMAIN hunks, NEW j \in DOMAIN hunks[k].lines
      PROVE  TruthfulLine(hunks[k].lines[j], v, lines)
    <2>1. TruthfulLine(hunks[k].lines[j], w, lines)
        BY DEF TruthfulLines
    <2>2. hunks[k].lines[j].old \in Nat /\ hunks[k].lines[j].new \in Nat
        BY HunksType, HunkType
    <2> DEFINE line == hunks[k].lines[j]
    <2> HIDE DEF line
    <2>3. line.old \in Nat /\ line.new \in Nat /\ TruthfulLine(line, w, lines)
        BY <2>1, <2>2 DEF line
    <2>4. line.tag \in OldSide => line.old < v.seen /\ line.text = lines[line.old + 1]
        BY <1>1, <2>3 DEF TruthfulLine
    <2>5. line.tag \in NewSide => line.new < Len(v.new) /\ line.text = v.new[line.new + 1]
        <3>1. SUFFICES ASSUME line.tag \in NewSide
                       PROVE  line.new < Len(v.new) /\ line.text = v.new[line.new + 1]
            OBVIOUS
        <3>2. line.new < Len(w.new) /\ line.text = w.new[line.new + 1]
            BY <2>3, <3>1 DEF TruthfulLine
        <3>3. line.new + 1 \in 1 .. Len(w.new)
            BY <1>1, <2>3, <3>2
        <3>4. QED BY <1>1, <2>3, <3>2, <3>3
    <2>6. QED BY <2>4, <2>5 DEF TruthfulLine, line
<1>3. QED BY <1>2 DEF TruthfulLines

\* A true line more.
LEMMA AddToTruthful ==
    ASSUME NEW hunks \in Seq(DiffHunk), NEW line \in DiffLine, Len(hunks) > 0,
           NEW w, NEW lines, TruthfulGaps(hunks, w, lines)
    PROVE  /\ TruthfulGaps(AddTo(hunks, line), w, lines)
           /\ TruthfulLines(hunks, w, lines) /\ TruthfulLine(line, w, lines) =>
                TruthfulLines(AddTo(hunks, line), w, lines)
<1> DEFINE n == Len(hunks)
           m == Len(hunks[n].lines)
           H == AddTo(hunks, line)
<1>1. n \in DOMAIN hunks /\ hunks[n] \in DiffHunk /\ DOMAIN hunks = 1 .. n /\ n \in Nat
    OBVIOUS
<1>2. hunks[n].lines \in Seq(DiffLine) /\ m \in Nat
    BY <1>1 DEF DiffHunk
<1>3. /\ DOMAIN H = DOMAIN hunks
      /\ \A k \in DOMAIN hunks : k # n => H[k] = hunks[k]
      /\ \A k \in 1 .. n : /\ H[k].old = hunks[k].old
                           /\ H[k].new = hunks[k].new
      /\ H[n].lines = Append(hunks[n].lines, line)
    BY <1>1, AddToType
<1>4. /\ \A k \in 0 .. n : /\ OldEndOf(H, k) = OldEndOf(hunks, k)
                           /\ NewEndOf(H, k) = NewEndOf(hunks, k)
      /\ \A j \in 1 .. m : H[n].lines[j] = hunks[n].lines[j]
      /\ H[n].lines[m + 1] = line
    BY <1>1, AddToPlaces
<1>5. DOMAIN H[n].lines = 1 .. m + 1 /\ DOMAIN hunks[n].lines = 1 .. m
    BY <1>2, <1>3
<1> HIDE DEF H, n, m
<1>6. TruthfulGaps(H, w, lines)
    <2>1. \A k \in DOMAIN hunks : k - 1 \in 0 .. n
        BY <1>1
    <2>2. QED BY <2>1, <1>1, <1>3, <1>4 DEF TruthfulGaps
<1>7. ASSUME TruthfulLines(hunks, w, lines), TruthfulLine(line, w, lines),
             NEW k \in DOMAIN H, NEW j \in DOMAIN H[k].lines
      PROVE  TruthfulLine(H[k].lines[j], w, lines)
    <2>1. CASE k # n
        BY <2>1, <1>3, <1>7 DEF TruthfulLines
    <2>2. CASE k = n /\ j = m + 1
        BY <2>2, <1>4, <1>7
    <2>3. CASE k = n /\ j # m + 1
        <3>1. j \in 1 .. m
            BY <2>3, <1>2, <1>5
        <3>2. QED BY <2>3, <3>1, <1>1, <1>4, <1>5, <1>7 DEF TruthfulLines
    <2>4. QED BY <2>1, <2>2, <2>3
<1>8. TruthfulLines(hunks, w, lines) /\ TruthfulLine(line, w, lines) => TruthfulLines(H, w, lines)
    BY <1>7 DEF TruthfulLines
<1>9. QED BY <1>6, <1>8 DEF H

\* A line that removes, or marks, keeps a deletion one.
LEMMA AddToRemoves ==
    ASSUME NEW hunks \in Seq(DiffHunk), NEW line \in DiffLine, Len(hunks) > 0,
           OnlyRemoves(hunks), line.tag \in {"-", "\\"}
    PROVE  OnlyRemoves(AddTo(hunks, line))
<1> DEFINE n == Len(hunks)
           m == Len(hunks[n].lines)
           H == AddTo(hunks, line)
<1>1. n \in DOMAIN hunks /\ hunks[n] \in DiffHunk /\ DOMAIN hunks = 1 .. n /\ n \in Nat
    OBVIOUS
<1>2. m \in Nat /\ DOMAIN hunks[n].lines = 1 .. m
    BY <1>1, HunkType
<1>3. /\ DOMAIN H = DOMAIN hunks
      /\ \A k \in DOMAIN hunks : k # n => H[k] = hunks[k]
      /\ \A k \in 1 .. n : H[k].old = hunks[k].old
      /\ H[n].lines = Append(hunks[n].lines, line)
    BY <1>1, AddToType
<1>4. /\ \A k \in 0 .. n : OldEndOf(H, k) = OldEndOf(hunks, k)
      /\ \A j \in 1 .. m : H[n].lines[j] = hunks[n].lines[j]
      /\ H[n].lines[m + 1] = line
    BY <1>1, AddToPlaces
<1>5. DOMAIN H[n].lines = 1 .. m + 1
    <2>1. hunks[n].lines \in Seq(DiffLine)
        BY <1>1, HunkType
    <2>2. QED BY <1>2, <1>3, <2>1
<1> HIDE DEF H, n, m
<1>6. ASSUME NEW k \in DOMAIN H
      PROVE  /\ H[k].old = OldEndOf(H, k - 1)
             /\ \A j \in DOMAIN H[k].lines : H[k].lines[j].tag \in {"-", "\\"}
    <2>1. k - 1 \in 0 .. n /\ k \in DOMAIN hunks /\ k \in 1 .. n
        BY <1>1, <1>3
    <2>2. H[k].old = OldEndOf(H, k - 1)
        BY <2>1, <1>3, <1>4 DEF OnlyRemoves
    <2>3. CASE k # n
        BY <2>1, <2>2, <2>3, <1>3 DEF OnlyRemoves
    <2>4. CASE k = n
        <3>1. ASSUME NEW j \in 1 .. m + 1
              PROVE  H[n].lines[j].tag \in {"-", "\\"}
            <4>1. CASE j = m + 1
                BY <4>1, <1>4
            <4>2. CASE j # m + 1
                <5>1. j \in 1 .. m
                    BY <4>2, <1>2
                <5>2. QED BY <5>1, <1>1, <1>2, <1>4 DEF OnlyRemoves
            <4>3. QED BY <4>1, <4>2
        <3>2. QED BY <2>2, <2>4, <3>1, <1>5
    <2>5. QED BY <2>3, <2>4
<1>7. OnlyRemoves(H)
    BY <1>6 DEF OnlyRemoves
<1>8. QED BY <1>7 DEF H

\* What is marked stays so, and only a marker after a line of the new side marks more.
LEMMA AddToMarks ==
    ASSUME NEW hunks \in Seq(DiffHunk), NEW line \in DiffLine, Len(hunks) > 0
    PROVE  LET n == Len(hunks)
               m == Len(hunks[n].lines)
               H == AddTo(hunks, line)
               follows == m > 0 /\ hunks[n].lines[m].tag # "\\"
           IN /\ MarkersFollow(hunks) /\ (line.tag = "\\" => follows) => MarkersFollow(H)
              /\ \A k \in DOMAIN hunks : \A j \in DOMAIN hunks[k].lines :
                    MarksNew(H, k, j) <=> MarksNew(hunks, k, j)
              /\ MarksNew(H, n, m + 1) <=>
                    line.tag = "\\" /\ m > 0 /\ hunks[n].lines[m].tag \in NewSide
              /\ SomeMark(H) <=> SomeMark(hunks) \/ MarksNew(H, n, m + 1)
<1> DEFINE n == Len(hunks)
           m == Len(hunks[n].lines)
           H == AddTo(hunks, line)
           follows == m > 0 /\ hunks[n].lines[m].tag # "\\"
<1>1. n \in DOMAIN hunks /\ hunks[n] \in DiffHunk /\ DOMAIN hunks = 1 .. n /\ n \in Nat
    OBVIOUS
<1>2. m \in Nat /\ DOMAIN hunks[n].lines = 1 .. m
    BY <1>1, HunkType
<1>3. /\ DOMAIN H = DOMAIN hunks
      /\ \A k \in DOMAIN hunks : k # n => H[k] = hunks[k]
      /\ H[n].lines = Append(hunks[n].lines, line)
    BY <1>1, AddToType
<1>4. /\ \A j \in 1 .. m : H[n].lines[j] = hunks[n].lines[j]
      /\ H[n].lines[m + 1] = line
    BY <1>1, AddToPlaces
<1>5. DOMAIN H[n].lines = 1 .. m + 1
    <2>1. hunks[n].lines \in Seq(DiffLine)
        BY <1>1, HunkType
    <2>2. QED BY <1>2, <1>3, <2>1
<1> HIDE DEF H, n, m
<1>6. ASSUME MarkersFollow(hunks), line.tag = "\\" => follows,
             NEW k \in DOMAIN H, NEW j \in DOMAIN H[k].lines, H[k].lines[j].tag = "\\"
      PROVE  j > 1 /\ H[k].lines[j - 1].tag # "\\"
    <2>1. CASE k # n
        BY <2>1, <1>3, <1>6 DEF MarkersFollow
    <2>2. CASE k = n /\ j = m + 1
        <3>1. m > 0 /\ hunks[n].lines[m].tag # "\\"
            BY <2>2, <1>4, <1>6
        <3>2. j - 1 = m /\ m \in 1 .. m
            BY <2>2, <3>1, <1>2
        <3>3. QED BY <2>2, <3>1, <3>2, <1>2, <1>4
    <2>3. CASE k = n /\ j # m + 1
        <3>1. j \in 1 .. m
            BY <2>3, <1>2, <1>5
        <3>2. j > 1 /\ hunks[n].lines[j - 1].tag # "\\"
            BY <2>3, <3>1, <1>1, <1>2, <1>4, <1>6 DEF MarkersFollow
        <3>3. j - 1 \in 1 .. m
            BY <3>1, <3>2, <1>2
        <3>4. QED BY <2>3, <3>2, <3>3, <1>4
    <2>4. QED BY <2>1, <2>2, <2>3
<1>7. MarkersFollow(hunks) /\ (line.tag = "\\" => follows) => MarkersFollow(H)
    <2> HIDE DEF follows
    <2>1. QED BY <1>6 DEF MarkersFollow
<1>8. ASSUME NEW k \in DOMAIN hunks, NEW j \in DOMAIN hunks[k].lines
      PROVE  MarksNew(H, k, j) <=> MarksNew(hunks, k, j)
    <2>1. CASE k # n
        BY <2>1, <1>3 DEF MarksNew
    <2>2. CASE k = n
        <3>1. j \in 1 .. m /\ (j > 1 => j - 1 \in 1 .. m)
            BY <2>2, <1>2
        <3>2. QED BY <2>2, <3>1, <1>4 DEF MarksNew
    <2>3. QED BY <2>1, <2>2
<1>9. MarksNew(H, n, m + 1) <=> line.tag = "\\" /\ m > 0 /\ hunks[n].lines[m].tag \in NewSide
    <2>1. m + 1 - 1 = m /\ (m + 1 > 1 <=> m > 0) /\ (m > 0 => m \in 1 .. m)
        BY <1>2
    <2>2. QED BY <2>1, <1>4, SMTT(30) DEF MarksNew
<1>10. SomeMark(H) <=> SomeMark(hunks) \/ MarksNew(H, n, m + 1)
    <2>1. ASSUME NEW k \in DOMAIN H, NEW j \in DOMAIN H[k].lines, MarksNew(H, k, j)
          PROVE  SomeMark(hunks) \/ MarksNew(H, n, m + 1)
        <3>1. CASE k = n /\ j = m + 1
            BY <2>1, <3>1
        <3>2. CASE ~(k = n /\ j = m + 1)
            <4>1. k \in DOMAIN hunks /\ j \in DOMAIN hunks[k].lines
                BY <3>2, <1>2, <1>3, <1>5
            <4>2. QED BY <2>1, <4>1, <1>8 DEF SomeMark
        <3>3. QED BY <3>1, <3>2
    <2>2. ASSUME NEW k \in DOMAIN hunks, NEW j \in DOMAIN hunks[k].lines, MarksNew(hunks, k, j)
          PROVE  SomeMark(H)
        <3>1. k \in DOMAIN H /\ j \in DOMAIN H[k].lines
            BY <1>2, <1>3, <1>5
        <3>2. MarksNew(H, k, j)
            BY <2>2, <1>8
        <3>3. QED BY <3>1, <3>2 DEF SomeMark
    <2>3. MarksNew(H, n, m + 1) => SomeMark(H)
        <3>1. n \in DOMAIN H /\ m + 1 \in DOMAIN H[n].lines
            BY <1>1, <1>2, <1>3, <1>5
        <3>2. QED BY <3>1 DEF SomeMark
    <2>4. QED BY <2>1, <2>2, <2>3 DEF SomeMark
<1>11. QED BY <1>7, <1>8, <1>9, <1>10 DEF H, n, m

\* A new hunk without lines.
LEMMA AppendHunk ==
    ASSUME NEW hunks \in Seq(DiffHunk), NEW hunk \in DiffHunk, hunk.lines = <<>>
    PROVE  LET n == Len(hunks)
               H == Append(hunks, hunk)
           IN /\ H \in Seq(DiffHunk)
              /\ Len(H) = n + 1
              /\ DOMAIN H = 1 .. n + 1
              /\ \A k \in 1 .. n : H[k] = hunks[k]
              /\ H[n + 1] = hunk
              /\ \A k \in 0 .. n : /\ OldEndOf(H, k) = OldEndOf(hunks, k)
                                   /\ NewEndOf(H, k) = NewEndOf(hunks, k)
<1> DEFINE n == Len(hunks)
           H == Append(hunks, hunk)
<1>1. n \in Nat /\ DOMAIN hunks = 1 .. n
    OBVIOUS
<1>2. /\ H \in Seq(DiffHunk)
      /\ Len(H) = n + 1
      /\ DOMAIN H = 1 .. n + 1
      /\ \A k \in 1 .. n : H[k] = hunks[k]
      /\ H[n + 1] = hunk
    OBVIOUS
<1> HIDE DEF H, n
<1>3. \A k \in 0 .. n : OldEndOf(H, k) = OldEndOf(hunks, k) /\ NewEndOf(H, k) = NewEndOf(hunks, k)
    <2>1. \A k \in 0 .. n : k = 0 \/ k \in 1 .. n
        BY <1>1
    <2>2. QED BY <2>1, <1>2 DEF OldEndOf, NewEndOf
<1>4. QED BY <1>2, <1>3 DEF H, n

LEMMA AppendChained ==
    ASSUME NEW hunks \in Seq(DiffHunk), NEW hunk \in DiffHunk, hunk.lines = <<>>,
           Chained(hunks),
           hunk.start = IF hunk.oldCount > 0 THEN hunk.old + 1 ELSE hunk.old,
           hunk.old >= OldEndOf(hunks, Len(hunks)),
           hunk.old - OldEndOf(hunks, Len(hunks)) = hunk.new - NewEndOf(hunks, Len(hunks))
    PROVE  Chained(Append(hunks, hunk))
<1> DEFINE n == Len(hunks)
           H == Append(hunks, hunk)
<1>1. /\ Len(H) = n + 1
      /\ DOMAIN H = 1 .. n + 1
      /\ \A k \in 1 .. n : H[k] = hunks[k]
      /\ H[n + 1] = hunk
      /\ \A k \in 0 .. n : OldEndOf(H, k) = OldEndOf(hunks, k) /\ NewEndOf(H, k) = NewEndOf(hunks, k)
      /\ n \in Nat /\ DOMAIN hunks = 1 .. n
    BY AppendHunk
<1>2. hunk.old >= OldEndOf(hunks, n)
      /\ hunk.old - OldEndOf(hunks, n) = hunk.new - NewEndOf(hunks, n)
    OBVIOUS
<1> HIDE DEF H, n
<1>3. ASSUME NEW k \in 1 .. n + 1
      PROVE  /\ ChainedHunk(H[k])
             /\ H[k].old >= OldEndOf(H, k - 1)
             /\ H[k].old - OldEndOf(H, k - 1) = H[k].new - NewEndOf(H, k - 1)
    <2>1. CASE k = n + 1
        <3>1. ChainedHunk(hunk)
            BY DEF ChainedHunk
        <3>2. k - 1 = n /\ n \in 0 .. n
            BY <2>1, <1>1
        <3>3. QED BY <2>1, <3>1, <3>2, <1>1, <1>2
    <2>2. CASE k # n + 1
        <3>1. k \in 1 .. n /\ k - 1 \in 0 .. n
            BY <2>2, <1>1
        <3>2. QED BY <3>1, <1>1 DEF Chained
    <2>3. QED BY <2>1, <2>2
<1>4. Chained(H)
    BY <1>1, <1>3 DEF Chained
<1>5. QED BY <1>4 DEF H

LEMMA AppendTruthful ==
    ASSUME NEW hunks \in Seq(DiffHunk), NEW hunk \in DiffHunk, hunk.lines = <<>>,
           NEW w, NEW lines, TruthfulGaps(hunks, w, lines), TruthfulLines(hunks, w, lines),
           hunk.new <= Len(w.new), hunk.old <= w.seen,
           \A i \in 1 .. hunk.old - OldEndOf(hunks, Len(hunks)) :
               w.new[NewEndOf(hunks, Len(hunks)) + i] = lines[OldEndOf(hunks, Len(hunks)) + i]
    PROVE  /\ TruthfulGaps(Append(hunks, hunk), w, lines)
           /\ TruthfulLines(Append(hunks, hunk), w, lines)
<1> DEFINE n == Len(hunks)
           H == Append(hunks, hunk)
<1>1. /\ DOMAIN H = 1 .. n + 1
      /\ \A k \in 1 .. n : H[k] = hunks[k]
      /\ H[n + 1] = hunk
      /\ \A k \in 0 .. n : OldEndOf(H, k) = OldEndOf(hunks, k) /\ NewEndOf(H, k) = NewEndOf(hunks, k)
      /\ n \in Nat /\ DOMAIN hunks = 1 .. n
    BY AppendHunk
<1>2. \A i \in 1 .. hunk.old - OldEndOf(hunks, n) :
               w.new[NewEndOf(hunks, n) + i] = lines[OldEndOf(hunks, n) + i]
    OBVIOUS
<1> HIDE DEF H, n
<1>3. ASSUME NEW k \in 1 .. n + 1
      PROVE  /\ H[k].new <= Len(w.new)
             /\ H[k].old <= w.seen
             /\ \A i \in 1 .. H[k].old - OldEndOf(H, k - 1) :
                w.new[NewEndOf(H, k - 1) + i] = lines[OldEndOf(H, k - 1) + i]
    <2>1. CASE k = n + 1
        <3>1. k - 1 = n /\ n \in 0 .. n
            BY <2>1, <1>1
        <3>2. QED BY <2>1, <3>1, <1>1, <1>2
    <2>2. CASE k # n + 1
        <3>1. k \in 1 .. n /\ k - 1 \in 0 .. n
            BY <2>2, <1>1
        <3>2. QED BY <3>1, <1>1 DEF TruthfulGaps
    <2>3. QED BY <2>1, <2>2
<1>4. ASSUME NEW k \in 1 .. n + 1, NEW j \in DOMAIN H[k].lines
      PROVE  TruthfulLine(H[k].lines[j], w, lines)
    <2>1. CASE k = n + 1
        <3>1. DOMAIN H[k].lines = {}
            BY <2>1, <1>1
        <3>2. QED BY <3>1
    <2>2. CASE k # n + 1
        <3>1. k \in 1 .. n
            BY <2>2, <1>1
        <3>2. QED BY <3>1, <1>1 DEF TruthfulLines
    <2>3. QED BY <2>1, <2>2
<1>5. TruthfulGaps(H, w, lines) /\ TruthfulLines(H, w, lines)
    BY <1>1, <1>3, <1>4 DEF TruthfulGaps, TruthfulLines
<1>6. QED BY <1>5 DEF H

LEMMA AppendMarks ==
    ASSUME NEW hunks \in Seq(DiffHunk), NEW hunk \in DiffHunk, hunk.lines = <<>>
    PROVE  /\ OnlyRemoves(hunks) /\ hunk.old = OldEndOf(hunks, Len(hunks)) =>
                OnlyRemoves(Append(hunks, hunk))
           /\ MarkersFollow(hunks) => MarkersFollow(Append(hunks, hunk))
           /\ SomeMark(Append(hunks, hunk)) <=> SomeMark(hunks)
<1> DEFINE n == Len(hunks)
           H == Append(hunks, hunk)
<1>1. /\ DOMAIN H = 1 .. n + 1
      /\ \A k \in 1 .. n : H[k] = hunks[k]
      /\ H[n + 1] = hunk
      /\ \A k \in 0 .. n : OldEndOf(H, k) = OldEndOf(hunks, k)
      /\ n \in Nat /\ DOMAIN hunks = 1 .. n
    BY AppendHunk
<1> HIDE DEF H, n
<1>2. \A k \in 1 .. n + 1 : k = n + 1 \/ (k \in 1 .. n /\ k - 1 \in 0 .. n)
    BY <1>1
<1>3. DOMAIN H[n + 1].lines = {}
    BY <1>1
<1>4. n + 1 - 1 = n /\ n \in 0 .. n
    BY <1>1
<1>5. OnlyRemoves(hunks) /\ hunk.old = OldEndOf(hunks, n) => OnlyRemoves(H)
    BY <1>1, <1>2, <1>3, <1>4 DEF OnlyRemoves
<1>6. MarkersFollow(hunks) => MarkersFollow(H)
    BY <1>1, <1>2, <1>3 DEF MarkersFollow
<1>7. SomeMark(H) <=> SomeMark(hunks)
    <2>1. ASSUME NEW k \in 1 .. n
          PROVE  k \in DOMAIN H /\ H[k] = hunks[k]
        BY <1>1
    <2>2. \A k \in 1 .. n : \A j : MarksNew(H, k, j) <=> MarksNew(hunks, k, j)
        BY <2>1 DEF MarksNew
    <2>3. QED BY <2>1, <2>2, <1>1, <1>2, <1>3 DEF SomeMark
<1>8. QED BY <1>5, <1>6, <1>7 DEF H, n
-----------------------------------------------------------------------------
\* What is written, and what the parser makes of it.

WriteInv == TypeOK /\ WriterInv /\ ReadInv /\ HunksInv

\* A step of the writer leaves the rest alone.
LEMMA WritesRest ==
    ASSUME TypeOK, NEW line, Writes(line), writer' \in WriterState, parser' \in ParserState
    PROVE  /\ TypeOK'
           /\ OldLines' = OldLines
           /\ OldLines \in Seq(Texts)
<1>1. UNCHANGED <<old, deletes, current, applier, result>>
    BY DEF Writes
<1>2. TypeOK'
    BY <1>1 DEF TypeOK
<1>3. OldLines' = OldLines
    BY <1>1 DEF OldLines
<1>4. OldLines \in Seq(Texts)
    BY ContentLines DEF OldLines, TypeOK
<1>5. QED BY <1>2, <1>3, <1>4

\* The fields of what is written and read.
LEMMA StateFields ==
    ASSUME TypeOK
    PROVE  /\ writer.hunks \in Seq(DiffHunk)
           /\ writer.seen \in Nat
           /\ writer.new \in Seq(Texts)
           /\ Len(writer.new) \in Nat
           /\ writer.owed \in [old : Nat, new : Nat]
           /\ writer.owed.old \in Nat
           /\ writer.owed.new \in Nat
           /\ writer.due \in BOOLEAN
           /\ writer.closed \in BOOLEAN
           /\ writer.done \in BOOLEAN
           /\ OldLines \in Seq(Texts)
           /\ Len(OldLines) \in Nat
           /\ deletes \in BOOLEAN
           /\ old \in Contents \cup {Absent}
<1>1. /\ writer.hunks \in Seq(DiffHunk)
      /\ writer.seen \in Nat
      /\ writer.new \in Seq(Texts)
      /\ writer.owed \in [old : Nat, new : Nat]
      /\ writer.due \in BOOLEAN
      /\ writer.closed \in BOOLEAN
      /\ writer.done \in BOOLEAN
    BY DEF TypeOK, WriterState
<1>2. OldLines \in Seq(Texts)
    BY ContentLines DEF OldLines, TypeOK
<1>3. QED BY <1>1, <1>2 DEF TypeOK

\* Before the first hunk only the stage changes.
LEMMA NamesKept ==
    ASSUME WriterInv, UNCHANGED <<old, deletes>>, OldLines' = OldLines,
           writer.stage # "@",
           writer'.hunks = writer.hunks, writer'.seen = writer.seen, writer'.new = writer.new,
           writer'.owed = writer.owed, writer'.due = writer.due, writer'.closed = writer.closed
    PROVE  WriterInv'
<1>1. OpenHunk(writer')
    BY DEF WriterInv, OpenHunk
<1>2. writer.hunks = <<>>
    BY DEF WriterInv
<1>3. /\ TruthfulGaps(writer'.hunks, writer', OldLines)
      /\ TruthfulLines(writer'.hunks, writer', OldLines)
    BY <1>2 DEF TruthfulGaps, TruthfulLines
<1>4. DueLine(writer')
    BY DEF WriterInv, DueLine, LastLine
<1>5. ClosedSide(writer')
    BY DEF WriterInv, ClosedSide, LastLine
<1>6. QED BY <1>1, <1>2, <1>3, <1>4, <1>5 DEF WriterInv

LEMMA OldNameWritten == WriteInv /\ WriteOldName => WriteInv'
<1> SUFFICES ASSUME WriteInv, WriteOldName
             PROVE  WriteInv'
    OBVIOUS
<1> USE DEF WriteInv
<1> DEFINE line == [tag |-> "---", null |-> old = Absent]
<1>1. /\ ~writer.done
      /\ writer.stage = "---"
      /\ writer' = [writer EXCEPT !.stage = "+++"]
      /\ parser' = ParseLine(parser, line)
      /\ UNCHANGED <<old, deletes, current, applier, result>>
      /\ Writes(line)
    BY DEF WriteOldName, Writes
<1>2. Follows
    BY <1>1 DEF ReadInv
<1>3. parser.mode = "scan"
    BY <1>1, <1>2 DEF Follows
<1>4. parser' = [parser EXCEPT !.mode = "header", !.create = (old = Absent)]
    BY <1>1, <1>3 DEF ParseLine, ParseScan
<1>5. writer' \in WriterState /\ parser' \in ParserState
    BY <1>1, <1>4 DEF TypeOK, WriterState, ParserState
<1>6. TypeOK' /\ OldLines' = OldLines
    BY <1>1, <1>5, WritesRest
<1>7. /\ writer'.hunks = writer.hunks /\ writer'.seen = writer.seen /\ writer'.new = writer.new
      /\ writer'.owed = writer.owed /\ writer'.due = writer.due /\ writer'.closed = writer.closed
      /\ writer'.done = writer.done /\ writer'.stage = "+++"
    BY <1>1 DEF TypeOK, WriterState
<1>8. WriterInv'
    BY <1>1, <1>6, <1>7, NamesKept
<1>9. /\ parser'.hunks = parser.hunks /\ parser'.left = parser.left
      /\ parser'.found = parser.found /\ parser'.delete = parser.delete
      /\ parser'.create = (old = Absent) /\ parser'.mode = "header"
    BY <1>4 DEF TypeOK, ParserState
<1>10. Follows'
    BY <1>1, <1>2, <1>7, <1>9 DEF Follows
<1>11. ReadInv' /\ HunksInv'
    BY <1>1, <1>7, <1>10 DEF ReadInv, HunksInv
<1>12. QED BY <1>6, <1>8, <1>11

LEMMA NewNameWritten == WriteInv /\ WriteNewName => WriteInv'
<1> SUFFICES ASSUME WriteInv, WriteNewName
             PROVE  WriteInv'
    OBVIOUS
<1> USE DEF WriteInv
<1> DEFINE line == [tag |-> "+++", null |-> deletes]
<1>1. /\ ~writer.done
      /\ writer.stage = "+++"
      /\ writer' = [writer EXCEPT !.stage = "@"]
      /\ parser' = ParseLine(parser, line)
      /\ UNCHANGED <<old, deletes, current, applier, result>>
      /\ Writes(line)
    BY DEF WriteNewName, Writes
<1>2. Follows
    BY <1>1 DEF ReadInv
<1>3. parser.mode = "header"
    BY <1>1, <1>2 DEF Follows
<1>4. parser' = [parser EXCEPT !.mode = "scan", !.found = TRUE, !.delete = deletes]
    BY <1>1, <1>3 DEF ParseLine
<1>5. writer' \in WriterState /\ parser' \in ParserState
    BY <1>1, <1>4 DEF TypeOK, WriterState, ParserState
<1>6. TypeOK' /\ OldLines' = OldLines
    BY <1>1, <1>5, WritesRest
<1>7. /\ writer'.hunks = writer.hunks /\ writer'.seen = writer.seen /\ writer'.new = writer.new
      /\ writer'.owed = writer.owed /\ writer'.due = writer.due /\ writer'.closed = writer.closed
      /\ writer'.done = writer.done /\ writer'.stage = "@"
    BY <1>1 DEF TypeOK, WriterState
<1>8. WriterInv'
    BY <1>1, <1>6, <1>7, NamesKept
<1>9. /\ parser'.hunks = parser.hunks /\ parser'.left = parser.left
      /\ parser'.found = TRUE /\ parser'.delete = deletes
      /\ parser'.create = parser.create /\ parser'.mode = "scan"
    BY <1>4 DEF TypeOK, ParserState
<1>10. Settles /\ ~writer.due
    <2>1. writer.hunks = <<>> /\ Len(writer.hunks) = 0
        BY <1>1 DEF WriterInv
    <2>2. QED BY <2>1 DEF WriterInv, OpenHunk, Settles, Nowhere
<1>11. Follows'
    <2>1. Settles' /\ ~writer'.due
        BY <1>7, <1>10 DEF Settles
    <2>2. parser'.delete = (writer'.stage = "@" /\ deletes')
        <3>1. deletes' = deletes /\ deletes \in BOOLEAN
            BY <1>1 DEF TypeOK
        <3>2. QED BY <1>7, <1>9, <3>1
    <2>3. parser'.create = (writer'.stage # "---" /\ old' = Absent)
        BY <1>1, <1>2, <1>7, <1>9 DEF Follows
    <2>4. /\ parser'.hunks = writer'.hunks
          /\ parser'.left = writer'.owed
          /\ parser'.found = (writer'.stage = "@")
        BY <1>2, <1>7, <1>9 DEF Follows
    <2>5. QED BY <1>7, <1>9, <2>1, <2>2, <2>3, <2>4 DEF Follows
<1>12. ReadInv' /\ HunksInv'
    BY <1>1, <1>7, <1>11 DEF ReadInv, HunksInv
<1>13. QED BY <1>6, <1>8, <1>12

\* Some lines copied behind others.
CopyOf(out, lines, first, last) == out \o SubSeq(lines, first + 1, last)

SpanOf(first, last) == IF last > first THEN last - first ELSE 0

CopiesLines(copy, out, lines, first, count) ==
    /\ copy \in Seq(Texts)
    /\ Len(copy) = Len(out) + count
    /\ \A i \in 1 .. Len(out) : copy[i] = out[i]
    /\ \A i \in 1 .. count : copy[Len(out) + i] = lines[first + i]

LEMMA CopyLines ==
    ASSUME NEW out \in Seq(Texts), NEW lines \in Seq(Texts), NEW first \in Nat, NEW last \in Nat,
           last <= Len(lines)
    PROVE  CopiesLines(CopyOf(out, lines, first, last), out, lines, first, SpanOf(first, last))
<1> DEFINE part == SubSeq(lines, first + 1, last)
           count == SpanOf(first, last)
<1>1. part \in Seq(Texts) /\ Len(part) = count /\ \A i \in 1 .. count : part[i] = lines[first + i]
    <2>1. CASE last > first
        <3>1. first + 1 \in 1 .. Len(lines) + 1 /\ last \in 1 .. Len(lines)
            BY <2>1
        <3>2. part \in Seq(Texts)
            BY <3>1
        <3>3. Len(part) = last - first
            BY <2>1, <3>1
        <3>4. \A i \in 1 .. last - first : part[i] = lines[first + 1 + i - 1]
            BY <2>1, <3>1
        <3>5. \A i \in 1 .. last - first : first + 1 + i - 1 = first + i
            OBVIOUS
        <3>6. QED BY <2>1, <3>2, <3>3, <3>4, <3>5 DEF SpanOf
    <2>2. CASE ~(last > first)
        <3>1. part = <<>>
            BY <2>2
        <3>2. QED BY <2>2, <3>1 DEF SpanOf
    <2>3. QED BY <2>1, <2>2
<1> HIDE DEF part, count
<1>2. count \in Nat
    BY DEF count, SpanOf
<1>3. /\ out \o part \in Seq(Texts)
      /\ Len(out \o part) = Len(out) + count
      /\ \A i \in 1 .. Len(out) : (out \o part)[i] = out[i]
      /\ \A i \in 1 .. count : (out \o part)[Len(out) + i] = part[i]
    BY <1>1, <1>2, SMTT(30)
<1>4. QED BY <1>1, <1>3 DEF part, count, CopyOf, CopiesLines

\* Between hunks the end of the last one is where the writer is.
LEMMA RestingEnds ==
    ASSUME TypeOK, WriterInv, Settles
    PROVE  /\ OldEndOf(writer.hunks, Len(writer.hunks)) = writer.seen
           /\ NewEndOf(writer.hunks, Len(writer.hunks)) = Len(writer.new)
           /\ \A k \in DOMAIN writer.hunks : WholeHunk(writer.hunks[k])
<1> DEFINE n == Len(writer.hunks)
           hunk == writer.hunks[n]
<1>1. n \in Nat /\ DOMAIN writer.hunks = 1 .. n /\ writer.hunks \in Seq(DiffHunk)
    BY StateFields
<1>2. writer.seen \in Nat /\ Len(writer.new) \in Nat
    BY StateFields
<1>3. writer.owed.old = 0 /\ writer.owed.new = 0
    BY DEF Settles
<1>4. OpenHunk(writer)
    BY DEF WriterInv
<1>5. CASE n = 0
    <2>1. writer.seen = 0 /\ writer.new = <<>>
        BY <1>4, <1>5 DEF OpenHunk
    <2>2. QED BY <1>1, <1>5, <2>1 DEF OldEndOf, NewEndOf
<1>6. CASE n # 0
    <2>1. hunk \in DiffHunk
        BY <1>1, <1>6
    <2>2. /\ \A k \in 1 .. n - 1 : WholeHunk(writer.hunks[k])
          /\ OldAt(hunk, Len(hunk.lines)) = writer.seen
          /\ NewAt(hunk, Len(hunk.lines)) = Len(writer.new)
          /\ writer.seen + writer.owed.old = hunk.old + hunk.oldCount
          /\ Len(writer.new) + writer.owed.new = hunk.new + hunk.newCount
        BY <1>4, <1>6 DEF OpenHunk
    <2> HIDE DEF hunk, n
    <2>3. WholeHunk(hunk)
        BY <1>2, <1>3, <2>2 DEF WholeHunk
    <2>4. OldEndOf(writer.hunks, n) = writer.seen /\ NewEndOf(writer.hunks, n) = Len(writer.new)
        BY <1>2, <1>3, <1>6, <2>2 DEF OldEndOf, NewEndOf, hunk
    <2>5. \A k \in 1 .. n : k \in 1 .. n - 1 \/ k = n
        BY <1>1
    <2>6. QED BY <1>1, <2>2, <2>3, <2>4, <2>5 DEF n, hunk
<1>7. QED BY <1>5, <1>6

LEMMA HunkWritten ==
    ASSUME WriteInv, NEW gap \in 0 .. Len(OldLines) - writer.seen,
           NEW oldCount \in 0 .. Len(OldLines) - writer.seen, NEW newCount \in 0 .. MaxNew,
           WriteHunk(gap, oldCount, newCount)
    PROVE  WriteInv'
<1> USE DEF WriteInv
<1> DEFINE seen == writer.seen + gap
           hunk == [start |-> IF oldCount > 0 THEN seen + 1 ELSE seen,
                    oldCount |-> oldCount, newCount |-> newCount,
                    old |-> seen, new |-> Len(writer.new) + gap, lines |-> <<>>]
           new == writer.new \o SubSeq(OldLines, writer.seen + 1, seen)
           owed == [old |-> oldCount, new |-> newCount]
           n == Len(writer.hunks)
           line == [tag |-> "@", hunk |-> hunk]
<1>1. /\ ~writer.done
      /\ writer.stage = "@" /\ Settles /\ ~writer.due
      /\ oldCount + newCount > 0
      /\ seen + oldCount <= Len(OldLines)
      /\ deletes \/ writer.closed => gap + newCount = 0
      /\ writer' = [writer EXCEPT !.hunks = Append(@, hunk), !.seen = seen, !.new = new,
                                  !.owed = owed]
      /\ parser' = ParseLine(parser, line)
      /\ UNCHANGED <<old, deletes, current, applier, result>>
      /\ Writes(line)
    BY DEF WriteHunk, Writes
<1>2. /\ writer.hunks \in Seq(DiffHunk) /\ writer.seen \in Nat /\ Len(writer.new) \in Nat
      /\ writer.new \in Seq(Texts) /\ OldLines \in Seq(Texts) /\ Len(OldLines) \in Nat
      /\ n \in Nat /\ DOMAIN writer.hunks = 1 .. n /\ deletes \in BOOLEAN
    BY StateFields
<1>3. gap \in Nat /\ oldCount \in Nat /\ newCount \in Nat /\ seen \in Nat /\ seen <= Len(OldLines)
    BY <1>1, <1>2, DiffsAssumption
<1>4. hunk \in DiffHunk /\ owed \in [old : Nat, new : Nat]
    <2>1. <<>> \in Seq(DiffLine)
        OBVIOUS
    <2>2. QED BY <1>2, <1>3, <2>1 DEF DiffHunk
<1>5. /\ hunk.lines = <<>> /\ hunk.old = seen /\ hunk.new = Len(writer.new) + gap
      /\ hunk.oldCount = oldCount /\ hunk.newCount = newCount
      /\ hunk.start = IF hunk.oldCount > 0 THEN hunk.old + 1 ELSE hunk.old
      /\ owed.old = oldCount /\ owed.new = newCount
    OBVIOUS
<1> HIDE DEF hunk, owed
<1>6. /\ new \in Seq(Texts)
      /\ Len(new) = Len(writer.new) + gap
      /\ \A i \in 1 .. Len(writer.new) : new[i] = writer.new[i]
      /\ \A i \in 1 .. gap : new[Len(writer.new) + i] = OldLines[writer.seen + i]
    <2>1. SpanOf(writer.seen, seen) = gap
        BY <1>2, <1>3 DEF SpanOf
    <2>2. new = CopyOf(writer.new, OldLines, writer.seen, seen)
        BY DEF CopyOf
    <2> DEFINE copy == CopyOf(writer.new, OldLines, writer.seen, seen)
    <2> HIDE DEF seen, new
    <2>3. seen \in Nat /\ seen <= Len(OldLines)
        BY <1>3
    <2>4. CopiesLines(copy, writer.new, OldLines, writer.seen, SpanOf(writer.seen, seen))
        BY <1>2, <2>3, CopyLines
    <2> HIDE DEF copy
    <2>5. new = copy
        BY <2>2 DEF copy
    <2>6. QED BY <2>1, <2>4, <2>5 DEF CopiesLines
<1> DEFINE H == Append(writer.hunks, hunk)
<1>7. /\ H \in Seq(DiffHunk) /\ Len(H) = n + 1 /\ DOMAIN H = 1 .. n + 1
      /\ \A k \in 1 .. n : H[k] = writer.hunks[k]
      /\ H[n + 1] = hunk
      /\ \A k \in 0 .. n : OldEndOf(H, k) = OldEndOf(writer.hunks, k)
    BY <1>2, <1>4, <1>5, AppendHunk
<1>8. Follows
    BY <1>1 DEF ReadInv
<1> HIDE DEF seen, new, n
<1>9. /\ OldEndOf(writer.hunks, n) = writer.seen
      /\ NewEndOf(writer.hunks, n) = Len(writer.new)
      /\ \A k \in 1 .. n : WholeHunk(writer.hunks[k])
    BY <1>1, <1>2, RestingEnds DEF n
<1>10. Chained(H)
    <2>1. /\ hunk.old >= OldEndOf(writer.hunks, n)
          /\ hunk.old - OldEndOf(writer.hunks, n) = hunk.new - NewEndOf(writer.hunks, n)
        BY <1>2, <1>3, <1>5, <1>9 DEF seen
    <2>2. Chained(writer.hunks)
        BY DEF WriterInv
    <2>3. QED BY <1>2, <1>4, <1>5, <2>1, <2>2, AppendChained DEF n
<1> HIDE DEF H
<1>11. writer' \in WriterState
    BY <1>1, <1>3, <1>4, <1>6, <1>7 DEF TypeOK, WriterState, H
<1>12. /\ writer'.hunks = H /\ writer'.seen = seen /\ writer'.new = new /\ writer'.owed = owed
       /\ writer'.due = writer.due /\ writer'.closed = writer.closed
       /\ writer'.done = writer.done /\ writer'.stage = "@"
    BY <1>1 DEF TypeOK, WriterState, H
<1>13. /\ parser.mode \in {"scan", "after"} /\ parser.found = TRUE
       /\ parser.hunks = writer.hunks
    BY <1>1, <1>8 DEF Follows
<1>14. parser' = [parser EXCEPT !.hunks = H, !.left = owed, !.mode = "body"]
    <2> DEFINE s == [parser EXCEPT !.hunks = Append(@, hunk), !.left = owed]
    <2>1. line.tag = "@" /\ line.hunk = hunk
        OBVIOUS
    <2>2. parser' = Settled(s)
        BY <1>1, <1>5, <1>13, <2>1 DEF ParseLine, ParseScan, owed
    <2>3. s.left = owed
        BY DEF TypeOK, ParserState
    <2>4. Settled(s) = [s EXCEPT !.mode = "body"]
        <3> HIDE DEF s
        <3>1. s.left.old > 0 \/ s.left.new > 0
            BY <1>1, <1>3, <1>5, <2>3
        <3>2. QED BY <3>1 DEF Settled
    <2>5. QED BY <2>2, <2>4, <1>13 DEF H
<1>15. parser' \in ParserState
    <2>1. owed \in [old : Int, new : Int]
        BY <1>3 DEF owed
    <2>2. QED BY <1>14, <1>7, <2>1 DEF TypeOK, ParserState
<1>16. /\ parser'.hunks = H /\ parser'.left = owed /\ parser'.mode = "body"
       /\ parser'.found = parser.found /\ parser'.create = parser.create
       /\ parser'.delete = parser.delete
    BY <1>14 DEF TypeOK, ParserState
<1>17. TypeOK' /\ OldLines' = OldLines
    BY <1>1, <1>11, <1>15, WritesRest
<1>18. TruthfulGaps(writer'.hunks, writer', OldLines')
       /\ TruthfulLines(writer'.hunks, writer', OldLines')
    <2>1. /\ TruthfulGaps(writer.hunks, writer, OldLines)
          /\ TruthfulLines(writer.hunks, writer, OldLines)
          /\ Chained(writer.hunks)
          /\ writer \in WriterState
        BY DEF WriterInv, TypeOK
    <2>2. /\ writer.seen <= writer'.seen
          /\ Len(writer.new) <= Len(writer'.new)
          /\ \A i \in 1 .. Len(writer.new) : writer'.new[i] = writer.new[i]
        BY <1>2, <1>3, <1>6, <1>12 DEF seen
    <2>3. TruthfulGaps(writer.hunks, writer', OldLines)
        BY <1>2, <1>11, <2>1, <2>2, GapsGrow
    <2>4. TruthfulLines(writer.hunks, writer', OldLines)
        BY <1>2, <1>11, <2>1, <2>2, LinesGrow
    <2>5. /\ hunk.new <= Len(writer'.new)
          /\ hunk.old <= writer'.seen
          /\ \A i \in 1 .. hunk.old - OldEndOf(writer.hunks, n) :
               writer'.new[NewEndOf(writer.hunks, n) + i] =
                    OldLines[OldEndOf(writer.hunks, n) + i]
        <3>1. hunk.old - OldEndOf(writer.hunks, n) = gap
            BY <1>2, <1>3, <1>5, <1>9 DEF seen
        <3>2. hunk.new <= Len(writer'.new) /\ hunk.old <= writer'.seen
            BY <1>2, <1>3, <1>5, <1>6, <1>12
        <3>3. \A i \in 1 .. gap : writer'.new[NewEndOf(writer.hunks, n) + i] =
                    OldLines[OldEndOf(writer.hunks, n) + i]
            BY <1>6, <1>9, <1>12
        <3>4. QED BY <3>1, <3>2, <3>3
    <2>6. writer.hunks \in Seq(DiffHunk) /\ hunk \in DiffHunk /\ hunk.lines = <<>>
        BY <1>2, <1>4, <1>5
    <2>7. /\ TruthfulGaps(Append(writer.hunks, hunk), writer', OldLines)
          /\ TruthfulLines(Append(writer.hunks, hunk), writer', OldLines)
        BY <2>3, <2>4, <2>5, <2>6, AppendTruthful DEF n
    <2>8. QED BY <1>12, <1>17, <2>7 DEF H
<1>19. OpenHunk(writer')
    <2>1. Len(H) = n + 1 /\ n + 1 # 0 /\ H[n + 1] = hunk
        BY <1>2, <1>7 DEF n
    <2>2. Len(hunk.lines) = 0
        BY <1>5
    <2>3. OldAt(hunk, 0) = seen /\ NewAt(hunk, 0) = Len(new)
        BY <1>5, <1>6 DEF OldAt, NewAt
    <2>4. \A k \in 1 .. n + 1 - 1 : WholeHunk(H[k])
        BY <1>2, <1>7, <1>9 DEF n
    <2>5. seen + owed.old = hunk.old + hunk.oldCount /\ Len(new) + owed.new = hunk.new + hunk.newCount
        BY <1>3, <1>5, <1>6
    <2> DEFINE last == writer'.hunks[Len(writer'.hunks)]
    <2>6. Len(writer'.hunks) # 0 /\ last = hunk
        BY <1>12, <2>1
    <2>7. \A k \in 1 .. Len(writer'.hunks) - 1 : WholeHunk(writer'.hunks[k])
        <3>1. Len(writer'.hunks) - 1 = n + 1 - 1
            BY <1>2, <1>12, <2>1 DEF n
        <3>2. QED BY <1>12, <2>4, <3>1
    <2>8. /\ OldAt(last, Len(last.lines)) = writer'.seen
          /\ NewAt(last, Len(last.lines)) = Len(writer'.new)
          /\ writer'.seen + writer'.owed.old = last.old + last.oldCount
          /\ Len(writer'.new) + writer'.owed.new = last.new + last.newCount
        BY <1>12, <2>2, <2>3, <2>5, <2>6
    <2>9. QED BY <2>6, <2>7, <2>8 DEF OpenHunk
<1>20. deletes' => OnlyRemoves(writer'.hunks)
    <2>1. SUFFICES ASSUME deletes
                   PROVE  OnlyRemoves(H)
        BY <1>1, <1>12
    <2>2. hunk.old = OldEndOf(writer.hunks, n)
        BY <1>1, <1>2, <1>3, <1>5, <1>9, <2>1 DEF seen
    <2>3. OnlyRemoves(writer.hunks)
        BY <2>1 DEF WriterInv
    <2>4. QED BY <1>2, <1>4, <1>5, <2>2, <2>3, AppendMarks DEF n, H
<1>21. MarkersFollow(writer'.hunks) /\ (SomeMark(writer'.hunks) <=> SomeMark(writer.hunks))
    <2>1. MarkersFollow(writer.hunks)
        BY DEF WriterInv
    <2>2. QED BY <1>2, <1>4, <1>5, <1>12, <2>1, AppendMarks DEF n, H
<1>22. DueLine(writer') /\ ClosedSide(writer')
    <2>1. DueLine(writer')
        BY <1>1, <1>12 DEF DueLine
    <2>2. ClosedSide(writer)
        BY DEF WriterInv
    <2>3. writer.closed => new # <<>> /\ owed.new = 0
        <3>1. SUFFICES ASSUME writer.closed
                       PROVE  new # <<>> /\ owed.new = 0
            OBVIOUS
        <3>2. writer.new # <<>> /\ Len(writer.new) > 0
            BY <1>2, <2>2, <3>1 DEF ClosedSide
        <3>3. Len(new) > 0 /\ newCount = 0
            BY <1>1, <1>2, <1>3, <1>6, <3>1, <3>2
        <3>4. QED BY <1>5, <1>6, <3>3
    <2>4. ClosedSide(writer')
        BY <1>1, <1>12, <1>21, <2>2, <2>3 DEF ClosedSide
    <2>5. QED BY <2>1, <2>4
<1>23. /\ writer'.seen + writer'.owed.old <= Len(OldLines')
       /\ writer'.stage # "@" => writer'.hunks = <<>>
       /\ deletes' => old' # Absent /\ writer'.new = <<>> /\ writer'.owed.new = 0
    <2>1. deletes => old # Absent /\ new = <<>> /\ owed.new = 0
        <3>1. SUFFICES ASSUME deletes
                       PROVE  old # Absent /\ new = <<>> /\ owed.new = 0
            OBVIOUS
        <3>2. old # Absent /\ writer.new = <<>>
            BY <3>1 DEF WriterInv
        <3>3. gap = 0 /\ newCount = 0
            BY <1>1, <1>3, <3>1
        <3>4. Len(new) = 0
            BY <1>6, <3>2, <3>3
        <3>5. QED BY <1>5, <1>6, <3>2, <3>3, <3>4
    <2>2. QED BY <1>1, <1>5, <1>12, <1>17, <2>1
<1>24. WriterInv'
    <2>1. Chained(writer'.hunks)
        BY <1>10, <1>12
    <2>2. QED BY <1>18, <1>19, <1>20, <1>21, <1>22, <1>23, <2>1 DEF WriterInv
<1>25. Follows'
    <2>1. ~Settles'
        <3>1. owed # [old |-> 0, new |-> 0]
            BY <1>1, <1>3, <1>5
        <3>2. QED BY <1>12, <3>1 DEF Settles
    <2>2. /\ parser.create = (old = Absent)
          /\ parser.delete = deletes
        BY <1>1, <1>2, <1>8 DEF Follows
    <2>3. parser'.create = (writer'.stage # "---" /\ old' = Absent)
        BY <1>1, <1>12, <1>16, <2>2
    <2>4. parser'.delete = (writer'.stage = "@" /\ deletes')
        BY <1>1, <1>2, <1>12, <1>16, <2>2
    <2>5. QED BY <1>12, <1>13, <1>16, <2>1, <2>3, <2>4 DEF Follows
<1>26. ReadInv' /\ HunksInv'
    BY <1>1, <1>12, <1>25 DEF ReadInv, HunksInv
<1>27. QED BY <1>17, <1>24, <1>26

\* A line behind the last of the open hunk.
LEMMA AddToOpen ==
    ASSUME NEW w \in WriterState, NEW v \in WriterState, NEW line \in DiffLine,
           Len(w.hunks) > 0, OpenHunk(w), v.hunks = AddTo(w.hunks, line),
           line.old = w.seen, line.new = Len(w.new),
           v.seen = w.seen + IF line.tag \in OldSide THEN 1 ELSE 0,
           Len(v.new) = Len(w.new) + IF line.tag \in NewSide THEN 1 ELSE 0,
           v.seen + v.owed.old = w.seen + w.owed.old,
           Len(v.new) + v.owed.new = Len(w.new) + w.owed.new
    PROVE  /\ OpenHunk(v)
           /\ Len(v.hunks) = Len(w.hunks)
           /\ LastLine(v) = line
           /\ Len(v.hunks[Len(v.hunks)].lines) > 0
           /\ Chained(w.hunks) => Chained(v.hunks)
<1> DEFINE n == Len(w.hunks)
           m == Len(w.hunks[n].lines)
           H == AddTo(w.hunks, line)
<1>1. w.hunks \in Seq(DiffHunk) /\ n \in Nat /\ n > 0 /\ n \in DOMAIN w.hunks
      /\ DOMAIN w.hunks = 1 .. n
    <2> HIDE DEF m, H
    <2>1. w.hunks \in Seq(DiffHunk)
        BY DEF WriterState
    <2>2. n \in Nat /\ DOMAIN w.hunks = 1 .. n
        BY <2>1, HunksType
    <2>3. n > 0
        OBVIOUS
    <2> HIDE DEF n
    <2>4. n \in DOMAIN w.hunks
        BY <2>2, <2>3
    <2>5. QED BY <2>1, <2>2, <2>3, <2>4
<1>2. w.hunks[n] \in DiffHunk /\ m \in Nat
    BY <1>1, HunksType, HunkType
<1>3. /\ Len(H) = n
      /\ \A k \in DOMAIN w.hunks : k # n => H[k] = w.hunks[k]
      /\ H[n].old = w.hunks[n].old /\ H[n].oldCount = w.hunks[n].oldCount
      /\ H[n].new = w.hunks[n].new /\ H[n].newCount = w.hunks[n].newCount
    BY <1>1, AddToType
<1>4. /\ Len(H[n].lines) = m + 1
      /\ H[n].lines[m + 1] = line
      /\ OldAt(H[n], m + 1) = line.old + IF line.tag \in OldSide THEN 1 ELSE 0
      /\ NewAt(H[n], m + 1) = line.new + IF line.tag \in NewSide THEN 1 ELSE 0
    BY <1>1, AddToPlaces
<1>5. /\ \A k \in 1 .. n - 1 : WholeHunk(w.hunks[k])
      /\ OldAt(w.hunks[n], m) = w.seen
      /\ NewAt(w.hunks[n], m) = Len(w.new)
      /\ w.seen + w.owed.old = w.hunks[n].old + w.hunks[n].oldCount
      /\ Len(w.new) + w.owed.new = w.hunks[n].new + w.hunks[n].newCount
    BY <1>1 DEF OpenHunk
<1>6. Chained(w.hunks) => Chained(H)
    BY <1>1, <1>5, AddToChained
<1> HIDE DEF H, n, m
<1>7. v.hunks = H
    BY DEF H
<1>8. /\ \A k \in 1 .. n - 1 : WholeHunk(H[k])
      /\ OldAt(H[n], m + 1) = v.seen
      /\ NewAt(H[n], m + 1) = Len(v.new)
      /\ v.seen + v.owed.old = H[n].old + H[n].oldCount
      /\ Len(v.new) + v.owed.new = H[n].new + H[n].newCount
    <2>1. \A k \in 1 .. n - 1 : k \in DOMAIN w.hunks /\ k # n
        BY <1>1
    <2>2. QED BY <2>1, <1>3, <1>4, <1>5
<1>9. OpenHunk(v)
    <2>1. Len(v.hunks) = n /\ n # 0
        BY <1>1, <1>3, <1>7
    <2>2. QED BY <2>1, <1>4, <1>7, <1>8 DEF OpenHunk
<1>10. LastLine(v) = line /\ Len(v.hunks) = n /\ Len(v.hunks[Len(v.hunks)].lines) > 0
    BY <1>2, <1>3, <1>4, <1>7 DEF LastLine
<1>11. QED BY <1>6, <1>7, <1>9, <1>10 DEF n

\* Where something is owed there is a hunk.
LEMMA OwedHunk ==
    ASSUME TypeOK, WriterInv, ~Settles \/ writer.due
    PROVE  Len(writer.hunks) > 0
<1>1. Len(writer.hunks) \in Nat
    BY StateFields
<1>2. CASE Len(writer.hunks) = 0
    <2>1. OpenHunk(writer)
        BY DEF WriterInv
    <2>2. QED BY <1>2, <2>1 DEF OpenHunk, Settles, Nowhere
<1>3. QED BY <1>1, <1>2

LEMMA LineWritten ==
    ASSUME WriteInv, NEW tag \in OldSide \cup NewSide, NEW text \in Texts, NEW unended \in BOOLEAN,
           WriteLine(tag, text, unended)
    PROVE  WriteInv'
<1> USE DEF WriteInv
<1> DEFINE line == Here(tag, text)
           H == AddTo(writer.hunks, line)
           owed == Less(writer.owed, tag)
           seen == IF tag \in OldSide THEN writer.seen + 1 ELSE writer.seen
           new == IF tag \in NewSide THEN Append(writer.new, text) ELSE writer.new
           closed == writer.closed \/ (unended /\ tag \in NewSide)
           a == IF tag \in OldSide THEN 1 ELSE 0
           b == IF tag \in NewSide THEN 1 ELSE 0
<1>1. /\ ~writer.done
      /\ writer.stage = "@" /\ ~writer.due
      /\ tag \in OldSide =>
            writer.owed.old > 0 /\ text = OldLines[writer.seen + 1]
      /\ tag \in NewSide =>
            writer.owed.new > 0 /\ (unended => writer.owed.new = 1)
      /\ writer' = [Shown(writer, line) EXCEPT !.seen = seen, !.new = new, !.owed = owed,
                                               !.due = unended, !.closed = closed]
      /\ parser' = ParseLine(parser, line)
      /\ UNCHANGED <<old, deletes, current, applier, result>>
      /\ Writes(line)
    <2>1. /\ Shown(writer, line).seen = writer.seen /\ Shown(writer, line).new = writer.new
          /\ Shown(writer, line).owed = writer.owed /\ Shown(writer, line).closed = writer.closed
        BY DEF TypeOK, WriterState, Shown
    <2> HIDE DEF line
    <2>2. writer' = [Shown(writer, line) EXCEPT !.seen = seen, !.new = new, !.owed = owed,
                                                !.due = unended, !.closed = closed]
        BY <2>1 DEF WriteLine, line
    <2>3. QED BY <2>2 DEF WriteLine, Writes, line
<1>2. /\ writer.hunks \in Seq(DiffHunk) /\ writer.seen \in Nat /\ Len(writer.new) \in Nat
      /\ writer.new \in Seq(Texts) /\ OldLines \in Seq(Texts) /\ Len(OldLines) \in Nat
      /\ deletes \in BOOLEAN /\ writer.closed \in BOOLEAN
      /\ writer.owed.old \in Nat /\ writer.owed.new \in Nat
    BY StateFields
<1>3. ~Settles /\ Len(writer.hunks) > 0
    <2>1. ~Settles
        <3>1. CASE tag \in OldSide
            <4>1. writer.owed.old > 0
                BY <1>1, <3>1
            <4>2. QED BY <1>2, <4>1 DEF Settles
        <3>2. CASE tag \in NewSide
            <4>1. writer.owed.new > 0
                BY <1>1, <3>2
            <4>2. QED BY <1>2, <4>1 DEF Settles
        <3>3. QED BY <3>1, <3>2
    <2>2. QED BY <2>1, OwedHunk
<1>4. /\ line \in DiffLine /\ line.tag = tag /\ line.text = text
      /\ line.old = writer.seen /\ line.new = Len(writer.new)
    <2>1. tag \in Tags
        BY DEF Tags, OldSide, NewSide
    <2>2. QED BY <1>2, <2>1 DEF Here, DiffLine
<1>5. /\ a \in {0, 1} /\ (tag \in OldSide => a = 1) /\ (tag \notin OldSide => a = 0)
      /\ b \in {0, 1} /\ (tag \in NewSide => b = 1) /\ (tag \notin NewSide => b = 0)
      /\ owed.old = writer.owed.old - a /\ owed.new = writer.owed.new - b
      /\ seen = writer.seen + a
      /\ owed = [old |-> owed.old, new |-> owed.new]
    BY <1>2 DEF Less
<1>6. /\ new \in Seq(Texts)
      /\ Len(new) = Len(writer.new) + b
      /\ \A i \in 1 .. Len(writer.new) : new[i] = writer.new[i]
      /\ tag \in NewSide => new[Len(writer.new) + 1] = text
      /\ closed \in BOOLEAN
    <2>1. CASE tag \in NewSide
        <3>1. new = Append(writer.new, text) /\ b = 1
            BY <2>1
        <3>2. closed \in BOOLEAN
            OBVIOUS
        <3> HIDE DEF new, b, closed
        <3>3. QED BY <1>2, <3>1, <3>2
    <2>2. CASE tag \notin NewSide
        <3>1. new = writer.new /\ b = 0
            BY <2>2
        <3>2. closed \in BOOLEAN
            OBVIOUS
        <3> HIDE DEF new, b, closed
        <3>3. QED BY <1>2, <2>2, <3>1, <3>2
    <2>3. QED BY <2>1, <2>2
<1>7. H \in Seq(DiffHunk)
    BY <1>2, <1>3, <1>4, AddToType
<1>8. Shown(writer, line) = [writer EXCEPT !.hunks = H]
    BY ShownHunks DEF TypeOK
<1>9. Added(parser, line) = [parser EXCEPT !.hunks = AddTo(parser.hunks, line)]
    BY AddedHunks DEF TypeOK
<1>10. tag # "\\" /\ tag # ""
    BY DEF OldSide, NewSide
<1> HIDE DEF line, H, owed, seen, new, closed, a, b
<1>6a. /\ owed \in [old : Nat, new : Nat] /\ owed.old \in Nat /\ owed.new \in Nat
       /\ seen \in Nat
    <2>1. writer.owed.old - a \in Nat
        BY <1>1, <1>2, <1>5
    <2>2. writer.owed.new - b \in Nat
        BY <1>1, <1>2, <1>5
    <2>3. writer.seen + a \in Nat
        BY <1>2, <1>5
    <2>4. QED BY <1>5, <2>1, <2>2, <2>3
<1>11. writer' \in WriterState
    BY <1>1, <1>6, <1>6a, <1>7, <1>8 DEF TypeOK, WriterState
<1>12. /\ writer'.hunks = H /\ writer'.seen = seen /\ writer'.new = new /\ writer'.owed = owed
       /\ writer'.due = unended /\ writer'.closed = closed
       /\ writer'.done = writer.done /\ writer'.stage = "@"
    BY <1>1, <1>8 DEF TypeOK, WriterState
<1>13. Follows
    BY <1>1 DEF ReadInv
<1>14. parser.mode = "body" /\ parser.hunks = writer.hunks /\ parser.left = writer.owed
    BY <1>1, <1>3, <1>13 DEF Follows
<1> DEFINE mode == IF owed.old > 0 \/ owed.new > 0 THEN "body" ELSE "after"
<1>15. parser' = [parser EXCEPT !.hunks = H, !.left = owed, !.mode = mode]
    <2> DEFINE s == [parser EXCEPT !.hunks = H, !.left = owed]
    <2>1. [line EXCEPT !.tag = IF @ = "" THEN " " ELSE @] = line
        BY <1>4, <1>10 DEF DiffLine
    <2>2. ParseLine(parser, line) = ParseBody(parser, line)
        BY <1>14 DEF ParseLine
    <2>3. ParseBody(parser, line) = Settled([Added(parser, line) EXCEPT !.left = Less(@, tag)])
        BY <1>4, <1>10, <2>1 DEF ParseBody
    <2>4. Added(parser, line) = [parser EXCEPT !.hunks = H]
        BY <1>9, <1>14 DEF H
    <2>5. [Added(parser, line) EXCEPT !.left = Less(@, tag)] = s
        BY <1>14, <2>4 DEF owed, TypeOK, ParserState
    <2>6. s.left = owed
        BY DEF TypeOK, ParserState
    <2>7. Settled(s) = [s EXCEPT !.mode = mode]
        <3> HIDE DEF s
        <3>1. ~(s.left.old < 0 \/ s.left.new < 0)
            BY <1>6a, <2>6
        <3>2. QED BY <2>6, <3>1 DEF Settled
    <2>8. QED BY <1>1, <2>2, <2>3, <2>5, <2>7
<1>16. mode \in {"body", "after"} /\ (mode = "body" <=> owed # [old |-> 0, new |-> 0])
    <2>1. owed.old > 0 \/ owed.new > 0 <=> owed # [old |-> 0, new |-> 0]
        <3>1. owed = [old |-> 0, new |-> 0] <=> owed.old = 0 /\ owed.new = 0
            BY <1>5
        <3>2. QED BY <1>6a, <3>1
    <2>2. QED BY <2>1
<1> HIDE DEF mode
<1>17. parser' \in ParserState
    <2>1. owed \in [old : Int, new : Int]
        BY <1>6a
    <2>2. QED BY <1>15, <1>16, <1>7, <2>1 DEF TypeOK, ParserState
<1>18. /\ parser'.hunks = H /\ parser'.left = owed /\ parser'.mode = mode
       /\ parser'.found = parser.found /\ parser'.create = parser.create
       /\ parser'.delete = parser.delete
    BY <1>15 DEF TypeOK, ParserState
<1>19. TypeOK' /\ OldLines' = OldLines
    BY <1>1, <1>11, <1>17, WritesRest
<1>20. /\ OpenHunk(writer')
       /\ LastLine(writer') = line
       /\ Len(writer'.hunks) > 0
       /\ Len(writer'.hunks[Len(writer'.hunks)].lines) > 0
       /\ Chained(writer'.hunks)
    <2>1. OpenHunk(writer) /\ Chained(writer.hunks) /\ writer \in WriterState
        BY DEF WriterInv, TypeOK
    <2>2. /\ writer'.hunks = AddTo(writer.hunks, line)
          /\ writer'.seen = writer.seen + IF line.tag \in OldSide THEN 1 ELSE 0
          /\ Len(writer'.new) = Len(writer.new) + IF line.tag \in NewSide THEN 1 ELSE 0
          /\ writer'.seen + writer'.owed.old = writer.seen + writer.owed.old
          /\ Len(writer'.new) + writer'.owed.new = Len(writer.new) + writer.owed.new
        <3>1. /\ writer'.seen = writer.seen + a
              /\ Len(writer'.new) = Len(writer.new) + b
              /\ writer'.owed.old = writer.owed.old - a
              /\ writer'.owed.new = writer.owed.new - b
            BY <1>5, <1>6, <1>12
        <3>2. a \in Int /\ b \in Int
            BY <1>5
        <3>3. /\ writer'.seen + writer'.owed.old = writer.seen + writer.owed.old
              /\ Len(writer'.new) + writer'.owed.new = Len(writer.new) + writer.owed.new
            BY <1>2, <3>1, <3>2, SMTT(30)
        <3>4. a = (IF line.tag \in OldSide THEN 1 ELSE 0) /\ b = (IF line.tag \in NewSide THEN 1 ELSE 0)
            BY <1>4 DEF a, b
        <3>5. writer'.hunks = AddTo(writer.hunks, line)
            BY <1>12 DEF H
        <3>6. QED BY <3>1, <3>3, <3>4, <3>5
    <2>3. QED BY <1>3, <1>4, <1>11, <2>1, <2>2, AddToOpen
<1>21. TruthfulGaps(writer'.hunks, writer', OldLines')
       /\ TruthfulLines(writer'.hunks, writer', OldLines')
    <2>1. /\ TruthfulGaps(writer.hunks, writer, OldLines)
          /\ TruthfulLines(writer.hunks, writer, OldLines)
          /\ Chained(writer.hunks)
          /\ writer \in WriterState
        BY DEF WriterInv, TypeOK
    <2>2. /\ writer.seen <= writer'.seen
          /\ Len(writer.new) <= Len(writer'.new)
          /\ \A i \in 1 .. Len(writer.new) : writer'.new[i] = writer.new[i]
        BY <1>2, <1>5, <1>6, <1>12
    <2>3. TruthfulGaps(writer.hunks, writer', OldLines)
        BY <1>2, <1>11, <2>1, <2>2, GapsGrow
    <2>4. TruthfulLines(writer.hunks, writer', OldLines)
        BY <1>2, <1>11, <2>1, <2>2, LinesGrow
    <2>5. TruthfulLine(line, writer', OldLines)
        <3>1. tag \in OldSide => line.old < seen /\ line.text = OldLines[line.old + 1]
            BY <1>1, <1>2, <1>4, <1>5
        <3>2. tag \in NewSide => line.new < Len(new) /\ line.text = new[line.new + 1]
            BY <1>2, <1>4, <1>5, <1>6
        <3>3. QED BY <1>4, <1>12, <3>1, <3>2 DEF TruthfulLine
    <2>6. QED BY <1>2, <1>3, <1>4, <1>12, <1>19, <2>3, <2>4, <2>5, AddToTruthful DEF H
<1>22. deletes' => OnlyRemoves(writer'.hunks)
    <2>1. SUFFICES ASSUME deletes
                   PROVE  OnlyRemoves(H)
        BY <1>1, <1>12
    <2>2. tag = "-"
        <3>1. writer.owed.new = 0
            BY <2>1 DEF WriterInv
        <3>2. tag \notin NewSide
            <4>1. ~(writer.owed.new > 0)
                BY <3>1
            <4>2. QED BY <1>1, <4>1
        <3>3. tag \in OldSide
            BY <3>2
        <3>4. tag = " " \/ tag = "-"
            BY <3>3 DEF OldSide
        <3>5. tag # " "
            BY <3>2 DEF NewSide
        <3>6. QED BY <3>4, <3>5
    <2>3. OnlyRemoves(writer.hunks)
        BY <2>1 DEF WriterInv
    <2>4. QED BY <1>2, <1>3, <1>4, <2>2, <2>3, AddToRemoves DEF H
<1>23. MarkersFollow(writer'.hunks) /\ (SomeMark(writer'.hunks) <=> SomeMark(writer.hunks))
    <2>1. MarkersFollow(writer.hunks)
        BY DEF WriterInv
    <2>2. line.tag # "\\"
        BY <1>4, <1>10
    <2>3. QED BY <1>2, <1>3, <1>4, <1>12, <2>1, <2>2, AddToMarks DEF H
<1>24. DueLine(writer') /\ ClosedSide(writer')
    <2>1. DueLine(writer')
        BY <1>4, <1>10, <1>12, <1>20 DEF DueLine, closed
    <2>2. ClosedSide(writer)
        BY DEF WriterInv
    <2>3. ClosedSide(writer')
        <3>1. CASE writer.closed
            <4>1. writer.owed.new = 0 /\ writer.new # <<>> /\ SomeMark(writer.hunks)
                BY <1>1, <2>2, <3>1 DEF ClosedSide
            <4>2. tag \notin NewSide
                BY <1>1, <4>1
            <4>3. new = writer.new /\ owed.new = 0
                <5>1. new = writer.new
                    BY <4>2 DEF new
                <5>2. QED BY <1>5, <4>1, <4>2, <5>1
            <4>4. closed = TRUE
                BY <3>1 DEF closed
            <4>5. writer'.owed.new = 0 /\ writer'.new # <<>> /\ SomeMark(writer'.hunks)
                BY <1>12, <1>23, <4>1, <4>3
            <4>6. writer'.closed
                BY <1>12, <4>4
            <4>7. QED BY <4>5, <4>6 DEF ClosedSide
        <3>2. CASE ~writer.closed /\ unended /\ tag \in NewSide
            <4>1. owed.new = 0 /\ new # <<>>
                <5>1. Len(new) > 0
                    BY <1>2, <1>5, <1>6, <3>2
                <5>2. new # <<>>
                    BY <5>1
                <5>3. QED BY <1>1, <1>5, <3>2, <5>2
            <4>2. writer'.due
                BY <1>12, <3>2
            <4>3. LastLine(writer').tag \in NewSide
                BY <1>4, <1>20, <3>2
            <4>4. closed = TRUE
                BY <3>2 DEF closed
            <4>5. writer'.closed
                BY <1>12, <4>4
            <4>6. writer'.owed.new = 0 /\ writer'.new # <<>>
                BY <1>12, <4>1
            <4>7. QED BY <4>2, <4>3, <4>5, <4>6 DEF ClosedSide
        <3>3. CASE ~writer.closed /\ ~(unended /\ tag \in NewSide)
            <4>1. closed = FALSE
                BY <3>3 DEF closed
            <4>2. ~writer'.closed
                BY <1>12, <4>1
            <4>3. ~SomeMark(writer.hunks)
                BY <2>2, <3>3 DEF ClosedSide
            <4>4. ~SomeMark(writer'.hunks)
                BY <1>23, <4>3
            <4>5. QED BY <4>2, <4>4 DEF ClosedSide
        <3>4. QED BY <3>1, <3>2, <3>3
    <2>4. QED BY <2>1, <2>3
<1>25. /\ writer'.seen + writer'.owed.old <= Len(OldLines')
       /\ writer'.stage # "@" => writer'.hunks = <<>>
       /\ deletes' => old' # Absent /\ writer'.new = <<>> /\ writer'.owed.new = 0
    <2>1. deletes => old # Absent /\ new = <<>> /\ owed.new = 0
        <3>1. SUFFICES ASSUME deletes
                       PROVE  old # Absent /\ new = <<>> /\ owed.new = 0
            OBVIOUS
        <3>2. old # Absent /\ writer.new = <<>> /\ writer.owed.new = 0
            BY <3>1 DEF WriterInv
        <3>3. tag \notin NewSide
            BY <1>1, <3>2
        <3>4. QED BY <1>5, <3>2, <3>3 DEF new
    <2>2. writer.seen + writer.owed.old <= Len(OldLines)
        BY DEF WriterInv
    <2>3. QED BY <1>1, <1>2, <1>5, <1>6, <1>12, <1>19, <2>1, <2>2, SMTT(30)
<1>26. WriterInv'
    BY <1>20, <1>21, <1>22, <1>23, <1>24, <1>25 DEF WriterInv
<1>27. Follows'
    <2>1. Settles' <=> mode = "after"
        BY <1>12, <1>16 DEF Settles
    <2>2. /\ parser.create = (old = Absent)
          /\ parser.delete = deletes
          /\ parser.found = TRUE
        BY <1>1, <1>2, <1>13 DEF Follows
    <2>3. parser'.create = (writer'.stage # "---" /\ old' = Absent)
        BY <1>1, <1>12, <1>18, <2>2
    <2>4. parser'.delete = (writer'.stage = "@" /\ deletes')
        BY <1>1, <1>2, <1>12, <1>18, <2>2
    <2>5. QED BY <1>12, <1>16, <1>18, <2>1, <2>2, <2>3, <2>4 DEF Follows
<1>28. ReadInv' /\ HunksInv'
    BY <1>1, <1>12, <1>27 DEF ReadInv, HunksInv
<1>29. QED BY <1>19, <1>26, <1>28

LEMMA MarkerWritten == WriteInv /\ WriteMarker => WriteInv'
<1> SUFFICES ASSUME WriteInv, WriteMarker
             PROVE  WriteInv'
    OBVIOUS
<1> USE DEF WriteInv
<1> DEFINE line == Here("\\", Blank)
           H == AddTo(writer.hunks, line)
           n == Len(writer.hunks)
           m == Len(writer.hunks[n].lines)
<1>1. /\ ~writer.done /\ writer.due
      /\ writer' = [Shown(writer, line) EXCEPT !.due = FALSE]
      /\ parser' = ParseLine(parser, line)
      /\ UNCHANGED <<old, deletes, current, applier, result>>
      /\ Writes(line)
    BY DEF WriteMarker, Writes
<1>2. /\ writer.hunks \in Seq(DiffHunk) /\ writer.seen \in Nat /\ Len(writer.new) \in Nat
      /\ OldLines \in Seq(Texts) /\ deletes \in BOOLEAN /\ n \in Nat
      /\ writer \in WriterState /\ parser \in ParserState
    BY StateFields DEF TypeOK
<1>3. n > 0
    BY <1>1, OwedHunk
<1>4. /\ line \in DiffLine /\ line.tag = "\\"
      /\ line.old = writer.seen /\ line.new = Len(writer.new)
    BY <1>2, DiffsAssumption DEF Here, DiffLine, Tags
<1>5. /\ line.tag \notin OldSide /\ line.tag \notin NewSide
      /\ line.tag # "" /\ line.tag # "---" /\ line.tag # "@" /\ line.tag # "+++"
    BY <1>4 DEF OldSide, NewSide
<1>6. H \in Seq(DiffHunk)
    BY <1>2, <1>3, <1>4, AddToType
<1>7. Shown(writer, line) = [writer EXCEPT !.hunks = H]
    BY <1>2, ShownHunks
<1>8. Added(parser, line) = [parser EXCEPT !.hunks = AddTo(parser.hunks, line)]
    BY <1>2, AddedHunks
<1>9. /\ m > 0 /\ m \in Nat /\ LastLine(writer) = writer.hunks[n].lines[m]
      /\ LastLine(writer).tag # "\\"
      /\ LastLine(writer).tag \in NewSide => writer.closed
    <2>1. writer.hunks[n] \in DiffHunk
        BY <1>2, <1>3
    <2>2. m \in Nat
        BY <2>1, HunkType
    <2>3. QED BY <1>1, <2>2 DEF WriterInv, DueLine, LastLine
<1> HIDE DEF line, H
<1>10. writer' \in WriterState
    BY <1>1, <1>2, <1>6, <1>7 DEF WriterState
<1>11. /\ writer'.hunks = H /\ writer'.seen = writer.seen /\ writer'.new = writer.new
       /\ writer'.owed = writer.owed /\ writer'.due = FALSE /\ writer'.closed = writer.closed
       /\ writer'.done = writer.done /\ writer'.stage = writer.stage
    BY <1>1, <1>2, <1>7 DEF WriterState
<1>12. writer.stage = "@"
    <2>1. writer.stage # "@" => writer.hunks = <<>>
        BY DEF WriterInv
    <2>2. QED BY <1>3, <2>1
<1>13. Follows
    BY <1>1 DEF ReadInv
<1>14. parser.hunks = writer.hunks /\ parser.mode = IF Settles THEN "after" ELSE "body"
    BY <1>1, <1>12, <1>13 DEF Follows
<1> DEFINE mode == IF Settles THEN "scan" ELSE "body"
<1>15. parser' = [parser EXCEPT !.hunks = H, !.mode = mode]
    <2>1. Added(parser, line) = [parser EXCEPT !.hunks = H]
        BY <1>8, <1>14 DEF H
    <2>2. CASE Settles
        <3>1. parser.mode = "after" /\ mode = "scan"
            BY <1>14, <2>2
        <3> HIDE DEF mode
        <3>2. ParseLine(parser, line) = [Added(parser, line) EXCEPT !.mode = "scan"]
            BY <1>4, <3>1 DEF ParseLine
        <3>3. QED BY <1>1, <2>1, <3>1, <3>2
    <2>3. CASE ~Settles
        <3>1. parser.mode = "body" /\ mode = "body"
            BY <1>14, <2>3
        <3> HIDE DEF mode
        <3>2. [line EXCEPT !.tag = IF @ = "" THEN " " ELSE @] = line
            BY <1>4, <1>5 DEF DiffLine
        <3>3. ParseBody(parser, line) = Added(parser, line)
            BY <1>4, <3>2 DEF ParseBody
        <3>4. ParseLine(parser, line) = ParseBody(parser, line)
            BY <3>1 DEF ParseLine
        <3>5. [parser EXCEPT !.hunks = H] = [parser EXCEPT !.hunks = H, !.mode = mode]
            BY <1>2, <3>1 DEF ParserState
        <3>6. QED BY <1>1, <2>1, <3>3, <3>4, <3>5
    <2>4. QED BY <2>2, <2>3
<1>16. mode \in {"scan", "body"} /\ (mode = "scan" <=> Settles)
    OBVIOUS
<1> HIDE DEF mode
<1>17. parser' \in ParserState
    BY <1>2, <1>6, <1>15, <1>16 DEF ParserState
<1>18. /\ parser'.hunks = H /\ parser'.left = parser.left /\ parser'.mode = mode
       /\ parser'.found = parser.found /\ parser'.create = parser.create
       /\ parser'.delete = parser.delete
    BY <1>2, <1>15 DEF ParserState
<1>19. TypeOK' /\ OldLines' = OldLines
    BY <1>1, <1>10, <1>17, WritesRest
<1>20. OpenHunk(writer') /\ Chained(writer'.hunks)
    <2>1. OpenHunk(writer) /\ Chained(writer.hunks)
        BY DEF WriterInv
    <2>2. /\ writer'.hunks = AddTo(writer.hunks, line)
          /\ writer'.seen = writer.seen + IF line.tag \in OldSide THEN 1 ELSE 0
          /\ Len(writer'.new) = Len(writer.new) + IF line.tag \in NewSide THEN 1 ELSE 0
          /\ writer'.seen + writer'.owed.old = writer.seen + writer.owed.old
          /\ Len(writer'.new) + writer'.owed.new = Len(writer.new) + writer.owed.new
        <3>1. (IF line.tag \in OldSide THEN 1 ELSE 0) = 0 /\ (IF line.tag \in NewSide THEN 1 ELSE 0) = 0
            BY <1>5
        <3>2. writer.seen + 0 = writer.seen /\ Len(writer.new) + 0 = Len(writer.new)
            BY <1>2
        <3>3. writer'.hunks = AddTo(writer.hunks, line)
            BY <1>11 DEF H
        <3>4. writer'.seen + writer'.owed.old = writer.seen + writer.owed.old
            BY <1>11
        <3>5. Len(writer'.new) + writer'.owed.new = Len(writer.new) + writer.owed.new
            BY <1>11
        <3>6. QED BY <1>11, <3>1, <3>2, <3>3, <3>4, <3>5
    <2>3. QED BY <1>2, <1>3, <1>4, <1>10, <2>1, <2>2, AddToOpen
<1>21. TruthfulGaps(writer'.hunks, writer', OldLines')
       /\ TruthfulLines(writer'.hunks, writer', OldLines')
    <2>1. /\ TruthfulGaps(writer.hunks, writer, OldLines)
          /\ TruthfulLines(writer.hunks, writer, OldLines)
          /\ Chained(writer.hunks)
        BY DEF WriterInv
    <2>2. /\ writer.seen <= writer'.seen
          /\ Len(writer.new) <= Len(writer'.new)
          /\ \A i \in 1 .. Len(writer.new) : writer'.new[i] = writer.new[i]
        BY <1>2, <1>11
    <2>3. TruthfulGaps(writer.hunks, writer', OldLines)
        BY <1>2, <1>10, <2>1, <2>2, GapsGrow
    <2>4. TruthfulLines(writer.hunks, writer', OldLines)
        BY <1>2, <1>10, <2>1, <2>2, LinesGrow
    <2>5. TruthfulLine(line, writer', OldLines)
        BY <1>5 DEF TruthfulLine
    <2>6. QED BY <1>2, <1>3, <1>4, <1>11, <1>19, <2>3, <2>4, <2>5, AddToTruthful DEF H
<1>22. deletes' => OnlyRemoves(writer'.hunks)
    <2>1. SUFFICES ASSUME deletes
                   PROVE  OnlyRemoves(H)
        BY <1>1, <1>11
    <2>2. OnlyRemoves(writer.hunks)
        BY <2>1 DEF WriterInv
    <2>3. QED BY <1>2, <1>3, <1>4, <2>2, AddToRemoves DEF H
<1>23. MarkersFollow(writer'.hunks)
       /\ (SomeMark(writer'.hunks) <=> SomeMark(writer.hunks) \/ LastLine(writer).tag \in NewSide)
    <2>1. MarkersFollow(writer.hunks)
        BY DEF WriterInv
    <2>2. m > 0 /\ writer.hunks[n].lines[m].tag # "\\"
        BY <1>9
    <2>3. MarkersFollow(H)
        BY <1>2, <1>3, <1>4, <2>1, <2>2, AddToMarks DEF H
    <2>4. SomeMark(H) <=> SomeMark(writer.hunks) \/ writer.hunks[n].lines[m].tag \in NewSide
        BY <1>2, <1>3, <1>4, <2>2, AddToMarks DEF H
    <2>5. QED BY <1>9, <1>11, <2>3, <2>4
<1>24. DueLine(writer') /\ ClosedSide(writer')
    <2>1. ~writer'.due
        BY <1>11
    <2>2. ClosedSide(writer)
        BY DEF WriterInv
    <2>3. SomeMark(writer'.hunks) => writer'.closed
        BY <1>9, <1>11, <1>23, <2>2 DEF ClosedSide
    <2>4. writer'.closed => writer'.owed.new = 0 /\ writer'.new # <<>> /\ SomeMark(writer'.hunks)
        BY <1>11, <1>23, <2>2 DEF ClosedSide
    <2>5. QED BY <2>1, <2>3, <2>4 DEF DueLine, ClosedSide
<1>25. /\ writer'.seen + writer'.owed.old <= Len(OldLines')
       /\ writer'.stage # "@" => writer'.hunks = <<>>
       /\ deletes' => old' # Absent /\ writer'.new = <<>> /\ writer'.owed.new = 0
    BY <1>1, <1>11, <1>12, <1>19 DEF WriterInv
<1>26. WriterInv'
    BY <1>20, <1>21, <1>22, <1>23, <1>24, <1>25 DEF WriterInv
<1>27. Follows'
    <2>1. (Settles' <=> Settles) /\ parser.left = writer.owed
        BY <1>11, <1>13 DEF Settles, Follows
    <2>2. /\ parser.create = (old = Absent)
          /\ parser.delete = deletes
          /\ parser.found = TRUE
        BY <1>2, <1>12, <1>13 DEF Follows
    <2>3. parser'.create = (writer'.stage # "---" /\ old' = Absent)
        BY <1>1, <1>11, <1>12, <1>18, <2>2
    <2>4. parser'.delete = (writer'.stage = "@" /\ deletes')
        BY <1>1, <1>2, <1>11, <1>12, <1>18, <2>2
    <2>5. QED BY <1>11, <1>12, <1>16, <1>18, <2>1, <2>2, <2>3, <2>4 DEF Follows
<1>28. ReadInv' /\ HunksInv'
    BY <1>1, <1>11, <1>27 DEF ReadInv, HunksInv
<1>29. QED BY <1>19, <1>26, <1>28

\* The hunks with the line that completes them.
LEMMA CompletedHunks ==
    ASSUME NEW w \in WriterState, NEW line \in DiffLine, NEW lines, Len(w.hunks) > 0,
           OpenHunk(w), Chained(w.hunks), MarkersFollow(w.hunks),
           TruthfulGaps(w.hunks, w, lines), TruthfulLines(w.hunks, w, lines),
           w.owed = Owing(line.tag), line.tag # "\\",
           line.old = w.seen, line.new = Len(w.new)
    PROVE  LET H == AddTo(w.hunks, line)
           IN /\ Chained(H)
              /\ \A k \in DOMAIN H : WholeHunk(H[k])
              /\ TruthfulGaps(H, w, lines)
              /\ \A k \in DOMAIN H : \A j \in DOMAIN H[k].lines :
                    TruthfulIfSeen(H[k].lines[j], w, lines)
              /\ MarkersFollow(H)
<1> DEFINE n == Len(w.hunks)
           m == Len(w.hunks[n].lines)
           H == AddTo(w.hunks, line)
<1>1. /\ w.hunks \in Seq(DiffHunk) /\ n \in Nat /\ n > 0 /\ DOMAIN w.hunks = 1 .. n
      /\ w.seen \in Nat /\ Len(w.new) \in Nat
    <2>1. w.hunks \in Seq(DiffHunk) /\ w.seen \in Nat /\ w.new \in Seq(Texts)
        BY DEF WriterState
    <2>2. Len(w.hunks) \in Nat /\ DOMAIN w.hunks = 1 .. Len(w.hunks)
        BY <2>1, HunksType
    <2>3. Len(w.new) \in Nat
        BY <2>1
    <2>4. QED BY <2>1, <2>2, <2>3
<1>2. w.hunks[n] \in DiffHunk /\ m \in Nat
    <2>1. n \in DOMAIN w.hunks
        BY <1>1
    <2>2. w.hunks[n] \in DiffHunk
        BY <1>1, <2>1, HunksType
    <2>3. QED BY <2>2, HunkType
<1>3. /\ H \in Seq(DiffHunk) /\ DOMAIN H = 1 .. n
      /\ \A k \in 1 .. n : k # n => H[k] = w.hunks[k]
      /\ H[n].old = w.hunks[n].old /\ H[n].oldCount = w.hunks[n].oldCount
      /\ H[n].new = w.hunks[n].new /\ H[n].newCount = w.hunks[n].newCount
    <2>1. n \in DOMAIN w.hunks
        BY <1>1
    <2>2. QED BY <1>1, <2>1, AddToType
<1>4. /\ Len(H[n].lines) = m + 1
      /\ \A j \in 1 .. m : H[n].lines[j] = w.hunks[n].lines[j]
      /\ H[n].lines[m + 1] = line
      /\ OldAt(H[n], m + 1) = line.old + IF line.tag \in OldSide THEN 1 ELSE 0
      /\ NewAt(H[n], m + 1) = line.new + IF line.tag \in NewSide THEN 1 ELSE 0
    BY <1>1, AddToPlaces
<1>5. /\ \A k \in 1 .. n - 1 : WholeHunk(w.hunks[k])
      /\ OldAt(w.hunks[n], m) = w.seen
      /\ NewAt(w.hunks[n], m) = Len(w.new)
      /\ w.seen + (IF line.tag \in OldSide THEN 1 ELSE 0) = w.hunks[n].old + w.hunks[n].oldCount
      /\ Len(w.new) + (IF line.tag \in NewSide THEN 1 ELSE 0) =
            w.hunks[n].new + w.hunks[n].newCount
    <2>1. /\ w.owed.old = IF line.tag \in OldSide THEN 1 ELSE 0
          /\ w.owed.new = IF line.tag \in NewSide THEN 1 ELSE 0
          /\ n # 0
        BY <1>1 DEF Owing
    <2> HIDE DEF m, H
    <2>2. QED BY <2>1 DEF OpenHunk, m
<1>6. Chained(H)
    BY <1>1, <1>5, AddToChained
<1>7. TruthfulGaps(H, w, lines)
    BY <1>1, AddToTruthful
<1>8. MarkersFollow(H)
    BY <1>1, AddToMarks
<1> HIDE DEF H, n, m
<1>9. \A k \in DOMAIN H : WholeHunk(H[k])
    <2>1. ASSUME NEW k \in DOMAIN H
          PROVE  WholeHunk(H[k])
        <3>1. CASE k # n
            <4>1. k \in 1 .. n - 1
                <5>1. k \in 1 .. n
                    BY <1>3
                <5>2. QED BY <1>1, <3>1, <5>1
            <4>2. QED BY <1>3, <1>5, <3>1, <4>1
        <3>2. CASE k = n
            <4>2. /\ OldAt(H[n], m + 1) = H[n].old + H[n].oldCount
                  /\ NewAt(H[n], m + 1) = H[n].new + H[n].newCount
                BY <1>3, <1>4, <1>5
            <4>3. QED BY <1>4, <3>2, <4>2 DEF WholeHunk
        <3>3. QED BY <3>1, <3>2
    <2>2. QED BY <2>1
<1>10. \A k \in DOMAIN H : \A j \in DOMAIN H[k].lines : TruthfulIfSeen(H[k].lines[j], w, lines)
    <2>1. ASSUME NEW k \in DOMAIN H, NEW j \in DOMAIN H[k].lines
          PROVE  TruthfulIfSeen(H[k].lines[j], w, lines)
        <3>1. H[k] \in DiffHunk
            BY <1>3, HunksType
        <3>2. j \in 1 .. Len(H[k].lines)
            BY <3>1, HunkType
        <3>3. w.hunks[k] \in DiffHunk
            <4>1. k \in DOMAIN w.hunks
                BY <1>1, <1>3
            <4>2. QED BY <1>1, <4>1, HunksType
        <3>4. CASE k = n /\ j = m + 1
            <4>1. H[k].lines[j] = line
                BY <1>4, <3>4
            <4>2. ~(line.old < w.seen) /\ ~(line.new < Len(w.new))
                <5>1. ~(w.seen < w.seen) /\ ~(Len(w.new) < Len(w.new))
                    BY <1>1
                <5>2. QED BY <5>1
            <4>3. QED BY <4>1, <4>2 DEF TruthfulIfSeen
        <3>5. CASE ~(k = n /\ j = m + 1)
            <4>1. j \in DOMAIN w.hunks[k].lines /\ H[k].lines[j] = w.hunks[k].lines[j]
                <5>1. CASE k = n
                    <6>1. j \in 1 .. m
                        <7>1. j \in 1 .. m + 1 /\ j # m + 1
                            BY <1>4, <3>2, <3>5, <5>1
                        <7>2. QED BY <1>2, <7>1
                    <6>2. H[k].lines[j] = w.hunks[k].lines[j]
                        BY <1>4, <5>1, <6>1
                    <6>3. DOMAIN w.hunks[k].lines = 1 .. m
                        BY <3>3, <5>1, HunkType DEF m
                    <6>4. QED BY <6>1, <6>2, <6>3
                <5>2. CASE k # n
                    BY <1>3, <3>2, <3>3, <5>2, HunkType
                <5>3. QED BY <5>1, <5>2
            <4>2. k \in DOMAIN w.hunks
                BY <1>1, <1>3
            <4>3. TruthfulLine(w.hunks[k].lines[j], w, lines)
                BY <4>1, <4>2 DEF TruthfulLines
            <4>4. QED BY <4>1, <4>3 DEF TruthfulLine, TruthfulIfSeen
        <3>6. QED BY <3>4, <3>5
    <2>2. QED BY <2>1
<1>11. QED BY <1>6, <1>7, <1>8, <1>9, <1>10 DEF H

\* The line that ends the text, and how it is read.
Ends(line, tag, text) ==
    \/ CutLine(tag, text) /\ line = Here(tag, text)
    \/ tag = " " /\ text = Blank /\ line = Here("", Blank)

\* What the parser holds when the text has ended.
LEMMA EndRead ==
    ASSUME WriteInv, NEW tag \in OldSide \cup NewSide, NEW text \in Texts, NEW line,
           Ends(line, tag, text), Writes(line), writer' = [writer EXCEPT !.done = TRUE]
    PROVE  /\ ReadInv'
           /\ parser' \in ParserState
           /\ Parses(parser') =>
                \/ Settles /\ parser'.hunks = writer.hunks
                \/ /\ writer.owed = Owing(tag)
                   /\ parser'.hunks = AddTo(writer.hunks, Here(tag, text))
<1> USE DEF WriteInv
<1> DEFINE read == Here(tag, text)
           H == AddTo(writer.hunks, read)
<1>1. /\ ~writer.done
      /\ writer' = [writer EXCEPT !.done = TRUE]
      /\ parser' = ParseLine(parser, line)
      /\ UNCHANGED <<old, deletes, current, applier, result>>
    BY DEF Writes
<1>2. /\ writer.hunks \in Seq(DiffHunk) /\ writer.seen \in Nat /\ Len(writer.new) \in Nat
      /\ writer \in WriterState /\ parser \in ParserState /\ deletes \in BOOLEAN
      /\ writer.owed \in [old : Nat, new : Nat]
      /\ writer.owed.old \in Nat /\ writer.owed.new \in Nat
    BY StateFields DEF TypeOK
<1>3. Follows
    BY <1>1 DEF ReadInv
<1>4. /\ writer'.hunks = writer.hunks /\ writer'.seen = writer.seen /\ writer'.new = writer.new
      /\ writer'.owed = writer.owed /\ writer'.done = TRUE /\ writer'.stage = writer.stage
      /\ writer'.due = writer.due
    BY <1>1, <1>2 DEF WriterState
<1>5. /\ line.tag \in {"", tag}
      /\ [line EXCEPT !.tag = IF @ = "" THEN " " ELSE @] = read
      /\ read.tag = tag
    <2>1. read.tag = tag /\ tag # ""
        BY DEF Here, OldSide, NewSide
    <2>2. CASE line = Here(tag, text)
        <3>1. line.tag = tag /\ line \in [tag : {tag}, text : Texts, old : Nat, new : Nat]
            BY <1>2, <2>2 DEF Here
        <3>2. [line EXCEPT !.tag = tag] = line
            BY <3>1
        <3>3. QED BY <2>1, <2>2, <3>1, <3>2
    <2>3. CASE tag = " " /\ text = Blank /\ line = Here("", Blank)
        <3>1. line.tag = ""
            BY <2>3 DEF Here
        <3>2. /\ line \in [tag : {""}, text : Texts, old : Nat, new : Nat]
              /\ read \in [tag : {" "}, text : Texts, old : Nat, new : Nat]
            BY <1>2, <2>3, DiffsAssumption DEF Here
        <3>3. line.text = read.text /\ line.old = read.old /\ line.new = read.new
            BY <2>3 DEF Here
        <3> HIDE DEF read
        <3>4. [line EXCEPT !.tag = " "] = read
            BY <2>1, <2>3, <3>2, <3>3
        <3>5. QED BY <2>1, <3>1, <3>4
    <2>4. QED BY <2>2, <2>3 DEF Ends
<1>6. read \in DiffLine
    BY <1>2 DEF Here, DiffLine, Tags, OldSide, NewSide
<1>7. Shown(writer', read') .hunks = H
    <2>1. read' = read
        BY <1>4 DEF Here
    <2>2. Shown(writer', read).hunks = [writer'.hunks EXCEPT ![Len(writer'.hunks)].lines = Append(@, read)]
        BY <1>1, <1>2 DEF Shown, WriterState
    <2>3. QED BY <1>4, <2>1, <2>2 DEF AddTo
<1>14. writer.stage # "@" \/ Settles => line.tag = ""
    <2>1. CutLine(tag, text) => writer.stage = "@" /\ ~Settles
        <3>1. CutLine(tag, text) => writer.stage = "@" /\ (writer.owed.old > 0 \/ writer.owed.new > 0)
            BY DEF CutLine
        <3>2. Settles => writer.owed.old = 0 /\ writer.owed.new = 0
            BY DEF Settles
        <3>3. QED BY <1>2, <3>1, <3>2
    <2>2. CASE CutLine(tag, text)
        BY <2>1, <2>2
    <2>3. CASE ~CutLine(tag, text)
        <3>1. line = Here("", Blank)
            BY <2>3 DEF Ends
        <3>2. line.tag = ""
            BY <3>1 DEF Here
        <3>3. QED BY <3>2
    <2>4. QED BY <2>2, <2>3
<1>15. LastRead(tag, text)' /\ tag # "\\" /\ OldLines' = OldLines
    <2>1. LastRead(tag, text)
        BY DEF Ends, LastRead
    <2>2. OldLines' = OldLines
        BY <1>1 DEF OldLines
    <2>3. CutLine(tag, text)' <=> CutLine(tag, text)
        BY <1>4, <2>2 DEF CutLine
    <2>4. QED BY <2>1, <2>2, <2>3 DEF LastRead, OldSide, NewSide
<1> HIDE DEF read, H
<1>8. CASE writer.stage = "---"
    <2>1. parser.mode = "scan" /\ parser.found = FALSE
        BY <1>2, <1>3, <1>8 DEF Follows
    <2>2. parser' = [parser EXCEPT !.mode = "scan"]
        BY <1>1, <1>8, <1>14, <2>1 DEF ParseLine, ParseScan
    <2>3. parser' \in ParserState /\ ~Parses(parser')
        BY <1>2, <2>1, <2>2 DEF ParserState, Parses
    <2>4. QED BY <1>4, <2>3 DEF ReadInv
<1>9. CASE writer.stage = "+++"
    <2>1. parser.mode = "header"
        BY <1>3, <1>9 DEF Follows
    <2>2. parser' = [parser EXCEPT !.mode = "failed"]
        BY <1>1, <1>9, <1>14, <2>1 DEF ParseLine, Fails
    <2>3. parser' \in ParserState /\ ~Parses(parser')
        BY <1>2, <2>2 DEF ParserState, Parses
    <2>4. QED BY <1>4, <2>3 DEF ReadInv
<1>10. CASE writer.stage = "@" /\ Settles
    <2>1. parser.mode \in {"scan", "after"} /\ parser.hunks = writer.hunks
        BY <1>3, <1>10 DEF Follows
    <2>2. parser' = [parser EXCEPT !.mode = "scan"]
        BY <1>1, <1>10, <1>14, <2>1 DEF ParseLine, ParseScan
    <2>3. parser' \in ParserState
        BY <1>2, <2>2 DEF ParserState
    <2>4. /\ parser'.hunks = writer.hunks
          /\ parser'.create = parser.create /\ parser'.delete = parser.delete
        BY <1>2, <2>1, <2>2 DEF ParserState
    <2>5. parser.create = (old = Absent) /\ parser.delete = deletes
        BY <1>2, <1>3, <1>10 DEF Follows
    <2>6. Settles'
        BY <1>4, <1>10 DEF Settles
    <2>7. parser'.create = (old' = Absent) /\ parser'.delete = deletes'
        BY <1>1, <2>4, <2>5
    <2>8. QED BY <1>4, <1>10, <2>3, <2>4, <2>6, <2>7 DEF ReadInv
<1>11. CASE writer.stage = "@" /\ ~Settles
    <2>1. parser.mode = "body" /\ parser.hunks = writer.hunks /\ parser.left = writer.owed
        BY <1>3, <1>11 DEF Follows
    <2>2. Len(writer.hunks) > 0
        BY <1>11, OwedHunk
    <2>3. Added(parser, read) = [parser EXCEPT !.hunks = H]
        BY <1>2, <2>1, AddedHunks DEF H
    <2>4. H \in Seq(DiffHunk)
        BY <1>2, <1>6, <2>2, AddToType DEF H
    <2> DEFINE left == Less(writer.owed, tag)
               s == [parser EXCEPT !.hunks = H, !.left = left]
    <2>7. parser' = Settled([Added(parser, read) EXCEPT !.left = Less(@, tag)])
        <3>1. ParseBody(parser, line) = Settled([Added(parser, read) EXCEPT !.left = Less(@, read.tag)])
            BY <1>5, <1>15 DEF ParseBody
        <3>2. QED BY <1>1, <1>5, <2>1, <3>1 DEF ParseLine
    <2>8. [Added(parser, read) EXCEPT !.left = Less(@, tag)] = s
        BY <1>2, <2>1, <2>3 DEF ParserState
    <2>9. s \in ParserState /\ s.left = left /\ s.hunks = H
          /\ s.create = parser.create /\ s.delete = parser.delete
        <3>1. left \in [old : Int, new : Int]
            BY <1>2 DEF Less
        <3> HIDE DEF left
        <3>2. QED BY <1>2, <2>4, <3>1 DEF ParserState
    <2> HIDE DEF s
    <2>10. parser' = Settled(s)
        BY <2>7, <2>8
    <2>11. PICK mode \in {"body", "failed", "after"} :
                /\ parser' = [s EXCEPT !.mode = mode]
                /\ mode = "after" => s.left.old = 0 /\ s.left.new = 0
        <3>1. s.left.old \in Int /\ s.left.new \in Int
            BY <2>9 DEF ParserState
        <3>2. CASE s.left.old > 0 \/ s.left.new > 0
            BY <2>10, <3>2 DEF Settled
        <3>3. CASE ~(s.left.old > 0 \/ s.left.new > 0) /\ (s.left.old < 0 \/ s.left.new < 0)
            BY <2>10, <3>3 DEF Settled, Fails
        <3>4. CASE ~(s.left.old > 0 \/ s.left.new > 0) /\ ~(s.left.old < 0 \/ s.left.new < 0)
            <4>1. s.left.old = 0 /\ s.left.new = 0
                BY <3>1, <3>4
            <4>2. QED BY <2>10, <3>4, <4>1 DEF Settled
        <3>5. QED BY <3>2, <3>3, <3>4
    <2>12. /\ parser' \in ParserState /\ parser'.mode = mode /\ parser'.hunks = H
           /\ parser'.create = parser.create /\ parser'.delete = parser.delete
        BY <2>9, <2>11 DEF ParserState
    <2>13. Parses(parser') => mode = "after"
        BY <2>12 DEF Parses
    <2>14. mode = "after" => writer.owed = Owing(tag)
        <3>1. SUFFICES ASSUME mode = "after"
                       PROVE  writer.owed = Owing(tag)
            OBVIOUS
        <3>2. Less(writer.owed, tag).old = 0 /\ Less(writer.owed, tag).new = 0
            BY <2>9, <2>11, <3>1 DEF left
        <3>3. writer.owed.old = IF tag \in OldSide THEN 1 ELSE 0
            BY <1>2, <3>2 DEF Less
        <3>4. writer.owed.new = IF tag \in NewSide THEN 1 ELSE 0
            BY <1>2, <3>2 DEF Less
        <3>5. writer.owed = [old |-> writer.owed.old, new |-> writer.owed.new]
            BY <1>2
        <3>6. QED BY <3>3, <3>4, <3>5 DEF Owing
    <2>15. parser.create = (old = Absent) /\ parser.delete = deletes
        BY <1>2, <1>3, <1>11 DEF Follows
    <2>16. parser'.create = (old' = Absent) /\ parser'.delete = deletes'
        BY <1>1, <2>12, <2>15
    <2>17. Parses(parser') => Completed'
        <3>1. SUFFICES ASSUME Parses(parser')
                       PROVE  CompletedBy(tag, text)'
            BY DEF Completed
        <3>2. QED BY <1>4, <1>7, <1>15, <2>12, <2>13, <2>14, <3>1 DEF CompletedBy, read
    <2>18. ReadInv'
        BY <1>4, <1>11, <2>16, <2>17 DEF ReadInv
    <2>19. QED BY <2>12, <2>13, <2>14, <2>18 DEF H, read
<1>12. writer.stage \in {"---", "+++", "@"}
    BY <1>2 DEF WriterState
<1>13. QED BY <1>8, <1>9, <1>10, <1>11, <1>12

LEMMA TextEnded == WriteInv /\ EndText => WriteInv'
<1> SUFFICES ASSUME WriteInv, EndText
             PROVE  WriteInv'
    OBVIOUS
<1> USE DEF WriteInv
<1>20. PICK tag \in OldSide \cup NewSide, text \in Texts :
            \E line : Ends(line, tag, text) /\ Writes(line)
    <2>1. CASE Writes(Here("", Blank))
        <3>1. " " \in OldSide \cup NewSide /\ Blank \in Texts
            BY DiffsAssumption DEF OldSide, NewSide
        <3>2. Ends(Here("", Blank), " ", Blank)
            BY DEF Ends
        <3>3. \E line : Ends(line, " ", Blank) /\ Writes(line)
            BY <2>1, <3>2
        <3>4. QED BY <3>1, <3>3
    <2>2. ASSUME NEW tag \in OldSide \cup NewSide, NEW text \in Texts,
                 CutLine(tag, text), Writes(Here(tag, text))
          PROVE  \E line : Ends(line, tag, text) /\ Writes(line)
        BY <2>2 DEF Ends
    <2>3. QED BY <2>1, <2>2 DEF EndText
<1>21. PICK line : Ends(line, tag, text) /\ Writes(line)
    BY <1>20
<1> DEFINE read == Here(tag, text)
           H == AddTo(writer.hunks, read)
<1>1. /\ ~writer.done
      /\ writer' = [writer EXCEPT !.done = TRUE]
      /\ UNCHANGED <<old, deletes, current, applier, result>>
    BY <1>21 DEF EndText, Writes
<1>2. /\ writer.hunks \in Seq(DiffHunk) /\ writer.seen \in Nat /\ Len(writer.new) \in Nat
      /\ writer \in WriterState
    BY StateFields DEF TypeOK
<1>3. /\ writer'.hunks = writer.hunks /\ writer'.seen = writer.seen /\ writer'.new = writer.new
      /\ writer'.owed = writer.owed /\ writer'.due = writer.due
      /\ writer'.closed = writer.closed /\ writer'.done = TRUE /\ writer'.stage = writer.stage
      /\ writer' \in WriterState
    BY <1>1, <1>2 DEF WriterState
<1>4. /\ ReadInv'
      /\ parser' \in ParserState
      /\ Parses(parser') =>
            \/ Settles /\ parser'.hunks = writer.hunks
            \/ /\ writer.owed = Owing(tag)
               /\ parser'.hunks = H
    BY <1>1, <1>20, <1>21, EndRead
<1>5. TypeOK' /\ OldLines' = OldLines
    BY <1>1, <1>3, <1>4, <1>21, WritesRest
<1>6. read \in DiffLine /\ read.tag = tag /\ read.old = writer.seen /\ read.new = Len(writer.new)
    BY <1>2, <1>20 DEF Here, DiffLine, Tags, OldSide, NewSide
<1>7. read.tag # "\\"
    BY <1>6, <1>20 DEF OldSide, NewSide
<1> HIDE DEF read, H
<1>8. /\ TruthfulGaps(writer.hunks, writer, OldLines)
      /\ TruthfulLines(writer.hunks, writer, OldLines)
      /\ OpenHunk(writer) /\ Chained(writer.hunks) /\ MarkersFollow(writer.hunks)
      /\ DueLine(writer) /\ ClosedSide(writer)
      /\ deletes => OnlyRemoves(writer.hunks) /\ writer.owed.new = 0
    BY DEF WriterInv
<1>9. WriterInv'
    <2>1. TruthfulGaps(writer'.hunks, writer', OldLines)
        BY <1>3, <1>8 DEF TruthfulGaps
    <2>2. TruthfulLines(writer'.hunks, writer', OldLines)
        BY <1>3, <1>8, SMTT(20) DEF TruthfulLines, TruthfulLine
    <2>3. OpenHunk(writer')
        BY <1>3, <1>8 DEF OpenHunk
    <2>4. DueLine(writer') /\ ClosedSide(writer')
        <3>1. LastLine(writer') = LastLine(writer)
            BY <1>3 DEF LastLine
        <3>2. DueLine(writer')
            BY <1>3, <1>8, <3>1 DEF DueLine
        <3>3. ClosedSide(writer')
            BY <1>3, <1>8, <3>1 DEF ClosedSide
        <3>4. QED BY <3>2, <3>3
    <2>5. Chained(writer'.hunks) /\ MarkersFollow(writer'.hunks)
          /\ (deletes' => OnlyRemoves(writer'.hunks))
        BY <1>1, <1>3, <1>8
    <2>6. /\ writer'.seen + writer'.owed.old <= Len(OldLines')
          /\ writer'.stage # "@" => writer'.hunks = <<>>
          /\ deletes' => old' # Absent /\ writer'.new = <<>> /\ writer'.owed.new = 0
        BY <1>1, <1>3, <1>5 DEF WriterInv
    <2>7. QED BY <1>5, <2>1, <2>2, <2>3, <2>4, <2>5, <2>6 DEF WriterInv
<1>10. HunksInv'
    <2>1. SUFFICES ASSUME Parses(parser')
                   PROVE  /\ Chained(parser'.hunks)
                          /\ \A k \in DOMAIN parser'.hunks : WholeHunk(parser'.hunks[k])
                          /\ TruthfulGaps(parser'.hunks, writer', OldLines)
                          /\ \A k \in DOMAIN parser'.hunks : \A j \in DOMAIN parser'.hunks[k].lines :
                                TruthfulIfSeen(parser'.hunks[k].lines[j], writer', OldLines)
                          /\ deletes' => OnlyRemoves(parser'.hunks)
                          /\ MarkersFollow(parser'.hunks)
        BY <1>5 DEF HunksInv
    <2>2. CASE Settles /\ parser'.hunks = writer.hunks
        <3>1. \A k \in DOMAIN writer.hunks : WholeHunk(writer.hunks[k])
            BY <2>2, RestingEnds
        <3>2. TruthfulGaps(writer.hunks, writer', OldLines)
            BY <1>3, <1>8 DEF TruthfulGaps
        <3>3. \A k \in DOMAIN writer.hunks : \A j \in DOMAIN writer.hunks[k].lines :
                TruthfulIfSeen(writer.hunks[k].lines[j], writer', OldLines)
            BY <1>3, <1>8, SMTT(20) DEF TruthfulLines, TruthfulLine, TruthfulIfSeen
        <3>4. deletes' => OnlyRemoves(writer.hunks)
            BY <1>1, <1>8
        <3>5. QED BY <1>8, <2>2, <3>1, <3>2, <3>3, <3>4
    <2>3. CASE writer.owed = Owing(tag) /\ parser'.hunks = H
        <3>1. (tag \in OldSide => writer.owed.old = 1) /\ (tag \in NewSide => writer.owed.new = 1)
            BY <2>3 DEF Owing
        <3>2. ~Settles
            BY <1>20, <3>1 DEF Settles
        <3>3. Len(writer.hunks) > 0
            BY <3>2, OwedHunk
        <3>4. /\ Chained(H)
              /\ \A k \in DOMAIN H : WholeHunk(H[k])
              /\ TruthfulGaps(H, writer, OldLines)
              /\ \A k \in DOMAIN H : \A j \in DOMAIN H[k].lines :
                    TruthfulIfSeen(H[k].lines[j], writer, OldLines)
              /\ MarkersFollow(H)
            BY <1>2, <1>6, <1>7, <1>8, <2>3, <3>3, CompletedHunks DEF H
        <3>5. TruthfulGaps(H, writer', OldLines)
            BY <1>3, <3>4 DEF TruthfulGaps
        <3>6. \A k \in DOMAIN H : \A j \in DOMAIN H[k].lines :
                TruthfulIfSeen(H[k].lines[j], writer', OldLines)
            BY <1>3, <3>4 DEF TruthfulIfSeen
        <3>7. deletes' => OnlyRemoves(H)
            <4>1. SUFFICES ASSUME deletes
                           PROVE  OnlyRemoves(H)
                BY <1>1
            <4>2. tag = "-"
                <5>1. writer.owed.new = 0
                    BY <1>8, <4>1
                <5>2. tag \notin NewSide
                    BY <3>1, <5>1
                <5>3. QED BY <1>20, <5>2 DEF OldSide, NewSide
            <4>3. OnlyRemoves(writer.hunks) /\ read.tag \in {"-", "\\"}
                BY <1>6, <1>8, <4>1, <4>2
            <4>4. QED BY <1>2, <1>6, <3>3, <4>3, AddToRemoves DEF H
        <3>8. QED BY <2>3, <3>4, <3>5, <3>6, <3>7
    <2>4. QED BY <1>4, <2>1, <2>2, <2>3
<1>11. QED BY <1>4, <1>5, <1>9, <1>10
-----------------------------------------------------------------------------
\* The applier.

\* The fields of the applier.
LEMMA ApplierFields ==
    ASSUME TypeOK
    PROVE  /\ applier \in ApplierState
           /\ applier.source \in Seq(Texts) /\ Len(applier.source) \in Nat
           /\ applier.out \in Seq(Texts) /\ Len(applier.out) \in Nat
           /\ DOMAIN applier.out = 1 .. Len(applier.out)
           /\ applier.cursor \in Nat
           /\ applier.hunk \in Nat
           /\ applier.line \in Nat
           /\ applier.ended \in BOOLEAN
           /\ applier.onNew \in BOOLEAN
           /\ parser.hunks \in Seq(DiffHunk)
           /\ Len(parser.hunks) \in Nat
           /\ DOMAIN parser.hunks = 1 .. Len(parser.hunks)
           /\ \A k \in DOMAIN parser.hunks : parser.hunks[k] \in DiffHunk
<1>1. /\ applier \in ApplierState
      /\ applier.source \in Seq(Texts)
      /\ applier.out \in Seq(Texts)
      /\ applier.cursor \in Nat
      /\ applier.hunk \in Nat
      /\ applier.line \in Nat
      /\ applier.ended \in BOOLEAN
      /\ applier.onNew \in BOOLEAN
    BY DEF TypeOK, ApplierState
<1>2. parser.hunks \in Seq(DiffHunk)
    BY DEF TypeOK, ParserState
<1>3. /\ Len(parser.hunks) \in Nat
      /\ DOMAIN parser.hunks = 1 .. Len(parser.hunks)
      /\ \A k \in DOMAIN parser.hunks : parser.hunks[k] \in DiffHunk
    BY <1>2, HunksType
<1>4. Len(applier.source) \in Nat /\ Len(applier.out) \in Nat
      /\ DOMAIN applier.out = 1 .. Len(applier.out)
    BY <1>1
<1>5. QED BY <1>1, <1>2, <1>3, <1>4

\* What the applier works on.
Reads ==
    /\ writer.done
    /\ Parses(parser)
    /\ parser.create = (old = Absent)
    /\ parser.delete = deletes
    /\ deletes \in BOOLEAN
    /\ Chained(parser.hunks)
    /\ \A k \in DOMAIN parser.hunks : WholeHunk(parser.hunks[k])
    /\ TruthfulGaps(parser.hunks, writer, OldLines)
    /\ \A k \in DOMAIN parser.hunks : \A j \in DOMAIN parser.hunks[k].lines :
            TruthfulIfSeen(parser.hunks[k].lines[j], writer, OldLines)
    /\ deletes => OnlyRemoves(parser.hunks)
    /\ MarkersFollow(parser.hunks)

LEMMA ParsedReads ==
    ASSUME WriteInv, writer.done, Parses(parser)
    PROVE  Reads
<1>1. parser.create = (old = Absent) /\ parser.delete = deletes
    BY DEF WriteInv, ReadInv
<1>2. deletes \in BOOLEAN
    BY DEF WriteInv, TypeOK
<1>3. QED BY <1>1, <1>2 DEF WriteInv, HunksInv, Reads

LEMMA ApplierReads ==
    ASSUME Inv, current # Pending
    PROVE  Reads /\ PlaceInv /\ MatchInv /\ OwnInv /\ EndedInv /\ ResultInv
<1>1. PlaceInv /\ MatchInv /\ OwnInv /\ EndedInv /\ ResultInv
    BY DEF Inv, ApplierInv
<1>2. writer.done /\ Parses(parser)
    BY <1>1 DEF PlaceInv
<1>3. Reads
    BY <1>2, ParsedReads DEF Inv, WriteInv
<1>4. QED BY <1>1, <1>3

\* The applier is somewhere in its hunk, at numbered places.
LEMMA PlacesKnown ==
    ASSUME TypeOK, PlaceInv
    PROVE  /\ applier.hunk > 0 =>
                /\ applier.hunk \in DOMAIN parser.hunks
                /\ parser.hunks[applier.hunk] \in DiffHunk
                /\ LinesOfHunk = parser.hunks[applier.hunk].lines
           /\ Len(LinesOfHunk) \in Nat
           /\ DOMAIN LinesOfHunk = 1 .. Len(LinesOfHunk)
           /\ OldPlace \in Nat
           /\ NewPlace \in Nat
           /\ applier.hunk = 0 => LinesOfHunk = <<>> /\ applier.line = 0 /\ HunkIsDone
<1> USE ApplierFields
<1>1. CASE applier.hunk = 0
    <2>1. LinesOfHunk = <<>> /\ OldPlace = 0 /\ NewPlace = 0
        BY <1>1 DEF LinesOfHunk, OldPlace, NewPlace
    <2>2. Len(LinesOfHunk) = 0 /\ DOMAIN LinesOfHunk = 1 .. 0
        BY <2>1
    <2>3. applier.line = 0
        BY <2>2 DEF PlaceInv
    <2>4. HunkIsDone
        BY <2>2, <2>3 DEF HunkIsDone
    <2>5. QED BY <1>1, <2>1, <2>2, <2>3, <2>4
<1>2. CASE applier.hunk # 0
    <2>1. applier.hunk \in DOMAIN parser.hunks
        BY <1>2 DEF PlaceInv
    <2>2. parser.hunks[applier.hunk] \in DiffHunk
        BY <2>1
    <2>3. LinesOfHunk = parser.hunks[applier.hunk].lines
        BY <1>2 DEF LinesOfHunk
    <2>4. Len(LinesOfHunk) \in Nat /\ DOMAIN LinesOfHunk = 1 .. Len(LinesOfHunk)
        BY <2>2, <2>3, HunkType
    <2>5. applier.line \in 0 .. Len(parser.hunks[applier.hunk].lines)
        BY <2>3, <2>4 DEF PlaceInv
    <2>6. OldPlace \in Nat /\ NewPlace \in Nat
        BY <1>2, <2>2, <2>5, PlacesType DEF OldPlace, NewPlace
    <2>7. QED BY <1>2, <2>1, <2>2, <2>3, <2>4, <2>6
<1>3. QED BY <1>1, <1>2

\* At the end of a hunk both places are behind it.
LEMMA DonePlaces ==
    ASSUME TypeOK, Reads, PlaceInv, HunkIsDone
    PROVE  /\ OldPlace = OldEndOf(parser.hunks, applier.hunk)
           /\ NewPlace = NewEndOf(parser.hunks, applier.hunk)
<1>1. CASE applier.hunk = 0
    BY <1>1 DEF OldPlace, NewPlace, OldEndOf, NewEndOf
<1>2. CASE applier.hunk # 0
    <2>1. /\ applier.hunk \in DOMAIN parser.hunks
          /\ LinesOfHunk = parser.hunks[applier.hunk].lines
        BY <1>2, PlacesKnown, ApplierFields
    <2>2. WholeHunk(parser.hunks[applier.hunk])
        BY <2>1 DEF Reads
    <2>3. applier.line = Len(parser.hunks[applier.hunk].lines)
        BY <2>1 DEF HunkIsDone
    <2>4. QED BY <1>2, <2>2, <2>3 DEF OldPlace, NewPlace, OldEndOf, NewEndOf, WholeHunk
<1>3. QED BY <1>1, <1>2

\* A step of the applier leaves the rest alone.
LEMMA AppliesRest ==
    ASSUME WriteInv, UNCHANGED <<old, deletes, writer, parser>>,
           current' \in Contents \cup {Absent, Pending},
           applier' \in ApplierState,
           result' \in Seq(Texts) \cup {Absent, Refused, Pending}
    PROVE  WriteInv' /\ OldLines' = OldLines
<1>1. OldLines' = OldLines
    BY DEF OldLines
<1>2. TypeOK'
    BY DEF WriteInv, TypeOK
<1>3. WriterInv'
    BY <1>1 DEF WriteInv, WriterInv
<1>4. ReadInv'
    <2>1. Completed' <=> Completed
        BY <1>1 DEF Completed, CompletedBy, LastRead, CutLine, Here
    <2>2. Settles' <=> Settles
        BY DEF Settles
    <2>3. Follows' <=> Follows
        BY <2>2 DEF Follows
    <2>4. ReadInv
        BY DEF WriteInv
    <2>5. QED BY <2>1, <2>2, <2>3, <2>4 DEF ReadInv
<1>5. HunksInv'
    BY <1>1 DEF WriteInv, HunksInv
<1>6. QED BY <1>1, <1>2, <1>3, <1>4, <1>5 DEF WriteInv

\* While the diff is written nothing has been applied.
LEMMA WritingKeeps ==
    ASSUME Inv, NEW line, Writes(line)
    PROVE  ApplierInv'
<1>1. ~writer.done /\ UNCHANGED <<current, result>>
    BY DEF Writes
<1>2. current = Pending
    BY <1>1 DEF Inv, ApplierInv, PlaceInv
<1>3. QED BY <1>1, <1>2 DEF Inv, ApplierInv

LEMMA RefusalKeeps == Inv /\ RefuseDiff => Inv'
<1> SUFFICES ASSUME Inv, RefuseDiff
             PROVE  Inv'
    OBVIOUS
<1>1. /\ ~Parses(parser) /\ result' = Refused
      /\ UNCHANGED <<old, deletes, writer, parser, current, applier>>
    BY DEF RefuseDiff, Answers, Applies
<1>2. current = Pending
    BY <1>1 DEF Inv, ApplierInv, PlaceInv
<1>3. ApplierInv'
    BY <1>1, <1>2 DEF ApplierInv
<1>4. current' \in Contents \cup {Absent, Pending} /\ applier' \in ApplierState
    BY <1>1 DEF Inv, TypeOK
<1>5. WriteInv'
    BY <1>1, <1>4, AppliesRest DEF Inv, WriteInv
<1>6. QED BY <1>3, <1>5 DEF Inv, WriteInv

\* At the start nothing is passed.
LEMMA StartKeeps ==
    ASSUME Inv, NEW content \in Contents \cup {Absent}, StartApply(content)
    PROVE  Inv'
<1>1. /\ writer.done /\ Parses(parser)
      /\ current' = content
      /\ applier' = NotStarted(content)
      /\ result' \in {Refused, Pending}
      /\ UNCHANGED <<old, deletes, writer, parser>>
    BY DEF StartApply
<1>2. LinesOf(content) \in Seq(Texts) /\ Ended(content) \in BOOLEAN
    BY ContentLines
<1>3. content # Pending
    BY DiffsAssumption
<1>4. applier' \in ApplierState
    <2>1. <<>> \in Seq(Texts)
        OBVIOUS
    <2>2. QED BY <1>1, <1>2, <2>1 DEF ApplierState, NotStarted
<1>5. /\ applier'.source = LinesOf(content) /\ applier'.ended = Ended(content)
      /\ applier'.out = <<>> /\ applier'.cursor = 0 /\ applier'.hunk = 0 /\ applier'.line = 0
    BY <1>1 DEF NotStarted
<1>6. WriteInv'
    <2>1. current' \in Contents \cup {Absent, Pending}
        BY <1>1
    <2>2. result' \in Seq(Texts) \cup {Absent, Refused, Pending}
        BY <1>1
    <2>3. QED BY <1>1, <1>4, <2>1, <2>2, AppliesRest DEF Inv, WriteInv
<1>7. Len(parser.hunks) \in Nat /\ DOMAIN parser.hunks = 1 .. Len(parser.hunks)
      /\ \A k \in DOMAIN parser.hunks : parser.hunks[k] \in DiffHunk
    BY ApplierFields DEF Inv
<1>8. Len(applier'.source) \in Nat
    BY <1>2, <1>5
<1>9. PlaceInv'
    <2>1. LinesOfHunk' = <<>> /\ OldPlace' = 0 /\ NewPlace' = 0
        BY <1>5 DEF LinesOfHunk, OldPlace, NewPlace
    <2>2. Len(LinesOfHunk') = 0 /\ Len(applier'.out) = 0
        BY <1>5, <2>1
    <2>3. QED BY <1>1, <1>5, <1>7, <2>1, <2>2 DEF PlaceInv
<1>10. \A k \in DOMAIN parser.hunks : \A j \in DOMAIN parser.hunks[k].lines : ~Passed(k, j)'
    <2>1. SUFFICES ASSUME NEW k \in DOMAIN parser.hunks, NEW j
                   PROVE  ~Passed(k, j)'
        OBVIOUS
    <2>2. k \in Nat /\ k > 0
        BY <1>7
    <2>3. QED BY <1>5, <2>2 DEF Passed
<1>11. MatchInv'
    BY <1>1, <1>5, <1>10 DEF MatchInv
<1>12. OwnInv'
    BY <1>5, <1>8 DEF OwnInv
<1>13. EndedInv'
    <2>1. ~(applier'.line > 0)
        BY <1>5
    <2>2. applier'.ended <=>
            /\ Ended(current')
            /\ \A k \in DOMAIN parser'.hunks : \A j \in DOMAIN parser'.hunks[k].lines :
                    Passed(k, j)' => ~MarksNew(parser'.hunks, k, j)
        BY <1>1, <1>5, <1>10
    <2>3. QED BY <2>1, <2>2 DEF EndedInv
<1>14. ResultInv'
    BY <1>1 DEF ResultInv, Applied
<1>15. ApplierInv'
    BY <1>1, <1>3, <1>9, <1>11, <1>12, <1>13, <1>14 DEF ApplierInv
<1>16. QED BY <1>6, <1>15 DEF Inv, WriteInv

\* What was matched stays so when more comes out.
LEMMA MatchKept ==
    ASSUME TypeOK, PlaceInv, MatchInv, UNCHANGED <<deletes, parser>>, applier' \in ApplierState,
           applier'.source = applier.source,
           Len(applier.out) <= Len(applier'.out),
           \A i \in 1 .. Len(applier.out) : applier'.out[i] = applier.out[i]
    PROVE  /\ \A k \in DOMAIN parser.hunks : \A j \in DOMAIN parser.hunks[k].lines :
                Passed(k, j) => LineMatched(k, j)'
           /\ ~deletes => \A k \in 1 .. applier.hunk : GapKept(k)'
<1> USE ApplierFields
<1>1. Len(applier'.out) \in Nat
    BY DEF ApplierState
<1>2. ASSUME NEW k \in DOMAIN parser.hunks, NEW j \in DOMAIN parser.hunks[k].lines, Passed(k, j)
      PROVE  LineMatched(k, j)'
    <2> DEFINE line == parser.hunks[k].lines[j]
    <2>1. line.new \in Nat
        BY HunkType
    <2>2. LineMatched(k, j)
        BY <1>2 DEF MatchInv
    <2>3. parser'.hunks[k].lines[j] = line
        OBVIOUS
    <2>4. /\ line.tag \in OldSide =>
            line.old < Len(applier.source) /\ applier.source[line.old + 1] = line.text
          /\ ~deletes /\ line.tag \in NewSide /\ line.old <= Len(applier.source) =>
            line.new < Len(applier.out) /\ applier.out[line.new + 1] = line.text
        BY <2>2 DEF LineMatched
    <2> HIDE DEF line
    <2>5. ASSUME line.new < Len(applier.out), applier.out[line.new + 1] = line.text
          PROVE  line.new < Len(applier'.out) /\ applier'.out[line.new + 1] = line.text
        <3>1. line.new + 1 \in 1 .. Len(applier.out)
            BY <2>1, <2>5
        <3>2. applier'.out[line.new + 1] = applier.out[line.new + 1]
            BY <3>1
        <3>3. line.new < Len(applier'.out)
            BY <1>1, <2>1, <2>5
        <3>4. QED BY <2>5, <3>2, <3>3
    <2>6. QED BY <2>3, <2>4, <2>5 DEF LineMatched
<1>3. ASSUME ~deletes, NEW k \in 1 .. applier.hunk
      PROVE  GapKept(k)'
    <2> DEFINE before == NewEndOf(parser.hunks, k - 1)
               start == OldEndOf(parser.hunks, k - 1)
    <2>1. GapKept(k)
        BY <1>3 DEF MatchInv
    <2>2. before \in Nat
        <3>1. k - 1 \in 0 .. Len(parser.hunks)
            BY DEF PlaceInv
        <3>2. QED BY <3>1, EndsType
    <2>3. \A i \in 1 .. parser.hunks[k].old - start :
            start + i <= Len(applier.source) =>
                /\ before + i <= Len(applier.out)
                /\ applier.out[before + i] = applier.source[start + i]
        BY <2>1 DEF GapKept
    <2> HIDE DEF before, start
    <2>4. ASSUME NEW i \in 1 .. parser.hunks[k].old - start, start + i <= Len(applier.source)
          PROVE  /\ before + i <= Len(applier'.out)
                 /\ applier'.out[before + i] = applier.source[start + i]
        <3>1. before + i <= Len(applier.out) /\ applier.out[before + i] = applier.source[start + i]
            BY <2>3, <2>4
        <3>2. i \in Nat /\ i > 0
            OBVIOUS
        <3>3. before + i \in 1 .. Len(applier.out)
            BY <2>2, <3>1, <3>2
        <3>4. before + i <= Len(applier'.out)
            BY <1>1, <2>2, <3>1, <3>2
        <3>5. QED BY <3>1, <3>3, <3>4
    <2>5. QED BY <2>4 DEF GapKept, start, before
<1>4. QED BY <1>2, <1>3

\* An answer changes nothing else.
LEMMA AnsweringKeeps ==
    ASSUME Inv, current # Pending, NEW answer \in Seq(Texts) \cup {Absent, Refused},
           Answers(answer), ResultInv'
    PROVE  Inv'
<1>1. result' = answer /\ UNCHANGED <<old, deletes, writer, parser, current, applier>>
    BY DEF Answers, Applies
<1>2. PlaceInv /\ MatchInv /\ OwnInv /\ EndedInv
    BY ApplierReads
<1>3. /\ LinesOfHunk' = LinesOfHunk /\ OldPlace' = OldPlace /\ NewPlace' = NewPlace
      /\ \A k, j : Passed(k, j)' <=> Passed(k, j)
    BY <1>1 DEF LinesOfHunk, OldPlace, NewPlace, Passed
<1>4. PlaceInv'
    BY <1>1, <1>2, <1>3 DEF PlaceInv
<1>5. MatchInv'
    BY <1>1, <1>2, <1>3 DEF MatchInv, LineMatched, GapKept
<1>6. OwnInv'
    BY <1>1, <1>2 DEF OwnInv
<1>7. EndedInv'
    BY <1>1, <1>2, <1>3 DEF EndedInv
<1>8. /\ current' \in Contents \cup {Absent, Pending} /\ applier' \in ApplierState
      /\ result' \in Seq(Texts) \cup {Absent, Refused, Pending}
    BY <1>1 DEF Inv, TypeOK
<1>9. WriteInv'
    BY <1>1, <1>8, AppliesRest DEF Inv, WriteInv
<1>10. ApplierInv'
    BY <1>1, <1>4, <1>5, <1>6, <1>7 DEF ApplierInv
<1>11. QED BY <1>9, <1>10 DEF Inv, WriteInv

LEMMA RefusingKeeps ==
    ASSUME Inv, current # Pending, Answers(Refused)
    PROVE  Inv'
<1>1. ResultInv'
    BY DEF Answers, ResultInv, Applied
<1>2. QED BY <1>1, AnsweringKeeps

\* The next hunk begins where its fields say, behind the one before.
LEMMA NextHunk ==
    ASSUME TypeOK, Reads, PlaceInv, HunkIsDone, applier.hunk < Len(parser.hunks)
    PROVE  LET k == applier.hunk + 1
               hunk == parser.hunks[k]
           IN /\ k \in DOMAIN parser.hunks
              /\ hunk \in DiffHunk /\ hunk.old \in Nat /\ hunk.new \in Nat
              /\ StartOf(hunk) = hunk.old
              /\ OldAt(hunk, 0) = hunk.old /\ NewAt(hunk, 0) = hunk.new
              /\ OldEndOf(parser.hunks, k - 1) = applier.cursor
              /\ NewEndOf(parser.hunks, k - 1) \in Nat
              /\ applier.cursor <= Len(applier.source) /\ ~deletes =>
                    NewEndOf(parser.hunks, k - 1) = Len(applier.out)
              /\ hunk.old >= applier.cursor
              /\ hunk.old - applier.cursor = hunk.new - NewEndOf(parser.hunks, k - 1)
<1> DEFINE k == applier.hunk + 1
           hunk == parser.hunks[k]
<1> USE ApplierFields
<1>1. k \in DOMAIN parser.hunks /\ k - 1 = applier.hunk
    OBVIOUS
<1>2. hunk \in DiffHunk
    BY <1>1
<1>3. hunk.old \in Nat /\ hunk.new \in Nat /\ hunk.start \in Nat /\ hunk.oldCount \in Nat
    BY <1>2, HunkType
<1>4. /\ ChainedHunk(hunk)
      /\ hunk.old >= OldEndOf(parser.hunks, k - 1)
      /\ hunk.old - OldEndOf(parser.hunks, k - 1) = hunk.new - NewEndOf(parser.hunks, k - 1)
    BY <1>1 DEF Reads, Chained
<1>5. hunk.start = IF hunk.oldCount > 0 THEN hunk.old + 1 ELSE hunk.old
    BY <1>4 DEF ChainedHunk
<1>6. OldEndOf(parser.hunks, k - 1) = applier.cursor
      /\ (applier.cursor <= Len(applier.source) /\ ~deletes =>
            NewEndOf(parser.hunks, k - 1) = Len(applier.out))
    BY <1>1, DonePlaces DEF PlaceInv
<1>7. NewEndOf(parser.hunks, k - 1) \in Nat
    <2>1. k - 1 \in 0 .. Len(parser.hunks)
        BY <1>1
    <2>2. QED BY <2>1, EndsType
<1> HIDE DEF hunk, k
<1>8. StartOf(hunk) = hunk.old
    <2>1. CASE hunk.oldCount > 0
        BY <1>3, <1>5, <2>1 DEF StartOf
    <2>2. CASE ~(hunk.oldCount > 0)
        BY <1>3, <1>5, <2>2 DEF StartOf
    <2>3. QED BY <2>1, <2>2
<1>9. OldAt(hunk, 0) = hunk.old /\ NewAt(hunk, 0) = hunk.new
    BY DEF OldAt, NewAt
<1>10. QED BY <1>1, <1>2, <1>3, <1>4, <1>6, <1>7, <1>8, <1>9 DEF hunk, k

\* The lines that are passed are those of the hunks before.
LEMMA PassedAll ==
    ASSUME TypeOK, PlaceInv, HunkIsDone, UNCHANGED parser,
           applier'.hunk = applier.hunk + 1, applier'.line = 0
    PROVE  \A k \in DOMAIN parser.hunks : \A j \in DOMAIN parser.hunks[k].lines :
                Passed(k, j)' <=> Passed(k, j)
<1> USE ApplierFields
<1>1. SUFFICES ASSUME NEW k \in DOMAIN parser.hunks, NEW j \in DOMAIN parser.hunks[k].lines
               PROVE  Passed(k, j)' <=> Passed(k, j)
    OBVIOUS
<1>2. k \in Nat /\ k > 0
    OBVIOUS
<1>3. parser.hunks[k] \in DiffHunk
    OBVIOUS
<1>4. j \in Nat /\ j > 0 /\ j <= Len(parser.hunks[k].lines) /\ Len(parser.hunks[k].lines) \in Nat
    BY <1>3, HunkType
<1>5. k = applier.hunk => applier.line = Len(parser.hunks[k].lines)
    <2>1. k = applier.hunk => LinesOfHunk = parser.hunks[k].lines
        BY <1>2 DEF LinesOfHunk
    <2>2. QED BY <2>1 DEF HunkIsDone
<1>6. Passed(k, j)' <=> k < applier.hunk + 1 \/ (k = applier.hunk + 1 /\ j <= 0)
    BY DEF Passed
<1>7. Passed(k, j) <=> k < applier.hunk \/ (k = applier.hunk /\ j <= applier.line)
    BY DEF Passed
<1>8. k < applier.hunk + 1 <=> k < applier.hunk \/ k = applier.hunk
    BY <1>2
<1>9. QED BY <1>4, <1>5, <1>6, <1>7, <1>8

\* While the applier proceeds there is no answer.
LEMMA ProceedingRest ==
    ASSUME Inv, Applying, NEW a \in ApplierState, Proceeds(a)
    PROVE  /\ WriteInv' /\ ResultInv' /\ OldLines' = OldLines
           /\ applier' = a
           /\ UNCHANGED <<old, deletes, writer, parser, current, result>>
<1>1. applier' = a /\ UNCHANGED <<old, deletes, writer, parser, current, result>>
    BY DEF Proceeds, Applies
<1>2. result' = Pending
    BY <1>1 DEF Applying
<1>3. ResultInv'
    BY <1>2 DEF ResultInv, Applied
<1>4. /\ current' \in Contents \cup {Absent, Pending}
      /\ applier' \in ApplierState
      /\ result' \in Seq(Texts) \cup {Absent, Refused, Pending}
    BY <1>1 DEF Inv, TypeOK
<1>5. WriteInv' /\ OldLines' = OldLines
    BY <1>1, <1>4, AppliesRest DEF Inv, WriteInv
<1>6. QED BY <1>1, <1>3, <1>5

\* A deletion goes on to its next hunk.
LEMMA DeletedHunkKeeps ==
    ASSUME Inv, StartHunk, parser.delete
    PROVE  Inv'
<1> USE ApplierFields
<1> DEFINE a == [applier EXCEPT !.hunk = @ + 1, !.line = 0]
<1>1. /\ Applying /\ HunkIsDone /\ applier.hunk < Len(parser.hunks)
      /\ Proceeds(a)
    BY DEF StartHunk
<1>2. current # Pending /\ TypeOK
    BY <1>1 DEF Applying, Inv
<1>3. Reads /\ PlaceInv /\ MatchInv /\ OwnInv /\ EndedInv
    BY <1>2, ApplierReads
<1>4. a \in ApplierState
    <2>1. applier \in ApplierState /\ applier.hunk + 1 \in Nat
        BY <1>2
    <2>2. QED BY <2>1 DEF ApplierState
<1>5. /\ a.hunk = applier.hunk + 1 /\ a.line = 0 /\ a.source = applier.source
      /\ a.out = applier.out /\ a.cursor = applier.cursor
    BY <1>2 DEF ApplierState
<1> HIDE DEF a
<1>6. /\ WriteInv' /\ ResultInv' /\ OldLines' = OldLines
      /\ applier' = a
      /\ UNCHANGED <<old, deletes, writer, parser, current, result>>
    BY <1>1, <1>4, ProceedingRest
<1>7. deletes /\ deletes'
    BY <1>3, <1>6 DEF Reads
<1> DEFINE k == applier.hunk + 1
           hunk == parser.hunks[k]
<1>8. /\ k \in DOMAIN parser.hunks /\ hunk \in DiffHunk
      /\ OldAt(hunk, 0) = hunk.old
      /\ OldEndOf(parser.hunks, k - 1) = applier.cursor
    BY <1>1, <1>2, <1>3, NextHunk
<1>9. hunk.old = applier.cursor
    BY <1>3, <1>7, <1>8 DEF Reads, OnlyRemoves
<1>10. PlaceInv'
    <2>1. a.hunk # 0 /\ a.hunk <= Len(parser.hunks)
        BY <1>1, <1>2, <1>5
    <2>2. OldPlace' = applier.cursor
        BY <1>5, <1>6, <1>8, <1>9, <2>1 DEF OldPlace
    <2>3. LinesOfHunk' = hunk.lines
        BY <1>5, <1>6, <2>1 DEF LinesOfHunk
    <2>4. 0 <= Len(LinesOfHunk')
        BY <1>8, <2>3, HunkType
    <2>5. QED BY <1>3, <1>5, <1>6, <1>7, <2>1, <2>2, <2>4 DEF PlaceInv
<1>11. \A i \in DOMAIN parser.hunks : \A j \in DOMAIN parser.hunks[i].lines :
            Passed(i, j)' <=> Passed(i, j)
    BY <1>1, <1>2, <1>3, <1>5, <1>6, PassedAll
<1>12. MatchInv'
    <2>1. \A i \in DOMAIN parser.hunks : \A j \in DOMAIN parser.hunks[i].lines :
                Passed(i, j) => LineMatched(i, j)'
        BY <1>2, <1>3, <1>4, <1>5, <1>6, MatchKept
    <2>2. QED BY <1>6, <1>7, <1>11, <2>1 DEF MatchInv
<1>13. OwnInv' /\ EndedInv'
    BY <1>7 DEF OwnInv, EndedInv
<1>14. ApplierInv'
    BY <1>2, <1>6, <1>10, <1>12, <1>13 DEF ApplierInv
<1>15. QED BY <1>6, <1>14 DEF Inv, WriteInv

\* What is copied up to a hunk.
CopiedTo(a, start) ==
    CopyOf(a.out, a.source, a.cursor, IF start < Len(a.source) THEN start ELSE Len(a.source))

CountTo(a, start) ==
    SpanOf(a.cursor, IF start < Len(a.source) THEN start ELSE Len(a.source))

LEMMA CopiedLines ==
    ASSUME NEW a \in ApplierState, NEW start \in Nat, start >= a.cursor
    PROVE  /\ CopiesLines(CopiedTo(a, start), a.out, a.source, a.cursor, CountTo(a, start))
           /\ CountTo(a, start) \in Nat
           /\ CountTo(a, start) <= start - a.cursor
           /\ \A i \in 1 .. CountTo(a, start) : a.cursor + i <= Len(a.source)
           /\ \A i \in 1 .. start - a.cursor :
                a.cursor + i <= Len(a.source) => i <= CountTo(a, start)
           /\ start <= Len(a.source) => CountTo(a, start) = start - a.cursor
<1> DEFINE last == IF start < Len(a.source) THEN start ELSE Len(a.source)
<1>1. /\ a.out \in Seq(Texts) /\ a.source \in Seq(Texts)
      /\ a.cursor \in Nat /\ Len(a.source) \in Nat
    <2>1. a.out \in Seq(Texts) /\ a.source \in Seq(Texts) /\ a.cursor \in Nat
        BY DEF ApplierState
    <2>2. QED BY <2>1
<1>2. last \in Nat /\ last <= Len(a.source) /\ last <= start
      /\ (start <= Len(a.source) => last = start)
      /\ (start > Len(a.source) => last = Len(a.source))
    BY <1>1
<1> HIDE DEF last
<1>3. CopiesLines(CopyOf(a.out, a.source, a.cursor, last), a.out, a.source, a.cursor,
                  SpanOf(a.cursor, last))
    BY <1>1, <1>2, CopyLines
<1>4. /\ SpanOf(a.cursor, last) \in Nat
      /\ SpanOf(a.cursor, last) <= start - a.cursor
      /\ \A i \in 1 .. SpanOf(a.cursor, last) : a.cursor + i <= Len(a.source)
      /\ \A i \in 1 .. start - a.cursor : a.cursor + i <= Len(a.source) => i <= SpanOf(a.cursor, last)
      /\ start <= Len(a.source) => SpanOf(a.cursor, last) = start - a.cursor
    <2>1. CASE last > a.cursor
        <3>1. SpanOf(a.cursor, last) = last - a.cursor
            BY <2>1 DEF SpanOf
        <3> DEFINE span == SpanOf(a.cursor, last)
        <3>2. span \in Nat /\ span = last - a.cursor
            BY <1>1, <1>2, <2>1, <3>1
        <3> HIDE DEF span
        <3>3. span <= start - a.cursor
            BY <1>1, <1>2, <3>2
        <3>4. ASSUME NEW i \in 1 .. span
              PROVE  a.cursor + i <= Len(a.source)
            BY <1>1, <1>2, <3>2
        <3>5. ASSUME NEW i \in 1 .. start - a.cursor, a.cursor + i <= Len(a.source)
              PROVE  i <= span
            <4>1. i \in Int /\ a.cursor + i <= start
                BY <1>1
            <4>2. a.cursor + i <= last
                BY <1>1, <1>2, <3>5, <4>1
            <4>3. QED BY <1>1, <1>2, <3>2, <4>1, <4>2
        <3>6. start <= Len(a.source) => span = start - a.cursor
            BY <1>2, <3>2
        <3>7. QED BY <3>2, <3>3, <3>4, <3>5, <3>6 DEF span
    <2>2. CASE ~(last > a.cursor)
        <3>1. SpanOf(a.cursor, last) = 0
            BY <2>2 DEF SpanOf
        <3>2. QED BY <1>1, <1>2, <2>2, <3>1
    <2>3. QED BY <2>1, <2>2
<1>5. QED BY <1>3, <1>4 DEF CopiedTo, CountTo, last

\* A hunk that starts behind the last one has the lines before it copied.
LEMMA CopiedHunkKeeps ==
    ASSUME Inv, StartHunk, ~parser.delete,
           ~(StartOf(parser.hunks[applier.hunk + 1]) < applier.cursor)
    PROVE  Inv'
<1> DEFINE k == applier.hunk + 1
           hunk == parser.hunks[k]
           start == hunk.old
           before == NewEndOf(parser.hunks, k - 1)
           next == [applier EXCEPT !.hunk = @ + 1, !.line = 0]
           a == Copied(next, hunk)
           copy == CopiedTo(applier, start)
           count == CountTo(applier, start)
<1>1. /\ Applying /\ HunkIsDone /\ applier.hunk < Len(parser.hunks)
      /\ Proceeds(a)
    BY DEF StartHunk
<1>2. current # Pending /\ TypeOK
    BY <1>1 DEF Applying, Inv
<1>3. Reads /\ PlaceInv /\ MatchInv /\ OwnInv /\ EndedInv
    BY <1>2, ApplierReads
<1>4. /\ k \in DOMAIN parser.hunks
      /\ hunk \in DiffHunk /\ start \in Nat /\ hunk.new \in Nat
      /\ StartOf(hunk) = start
      /\ OldAt(hunk, 0) = start /\ NewAt(hunk, 0) = hunk.new
      /\ OldEndOf(parser.hunks, k - 1) = applier.cursor
      /\ before \in Nat
      /\ applier.cursor <= Len(applier.source) /\ ~deletes => before = Len(applier.out)
      /\ start >= applier.cursor
      /\ start - applier.cursor = hunk.new - before
    BY <1>1, <1>2, <1>3, NextHunk
<1>5. /\ applier \in ApplierState
      /\ applier.source \in Seq(Texts) /\ Len(applier.source) \in Nat
      /\ applier.out \in Seq(Texts) /\ Len(applier.out) \in Nat
      /\ applier.cursor \in Nat /\ applier.hunk \in Nat /\ applier.hunk + 1 \in Nat
      /\ applier.ended \in BOOLEAN
      /\ DOMAIN parser.hunks = 1 .. Len(parser.hunks)
      /\ Len(parser.hunks) \in Nat
      /\ \A i \in DOMAIN parser.hunks : parser.hunks[i] \in DiffHunk
    BY <1>2, ApplierFields
<1>6. ~deletes
    BY <1>3 DEF Reads
<1> HIDE DEF hunk, start, before, copy, count
<1>7. /\ CopiesLines(copy, applier.out, applier.source, applier.cursor, count)
      /\ count \in Nat
      /\ count <= start - applier.cursor
      /\ \A i \in 1 .. count : applier.cursor + i <= Len(applier.source)
      /\ \A i \in 1 .. start - applier.cursor :
            applier.cursor + i <= Len(applier.source) => i <= count
      /\ start <= Len(applier.source) => count = start - applier.cursor
    BY <1>4, <1>5, CopiedLines DEF copy, count
<1>8. /\ copy \in Seq(Texts)
      /\ Len(copy) = Len(applier.out) + count
      /\ \A i \in 1 .. Len(applier.out) : copy[i] = applier.out[i]
      /\ \A i \in 1 .. count : copy[Len(applier.out) + i] = applier.source[applier.cursor + i]
    BY <1>7 DEF CopiesLines
<1>9. a = [next EXCEPT !.out = copy, !.cursor = start, !.onNew = FALSE]
    <2>1. next.out = applier.out /\ next.source = applier.source /\ next.cursor = applier.cursor
        BY <1>5 DEF ApplierState
    <2> HIDE DEF next, k
    <2>2. QED BY <1>4, <2>1 DEF Copied, copy, CopiedTo, CopyOf
<1> HIDE DEF a
<1>10. a \in ApplierState
    <2>1. next \in ApplierState
        BY <1>5 DEF ApplierState
    <2> HIDE DEF next
    <2>2. QED BY <1>4, <1>8, <1>9, <2>1 DEF ApplierState
<1>11. /\ a.hunk = k /\ a.line = 0 /\ a.source = applier.source /\ a.out = copy
       /\ a.cursor = start /\ a.ended = applier.ended
    BY <1>5, <1>9 DEF ApplierState
<1> HIDE DEF next
<1>12. /\ WriteInv' /\ ResultInv' /\ OldLines' = OldLines
       /\ applier' = a
       /\ UNCHANGED <<old, deletes, writer, parser, current, result>>
    BY <1>1, <1>10, ProceedingRest DEF a
<1>13. ~deletes'
    BY <1>6, <1>12
<1>14. PlaceInv'
    <2>1. k # 0 /\ k <= Len(parser.hunks)
        BY <1>4, <1>5
    <2>2. OldPlace' = start /\ NewPlace' = hunk.new
        BY <1>4, <1>11, <1>12, <2>1 DEF OldPlace, NewPlace, hunk
    <2>3. LinesOfHunk' = hunk.lines
        BY <1>11, <1>12, <2>1 DEF LinesOfHunk, hunk
    <2>4. 0 <= Len(LinesOfHunk')
        BY <1>4, <2>3, HunkType
    <2>5. start <= Len(applier.source) => Len(copy) = hunk.new
        <3>1. SUFFICES ASSUME start <= Len(applier.source)
                       PROVE  Len(copy) = hunk.new
            OBVIOUS
        <3>2. applier.cursor <= Len(applier.source)
            BY <1>4, <1>5, <3>1
        <3>3. before = Len(applier.out) /\ count = start - applier.cursor
            BY <1>4, <1>6, <1>7, <3>1, <3>2
        <3>4. QED BY <1>4, <1>5, <1>8, <3>3
    <2>6. applier'.source = LinesOf(current') /\ writer'.done /\ Parses(parser')
        BY <1>3, <1>11, <1>12 DEF PlaceInv
    <2>7. /\ applier'.hunk <= Len(parser'.hunks)
          /\ applier'.line <= Len(LinesOfHunk')
          /\ applier'.cursor = OldPlace'
        BY <1>11, <1>12, <2>1, <2>2, <2>4
    <2>8. applier'.cursor <= Len(applier'.source) => Len(applier'.out) = NewPlace'
        BY <1>11, <1>12, <2>2, <2>5
    <2>9. QED BY <2>6, <2>7, <2>8 DEF PlaceInv
<1>15. \A i \in DOMAIN parser.hunks : \A j \in DOMAIN parser.hunks[i].lines :
            Passed(i, j)' <=> Passed(i, j)
    BY <1>1, <1>2, <1>3, <1>11, <1>12, PassedAll DEF k
<1>16. MatchInv'
    <2>1. Len(applier.out) <= Len(copy)
        BY <1>5, <1>7, <1>8
    <2>2. /\ \A i \in DOMAIN parser.hunks : \A j \in DOMAIN parser.hunks[i].lines :
                Passed(i, j) => LineMatched(i, j)'
          /\ ~deletes => \A i \in 1 .. applier.hunk : GapKept(i)'
        BY <1>2, <1>3, <1>8, <1>10, <1>11, <1>12, <2>1, MatchKept
    <2>3. ASSUME NEW h, h = k
          PROVE  GapKept(h)'
        <3>1. SUFFICES ASSUME NEW i \in 1 .. start - applier.cursor,
                              applier.cursor + i <= Len(applier.source)
                       PROVE  /\ before + i <= Len(copy)
                              /\ copy[before + i] = applier.source[applier.cursor + i]
            <4>1. /\ parser'.hunks[h].old = start
                  /\ OldEndOf(parser'.hunks, h - 1) = applier.cursor
                  /\ NewEndOf(parser'.hunks, h - 1) = before
                BY <1>4, <1>12, <2>3 DEF start, hunk, before
            <4>2. applier'.source = applier.source /\ applier'.out = copy
                BY <1>11, <1>12
            <4>3. QED BY <4>1, <4>2 DEF GapKept
        <3>2. i <= count
            BY <1>7, <3>1
        <3>3. i \in Nat /\ i \in 1 .. count
            BY <1>7, <3>2
        <3>4. applier.cursor <= Len(applier.source)
            BY <1>5, <3>1, <3>3
        <3>5. before = Len(applier.out)
            BY <1>4, <1>6, <3>4
        <3>6. before + i <= Len(copy)
            BY <1>5, <1>7, <1>8, <3>2, <3>3, <3>5
        <3>7. copy[before + i] = applier.source[applier.cursor + i]
            BY <1>8, <3>3, <3>5
        <3>8. QED BY <3>6, <3>7
    <2>4. \A i \in 1 .. applier'.hunk : i \in 1 .. applier.hunk \/ i = k
        BY <1>5, <1>11, <1>12
    <2>5. ASSUME NEW i \in 1 .. applier'.hunk
          PROVE  GapKept(i)'
        <3>1. CASE i = k
            BY <2>3, <3>1
        <3>2. CASE i # k
            <4>1. i \in 1 .. applier.hunk
                BY <2>4, <3>2
            <4>2. QED BY <1>6, <2>2, <4>1
        <3>3. QED BY <3>1, <3>2
    <2>6. QED BY <1>12, <1>15, <2>2, <2>5 DEF MatchInv
<1>17. OwnInv'
    <2>1. SUFFICES ASSUME current = old
                   PROVE  /\ start <= Len(applier.source)
                          /\ \A i \in DOMAIN copy : i <= Len(writer.new) => copy[i] = writer.new[i]
        BY <1>11, <1>12 DEF OwnInv
    <2>2. applier.source = OldLines
        BY <1>3, <2>1 DEF PlaceInv, OldLines
    <2>3. /\ hunk.new <= Len(writer.new)
          /\ start <= writer.seen
          /\ \A i \in 1 .. start - applier.cursor :
                writer.new[before + i] = OldLines[applier.cursor + i]
        BY <1>3, <1>4 DEF Reads, TruthfulGaps, hunk, start, before
    <2>4. start <= Len(applier.source)
        <3>1. /\ writer.seen \in Nat /\ writer.owed.old \in Nat /\ Len(OldLines) \in Nat
            BY <1>2, StateFields
        <3>2. writer.seen + writer.owed.old <= Len(OldLines)
            BY DEF Inv, WriterInv
        <3>3. writer.seen <= Len(OldLines)
            BY <3>1, <3>2
        <3>4. QED BY <1>4, <2>2, <2>3, <3>1, <3>3
    <2>5. applier.cursor <= Len(applier.source)
        BY <1>4, <1>5, <2>4
    <2>6. before = Len(applier.out)
        BY <1>4, <1>6, <2>5
    <2>7. ASSUME NEW i \in DOMAIN copy, i <= Len(writer.new)
          PROVE  copy[i] = writer.new[i]
        <3>1. i \in 1 .. Len(applier.out) + count
            BY <1>8
        <3>2. CASE i <= Len(applier.out)
            <4>1. i \in 1 .. Len(applier.out)
                BY <1>5, <1>7, <3>1, <3>2
            <4>2. i \in DOMAIN applier.out
                BY <1>5, <4>1
            <4>3. applier.out[i] = writer.new[i]
                BY <1>3, <1>6, <2>1, <2>7, <4>2 DEF OwnInv
            <4>4. QED BY <1>8, <4>1, <4>3
        <3>3. CASE ~(i <= Len(applier.out))
            <4> DEFINE d == i - Len(applier.out)
            <4>1. d \in 1 .. count /\ i = Len(applier.out) + d
                BY <1>5, <1>7, <3>1, <3>3, SMTT(30)
            <4> HIDE DEF d
            <4>2. copy[i] = applier.source[applier.cursor + d]
                BY <1>8, <4>1
            <4>3. d \in 1 .. start - applier.cursor
                BY <1>4, <1>5, <1>7, <4>1
            <4>4. writer.new[before + d] = OldLines[applier.cursor + d]
                BY <2>3, <4>3
            <4>5. QED BY <2>2, <2>6, <4>1, <4>2, <4>4
        <3>4. QED BY <3>2, <3>3
    <2>8. QED BY <2>4, <2>7
<1>18. EndedInv'
    <2>1. ~(applier'.line > 0)
        BY <1>11, <1>12
    <2>2. applier.ended <=>
            /\ Ended(current)
            /\ \A i \in DOMAIN parser.hunks : \A j \in DOMAIN parser.hunks[i].lines :
                    Passed(i, j) => ~MarksNew(parser.hunks, i, j)
        BY <1>3, <1>6 DEF EndedInv
    <2>3. applier'.ended <=>
            /\ Ended(current')
            /\ \A i \in DOMAIN parser'.hunks : \A j \in DOMAIN parser'.hunks[i].lines :
                    Passed(i, j)' => ~MarksNew(parser'.hunks, i, j)
        BY <1>11, <1>12, <1>15, <2>2
    <2>4. QED BY <2>1, <2>3 DEF EndedInv
<1>19. ApplierInv'
    BY <1>2, <1>12, <1>14, <1>16, <1>17, <1>18 DEF ApplierInv
<1>20. QED BY <1>12, <1>19 DEF Inv, WriteInv

LEMMA HunkKeeps == Inv /\ StartHunk => Inv'
<1> SUFFICES ASSUME Inv, StartHunk
             PROVE  Inv'
    OBVIOUS
<1>1. CASE parser.delete
    BY <1>1, DeletedHunkKeeps
<1>2. CASE ~parser.delete /\ ~(StartOf(parser.hunks[applier.hunk + 1]) < applier.cursor)
    BY <1>2, CopiedHunkKeeps
<1>3. CASE ~parser.delete /\ StartOf(parser.hunks[applier.hunk + 1]) < applier.cursor
    <2>1. Answers(Refused) /\ current # Pending
        BY <1>3 DEF StartHunk, Applying
    <2>2. QED BY <2>1, RefusingKeeps
<1>4. QED BY <1>1, <1>2, <1>3

\* The next line of a hunk is at the place where the applier is.
LEMMA NextLine ==
    ASSUME TypeOK, Reads, PlaceInv, ~HunkIsDone
    PROVE  LET hunk == parser.hunks[applier.hunk]
               line == LinesOfHunk[applier.line + 1]
           IN /\ applier.hunk \in DOMAIN parser.hunks /\ applier.hunk # 0
              /\ hunk \in DiffHunk
              /\ LinesOfHunk = hunk.lines
              /\ applier.line + 1 \in DOMAIN hunk.lines
              /\ applier.line + 1 <= Len(hunk.lines)
              /\ line \in DiffLine /\ line.tag \in Tags /\ line.text \in Texts
              /\ line.old = applier.cursor
              /\ line.new = NewPlace /\ line.new \in Nat
<1> DEFINE hunk == parser.hunks[applier.hunk]
           line == LinesOfHunk[applier.line + 1]
<1>1. applier.hunk \in Nat /\ applier.line \in Nat
    BY ApplierFields
<1>2. applier.hunk # 0
    BY PlacesKnown
<1>3. /\ applier.hunk \in DOMAIN parser.hunks
      /\ hunk \in DiffHunk
      /\ LinesOfHunk = hunk.lines
    BY <1>1, <1>2, PlacesKnown
<1>4. Len(hunk.lines) \in Nat /\ DOMAIN hunk.lines = 1 .. Len(hunk.lines)
    BY <1>3, HunkType
<1>5. applier.line <= Len(hunk.lines) /\ applier.line # Len(hunk.lines)
    BY <1>3 DEF PlaceInv, HunkIsDone
<1>6. applier.line + 1 \in DOMAIN hunk.lines /\ applier.line + 1 <= Len(hunk.lines)
    BY <1>1, <1>4, <1>5
<1>7. line = hunk.lines[applier.line + 1]
    BY <1>3
<1>8. line \in DiffLine /\ line.tag \in Tags /\ line.new \in Nat
    BY <1>3, <1>6, <1>7, HunkType
<1>9. line.text \in Texts
    BY <1>8 DEF DiffLine
<1>10. ChainedHunk(hunk)
    BY <1>3 DEF Reads, Chained
<1>12. line.old = OldAt(hunk, applier.line) /\ line.new = NewAt(hunk, applier.line)
    <2> HIDE DEF hunk
    <2>1. \A j \in DOMAIN hunk.lines :
            /\ hunk.lines[j].old = OldAt(hunk, j - 1)
            /\ hunk.lines[j].new = NewAt(hunk, j - 1)
        BY <1>10 DEF ChainedHunk
    <2>2. ASSUME NEW j \in DOMAIN hunk.lines, NEW i, j - 1 = i
          PROVE  hunk.lines[j].old = OldAt(hunk, i) /\ hunk.lines[j].new = NewAt(hunk, i)
        BY <2>1, <2>2
    <2>3. ASSUME NEW j, j = applier.line + 1
          PROVE  line.old = OldAt(hunk, applier.line) /\ line.new = NewAt(hunk, applier.line)
        <3>1. j \in DOMAIN hunk.lines /\ j - 1 = applier.line
            BY <1>1, <1>6, <2>3
        <3>2. hunk.lines[j].old = OldAt(hunk, applier.line) /\ hunk.lines[j].new = NewAt(hunk, applier.line)
            BY <2>2, <3>1
        <3>3. line = hunk.lines[j]
            BY <1>7, <2>3
        <3> HIDE DEF line
        <3>4. QED BY <3>2, <3>3
    <2>4. QED BY <2>3
<1>13. line.old = applier.cursor /\ line.new = NewPlace
    BY <1>2, <1>12 DEF PlaceInv, OldPlace, NewPlace
<1>14. QED BY <1>2, <1>3, <1>6, <1>8, <1>9, <1>13

\* Behind it the applier is behind the line, which is the only one more that is passed.
LEMMA PassedLine ==
    ASSUME TypeOK, Reads, PlaceInv, ~HunkIsDone, UNCHANGED parser,
           applier'.hunk = applier.hunk, applier'.line = applier.line + 1
    PROVE  LET line == LinesOfHunk[applier.line + 1]
           IN /\ LinesOfHunk' = LinesOfHunk
              /\ OldPlace' = line.old + IF line.tag \in OldSide THEN 1 ELSE 0
              /\ NewPlace' = line.new + IF line.tag \in NewSide THEN 1 ELSE 0
              /\ \A k \in DOMAIN parser.hunks : \A j \in DOMAIN parser.hunks[k].lines :
                    Passed(k, j)' <=>
                        Passed(k, j) \/ (k = applier.hunk /\ j = applier.line + 1)
<1> DEFINE l == applier.line + 1
<1>1. applier.hunk \in Nat /\ applier.line \in Nat
    BY ApplierFields
<1>2. applier.hunk # 0 /\ LinesOfHunk = parser.hunks[applier.hunk].lines
    BY NextLine
<1>3. LinesOfHunk' = LinesOfHunk
    BY DEF LinesOfHunk
<1>4. l # 0
    BY <1>1
<1>5. /\ OldPlace' = OldAt(parser.hunks[applier.hunk], l)
      /\ NewPlace' = NewAt(parser.hunks[applier.hunk], l)
    BY <1>2 DEF OldPlace, NewPlace
<1> HIDE DEF l
<1>6. /\ OldPlace' = LinesOfHunk[l].old + IF LinesOfHunk[l].tag \in OldSide THEN 1 ELSE 0
      /\ NewPlace' = LinesOfHunk[l].new + IF LinesOfHunk[l].tag \in NewSide THEN 1 ELSE 0
    BY <1>2, <1>4, <1>5 DEF OldAt, NewAt
<1>7. ASSUME NEW k \in DOMAIN parser.hunks, NEW j \in DOMAIN parser.hunks[k].lines
      PROVE  Passed(k, j)' <=> Passed(k, j) \/ (k = applier.hunk /\ j = l)
    <2>1. parser.hunks[k] \in DiffHunk
        BY ApplierFields
    <2>2. j \in Nat
        BY <2>1, HunkType
    <2>3. j <= applier.line + 1 <=> j <= applier.line \/ j = applier.line + 1
        BY <1>1, <2>2
    <2>4. QED BY <2>3 DEF Passed, l
<1>8. QED BY <1>3, <1>6, <1>7 DEF l

\* A deletion looks over a marker.
LEMMA DeletedLineKeeps ==
    ASSUME Inv, ApplyLine, parser.delete, LinesOfHunk[applier.line + 1].tag # "-"
    PROVE  Inv'
<1> DEFINE a == [applier EXCEPT !.line = @ + 1]
           line == LinesOfHunk[applier.line + 1]
<1>1. Applying /\ ~HunkIsDone /\ Proceeds(a)
    BY DEF ApplyLine
<1>2. current # Pending /\ TypeOK
    BY <1>1 DEF Applying, Inv
<1>3. Reads /\ PlaceInv /\ MatchInv
    BY <1>2, ApplierReads
<1>4. /\ applier \in ApplierState /\ applier.line + 1 \in Nat
      /\ applier.source \in Seq(Texts) /\ Len(applier.out) \in Nat
      /\ applier.cursor \in Nat
    BY <1>2, ApplierFields
<1>5. a \in ApplierState
    BY <1>4 DEF ApplierState
<1>6. /\ a.hunk = applier.hunk /\ a.line = applier.line + 1 /\ a.source = applier.source
      /\ a.out = applier.out /\ a.cursor = applier.cursor
    BY <1>4 DEF ApplierState
<1> HIDE DEF a
<1>7. /\ WriteInv' /\ ResultInv' /\ OldLines' = OldLines
      /\ applier' = a
      /\ UNCHANGED <<old, deletes, writer, parser, current, result>>
    BY <1>1, <1>5, ProceedingRest
<1>8. deletes /\ deletes'
    BY <1>3, <1>7 DEF Reads
<1>9. /\ applier.hunk \in DOMAIN parser.hunks
      /\ LinesOfHunk = parser.hunks[applier.hunk].lines
      /\ applier.line + 1 \in DOMAIN parser.hunks[applier.hunk].lines
      /\ applier.line + 1 <= Len(parser.hunks[applier.hunk].lines)
      /\ line.old = applier.cursor
    BY <1>1, <1>2, <1>3, NextLine
<1>10. line.tag = "\\"
    BY <1>3, <1>8, <1>9 DEF Reads, OnlyRemoves
<1>11. line.tag \notin OldSide
    BY <1>10 DEF OldSide
<1>12. /\ LinesOfHunk' = LinesOfHunk
       /\ OldPlace' = line.old + IF line.tag \in OldSide THEN 1 ELSE 0
       /\ \A k \in DOMAIN parser.hunks : \A j \in DOMAIN parser.hunks[k].lines :
            Passed(k, j)' <=> Passed(k, j) \/ (k = applier.hunk /\ j = applier.line + 1)
    BY <1>1, <1>2, <1>3, <1>6, <1>7, PassedLine
<1> HIDE DEF line
<1>13. OldPlace' = applier.cursor
    BY <1>4, <1>9, <1>11, <1>12
<1>14. PlaceInv'
    BY <1>3, <1>6, <1>7, <1>8, <1>9, <1>12, <1>13 DEF PlaceInv
<1>15. MatchInv'
    <2>1. \A k \in DOMAIN parser.hunks : \A j \in DOMAIN parser.hunks[k].lines :
                Passed(k, j) => LineMatched(k, j)'
        BY <1>2, <1>3, <1>4, <1>5, <1>6, <1>7, MatchKept
    <2>2. ASSUME NEW k, NEW j, k = applier.hunk, j = applier.line + 1
          PROVE  LineMatched(k, j)'
        <3>1. parser'.hunks[k].lines[j] = line
            BY <1>7, <1>9, <2>2 DEF line
        <3>2. QED BY <1>8, <1>11, <3>1 DEF LineMatched
    <2>3. QED BY <1>7, <1>8, <1>12, <2>1, <2>2 DEF MatchInv
<1>16. OwnInv' /\ EndedInv'
    BY <1>8 DEF OwnInv, EndedInv
<1>17. ApplierInv'
    BY <1>2, <1>7, <1>14, <1>15, <1>16 DEF ApplierInv
<1>18. QED BY <1>7, <1>17 DEF Inv, WriteInv

\* A marker is about the line before it, and matters if that is on the new side.
LEMMA MarkedLineKeeps ==
    ASSUME Inv, ApplyLine, ~parser.delete, LinesOfHunk[applier.line + 1].tag = "\\"
    PROVE  Inv'
<1> DEFINE next == [applier EXCEPT !.line = @ + 1]
           a == Marked(next)
           h == applier.hunk
           l == applier.line + 1
           line == LinesOfHunk[l]
<1>1. Applying /\ ~HunkIsDone /\ Proceeds(a)
    BY DEF ApplyLine
<1>2. current # Pending /\ TypeOK
    BY <1>1 DEF Applying, Inv
<1>3. Reads /\ PlaceInv /\ MatchInv /\ OwnInv /\ EndedInv
    BY <1>2, ApplierReads
<1>4. /\ applier \in ApplierState /\ applier.line \in Nat /\ l \in Nat
      /\ applier.source \in Seq(Texts) /\ Len(applier.out) \in Nat
      /\ applier.cursor \in Nat
      /\ applier.ended \in BOOLEAN /\ applier.onNew \in BOOLEAN
    BY <1>2, ApplierFields
<1>5. next \in ApplierState
    BY <1>4 DEF ApplierState
<1>6. /\ next.hunk = h /\ next.line = l /\ next.source = applier.source
      /\ next.out = applier.out /\ next.cursor = applier.cursor
      /\ next.ended = applier.ended /\ next.onNew = applier.onNew
    BY <1>4 DEF ApplierState
<1> HIDE DEF next, l, h
<1>7. a = [next EXCEPT !.ended = applier.ended /\ ~applier.onNew]
    BY <1>6 DEF Marked
<1>8. a \in ApplierState
    <2>1. (applier.ended /\ ~applier.onNew) \in BOOLEAN
        OBVIOUS
    <2>2. QED BY <1>5, <1>7, <2>1 DEF ApplierState
<1>9. /\ a.hunk = h /\ a.line = l /\ a.source = applier.source
      /\ a.out = applier.out /\ a.cursor = applier.cursor
      /\ a.ended = (applier.ended /\ ~applier.onNew)
    BY <1>5, <1>6, <1>7 DEF ApplierState
<1>10. /\ WriteInv' /\ ResultInv' /\ OldLines' = OldLines
       /\ applier' = a
       /\ UNCHANGED <<old, deletes, writer, parser, current, result>>
    BY <1>1, <1>8, ProceedingRest
<1> HIDE DEF a
<1>11. ~deletes /\ ~deletes'
    BY <1>3, <1>10 DEF Reads
<1>12. /\ h \in DOMAIN parser.hunks
       /\ LinesOfHunk = parser.hunks[h].lines
       /\ l \in DOMAIN parser.hunks[h].lines
       /\ l <= Len(parser.hunks[h].lines)
       /\ line.old = applier.cursor /\ line.new = NewPlace /\ line.new \in Nat
    BY <1>1, <1>2, <1>3, NextLine DEF l, h
<1>13. line.tag = "\\"
    BY DEF l
<1>14. line.tag \notin OldSide /\ line.tag \notin NewSide
    BY <1>13 DEF OldSide, NewSide
<1>15. /\ LinesOfHunk' = LinesOfHunk
       /\ OldPlace' = line.old + IF line.tag \in OldSide THEN 1 ELSE 0
       /\ NewPlace' = line.new + IF line.tag \in NewSide THEN 1 ELSE 0
       /\ \A k \in DOMAIN parser.hunks : \A j \in DOMAIN parser.hunks[k].lines :
            Passed(k, j)' <=> Passed(k, j) \/ (k = h /\ j = l)
    BY <1>1, <1>2, <1>3, <1>9, <1>10, PassedLine DEF l, h
<1> HIDE DEF line
<1>16. OldPlace' = applier.cursor /\ NewPlace' = NewPlace
    BY <1>4, <1>12, <1>14, <1>15
<1>17. PlaceInv'
    BY <1>3, <1>9, <1>10, <1>11, <1>12, <1>15, <1>16 DEF PlaceInv, h
<1>18. MatchInv'
    <2>1. /\ \A k \in DOMAIN parser.hunks : \A j \in DOMAIN parser.hunks[k].lines :
                Passed(k, j) => LineMatched(k, j)'
          /\ ~deletes => \A k \in 1 .. applier.hunk : GapKept(k)'
        BY <1>2, <1>3, <1>4, <1>8, <1>9, <1>10, MatchKept
    <2>2. ASSUME NEW k, NEW j, k = h, j = l
          PROVE  LineMatched(k, j)'
        <3>1. parser'.hunks[k].lines[j] = line
            BY <1>10, <1>12, <2>2 DEF line
        <3>2. QED BY <1>14, <3>1 DEF LineMatched
    <2>3. applier'.hunk = applier.hunk
        BY <1>9, <1>10 DEF h
    <2>4. QED BY <1>10, <1>11, <1>15, <2>1, <2>2, <2>3 DEF MatchInv
<1>19. OwnInv'
    BY <1>3, <1>9, <1>10 DEF OwnInv
<1>20. EndedInv'
    <2>1. applier'.line > 0 =>
            (LinesOfHunk'[applier'.line].tag # "\\" =>
                applier'.onNew = (LinesOfHunk'[applier'.line].tag \in NewSide))
        BY <1>9, <1>10, <1>13, <1>15 DEF line
    <2>2. applier.ended <=>
            /\ Ended(current)
            /\ \A k \in DOMAIN parser.hunks : \A j \in DOMAIN parser.hunks[k].lines :
                    Passed(k, j) => ~MarksNew(parser.hunks, k, j)
        BY <1>3, <1>11 DEF EndedInv
    <2>3. applier.onNew <=> MarksNew(parser.hunks, h, l)
        <3>1. l > 1 /\ parser.hunks[h].lines[l - 1].tag # "\\"
            BY <1>3, <1>12, <1>13 DEF Reads, MarkersFollow, line
        <3>2. l - 1 = applier.line /\ applier.line > 0
            BY <1>4, <3>1 DEF l
        <3>3. applier.onNew = (parser.hunks[h].lines[l - 1].tag \in NewSide)
            BY <1>3, <1>11, <1>12, <3>1, <3>2 DEF EndedInv
        <3>4. parser.hunks[h].lines[l].tag = "\\"
            BY <1>12, <1>13 DEF line
        <3>5. QED BY <3>1, <3>3, <3>4 DEF MarksNew
    <2>4. applier'.ended <=> applier.ended /\ ~applier.onNew
        BY <1>9, <1>10
    <2>5. applier'.ended <=>
            /\ Ended(current')
            /\ \A k \in DOMAIN parser'.hunks : \A j \in DOMAIN parser'.hunks[k].lines :
                    Passed(k, j)' => ~MarksNew(parser'.hunks, k, j)
        BY <1>10, <1>12, <1>15, <2>2, <2>3, <2>4
    <2>6. QED BY <2>1, <2>5 DEF EndedInv
<1>21. ApplierInv'
    BY <1>2, <1>10, <1>17, <1>18, <1>19, <1>20 DEF ApplierInv
<1>22. QED BY <1>10, <1>21 DEF Inv, WriteInv

\* A context, removed or added line that is found where it is.
LEMMA MatchedLineKeeps ==
    ASSUME Inv, ApplyLine,
           ~(parser.delete /\ LinesOfHunk[applier.line + 1].tag # "-"),
           LinesOfHunk[applier.line + 1].tag # "\\",
           LinesOfHunk[applier.line + 1].tag \in OldSide =>
                Finds(applier, LinesOfHunk[applier.line + 1])
    PROVE  Inv'
<1> DEFINE next == [applier EXCEPT !.line = @ + 1]
           h == applier.hunk
           l == applier.line + 1
           line == LinesOfHunk[l]
           a == Matched(next, line)
           x == IF line.tag \in OldSide THEN 1 ELSE 0
           y == IF line.tag \in NewSide THEN 1 ELSE 0
           out == IF line.tag \in NewSide THEN Append(applier.out, line.text) ELSE applier.out
<1>1. /\ Applying /\ ~HunkIsDone /\ Proceeds(a)
      /\ line.tag # "\\"
      /\ line.tag \in OldSide =>
            applier.cursor < Len(applier.source) /\ applier.source[applier.cursor + 1] = line.text
    BY DEF ApplyLine, Finds
<1>2. current # Pending /\ TypeOK
    BY <1>1 DEF Applying, Inv
<1>3. Reads /\ PlaceInv /\ MatchInv /\ OwnInv /\ EndedInv
    BY <1>2, ApplierReads
<1>4. /\ applier \in ApplierState /\ applier.line \in Nat /\ l \in Nat
      /\ applier.source \in Seq(Texts) /\ Len(applier.source) \in Nat
      /\ applier.out \in Seq(Texts) /\ Len(applier.out) \in Nat
      /\ DOMAIN applier.out = 1 .. Len(applier.out)
      /\ applier.cursor \in Nat
      /\ applier.ended \in BOOLEAN /\ applier.onNew \in BOOLEAN
    BY <1>2, ApplierFields
<1>5. next \in ApplierState
    BY <1>4 DEF ApplierState
<1>6. /\ next.hunk = h /\ next.line = l /\ next.source = applier.source
      /\ next.out = applier.out /\ next.cursor = applier.cursor
      /\ next.ended = applier.ended
    BY <1>4 DEF ApplierState
<1>7. /\ h \in DOMAIN parser.hunks
      /\ LinesOfHunk = parser.hunks[h].lines
      /\ l \in DOMAIN parser.hunks[h].lines
      /\ l <= Len(parser.hunks[h].lines)
      /\ line.text \in Texts
      /\ line.old = applier.cursor /\ line.new = NewPlace /\ line.new \in Nat
    BY <1>1, <1>2, <1>3, NextLine
<1>8. /\ x \in {0, 1} /\ (line.tag \in OldSide => x = 1) /\ (line.tag \notin OldSide => x = 0)
      /\ y \in {0, 1} /\ (line.tag \in NewSide => y = 1) /\ (line.tag \notin NewSide => y = 0)
    OBVIOUS
<1>9. /\ out \in Seq(Texts)
      /\ Len(out) = Len(applier.out) + y
      /\ \A i \in 1 .. Len(applier.out) : out[i] = applier.out[i]
      /\ line.tag \in NewSide => out[Len(applier.out) + 1] = line.text
    <2>1. CASE line.tag \in NewSide
        <3>1. out = Append(applier.out, line.text) /\ y = 1
            BY <2>1
        <3> HIDE DEF out, y, line
        <3>2. QED BY <1>4, <1>7, <3>1
    <2>2. CASE line.tag \notin NewSide
        <3>1. out = applier.out /\ y = 0
            BY <2>2
        <3> HIDE DEF out, y, line
        <3>2. QED BY <1>4, <2>2, <3>1
    <2>3. QED BY <2>1, <2>2
<1> DEFINE onNew == line.tag \in NewSide
<1>10. onNew \in BOOLEAN
    OBVIOUS
<1>11. a = [next EXCEPT !.out = out, !.cursor = applier.cursor + x, !.onNew = onNew]
    <2> HIDE DEF next, line, l, h
    <2>1. CASE line.tag \in OldSide
        BY <1>6, <2>1 DEF Matched
    <2>2. CASE line.tag \notin OldSide
        <3>1. x = 0 /\ applier.cursor + 0 = applier.cursor
            BY <1>4, <2>2
        <3>2. QED BY <1>6, <2>2, <3>1 DEF Matched
    <2>3. QED BY <2>1, <2>2
<1>12. LinesOfHunk[applier.line + 1] = line /\ applier.line + 1 = l /\ applier.hunk = h
    OBVIOUS
<1>13. (x = IF line.tag \in OldSide THEN 1 ELSE 0) /\ (y = IF line.tag \in NewSide THEN 1 ELSE 0)
       /\ (onNew <=> line.tag \in NewSide)
    OBVIOUS
<1> HIDE DEF next, line, l, h, a, x, y, out, onNew
<1>14. applier.cursor + x \in Nat
    BY <1>4, <1>8
<1>15. a \in ApplierState
    BY <1>5, <1>9, <1>10, <1>11, <1>14 DEF ApplierState
<1>16. /\ a.hunk = h /\ a.line = l /\ a.source = applier.source
       /\ a.out = out /\ a.cursor = applier.cursor + x
       /\ a.ended = applier.ended /\ a.onNew = onNew
    BY <1>5, <1>6, <1>11 DEF ApplierState
<1>17. /\ WriteInv' /\ ResultInv' /\ OldLines' = OldLines
       /\ applier' = a
       /\ UNCHANGED <<old, deletes, writer, parser, current, result>>
    BY <1>1, <1>15, ProceedingRest
<1>18. deletes' = deletes /\ deletes \in BOOLEAN
    BY <1>3, <1>17 DEF Reads
<1>19. /\ LinesOfHunk' = LinesOfHunk
       /\ OldPlace' = line.old + x
       /\ NewPlace' = line.new + y
       /\ \A k \in DOMAIN parser.hunks : \A j \in DOMAIN parser.hunks[k].lines :
            Passed(k, j)' <=> Passed(k, j) \/ (k = h /\ j = l)
    BY <1>1, <1>2, <1>3, <1>12, <1>13, <1>16, <1>17, PassedLine
<1>20. ~deletes /\ applier.cursor <= Len(applier.source) => Len(applier.out) = line.new
    BY <1>3, <1>7 DEF PlaceInv
<1>21. PlaceInv'
    <2>1. applier'.cursor = OldPlace'
        BY <1>7, <1>16, <1>17, <1>19
    <2>2. ASSUME ~deletes', applier'.cursor <= Len(applier'.source)
          PROVE  Len(applier'.out) = NewPlace'
        <3>1. applier.cursor + x <= Len(applier.source)
            BY <1>16, <1>17, <2>2
        <3>2. applier.cursor <= Len(applier.source)
            BY <1>4, <1>8, <3>1
        <3>3. Len(applier.out) = line.new
            BY <1>18, <1>20, <2>2, <3>2
        <3>4. QED BY <1>9, <1>16, <1>17, <1>19, <3>3
    <2>3. /\ applier'.source = LinesOf(current')
          /\ writer'.done /\ Parses(parser')
          /\ applier'.hunk <= Len(parser'.hunks)
          /\ applier'.line <= Len(LinesOfHunk')
        BY <1>3, <1>7, <1>12, <1>16, <1>17, <1>19 DEF PlaceInv
    <2>4. QED BY <2>1, <2>2, <2>3 DEF PlaceInv
<1>22. MatchInv'
    <2>1. Len(applier.out) <= Len(out)
        BY <1>4, <1>8, <1>9
    <2>2. /\ \A k \in DOMAIN parser.hunks : \A j \in DOMAIN parser.hunks[k].lines :
                Passed(k, j) => LineMatched(k, j)'
          /\ ~deletes => \A k \in 1 .. applier.hunk : GapKept(k)'
        BY <1>2, <1>3, <1>9, <1>15, <1>16, <1>17, <2>1, MatchKept
    <2>3. ASSUME NEW k, NEW j, k = h, j = l
          PROVE  LineMatched(k, j)'
        <3>1. parser'.hunks[k].lines[j] = line
            BY <1>7, <1>17, <2>3 DEF line
        <3>2. line.tag \in OldSide =>
                line.old < Len(applier.source) /\ applier.source[line.old + 1] = line.text
            BY <1>1, <1>7
        <3>3. ASSUME ~deletes, line.tag \in NewSide, line.old <= Len(applier.source)
              PROVE  line.new < Len(out) /\ out[line.new + 1] = line.text
            <4>1. Len(applier.out) = line.new
                BY <1>7, <1>20, <3>3
            <4>2. Len(out) = line.new + 1
                BY <1>8, <1>9, <3>3, <4>1
            <4>3. out[line.new + 1] = line.text
                BY <1>9, <3>3, <4>1
            <4>4. QED BY <1>7, <4>2, <4>3
        <3>4. applier'.source = applier.source /\ applier'.out = out
            BY <1>16, <1>17
        <3>5. QED BY <1>18, <3>1, <3>2, <3>3, <3>4 DEF LineMatched
    <2>4. applier'.hunk = applier.hunk
        BY <1>12, <1>16, <1>17
    <2>5. QED BY <1>17, <1>18, <1>19, <2>2, <2>3, <2>4 DEF MatchInv
<1>23. OwnInv'
    <2>1. SUFFICES ASSUME ~deletes, current = old
                   PROVE  /\ applier.cursor + x <= Len(applier.source)
                          /\ \A i \in DOMAIN out : i <= Len(writer.new) => out[i] = writer.new[i]
        BY <1>16, <1>17, <1>18 DEF OwnInv
    <2>2. /\ applier.cursor <= Len(applier.source)
          /\ \A i \in DOMAIN applier.out :
                i <= Len(writer.new) => applier.out[i] = writer.new[i]
        BY <1>3, <2>1 DEF OwnInv
    <2>3. applier.cursor + x <= Len(applier.source)
        <3>1. CASE line.tag \in OldSide
            <4>1. applier.cursor < Len(applier.source) /\ x = 1
                BY <1>1, <1>8, <3>1
            <4>2. QED BY <1>4, <4>1
        <3>2. CASE line.tag \notin OldSide
            <4>1. x = 0
                BY <1>8, <3>2
            <4>2. QED BY <1>4, <2>2, <4>1
        <3>3. QED BY <3>1, <3>2
    <2>4. Len(applier.out) = line.new
        BY <1>20, <2>1, <2>2
    <2>5. TruthfulIfSeen(line, writer, OldLines)
        <3>1. TruthfulIfSeen(parser.hunks[h].lines[l], writer, OldLines)
            BY <1>3, <1>7 DEF Reads
        <3>2. QED BY <1>7, <3>1 DEF line
    <2>6. ASSUME NEW i \in DOMAIN out, i <= Len(writer.new)
          PROVE  out[i] = writer.new[i]
        <3>1. i \in 1 .. Len(applier.out) + y
            BY <1>9
        <3>2. CASE i <= Len(applier.out)
            <4>1. i \in 1 .. Len(applier.out)
                BY <1>4, <1>8, <3>1, <3>2
            <4>2. applier.out[i] = writer.new[i]
                BY <1>4, <2>2, <2>6, <4>1
            <4>3. QED BY <1>9, <4>1, <4>2
        <3>3. CASE ~(i <= Len(applier.out))
            <4>1. i = Len(applier.out) + 1 /\ y = 1
                BY <1>4, <1>8, <3>1, <3>3
            <4>2. line.tag \in NewSide
                BY <1>8, <4>1
            <4>3. out[i] = line.text
                BY <1>9, <4>1, <4>2
            <4>4. i = line.new + 1
                BY <2>4, <4>1
            <4>5. Len(writer.new) \in Nat
                BY <1>2, StateFields
            <4>6. line.new < Len(writer.new)
                BY <1>7, <2>6, <4>4, <4>5
            <4>7. line.text = writer.new[line.new + 1]
                BY <2>5, <4>2, <4>6 DEF TruthfulIfSeen
            <4>8. QED BY <4>3, <4>4, <4>7
        <3>4. QED BY <3>2, <3>3
    <2>7. QED BY <2>3, <2>6
<1>24. EndedInv'
    <2>1. SUFFICES ASSUME ~deletes
                   PROVE  /\ applier'.line > 0 =>
                            (LinesOfHunk'[applier'.line].tag # "\\" =>
                                applier'.onNew = (LinesOfHunk'[applier'.line].tag \in NewSide))
                          /\ applier'.ended <=>
                                /\ Ended(current')
                                /\ \A k \in DOMAIN parser'.hunks :
                                      \A j \in DOMAIN parser'.hunks[k].lines :
                                        Passed(k, j)' => ~MarksNew(parser'.hunks, k, j)
        BY <1>18 DEF EndedInv
    <2>2. applier.ended <=>
            /\ Ended(current)
            /\ \A k \in DOMAIN parser.hunks : \A j \in DOMAIN parser.hunks[k].lines :
                    Passed(k, j) => ~MarksNew(parser.hunks, k, j)
        BY <1>3, <2>1 DEF EndedInv
    <2>3. ~MarksNew(parser.hunks, h, l)
        <3>1. parser.hunks[h].lines[l].tag # "\\"
            BY <1>1, <1>7 DEF line
        <3>2. QED BY <3>1 DEF MarksNew
    <2>4. applier'.ended <=> applier.ended
        BY <1>16, <1>17
    <2>5. applier'.ended <=>
            /\ Ended(current')
            /\ \A k \in DOMAIN parser'.hunks : \A j \in DOMAIN parser'.hunks[k].lines :
                    Passed(k, j)' => ~MarksNew(parser'.hunks, k, j)
        BY <1>17, <1>19, <2>2, <2>3, <2>4
    <2>6. applier'.onNew = (LinesOfHunk'[applier'.line].tag \in NewSide)
        <3>1. LinesOfHunk'[applier'.line] = line /\ applier'.onNew = onNew
            BY <1>16, <1>17, <1>19 DEF line
        <3>2. QED BY <3>1 DEF onNew
    <2>7. QED BY <2>5, <2>6
<1>25. ApplierInv'
    BY <1>2, <1>17, <1>21, <1>22, <1>23, <1>24 DEF ApplierInv
<1>26. QED BY <1>17, <1>25 DEF Inv, WriteInv

LEMMA LineKeeps == Inv /\ ApplyLine => Inv'
<1> SUFFICES ASSUME Inv, ApplyLine
             PROVE  Inv'
    OBVIOUS
<1> DEFINE line == LinesOfHunk[applier.line + 1]
<1>1. CASE parser.delete /\ line.tag # "-"
    BY <1>1, DeletedLineKeeps
<1>2. CASE ~(parser.delete /\ line.tag # "-") /\ line.tag = "\\"
    <2>1. ~parser.delete
        BY <1>2
    <2>2. QED BY <1>2, <2>1, MarkedLineKeeps
<1>3. CASE /\ ~(parser.delete /\ line.tag # "-") /\ line.tag # "\\"
           /\ line.tag \in OldSide /\ ~Finds(applier, line)
    <2>1. Answers(Refused) /\ current # Pending
        BY <1>3 DEF ApplyLine, Applying
    <2>2. QED BY <2>1, RefusingKeeps
<1>4. CASE /\ ~(parser.delete /\ line.tag # "-") /\ line.tag # "\\"
           /\ ~(line.tag \in OldSide /\ ~Finds(applier, line))
    BY <1>4, MatchedLineKeeps
<1>5. QED BY <1>1, <1>2, <1>3, <1>4

\* What is joined is a content.
LEMMA JoinedType ==
    ASSUME NEW lines \in Seq(Texts), NEW ended \in BOOLEAN
    PROVE  Joined(lines, ended) \in Seq(Texts)
<1> DEFINE out == IF lines = <<>> THEN <<Blank>> ELSE lines
<1>1. Blank \in Texts
    BY DiffsAssumption
<1>2. <<Blank>> \in Seq(Texts)
    BY <1>1
<1>3. out \in Seq(Texts)
    BY <1>2
<1>4. Joined(lines, ended) = IF ended THEN Append(out, Blank) ELSE out
    BY DEF Joined
<1> HIDE DEF out
<1>5. Append(out, Blank) \in Seq(Texts)
    BY <1>1, <1>3
<1>6. QED BY <1>3, <1>4, <1>5

LEMMA FinishKeeps == Inv /\ Finish => Inv'
<1> SUFFICES ASSUME Inv, Finish
             PROVE  Inv'
    OBVIOUS
<1> DEFINE rest == SubSeq(applier.source, applier.cursor + 1, Len(applier.source))
           joined == Joined(applier.out \o rest, applier.ended)
           answer == IF ~parser.delete THEN joined
                     ELSE IF applier.cursor = Len(applier.source) THEN Absent ELSE Refused
<1>1. /\ Applying /\ HunkIsDone /\ applier.hunk = Len(parser.hunks)
      /\ Answers(answer)
    BY DEF Finish
<1>2. current # Pending /\ TypeOK
    BY <1>1 DEF Applying, Inv
<1>3. Reads
    BY <1>2, ApplierReads
<1>4. /\ applier.source \in Seq(Texts) /\ Len(applier.source) \in Nat
      /\ applier.out \in Seq(Texts) /\ applier.cursor \in Nat /\ applier.ended \in BOOLEAN
    BY <1>2, ApplierFields
<1>5. rest \in Seq(Texts)
    BY <1>4
<1> HIDE DEF rest
<1>6. applier.out \o rest \in Seq(Texts)
    BY <1>4, <1>5
<1>7. joined \in Seq(Texts)
    BY <1>4, <1>6, JoinedType
<1> HIDE DEF joined
<1>8. answer \in Seq(Texts) \cup {Absent, Refused}
    BY <1>7
<1>9. /\ answer # Refused /\ deletes => answer = Absent /\ applier.cursor = Len(applier.source)
      /\ ~deletes => answer = joined
    BY <1>3 DEF Reads
<1> HIDE DEF answer
<1>10. result' = answer /\ UNCHANGED <<old, deletes, writer, parser, current, applier>>
    BY <1>1 DEF Answers, Applies
<1>11. HunkIsDone' /\ applier'.hunk = Len(parser'.hunks)
    BY <1>1, <1>10 DEF HunkIsDone, LinesOfHunk
<1>12. ResultInv'
    <2>1. SUFFICES ASSUME answer # Refused
                   PROVE  IF deletes THEN answer = Absent /\ applier.cursor = Len(applier.source)
                          ELSE answer = joined
        BY <1>10, <1>11 DEF ResultInv, Applied, joined, rest
    <2>2. QED BY <1>9, <2>1
<1>13. QED BY <1>1, <1>2, <1>8, <1>12, AnsweringKeeps
-----------------------------------------------------------------------------
\* Every step.

LEMMA WriterKeeps == Inv /\ WriterNext => Inv'
<1> SUFFICES ASSUME Inv, WriterNext
             PROVE  Inv'
    OBVIOUS
<1>1. WriteInv
    BY DEF Inv, WriteInv
<1>2. SUFFICES WriteInv' /\ ApplierInv'
    BY DEF Inv, WriteInv
<1>3. CASE WriteOldName
    <2>1. ApplierInv'
        BY <1>3, WritingKeeps DEF WriteOldName
    <2>2. QED BY <1>1, <1>3, <2>1, OldNameWritten
<1>4. CASE WriteNewName
    <2>1. ApplierInv'
        BY <1>4, WritingKeeps DEF WriteNewName
    <2>2. QED BY <1>1, <1>4, <2>1, NewNameWritten
<1>5. CASE \E gap, oldCount \in 0 .. Len(OldLines) - writer.seen, newCount \in 0 .. MaxNew :
                WriteHunk(gap, oldCount, newCount)
    <2>1. PICK gap \in 0 .. Len(OldLines) - writer.seen,
               oldCount \in 0 .. Len(OldLines) - writer.seen, newCount \in 0 .. MaxNew :
                    WriteHunk(gap, oldCount, newCount)
        BY <1>5
    <2>2. WriteInv'
        BY <1>1, <2>1, HunkWritten
    <2>3. ApplierInv'
        BY <2>1, WritingKeeps DEF WriteHunk
    <2>4. QED BY <2>2, <2>3
<1>6. CASE \E tag \in OldSide \cup NewSide, text \in Texts, unended \in BOOLEAN :
                WriteLine(tag, text, unended)
    <2>1. PICK tag \in OldSide \cup NewSide, text \in Texts, unended \in BOOLEAN :
                    WriteLine(tag, text, unended)
        BY <1>6
    <2>2. WriteInv'
        BY <1>1, <2>1, LineWritten
    <2>3. ApplierInv'
        BY <2>1, WritingKeeps DEF WriteLine
    <2>4. QED BY <2>2, <2>3
<1>7. CASE WriteMarker
    <2>1. ApplierInv'
        BY <1>7, WritingKeeps DEF WriteMarker
    <2>2. QED BY <1>1, <1>7, <2>1, MarkerWritten
<1>8. CASE EndText
    <2>1. PICK line : Writes(line)
        BY <1>8 DEF EndText
    <2>3. ApplierInv'
        BY <2>1, WritingKeeps
    <2>2. QED BY <1>1, <1>8, <2>3, TextEnded
<1>9. QED BY <1>3, <1>4, <1>5, <1>6, <1>7, <1>8 DEF WriterNext

LEMMA InitInv == Init => Inv
<1> SUFFICES ASSUME Init
             PROVE  Inv
    OBVIOUS
<1> USE DEF Init
<1>1. <<>> \in Seq(Texts) /\ <<>> \in Seq(DiffHunk) /\ Len(<<>>) = 0
    OBVIOUS
<1>2. writer \in WriterState
    BY <1>1 DEF WriterState, NothingWritten
<1>3. parser \in ParserState
    BY <1>1 DEF ParserState, NothingRead
<1>4. applier \in ApplierState
    BY <1>1, ContentLines DEF ApplierState, NotStarted
<1>5. TypeOK
    BY <1>2, <1>3, <1>4 DEF TypeOK
<1>6. OldLines \in Seq(Texts) /\ Len(OldLines) \in Nat
    BY <1>5, StateFields
<1>7. /\ writer.stage = "---" /\ writer.hunks = <<>> /\ writer.seen = 0 /\ writer.new = <<>>
      /\ writer.owed = [old |-> 0, new |-> 0] /\ writer.owed.old = 0 /\ writer.owed.new = 0
      /\ writer.due = FALSE /\ writer.closed = FALSE /\ writer.done = FALSE
    BY DEF NothingWritten
<1>8. /\ parser.mode = "scan" /\ parser.create = FALSE /\ parser.delete = FALSE
      /\ parser.found = FALSE /\ parser.hunks = <<>> /\ parser.left = [old |-> 0, new |-> 0]
    BY DEF NothingRead
<1>9. DOMAIN writer.hunks = {} /\ Len(writer.hunks) = 0
    BY <1>7
<1> USE DEF Nowhere
<1>10. WriterInv
    <2>1. OpenHunk(writer)
        BY <1>7, <1>9 DEF OpenHunk
    <2>2. /\ Chained(writer.hunks) /\ TruthfulGaps(writer.hunks, writer, OldLines)
          /\ TruthfulLines(writer.hunks, writer, OldLines)
          /\ OnlyRemoves(writer.hunks) /\ MarkersFollow(writer.hunks)
          /\ ~SomeMark(writer.hunks)
        BY <1>9 DEF Chained, TruthfulGaps, TruthfulLines, OnlyRemoves, MarkersFollow, SomeMark
    <2>3. DueLine(writer) /\ ClosedSide(writer)
        BY <1>7, <2>2 DEF DueLine, ClosedSide
    <2>4. writer.seen + writer.owed.old <= Len(OldLines)
        BY <1>6, <1>7
    <2>5. QED BY <1>7, <2>1, <2>2, <2>3, <2>4 DEF WriterInv
<1>11. ReadInv
    BY <1>7, <1>8 DEF ReadInv, Follows
<1>12. HunksInv /\ ApplierInv
    BY <1>7 DEF HunksInv, ApplierInv
<1>13. QED BY <1>5, <1>10, <1>11, <1>12 DEF Inv

\* The writer's, the parser's and the applier's states hang together after every step.
THEOREM InvHolds == Spec => []Inv
<1>1. Init => Inv
    BY InitInv
<1>2. Inv /\ [Next]_vars => Inv'
    <2> SUFFICES ASSUME Inv, [Next]_vars
                 PROVE  Inv'
        OBVIOUS
    <2>1. CASE WriterNext
        BY <2>1, WriterKeeps
    <2>2. CASE RefuseDiff
        BY <2>2, RefusalKeeps
    <2>3. CASE \E content \in Contents \cup {Absent} : StartApply(content)
        BY <2>3, StartKeeps
    <2>4. CASE StartHunk
        BY <2>4, HunkKeeps
    <2>5. CASE ApplyLine
        BY <2>5, LineKeeps
    <2>6. CASE Finish
        BY <2>6, FinishKeeps
    <2>7. CASE UNCHANGED vars
        <3>1. UNCHANGED <<old, deletes, writer, parser, current, applier, result>>
            BY <2>7 DEF vars
        <3>2. WriteInv'
            BY <3>1, AppliesRest DEF Inv, WriteInv, TypeOK
        <3>3. /\ LinesOfHunk' = LinesOfHunk /\ OldPlace' = OldPlace /\ NewPlace' = NewPlace
              /\ \A k, j : Passed(k, j)' <=> Passed(k, j)
              /\ HunkIsDone' <=> HunkIsDone
              /\ Applied' <=> Applied
            BY <3>1 DEF LinesOfHunk, OldPlace, NewPlace, Passed, HunkIsDone, Applied
        <3>4. PlaceInv => PlaceInv'
            BY <3>1, <3>3 DEF PlaceInv
        <3>5. MatchInv => MatchInv'
            BY <3>1, <3>3 DEF MatchInv, LineMatched, GapKept
        <3>6. (OwnInv => OwnInv') /\ (EndedInv => EndedInv') /\ (ResultInv => ResultInv')
            BY <3>1, <3>3 DEF OwnInv, EndedInv, ResultInv
        <3>7. ApplierInv'
            BY <3>1, <3>4, <3>5, <3>6 DEF Inv, ApplierInv
        <3>8. QED BY <3>2, <3>7 DEF Inv, WriteInv
    <2>8. QED BY <2>1, <2>2, <2>3, <2>4, <2>5, <2>6, <2>7 DEF Next
<1>3. QED BY <1>1, <1>2, PTL DEF Spec
-----------------------------------------------------------------------------
\* The answer.

\* Joining keeps the lines.
LEMMA JoinedLines ==
    ASSUME NEW lines \in Seq(Texts), NEW ended \in BOOLEAN
    PROVE  \A i \in 1 .. Len(lines) : Joined(lines, ended)[i] = lines[i]
<1>1. SUFFICES ASSUME NEW i \in 1 .. Len(lines)
               PROVE  Joined(lines, ended)[i] = lines[i]
    OBVIOUS
<1>2. lines # <<>>
    BY <1>1
<1>3. Joined(lines, ended) = IF ended THEN Append(lines, Blank) ELSE lines
    BY <1>2 DEF Joined
<1>4. Append(lines, Blank)[i] = lines[i]
    BY <1>1
<1>5. QED BY <1>3, <1>4

\* When something was applied the applier is at the end, and has passed every line.
LEMMA AppliedAtEnd ==
    ASSUME Inv, Applied
    PROVE  /\ current # Pending
           /\ TypeOK /\ Reads /\ PlaceInv /\ MatchInv /\ OwnInv /\ EndedInv /\ ResultInv
           /\ applier.hunk = Len(parser.hunks)
           /\ applier.cursor = OldEndOf(parser.hunks, Len(parser.hunks))
           /\ NewPlace = NewEndOf(parser.hunks, Len(parser.hunks))
           /\ \A k \in DOMAIN parser.hunks : \A j \in DOMAIN parser.hunks[k].lines : Passed(k, j)
<1>1. current # Pending
    BY DEF Inv, ApplierInv, Applied
<1>2. TypeOK /\ Reads /\ PlaceInv /\ MatchInv /\ OwnInv /\ EndedInv /\ ResultInv
    BY <1>1, ApplierReads DEF Inv
<1>3. HunkIsDone /\ applier.hunk = Len(parser.hunks)
    BY <1>2 DEF ResultInv
<1>4. /\ OldPlace = OldEndOf(parser.hunks, applier.hunk)
      /\ NewPlace = NewEndOf(parser.hunks, applier.hunk)
    BY <1>2, <1>3, DonePlaces
<1>5. applier.cursor = OldPlace
    BY <1>2 DEF PlaceInv
<1>6. ASSUME NEW k \in DOMAIN parser.hunks, NEW j \in DOMAIN parser.hunks[k].lines
      PROVE  Passed(k, j)
    <2>1. k \in Nat /\ k > 0 /\ k <= Len(parser.hunks) /\ Len(parser.hunks) \in Nat
        BY <1>2, ApplierFields
    <2>2. parser.hunks[k] \in DiffHunk
        BY <1>2, ApplierFields
    <2>3. j <= Len(parser.hunks[k].lines)
        BY <2>2, HunkType
    <2>4. CASE k < Len(parser.hunks)
        BY <1>3, <2>4 DEF Passed
    <2>5. CASE k = Len(parser.hunks)
        <3>1. k = applier.hunk /\ applier.hunk # 0
            BY <1>3, <2>1, <2>5
        <3>2. applier.line = Len(parser.hunks[k].lines)
            BY <1>3, <3>1 DEF HunkIsDone, LinesOfHunk
        <3>3. QED BY <2>3, <3>1, <3>2 DEF Passed
    <2>6. QED BY <2>1, <2>4, <2>5
<1>7. QED BY <1>1, <1>2, <1>3, <1>4, <1>5, <1>6

\* What comes out: what was put there, and the rest of the source.
Whole == CopyOf(applier.out, applier.source, applier.cursor, Len(applier.source))

LEMMA AppliedWhole ==
    ASSUME Inv, Applied, ~deletes
    PROVE  /\ Whole \in Seq(Texts)
           /\ CopiesLines(Whole, applier.out, applier.source, applier.cursor,
                          SpanOf(applier.cursor, Len(applier.source)))
           /\ result = Joined(Whole, applier.ended)
           /\ result \in Seq(Texts)
           /\ \A i \in 1 .. Len(Whole) : result[i] = Whole[i]
<1>1. ResultInv /\ TypeOK
    BY AppliedAtEnd
<1>2. result = Joined(Whole, applier.ended)
    BY <1>1 DEF ResultInv, Whole, CopyOf
<1>3. /\ applier.source \in Seq(Texts) /\ Len(applier.source) \in Nat
      /\ applier.out \in Seq(Texts) /\ applier.cursor \in Nat /\ applier.ended \in BOOLEAN
    BY <1>1, ApplierFields
<1>4. CopiesLines(Whole, applier.out, applier.source, applier.cursor,
                  SpanOf(applier.cursor, Len(applier.source)))
    <2>1. Len(applier.source) <= Len(applier.source)
        BY <1>3
    <2>2. QED BY <1>3, <2>1, CopyLines DEF Whole
<1>5. Whole \in Seq(Texts)
    BY <1>4 DEF CopiesLines
<1>6. Joined(Whole, applier.ended) \in Seq(Texts)
    BY <1>3, <1>5, JoinedType
<1>7. \A i \in 1 .. Len(Whole) : Joined(Whole, applier.ended)[i] = Whole[i]
    BY <1>3, <1>5, JoinedLines
<1>8. QED BY <1>2, <1>4, <1>5, <1>6, <1>7

\* On whole hunks both ends are those of the writer.
LEMMA SettledEnds ==
    ASSUME Inv, writer.done, Parses(parser), Settles
    PROVE  /\ parser.hunks = writer.hunks
           /\ OldEndOf(parser.hunks, Len(parser.hunks)) = writer.seen
           /\ NewEndOf(parser.hunks, Len(parser.hunks)) = Len(writer.new)
           /\ \A k \in 0 .. Len(writer.hunks) :
                OldEnd(k) = OldEndOf(parser.hunks, k) /\ NewEnd(k) = NewEndOf(parser.hunks, k)
<1>1. ~Completed
    <2>1. writer.owed.old = 0 /\ writer.owed.new = 0
        BY DEF Settles
    <2>2. \A tag \in OldSide \cup NewSide : Owing(tag).old = 1 \/ Owing(tag).new = 1
        BY DEF Owing
    <2>3. QED BY <2>1, <2>2 DEF Completed, CompletedBy
<1>2. parser.hunks = writer.hunks
    BY <1>1 DEF Inv, ReadInv
<1>3. /\ OldEndOf(writer.hunks, Len(writer.hunks)) = writer.seen
      /\ NewEndOf(writer.hunks, Len(writer.hunks)) = Len(writer.new)
    BY RestingEnds DEF Inv
<1>4. QED BY <1>2, <1>3 DEF OldEnd, NewEnd, OldEndOf, NewEndOf

LEMMA StrictWhileInv == Inv => StrictApply
<1> DEFINE lines == LinesOf(current)
           hunks == writer.hunks
<1>1. SUFFICES ASSUME Inv, Applied, Settles
               PROVE  /\ \A k \in DOMAIN hunks : \A j \in DOMAIN hunks[k].lines :
                        LET line == hunks[k].lines[j]
                        IN /\ line.tag \in OldSide =>
                                line.old < Len(lines) /\ lines[line.old + 1] = line.text
                           /\ line.tag \in NewSide /\ line.old <= Len(lines) =>
                                result[line.new + 1] = line.text
                      /\ result = Absent => Len(lines) = writer.seen
                      /\ result # Absent =>
                        \A k \in 0 .. Len(hunks) : \A n \in Between(k, lines) :
                            result[n - OldEnd(k) + NewEnd(k)] = lines[n]
    BY DEF StrictApply
<1>2. /\ TypeOK /\ Reads /\ PlaceInv /\ MatchInv /\ ResultInv
      /\ applier.hunk = Len(parser.hunks)
      /\ applier.cursor = OldEndOf(parser.hunks, Len(parser.hunks))
      /\ NewPlace = NewEndOf(parser.hunks, Len(parser.hunks))
      /\ \A k \in DOMAIN parser.hunks : \A j \in DOMAIN parser.hunks[k].lines : Passed(k, j)
    BY <1>1, AppliedAtEnd
<1>3. /\ parser.hunks = hunks
      /\ applier.cursor = writer.seen
      /\ \A k \in 0 .. Len(hunks) :
            OldEnd(k) = OldEndOf(parser.hunks, k) /\ NewEnd(k) = NewEndOf(parser.hunks, k)
    BY <1>1, <1>2, SettledEnds DEF PlaceInv
<1>4. applier.source = lines
    BY <1>2 DEF PlaceInv
<1>5. /\ lines \in Seq(Texts) /\ Len(lines) \in Nat /\ DOMAIN lines = 1 .. Len(lines)
      /\ Len(applier.out) \in Nat /\ applier.cursor \in Nat
      /\ Len(hunks) \in Nat /\ DOMAIN hunks = 1 .. Len(hunks)
      /\ \A k \in DOMAIN hunks : hunks[k] \in DiffHunk
    <2>1. /\ applier.source \in Seq(Texts) /\ Len(applier.source) \in Nat
          /\ Len(applier.out) \in Nat /\ applier.cursor \in Nat
        BY <1>2, ApplierFields
    <2>2. /\ Len(parser.hunks) \in Nat /\ DOMAIN parser.hunks = 1 .. Len(parser.hunks)
          /\ \A k \in DOMAIN parser.hunks : parser.hunks[k] \in DiffHunk
        BY <1>2, ApplierFields
    <2> HIDE DEF lines, hunks
    <2>3. lines \in Seq(Texts) /\ Len(lines) \in Nat
        BY <1>4, <2>1
    <2>4. DOMAIN lines = 1 .. Len(lines)
        BY <2>3
    <2>5. QED BY <1>3, <2>1, <2>2, <2>3, <2>4
<1>6. ~deletes =>
        /\ Whole \in Seq(Texts)
        /\ CopiesLines(Whole, applier.out, lines, applier.cursor, SpanOf(applier.cursor, Len(lines)))
        /\ result \in Seq(Texts)
        /\ \A i \in 1 .. Len(Whole) : result[i] = Whole[i]
    BY <1>1, <1>4, AppliedWhole
<1>7. SpanOf(applier.cursor, Len(lines)) \in Nat
    BY <1>5 DEF SpanOf
<1> HIDE DEF lines, hunks
\* What was put out is in the answer.
<1>8. ASSUME ~deletes, NEW i \in 1 .. Len(applier.out)
      PROVE  result[i] = applier.out[i]
    <2>1. i \in 1 .. Len(Whole) /\ Whole[i] = applier.out[i]
        BY <1>5, <1>6, <1>7, <1>8 DEF CopiesLines
    <2>2. QED BY <1>6, <1>8, <2>1
<1>9. ASSUME NEW k \in DOMAIN hunks, NEW j \in DOMAIN hunks[k].lines
      PROVE  LET line == hunks[k].lines[j]
             IN /\ line.tag \in OldSide =>
                    line.old < Len(lines) /\ lines[line.old + 1] = line.text
                /\ line.tag \in NewSide /\ line.old <= Len(lines) =>
                    result[line.new + 1] = line.text
    <2> DEFINE line == hunks[k].lines[j]
    <2>1. LineMatched(k, j)
        BY <1>2, <1>3 DEF MatchInv
    <2>2. /\ line.tag \in OldSide => line.old < Len(lines) /\ lines[line.old + 1] = line.text
          /\ ~deletes /\ line.tag \in NewSide /\ line.old <= Len(lines) =>
                line.new < Len(applier.out) /\ applier.out[line.new + 1] = line.text
        BY <1>3, <1>4, <2>1 DEF LineMatched
    <2>3. deletes => line.tag \notin NewSide
        <3>1. deletes => line.tag \in {"-", "\\"}
            BY <1>2, <1>3 DEF Reads, OnlyRemoves
        <3>2. QED BY <3>1 DEF NewSide
    <2>4. line.new \in Nat
        BY <1>5, HunkType
    <2> HIDE DEF line
    <2>5. ASSUME line.tag \in NewSide, line.old <= Len(lines)
          PROVE  result[line.new + 1] = line.text
        <3>1. ~deletes
            BY <2>3, <2>5
        <3>2. line.new < Len(applier.out) /\ applier.out[line.new + 1] = line.text
            BY <2>2, <2>5, <3>1
        <3>3. line.new + 1 \in 1 .. Len(applier.out)
            BY <1>5, <2>4, <3>2
        <3>4. QED BY <1>8, <3>1, <3>2, <3>3
    <2>6. QED BY <2>2, <2>5 DEF line
<1>10. result = Absent => Len(lines) = writer.seen
    <2>1. SUFFICES ASSUME result = Absent
                   PROVE  Len(lines) = writer.seen
        OBVIOUS
    <2>2. deletes
        BY <1>6, <2>1, DiffsAssumption
    <2>3. applier.cursor = Len(applier.source)
        BY <1>1, <1>2, <2>2 DEF ResultInv
    <2>4. QED BY <1>3, <1>4, <2>3
<1>11. ASSUME result # Absent, NEW k \in 0 .. Len(hunks), NEW n \in Between(k, lines)
       PROVE  result[n - OldEnd(k) + NewEnd(k)] = lines[n]
    <2> DEFINE oldEnd == OldEndOf(hunks, k)
               newEnd == NewEndOf(hunks, k)
               i == n - oldEnd
    <2>1. ~deletes
        BY <1>1, <1>2, <1>11 DEF ResultInv
    <2>2. oldEnd \in Nat /\ newEnd \in Nat
        <3>1. hunks \in Seq(DiffHunk)
            BY <1>2, StateFields DEF hunks
        <3>2. QED BY <3>1, EndsType
    <2>3. OldEnd(k) = oldEnd /\ NewEnd(k) = newEnd
        BY <1>3
    <2>4. n \in DOMAIN lines /\ n > oldEnd /\ (k < Len(hunks) => n <= hunks[k + 1].old)
        BY <2>3 DEF Between, hunks
    <2>5. n \in Nat /\ n <= Len(lines)
        BY <1>5, <2>4
    <2> HIDE DEF oldEnd, newEnd
    <2>6. i \in Nat /\ i > 0 /\ oldEnd + i = n /\ n - oldEnd + newEnd = newEnd + i
        BY <2>2, <2>4, <2>5, SMTT(20)
    <2>7. CASE k < Len(hunks)
        <3>1. k + 1 \in 1 .. applier.hunk /\ k + 1 \in DOMAIN hunks /\ k + 1 - 1 = k
            BY <1>2, <1>3, <1>5, <2>7
        <3>2. GapKept(k + 1)
            BY <1>2, <2>1, <3>1 DEF MatchInv
        <3>3. \A d \in 1 .. hunks[k + 1].old - oldEnd :
                oldEnd + d <= Len(lines) =>
                    newEnd + d <= Len(applier.out) /\ applier.out[newEnd + d] = lines[oldEnd + d]
            BY <1>3, <1>4, <3>1, <3>2 DEF GapKept, oldEnd, newEnd
        <3>4. hunks[k + 1].old \in Nat
            BY <1>5, <3>1, HunkType
        <3>5. i \in 1 .. hunks[k + 1].old - oldEnd
            BY <2>2, <2>4, <2>5, <2>7, <3>4
        <3> HIDE DEF i
        <3>6. newEnd + i <= Len(applier.out) /\ applier.out[newEnd + i] = lines[n]
            BY <2>5, <2>6, <3>3, <3>5
        <3>7. newEnd + i \in 1 .. Len(applier.out)
            BY <1>5, <2>2, <2>6, <3>6
        <3>8. result[newEnd + i] = applier.out[newEnd + i]
            BY <1>8, <2>1, <3>7
        <3>9. QED BY <2>3, <2>6, <3>6, <3>8
    <2>8. CASE k = Len(hunks)
        <3>1. applier.cursor = oldEnd /\ NewPlace = newEnd
            BY <1>2, <1>3, <2>8 DEF oldEnd, newEnd
        <3>2. applier.cursor <= Len(lines)
            BY <1>5, <2>4, <2>5, <3>1
        <3>3. Len(applier.out) = newEnd
            BY <1>2, <1>4, <2>1, <3>1, <3>2 DEF PlaceInv
        <3>4. SpanOf(applier.cursor, Len(lines)) = Len(lines) - oldEnd
            BY <1>5, <2>4, <2>5, <3>1 DEF SpanOf
        <3>5. i \in 1 .. Len(lines) - oldEnd
            BY <1>5, <2>2, <2>5, <2>6
        <3> HIDE DEF i
        <3>6. /\ Len(Whole) = newEnd + (Len(lines) - oldEnd)
              /\ Whole[newEnd + i] = lines[oldEnd + i]
            BY <1>6, <2>1, <3>1, <3>3, <3>4, <3>5 DEF CopiesLines
        <3>7. newEnd + i \in 1 .. Len(Whole)
            BY <1>5, <2>2, <2>6, <3>5, <3>6
        <3>8. result[newEnd + i] = Whole[newEnd + i]
            BY <1>6, <2>1, <3>7
        <3>9. QED BY <2>3, <2>6, <3>6, <3>8
    <2>9. k < Len(hunks) \/ k = Len(hunks)
        <3>1. Len(hunks) \in Nat
            BY <1>5
        <3>2. k \in 0 .. Len(hunks)
            BY <1>11
        <3>3. k \in Int /\ k <= Len(hunks)
            BY <3>1, <3>2
        <3>4. QED BY <3>1, <3>3
    <2>10. QED BY <2>7, <2>8, <2>9
<1>12. QED BY <1>9, <1>10, <1>11 DEF lines, hunks

\* "Context must match exactly or the apply fails" (diffs.py:3): whatever content a whole
\* diff is applied to, the lines its hunks show are there, the added ones come to their
\* places and every other line is kept.  Lines that a hunk without old lines adds beyond
\* the end of the content are not said to come to their places: they come to its end.
THEOREM Strict == Spec => []StrictApply
<1>1. Inv => StrictApply
    BY StrictWhileInv
<1>2. QED BY <1>1, InvHolds, PTL

\* On the content the diff is made from, what comes out is what the writer had, and the
\* rest of the old lines.
LEMMA OwnWhole ==
    ASSUME Inv, Applied, current = old, ~deletes, Settles
    PROVE  Whole = writer.new \o SubSeq(OldLines, writer.seen + 1, Len(OldLines))
<1>1. /\ TypeOK /\ PlaceInv /\ OwnInv
      /\ applier.cursor = OldEndOf(parser.hunks, Len(parser.hunks))
      /\ NewPlace = NewEndOf(parser.hunks, Len(parser.hunks))
      /\ writer.done /\ Parses(parser)
    BY AppliedAtEnd DEF PlaceInv
<1>2. applier.cursor = writer.seen /\ NewPlace = Len(writer.new)
    BY <1>1, SettledEnds
<1>3. applier.source = OldLines
    BY <1>1 DEF PlaceInv, OldLines
<1>4. /\ applier.cursor <= Len(applier.source)
      /\ \A i \in DOMAIN applier.out : i <= Len(writer.new) => applier.out[i] = writer.new[i]
    BY <1>1 DEF OwnInv
<1>5. Len(applier.out) = Len(writer.new)
    BY <1>1, <1>2, <1>4 DEF PlaceInv
<1>6. applier.out \in Seq(Texts) /\ DOMAIN applier.out = 1 .. Len(applier.out)
      /\ writer.new \in Seq(Texts) /\ Len(writer.new) \in Nat
    BY <1>1, ApplierFields, StateFields
<1>7. applier.out = writer.new
    <2>1. \A i \in 1 .. Len(writer.new) : applier.out[i] = writer.new[i]
        BY <1>4, <1>5, <1>6
    <2>2. QED BY <1>5, <1>6, <2>1
<1>8. QED BY <1>2, <1>3, <1>7 DEF Whole, CopyOf

\* A content has its lines and an empty one behind them, or not, as what is joined has.
LEMMA ContentAlike ==
    ASSUME NEW lines \in Seq(Texts), NEW x \in BOOLEAN, NEW y \in BOOLEAN
    PROVE  /\ Alike(Joined(lines, x), Content(lines, y))
           /\ lines = <<>> => Content(lines, y) = <<Blank>>
           /\ lines # <<>> /\ x = y => Joined(lines, x) = Content(lines, y)
           /\ lines # <<>> /\ y => Content(lines, y) = Append(lines, Blank)
<1>1. Blank \in Texts /\ Absent \notin Seq(Texts)
    BY DiffsAssumption
<1>2. <<Blank>> \in Seq(Texts) /\ Append(<<Blank>>, Blank) \in Seq(Texts)
      /\ Append(lines, Blank) \in Seq(Texts)
    BY <1>1
<1>3. CASE lines = <<>>
    <2>1. Joined(lines, x) = IF x THEN Append(<<Blank>>, Blank) ELSE <<Blank>>
        BY <1>3 DEF Joined
    <2>2. Content(lines, y) = <<Blank>>
        BY <1>3 DEF Content
    <2>3. CASE x = TRUE
        BY <1>1, <1>2, <1>3, <2>1, <2>2, <2>3 DEF Alike
    <2>4. CASE x = FALSE
        BY <1>3, <2>1, <2>2, <2>4 DEF Alike
    <2>5. QED BY <2>3, <2>4
<1>4. CASE lines # <<>>
    <2>1. Joined(lines, x) = IF x THEN Append(lines, Blank) ELSE lines
        BY <1>4 DEF Joined
    <2>2. Content(lines, y) = IF y THEN Append(lines, Blank) ELSE lines
        BY <1>4 DEF Content
    <2>3. Joined(lines, x) \in {lines, Append(lines, Blank)}
          /\ Content(lines, y) \in {lines, Append(lines, Blank)}
        BY <2>1, <2>2
    <2>4. Alike(Joined(lines, x), Content(lines, y))
        BY <1>1, <1>2, <2>3 DEF Alike
    <2>5. QED BY <1>4, <2>1, <2>2, <2>4
<1>5. QED BY <1>3, <1>4

\* Whether the new content ends with a newline.
NewEnded == ~writer.closed /\ (Ended(old) \/ writer.seen = Len(OldLines))

LEMMA OwnAlike ==
    ASSUME Inv, Applied, current = old, Settles
    PROVE  /\ Alike(result, New)
           /\ deletes => result = New
           /\ ~deletes =>
                /\ Whole \in Seq(Texts) /\ applier.ended \in BOOLEAN /\ NewEnded \in BOOLEAN
                /\ result = Joined(Whole, applier.ended)
                /\ New = Content(Whole, NewEnded)
<1>1. CASE deletes
    <2>1. result = Absent
        BY <1>1, AppliedAtEnd DEF ResultInv
    <2>2. New = Absent
        BY <1>1 DEF New, NewFrom
    <2>3. QED BY <1>1, <2>1, <2>2 DEF Alike
<1>2. CASE ~deletes
    <2>1. Whole \in Seq(Texts) /\ result = Joined(Whole, applier.ended)
        BY <1>2, AppliedWhole
    <2>2. New = Content(Whole, NewEnded)
        BY <1>2, OwnWhole DEF New, NewFrom, NewEnded
    <2>3. applier.ended \in BOOLEAN
        BY ApplierFields DEF Inv
    <2>4. NewEnded \in BOOLEAN
        BY DEF NewEnded
    <2>5. Alike(result, New)
        BY <2>1, <2>2, <2>3, <2>4, ContentAlike
    <2>6. QED BY <1>2, <2>1, <2>2, <2>3, <2>4, <2>5
<1>3. QED BY <1>1, <1>2

\* The line that completes the last hunk was found or put in its place, and is its last.
LEMMA CompletedLine ==
    ASSUME Inv, Applied, NEW tag \in OldSide \cup NewSide, NEW text \in Texts,
           CompletedBy(tag, text)
    PROVE  /\ tag \in OldSide => applier.source[writer.seen + 1] = text
           /\ ~deletes /\ tag \in NewSide /\ writer.seen <= Len(applier.source) =>
                applier.out[Len(writer.new) + 1] = text
           /\ OldEndOf(parser.hunks, Len(parser.hunks)) = writer.seen + writer.owed.old
           /\ NewEndOf(parser.hunks, Len(parser.hunks)) = Len(writer.new) + writer.owed.new
<1> DEFINE line == Here(tag, text)
           n == Len(writer.hunks)
           m == Len(writer.hunks[n].lines)
<1>1. /\ TypeOK /\ Reads /\ PlaceInv /\ MatchInv
      /\ \A k \in DOMAIN parser.hunks : \A j \in DOMAIN parser.hunks[k].lines : Passed(k, j)
    BY AppliedAtEnd
<1>2. ~Settles
    <2>1. Owing(tag).old = 1 \/ Owing(tag).new = 1
        BY DEF Owing
    <2>2. QED BY <2>1 DEF CompletedBy, Settles
<1>3. n > 0 /\ n \in Nat /\ writer.hunks \in Seq(DiffHunk)
      /\ writer \in WriterState /\ writer.seen \in Nat /\ Len(writer.new) \in Nat
    <2>1. n > 0
        BY <1>2, OwedHunk DEF Inv
    <2>2. writer.hunks \in Seq(DiffHunk) /\ writer.seen \in Nat /\ Len(writer.new) \in Nat
        BY <1>1, StateFields
    <2>3. n \in Nat
        BY <2>2, HunksType
    <2>4. writer \in WriterState
        BY <1>1 DEF TypeOK
    <2>5. QED BY <2>1, <2>2, <2>3, <2>4
<1>4. /\ line \in DiffLine /\ line.tag = tag /\ line.text = text
      /\ line.old = writer.seen /\ line.new = Len(writer.new)
    BY <1>3 DEF Here, DiffLine, Tags, OldSide, NewSide
<1> HIDE DEF line
<1>5. parser.hunks = AddTo(writer.hunks, line)
    <2>1. Shown(writer, line) = [writer EXCEPT !.hunks = AddTo(writer.hunks, line)]
        BY <1>3, ShownHunks
    <2>2. Shown(writer, line).hunks = AddTo(writer.hunks, line)
        BY <1>3, <2>1 DEF WriterState
    <2>3. QED BY <2>2 DEF CompletedBy, line
<1>6. /\ Len(parser.hunks) = n
      /\ Len(parser.hunks[n].lines) = m + 1
      /\ parser.hunks[n].lines[m + 1] = line
      /\ OldEndOf(parser.hunks, n) = OldEndOf(writer.hunks, n)
      /\ NewEndOf(parser.hunks, n) = NewEndOf(writer.hunks, n)
    <2> DEFINE H == AddTo(writer.hunks, line)
    <2>1. Len(H) = n /\ n \in DOMAIN writer.hunks
        BY <1>3, <1>4, AddToType
    <2>2. /\ Len(H[n].lines) = m + 1 /\ H[n].lines[m + 1] = line
          /\ OldEndOf(H, n) = OldEndOf(writer.hunks, n)
          /\ NewEndOf(H, n) = NewEndOf(writer.hunks, n)
        BY <1>3, <1>4, <2>1, AddToPlaces
    <2> HIDE DEF H
    <2>3. parser.hunks = H
        BY <1>5 DEF H
    <2>4. QED BY <2>1, <2>2, <2>3
<1>7. OldEndOf(writer.hunks, n) = writer.seen + writer.owed.old
      /\ NewEndOf(writer.hunks, n) = Len(writer.new) + writer.owed.new
    <2>1. OpenHunk(writer) /\ n # 0
        BY <1>3 DEF Inv, WriterInv
    <2>2. QED BY <2>1 DEF OpenHunk, OldEndOf, NewEndOf
<1> HIDE DEF m, n
<1>8. n \in DOMAIN parser.hunks /\ parser.hunks[n] \in DiffHunk
    <2>1. n \in 1 .. n
        BY <1>3
    <2>2. QED BY <1>1, <1>6, <2>1, ApplierFields
<1>9. m + 1 \in DOMAIN parser.hunks[n].lines
    <2>1. m \in Nat
        <3>1. n \in DOMAIN writer.hunks
            BY <1>3, HunksType DEF n
        <3>2. writer.hunks[n] \in DiffHunk
            BY <1>3, <3>1, HunksType
        <3>3. QED BY <3>2, HunkType DEF m
    <2>2. m + 1 \in 1 .. m + 1
        BY <2>1
    <2>3. QED BY <1>6, <1>8, <2>2, HunkType
<1>10. LineMatched(n, m + 1)
    BY <1>1, <1>8, <1>9 DEF MatchInv
<1>11. QED BY <1>4, <1>6, <1>7, <1>10 DEF LineMatched

\* A cut line that only adds comes behind the new lines.
LEMMA CutAdds ==
    ASSUME Inv, Applied, current = old, NEW tag \in OldSide \cup NewSide, NEW text \in Texts,
           CompletedBy(tag, text), tag \notin OldSide
    PROVE  /\ writer.owed = [old |-> 0, new |-> 1]
           /\ Alike(result, NewFrom(Append(writer.new, text)))
<1>1. /\ TypeOK /\ PlaceInv /\ OwnInv
      /\ applier.cursor = OldEndOf(parser.hunks, Len(parser.hunks))
      /\ NewPlace = NewEndOf(parser.hunks, Len(parser.hunks))
    BY AppliedAtEnd
<1>2. tag \in NewSide /\ writer.owed = [old |-> 0, new |-> 1]
    BY DEF CompletedBy, Owing
<1>3. ~deletes
    BY <1>2 DEF Inv, WriterInv
<1>4. /\ applier.out \in Seq(Texts) /\ applier.ended \in BOOLEAN
      /\ writer.new \in Seq(Texts) /\ Len(writer.new) \in Nat /\ writer.seen \in Nat
    BY <1>1, ApplierFields, StateFields
<1>5. applier.source = OldLines
    BY <1>1 DEF PlaceInv, OldLines
<1>6. /\ applier.cursor <= Len(applier.source)
      /\ \A i \in DOMAIN applier.out : i <= Len(writer.new) => applier.out[i] = writer.new[i]
    BY <1>1, <1>3 DEF OwnInv
<1>7. applier.cursor = writer.seen /\ NewPlace = Len(writer.new) + 1
    <2>1. /\ applier.cursor = writer.seen + writer.owed.old
          /\ NewPlace = Len(writer.new) + writer.owed.new
        BY <1>1, CompletedLine
    <2>2. writer.owed.old = 0 /\ writer.owed.new = 1
        BY <1>2
    <2>3. QED BY <1>4, <2>1, <2>2
<1>8. Len(applier.out) = Len(writer.new) + 1
    BY <1>1, <1>3, <1>6, <1>7 DEF PlaceInv
<1>9. applier.out[Len(writer.new) + 1] = text
    BY <1>2, <1>3, <1>6, <1>7, CompletedLine
<1>10. applier.out = Append(writer.new, text)
    <2> DEFINE out == applier.out
               new == writer.new
    <2>1. \A i \in 1 .. Len(new) : out[i] = new[i]
        BY <1>4, <1>6, <1>8
    <2>2. out \in Seq(Texts) /\ new \in Seq(Texts) /\ Len(out) = Len(new) + 1
          /\ out[Len(new) + 1] = text
        BY <1>4, <1>8, <1>9
    <2> HIDE DEF out, new
    <2>3. out = Append(new, text)
        BY <2>1, <2>2
    <2>4. QED BY <2>3 DEF out, new
<1>11. Whole = Append(writer.new, text) \o SubSeq(OldLines, writer.seen + 1, Len(OldLines))
    BY <1>5, <1>7, <1>10 DEF Whole, CopyOf
<1>12. NewFrom(Append(writer.new, text)) = Content(Whole, NewEnded)
    BY <1>3, <1>11 DEF NewFrom, NewEnded
<1>13. Whole \in Seq(Texts) /\ result = Joined(Whole, applier.ended)
    BY <1>3, AppliedWhole
<1>14. NewEnded \in BOOLEAN
    BY DEF NewEnded
<1>15. QED BY <1>2, <1>4, <1>12, <1>13, <1>14, ContentAlike

LEMMA WholeWhileInv == Inv => CutIsWhole
<1>1. SUFFICES ASSUME Inv, Applied, current = old
               PROVE  \/ Settles /\ Alike(result, New)
                      \/ /\ writer.owed = [old |-> 0, new |-> 1]
                         /\ \E whole \in Texts : \E text \in Cuts[whole] :
                                Alike(result, NewFrom(Append(writer.new, text)))
                      \/ writer.owed.old > 0 /\ OldLines[writer.seen + 1] = Blank
    BY DEF CutIsWhole
<1>2. TypeOK /\ PlaceInv
    BY <1>1, AppliedAtEnd
<1>3. writer.done /\ Parses(parser)
    BY <1>2 DEF PlaceInv
<1>4. CASE Settles
    BY <1>1, <1>4, OwnAlike
\* The last hunk was completed by the line that ends the text.
<1>5. CASE Completed
    <2>1. PICK tag \in OldSide \cup NewSide, text \in Texts : CompletedBy(tag, text)
        BY <1>5 DEF Completed
    \* One of the old side was found in the old content, which a cut line is not.
    <2>2. CASE tag \in OldSide
        <3>1. OldLines[writer.seen + 1] = text
            <4>1. applier.source = OldLines
                BY <1>1, <1>2 DEF PlaceInv, OldLines
            <4>2. QED BY <1>1, <2>1, <2>2, <4>1, CompletedLine
        <3>2. ~CutLine(tag, text)
            BY <2>1, <2>2, <3>1, DiffsAssumption DEF CutLine
        <3>3. text = Blank
            BY <2>1, <3>2 DEF CompletedBy, LastRead
        <3>4. writer.owed.old = 1
            BY <2>1, <2>2 DEF CompletedBy, Owing
        <3>5. QED BY <3>1, <3>3, <3>4
    <2>3. CASE tag \notin OldSide
        <3>1. CutLine(tag, text) /\ tag \in NewSide
            BY <2>1, <2>3 DEF CompletedBy, LastRead, OldSide, NewSide
        <3>2. \E whole \in Texts : text \in Cuts[whole]
            BY <3>1 DEF CutLine
        <3>3. QED BY <1>1, <2>1, <2>3, <3>2, CutAdds
    <2>4. QED BY <2>2, <2>3
<1>6. Settles \/ Completed
    <2>1. ReadInv
        BY <1>1 DEF Inv
    <2>2. QED BY <1>3, <2>1 DEF ReadInv
<1>7. QED BY <1>4, <1>5, <1>6

\* A text that ends early, behind a line or inside one: what is applied is the whole of the
\* hunks that were written, but for a lost marker, unless the line that is missing is an
\* empty one or is an added one, which comes shortened; the counts that parse_unified_diff
\* compares see to it.
THEOREM Uncut == Spec => []CutIsWhole
<1>1. Inv => CutIsWhole
    BY WholeWhileInv
<1>2. QED BY <1>1, InvHolds, PTL

\* A line of the old side is found on the content the diff was made from.
LEMMA OwnLineFound ==
    ASSUME Inv, Settles, current = old, current # Pending, ~HunkIsDone,
           LinesOfHunk[applier.line + 1].tag \in OldSide
    PROVE  Finds(applier, LinesOfHunk[applier.line + 1])
<1> DEFINE line == LinesOfHunk[applier.line + 1]
<1>1. TypeOK /\ Reads /\ PlaceInv
    BY ApplierReads DEF Inv
<1>2. parser.hunks = writer.hunks
    BY <1>1, SettledEnds DEF PlaceInv
<1>3. /\ applier.hunk \in DOMAIN writer.hunks
      /\ line = writer.hunks[applier.hunk].lines[applier.line + 1]
      /\ applier.line + 1 \in DOMAIN writer.hunks[applier.hunk].lines
      /\ line.old = applier.cursor
    <2>1. /\ applier.hunk \in DOMAIN parser.hunks
          /\ LinesOfHunk = parser.hunks[applier.hunk].lines
          /\ applier.line + 1 \in DOMAIN parser.hunks[applier.hunk].lines
          /\ line.old = applier.cursor
        BY <1>1, NextLine
    <2>2. QED BY <1>2, <2>1
<1>4. TruthfulLine(line, writer, OldLines)
    <2>1. TruthfulLines(writer.hunks, writer, OldLines)
        BY DEF Inv, WriterInv
    <2>2. QED BY <1>3, <2>1 DEF TruthfulLines
<1>5. line.old < writer.seen /\ line.text = OldLines[line.old + 1]
    BY <1>4 DEF TruthfulLine
<1>6. applier.source = OldLines
    BY <1>1 DEF PlaceInv, OldLines
<1>7. writer.seen <= Len(OldLines)
    <2>1. writer.seen + writer.owed.old <= Len(OldLines)
        BY DEF Inv, WriterInv
    <2>2. QED BY <1>1, <2>1, StateFields
<1>8. /\ applier.cursor \in Nat /\ writer.seen \in Nat /\ Len(OldLines) \in Nat
    BY <1>1, ApplierFields, StateFields
<1> HIDE DEF line
<1>9. applier.cursor < Len(applier.source) /\ applier.source[applier.cursor + 1] = line.text
    BY <1>3, <1>5, <1>6, <1>7, <1>8
<1>10. QED BY <1>9 DEF Finds, line

\* Neither the counts, nor the places, nor the old lines of a complete diff are refused.
LEMMA OwnApplied == Inv /\ OwnApplies /\ [Next]_vars => OwnApplies'
<1> SUFFICES ASSUME Inv, OwnApplies, [Next]_vars, Complete', (current = old)'
             PROVE  result' # Refused
    BY DEF OwnApplies
<1>1. old # Pending /\ Refused # Pending /\ Refused # Absent /\ Refused \notin Seq(Texts)
    BY DiffsAssumption DEF Inv, TypeOK
<1>2. ASSUME NEW line, Writes(line)
      PROVE  FALSE
    <2>1. ~writer.done /\ current' = current /\ old' = old
        BY <1>2 DEF Writes
    <2>2. current = Pending
        BY <2>1 DEF Inv, ApplierInv, PlaceInv
    <2>3. QED BY <1>1, <2>1, <2>2
<1>3. ASSUME UNCHANGED <<old, deletes, writer>>
      PROVE  Complete /\ Settles
    <2>1. Complete
        BY <1>3 DEF Complete, Settles, OldLines
    <2>2. QED BY <2>1 DEF Complete
<1>4. ASSUME UNCHANGED <<old, deletes, writer, current>>
      PROVE  result # Refused /\ current = old
    BY <1>3, <1>4 DEF OwnApplies
<1>5. CASE UNCHANGED vars
    BY <1>4, <1>5 DEF vars
<1>6. CASE WriterNext
    <2>1. ASSUME NEW gap, NEW oldCount, NEW newCount, WriteHunk(gap, oldCount, newCount)
          PROVE  FALSE
        BY <1>2, <2>1 DEF WriteHunk
    <2>2. ASSUME NEW tag, NEW text, NEW unended, WriteLine(tag, text, unended)
          PROVE  FALSE
        BY <1>2, <2>2 DEF WriteLine
    <2>3. CASE WriteOldName
        BY <1>2, <2>3 DEF WriteOldName
    <2>4. CASE WriteNewName
        BY <1>2, <2>4 DEF WriteNewName
    <2>5. CASE WriteMarker
        BY <1>2, <2>5 DEF WriteMarker
    <2>6. CASE EndText
        <3>1. PICK line : Writes(line)
            BY <2>6 DEF EndText
        <3>2. QED BY <1>2, <3>1
    <2>7. QED BY <1>6, <2>1, <2>2, <2>3, <2>4, <2>5, <2>6 DEF WriterNext
<1>7. CASE RefuseDiff
    <2>1. ~Parses(parser) /\ UNCHANGED <<old, current>>
        BY <1>7 DEF RefuseDiff, Answers, Applies
    <2>2. current = Pending
        BY <2>1 DEF Inv, ApplierInv, PlaceInv
    <2>3. QED BY <1>1, <2>1, <2>2
<1>8. ASSUME NEW content \in Contents \cup {Absent}, StartApply(content)
      PROVE  result' # Refused
    <2>1. /\ writer.done /\ Parses(parser) /\ current' = content /\ old' = old
          /\ result' = IF parser.create # (content = Absent) THEN Refused ELSE Pending
        BY <1>8 DEF StartApply
    <2>2. parser.create = (old = Absent)
        BY <2>1, ParsedReads DEF Inv, WriteInv, Reads
    <2>3. QED BY <1>1, <2>1, <2>2
\* A hunk of a whole diff starts behind the one before.
<1>9. CASE StartHunk
    <2>1. /\ UNCHANGED <<old, deletes, writer, current>>
          /\ Applying /\ HunkIsDone /\ applier.hunk < Len(parser.hunks)
        BY <1>9 DEF StartHunk, Proceeds, Answers, Applies
    <2>2. TypeOK /\ Reads /\ PlaceInv
        BY <2>1, ApplierReads DEF Inv, Applying
    <2>3. /\ StartOf(parser.hunks[applier.hunk + 1]) = parser.hunks[applier.hunk + 1].old
          /\ parser.hunks[applier.hunk + 1].old >= applier.cursor
          /\ parser.hunks[applier.hunk + 1].old \in Nat
        BY <2>1, <2>2, NextHunk
    <2>4. applier.cursor \in Nat
        BY <2>2, ApplierFields
    <2>5. ~(StartOf(parser.hunks[applier.hunk + 1]) < applier.cursor)
        BY <2>3, <2>4
    <2>6. UNCHANGED result
        BY <1>9, <2>5 DEF StartHunk, Proceeds
    <2>7. QED BY <1>4, <2>1, <2>6
<1>10. CASE ApplyLine
    <2>1. /\ UNCHANGED <<old, deletes, writer, current>>
          /\ Applying /\ ~HunkIsDone
        BY <1>10 DEF ApplyLine, Proceeds, Answers, Applies
    <2>2. current = old /\ result # Refused /\ Settles
        BY <1>3, <1>4, <2>1
    <2>3. ~(LinesOfHunk[applier.line + 1].tag \in OldSide
            /\ ~Finds(applier, LinesOfHunk[applier.line + 1]))
        BY <2>1, <2>2, OwnLineFound DEF Applying
    <2>4. UNCHANGED result
        BY <1>10, <2>3 DEF ApplyLine, Proceeds
    <2>5. QED BY <2>2, <2>4
\* A deletion has removed every line.
<1>11. CASE Finish
    <2>1. /\ UNCHANGED <<old, deletes, writer, current>>
          /\ Applying /\ HunkIsDone /\ applier.hunk = Len(parser.hunks)
        BY <1>11 DEF Finish, Answers, Applies
    <2>2. TypeOK /\ Reads /\ PlaceInv
        BY <2>1, ApplierReads DEF Inv, Applying
    <2>3. current = old /\ Complete /\ Settles
        BY <1>3, <1>4, <2>1
    <2> DEFINE joined == Joined(applier.out \o SubSeq(applier.source, applier.cursor + 1,
                                                      Len(applier.source)), applier.ended)
    <2>4. result' = IF ~parser.delete THEN joined
                    ELSE IF applier.cursor = Len(applier.source) THEN Absent ELSE Refused
        BY <1>11 DEF Finish, Answers
    <2>5. joined \in Seq(Texts)
        <3>1. applier.out \in Seq(Texts) /\ applier.source \in Seq(Texts)
              /\ applier.cursor \in Nat /\ applier.ended \in BOOLEAN
            BY <2>2, ApplierFields
        <3>2. SubSeq(applier.source, applier.cursor + 1, Len(applier.source)) \in Seq(Texts)
            <4> DEFINE source == applier.source
                       first == applier.cursor + 1
            <4>1. source \in Seq(Texts) /\ first \in 1 .. first
                BY <3>1
            <4> HIDE DEF source, first
            <4>2. SubSeq(source, first, Len(source)) \in Seq(Texts)
                BY <4>1
            <4>3. QED BY <4>2 DEF source, first
        <3> DEFINE lines == applier.out \o SubSeq(applier.source, applier.cursor + 1,
                                                 Len(applier.source))
        <3>3. lines \in Seq(Texts)
            BY <3>1, <3>2
        <3> HIDE DEF lines
        <3>4. Joined(lines, applier.ended) \in Seq(Texts)
            BY <3>1, <3>3, JoinedType
        <3>5. QED BY <3>4 DEF lines
    <2> HIDE DEF joined
    <2>6. deletes => applier.cursor = Len(applier.source)
        <3>1. applier.cursor = OldEndOf(parser.hunks, Len(parser.hunks))
            BY <2>1, <2>2, DonePlaces DEF PlaceInv
        <3>2. OldEndOf(parser.hunks, Len(parser.hunks)) = writer.seen
            BY <2>2, <2>3, SettledEnds DEF PlaceInv
        <3>3. applier.source = OldLines
            BY <2>2, <2>3 DEF PlaceInv, OldLines
        <3>4. deletes => writer.seen = Len(OldLines)
            BY <2>3 DEF Complete
        <3>5. QED BY <3>1, <3>2, <3>3, <3>4
    <2>7. QED BY <1>1, <2>2, <2>4, <2>5, <2>6 DEF Reads
<1>12. QED BY <1>5, <1>6, <1>7, <1>8, <1>9, <1>10, <1>11 DEF Next

\* A complete diff applies to the content it was made from: _apply_hunks raises nothing on it.
THEOREM NotRefused == Spec => []OwnApplies
<1>1. Init => OwnApplies
    BY DiffsAssumption DEF Init, OwnApplies
<1>2. Inv /\ OwnApplies /\ [Next]_vars => OwnApplies'
    BY OwnApplied
<1>3. QED BY <1>1, <1>2, InvHolds, PTL DEF Spec

LEMMA NewGiven == Inv /\ OwnApplies => GivesNew
<1> SUFFICES ASSUME Inv, OwnApplies, Complete, current = old, result # Pending,
                    New # <<Blank>>, ~NewlineAdded
             PROVE  result = New
    BY DEF GivesNew
<1>1. Applied /\ Settles /\ ~writer.due
    BY DEF OwnApplies, Applied, Complete
<1>2. CASE deletes
    BY <1>1, <1>2, OwnAlike
<1>3. CASE ~deletes
    <2>1. /\ Whole \in Seq(Texts) /\ applier.ended \in BOOLEAN /\ NewEnded \in BOOLEAN
          /\ result = Joined(Whole, applier.ended)
          /\ New = Content(Whole, NewEnded)
        BY <1>1, <1>3, OwnAlike
    <2>2. Whole # <<>>
        BY <2>1, ContentAlike
    <2>3. applier.ended <=> Ended(old) /\ ~SomeMark(writer.hunks)
        <3>1. /\ EndedInv /\ PlaceInv
              /\ \A k \in DOMAIN parser.hunks : \A j \in DOMAIN parser.hunks[k].lines :
                    Passed(k, j)
            BY <1>1, AppliedAtEnd
        <3>2. parser.hunks = writer.hunks
            BY <1>1, <3>1, SettledEnds DEF PlaceInv
        <3>3. applier.ended <=>
                /\ Ended(old)
                /\ \A k \in DOMAIN parser.hunks : \A j \in DOMAIN parser.hunks[k].lines :
                        ~MarksNew(parser.hunks, k, j)
            BY <1>3, <3>1 DEF EndedInv
        <3>4. QED BY <3>2, <3>3 DEF SomeMark
    \* A marker that is written closes the new side, and nothing else does.
    <2>4. writer.closed <=> SomeMark(writer.hunks)
        BY <1>1 DEF Inv, WriterInv, ClosedSide
    <2>5. applier.ended => NewEnded
        BY <2>3, <2>4 DEF NewEnded
    <2>6. NewEnded => applier.ended
        <3>1. SUFFICES ASSUME NewEnded, ~applier.ended
                       PROVE  FALSE
            OBVIOUS
        <3>2. ~Ended(old)
            BY <2>3, <2>4, <3>1 DEF NewEnded
        <3>3. New = Append(Whole, Blank)
            BY <2>1, <2>2, <3>1, ContentAlike
        <3>4. LastOf(New) = Blank
            <4>1. New \in Seq(Texts) /\ Len(New) = Len(Whole) + 1 /\ New[Len(Whole) + 1] = Blank
                BY <2>1, <3>3, DiffsAssumption
            <4>2. QED BY <4>1 DEF LastOf
        <3>5. QED BY <3>2, <3>4 DEF NewlineAdded, Ended
    <2>7. applier.ended = NewEnded
        BY <2>1, <2>5, <2>6
    <2>8. Joined(Whole, applier.ended) = Content(Whole, NewEnded)
        BY <2>1, <2>2, <2>7, ContentAlike
    <2>9. QED BY <2>1, <2>8
<1>4. QED BY <1>2, <1>3

\* The diff of a change, applied to the content it was made from, gives what it was meant to
\* give, wherever its hunks lie and whichever side lacks a last newline; but for a newline
\* that is only added and for a file that becomes empty, which _apply_hunks does not give.
THEOREM Gives == Spec => []GivesNew
<1>1. Inv /\ OwnApplies => GivesNew
    BY NewGiven
<1>2. QED BY <1>1, InvHolds, NotRefused, PTL
=============================================================================
