------------------------------- MODULE Diffs --------------------------------
(***************************************************************************)
(* The unified-diff parser and applier of src/monumentum/diffs.py, on the  *)
(* diffs of one file, against what a unified diff means.                   *)
(*                                                                         *)
(* A diff program writes a diff of an old content, a line at a time, and   *)
(* by doing so decides what the new content is; its text can end anywhere, *)
(* also inside a line.  (A name or a hunk header that is cut is as none,   *)
(* or as a name that is no target.)  The parser reads each line as it      *)
(* comes, and the applier goes through the hunks the parser made, on the   *)
(* old content or on another one.                                          *)
(*                                                                         *)
(* A content is what split("\n") makes of it: <<"a", Blank>> is "a\n" and  *)
(* <<Blank>> is the empty file.  The fields old and new of hunks and lines *)
(* say how many lines of either version come before; the code has no such  *)
(* fields, and only properties read them.                                  *)
(***************************************************************************)
EXTENDS Integers, Sequences

CONSTANTS
    Texts,      \* what a line can say
    Blank,      \* the empty line, one of Texts
    Contents,   \* the files that diffs are made from and applied to
    Cuts,       \* Cuts[text]: what can be left of a line that is cut inside text
    MaxNew,     \* bound on the lines of the new content that a diff reaches
    Absent, Refused, Pending

ASSUME DiffsAssumption ==
    /\ Blank \in Texts
    /\ \A content \in Contents : content \in Seq(Texts) /\ content # <<>>
    /\ Cuts \in [Texts -> SUBSET Texts] /\ \A text \in Texts : text \notin Cuts[text]
    /\ MaxNew \in Nat
    /\ \A other \in {Absent, Refused, Pending} : other \notin Seq(Texts)
    /\ Absent # Refused /\ Absent # Pending /\ Refused # Pending

VARIABLES
    old,        \* the content the diff is made from
    deletes,    \* whether it deletes the file
    writer,     \* what the diff program has written
    parser,     \* what parse_unified_diff has made of it
    current,    \* the content it is applied to
    applier,    \* how far _apply_hunks has got
    result

vars == <<old, deletes, writer, parser, current, applier, result>>
-----------------------------------------------------------------------------
\* Contents and lines.

LastOf(content) == content[Len(content)]

Ended(content) == content = Absent \/ LastOf(content) = Blank

LinesOf(content) ==
    IF content = Absent THEN <<>>
    ELSE IF Ended(content) THEN SubSeq(content, 1, Len(content) - 1) ELSE content

Content(lines, ended) ==
    IF lines = <<>> THEN <<Blank>> ELSE IF ended THEN Append(lines, Blank) ELSE lines

OldSide == {" ", "-"}
NewSide == {" ", "+"}
-----------------------------------------------------------------------------
\* parse_unified_diff, a line at a time.

NothingRead ==
    [mode |-> "scan", create |-> FALSE, delete |-> FALSE, found |-> FALSE, hunks |-> <<>>,
     left |-> [old |-> 0, new |-> 0]]

Fails(s) == [s EXCEPT !.mode = "failed"]

\* Both counts are reached, or one is passed.
Settled(s) ==
    IF s.left.old > 0 \/ s.left.new > 0 THEN [s EXCEPT !.mode = "body"]
    ELSE IF s.left.old < 0 \/ s.left.new < 0 THEN Fails(s)
    ELSE [s EXCEPT !.mode = "after"]

Added(s, line) == [s EXCEPT !.hunks[Len(s.hunks)].lines = Append(@, line)]

\* The counts of a hunk after a line of it.
Less(left, tag) ==
    [old |-> IF tag \in OldSide THEN left.old - 1 ELSE left.old,
     new |-> IF tag \in NewSide THEN left.new - 1 ELSE left.new]

\* An empty line inside a hunk is an empty context line.
ParseBody(s, line) ==
    LET read == [line EXCEPT !.tag = IF @ = "" THEN " " ELSE @]
    IN IF read.tag = "\\" THEN Added(s, read)
       ELSE IF read.tag \notin OldSide \cup NewSide THEN Fails(s)
       ELSE Settled([Added(s, read) EXCEPT !.left = Less(@, read.tag)])

\* Lines between hunks that are no header are passed over.
ParseScan(s, line) ==
    CASE line.tag = "---" -> [s EXCEPT !.mode = "header", !.create = line.null]
      [] line.tag = "@" /\ ~s.found -> Fails(s)
      [] line.tag = "@" /\ s.found ->
            Settled([s EXCEPT
                !.hunks = Append(@, line.hunk),
                !.left = [old |-> line.hunk.oldCount, new |-> line.hunk.newCount]])
      [] OTHER -> [s EXCEPT !.mode = "scan"]

ParseLine(s, line) ==
    CASE s.mode = "failed" -> s
      [] s.mode = "header" ->
            IF line.tag # "+++" THEN Fails(s)
            ELSE [s EXCEPT !.mode = "scan", !.found = TRUE, !.delete = line.null]
      [] s.mode = "body" -> ParseBody(s, line)
      [] s.mode = "after" /\ line.tag = "\\" -> [Added(s, line) EXCEPT !.mode = "scan"]
      [] OTHER -> ParseScan(s, line)

\* A plausible parser that does not compare the counts at the end of the diff.
ParsesUncounted(s) == s.found /\ s.mode \in {"scan", "after", "body"}

Parses(s) == s.found /\ s.mode \in {"scan", "after"}
-----------------------------------------------------------------------------
\* What a unified diff is: the program that writes one.

NothingWritten ==
    [stage |-> "---", hunks |-> <<>>, seen |-> 0, new |-> <<>>,
     owed |-> [old |-> 0, new |-> 0], due |-> FALSE, closed |-> FALSE, done |-> FALSE]

OldLines == LinesOf(old)

Settles == writer.owed = [old |-> 0, new |-> 0]

Here(tag, text) == [tag |-> tag, text |-> text, old |-> writer.seen, new |-> Len(writer.new)]

Writes(line) ==
    /\ ~writer.done
    /\ parser' = ParseLine(parser, line)
    /\ UNCHANGED <<old, deletes, current, applier, result>>

WriteOldName ==
    /\ writer.stage = "---"
    /\ writer' = [writer EXCEPT !.stage = "+++"]
    /\ Writes([tag |-> "---", null |-> old = Absent])

WriteNewName ==
    /\ writer.stage = "+++"
    /\ writer' = [writer EXCEPT !.stage = "@"]
    /\ Writes([tag |-> "+++", null |-> deletes])

\* After a gap of unchanged lines a hunk of some old and some new lines is announced.
\* Nothing is kept or added in a file that is deleted, nor after a last line without
\* newline.
WriteHunk(gap, oldCount, newCount) ==
    LET seen == writer.seen + gap
        hunk == [start |-> IF oldCount > 0 THEN seen + 1 ELSE seen,
                 oldCount |-> oldCount, newCount |-> newCount,
                 old |-> seen, new |-> Len(writer.new) + gap, lines |-> <<>>]
    IN /\ writer.stage = "@" /\ Settles /\ ~writer.due
       /\ oldCount + newCount > 0
       /\ seen + oldCount <= Len(OldLines)
       /\ Len(writer.new) + gap + newCount <= MaxNew
       /\ deletes \/ writer.closed => gap + newCount = 0
       /\ gap > 0 /\ seen = Len(OldLines) => Ended(old)
       /\ writer' = [writer EXCEPT
              !.hunks = Append(@, hunk), !.seen = seen,
              !.new = @ \o SubSeq(OldLines, writer.seen + 1, seen),
              !.owed = [old |-> oldCount, new |-> newCount]]
       /\ Writes([tag |-> "@", hunk |-> hunk])

Shown(w, line) == [w EXCEPT !.hunks[Len(w.hunks)].lines = Append(@, line)]

\* A context, a removed or an added line; an unended one lacks its newline, which a
\* marker will say.  Unended is the last old line if the old content is, and can be
\* the last new one.
WriteLine(tag, text, unended) ==
    /\ writer.stage = "@" /\ ~writer.due
    /\ tag \in OldSide =>
        /\ writer.owed.old > 0
        /\ text = OldLines[writer.seen + 1]
        /\ unended <=> writer.seen + 1 = Len(OldLines) /\ ~Ended(old)
    /\ tag \in NewSide =>
        /\ writer.owed.new > 0
        /\ unended => writer.owed.new = 1 /\ text # Blank
    /\ writer' = [Shown(writer, Here(tag, text)) EXCEPT
           !.seen = IF tag \in OldSide THEN @ + 1 ELSE @,
           !.new = IF tag \in NewSide THEN Append(@, text) ELSE @,
           !.owed = Less(@, tag),
           !.due = unended,
           !.closed = @ \/ (unended /\ tag \in NewSide)]
    /\ Writes(Here(tag, text))

WriteMarker ==
    /\ writer.due
    /\ writer' = [Shown(writer, Here("\\", Blank)) EXCEPT !.due = FALSE]
    /\ Writes(Here("\\", Blank))

\* What is left of a context, a removed or an added line that is cut behind its tag.
CutLine(tag, text) ==
    /\ writer.stage = "@" /\ ~writer.due
    /\ tag \in OldSide => writer.owed.old > 0 /\ text \in Cuts[OldLines[writer.seen + 1]]
    /\ tag \in NewSide => writer.owed.new > 0 /\ \E whole \in Texts : text \in Cuts[whole]

\* The text ends, be the diff complete or not: behind a newline, which leaves an empty
\* line, or inside a line.  (Where only the newline is missing the same lines are read,
\* but for the empty one.)
EndText ==
    /\ writer' = [writer EXCEPT !.done = TRUE]
    /\ \/ Writes(Here("", Blank))
       \/ \E tag \in OldSide \cup NewSide, text \in Texts :
            CutLine(tag, text) /\ Writes(Here(tag, text))

WriterNext ==
    \/ WriteOldName
    \/ WriteNewName
    \/ \E gap, oldCount \in 0 .. Len(OldLines) - writer.seen, newCount \in 0 .. MaxNew :
            WriteHunk(gap, oldCount, newCount)
    \/ \E tag \in OldSide \cup NewSide, text \in Texts, unended \in BOOLEAN :
            WriteLine(tag, text, unended)
    \/ WriteMarker
    \/ EndText
-----------------------------------------------------------------------------
\* _apply_hunks, a hunk or a line at a time.

NotStarted(content) ==
    [source |-> LinesOf(content), ended |-> Ended(content), out |-> <<>>, cursor |-> 0,
     onNew |-> FALSE, hunk |-> 0, line |-> 0]

\* A plausible applier that takes context lines on trust.
FindsRemovals(a, line) ==
    \/ line.tag = " "
    \/ a.cursor < Len(a.source) /\ a.source[a.cursor + 1] = line.text

Finds(a, line) == a.cursor < Len(a.source) /\ a.source[a.cursor + 1] = line.text

\* "No newline": only the new side matters.
Marked(a) == [a EXCEPT !.ended = @ /\ ~a.onNew]

Matched(a, line) ==
    [a EXCEPT !.out = IF line.tag \in NewSide THEN Append(@, line.text) ELSE @,
              !.cursor = IF line.tag \in OldSide THEN @ + 1 ELSE @,
              !.onNew = line.tag \in NewSide]

\* A plausible applier that takes a hunk without old lines to start at its line too.
StartOfLine(hunk) == hunk.start - 1

StartOf(hunk) == IF hunk.oldCount > 0 THEN hunk.start - 1 ELSE hunk.start

\* The lines up to the hunk are copied; a start beyond the end copies what there is.
Copied(a, hunk) ==
    LET start == StartOf(hunk)
    IN [a EXCEPT !.out = @ \o SubSeq(a.source, a.cursor + 1,
                                     IF start < Len(a.source) THEN start ELSE Len(a.source)),
                 !.cursor = start, !.onNew = FALSE]

Joined(lines, ended) ==
    LET out == IF lines = <<>> THEN <<Blank>> ELSE lines
    IN IF ended THEN Append(out, Blank) ELSE out

Applies == UNCHANGED <<old, deletes, writer, parser, current>>

Proceeds(a) == Applies /\ applier' = a /\ UNCHANGED result

Answers(answer) == Applies /\ result' = answer /\ UNCHANGED applier

RefuseDiff ==
    /\ writer.done /\ ~Parses(parser) /\ result = Pending
    /\ Answers(Refused)

\* A diff that creates its file wants it missing, any other wants it there.
StartApply(content) ==
    /\ writer.done /\ Parses(parser) /\ current = Pending
    /\ current' = content
    /\ applier' = NotStarted(content)
    /\ result' = IF parser.create # (content = Absent) THEN Refused ELSE Pending
    /\ UNCHANGED <<old, deletes, writer, parser>>

Applying == current # Pending /\ result = Pending

LinesOfHunk == IF applier.hunk = 0 THEN <<>> ELSE parser.hunks[applier.hunk].lines

HunkIsDone == applier.line = Len(LinesOfHunk)

\* A deletion only looks at the removed lines.
StartHunk ==
    LET hunk == parser.hunks[applier.hunk + 1]
        next == [applier EXCEPT !.hunk = @ + 1, !.line = 0]
    IN /\ Applying /\ HunkIsDone /\ applier.hunk < Len(parser.hunks)
       /\ IF parser.delete THEN Proceeds(next)
          ELSE IF StartOf(hunk) < applier.cursor THEN Answers(Refused)
          ELSE Proceeds(Copied(next, hunk))

ApplyLine ==
    LET line == LinesOfHunk[applier.line + 1]
        next == [applier EXCEPT !.line = @ + 1]
    IN /\ Applying /\ ~HunkIsDone
       /\ IF parser.delete /\ line.tag # "-" THEN Proceeds(next)
          ELSE IF line.tag = "\\" THEN Proceeds(Marked(next))
          ELSE IF line.tag \in OldSide /\ ~Finds(applier, line) THEN Answers(Refused)
          ELSE Proceeds(Matched(next, line))

\* A deletion must have removed every line; what no hunk shows is copied.
Finish ==
    LET rest == SubSeq(applier.source, applier.cursor + 1, Len(applier.source))
    IN /\ Applying /\ HunkIsDone /\ applier.hunk = Len(parser.hunks)
       /\ Answers(IF ~parser.delete THEN Joined(applier.out \o rest, applier.ended)
                  ELSE IF applier.cursor = Len(applier.source) THEN Absent ELSE Refused)
-----------------------------------------------------------------------------
Init ==
    /\ old \in Contents \cup {Absent}
    /\ deletes \in BOOLEAN
    /\ deletes => old # Absent
    /\ writer = NothingWritten
    /\ parser = NothingRead
    /\ current = Pending
    /\ applier = NotStarted(Absent)
    /\ result = Pending

Next ==
    \/ WriterNext
    \/ RefuseDiff
    \/ \E content \in Contents \cup {Absent} : StartApply(content)
    \/ StartHunk
    \/ ApplyLine
    \/ Finish

Spec == Init /\ [][Next]_vars
-----------------------------------------------------------------------------
\* Properties.

\* The content that a diff is meant to give that has come to these new lines.
NewFrom(lines) ==
    IF deletes THEN Absent
    ELSE Content(lines \o SubSeq(OldLines, writer.seen + 1, Len(OldLines)),
                 ~writer.closed /\ (Ended(old) \/ writer.seen = Len(OldLines)))

New == NewFrom(writer.new)

\* Its hunks are whole and nothing is left to say.
Complete ==
    /\ writer.stage = "@" /\ Settles /\ ~writer.due
    /\ deletes \/ writer.closed => writer.seen = Len(OldLines)

Applied == result \notin {Pending, Refused}

NewlineAdded == ~Ended(old) /\ Ended(New)

\* Whatever the change, however its hunks lie and whichever ends lack a newline, the
\* parser and the applier turn the old content into the new one.  Two changes are
\* left out, which the code gets wrong: a missing last newline that is added, and a
\* file that becomes empty.
GivesNew ==
    Complete /\ current = old /\ result # Pending =>
        result = New \/ New = <<Blank>> \/ NewlineAdded

\* Lines before hunk k and behind it, of the old and of the new content.
OldEnd(k) == IF k = 0 THEN 0 ELSE writer.hunks[k].old + writer.hunks[k].oldCount
NewEnd(k) == IF k = 0 THEN 0 ELSE writer.hunks[k].new + writer.hunks[k].newCount

\* The lines of some file between hunk k and the next one.
Between(k, lines) ==
    {n \in DOMAIN lines :
        n > OldEnd(k) /\ (k < Len(writer.hunks) => n <= writer.hunks[k + 1].old)}

\* "Context must match exactly or the apply fails": a content that a diff applies to
\* has the lines its hunks show at the places the hunks say, keeps every line they do
\* not show, and gets the lines they add where they add them; a file that is deleted
\* has no other lines than the removed ones.  There is one exception: a hunk that shows
\* no line of the content, as it only adds, and that lies beyond its end is not refused
\* and its lines come to the end.
StrictApply ==
    LET lines == LinesOf(current)
        hunks == writer.hunks
    IN Applied /\ Settles =>
        /\ \A k \in DOMAIN hunks : \A j \in DOMAIN hunks[k].lines :
            LET line == hunks[k].lines[j]
            IN /\ line.tag \in OldSide =>
                    line.old < Len(lines) /\ lines[line.old + 1] = line.text
               /\ line.tag \in NewSide /\ line.old <= Len(lines) =>
                    result[line.new + 1] = line.text
        /\ result = Absent => Len(lines) = writer.seen
        /\ result # Absent =>
            \A k \in 0 .. Len(hunks) : \A n \in Between(k, lines) :
                result[n - OldEnd(k) + NewEnd(k)] = lines[n]

\* The same but for a last newline.
Alike(x, y) ==
    \/ x = y
    \/ Absent \notin {x, y} /\ (x = Append(y, Blank) \/ y = Append(x, Blank))

\* A diff whose text ends before it is complete is refused, or its hunks are whole and
\* applied as if they were all there was, but for its last line: an added line can come
\* shortened, the marker of the line can get lost, and an empty context line can stand
\* for a missing empty line of the old content.  The counts of the header see to the
\* rest, and to nothing inside a line.
CutIsWhole ==
    Applied /\ current = old =>
        \/ Settles /\ Alike(result, New)
        \/ /\ writer.owed = [old |-> 0, new |-> 1]
           /\ \E whole \in Texts : \E text \in Cuts[whole] :
                Alike(result, NewFrom(Append(writer.new, text)))
        \/ writer.owed.old > 0 /\ OldLines[writer.seen + 1] = Blank
=============================================================================
