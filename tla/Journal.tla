------------------------------- MODULE Journal -------------------------------
(***************************************************************************)
(* The hash-chained journal of one workspace (src/monumentum/journal.py)   *)
(* and the hash of its newest line in state.json, as several commands, a   *)
(* clock that can be set back, writes cut short and damaged files leave    *)
(* them.                                                                   *)
(*                                                                         *)
(* `lines' is what Journal.lines() reads: the month files in name order,   *)
(* each in append order.  The hash of a line is its id: two lines that     *)
(* differ in a byte have different ids.                                    *)
(***************************************************************************)
EXTENDS Integers, Sequences, FiniteSets

CONSTANTS
    Writers,    \* processes that run commands
    MaxLines,   \* bound: no more lines than this are written
    MaxMonth,   \* bound on the clock
    MaxFaults,  \* bound: no more kinds of fault than this are met
    None        \* null: the prev of the genesis line, the head of an empty journal

FaultKinds ==
    {"killed", "short_write", "misfiled", "overlap", "line_edited", "line_lost", "tail_edited",
     "tail_lost"}

ASSUME JournalAssumption ==
    /\ MaxLines \in Nat \ {0}
    /\ MaxMonth \in Nat \ {0}
    /\ MaxFaults \in Nat
    /\ None \notin Nat

VARIABLES
    lines,      \* the journal, as read
    head,       \* state.json journal_head
    month,      \* the clock
    writer,     \* what each process has read, and how far it is
    fresh,      \* ids given out: one per line ever written
    returned,   \* ids of the entries that append() has returned
    met         \* which kinds of fault there have been

vars == <<lines, head, month, writer, fresh, returned, met>>

\* A line: its hash, its fields seq and prev, the file it is in, whether it parses,
\* and whether its newline was written.
Genesis == [id |-> 0, seq |-> 0, prev |-> None, month |-> 1, json |-> TRUE, ended |-> TRUE]

Idle == [pc |-> "idle", seq |-> 0, prev |-> None, head |-> None]

AtRest == \A w \in Writers : writer[w].pc = "idle"

HashOfLast == IF lines = <<>> THEN None ELSE lines[Len(lines)].id

\* next_seq and last_line parse nothing but the newest line.
TailParses == lines # <<>> => lines[Len(lines)].json

\* A plausible next_seq that counts the lines of the newest month file.
NextSeqOfFile ==
    IF lines = <<>> THEN 0
    ELSE Cardinality({i \in DOMAIN lines : lines[i].month = lines[Len(lines)].month})

NextSeq == IF lines = <<>> THEN 0 ELSE lines[Len(lines)].seq + 1

\* Where a line of month m goes: at the end of the file of that month.
Position(m) == Cardinality({i \in DOMAIN lines : lines[i].month <= m})

\* The journal with `line' appended to the file of its month.  A last line of that
\* file that lacks its newline becomes one line with it, which no longer parses.
Appended(line) ==
    LET k == Position(line.month)
        rest == SubSeq(lines, k + 1, Len(lines))
    IN IF k > 0 /\ lines[k].month = line.month /\ ~lines[k].ended
       THEN SubSeq(lines, 1, k - 1) \o <<[line EXCEPT !.json = FALSE]>> \o rest
       ELSE SubSeq(lines, 1, k) \o <<line>> \o rest

NewLine(w) ==
    [Genesis EXCEPT !.id = fresh, !.seq = writer[w].seq, !.prev = writer[w].prev,
                    !.month = month]

\* The workspace as init leaves it.
Init ==
    /\ month = 1
    /\ lines = <<Genesis>>
    /\ head = 0
    /\ writer = [w \in Writers |-> Idle]
    /\ fresh = 1
    /\ returned = {0}
    /\ met = {}

Meet(faults) ==
    /\ met' = met \cup faults
    /\ Cardinality(met') <= MaxFaults
-----------------------------------------------------------------------------
\* append, then update_journal_head and write_state.

\* seq comes from one reading of the files, prev from another.
ReadSeq(w) ==
    /\ writer[w].pc = "idle"
    /\ fresh < MaxLines
    /\ TailParses
    /\ writer' = [writer EXCEPT ![w] = [Idle EXCEPT !.pc = "seq", !.seq = NextSeq]]
    /\ Meet(IF AtRest THEN {} ELSE {"overlap"})
    /\ UNCHANGED <<lines, head, month, fresh, returned>>

ReadPrev(w) ==
    /\ writer[w].pc = "seq"
    /\ writer' = [writer EXCEPT ![w].pc = "prev", ![w].prev = HashOfLast]
    /\ UNCHANGED <<lines, head, month, fresh, returned, met>>

\* A line is misfiled when the clock was set back to before a month that has a file.
Misfiling == IF Position(month) < Len(lines) THEN {"misfiled"} ELSE {}

Write(w) ==
    /\ writer[w].pc = "prev"
    /\ fresh < MaxLines
    /\ Meet(Misfiling)
    /\ lines' = Appended(NewLine(w))
    /\ writer' = [writer EXCEPT ![w].pc = "head"]
    /\ returned' = returned \cup {fresh}
    /\ fresh' = fresh + 1
    /\ UNCHANGED <<head, month>>

\* A full disk: part of the line is written, or all of it but the newline, and the
\* command ends in an exception.
WriteShort(w) ==
    /\ writer[w].pc = "prev"
    /\ fresh < MaxLines
    /\ Meet({"short_write"} \cup Misfiling)
    /\ \E whole \in BOOLEAN :
        lines' = Appended([NewLine(w) EXCEPT !.json = whole, !.ended = FALSE])
    /\ writer' = [writer EXCEPT ![w] = Idle]
    /\ fresh' = fresh + 1
    /\ UNCHANGED <<head, month, returned>>

\* A plausible update_journal_head that runs on the tail from before the append.
ReadHeadBefore(w) ==
    /\ writer[w].pc = "head"
    /\ writer' = [writer EXCEPT ![w].pc = "save", ![w].head = writer[w].prev]
    /\ UNCHANGED <<lines, head, month, fresh, returned, met>>

ReadHead(w) ==
    /\ writer[w].pc = "head"
    /\ writer' = [writer EXCEPT ![w].pc = "save", ![w].head = HashOfLast]
    /\ UNCHANGED <<lines, head, month, fresh, returned, met>>

SaveHead(w) ==
    /\ writer[w].pc = "save"
    /\ head' = writer[w].head
    /\ writer' = [writer EXCEPT ![w] = Idle]
    /\ UNCHANGED <<lines, month, fresh, returned, met>>
-----------------------------------------------------------------------------
\* Faults.

Killed(w) ==
    /\ writer[w].pc # "idle"
    /\ Meet({"killed"})
    /\ writer' = [writer EXCEPT ![w] = Idle]
    /\ UNCHANGED <<lines, head, month, fresh, returned>>

NextMonth ==
    /\ month < MaxMonth
    /\ month' = month + 1
    /\ UNCHANGED <<lines, head, writer, fresh, returned, met>>

ClockBack ==
    /\ month > 1
    /\ month' = month - 1
    /\ UNCHANGED <<lines, head, writer, fresh, returned, met>>

\* Somebody edits a line, to another canonical entry with the same seq and prev.
EditLine ==
    /\ fresh < MaxLines
    /\ \E i \in DOMAIN lines :
        /\ lines' = [lines EXCEPT ![i].id = fresh]
        /\ Meet(IF i = Len(lines) THEN {"tail_edited"} ELSE {"line_edited"})
    /\ fresh' = fresh + 1
    /\ UNCHANGED <<head, month, writer, returned>>

\* A line that has a successor disappears.
LoseLine ==
    /\ Meet({"line_lost"})
    /\ \E i \in 1 .. Len(lines) - 1 :
        lines' = SubSeq(lines, 1, i - 1) \o SubSeq(lines, i + 1, Len(lines))
    /\ UNCHANGED <<head, month, writer, fresh, returned>>

\* Between commands the newest line disappears: an old copy of the file is put back.
LoseTail ==
    /\ AtRest
    /\ Meet({"tail_lost"})
    /\ Len(lines) > 1
    /\ lines' = SubSeq(lines, 1, Len(lines) - 1)
    /\ UNCHANGED <<head, month, writer, fresh, returned>>

Next ==
    \/ \E w \in Writers :
        ReadSeq(w) \/ ReadPrev(w) \/ Write(w) \/ WriteShort(w) \/ ReadHead(w) \/ SaveHead(w)
        \/ Killed(w)
    \/ NextMonth
    \/ ClockBack
    \/ EditLine
    \/ LoseLine
    \/ LoseTail

Spec == Init /\ [][Next]_vars
-----------------------------------------------------------------------------
\* verify_chain: whether line i breaks the chain.

\* A plausible verify_chain that trusts the sequence numbers.
BreaksSeqOnly(i) ==
    \/ ~lines[i].json
    \/ lines[i].seq # i - 1

Breaks(i) ==
    \/ ~lines[i].json
    \/ lines[i].seq # i - 1
    \/ lines[i].prev # (IF i = 1 THEN None ELSE lines[i - 1].id)

ChainBreaks == {i \in DOMAIN lines : Breaks(i)}

ChainVerifies == lines # <<>> /\ ChainBreaks = {}

\* A plausible verify that does not look at journal_head.
VerifiesChainOnly == ChainVerifies

\* What verify has to say about the journal: nothing.
Verifies == ChainVerifies /\ head = HashOfLast
-----------------------------------------------------------------------------
\* Properties.

\* Commands that do not overlap, killed anywhere and resumed in another month, and a
\* clock set back to any month but one before an existing file: a command that gets to
\* write_state leaves a whole chain that state.json vouches for, whatever earlier
\* commands left behind (next_seq of journal.py goes by the newest line of any file,
\* update_journal_head by the tail after append), so verify raises no false alarm.
CommandVouches ==
    [][(\E w \in Writers : SaveHead(w)) /\ met \subseteq {"killed"} => Verifies']_vars

Damage == EditLine \/ LoseLine \/ LoseTail

HistoryDamaged ==
    \E i \in 1 .. Len(lines) - 1 : i \notin DOMAIN lines' \/ lines'[i].id # lines[i].id

\* I2: no line that has a successor is edited, lost or cut without verify_chain saying
\* so; and once the chain is broken, by damage, by commands that overlapped or by a
\* line in an earlier month's file, no command makes verify_chain stop saying so.
DamageStaysVisible ==
    [][\/ ChainVerifies /\ HistoryDamaged
       \/ ~ChainVerifies /\ ~Damage
       => ~ChainVerifies']_vars

\* DEC-015: with no command under way, an edit or loss of any line, the newest
\* included, shows in the next verify: the chain covers all lines but the newest
\* and journal_head covers that one.
DamageIsSeen ==
    [][AtRest /\ Verifies /\ Damage => ~Verifies']_vars

\* An entry that append has returned is in the journal for as long as verify reports
\* nothing, but for the two ways to lose it: the newest line goes and the next command
\* vouches for what is left, or the lost line is one of those that broke the chain.
AcknowledgedIsKept ==
    /\ AtRest /\ Verifies
    /\ met \cap {"tail_edited", "tail_lost"} = {}
    /\ "line_lost" \in met => met \cap {"overlap", "misfiled"} = {}
    => returned \subseteq {lines[i].id : i \in DOMAIN lines}
=============================================================================
