------------------------------ MODULE MCDiffs -------------------------------
(***************************************************************************)
(* Small instances of the diff reader for TLC: lines of two texts, one of  *)
(* them empty, and files long enough for two hunks with lines between.     *)
(***************************************************************************)
EXTENDS Diffs

CONSTANTS a, MaxOld

\* A line is cut to the empty one.
SmallCuts == [text \in Texts |-> {Blank} \ {text}]

\* Files of up to MaxOld lines; the shorter ones also without their last newline.
SmallContents ==
    {<<Blank>>}
        \cup {Content(lines, TRUE) : lines \in UNION {[1 .. n -> Texts] : n \in 1 .. MaxOld}}
        \cup {Content(lines, FALSE) : lines \in UNION {[1 .. n -> Texts] : n \in 1 .. MaxOld - 1}}
=============================================================================
