---------------------------- MODULE JournalProofs ----------------------------
(***************************************************************************)
(* What module Journal promises about damage, proved for any number of     *)
(* commands, lines, months and faults: it shows, and it stays visible.     *)
(***************************************************************************)
EXTENDS Journal, SequenceTheorems, FiniteSetTheorems, TLAPS

Hashes == Nat \cup {None}

Lines ==
    [id : Nat, seq : Nat, prev : Hashes, month : Nat, json : BOOLEAN, ended : BOOLEAN]

Writing ==
    [pc : {"idle", "seq", "prev", "head", "save"}, seq : Nat, prev : Hashes, head : Hashes]

TypeInv ==
    /\ lines \in Seq(Lines)
    /\ head \in Hashes
    /\ month \in Nat
    /\ fresh \in Nat
    /\ writer \in [Writers -> Writing]
    /\ returned \in SUBSET Nat
    /\ met \in SUBSET FaultKinds

Old(hash, bound) == hash # None => hash < bound

\* There is a line, no two lines have one hash, and every hash that a line or a command
\* has seen was given out.
LinesInv ==
    /\ lines \in Seq(Lines)
    /\ Len(lines) > 0
    /\ \A i \in 1 .. Len(lines) : lines[i].id < fresh /\ Old(lines[i].prev, fresh)
    /\ \A i, j \in 1 .. Len(lines) : lines[i].id = lines[j].id => i = j

WritersInv == \A w \in Writers : Old(writer[w].prev, fresh)

Inv == TypeInv /\ LinesInv /\ WritersInv
-----------------------------------------------------------------------------
\* The operators.

\* The place of a month is one of the journal.
LEMMA PositionInRange ==
    ASSUME NEW m, lines \in Seq(Lines)
    PROVE  Position(m) \in 0 .. Len(lines)
PROOF
<1>1. DOMAIN lines = 1 .. Len(lines) /\ Len(lines) \in Nat
  BY LenProperties
<1>2. IsFiniteSet(1 .. Len(lines)) /\ Cardinality(1 .. Len(lines)) = Len(lines)
  BY <1>1, FS_Interval
<1> DEFINE before == {i \in DOMAIN lines : lines[i].month <= m}
<1>3. before \in SUBSET (1 .. Len(lines))
  BY <1>1
<1>4. IsFiniteSet(before) /\ Cardinality(before) <= Len(lines)
  BY <1>2, <1>3, FS_Subset
<1>5. Cardinality(before) \in Nat
  BY <1>4, FS_CardinalityType
<1> QED
  BY <1>1, <1>4, <1>5 DEF Position

\* The journal `new' has `line' between lines k and k + 1, or glued to line k, which
\* lacked its newline.
Inserted(new, line, k) ==
    /\ new \in Seq(Lines)
    /\ Len(new) = Len(lines) + 1
    /\ \A i \in 1 .. Len(lines) + 1 : new[i] =
        IF i <= k THEN lines[i] ELSE IF i = k + 1 THEN line ELSE lines[i - 1]

Glued(new, line, k) ==
    /\ k > 0
    /\ new \in Seq(Lines)
    /\ Len(new) = Len(lines)
    /\ \A i \in 1 .. Len(lines) : new[i] =
        IF i = k THEN [line EXCEPT !.json = FALSE] ELSE lines[i]

\* The first m lines, one more, and those after line k.
Splice(x, m, k) == SubSeq(lines, 1, m) \o <<x>> \o SubSeq(lines, k + 1, Len(lines))

IsSplice(new, x, m, k) ==
    /\ new \in Seq(Lines)
    /\ Len(new) = Len(lines) + m + 1 - k
    /\ \A i \in 1 .. Len(lines) + m + 1 - k : new[i] =
        IF i <= m THEN lines[i] ELSE IF i = m + 1 THEN x ELSE lines[i - (m + 1) + k]

LEMMA Rebuilt ==
    ASSUME lines \in Seq(Lines), NEW x \in Lines,
           NEW m \in 0 .. Len(lines), NEW k \in 0 .. Len(lines), m <= k
    PROVE  IsSplice(Splice(x, m, k), x, m, k)
PROOF
<1> DEFINE n == Len(lines)
           first == SubSeq(lines, 1, m)
           rest == SubSeq(lines, k + 1, n)
           front == first \o <<x>>
<1>1. n \in Nat /\ m \in Nat /\ k \in Nat /\ \A i \in 1 .. n : lines[i] \in Lines
  BY LenProperties, ElementOfSeq
<1>2. /\ first \in Seq(Lines)
      /\ Len(first) = m
      /\ \A i \in 1 .. m : first[i] = lines[i]
  <2>1. \A i \in 1 .. m : lines[i] \in Lines
    BY <1>1
  <2>2. /\ first \in Seq(Lines)
        /\ Len(first) = IF 1 <= m THEN m - 1 + 1 ELSE 0
        /\ \A i \in 1 .. m - 1 + 1 : first[i] = lines[1 + i - 1]
    BY <1>1, <2>1, SubSeqProperties
  <2> QED
    BY <1>1, <2>2
<1>3. /\ rest \in Seq(Lines)
      /\ Len(rest) = n - k
      /\ \A i \in 1 .. n - k : rest[i] = lines[k + i]
  <2>1. \A i \in k + 1 .. n : lines[i] \in Lines
    BY <1>1
  <2>2. /\ rest \in Seq(Lines)
        /\ Len(rest) = IF k + 1 <= n THEN n - (k + 1) + 1 ELSE 0
        /\ \A i \in 1 .. n - (k + 1) + 1 : rest[i] = lines[(k + 1) + i - 1]
    BY <1>1, <2>1, SubSeqProperties
  <2> QED
    BY <1>1, <2>2
<1>4. <<x>> \in Seq(Lines) /\ Len(<<x>>) = 1 /\ <<x>>[1] = x
  OBVIOUS
<1> HIDE DEF first, rest, n
<1>5. /\ front \in Seq(Lines)
      /\ Len(front) = m + 1
      /\ \A i \in 1 .. m + 1 : front[i] = IF i <= m THEN first[i] ELSE <<x>>[i - m]
  BY <1>2, <1>4, ConcatProperties
<1>a. front \o rest = Splice(x, m, k)
  BY DEF front, first, rest, n, Splice
<1> HIDE DEF front
<1>6. \A i \in 1 .. m + 1 : front[i] = IF i <= m THEN lines[i] ELSE x
  <2> SUFFICES ASSUME NEW i \in 1 .. m + 1
               PROVE  front[i] = IF i <= m THEN lines[i] ELSE x
    OBVIOUS
  <2>1. CASE i <= m
    BY <1>1, <1>2, <1>5, <2>1
  <2>2. CASE i = m + 1
    <3>1. i - m = 1 /\ ~(i <= m)
      BY <1>1, <2>2
    <3>2. front[i] = <<x>>[i - m]
      BY <1>5, <3>1
    <3> QED
      BY <1>4, <3>1, <3>2
  <2>3. m \in Nat
    BY <1>1
  <2> QED
    BY <2>1, <2>2, <2>3
<1>7. /\ front \o rest \in Seq(Lines)
      /\ Len(front \o rest) = Len(front) + Len(rest)
      /\ \A i \in 1 .. Len(front) + Len(rest) : (front \o rest)[i] =
            IF i <= Len(front) THEN front[i] ELSE rest[i - Len(front)]
  <2>1. front \in Seq(Lines) /\ rest \in Seq(Lines)
    BY <1>3, <1>5
  <2> QED
    BY <2>1, ConcatProperties
<1> DEFINE new == Splice(x, m, k)
<1>8. /\ new \in Seq(Lines)
      /\ Len(new) = n + m + 1 - k
      /\ \A i \in 1 .. n + m + 1 - k : new[i] =
            IF i <= m + 1 THEN front[i] ELSE rest[i - (m + 1)]
  <2>1. Len(front) = m + 1 /\ Len(rest) = n - k /\ (m + 1) + (n - k) = n + m + 1 - k
    BY <1>1, <1>3, <1>5
  <2> QED
    BY <1>7, <1>a, <2>1
<1> HIDE DEF new
<1>9. \A i \in 1 .. n + m + 1 - k : new[i] =
        IF i <= m THEN lines[i] ELSE IF i = m + 1 THEN x ELSE lines[i - (m + 1) + k]
  <2> SUFFICES ASSUME NEW i \in 1 .. n + m + 1 - k
               PROVE  new[i] =
                        IF i <= m THEN lines[i]
                        ELSE IF i = m + 1 THEN x ELSE lines[i - (m + 1) + k]
    OBVIOUS
  <2>0. i \in Int /\ m \in Int
    BY <1>1
  <2>1. CASE i <= m + 1
    <3>1. i \in 1 .. m + 1 /\ (~(i <= m) => i = m + 1) /\ (i = m + 1 => ~(i <= m))
      BY <1>1, <2>1
    <3>2. new[i] = front[i]
      BY <1>8, <2>1
    <3>3. front[i] = IF i <= m THEN lines[i] ELSE x
      BY <1>6, <3>1
    <3> QED
      BY <3>1, <3>2, <3>3
  <2>2. CASE i > m + 1
    <3>1. /\ i - (m + 1) \in 1 .. n - k
          /\ k + (i - (m + 1)) = i - (m + 1) + k
          /\ ~(i <= m) /\ i # m + 1 /\ ~(i <= m + 1)
      BY <1>1, <2>2
    <3>2. new[i] = rest[i - (m + 1)]
      BY <1>8, <3>1
    <3>3. rest[i - (m + 1)] = lines[k + (i - (m + 1))]
      BY <1>3, <3>1
    <3> QED
      BY <3>1, <3>2, <3>3
  <2> QED
    BY <2>0, <2>1, <2>2
<1> QED
  BY <1>8, <1>9 DEF IsSplice, new, n

\* Those are the two outcomes of append.
LEMMA AppendedWhere ==
    ASSUME lines \in Seq(Lines), NEW line \in Lines
    PROVE  LET k == Position(line.month)
           IN IF k > 0 /\ lines[k].month = line.month /\ ~lines[k].ended
              THEN Glued(Appended(line), line, k)
              ELSE Inserted(Appended(line), line, k)
PROOF
<1> DEFINE k == Position(line.month)
           glued == [line EXCEPT !.json = FALSE]
<1>1. Len(lines) \in Nat /\ k \in 0 .. Len(lines) /\ glued \in Lines
  BY PositionInRange, LenProperties DEF Lines
<1>2. CASE k > 0 /\ lines[k].month = line.month /\ ~lines[k].ended
  <2>1. Appended(line) = Splice(glued, k - 1, k)
    BY <1>2 DEF Appended, Splice
  <2> HIDE DEF k, glued
  <2>2. PICK m \in 0 .. Len(lines) : m + 1 = k
    BY <1>1, <1>2
  <2>3. m = k - 1 /\ m <= k /\ k \in 0 .. Len(lines)
    BY <1>1, <2>2
  <2>0. PICK x \in Lines : x = glued
    BY <1>1
  <2>4. IsSplice(Splice(x, m, k), x, m, k)
    BY <2>3, Rebuilt
  <2>5. Appended(line) = Splice(x, m, k) /\ Len(lines) + m + 1 - k = Len(lines)
    BY <1>1, <2>0, <2>1, <2>2, <2>3
  <2> DEFINE new == Appended(line)
  <2> HIDE DEF new
  <2>6. ASSUME NEW i \in 1 .. Len(lines)
        PROVE  new[i] = IF i = k THEN x ELSE lines[i]
    <3>1. i - (m + 1) + k = i /\ (i <= m => i # k) /\ m + 1 = k
      BY <1>1, <2>2
    <3>2. new[i] = IF i <= m THEN lines[i]
                   ELSE IF i = m + 1 THEN x ELSE lines[i - (m + 1) + k]
      BY <2>4, <2>5 DEF IsSplice, new
    <3> QED
      BY <3>1, <3>2
  <2>7. Glued(Appended(line), line, k)
    BY <1>2, <2>0, <2>4, <2>5, <2>6 DEF Glued, IsSplice, glued, new
  <2> QED
    BY <1>2, <2>7 DEF k
<1>3. CASE ~(k > 0 /\ lines[k].month = line.month /\ ~lines[k].ended)
  <2>1. Appended(line) = Splice(line, k, k)
    BY <1>3 DEF Appended, Splice
  <2> HIDE DEF k
  <2>2. k <= k
    BY <1>1
  <2>3. IsSplice(Appended(line), line, k, k)
    BY <1>1, <2>1, <2>2, Rebuilt
  <2>4. Len(lines) + k + 1 - k = Len(lines) + 1
    BY <1>1
  <2>5. ASSUME NEW i \in 1 .. Len(lines) + 1
        PROVE  Appended(line)[i] =
                IF i <= k THEN lines[i] ELSE IF i = k + 1 THEN line ELSE lines[i - 1]
    <3>1. i - (k + 1) + k = i - 1
      BY <1>1
    <3> QED
      BY <2>3, <2>4, <3>1 DEF IsSplice
  <2>6. Inserted(Appended(line), line, k)
    BY <2>3, <2>4, <2>5 DEF Inserted, IsSplice
  <2> QED
    BY <1>3, <2>6 DEF k
<1> QED
  BY <1>2, <1>3

LEMMA AppendedCases ==
    ASSUME lines \in Seq(Lines), NEW line \in Lines
    PROVE  \E k \in 0 .. Len(lines) :
            Inserted(Appended(line), line, k) \/ Glued(Appended(line), line, k)
PROOF
  BY AppendedWhere, PositionInRange

\* What is left without line i.
Removed(new, i) ==
    /\ new \in Seq(Lines)
    /\ Len(new) = Len(lines) - 1
    /\ \A j \in 1 .. Len(lines) - 1 : new[j] = IF j < i THEN lines[j] ELSE lines[j + 1]

LEMMA LineRemoved ==
    ASSUME lines \in Seq(Lines), NEW i \in 1 .. Len(lines)
    PROVE  Removed(SubSeq(lines, 1, i - 1) \o SubSeq(lines, i + 1, Len(lines)), i)
PROOF
<1> DEFINE n == Len(lines)
           first == SubSeq(lines, 1, i - 1)
           rest == SubSeq(lines, i + 1, n)
           new == first \o rest
<1>1. n \in Nat /\ i \in 1 .. n /\ \A j \in 1 .. n : lines[j] \in Lines
  BY LenProperties, ElementOfSeq
<1>2. /\ first \in Seq(Lines)
      /\ Len(first) = i - 1
      /\ \A j \in 1 .. i - 1 : first[j] = lines[j]
  <2>1. \A j \in 1 .. i - 1 : lines[j] \in Lines
    BY <1>1
  <2>2. /\ first \in Seq(Lines)
        /\ Len(first) = IF 1 <= i - 1 THEN (i - 1) - 1 + 1 ELSE 0
        /\ \A j \in 1 .. (i - 1) - 1 + 1 : first[j] = lines[1 + j - 1]
    BY <1>1, <2>1, SubSeqProperties
  <2> QED
    BY <1>1, <2>2
<1>3. /\ rest \in Seq(Lines)
      /\ Len(rest) = n - i
      /\ \A j \in 1 .. n - i : rest[j] = lines[i + j]
  <2>1. \A j \in i + 1 .. n : lines[j] \in Lines
    BY <1>1
  <2>2. /\ rest \in Seq(Lines)
        /\ Len(rest) = IF i + 1 <= n THEN n - (i + 1) + 1 ELSE 0
        /\ \A j \in 1 .. n - (i + 1) + 1 : rest[j] = lines[(i + 1) + j - 1]
    BY <1>1, <2>1, SubSeqProperties
  <2> QED
    BY <1>1, <2>2
<1> HIDE DEF first, rest
<1>4. /\ new \in Seq(Lines)
      /\ Len(new) = Len(first) + Len(rest)
      /\ \A j \in 1 .. Len(first) + Len(rest) : new[j] =
            IF j <= Len(first) THEN first[j] ELSE rest[j - Len(first)]
  <2>1. first \in Seq(Lines) /\ rest \in Seq(Lines)
    BY <1>2, <1>3
  <2> QED
    BY <2>1, ConcatProperties
<1> HIDE DEF new, n
<1>5. /\ Len(new) = n - 1
      /\ \A j \in 1 .. n - 1 : new[j] =
            IF j <= i - 1 THEN first[j] ELSE rest[j - (i - 1)]
  <2>1. Len(first) = i - 1 /\ Len(first) + Len(rest) = n - 1
    BY <1>1, <1>2, <1>3
  <2> QED
    BY <1>4, <2>1
<1>6. ASSUME NEW j \in 1 .. n - 1
      PROVE  new[j] = IF j < i THEN lines[j] ELSE lines[j + 1]
  <2>0. j \in Int /\ i \in Int /\ (j < i <=> j <= i - 1)
    BY <1>1
  <2>1. CASE j < i
    <3>1. j \in 1 .. i - 1
      BY <1>1, <2>1
    <3> QED
      BY <1>2, <1>5, <2>0, <2>1, <3>1
  <2>2. CASE ~(j < i)
    <3>1. j - (i - 1) \in 1 .. n - i /\ i + (j - (i - 1)) = j + 1
      BY <1>1, <2>2
    <3>2. rest[j - (i - 1)] = lines[i + (j - (i - 1))]
      BY <1>3, <3>1
    <3> QED
      BY <1>5, <2>0, <2>2, <3>1, <3>2
  <2> QED
    BY <2>1, <2>2
<1> QED
  BY <1>4, <1>5, <1>6 DEF Removed, new, first, rest, n

LEMMA TailRemoved ==
    ASSUME lines \in Seq(Lines), Len(lines) > 1
    PROVE  Removed(SubSeq(lines, 1, Len(lines) - 1), Len(lines))
PROOF
<1> DEFINE n == Len(lines)
           new == SubSeq(lines, 1, n - 1)
<1>1. n \in Nat /\ n > 1 /\ \A j \in 1 .. n : lines[j] \in Lines
  BY LenProperties, ElementOfSeq
<1>2. \A j \in 1 .. n - 1 : lines[j] \in Lines
  BY <1>1
<1>3. /\ new \in Seq(Lines)
      /\ Len(new) = IF 1 <= n - 1 THEN (n - 1) - 1 + 1 ELSE 0
      /\ \A j \in 1 .. (n - 1) - 1 + 1 : new[j] = lines[1 + j - 1]
  BY <1>1, <1>2, SubSeqProperties
<1> HIDE DEF new, n
<1>4. Len(new) = n - 1 /\ \A j \in 1 .. n - 1 : new[j] = lines[j] /\ j < n
  BY <1>1, <1>3
<1> QED
  BY <1>3, <1>4 DEF Removed, new, n

\* Another line i.
Edited(new, i) ==
    /\ new \in Seq(Lines)
    /\ Len(new) = Len(lines)
    /\ \A j \in 1 .. Len(lines) : new[j] =
        IF j = i THEN [lines[i] EXCEPT !.id = fresh] ELSE lines[j]

LEMMA LineEdited ==
    ASSUME lines \in Seq(Lines), fresh \in Nat, NEW i \in 1 .. Len(lines)
    PROVE  Edited([lines EXCEPT ![i].id = fresh], i)
PROOF
<1> DEFINE x == [lines[i] EXCEPT !.id = fresh]
           new == [lines EXCEPT ![i] = x]
<1>1. lines[i] \in Lines
  BY ElementOfSeq
<1>2. x \in Lines
  BY <1>1 DEF Lines
<1>3. new = [lines EXCEPT ![i].id = fresh]
  OBVIOUS
<1> HIDE DEF x
<1>4. /\ new \in Seq(Lines)
      /\ Len(new) = Len(lines)
      /\ \A j \in 1 .. Len(lines) : new[j] = IF j = i THEN x ELSE lines[j]
  BY <1>2, ExceptSeq
<1> HIDE DEF new
<1> QED
  BY <1>3, <1>4 DEF Edited, x
-----------------------------------------------------------------------------
\* The invariant.

LEMMA LinesTyped ==
    ASSUME lines \in Seq(Lines), NEW i \in 1 .. Len(lines)
    PROVE  /\ lines[i] \in Lines
           /\ lines[i].id \in Nat /\ lines[i].seq \in Nat /\ lines[i].prev \in Hashes
PROOF
<1>1. lines[i] \in Lines
  BY ElementOfSeq
<1> QED
  BY <1>1 DEF Lines

LEMMA AppendKeepsLines ==
    ASSUME LinesInv, fresh \in Nat, NEW line \in Lines, line.id = fresh, Old(line.prev, fresh),
           lines' = Appended(line), fresh' = fresh + 1
    PROVE  LinesInv'
PROOF
<1> USE DEF LinesInv
<1>1. Len(lines) \in Nat /\ line.prev \in Hashes
  BY LenProperties DEF Lines
<1>2. \A i \in 1 .. Len(lines) : lines[i].id \in Nat /\ lines[i].prev \in Hashes
  BY LinesTyped
<1>3. PICK k \in 0 .. Len(lines) : Inserted(lines', line, k) \/ Glued(lines', line, k)
  BY AppendedCases
<1>4. \A h \in Hashes : Old(h, fresh) => Old(h, fresh')
  BY DEF Old, Hashes
<1>5. CASE Inserted(lines', line, k)
  <2> DEFINE from(i) == IF i <= k THEN i ELSE i - 1
  <2>1. /\ lines' \in Seq(Lines)
        /\ Len(lines') = Len(lines) + 1
        /\ Len(lines') > 0
    BY <1>1, <1>5 DEF Inserted
  <2>2. ASSUME NEW i \in 1 .. Len(lines')
        PROVE  \/ i = k + 1 /\ lines'[i] = line
               \/ i # k + 1 /\ from(i) \in 1 .. Len(lines) /\ lines'[i] = lines[from(i)]
    BY <1>1, <1>5, <2>1 DEF Inserted
  <2>3. ASSUME NEW i \in 1 .. Len(lines'), NEW j \in 1 .. Len(lines'),
               i # k + 1, j # k + 1, from(i) = from(j)
        PROVE  i = j
    BY <1>1, <2>1, <2>3
  <2> HIDE DEF from
  <2>4. ASSUME NEW i \in 1 .. Len(lines')
        PROVE  lines'[i].id < fresh' /\ Old(lines'[i].prev, fresh')
    <3>1. CASE i = k + 1
      BY <1>1, <1>4, <2>2, <3>1 DEF Old
    <3>2. CASE i # k + 1
      <4>1. /\ lines[from(i)].id < fresh /\ lines[from(i)].id \in Nat
            /\ Old(lines[from(i)].prev, fresh) /\ lines[from(i)].prev \in Hashes
            /\ lines'[i] = lines[from(i)]
        BY <1>2, <2>2, <3>2
      <4> QED
        BY <1>4, <4>1 DEF Old
    <3> QED
      BY <3>1, <3>2
  <2>5. ASSUME NEW i \in 1 .. Len(lines'), NEW j \in 1 .. Len(lines'),
               lines'[i].id = lines'[j].id
        PROVE  i = j
    <3>1. \A h \in 1 .. Len(lines) : lines[h].id # fresh
      BY <1>2
    <3>2. CASE i = k + 1 \/ j = k + 1
      BY <2>2, <2>5, <3>1, <3>2
    <3>3. CASE i # k + 1 /\ j # k + 1
      BY <2>2, <2>3, <2>5, <3>3
    <3> QED
      BY <3>2, <3>3
  <2> QED
    BY <2>1, <2>4, <2>5
<1>6. CASE Glued(lines', line, k)
  <2>1. /\ lines' \in Seq(Lines)
        /\ Len(lines') = Len(lines)
    BY <1>6 DEF Glued
  <2>2. ASSUME NEW i \in 1 .. Len(lines')
        PROVE  \/ i = k /\ lines'[i].id = fresh /\ lines'[i].prev = line.prev
               \/ i # k /\ lines'[i] = lines[i]
    BY <1>6, <2>1 DEF Glued, Lines
  <2>3. ASSUME NEW i \in 1 .. Len(lines')
        PROVE  lines'[i].id < fresh' /\ Old(lines'[i].prev, fresh')
    <3>1. CASE i = k
      BY <1>1, <1>4, <2>2, <3>1 DEF Old
    <3>2. CASE i # k
      BY <1>2, <1>4, <2>1, <2>2, <3>2 DEF Old
    <3> QED
      BY <3>1, <3>2
  <2>4. ASSUME NEW i \in 1 .. Len(lines'), NEW j \in 1 .. Len(lines'),
               lines'[i].id = lines'[j].id
        PROVE  i = j
    <3>1. \A h \in 1 .. Len(lines) : lines[h].id # fresh
      BY <1>2
    <3> QED
      BY <2>1, <2>2, <2>4, <3>1
  <2> QED
    BY <2>1, <2>3, <2>4
<1> QED
  BY <1>3, <1>5, <1>6

LEMMA RemovalKeepsLines ==
    ASSUME LinesInv, NEW i \in 1 .. Len(lines), Len(lines) > 1, Removed(lines', i),
           UNCHANGED fresh
    PROVE  LinesInv'
PROOF
<1> DEFINE from(j) == IF j < i THEN j ELSE j + 1
<1>1. Len(lines) \in Nat /\ lines' \in Seq(Lines) /\ Len(lines') = Len(lines) - 1
  BY LenProperties DEF LinesInv, Removed
<1>2. ASSUME NEW j \in 1 .. Len(lines')
      PROVE  from(j) \in 1 .. Len(lines) /\ lines'[j] = lines[from(j)]
  BY <1>1 DEF Removed
<1>3. ASSUME NEW j \in 1 .. Len(lines'), NEW h \in 1 .. Len(lines'), from(j) = from(h)
      PROVE  j = h
  BY <1>1, <1>3
<1> HIDE DEF from
<1>4. Len(lines') > 0
  BY <1>1
<1>5. ASSUME NEW j \in 1 .. Len(lines')
      PROVE  lines'[j].id < fresh' /\ Old(lines'[j].prev, fresh')
  BY <1>2 DEF LinesInv
<1>6. ASSUME NEW j \in 1 .. Len(lines'), NEW h \in 1 .. Len(lines'),
             lines'[j].id = lines'[h].id
      PROVE  j = h
  <2>1. from(j) = from(h)
    BY <1>2, <1>6 DEF LinesInv
  <2> QED
    BY <1>3, <2>1
<1> QED
  BY <1>1, <1>4, <1>5, <1>6 DEF LinesInv

LEMMA EditKeepsLines ==
    ASSUME LinesInv, fresh \in Nat, NEW i \in 1 .. Len(lines), Edited(lines', i),
           fresh' = fresh + 1
    PROVE  LinesInv'
PROOF
<1>1. lines' \in Seq(Lines) /\ Len(lines') = Len(lines) /\ Len(lines') > 0
  BY DEF LinesInv, Edited
<1>2. \A j \in 1 .. Len(lines) : /\ lines[j].id \in Nat /\ lines[j].id < fresh
                                /\ lines[j].prev \in Hashes /\ Old(lines[j].prev, fresh)
  BY LinesTyped DEF LinesInv
<1>3. ASSUME NEW j \in 1 .. Len(lines')
      PROVE  /\ lines'[j].prev = lines[j].prev
             /\ IF j = i THEN lines'[j].id = fresh ELSE lines'[j].id = lines[j].id
  <2>1. lines[i] \in Lines
    BY LinesTyped DEF LinesInv
  <2> QED
    BY <1>1, <2>1 DEF Edited, Lines
<1>4. ASSUME NEW j \in 1 .. Len(lines')
      PROVE  lines'[j].id < fresh' /\ Old(lines'[j].prev, fresh')
  BY <1>1, <1>2, <1>3 DEF Old, Hashes
<1>5. ASSUME NEW j \in 1 .. Len(lines'), NEW h \in 1 .. Len(lines'),
             lines'[j].id = lines'[h].id
      PROVE  j = h
  <2>1. \A m \in 1 .. Len(lines) : lines[m].id # fresh
    BY <1>2
  <2>2. lines[j].id = lines[h].id => j = h
    BY <1>1 DEF LinesInv
  <2> QED
    BY <1>1, <1>3, <1>5, <2>1, <2>2
<1> QED
  BY <1>1, <1>4, <1>5 DEF LinesInv

\* What the commands read is typed and was given out.
LEMMA HashOfLastGivenOut ==
    ASSUME LinesInv
    PROVE  HashOfLast \in Hashes /\ Old(HashOfLast, fresh) /\ NextSeq \in Nat
PROOF
<1>1. lines # <<>> /\ Len(lines) \in 1 .. Len(lines)
  BY LenProperties DEF LinesInv
<1>2. lines[Len(lines)].id \in Nat /\ lines[Len(lines)].seq \in Nat
  BY <1>1, LinesTyped DEF LinesInv
<1> QED
  BY <1>1, <1>2 DEF LinesInv, HashOfLast, NextSeq, Hashes, Old

\* A line with other fields.
Filled(line, id, seq, prev, m) ==
    [line EXCEPT !.id = id, !.seq = seq, !.prev = prev, !.month = m]

LEMMA LineFilled ==
    ASSUME NEW line \in Lines, NEW id \in Nat, NEW seq \in Nat, NEW prev \in Hashes,
           NEW m \in Nat
    PROVE  LET new == Filled(line, id, seq, prev, m)
           IN /\ new \in Lines
              /\ new.id = id /\ new.seq = seq /\ new.prev = prev /\ new.month = m
              /\ new.json = line.json /\ new.ended = line.ended
PROOF
  BY DEF Lines, Filled

LEMMA LineCut ==
    ASSUME NEW line \in Lines, NEW whole \in BOOLEAN
    PROVE  LET new == [line EXCEPT !.json = whole, !.ended = FALSE]
           IN /\ new \in Lines
              /\ new.id = line.id /\ new.seq = line.seq /\ new.prev = line.prev
              /\ new.month = line.month
PROOF
  BY DEF Lines

\* A new line is typed, whether or not it is written whole.
IsNext(line, w) ==
    /\ line \in Lines
    /\ line.id = fresh
    /\ line.seq = writer[w].seq
    /\ line.prev = writer[w].prev
    /\ line.month = month

LEMMA NewLineTyped ==
    ASSUME Inv, NEW w \in Writers
    PROVE  /\ IsNext(NewLine(w), w) /\ NewLine(w).json /\ NewLine(w).ended
           /\ \A whole \in BOOLEAN :
                IsNext([NewLine(w) EXCEPT !.json = whole, !.ended = FALSE], w)
PROOF
<1>1. writer[w] \in Writing /\ fresh \in Nat /\ month \in Nat
  BY DEF Inv, TypeInv
<1>2. writer[w].seq \in Nat /\ writer[w].prev \in Hashes
  BY <1>1 DEF Writing
<1>3. Genesis \in Lines /\ Genesis.json = TRUE /\ Genesis.ended = TRUE
  BY DEF Genesis, Lines, Hashes
<1>4. IsNext(NewLine(w), w) /\ NewLine(w).json = TRUE /\ NewLine(w).ended = TRUE
  <2>1. NewLine(w) = Filled(Genesis, fresh, writer[w].seq, writer[w].prev, month)
    BY DEF NewLine, Filled
  <2>2. PICK id \in Nat, seq \in Nat, prev \in Hashes, m \in Nat :
            id = fresh /\ seq = writer[w].seq /\ prev = writer[w].prev /\ m = month
    BY <1>1, <1>2
  <2> DEFINE new == Filled(Genesis, id, seq, prev, m)
  <2>3. /\ new \in Lines
        /\ new.id = id /\ new.seq = seq /\ new.prev = prev /\ new.month = m
        /\ new.json = Genesis.json /\ new.ended = Genesis.ended
    BY <1>3, LineFilled
  <2>4. NewLine(w) = new
    BY <2>1, <2>2
  <2> HIDE DEF new
  <2> QED
    BY <1>3, <2>2, <2>3, <2>4 DEF IsNext
<1>5. ASSUME NEW whole \in BOOLEAN
      PROVE  IsNext([NewLine(w) EXCEPT !.json = whole, !.ended = FALSE], w)
  <2> DEFINE new == [NewLine(w) EXCEPT !.json = whole, !.ended = FALSE]
  <2>1. NewLine(w) \in Lines
    BY <1>4 DEF IsNext
  <2>2. /\ new \in Lines
        /\ new.id = NewLine(w).id /\ new.seq = NewLine(w).seq
        /\ new.prev = NewLine(w).prev /\ new.month = NewLine(w).month
    BY <2>1, LineCut
  <2> HIDE DEF new
  <2>3. IsNext(new, w)
    BY <1>4, <2>2 DEF IsNext
  <2> QED
    BY <2>3 DEF new
<1> QED
  BY <1>4, <1>5

LEMMA InitKeepsInv == Init => Inv
PROOF
<1> SUFFICES ASSUME Init PROVE Inv
  OBVIOUS
<1> USE DEF Init
<1>1. Genesis \in Lines /\ Genesis.id = 0 /\ Genesis.prev = None
  BY DEF Genesis, Lines, Hashes
<1> HIDE DEF Init
<1>2. /\ lines = <<Genesis>> /\ lines \in Seq(Lines) /\ Len(lines) = 1
      /\ lines[1] = Genesis /\ fresh = 1
  BY <1>1 DEF Init
<1>3. LinesInv
  BY <1>1, <1>2 DEF LinesInv, Old
<1>4. Idle \in Writing /\ Idle.prev = None
  BY DEF Idle, Writing, Hashes
<1>5. \A w \in Writers : writer[w] = Idle
  BY DEF Init
<1>6. WritersInv
  BY <1>4, <1>5 DEF WritersInv, Old
<1>7. TypeInv
  BY <1>2, <1>4 DEF Init, TypeInv, Hashes
<1> QED
  BY <1>3, <1>6, <1>7 DEF Inv

\* What a step does to the files and to the commands keeps both parts apart.
LEMMA WritersStayOld ==
    ASSUME Inv, NEW w \in Writers, writer' \in [Writers -> Writing],
           \A v \in Writers \ {w} : writer'[v] = writer[v],
           \/ writer'[w].prev = writer[w].prev
           \/ writer'[w].prev = None
           \/ writer'[w].prev = HashOfLast,
           fresh' = fresh \/ fresh' = fresh + 1
    PROVE  WritersInv'
PROOF
<1>1. fresh \in Nat /\ \A v \in Writers : writer[v].prev \in Hashes
  BY DEF Inv, TypeInv, Writing
<1>2. \A h \in Hashes : Old(h, fresh) => Old(h, fresh')
  BY <1>1 DEF Old, Hashes
<1>3. \A v \in Writers : Old(writer[v].prev, fresh')
  BY <1>1, <1>2 DEF Inv, WritersInv
<1>4. Old(HashOfLast, fresh') /\ Old(None, fresh')
  BY <1>2, HashOfLastGivenOut DEF Inv, Old
<1> QED
  BY <1>3, <1>4 DEF WritersInv

LEMMA NextKeepsInv == Inv /\ [Next]_vars => Inv'
PROOF
<1> SUFFICES ASSUME Inv, [Next]_vars PROVE Inv'
  OBVIOUS
<1>1. /\ writer \in [Writers -> Writing] /\ \A v \in Writers : writer[v] \in Writing
      /\ head \in Hashes /\ month \in Nat /\ fresh \in Nat
      /\ returned \in SUBSET Nat /\ met \in SUBSET FaultKinds
      /\ LinesInv /\ WritersInv
  BY DEF Inv, TypeInv
<1>2. HashOfLast \in Hashes /\ NextSeq \in Nat
  BY <1>1, HashOfLastGivenOut
<1>3. Idle \in Writing /\ Idle.prev = None
  BY DEF Idle, Writing, Hashes
<1>4. ASSUME UNCHANGED <<lines, fresh>>
      PROVE  LinesInv'
  BY <1>1, <1>4 DEF LinesInv
<1>5. ASSUME UNCHANGED <<writer, fresh>>
      PROVE  WritersInv' /\ writer' \in [Writers -> Writing]
  BY <1>1, <1>5 DEF WritersInv
<1>6. \A f \in SUBSET FaultKinds : Meet(f) => met' \in SUBSET FaultKinds
  BY <1>1 DEF Meet
<1>7. Misfiling \in SUBSET FaultKinds
  BY DEF Misfiling, FaultKinds
<1>8. LinesInv' => lines' \in Seq(Lines)
  BY DEF LinesInv
<1> DEFINE PartsKept == /\ LinesInv' /\ WritersInv'
                        /\ writer' \in [Writers -> Writing]
                        /\ head' \in Hashes /\ month' \in Nat /\ fresh' \in Nat
                        /\ returned' \in SUBSET Nat /\ met' \in SUBSET FaultKinds
<1> SUFFICES PartsKept
  BY <1>8 DEF Inv, TypeInv
<1>10. ASSUME NEW w \in Writers, ReadSeq(w)
       PROVE  PartsKept
  <2> USE <1>10 DEF ReadSeq
  <2>1. PICK x \in Writing : x.prev = None /\ writer' = [writer EXCEPT ![w] = x]
    <3>1. [Idle EXCEPT !.pc = "seq", !.seq = NextSeq] \in Writing
      BY <1>2, <1>3 DEF Writing
    <3>2. [Idle EXCEPT !.pc = "seq", !.seq = NextSeq].prev = None
      BY <1>3 DEF Writing
    <3> QED
      BY <3>1, <3>2
  <2>2. writer' \in [Writers -> Writing] /\ WritersInv'
    BY <1>1, <2>1, WritersStayOld
  <2>3. met' \in SUBSET FaultKinds
    <3>1. {} \in SUBSET FaultKinds /\ {"overlap"} \in SUBSET FaultKinds
      BY DEF FaultKinds
    <3> QED
      BY <1>6, <3>1
  <2> QED
    BY <1>1, <1>4, <2>2, <2>3
<1>11. ASSUME NEW w \in Writers, ReadPrev(w)
       PROVE  PartsKept
  <2> USE <1>11 DEF ReadPrev
  <2>1. PICK x \in Writing : x.prev = HashOfLast /\ writer' = [writer EXCEPT ![w] = x]
    <3>1. [writer[w] EXCEPT !.pc = "prev", !.prev = HashOfLast] \in Writing
      BY <1>1, <1>2 DEF Writing
    <3>2. [writer[w] EXCEPT !.pc = "prev", !.prev = HashOfLast].prev = HashOfLast
      BY <1>1 DEF Writing
    <3>3. writer' = [writer EXCEPT ![w] =
                        [writer[w] EXCEPT !.pc = "prev", !.prev = HashOfLast]]
      BY <1>1 DEF Writing
    <3> QED
      BY <3>1, <3>2, <3>3
  <2>2. UNCHANGED <<lines, head, month, fresh, returned, met>>
    OBVIOUS
  <2> HIDE <1>11 DEF ReadPrev
  <2>3. writer' \in [Writers -> Writing] /\ WritersInv'
    <3>1. /\ writer' \in [Writers -> Writing] /\ writer'[w].prev = x.prev
          /\ \A v \in Writers \ {w} : writer'[v] = writer[v]
      BY <1>1, <2>1
    <3> QED
      BY <2>1, <2>2, <3>1, WritersStayOld
  <2> QED
    BY <1>1, <1>4, <2>2, <2>3
<1>12. ASSUME NEW w \in Writers, Write(w)
       PROVE  PartsKept
  <2> USE <1>12 DEF Write
  <2>1. LinesInv'
    <3>1. /\ NewLine(w) \in Lines /\ NewLine(w).id = fresh
          /\ Old(NewLine(w).prev, fresh)
      BY <1>1, NewLineTyped DEF WritersInv, IsNext
    <3> QED
      BY <1>1, <3>1, AppendKeepsLines
  <2>2. PICK x \in Writing : x.prev = writer[w].prev /\ writer' = [writer EXCEPT ![w] = x]
    <3>1. [writer[w] EXCEPT !.pc = "head"] \in Writing
      BY <1>1 DEF Writing
    <3>2. [writer[w] EXCEPT !.pc = "head"].prev = writer[w].prev
      BY <1>1 DEF Writing
    <3> QED
      BY <3>1, <3>2
  <2>3. writer' \in [Writers -> Writing] /\ WritersInv'
    BY <1>1, <2>2, WritersStayOld
  <2>4. met' \in SUBSET FaultKinds
    BY <1>6, <1>7
  <2> QED
    BY <1>1, <2>1, <2>3, <2>4
<1>13. ASSUME NEW w \in Writers, WriteShort(w)
       PROVE  PartsKept
  <2> USE <1>13 DEF WriteShort
  <2>1. LinesInv'
    <3>1. PICK whole \in BOOLEAN :
            lines' = Appended([NewLine(w) EXCEPT !.json = whole, !.ended = FALSE])
      OBVIOUS
    <3>2. PICK x \in Lines : /\ x.id = fresh /\ x.prev = writer[w].prev
                            /\ lines' = Appended(x)
      BY <3>1, NewLineTyped DEF IsNext
    <3>3. Old(x.prev, fresh)
      BY <1>1, <3>2 DEF WritersInv
    <3> QED
      BY <1>1, <3>2, <3>3, AppendKeepsLines
  <2>2. writer' \in [Writers -> Writing] /\ WritersInv'
    BY <1>1, <1>3, WritersStayOld
  <2>3. met' \in SUBSET FaultKinds
    <3>1. ({"short_write"} \cup Misfiling) \in SUBSET FaultKinds
      BY <1>7 DEF FaultKinds
    <3> QED
      BY <1>6, <3>1
  <2> QED
    BY <1>1, <2>1, <2>2, <2>3
<1>14. ASSUME NEW w \in Writers, ReadHead(w)
       PROVE  PartsKept
  <2> USE <1>14 DEF ReadHead
  <2>1. PICK x \in Writing : x.prev = writer[w].prev /\ writer' = [writer EXCEPT ![w] = x]
    <3>1. [writer[w] EXCEPT !.pc = "save", !.head = HashOfLast] \in Writing
      BY <1>1, <1>2 DEF Writing
    <3>2. [writer[w] EXCEPT !.pc = "save", !.head = HashOfLast].prev = writer[w].prev
      BY <1>1 DEF Writing
    <3>3. writer' = [writer EXCEPT ![w] =
                        [writer[w] EXCEPT !.pc = "save", !.head = HashOfLast]]
      BY <1>1 DEF Writing
    <3> QED
      BY <3>1, <3>2, <3>3
  <2>2. UNCHANGED <<lines, head, month, fresh, returned, met>>
    OBVIOUS
  <2> HIDE <1>14 DEF ReadHead
  <2>3. writer' \in [Writers -> Writing] /\ WritersInv'
    <3>1. /\ writer' \in [Writers -> Writing] /\ writer'[w].prev = x.prev
          /\ \A v \in Writers \ {w} : writer'[v] = writer[v]
      BY <1>1, <2>1
    <3> QED
      BY <2>1, <2>2, <3>1, WritersStayOld
  <2> QED
    BY <1>1, <1>4, <2>2, <2>3
<1>15. ASSUME NEW w \in Writers, SaveHead(w)
       PROVE  PartsKept
  <2> USE <1>15 DEF SaveHead
  <2>1. writer' \in [Writers -> Writing] /\ WritersInv'
    BY <1>1, <1>3, WritersStayOld
  <2>2. head' \in Hashes
    BY <1>1 DEF Writing
  <2> QED
    BY <1>1, <1>4, <2>1, <2>2
<1>16. ASSUME NEW w \in Writers, Killed(w)
       PROVE  PartsKept
  <2> USE <1>16 DEF Killed
  <2>1. writer' \in [Writers -> Writing] /\ WritersInv'
    BY <1>1, <1>3, WritersStayOld
  <2>2. met' \in SUBSET FaultKinds
    <3>1. {"killed"} \in SUBSET FaultKinds
      BY DEF FaultKinds
    <3> QED
      BY <1>6, <3>1
  <2> QED
    BY <1>1, <1>4, <2>1, <2>2
<1>17. CASE NextMonth
  BY <1>1, <1>4, <1>5, <1>17 DEF NextMonth
<1>18. CASE ClockBack
  BY <1>1, <1>4, <1>5, <1>18 DEF ClockBack
<1>19. CASE EditLine
  <2> USE <1>19 DEF EditLine
  <2>1. PICK i \in DOMAIN lines :
            /\ lines' = [lines EXCEPT ![i].id = fresh]
            /\ Meet(IF i = Len(lines) THEN {"tail_edited"} ELSE {"line_edited"})
    OBVIOUS
  <2>2. i \in 1 .. Len(lines) /\ lines \in Seq(Lines)
    BY <1>1, LenProperties DEF LinesInv
  <2>3. LinesInv'
    BY <1>1, <2>1, <2>2, LineEdited, EditKeepsLines
  <2>4. met' \in SUBSET FaultKinds
    <3>1. {"tail_edited"} \in SUBSET FaultKinds /\ {"line_edited"} \in SUBSET FaultKinds
      BY DEF FaultKinds
    <3> QED
      BY <1>6, <2>1, <3>1
  <2>5. writer' \in [Writers -> Writing] /\ WritersInv'
    <3>1. CASE Writers = {}
      BY <1>1, <3>1 DEF WritersInv
    <3>2. CASE Writers # {}
      BY <1>1, <3>2, WritersStayOld
    <3> QED
      BY <3>1, <3>2
  <2> QED
    BY <1>1, <2>3, <2>4, <2>5
<1>20. CASE LoseLine
  <2> USE <1>20 DEF LoseLine
  <2>1. PICK i \in 1 .. Len(lines) - 1 :
            lines' = SubSeq(lines, 1, i - 1) \o SubSeq(lines, i + 1, Len(lines))
    OBVIOUS
  <2>2. i \in 1 .. Len(lines) /\ Len(lines) > 1 /\ lines \in Seq(Lines)
    BY <1>1, LenProperties DEF LinesInv
  <2>3. Removed(lines', i)
    BY <2>1, <2>2, LineRemoved
  <2>4. LinesInv'
    BY <1>1, <2>2, <2>3, RemovalKeepsLines
  <2>5. met' \in SUBSET FaultKinds
    <3>1. {"line_lost"} \in SUBSET FaultKinds
      BY DEF FaultKinds
    <3> QED
      BY <1>6, <3>1
  <2> QED
    BY <1>1, <1>5, <2>4, <2>5
<1>21. CASE LoseTail
  <2> USE <1>21 DEF LoseTail
  <2>1. Len(lines) \in 1 .. Len(lines) /\ Len(lines) > 1 /\ lines \in Seq(Lines)
    BY <1>1, LenProperties DEF LinesInv
  <2>2. Removed(lines', Len(lines))
    BY <2>1, TailRemoved
  <2>3. LinesInv'
    BY <1>1, <2>1, <2>2, RemovalKeepsLines
  <2>4. met' \in SUBSET FaultKinds
    <3>1. {"tail_lost"} \in SUBSET FaultKinds
      BY DEF FaultKinds
    <3> QED
      BY <1>6, <3>1
  <2> QED
    BY <1>1, <1>5, <2>3, <2>4
<1>22. CASE UNCHANGED vars
  BY <1>1, <1>4, <1>5, <1>22 DEF vars
<1> QED
  BY <1>10, <1>11, <1>12, <1>13, <1>14, <1>15, <1>16, <1>17, <1>18, <1>19, <1>20, <1>21,
     <1>22 DEF Next
-----------------------------------------------------------------------------
\* Damage.

\* One line that breaks the chain is enough, and a chain that verifies has none.
LEMMA BreakShows ==
    ASSUME lines' \in Seq(Lines), NEW i \in 1 .. Len(lines'), Breaks(i)'
    PROVE  ~ChainVerifies'
PROOF
<1>1. i \in DOMAIN lines'
  BY LenProperties
<1> QED
  BY <1>1 DEF ChainVerifies, ChainBreaks

LEMMA WholeChain ==
    ASSUME LinesInv, ChainVerifies, NEW i \in 1 .. Len(lines)
    PROVE  /\ lines[i].seq = i - 1
           /\ lines[i].prev = IF i = 1 THEN None ELSE lines[i - 1].id
PROOF
<1>1. i \in DOMAIN lines
  BY LenProperties DEF LinesInv
<1> QED
  BY <1>1 DEF ChainVerifies, ChainBreaks, Breaks

LEMMA BrokenChain ==
    ASSUME LinesInv, ~ChainVerifies
    PROVE  \E i \in 1 .. Len(lines) : Breaks(i)
PROOF
<1>1. lines # <<>> /\ DOMAIN lines = 1 .. Len(lines)
  BY LenProperties DEF LinesInv
<1> QED
  BY <1>1 DEF ChainVerifies, ChainBreaks

\* A hash that was given out is not a new one.
LEMMA FreshIsNew ==
    ASSUME LinesInv, fresh \in Nat, NEW i \in 1 .. Len(lines)
    PROVE  lines[i].id # fresh /\ lines[i].prev # fresh
PROOF
<1>1. /\ lines[i].id \in Nat /\ lines[i].prev \in Hashes
      /\ lines[i].id < fresh /\ Old(lines[i].prev, fresh)
  BY LinesTyped DEF LinesInv
<1>2. None # fresh
  BY JournalAssumption
<1> QED
  BY <1>1, <1>2 DEF Hashes, Old

\* An append hides nothing: it goes behind the newest line, which leaves every line as
\* it was, or the chain breaks where it went.
LEMMA AppendHidesNothing ==
    ASSUME LinesInv, fresh \in Nat, NEW line \in Lines, line.id = fresh,
           lines' = Appended(line)
    PROVE  ~ChainVerifies' \/ (~HistoryDamaged /\ ChainVerifies)
PROOF
<1>1. Len(lines) \in Nat /\ lines \in Seq(Lines)
  BY LenProperties DEF LinesInv
<1>2. PICK k \in 0 .. Len(lines) : Inserted(lines', line, k) \/ Glued(lines', line, k)
  BY <1>1, AppendedCases
<1>3. CASE Inserted(lines', line, k) /\ k < Len(lines)
  <2>1. /\ k + 1 \in 1 .. Len(lines) /\ k + 2 \in 1 .. Len(lines')
        /\ k + 2 \in 1 .. Len(lines) + 1 /\ k + 1 \in 1 .. Len(lines) + 1
        /\ k + 2 # 1 /\ (k + 2) - 1 = k + 1 /\ k + 2 # k + 1
        /\ ~(k + 2 <= k) /\ ~(k + 1 <= k)
    BY <1>1, <1>3 DEF Inserted
  <2>2. lines'[k + 2] = lines[k + 1] /\ lines'[k + 1] = line /\ lines' \in Seq(Lines)
    BY <1>3, <2>1 DEF Inserted
  <2>3. lines[k + 1].prev # fresh
    BY <2>1, FreshIsNew
  <2>4. Breaks(k + 2)'
    BY <2>1, <2>2, <2>3 DEF Breaks
  <2> QED
    BY <2>1, <2>2, <2>4, BreakShows
<1>4. CASE Inserted(lines', line, k) /\ k = Len(lines)
  <2>1. /\ lines' \in Seq(Lines) /\ DOMAIN lines' = 1 .. Len(lines) + 1
        /\ Len(lines') = Len(lines) + 1
    BY <1>4, LenProperties DEF Inserted
  <2>2. \A i \in 1 .. Len(lines) : lines'[i] = lines[i] /\ i \in 1 .. Len(lines')
    BY <1>1, <1>4, <2>1 DEF Inserted
  <2>3. ~HistoryDamaged
    BY <1>1, <2>1, <2>2 DEF HistoryDamaged
  <2>4. ASSUME ~ChainVerifies
        PROVE  ~ChainVerifies'
    <3>1. PICK i \in 1 .. Len(lines) : Breaks(i)
      BY <2>4, BrokenChain
    <3>2. i # 1 => i - 1 \in 1 .. Len(lines)
      BY <1>1
    <3>3. Breaks(i)'
      BY <2>2, <3>1, <3>2 DEF Breaks
    <3> QED
      BY <2>1, <2>2, <3>3, BreakShows
  <2> QED
    BY <2>3, <2>4
<1>5. CASE Glued(lines', line, k)
  <2>1. k \in 1 .. Len(lines') /\ k \in 1 .. Len(lines) /\ lines' \in Seq(Lines)
    BY <1>1, <1>5 DEF Glued
  <2>2. ~lines'[k].json
    BY <1>5, <2>1 DEF Glued, Lines
  <2>3. Breaks(k)'
    BY <2>2 DEF Breaks
  <2> QED
    BY <2>1, <2>3, BreakShows
<1> QED
  BY <1>1, <1>2, <1>3, <1>4, <1>5

\* The next line has the hash of what was edited.
LEMMA EditBreaks ==
    ASSUME LinesInv, fresh \in Nat, NEW i \in 1 .. Len(lines) - 1, Edited(lines', i)
    PROVE  ~ChainVerifies'
PROOF
<1>1. Len(lines) \in Nat /\ lines \in Seq(Lines)
  BY LenProperties DEF LinesInv
<1>2. /\ i \in 1 .. Len(lines) /\ i + 1 \in 1 .. Len(lines) /\ (i + 1) - 1 = i
      /\ i + 1 # 1 /\ i + 1 # i
  BY <1>1
<1>3. lines' \in Seq(Lines) /\ i + 1 \in 1 .. Len(lines') /\ lines'[i + 1] = lines[i + 1]
  BY <1>2 DEF Edited
<1>4. lines'[i].id = fresh
  <2>1. lines[i] \in Lines
    BY <1>1, <1>2, LinesTyped
  <2> QED
    BY <1>2, <2>1 DEF Edited, Lines
<1>5. lines[i + 1].prev # fresh
  BY <1>2, FreshIsNew
<1>6. Breaks(i + 1)'
  BY <1>2, <1>3, <1>4, <1>5 DEF Breaks
<1> QED
  BY <1>3, <1>6, BreakShows

\* The line that follows has the wrong number.
LEMMA LossBreaks ==
    ASSUME LinesInv, ChainVerifies, NEW i \in 1 .. Len(lines) - 1, Removed(lines', i)
    PROVE  ~ChainVerifies'
PROOF
<1>1. Len(lines) \in Nat /\ lines \in Seq(Lines)
  BY LenProperties DEF LinesInv
<1>2. i + 1 \in 1 .. Len(lines) /\ (i + 1) - 1 # i - 1 /\ ~(i < i)
  BY <1>1
<1>3. lines' \in Seq(Lines) /\ i \in 1 .. Len(lines') /\ lines'[i] = lines[i + 1]
  BY <1>1, <1>2 DEF Removed
<1>4. lines[i + 1].seq = (i + 1) - 1
  BY <1>2, WholeChain
<1>5. Breaks(i)'
  BY <1>2, <1>3, <1>4 DEF Breaks
<1> QED
  BY <1>3, <1>5, BreakShows

\* Damage that spares the newest line breaks the chain.
LEMMA HistoryShows ==
    ASSUME Inv, [Next]_vars, ChainVerifies, HistoryDamaged
    PROVE  ~ChainVerifies'
PROOF
<1>1. LinesInv /\ fresh \in Nat /\ Len(lines) \in Nat /\ DOMAIN lines = 1 .. Len(lines)
  BY LenProperties DEF Inv, TypeInv
<1>2. ~UNCHANGED lines
  BY <1>1 DEF HistoryDamaged
<1>3. ASSUME NEW w \in Writers, Write(w)
      PROVE  ~ChainVerifies'
  BY <1>1, <1>3, NewLineTyped, AppendHidesNothing DEF Write, IsNext
<1>4. ASSUME NEW w \in Writers, WriteShort(w)
      PROVE  ~ChainVerifies'
  <2>1. PICK whole \in BOOLEAN :
          lines' = Appended([NewLine(w) EXCEPT !.json = whole, !.ended = FALSE])
    BY <1>4 DEF WriteShort
  <2>2. PICK x \in Lines : x.id = fresh /\ lines' = Appended(x)
    BY <2>1, NewLineTyped DEF IsNext
  <2> QED
    BY <1>1, <2>2, AppendHidesNothing
<1>5. ASSUME EditLine
      PROVE  ~ChainVerifies'
  <2>1. PICK i \in 1 .. Len(lines) : lines' = [lines EXCEPT ![i].id = fresh]
    BY <1>1, <1>5 DEF EditLine
  <2>2. Edited(lines', i)
    BY <1>1, <2>1, LineEdited DEF LinesInv
  <2>3. DOMAIN lines' = 1 .. Len(lines)
    BY <2>2, LenProperties DEF Edited
  <2>4. i # Len(lines)
    BY <1>1, <2>2, <2>3 DEF HistoryDamaged, Edited
  <2>5. i \in 1 .. Len(lines) - 1
    <3>1. Len(lines) \in Nat
      BY <1>1
    <3> QED
      BY <2>4, <3>1
  <2> QED
    BY <1>1, <2>2, <2>5, EditBreaks
<1>6. ASSUME LoseLine
      PROVE  ~ChainVerifies'
  <2>1. PICK i \in 1 .. Len(lines) - 1 :
          lines' = SubSeq(lines, 1, i - 1) \o SubSeq(lines, i + 1, Len(lines))
    BY <1>6 DEF LoseLine
  <2>2. i \in 1 .. Len(lines)
    BY <1>1
  <2>3. Removed(lines', i)
    BY <1>1, <2>1, <2>2, LineRemoved DEF LinesInv
  <2> QED
    BY <1>1, <2>3, LossBreaks
<1>7. ~LoseTail
  <2> SUFFICES ASSUME LoseTail PROVE FALSE
    OBVIOUS
  <2>1. Removed(lines', Len(lines))
    BY <1>1, TailRemoved DEF LoseTail, LinesInv
  <2>2. DOMAIN lines' = 1 .. Len(lines) - 1
    BY <1>1, <2>1, LenProperties DEF Removed
  <2>3. \A i \in 1 .. Len(lines) - 1 : i < Len(lines) /\ lines'[i] = lines[i]
    BY <1>1, <2>1 DEF Removed
  <2> QED
    BY <2>2, <2>3 DEF HistoryDamaged
<1> QED
  BY <1>2, <1>3, <1>4, <1>5, <1>6, <1>7
     DEF Next, vars, ReadSeq, ReadPrev, ReadHead, SaveHead, Killed, NextMonth, ClockBack

\* What commands append does not mend a chain.
LEMMA BreakStays ==
    ASSUME Inv, [Next]_vars, ~ChainVerifies, ~Damage
    PROVE  ~ChainVerifies'
PROOF
<1>1. LinesInv /\ fresh \in Nat
  BY DEF Inv, TypeInv
<1>2. CASE UNCHANGED lines
  BY <1>2 DEF ChainVerifies, ChainBreaks, Breaks
<1>3. ASSUME NEW w \in Writers, Write(w)
      PROVE  ~ChainVerifies'
  BY <1>1, <1>3, NewLineTyped, AppendHidesNothing DEF Write, IsNext
<1>4. ASSUME NEW w \in Writers, WriteShort(w)
      PROVE  ~ChainVerifies'
  <2>1. PICK whole \in BOOLEAN :
          lines' = Appended([NewLine(w) EXCEPT !.json = whole, !.ended = FALSE])
    BY <1>4 DEF WriteShort
  <2>2. PICK x \in Lines : x.id = fresh /\ lines' = Appended(x)
    BY <2>1, NewLineTyped DEF IsNext
  <2> QED
    BY <1>1, <2>2, AppendHidesNothing
<1> QED
  BY <1>2, <1>3, <1>4
     DEF Damage, Next, vars, ReadSeq, ReadPrev, ReadHead, SaveHead, Killed, NextMonth,
         ClockBack

\* Any one edit or loss shows: in the chain, or in journal_head if it is the newest
\* line that is hit.
LEMMA OneDamageShows ==
    ASSUME Inv, Verifies, Damage
    PROVE  ~Verifies'
PROOF
<1>1. LinesInv /\ fresh \in Nat /\ Len(lines) \in Nat /\ DOMAIN lines = 1 .. Len(lines)
  BY LenProperties DEF Inv, TypeInv
<1>2. /\ ChainVerifies /\ lines # <<>> /\ Len(lines) \in 1 .. Len(lines)
      /\ head = lines[Len(lines)].id
  BY <1>1 DEF Verifies, ChainVerifies, HashOfLast, LinesInv
<1>3. CASE EditLine
  <2>1. PICK i \in 1 .. Len(lines) : lines' = [lines EXCEPT ![i].id = fresh]
    BY <1>1, <1>3 DEF EditLine
  <2>2. Edited(lines', i)
    BY <1>1, <2>1, LineEdited DEF LinesInv
  <2>3. CASE i \in 1 .. Len(lines) - 1
    BY <1>1, <1>2, <2>2, <2>3, EditBreaks DEF Verifies
  <2>4. CASE i = Len(lines)
    <3>1. lines[i] \in Lines
      BY <1>1, LinesTyped DEF LinesInv
    <3>2. Len(lines') = Len(lines) /\ lines'[i].id = fresh
      BY <1>1, <2>2, <3>1 DEF Edited, Lines
    <3>3. lines' # <<>>
      BY <1>1, <1>2, <3>2
    <3>4. HashOfLast' = fresh
      BY <2>4, <3>2, <3>3 DEF HashOfLast
    <3>5. head' = head /\ head # fresh
      BY <1>1, <1>2, <1>3, FreshIsNew DEF EditLine
    <3> QED
      BY <3>4, <3>5 DEF Verifies
  <2>5. Len(lines) \in Nat
    BY <1>1
  <2>6. i \in 1 .. Len(lines) - 1 \/ i = Len(lines)
    BY <2>5
  <2> QED
    BY <2>3, <2>4, <2>6
<1>4. CASE LoseLine
  <2>1. PICK i \in 1 .. Len(lines) - 1 :
          lines' = SubSeq(lines, 1, i - 1) \o SubSeq(lines, i + 1, Len(lines))
    BY <1>4 DEF LoseLine
  <2>2. i \in 1 .. Len(lines)
    BY <1>1
  <2>3. Removed(lines', i)
    BY <1>1, <2>1, <2>2, LineRemoved DEF LinesInv
  <2> QED
    BY <1>1, <1>2, <2>3, LossBreaks DEF Verifies
<1>5. CASE LoseTail
  <2> DEFINE m == Len(lines) - 1
  <2>1. Removed(lines', Len(lines)) /\ head' = head
    BY <1>1, <1>5, TailRemoved DEF LoseTail, LinesInv
  <2>2. m \in 1 .. m /\ m \in 1 .. Len(lines) /\ m < Len(lines) /\ m # Len(lines)
    <3>1. Len(lines) \in Nat /\ Len(lines) > 1
      BY <1>1, <1>5 DEF LoseTail
    <3> QED
      BY <3>1
  <2>3. Len(lines') = m /\ lines'[m] = lines[m]
    BY <2>1, <2>2 DEF Removed
  <2>4. lines' # <<>>
    BY <2>2, <2>3
  <2>5. HashOfLast' = lines[m].id
    BY <2>3, <2>4 DEF HashOfLast
  <2>6. lines[m].id # lines[Len(lines)].id
    BY <1>1, <1>2, <2>2 DEF LinesInv
  <2> QED
    BY <1>2, <2>1, <2>5, <2>6 DEF Verifies
<1> QED
  BY <1>3, <1>4, <1>5 DEF Damage
-----------------------------------------------------------------------------
\* Commands that take turns.

OutOfTurn == {"overlap", "misfiled", "tail_edited", "tail_lost"}

Last == lines[Len(lines)]

\* While no command overlapped with another, no line went to an earlier file and the
\* newest line was left alone, the newest line has the highest number, and a command that
\* has read it will write the next one.
SequentialInv ==
    met \cap OutOfTurn = {} =>
        /\ \A v, w \in Writers : writer[v].pc # "idle" /\ writer[w].pc # "idle" => v = w
        /\ Last.seq >= Len(lines) - 1
        /\ \A w \in Writers :
            writer[w].pc \in {"seq", "prev"} => writer[w].seq = Last.seq + 1

\* While only kills were met the chain is whole, and the commands hold its tail.
OrderlyInv ==
    met \subseteq {"killed"} =>
        /\ ChainVerifies
        /\ \A i \in 1 .. Len(lines) : lines[i].ended
        /\ \A w \in Writers : /\ writer[w].pc = "prev" => writer[w].prev = Last.id
                              /\ writer[w].pc = "save" => writer[w].head = Last.id

\* AcknowledgedIsKept between commands too, whatever journal_head says.
KeptInv ==
    /\ met \cap {"tail_edited", "tail_lost"} = {}
    /\ "line_lost" \in met => met \cap {"overlap", "misfiled"} = {}
    /\ ChainVerifies
    => returned \subseteq {lines[i].id : i \in DOMAIN lines}

\* Faults are never forgotten.
LEMMA MetStays ==
    ASSUME [Next]_vars
    PROVE  met \subseteq met'
PROOF
  BY DEF Next, vars, Meet, ReadSeq, ReadPrev, Write, WriteShort, ReadHead, SaveHead, Killed,
         NextMonth, ClockBack, EditLine, LoseLine, LoseTail

\* The newest line is one of the journal.
LEMMA LastIsALine ==
    ASSUME LinesInv
    PROVE  /\ lines # <<>> /\ Len(lines) \in Nat /\ Len(lines) \in 1 .. Len(lines)
           /\ HashOfLast = Last.id /\ NextSeq = Last.seq + 1
           /\ Last.id \in Nat /\ Last.seq \in Nat
PROOF
<1>1. lines # <<>> /\ Len(lines) \in Nat /\ Len(lines) \in 1 .. Len(lines)
  BY LenProperties DEF LinesInv
<1>2. lines[Len(lines)].id \in Nat /\ lines[Len(lines)].seq \in Nat
  BY <1>1, LinesTyped DEF LinesInv
<1> QED
  BY <1>1, <1>2 DEF HashOfLast, NextSeq, Last

\* What a step of a command does to what it knows, and that it leaves the others alone.
LEMMA WriterSteps ==
    ASSUME Inv, NEW w \in Writers,
           \/ ReadSeq(w) \/ ReadPrev(w) \/ Write(w) \/ WriteShort(w) \/ ReadHead(w)
           \/ SaveHead(w) \/ Killed(w)
    PROVE  /\ ReadSeq(w) => writer'[w].pc = "seq" /\ writer'[w].seq = NextSeq
           /\ ReadPrev(w) => /\ writer'[w].pc = "prev" /\ writer'[w].prev = HashOfLast
                             /\ writer'[w].seq = writer[w].seq
           /\ Write(w) => writer'[w].pc = "head"
           /\ ReadHead(w) => writer'[w].pc = "save" /\ writer'[w].head = HashOfLast
           /\ WriteShort(w) \/ SaveHead(w) \/ Killed(w) => writer'[w].pc = "idle"
           /\ \A v \in Writers \ {w} : writer'[v] = writer[v]
PROOF
<1>1. writer \in [Writers -> Writing] /\ writer[w] \in Writing
  BY DEF Inv, TypeInv
<1>2. \A v \in Writers \ {w} : writer'[v] = writer[v]
  BY <1>1 DEF ReadSeq, ReadPrev, Write, WriteShort, ReadHead, SaveHead, Killed
<1>3. ReadSeq(w) => writer'[w].pc = "seq" /\ writer'[w].seq = NextSeq
  BY <1>1 DEF ReadSeq, Idle
<1>4. ReadPrev(w) => /\ writer'[w].pc = "prev" /\ writer'[w].prev = HashOfLast
                     /\ writer'[w].seq = writer[w].seq
  BY <1>1 DEF ReadPrev, Writing
<1>5. Write(w) => writer'[w].pc = "head"
  BY <1>1 DEF Write, Writing
<1>6. ReadHead(w) => writer'[w].pc = "save" /\ writer'[w].head = HashOfLast
  BY <1>1 DEF ReadHead, Writing
<1>7. WriteShort(w) \/ SaveHead(w) \/ Killed(w) => writer'[w].pc = "idle"
  <2>1. writer' = [writer EXCEPT ![w] = Idle] => writer'[w] = Idle /\ Idle.pc = "idle"
    BY <1>1 DEF Idle
  <2>2. WriteShort(w) \/ SaveHead(w) \/ Killed(w) => writer' = [writer EXCEPT ![w] = Idle]
    BY DEF WriteShort, SaveHead, Killed
  <2> QED
    BY <2>1, <2>2
<1> QED
  BY <1>2, <1>3, <1>4, <1>5, <1>6, <1>7

\* A line that goes to no earlier file becomes the newest, behind the one that was or
\* glued to it.
LEMMA AppendedLast ==
    ASSUME LinesInv, NEW line \in Lines, lines' = Appended(line),
           ~(Position(line.month) < Len(lines)), LinesInv'
    PROVE  /\ Last'.seq = line.seq
           /\ Len(lines') <= Len(lines) + 1
           /\ (\A i \in 1 .. Len(lines) : lines[i].ended)
                => Inserted(lines', line, Len(lines))
PROOF
<1> DEFINE k == Position(line.month)
<1>1. /\ lines \in Seq(Lines) /\ Len(lines) \in Nat /\ Len(lines) \in 1 .. Len(lines)
      /\ Len(lines') \in Nat
  BY LastIsALine, LenProperties DEF LinesInv
<1>2. k \in 0 .. Len(lines) /\ ~(k < Len(lines))
  BY <1>1, PositionInRange
<1>3. k = Len(lines)
  <2> HIDE DEF k
  <2> QED
    BY <1>1, <1>2
<1>4. IF Len(lines) > 0 /\ Last.month = line.month /\ ~Last.ended
      THEN Glued(lines', line, Len(lines)) ELSE Inserted(lines', line, Len(lines))
  BY <1>1, <1>3, AppendedWhere DEF Last
<1>5. CASE Glued(lines', line, Len(lines)) /\ ~Last.ended
  <2>1. Len(lines') = Len(lines) /\ lines'[Len(lines)] = [line EXCEPT !.json = FALSE]
    BY <1>1, <1>5 DEF Glued
  <2> QED
    BY <1>1, <1>5, <2>1 DEF Last, Lines
<1>6. CASE Inserted(lines', line, Len(lines))
  <2>1. Len(lines') = Len(lines) + 1 /\ lines'[Len(lines) + 1] = line
    BY <1>1, <1>6 DEF Inserted
  <2> QED
    BY <1>1, <1>6, <2>1 DEF Last
<1> QED
  BY <1>4, <1>5, <1>6

\* The newest line stays the newest when another is edited or lost.
LEMMA LastStays ==
    ASSUME LinesInv, fresh \in Nat, NEW i \in 1 .. Len(lines) - 1,
           Edited(lines', i) \/ Removed(lines', i)
    PROVE  /\ Last' = Last
           /\ Edited(lines', i) => Len(lines') = Len(lines)
           /\ Removed(lines', i) => Len(lines') = Len(lines) - 1
PROOF
<1>1. Len(lines) \in Nat /\ Len(lines) \in 1 .. Len(lines) /\ i # Len(lines)
  BY LastIsALine
<1>2. ASSUME Edited(lines', i)
      PROVE  Len(lines') = Len(lines) /\ lines'[Len(lines)] = lines[Len(lines)]
  BY <1>1, <1>2 DEF Edited
<1>3. ASSUME Removed(lines', i)
      PROVE  Len(lines') = Len(lines) - 1 /\ lines'[Len(lines) - 1] = lines[Len(lines)]
  <2>1. /\ Len(lines) - 1 \in 1 .. Len(lines) - 1 /\ ~(Len(lines) - 1 < i)
        /\ (Len(lines) - 1) + 1 = Len(lines)
    BY <1>1
  <2> QED
    BY <1>3, <2>1 DEF Removed
<1> QED
  BY <1>2, <1>3 DEF Last

\* One step of a command or of a fault keeps the turns.
LEMMA NextKeepsSequential ==
    ASSUME Inv, Inv', SequentialInv, [Next]_vars
    PROVE  SequentialInv'
PROOF
<1> DEFINE Goal == /\ \A v, w \in Writers :
                        writer'[v].pc # "idle" /\ writer'[w].pc # "idle" => v = w
                   /\ Last'.seq >= Len(lines') - 1
                   /\ \A w \in Writers : writer'[w].pc \in {"seq", "prev"}
                                            => writer'[w].seq = Last'.seq + 1
<1> SUFFICES ASSUME met' \cap OutOfTurn = {} PROVE Goal
  BY DEF SequentialInv, Last, OutOfTurn
<1>1. met \cap OutOfTurn = {}
  BY MetStays
<1>2. /\ \A v, w \in Writers : writer[v].pc # "idle" /\ writer[w].pc # "idle" => v = w
      /\ Last.seq >= Len(lines) - 1
      /\ \A w \in Writers :
            writer[w].pc \in {"seq", "prev"} => writer[w].seq = Last.seq + 1
  BY <1>1 DEF SequentialInv
<1>3. /\ LinesInv /\ LinesInv' /\ fresh \in Nat /\ month \in Nat
      /\ \A w \in Writers : writer[w] \in Writing
      /\ lines \in Seq(Lines) /\ DOMAIN lines = 1 .. Len(lines)
  BY LenProperties DEF Inv, TypeInv, LinesInv
<1>4. /\ Len(lines) \in Nat /\ Len(lines) \in 1 .. Len(lines) /\ Last.seq \in Nat
      /\ NextSeq = Last.seq + 1
  BY <1>3, LastIsALine
<1>5. Last'.seq \in Nat /\ Len(lines') \in Nat
  <2>1. /\ lines' \in Seq(Lines) /\ Len(lines') > 0
    BY <1>3 DEF LinesInv
  <2>2. Len(lines') \in Nat
    BY <2>1, LenProperties
  <2>3. lines'[Len(lines')] \in Lines
    BY <2>1, <2>2, ElementOfSeq
  <2> QED
    BY <2>2, <2>3 DEF Last, Lines
<1>6. CASE UNCHANGED <<lines, writer>>
  BY <1>2, <1>6 DEF Last
<1>7. ASSUME UNCHANGED lines
      PROVE  Last' = Last /\ Len(lines') = Len(lines)
  BY <1>7 DEF Last
<1>8. ASSUME NEW w \in Writers, ReadSeq(w)
      PROVE  Goal
  <2>1. AtRest
    <3>1. "overlap" \notin met'
      BY DEF OutOfTurn
    <3> QED
      BY <1>8, <3>1 DEF ReadSeq, Meet
  <2>2. /\ writer'[w].seq = NextSeq
        /\ \A v \in Writers \ {w} : writer'[v] = writer[v] /\ writer[v].pc = "idle"
    BY <1>8, <2>1, WriterSteps DEF AtRest
  <2>3. UNCHANGED lines
    BY <1>8 DEF ReadSeq
  <2> QED
    BY <1>2, <1>4, <1>7, <2>2, <2>3
<1>9. ASSUME NEW w \in Writers, writer[w].pc # "idle",
             \A v \in Writers \ {w} : writer'[v] = writer[v]
      PROVE  \A v \in Writers \ {w} : writer[v].pc = "idle" /\ writer'[v].pc = "idle"
  BY <1>2, <1>9
<1>10. ASSUME NEW w \in Writers, ReadPrev(w)
       PROVE  Goal
  <2>1. /\ writer'[w].seq = writer[w].seq
        /\ \A v \in Writers \ {w} : writer'[v] = writer[v]
    BY <1>10, WriterSteps
  <2>2. UNCHANGED lines /\ writer[w].pc = "seq"
    BY <1>10 DEF ReadPrev
  <2> QED
    BY <1>2, <1>7, <1>9, <2>1, <2>2
<1>11. ASSUME NEW w \in Writers, Write(w) \/ WriteShort(w)
       PROVE  Goal
  <2>1. writer[w].pc = "prev" /\ Misfiling \subseteq met'
    BY <1>11 DEF Write, WriteShort, Meet
  <2>2. PICK x \in Lines : /\ x.seq = writer[w].seq /\ x.month = month
                          /\ lines' = Appended(x)
    BY <1>11, NewLineTyped DEF Write, WriteShort, IsNext
  <2>3. ~(Position(x.month) < Len(lines))
    BY <2>1, <2>2 DEF Misfiling, OutOfTurn
  <2>4. Last'.seq = x.seq /\ Len(lines') <= Len(lines) + 1
    BY <1>3, <2>2, <2>3, AppendedLast
  <2>5. x.seq = Last.seq + 1
    BY <1>2, <2>1, <2>2
  <2>6. /\ writer'[w].pc \in {"head", "idle"}
        /\ \A v \in Writers \ {w} : writer'[v] = writer[v]
    BY <1>11, WriterSteps
  <2>7. \A v \in Writers \ {w} : writer'[v].pc = "idle"
    BY <1>9, <2>1, <2>6
  <2> QED
    BY <1>2, <1>4, <1>5, <2>4, <2>5, <2>6, <2>7
<1>12. ASSUME NEW w \in Writers, ReadHead(w) \/ SaveHead(w) \/ Killed(w)
       PROVE  Goal
  <2>1. UNCHANGED lines /\ writer[w].pc # "idle"
    BY <1>12 DEF ReadHead, SaveHead, Killed
  <2>2. /\ writer'[w].pc \in {"save", "idle"}
        /\ \A v \in Writers \ {w} : writer'[v] = writer[v]
    BY <1>12, WriterSteps
  <2> QED
    BY <1>2, <1>7, <1>9, <2>1, <2>2
<1>13. CASE EditLine
  <2>1. PICK i \in 1 .. Len(lines) :
            /\ lines' = [lines EXCEPT ![i].id = fresh]
            /\ Meet(IF i = Len(lines) THEN {"tail_edited"} ELSE {"line_edited"})
    BY <1>3, <1>13 DEF EditLine
  <2>2. i # Len(lines)
    BY <2>1 DEF Meet, OutOfTurn
  <2>3. i \in 1 .. Len(lines) - 1
    BY <1>4, <2>2
  <2>4. Last' = Last /\ Len(lines') = Len(lines)
    BY <1>3, <2>1, <2>3, LineEdited, LastStays
  <2>5. UNCHANGED writer
    BY <1>13 DEF EditLine
  <2> QED
    BY <1>2, <2>4, <2>5
<1>14. CASE LoseLine
  <2>1. PICK i \in 1 .. Len(lines) - 1 :
            lines' = SubSeq(lines, 1, i - 1) \o SubSeq(lines, i + 1, Len(lines))
    BY <1>14 DEF LoseLine
  <2>2. i \in 1 .. Len(lines)
    BY <1>4
  <2>3. Last' = Last /\ Len(lines') = Len(lines) - 1
    BY <1>3, <2>1, <2>2, LineRemoved, LastStays
  <2>4. UNCHANGED writer
    BY <1>14 DEF LoseLine
  <2> QED
    BY <1>2, <1>4, <2>3, <2>4
<1>15. ~LoseTail
  BY DEF LoseTail, Meet, OutOfTurn
<1> QED
  BY <1>6, <1>8, <1>10, <1>11, <1>12, <1>13, <1>14, <1>15
     DEF Next, vars, NextMonth, ClockBack

\* The chain is whole when every line is what its place asks for.
LEMMA ChainOf ==
    ASSUME LinesInv, \A i \in 1 .. Len(lines) : ~Breaks(i)
    PROVE  ChainVerifies
PROOF
<1>1. lines # <<>> /\ DOMAIN lines = 1 .. Len(lines)
  BY LenProperties DEF LinesInv
<1> QED
  BY <1>1 DEF ChainVerifies, ChainBreaks

\* A whole line with the next number and the hash of the newest one carries the chain on.
LEMMA ChainGrows ==
    ASSUME LinesInv, ChainVerifies, NEW x, x.json, x.seq = Last.seq + 1, x.prev = Last.id,
           Inserted(lines', x, Len(lines)), LinesInv'
    PROVE  ChainVerifies'
PROOF
<1>1. Len(lines) \in Nat /\ Len(lines) \in 1 .. Len(lines)
  BY LastIsALine
<1>2. /\ Len(lines') = Len(lines) + 1
      /\ lines'[Len(lines) + 1] = x
      /\ \A i \in 1 .. Len(lines) : lines'[i] = lines[i]
  BY <1>1 DEF Inserted
<1>3. DOMAIN lines = 1 .. Len(lines)
  BY LenProperties DEF LinesInv
<1>4. ASSUME NEW i \in 1 .. Len(lines') PROVE ~Breaks(i)'
  <2>1. CASE i = Len(lines) + 1
    <3>1. x.seq = i - 1 /\ i # 1 /\ i - 1 = Len(lines)
      <4>1. Last.seq = Len(lines) - 1
        BY <1>1, WholeChain DEF Last
      <4> QED
        BY <1>1, <2>1, <4>1
    <3>2. lines'[i] = x /\ lines'[i - 1] = Last
      BY <1>1, <1>2, <2>1, <3>1 DEF Last
    <3> QED
      BY <3>1, <3>2 DEF Breaks
  <2>2. CASE i # Len(lines) + 1
    <3>1. i \in 1 .. Len(lines) /\ (i # 1 => i - 1 \in 1 .. Len(lines))
      BY <1>1, <1>2, <2>2
    <3>2. ~Breaks(i)
      BY <1>3, <3>1 DEF ChainVerifies, ChainBreaks
    <3> QED
      BY <1>2, <3>1, <3>2 DEF Breaks
  <2> QED
    BY <2>1, <2>2
<1>5. lines' # <<>> /\ DOMAIN lines' = 1 .. Len(lines')
  BY LenProperties DEF LinesInv
<1> QED
  BY <1>4, <1>5 DEF ChainVerifies, ChainBreaks

LEMMA NextKeepsOrderly ==
    ASSUME Inv, Inv', SequentialInv, OrderlyInv, [Next]_vars
    PROVE  OrderlyInv'
PROOF
<1> DEFINE Goal == /\ ChainVerifies'
                   /\ \A i \in 1 .. Len(lines') : lines'[i].ended
                   /\ \A w \in Writers :
                        /\ writer'[w].pc = "prev" => writer'[w].prev = Last'.id
                        /\ writer'[w].pc = "save" => writer'[w].head = Last'.id
<1> SUFFICES ASSUME met' \subseteq {"killed"} PROVE Goal
  BY DEF OrderlyInv, Last
<1>1. met \subseteq {"killed"} /\ met \cap OutOfTurn = {}
  BY MetStays DEF OutOfTurn
<1>2. /\ ChainVerifies
      /\ \A i \in 1 .. Len(lines) : lines[i].ended
      /\ \A w \in Writers : /\ writer[w].pc = "prev" => writer[w].prev = Last.id
                            /\ writer[w].pc = "save" => writer[w].head = Last.id
  BY <1>1 DEF OrderlyInv
<1>3. /\ \A v, w \in Writers : writer[v].pc # "idle" /\ writer[w].pc # "idle" => v = w
      /\ \A w \in Writers :
            writer[w].pc \in {"seq", "prev"} => writer[w].seq = Last.seq + 1
  BY <1>1 DEF SequentialInv
<1>4. LinesInv /\ LinesInv' /\ HashOfLast = Last.id /\ Len(lines) \in Nat
  BY LastIsALine DEF Inv
<1>5. ASSUME UNCHANGED lines
      PROVE  /\ Last' = Last /\ ChainVerifies'
             /\ \A i \in 1 .. Len(lines') : lines'[i].ended
  BY <1>2, <1>5 DEF Last, ChainVerifies, ChainBreaks, Breaks
<1>6. CASE UNCHANGED <<lines, writer>>
  BY <1>2, <1>5, <1>6
<1>7. ASSUME NEW w \in Writers,
             ReadSeq(w) \/ ReadPrev(w) \/ ReadHead(w) \/ SaveHead(w) \/ Killed(w)
      PROVE  Goal
  <2>1. UNCHANGED lines
    BY <1>7 DEF ReadSeq, ReadPrev, ReadHead, SaveHead, Killed
  <2>2. /\ writer'[w].pc \in {"prev", "save"} => /\ ReadPrev(w) \/ ReadHead(w)
        /\ \A v \in Writers \ {w} : writer'[v] = writer[v]
    BY <1>7, WriterSteps
  <2>3. /\ ReadPrev(w) => writer'[w].pc = "prev" /\ writer'[w].prev = Last.id
        /\ ReadHead(w) => writer'[w].pc = "save" /\ writer'[w].head = Last.id
    BY <1>4, WriterSteps
  <2> QED
    BY <1>2, <1>5, <2>1, <2>2, <2>3
<1>8. ASSUME NEW w \in Writers, Write(w)
      PROVE  Goal
  <2>1. /\ writer[w].pc = "prev" /\ Misfiling \subseteq met' /\ lines' = Appended(NewLine(w))
    BY <1>8 DEF Write, Meet
  <2>2. PICK x \in Lines : /\ x.seq = writer[w].seq /\ x.prev = writer[w].prev
                          /\ x.month = month /\ x.json /\ x.ended
                          /\ lines' = Appended(x)
    BY <2>1, NewLineTyped DEF IsNext
  <2>3. ~(Position(x.month) < Len(lines))
    BY <2>1, <2>2 DEF Misfiling
  <2>4. Inserted(lines', x, Len(lines))
    BY <1>2, <1>4, <2>2, <2>3, AppendedLast
  <2>5. ChainVerifies'
    BY <1>2, <1>3, <1>4, <2>1, <2>2, <2>4, ChainGrows
  <2>6. \A i \in 1 .. Len(lines') : lines'[i].ended
    <3>1. ASSUME NEW i \in 1 .. Len(lines') PROVE lines'[i].ended
      <4>1. \/ i \in 1 .. Len(lines) /\ lines'[i] = lines[i]
            \/ lines'[i] = x
        BY <1>4, <2>4 DEF Inserted
      <4> QED
        BY <1>2, <2>2, <4>1
    <3> QED
      BY <3>1
  <2>7. \A v \in Writers : writer'[v].pc \notin {"prev", "save"}
    BY <1>3, <1>8, <2>1, WriterSteps
  <2> QED
    BY <2>5, <2>6, <2>7
<1>9. \A w \in Writers : ~WriteShort(w)
  <2>1. \A w \in Writers : WriteShort(w) => "short_write" \in met'
    BY DEF WriteShort, Meet
  <2> QED
    BY <2>1
<1>10. ~EditLine /\ ~LoseLine /\ ~LoseTail
  <2>1. EditLine => "tail_edited" \in met' \/ "line_edited" \in met'
    BY DEF EditLine, Meet
  <2>2. LoseLine => "line_lost" \in met'
    BY DEF LoseLine, Meet
  <2>3. LoseTail => "tail_lost" \in met'
    BY DEF LoseTail, Meet
  <2> QED
    BY <2>1, <2>2, <2>3
<1> QED
  BY <1>6, <1>7, <1>8, <1>9, <1>10 DEF Next, vars, NextMonth, ClockBack

Ids == {lines[i].id : i \in DOMAIN lines}

\* If the chain is whole after an append, every line that was there still is, and the
\* new one is as well.
LEMMA AppendKeepsIds ==
    ASSUME LinesInv, NEW line \in Lines, lines' = Appended(line), ChainVerifies'
    PROVE  Ids \cup {line.id} \subseteq Ids'
PROOF
<1>1. Len(lines) \in Nat /\ lines \in Seq(Lines) /\ DOMAIN lines = 1 .. Len(lines)
  BY LenProperties DEF LinesInv
<1>2. PICK k \in 0 .. Len(lines) : Inserted(lines', line, k) \/ Glued(lines', line, k)
  BY <1>1, AppendedCases
<1>3. DOMAIN lines' = 1 .. Len(lines')
  <2>1. lines' \in Seq(Lines)
    BY <1>2 DEF Inserted, Glued
  <2> QED
    BY <2>1, LenProperties
<1>4. CASE Inserted(lines', line, k)
  <2>1. k + 1 \in DOMAIN lines' /\ lines'[k + 1] = line
    BY <1>1, <1>3, <1>4 DEF Inserted
  <2>2. ASSUME NEW i \in DOMAIN lines
        PROVE  \E j \in DOMAIN lines' : lines'[j] = lines[i]
    <3>1. CASE i <= k
      BY <1>1, <1>3, <1>4, <3>1 DEF Inserted
    <3>2. CASE ~(i <= k)
      <4>1. /\ i + 1 \in 1 .. Len(lines) + 1 /\ ~(i + 1 <= k) /\ i + 1 # k + 1
            /\ (i + 1) - 1 = i
        BY <1>1, <3>2
      <4>2. lines'[i + 1] = lines[i]
        BY <1>4, <4>1 DEF Inserted
      <4> QED
        BY <1>3, <1>4, <4>1, <4>2 DEF Inserted
    <3> QED
      BY <3>1, <3>2
  <2> QED
    BY <2>1, <2>2 DEF Ids
<1>5. CASE Glued(lines', line, k)
  <2>1. k \in 1 .. Len(lines') /\ k \in 1 .. Len(lines) /\ lines' \in Seq(Lines)
    BY <1>1, <1>5 DEF Glued
  <2>3. ~lines'[k].json
    BY <1>5, <2>1 DEF Glued, Lines
  <2>2. Breaks(k)'
    BY <2>3 DEF Breaks
  <2> QED
    BY <2>1, <2>2, BreakShows
<1> QED
  BY <1>2, <1>4, <1>5

LEMMA NextKeepsKept ==
    ASSUME Inv, Inv', SequentialInv, SequentialInv', KeptInv, [Next]_vars
    PROVE  KeptInv'
PROOF
<1> SUFFICES ASSUME met' \cap {"tail_edited", "tail_lost"} = {},
                    "line_lost" \in met' => met' \cap {"overlap", "misfiled"} = {},
                    ChainVerifies'
             PROVE  returned' \subseteq Ids'
  BY DEF KeptInv, Ids
<1>1. ChainVerifies => returned \subseteq Ids
  BY MetStays DEF KeptInv, Ids
<1>2. /\ LinesInv /\ LinesInv' /\ fresh \in Nat /\ Len(lines) \in Nat
      /\ lines \in Seq(Lines) /\ DOMAIN lines = 1 .. Len(lines)
  BY LenProperties DEF Inv, TypeInv, LinesInv
<1>3. ~Damage => returned \subseteq Ids
  BY <1>1, BreakStays
<1>4. CASE UNCHANGED <<lines, returned>>
  <2>1. ChainVerifies /\ Ids' = Ids
    BY <1>4 DEF ChainVerifies, ChainBreaks, Breaks, Ids
  <2> QED
    BY <1>1, <1>4, <2>1
<1>5. ASSUME NEW w \in Writers, Write(w) \/ WriteShort(w)
      PROVE  returned' \subseteq Ids'
  <2>1. PICK x \in Lines : x.id = fresh /\ lines' = Appended(x)
    BY <1>5, NewLineTyped DEF Write, WriteShort, IsNext
  <2>2. Ids \cup {fresh} \subseteq Ids'
    BY <1>2, <2>1, AppendKeepsIds
  <2>3. ChainVerifies
    BY <1>2, <2>1, AppendHidesNothing
  <2>4. returned' \subseteq returned \cup {fresh}
    BY <1>5 DEF Write, WriteShort
  <2> QED
    BY <1>1, <2>2, <2>3, <2>4
<1>6. ~EditLine
  <2> SUFFICES ASSUME EditLine PROVE FALSE
    OBVIOUS
  <2>1. PICK i \in 1 .. Len(lines) :
            /\ lines' = [lines EXCEPT ![i].id = fresh]
            /\ Meet(IF i = Len(lines) THEN {"tail_edited"} ELSE {"line_edited"})
    BY <1>2 DEF EditLine
  <2>2. i # Len(lines)
    BY <2>1 DEF Meet
  <2>3. i \in 1 .. Len(lines) - 1
    <3>1. Len(lines) \in Nat
      BY <1>2
    <3> QED
      BY <2>2, <3>1
  <2> QED
    BY <1>2, <2>1, <2>3, LineEdited, EditBreaks
<1>7. ~LoseLine
  <2> SUFFICES ASSUME LoseLine PROVE FALSE
    OBVIOUS
  <2>1. PICK i \in 1 .. Len(lines) - 1 :
            lines' = SubSeq(lines, 1, i - 1) \o SubSeq(lines, i + 1, Len(lines))
    BY DEF LoseLine
  <2>2. i \in 1 .. Len(lines)
    BY <1>2
  <2>3. Last' = Last /\ Len(lines') = Len(lines) - 1
    BY <1>2, <2>1, <2>2, LineRemoved, LastStays
  <2>4. "line_lost" \in met'
    BY DEF LoseLine, Meet
  <2>5. met \cap OutOfTurn = {}
    BY <2>4, MetStays DEF OutOfTurn
  <2>6. Last.seq >= Len(lines) - 1 /\ Last.seq \in Nat
    BY <1>2, <2>5, LastIsALine DEF SequentialInv
  <2>7. PICK n \in 1 .. Len(lines') : /\ lines' \in Seq(Lines) /\ n = Len(lines')
                                     /\ lines'[n] = Last'
    BY <1>2, LenProperties DEF LinesInv, Last
  <2>8. lines'[n].seq # n - 1
    BY <1>2, <2>3, <2>6, <2>7
  <2>9. Breaks(n)'
    BY <2>8 DEF Breaks
  <2> QED
    BY <2>7, <2>9, BreakShows
<1>8. ~LoseTail
  BY DEF LoseTail, Meet
<1> QED
  BY <1>4, <1>5, <1>6, <1>7, <1>8
     DEF Next, vars, ReadSeq, ReadPrev, ReadHead, SaveHead, Killed, NextMonth, ClockBack

LEMMA InitKeepsTurns == Init => SequentialInv /\ OrderlyInv /\ KeptInv
PROOF
<1> SUFFICES ASSUME Init PROVE SequentialInv /\ OrderlyInv /\ KeptInv
  OBVIOUS
<1>1. /\ lines = <<Genesis>> /\ Len(lines) = 1 /\ lines[1] = Genesis /\ DOMAIN lines = {1}
      /\ returned = {0}
  BY DEF Init
<1>2. /\ Genesis.id = 0 /\ Genesis.seq = 0 /\ Genesis.prev = None /\ Genesis.json = TRUE
      /\ Genesis.ended = TRUE
  BY DEF Genesis
<1>3. \A w \in Writers : writer[w].pc = "idle"
  <2>1. \A w \in Writers : writer[w] = Idle
    BY DEF Init
  <2> QED
    BY <2>1 DEF Idle
<1>4. ChainVerifies
  <2>1. ~Breaks(1) /\ lines # <<>>
    BY <1>1, <1>2 DEF Breaks
  <2> QED
    BY <1>1, <2>1 DEF ChainVerifies, ChainBreaks
<1>5. \A i \in 1 .. Len(lines) : lines[i].ended
  BY <1>1, <1>2
<1>6. SequentialInv
  BY <1>1, <1>2, <1>3 DEF SequentialInv, Last
<1>7. OrderlyInv
  BY <1>3, <1>4, <1>5 DEF OrderlyInv
<1>8. KeptInv
  BY <1>1, <1>2 DEF KeptInv
<1> QED
  BY <1>6, <1>7, <1>8

\* A command that saves the tail it holds vouches for the chain.
LEMMA SavingVouches ==
    ASSUME Inv, OrderlyInv, NEW w \in Writers, SaveHead(w), met \subseteq {"killed"}
    PROVE  Verifies'
PROOF
<1>1. UNCHANGED lines /\ head' = writer[w].head /\ writer[w].pc = "save"
  BY DEF SaveHead
<1>2. ChainVerifies /\ writer[w].head = Last.id /\ HashOfLast = Last.id
  BY <1>1, LastIsALine DEF OrderlyInv, Inv
<1> QED
  BY <1>1, <1>2 DEF Verifies, ChainVerifies, ChainBreaks, Breaks, HashOfLast
-----------------------------------------------------------------------------
\* The theorems.

\* Every value is one the code can write, no two lines have one hash, and no line and no
\* command holds the hash of a line that was never written (append of journal.py takes
\* prev from a line that it read).
THEOREM InvHolds == Spec => []Inv
PROOF
<1>1. Init => Inv
  BY InitKeepsInv
<1>2. Inv /\ [Next]_vars => Inv'
  BY NextKeepsInv
<1> QED
  BY <1>1, <1>2, PTL DEF Spec

\* I2: an edit or a loss of a line that has a successor breaks the chain, and no command
\* run after it, concurrently or in another month makes verify_chain report it whole.
THEOREM DamageStays == Spec => DamageStaysVisible
PROOF
<1>1. Inv /\ [Next]_vars =>
        [\/ ChainVerifies /\ HistoryDamaged
         \/ ~ChainVerifies /\ ~Damage
         => ~ChainVerifies']_vars
  BY HistoryShows, BreakStays
<1> QED
  BY <1>1, InvHolds, PTL DEF Spec, DamageStaysVisible

\* DEC-015: the chain and journal_head together cover every line, so that one edit or
\* loss anywhere in a journal that verifies shows in the next verify.
THEOREM DamageShows == Spec => DamageIsSeen
PROOF
<1>1. Inv /\ [Next]_vars => [AtRest /\ Verifies /\ Damage => ~Verifies']_vars
  BY OneDamageShows
<1> QED
  BY <1>1, InvHolds, PTL DEF Spec, DamageIsSeen
\* Commands that do not overlap and write in the newest month number the lines one after
\* another, whoever else was killed half way (next_seq of journal.py).
THEOREM CommandsTakeTurns == Spec => []SequentialInv
PROOF
<1>1. Init => SequentialInv
  BY InitKeepsTurns
<1>2. Inv /\ Inv' /\ SequentialInv /\ [Next]_vars => SequentialInv'
  BY NextKeepsSequential
<1> QED
  BY <1>1, <1>2, InvHolds, PTL DEF Spec

\* When commands met nothing but kills, one that gets to write_state leaves a chain and a
\* journal_head that verify has nothing to say about.
THEOREM CommandsVouch == Spec => CommandVouches
PROOF
<1>1. Init => OrderlyInv
  BY InitKeepsTurns
<1>2. Inv /\ Inv' /\ SequentialInv /\ OrderlyInv /\ [Next]_vars => OrderlyInv'
  BY NextKeepsOrderly
<1>3. Inv /\ OrderlyInv /\ [Next]_vars =>
        [(\E w \in Writers : SaveHead(w)) /\ met \subseteq {"killed"} => Verifies']_vars
  BY SavingVouches
<1> QED
  BY <1>1, <1>2, <1>3, InvHolds, CommandsTakeTurns, PTL DEF Spec, CommandVouches

\* No entry that append has returned leaves a journal in which verify sees nothing wrong,
\* but for the losses that AcknowledgedIsKept excepts.
THEOREM AcknowledgedEntriesStay == Spec => []AcknowledgedIsKept
PROOF
<1>1. Init => KeptInv
  BY InitKeepsTurns
<1>2. Inv /\ Inv' /\ SequentialInv /\ SequentialInv' /\ KeptInv /\ [Next]_vars => KeptInv'
  BY NextKeepsKept
<1>3. KeptInv => AcknowledgedIsKept
  BY DEF KeptInv, AcknowledgedIsKept, Verifies
<1> QED
  BY <1>1, <1>2, <1>3, InvHolds, CommandsTakeTurns, PTL DEF Spec

=============================================================================
