------------------------------ MODULE StoreProofs ------------------------------
(***************************************************************************)
(* Proofs about what others see of the engine: the auditor, whoever reads  *)
(* the answer of a command, and whoever reads the files.  What verify      *)
(* compares stays in step, every change of content is journaled, and the   *)
(* Executor implements the governed store, as long as nobody works around  *)
(* the Executor and nothing raises between the payload and the journal:    *)
(* the hypothesis Undisturbed names these conditions.                      *)
(***************************************************************************)
EXTENDS ExecutorProofs, Audit, Doors
-----------------------------------------------------------------------------
\* The auditor.

\* The newest of some entries of the journal is one of them.
LEMMA NewestExists ==
    ASSUME TypeInv, NEW S \in SUBSET (DOMAIN journal), S # {}
    PROVE  Newest(S) \in S /\ \A j \in S : j <= Newest(S)
<1>1. DOMAIN journal = 1 .. Len(journal) /\ Len(journal) \in Nat
    BY LenProperties DEF TypeInv, TypeOK
<1>2. LastOf(S) \in S /\ \A j \in S : j <= LastOf(S)
    BY <1>1, LastExists
<1>3. Newest(S) = LastOf(S)
    BY DEF Newest, LastOf
<1>4. QED BY <1>2, <1>3

\* The newest entry that covers a path is the one its owner is compared with: an
\* application comes after no rollback of the same change, and neither is repeated.
LEMMA OwnerExpects ==
    ASSUME TypeInv, HistoryInv, NEW t \in Paths, Covering(t) # {}
    PROVE  /\ FinalOwner(t) \in Surviving \cup RolledBackOnes
           /\ t \in folder[FinalOwner(t)].targets
           /\ Expected(FinalOwner(t)) = journal[Newest(Covering(t))].after
<1> DEFINE n == Newest(Covering(t))
           c == FinalOwner(t)
           kind == IF c \in RolledBackOnes THEN "rolled_back" ELSE "applied"
           same == {i \in ContentEntries : journal[i].cs = c /\ journal[i].event = kind}
<1>1. Covering(t) \in SUBSET (DOMAIN journal) /\ Covering(t) \subseteq ContentEntries
    BY DEF Covering, ContentEntries
<1>2. n \in Covering(t) /\ \A j \in Covering(t) : j <= n
    BY <1>1, NewestExists
<1>3. c = journal[n].cs
    BY DEF FinalOwner
<1>4. t \in folder[c].targets /\ n \in ContentEntries
    BY <1>1, <1>2, <1>3 DEF Covering
<1>5. n \in DOMAIN journal /\ journal[n].event \in {"applied", "rolled_back"}
    BY <1>4 DEF ContentEntries, ContentEvents
<1> HIDE DEF n, c
<1>6. DOMAIN journal = 1 .. Len(journal) /\ Len(journal) \in Nat
    BY LenProperties DEF TypeInv, TypeOK
<1>7. ASSUME journal[n].event = "applied", c \in RolledBackOnes
      PROVE  FALSE
    <2>1. PICK j \in DOMAIN journal : journal[j].event = "rolled_back" /\ journal[j].cs = c
        BY <1>7 DEF RolledBackOnes, Told
    <2>2. j \in Covering(t)
        BY <1>4, <2>1 DEF Covering, ContentEntries, ContentEvents
    <2>3. j <= n /\ j # n
        BY <1>2, <1>7, <2>1, <2>2 DEF n
    <2>4. j \in 1 .. (n - 1)
        BY <1>5, <1>6, <2>1, <2>3
    <2>5. ExplainedAt(journal, n, folder)
        BY <1>5, <1>7 DEF HistoryInv, History
    <2>6. journal[j].event \in {"proposed", "gated", "approved"}
        BY <1>3, <2>1, <2>4, <2>5 DEF ExplainedAt
    <2>7. QED BY <2>1, <2>6
<1>8. journal[n].event = kind
    <2>1. journal[n].event = "rolled_back" => c \in RolledBackOnes
        BY <1>3, <1>5 DEF RolledBackOnes, Told
    <2>2. QED BY <1>5, <1>7, <2>1
<1>9. c \in Applied \/ c \in RolledBackOnes
    BY <1>3, <1>5 DEF Applied, RolledBackOnes, Told
<1>10. n \in same /\ same \in SUBSET (DOMAIN journal)
    BY <1>3, <1>4, <1>8 DEF ContentEntries
<1>11. Newest(same) \in same
    <2> HIDE DEF same
    <2>1. QED BY <1>10, NewestExists
<1>12. ASSUME NEW i \in same PROVE i = n
    <2>1. OnceEach
        BY DEF HistoryInv, History, OnceEach
    <2>2. /\ i \in DOMAIN journal /\ journal[i].event \in ContentEvents
          /\ journal[n].event = journal[i].event /\ journal[n].cs = journal[i].cs
        BY <1>3, <1>8, <1>12 DEF ContentEntries
    <2>3. QED BY <1>5, <2>1, <2>2 DEF OnceEach
<1>13. Expected(c) = journal[n].after
    <2>1. Expected(c) = journal[Newest(same)].after
        BY DEF Expected
    <2>2. Newest(same) = n
        BY <1>11, <1>12
    <2>3. QED BY <2>1, <2>2
<1>14. QED BY <1>4, <1>9, <1>13 DEF Surviving, n, c

\* An edit around the loop of a file that is still its owner's fails the audit, for any
\* stack of changes, undone or not (audit.py compares with the last event of the owner).
THEOREM EditsFailTheAudit == Spec => []EditsAreAudited
<1>1. TypeInv /\ HistoryInv => EditsAreAudited
    <2> SUFFICES ASSUME TypeInv, HistoryInv, NEW t \in Paths, Covering(t) # {},
                        Checkable(FinalOwner(t)),
                        files[t] # journal[Newest(Covering(t))].after[t]
        PROVE  ~AuditOK
        BY DEF EditsAreAudited
    <2> DEFINE c == FinalOwner(t)
    <2>1. /\ c \in Surviving \cup RolledBackOnes
          /\ t \in folder[c].targets
          /\ Expected(c) = journal[Newest(Covering(t))].after
        BY OwnerExpects
    <2> HIDE DEF c
    <2>2. Image(files, folder[c].targets)[t] = files[t]
        BY <2>1 DEF Image
    <2>3. Image(files, folder[c].targets) # Expected(c)
        BY <2>1, <2>2
    <2>4. c \in Mismatches
        BY <2>1, <2>3 DEF Mismatches, c
    <2>5. QED BY <2>4 DEF AuditOK
<1>2. QED BY <1>1, HistoryAlways, PTL
-----------------------------------------------------------------------------
\* The doors.

\* The entries of a step, and whether one of them says something of a change.
NewEntries == {journal'[i] : i \in DOMAIN journal' \ DOMAIN journal}

Says(new, c, events) == \E entry \in new : entry.event \in events /\ entry.cs = c

SaysAuto(new) == \E entry \in new : entry.event = "gated" /\ entry.gate = "auto"

LEMMA NewEntriesAre ==
    ASSUME TypeInv
    PROVE  /\ UNCHANGED journal => NewEntries = {}
           /\ Journaled(<<>>) => NewEntries = {}
           /\ \A e : Journaled(<<e>>) => NewEntries = {e}
           /\ \A e, f : Journaled(<<e, f>>) => NewEntries = {e, f}
<1>1. UNCHANGED journal => NewEntries = {}
    BY DEF NewEntries
<1>2. ASSUME NEW S, NEW es \in Seq(S), Journaled(es)
      PROVE  NewEntries = {es[k] : k \in 1 .. Len(es)}
    <2>1. /\ Len(journal) \in Nat /\ Len(es) \in Nat
          /\ DOMAIN journal = 1 .. Len(journal) /\ DOMAIN es = 1 .. Len(es)
          /\ DOMAIN journal' = 1 .. (Len(journal) + Len(es))
          /\ \A k \in DOMAIN es : journal'[Len(journal) + k] = es[k]
        BY <1>2, JournalGrows, LenProperties DEF TypeInv, TypeOK
    <2> DEFINE n == Len(journal)
               m == Len(es)
    <2> HIDE DEF n, m
    <2>2. /\ n \in Nat /\ m \in Nat
          /\ DOMAIN journal' \ DOMAIN journal = (n + 1) .. (n + m)
          /\ \A k \in 1 .. m : journal'[n + k] = es[k]
        BY <2>1 DEF n, m
    <2>3. ASSUME NEW i \in (n + 1) .. (n + m)
          PROVE  i - n \in 1 .. m /\ journal'[i] = es[i - n]
        <3>1. i - n \in 1 .. m /\ n + (i - n) = i
            BY <2>2
        <3>2. QED BY <2>2, <3>1
    <2>4. ASSUME NEW k \in 1 .. m
          PROVE  n + k \in (n + 1) .. (n + m) /\ journal'[n + k] = es[k]
        BY <2>2
    <2>5. NewEntries = {journal'[i] : i \in (n + 1) .. (n + m)}
        BY <2>2 DEF NewEntries
    <2>6. ASSUME NEW x \in NewEntries PROVE \E k \in 1 .. m : x = es[k]
        BY <2>3, <2>5
    <2>7. ASSUME NEW k \in 1 .. m PROVE es[k] \in NewEntries
        BY <2>4, <2>5
    <2>8. NewEntries = {es[k] : k \in 1 .. m}
        BY <2>6, <2>7
    <2>9. QED BY <2>8 DEF m
<1>3. Journaled(<<>>) => NewEntries = {}
    <2> DEFINE es == <<>>
    <2>1. es \in Seq(Nat) /\ Len(es) = 0
        OBVIOUS
    <2> HIDE DEF es
    <2>2. Journaled(es) => NewEntries = {es[k] : k \in 1 .. 0}
        BY <1>2, <2>1
    <2>3. Journaled(es) => NewEntries = {}
        BY <2>2
    <2>4. QED BY <2>3 DEF es
<1>4. ASSUME NEW e, Journaled(<<e>>) PROVE NewEntries = {e}
    <2> DEFINE es == <<e>>
    <2>1. es \in Seq({e}) /\ Len(es) = 1 /\ es[1] = e /\ Journaled(es)
        BY <1>4
    <2> HIDE DEF es
    <2>2. QED BY <1>2, <2>1
<1>5. ASSUME NEW e, NEW f, Journaled(<<e, f>>) PROVE NewEntries = {e, f}
    <2> DEFINE es == <<e, f>>
    <2>1. es \in Seq({e, f}) /\ Len(es) = 2 /\ es[1] = e /\ es[2] = f /\ Journaled(es)
        BY <1>5
    <2> HIDE DEF es
    <2>2. NewEntries = {es[k] : k \in 1 .. 2}
        BY <1>2, <2>1
    <2>3. QED BY <2>1, <2>2
<1>6. QED BY <1>1, <1>3, <1>4, <1>5

LEMMA EffectIs ==
    ASSUME NEW c
    PROVE  /\ TookEffect("propose", c) <=>
                Says(NewEntries, c, {"proposed"}) /\ ~Says(NewEntries, c, {"rejected"})
           /\ TookEffect("gate", c) <=> SaysAuto(NewEntries)
           /\ TookEffect("apply", c) <=> Says(NewEntries, c, {"applied", "weight_update"})
           /\ TookEffect("approve", c) <=> Says(NewEntries, c, {"applied", "weight_update"})
           /\ TookEffect("reject", c) <=> Says(NewEntries, c, {"rejected"})
           /\ TookEffect("promote", c) <=> Says(NewEntries, c, {"promoted"})
           /\ TookEffect("rollback", c) <=> Says(NewEntries, c, {"rolled_back"})
BY DEF TookEffect, NewEntries, Says, SaysAuto

\* What AnswersAreTrue asks of one command.
Answered(verb, c) ==
    LET outcome == Returned(verb, c)
        suggested == verb = "gate" /\ status'[c] = "SUGGESTED"
    IN /\ Accepts(ExitCode(outcome)) <=> TookEffect(verb, c) \/ suggested
       /\ verb # "reject" => (Accepts(Reply(verb, outcome)) <=> TookEffect(verb, c))

\* How the answers depend on the status that is left, when no exception is raised and
\* when one is.
LEMMA AnswerRaised ==
    ASSUME NEW verb \in Verbs \ {"reject"}, NEW c \in ChangeSets,
           status'[c] \in {status[c], "APPROVED"}, status'[c] # "SUGGESTED",
           ~TookEffect(verb, c)
    PROVE  Answered(verb, c)
<1>1. Returned(verb, c) = Raised
    BY DEF Returned
<1>2. ExitCode(Raised) = "exit 1" /\ Reply(verb, Raised) = "raises"
    BY DEF ExitCode, Reply, Raised, Outcome
<1>3. QED BY <1>1, <1>2 DEF Answered, Accepts

LEMMA AnswerReturned ==
    ASSUME NEW verb \in Verbs \ {"gate", "reject"}, NEW c \in ChangeSets,
           status'[c] \notin {status[c], "APPROVED", "QUEUED", "RAISED"},
           TookEffect(verb, c) <=> status'[c] # "REJECTED"
    PROVE  Answered(verb, c)
<1> DEFINE st == status'[c]
           out == Outcome(st # "REJECTED", st)
<1>1. Returned(verb, c) = out
    BY DEF Returned
<1>2. out.ok = (st # "REJECTED") /\ out.status = st
    BY DEF Outcome
<1> HIDE DEF out, st
<1>3. ExitCode(out) = IF st = "REJECTED" THEN "exit 1" ELSE "exit 0"
    BY <1>2 DEF ExitCode, st
<1>4. CASE st = "REJECTED"
    <2>1. ~Accepts(Reply(verb, out))
        BY <1>2, <1>4 DEF Reply, Accepts
    <2>2. QED BY <1>1, <1>3, <1>4, <2>1 DEF Answered, Accepts, st
<1>5. CASE st # "REJECTED"
    <2>1. out # Raised
        BY <1>2 DEF Raised, Outcome, st
    <2>2. Reply(verb, out) = "ok"
        BY <1>2, <1>5, <2>1 DEF Reply, Verbs
    <2>3. QED BY <1>1, <1>3, <1>5, <2>2 DEF Answered, Accepts, st
<1>6. QED BY <1>4, <1>5

LEMMA AnswerGate ==
    ASSUME NEW c \in ChangeSets, status[c] = "VALIDATED",
           status'[c] \in {"SUGGESTED", "REJECTED", "QUEUED", "GATE_APPROVED"},
           TookEffect("gate", c) <=> status'[c] = "GATE_APPROVED"
    PROVE  Answered("gate", c)
<1> DEFINE st == status'[c]
           out == Outcome(st # "REJECTED", st)
<1>1. Returned("gate", c) = out
    BY DEF Returned
<1>2. out.ok = (st # "REJECTED") /\ out.status = st
    BY DEF Outcome
<1>3. out # Raised
    BY <1>2 DEF Raised, Outcome
<1> HIDE DEF out
<1>4. ExitCode(out) = IF st = "REJECTED" THEN "exit 1"
                      ELSE IF st = "QUEUED" THEN "exit 2" ELSE "exit 0"
    BY <1>2 DEF ExitCode
<1>5. Reply("gate", out) = IF st = "GATE_APPROVED" THEN "approved"
                           ELSE IF st = "QUEUED" THEN "queued" ELSE "neither"
    BY <1>2, <1>3 DEF Reply
<1>6. QED BY <1>1, <1>4, <1>5 DEF Answered, Accepts

\* The commands one by one.
LEMMA ProposeAnswered ==
    ASSUME TypeInv, TypeInv', NEW c \in ChangeSets, Propose(c) \/ ProposeBadId(c)
    PROVE  Answered("propose", c)
<1> DEFINE e == Entry("proposed", c)
           f == Rejected(c, "validate")
<1>1. e.cs = c /\ e.event = "proposed" /\ f.cs = c /\ f.event = "rejected"
    BY DEF Entry, Rejected
<1>2. CASE ProposeBadId(c)
    <2>1. UNCHANGED <<journal, status>>
        BY <1>2 DEF ProposeBadId, stateVars
    <2>2. NewEntries = {}
        BY <2>1, NewEntriesAre
    <2>3. ~TookEffect("propose", c)
        BY <2>2, EffectIs DEF Says
    <2>4. status[c] = "UNKNOWN"
        BY <1>2 DEF ProposeBadId, TypeInv, KnownHasFolder
    <2>5. status'[c] = status[c] /\ status'[c] # "SUGGESTED"
        BY <2>1, <2>4
    <2>6. QED BY <2>3, <2>5, AnswerRaised DEF Verbs
<1>3. CASE Propose(c)
    <2>1. \/ Journaled(<<e>>) /\ status' = [status EXCEPT ![c] = "VALIDATED"]
          \/ Journaled(<<e, f>>) /\ status' = [status EXCEPT ![c] = "REJECTED"]
        BY <1>3 DEF Propose
    <2>2. status[c] = "UNKNOWN" /\ DOMAIN status = ChangeSets
        BY <1>3 DEF Propose, TypeInv, TypeOK, KnownHasFolder
    <2> HIDE DEF e, f
    <2>3. \/ NewEntries = {e} /\ status'[c] = "VALIDATED"
          \/ NewEntries = {e, f} /\ status'[c] = "REJECTED"
        BY <2>1, <2>2, NewEntriesAre
    <2>4. TookEffect("propose", c) <=> status'[c] # "REJECTED"
        BY <1>1, <2>3, EffectIs DEF Says
    <2>5. QED BY <2>2, <2>3, <2>4, AnswerReturned DEF Verbs
<1>4. QED BY <1>2, <1>3

LEMMA GateAnswered ==
    ASSUME TypeInv, NEW c \in ChangeSets,
           GateSuggest(c) \/ GateReject(c) \/ GateQueue(c) \/ GateAuto(c)
    PROVE  Answered("gate", c)
<1>1. ASSUME NEW e, NEW st \in {"SUGGESTED", "REJECTED", "QUEUED", "GATE_APPROVED"},
             GateTo(c, e, st), status[c] = "VALIDATED",
             e.event = "gated" /\ e.gate = "auto" <=> st = "GATE_APPROVED"
      PROVE  Answered("gate", c)
    <2>1. NewEntries = {e}
        BY <1>1, NewEntriesAre DEF GateTo
    <2>2. status'[c] = st
        BY <1>1 DEF GateTo, TypeInv, TypeOK
    <2>3. TookEffect("gate", c) <=> status'[c] = "GATE_APPROVED"
        BY <1>1, <2>1, <2>2, EffectIs DEF SaysAuto
    <2>4. QED BY <1>1, <2>2, <2>3, AnswerGate
<1>2. CASE GateSuggest(c)
    <2> DEFINE e == Gated(c, "suggest", 0)
    <2>1. e.gate = "suggest" /\ GateTo(c, e, "SUGGESTED") /\ status[c] = "VALIDATED"
        BY <1>2 DEF GateSuggest, Gated, Entry
    <2> HIDE DEF e
    <2>2. QED BY <1>1, <2>1
<1>3. CASE GateReject(c)
    <2> DEFINE e == Rejected(c, "gate")
    <2>1. e.event = "rejected" /\ GateTo(c, e, "REJECTED") /\ status[c] = "VALIDATED"
        BY <1>3 DEF GateReject, Rejected, Entry
    <2> HIDE DEF e
    <2>2. QED BY <1>1, <2>1
<1>4. CASE GateQueue(c)
    <2> DEFINE e == Gated(c, "queue", levels[folder[c].layer])
    <2>1. e.gate = "queue" /\ GateTo(c, e, "QUEUED") /\ status[c] = "VALIDATED"
        BY <1>4 DEF GateQueue, Gated, Entry
    <2> HIDE DEF e
    <2>2. QED BY <1>1, <2>1
<1>5. CASE GateAuto(c)
    <2> DEFINE e == Gated(c, "auto", levels[folder[c].layer])
    <2>1. /\ e.event = "gated" /\ e.gate = "auto" /\ GateTo(c, e, "GATE_APPROVED")
          /\ status[c] = "VALIDATED"
        BY <1>5 DEF GateAuto, Gated, Entry
    <2> HIDE DEF e
    <2>2. QED BY <1>1, <2>1
<1>6. QED BY <1>2, <1>3, <1>4, <1>5

\* An application answers for the entry it ends with, whatever came before it, and an
\* exception that escapes leaves no such entry.
LEMMA EndAnswered ==
    ASSUME TypeInv, NEW c \in ChangeSets, NEW verb \in {"apply", "approve"},
           status[c] \in {"GATE_APPROVED", "APPROVED", "QUEUED"},
           NEW e, e.cs = c, e.event \in {"applied", "weight_update", "rejected"},
           status' = [status EXCEPT ![c] = StatusAfter(e)],
           NEW rest, NewEntries = {e} \cup rest,
           \A p \in rest : p.event = "approved"
    PROVE  Answered(verb, c)
<1>1. status'[c] = IF e.event = "rejected" THEN "REJECTED" ELSE "APPLIED"
    BY StatusAfterCases DEF TypeInv, TypeOK
<1>2. TookEffect(verb, c) <=> Says(NewEntries, c, {"applied", "weight_update"})
    BY EffectIs
<1>3. Says(NewEntries, c, {"applied", "weight_update"}) <=> e.event # "rejected"
    BY DEF Says
<1>4. QED BY <1>1, <1>2, <1>3, AnswerReturned DEF Verbs

LEMMA ApplyAnswered ==
    ASSUME TypeInv, NEW c \in ChangeSets, Apply(c)
    PROVE  Answered("apply", c)
<1> DEFINE st == status[c]
<1>1. st \in {"GATE_APPROVED", "APPROVED"} /\ ApplyAs(c, st, <<>>)
    BY DEF Apply
<1>2. (\E e : EndsWith(c, st, <<>>, e)) \/ Escapes(c, st, <<>>)
    BY <1>1, ApplyWrites
<1>3. ASSUME NEW e, EndsWith(c, st, <<>>, e) PROVE Answered("apply", c)
    <2>1. <<>> \o <<e>> = <<e>>
        OBVIOUS
    <2>2. /\ e.cs = c /\ e.event \in {"applied", "weight_update", "rejected"}
          /\ Journaled(<<e>>) /\ status' = [status EXCEPT ![c] = StatusAfter(e)]
        BY <1>3, <2>1 DEF EndsWith
    <2> DEFINE none == {entry \in {e} : FALSE}
    <2>3. NewEntries = {e} \cup none /\ \A p \in none : p.event = "approved"
        BY <2>2, NewEntriesAre
    <2> HIDE DEF none
    <2>4. QED BY <1>1, <2>2, <2>3, EndAnswered
<1>4. CASE Escapes(c, st, <<>>)
    <2>1. Journaled(<<>>) /\ status'[c] = st
        BY <1>4 DEF Escapes, TypeInv, TypeOK
    <2>2. NewEntries = {}
        BY <2>1, NewEntriesAre
    <2>3. ~TookEffect("apply", c)
        BY <2>2, EffectIs DEF Says
    <2>4. QED BY <1>1, <2>1, <2>3, AnswerRaised DEF Verbs
<1>5. QED BY <1>2, <1>3, <1>4

LEMMA ApproveAnswered ==
    ASSUME TypeInv, NEW c \in ChangeSets, NEW a \in Actors, Approve(c, a)
    PROVE  Answered("approve", c)
<1> DEFINE p == [Entry("approved", c) EXCEPT !.by = a, !.gate = "human_review"]
<1>1. status[c] = "QUEUED" /\ ApplyAs(c, "APPROVED", <<p>>) /\ p.event = "approved"
    BY DEF Approve, Entry
<1> HIDE DEF p
<1>2. (\E e : EndsWith(c, "APPROVED", <<p>>, e)) \/ Escapes(c, "APPROVED", <<p>>)
    BY <1>1, ApplyWrites
<1>3. ASSUME NEW e, EndsWith(c, "APPROVED", <<p>>, e) PROVE Answered("approve", c)
    <2>1. <<p>> \o <<e>> = <<p, e>>
        BY ShortConcats
    <2>2. /\ e.cs = c /\ e.event \in {"applied", "weight_update", "rejected"}
          /\ Journaled(<<p, e>>) /\ status' = [status EXCEPT ![c] = StatusAfter(e)]
        BY <1>3, <2>1 DEF EndsWith
    <2>3. NewEntries = {e} \cup {p}
        BY <2>2, NewEntriesAre
    <2>4. QED BY <1>1, <2>2, <2>3, EndAnswered
<1>4. CASE Escapes(c, "APPROVED", <<p>>)
    <2>1. Journaled(<<p>>) /\ status'[c] = "APPROVED"
        BY <1>4 DEF Escapes, TypeInv, TypeOK
    <2>2. NewEntries = {p}
        BY <2>1, NewEntriesAre
    <2>3. ~TookEffect("approve", c)
        BY <1>1, <2>2, EffectIs DEF Says
    <2>4. QED BY <2>1, <2>3, AnswerRaised DEF Verbs
<1>5. QED BY <1>2, <1>3, <1>4

LEMMA RejectAnswered ==
    ASSUME TypeInv, NEW c \in ChangeSets, NEW a \in Actors, Reject(c, a)
    PROVE  Answered("reject", c)
<1> DEFINE e == [Rejected(c, "human_review") EXCEPT !.by = a]
           out == Outcome(TRUE, "REJECTED")
<1>1. e.cs = c /\ e.event = "rejected"
    BY DEF Rejected, Entry
<1>2. /\ Journaled(<<e>>) /\ status' = [status EXCEPT ![c] = "REJECTED"]
      /\ status[c] = "QUEUED"
    BY DEF Reject
<1> HIDE DEF e
<1>3. NewEntries = {e} /\ status'[c] = "REJECTED"
    BY <1>2, NewEntriesAre DEF TypeInv, TypeOK
<1>4. TookEffect("reject", c)
    BY <1>1, <1>3, EffectIs DEF Says
<1>5. Returned("reject", c) = out
    BY <1>2, <1>3 DEF Returned
<1>6. out.ok = TRUE /\ out.status = "REJECTED"
    BY DEF Outcome
<1> HIDE DEF out
<1>7. ExitCode(out) = "exit 0"
    BY <1>6 DEF ExitCode
<1>8. QED BY <1>4, <1>5, <1>7 DEF Answered, Accepts

LEMMA PromoteAnswered ==
    ASSUME TypeInv, NEW c \in ChangeSets, Promote(c)
    PROVE  Answered("promote", c)
<1> DEFINE e == Entry("promoted", c)
<1>1. e.cs = c /\ e.event = "promoted"
    BY DEF Entry
<1>2. /\ Journaled(<<e>>) /\ status' = [status EXCEPT ![c] = "PROMOTED"]
      /\ status[c] = "APPLIED"
    BY DEF Promote
<1> HIDE DEF e
<1>3. NewEntries = {e} /\ status'[c] = "PROMOTED"
    BY <1>2, NewEntriesAre DEF TypeInv, TypeOK
<1>4. TookEffect("promote", c)
    BY <1>1, <1>3, EffectIs DEF Says
<1>5. QED BY <1>2, <1>3, <1>4, AnswerReturned DEF Verbs

LEMMA RollbackAnswered ==
    ASSUME TypeInv, NEW c \in ChangeSets, Rollback(c) \/ RollbackEscapes(c)
    PROVE  Answered("rollback", c)
<1>1. CASE RollbackEscapes(c)
    <2>1. UNCHANGED <<journal, status>> /\ status[c] # "SUGGESTED"
        BY <1>1 DEF RollbackEscapes, CanRollBack, stateVars
    <2>2. NewEntries = {}
        BY <2>1, NewEntriesAre
    <2>3. ~TookEffect("rollback", c)
        BY <2>2, EffectIs DEF Says
    <2>4. QED BY <2>1, <2>3, AnswerRaised DEF Verbs
<1>2. CASE Rollback(c)
    <2> DEFINE e == RolledBack(c, snapshot[c])
               layer == folder[c].layer
               lowered == Ratchet(Append(journal, e), layer)
               f == [Entry("policy_changed", NoChangeSet) EXCEPT
                        !.gate = "de_escalation",
                        !.ext = [layer |-> layer, from |-> levels[layer], to |-> lowered]]
    <2>1. e.cs = c /\ e.event = "rolled_back"
        BY DEF RolledBack, Entry
    <2>2. /\ Journaled(<<e>> \o LevelDrop(layer, lowered))
          /\ status' = [status EXCEPT ![c] = "ROLLED_BACK"]
          /\ status[c] \in Live
        BY <1>2 DEF Rollback, CanRollBack, Live
    <2>3. LevelDrop(layer, lowered) = <<>> \/ LevelDrop(layer, lowered) = <<f>>
        BY DEF LevelDrop
    <2> HIDE DEF e, f, lowered
    <2>4. <<e>> \o <<>> = <<e>> /\ <<e>> \o <<f>> = <<e, f>>
        BY ShortConcats
    <2>5. Journaled(<<e>>) \/ Journaled(<<e, f>>)
        BY <2>2, <2>3, <2>4
    <2>6. e \in NewEntries
        BY <2>5, NewEntriesAre
    <2>7. status'[c] = "ROLLED_BACK" /\ status[c] # "ROLLED_BACK"
        BY <2>2 DEF TypeInv, TypeOK, Live
    <2>8. TookEffect("rollback", c)
        BY <2>1, <2>6, EffectIs DEF Says
    <2>9. QED BY <2>7, <2>8, AnswerReturned DEF Verbs
<1>3. QED BY <1>1, <1>2

\* Whoever goes by the answer of a command, at the command line or through the SDK, is
\* not misled about its effect (the exit codes of cli.py, the returns and exceptions of
\* the SDK), in any environment.
THEOREM AnswersTellTheTruth == Spec => AnswersAreTrue
<1>1. ASSUME TypeInv, TypeInv', NEW verb \in Verbs, NEW c \in ChangeSets, NEW a \in Actors,
             Runs(verb, c, a)
      PROVE  Answered(verb, c)
    <2>1. CASE verb = "propose"
        BY <1>1, <2>1, ProposeAnswered DEF Runs
    <2>2. CASE verb = "gate"
        BY <1>1, <2>2, GateAnswered DEF Runs
    <2>3. CASE verb = "apply"
        BY <1>1, <2>3, ApplyAnswered DEF Runs
    <2>4. CASE verb = "approve"
        BY <1>1, <2>4, ApproveAnswered DEF Runs
    <2>5. CASE verb = "reject"
        BY <1>1, <2>5, RejectAnswered DEF Runs
    <2>6. CASE verb = "promote"
        BY <1>1, <2>6, PromoteAnswered DEF Runs
    <2>7. CASE verb = "rollback"
        BY <1>1, <2>7, RollbackAnswered DEF Runs
    <2>8. QED BY <2>1, <2>2, <2>3, <2>4, <2>5, <2>6, <2>7 DEF Verbs
<1>2. TypeInv /\ [Next]_vars =>
        [\A verb \in Verbs, c \in ChangeSets, a \in Actors : Runs(verb, c, a) =>
            LET outcome == Returned(verb, c)
                suggested == verb = "gate" /\ status'[c] = "SUGGESTED"
            IN /\ Accepts(ExitCode(outcome)) <=> TookEffect(verb, c) \/ suggested
               /\ verb # "reject" =>
                    (Accepts(Reply(verb, outcome)) <=> TookEffect(verb, c))]_vars
    BY <1>1, NextTypeInv DEF Answered
<1>3. QED BY <1>2, TypeCorrect, PTL DEF Spec, AnswersAreTrue
-----------------------------------------------------------------------------
\* The hypothesis of the theorems about contents.

\* Files change through commands only, and nothing raises between the payload and the
\* journal: no rollback meets an empty actor, git is there or not needed, no check
\* command raises, no artifact is copied over the file of another record, and every
\* evidence record loads.  The run escaped_check shows what one of them does.
Undisturbed ==
    /\ Environment \cap {"hand_edit", "empty_actor", "git_missing", "check_raises",
                         "clobber"} = {}
    /\ \A c \in ChangeSets : \A cs \in Proposals[c] : EvidenceLoads(cs)
    /\ \A r \in Attachable : r.form = "valid"

LoadsInv == \A c \in ChangeSets : folder[c] # NoFolder => EvidenceLoads(folder[c])
-----------------------------------------------------------------------------
\* Evidence.

\* What attaching a record does to the listing, as long as no artifact is clobbered.
Attached(c, new) ==
    /\ folder[c] # NoFolder
    /\ folder' = [folder EXCEPT ![c].evidence = new]
    /\ \A e \in EvidenceIds : new[e] \in Attachable \/ new[e] = folder[c].evidence[e]

LEMMA AttachedOne ==
    ASSUME TypeInv, "clobber" \notin Environment,
           NEW c \in ChangeSets, AttachEvidence(c) \/ AttachRefused(c)
    PROVE  \E new : Attached(c, new)
<1>1. /\ folder[c] # NoFolder
      /\ folder[c].evidence \in EvidenceListing
    BY AttachSteps DEF ChangeSetFolder
<1>2. Copied(folder[c].evidence) = {folder[c].evidence}
    BY DEF Copied
<1>3. \A r \in Attachable : AsAttached(r) = {r}
    BY DEF AsAttached
<1> DEFINE old == folder[c].evidence
<1>4. CASE folder' = [folder EXCEPT ![c].evidence = old]
    BY <1>1, <1>4 DEF Attached
<1>5. ASSUME NEW e \in EvidenceIds, NEW r \in Attachable,
             folder' = [folder EXCEPT ![c].evidence = [old EXCEPT ![e] = r]]
      PROVE  \E new : Attached(c, new)
    <2> DEFINE new == [old EXCEPT ![e] = r]
    <2>1. \A x \in EvidenceIds : new[x] = IF x = e THEN r ELSE old[x]
        BY <1>1 DEF EvidenceListing
    <2> HIDE DEF new
    <2>2. Attached(c, new)
        BY <1>1, <1>5, <2>1 DEF Attached, new
    <2>3. QED BY <2>2
<1>6. QED BY <1>2, <1>3, <1>4, <1>5, AttachSteps

\* Folders are written once, when a change is created, and evidence is attached to them.
LEMMA FolderSteps ==
    ASSUME TypeInv, "clobber" \notin Environment, [Next]_vars
    PROVE  \/ folder' = folder
           \/ \E c \in ChangeSets :
                /\ folder[c] = NoFolder
                /\ \E cs \in Proposals[c] : folder' = [folder EXCEPT ![c] = cs]
           \/ \E c \in ChangeSets : \E new : Attached(c, new)
<1>1. ASSUME NEW c \in ChangeSets, Propose(c) \/ ProposeBadId(c)
      PROVE  /\ folder[c] = NoFolder
             /\ \E cs \in Proposals[c] : folder' = [folder EXCEPT ![c] = cs]
    BY <1>1 DEF Propose, ProposeBadId
<1>2. ASSUME NEW c \in ChangeSets,
             \/ GateSuggest(c) \/ GateReject(c) \/ GateQueue(c) \/ GateAuto(c)
             \/ Apply(c) \/ Promote(c) \/ Rollback(c) \/ RollbackEscapes(c)
             \/ \E a \in Actors : Approve(c, a) \/ Reject(c, a)
      PROVE  folder' = folder
    BY <1>2
    DEF GateSuggest, GateReject, GateQueue, GateAuto, GateTo, Apply, ApplyAs, Promote, Rollback,
        RollbackEscapes, Approve, Reject
<1>3. CASE HandEdit \/ EditPolicy \/ Tick \/ UNCHANGED vars
    BY <1>3 DEF HandEdit, EditPolicy, Tick, vars
<1>4. QED BY <1>1, <1>2, <1>3, AttachedOne DEF Next

-----------------------------------------------------------------------------
\* What a step does to the files.

LEMMA NextLoads ==
    ASSUME Undisturbed, TypeInv, LoadsInv, [Next]_vars
    PROVE  LoadsInv'
<1>1. folder \in [ChangeSets -> ChangeSetFolder \cup {NoFolder}]
    BY DEF TypeInv, TypeOK
<1>2. CASE folder' = folder
    BY <1>2 DEF LoadsInv
<1>3. ASSUME NEW d \in ChangeSets, NEW cs \in Proposals[d],
             folder' = [folder EXCEPT ![d] = cs]
      PROVE  LoadsInv'
    BY <1>1, <1>3 DEF LoadsInv, Undisturbed
<1>4. ASSUME NEW d \in ChangeSets, NEW new, Attached(d, new)
      PROVE  LoadsInv'
    <2>1. /\ folder[d] \in ChangeSetFolder
          /\ folder' = [folder EXCEPT ![d].evidence = new]
        BY <1>1, <1>4 DEF Attached
    <2>2. folder'[d].evidence = new
        BY <1>1, <2>1 DEF ChangeSetFolder
    <2>3. ASSUME NEW e \in EvidenceIds, new[e] # Unlisted
          PROVE  new[e].form = "valid"
        <3>1. CASE new[e] \in Attachable
            BY <3>1 DEF Undisturbed
        <3>2. CASE new[e] = folder[d].evidence[e]
            BY <1>4, <2>3, <3>2 DEF Attached, LoadsInv, EvidenceLoads, Records, Listed
        <3>3. QED BY <1>4, <3>1, <3>2 DEF Attached
    <2>4. EvidenceLoads(folder'[d])
        BY <2>2, <2>3 DEF EvidenceLoads, Records, Listed
    <2>5. QED BY <1>1, <2>1, <2>4 DEF LoadsInv
<1>5. "clobber" \notin Environment
    BY DEF Undisturbed
<1>6. QED BY <1>2, <1>3, <1>4, <1>5, FolderSteps

LEMMA UndisturbedAlways ==
    ASSUME Undisturbed
    PROVE  Spec => [](TypeInv /\ LoadsInv /\ SnapshotInv)
<1>1. Init => LoadsInv
    BY DEF Init, LoadsInv
<1>2. TypeInv /\ LoadsInv /\ [Next]_vars => LoadsInv'
    BY NextLoads
<1>3. QED BY <1>1, <1>2, SnapshotAlways, PTL DEF Spec

\* The entry is journaled in this step.
WrittenNow(e) == \E i \in DOMAIN journal' \ DOMAIN journal : journal'[i] = e

\* Some targets are written, with their heads, and the entry e records it.
Writes(c, e) ==
    /\ WrittenNow(e)
    /\ e.event \in ContentEvents
    /\ e.before = Image(files, folder[c].targets)
    /\ e.after \in [folder[c].targets -> FileState]
    /\ files' = Written(files, e.after)
    /\ heads' = Written(heads, e.after)

\* A change is applied, and its snapshot taken.
Installs(c) ==
    /\ folder[c].payload.type # "opaque"
    /\ status' = [status EXCEPT ![c] = "APPLIED"]
    /\ snapshot' = [snapshot EXCEPT ![c] = Image(files, folder[c].targets)]
    /\ \E e : Writes(c, e)

\* An attempt to apply that leaves the files as they were, with the status s.
Leaves(c, s) ==
    /\ UNCHANGED <<files, heads>>
    /\ status' = [status EXCEPT ![c] = s]
    /\ \E x : snapshot' = [snapshot EXCEPT ![c] = x]

LEMMA ApprovalType ==
    ASSUME NEW c \in ChangeSets, NEW a \in Actors
    PROVE  [Entry("approved", c) EXCEPT !.by = a, !.gate = "human_review"] \in JournalEntry
<1> DEFINE old == Entry("approved", c)
<1>1. old \in JournalEntry
    BY EntryType DEF Event
<1> HIDE DEF old
<1>2. [old EXCEPT !.by = a, !.gate = "human_review"] \in JournalEntry
    BY <1>1 DEF JournalEntry
<1>3. QED BY <1>2 DEF old

LEMMA LastWritten ==
    ASSUME TypeInv, NEW prior \in Seq(JournalEntry), NEW e, Journaled(prior \o <<e>>)
    PROVE  WrittenNow(e)
<1> DEFINE S == JournalEntry \cup {e}
           es == prior \o <<e>>
           k == Len(es)
           n == Len(journal)
<1>1. prior \in Seq(S) /\ <<e>> \in Seq(S)
    OBVIOUS
<1>2. es \in Seq(S) /\ Len(es) = Len(prior) + 1 /\ es[Len(prior) + 1] = e
    BY <1>1, ConcatProperties
<1>3. k \in DOMAIN es /\ es[k] = e /\ k \in Nat /\ k >= 1
    BY <1>2
<1> HIDE DEF S, es, k
<1>4. /\ n \in Nat /\ DOMAIN journal = 1 .. n
      /\ DOMAIN journal' = 1 .. (n + Len(es))
      /\ journal'[n + k] = e
    BY <1>2, <1>3, JournalGrows DEF es
<1> HIDE DEF n
<1>5. n + k \in 1 .. (n + Len(es)) /\ n + k \notin 1 .. n
    BY <1>3, <1>4 DEF k
<1>6. QED BY <1>4, <1>5 DEF WrittenNow

\* Putting back what was there undoes whatever was written over it.
LEMMA RestoreUndoes ==
    ASSUME NEW targets \in SUBSET Paths, NEW touched \in SUBSET targets,
           NEW partial \in [touched -> FileState], NEW fs \in [Paths -> FileState]
    PROVE  Restore(Written(fs, partial), Image(fs, targets)) = fs
BY DEF Restore, Written, Image

LEMMA ApplyOnFiles ==
    ASSUME Undisturbed, TypeInv, LoadsInv, NEW c \in ChangeSets, status[c] # "UNKNOWN", NEW st,
           NEW prior \in Seq(JournalEntry), ApplyAs(c, st, prior)
    PROVE  \/ Installs(c)
           \/ Leaves(c, "REJECTED")
           \/ Leaves(c, st)
           \/ Leaves(c, "APPLIED") /\ folder[c].payload.type = "opaque"
<1> DEFINE cs == folder[c]
<1>1. /\ cs.targets \in SUBSET Paths /\ cs.payload \in PayloadRecord
      /\ files \in [Paths -> FileState]
      /\ snapshot \in [ChangeSets -> PartialFiles \cup {NoSnapshot}]
    BY FolderFacts DEF TypeInv, TypeOK
<1>2. EvidenceLoads(cs)
    BY DEF LoadsInv, TypeInv, KnownHasFolder
<1>3. CASE WeightUpdate(c, st, prior)
    <2>1. snapshot' = [snapshot EXCEPT ![c] = snapshot[c]]
        BY <1>1, <1>3 DEF WeightUpdate
    <2>2. QED BY <1>3, <2>1 DEF WeightUpdate, Leaves
<1>4. CASE ApplyEscapes(c, st, prior)
    BY <1>2, <1>4 DEF ApplyEscapes, RaisesWritten, Undisturbed, TakeSnapshot, Leaves
<1>5. CASE ApplyReverts(c, st, prior)
    <2>1. PICK touched \in SUBSET cs.targets :
            \E partial \in [touched -> FileState] :
                files' = Restore(Written(files, partial), snapshot'[c])
        BY <1>5, RevertsFromHalf
    <2>2. /\ snapshot' = [snapshot EXCEPT ![c] = Image(files, cs.targets)]
          /\ status' = [status EXCEPT ![c] = "REJECTED"]
          /\ heads' = heads
        BY <1>5 DEF ApplyReverts, TakeSnapshot
    <2>3. snapshot'[c] = Image(files, cs.targets)
        BY <1>1, <2>2
    <2>4. files' = files
        BY <1>1, <2>1, <2>3, RestoreUndoes
    <2>5. QED BY <2>2, <2>4 DEF Leaves
<1>6. CASE ApplySucceeds(c, st, prior)
    <2> DEFINE new == PayloadResults(cs.payload, cs.targets, files)
               label == Label(cs, st)
               e == [Entry("applied", c) EXCEPT
                        !.gate = label.gate, !.level = label.level,
                        !.before = Image(files, cs.targets),
                        !.after = Image(files', cs.targets)]
    <2>1. /\ e.event = "applied" /\ e.before = Image(files, cs.targets)
          /\ e.after = Image(files', cs.targets)
        BY DEF Entry
    <2>2. /\ Journaled(prior \o <<e>>)
          /\ cs.payload.type # "opaque"
          /\ files' = Written(files, new)
          /\ heads' = Written(heads, Image(files', cs.targets))
          /\ snapshot' = [snapshot EXCEPT ![c] = Image(files, cs.targets)]
          /\ status' = [status EXCEPT ![c] = "APPLIED"]
          /\ PayloadApplies(cs.payload, cs.targets, files)
        BY <1>6 DEF ApplySucceeds, HeadsRecorded, TakeSnapshot
    <2>3. new \in [cs.targets -> FileState]
        BY <1>1, <2>2, ResultsType
    <2> HIDE DEF e, new
    <2>4. Image(files', cs.targets) = new
        BY <1>1, <2>2, <2>3 DEF Image, Written
    <2>5. WrittenNow(e)
        BY <2>2, LastWritten
    <2>6. Writes(c, e)
        BY <2>1, <2>2, <2>3, <2>4, <2>5 DEF Writes, ContentEvents
    <2>7. QED BY <2>2, <2>6 DEF Installs
<1>7. QED BY <1>3, <1>4, <1>5, <1>6 DEF ApplyAs

\* A rollback puts the snapshot back.
Undoes(c) ==
    /\ status[c] \in Live /\ folder[c].payload.type # "opaque"
    /\ status' = [status EXCEPT ![c] = "ROLLED_BACK"]
    /\ UNCHANGED <<folder, snapshot>>
    /\ snapshot[c] \in [folder[c].targets -> FileState]
    /\ files' = Restore(files, snapshot[c])
    /\ \E e : Writes(c, e)

LEMMA RollbackOnFiles ==
    ASSUME TypeInv, SnapshotInv, NEW c \in ChangeSets, Rollback(c)
    PROVE  Undoes(c)
<1> DEFINE e == RolledBack(c, snapshot[c])
           layer == folder[c].layer
           drop == LevelDrop(layer, Ratchet(Append(journal, e), layer))
           es == <<e>> \o drop
<1>1. /\ status[c] \in Live /\ folder[c].payload.type # "opaque"
      /\ status' = [status EXCEPT ![c] = "ROLLED_BACK"]
      /\ UNCHANGED <<folder, snapshot>>
      /\ files' = Restore(files, snapshot[c])
      /\ heads' = Written(heads, snapshot[c])
      /\ Journaled(es)
    BY DEF Rollback, CanRollBack, HeadsRecorded, Live
<1>2. snapshot[c] \in [folder[c].targets -> FileState]
    BY <1>1 DEF SnapshotInv, Live
<1>3. /\ e.event = "rolled_back" /\ e.after = snapshot[c]
      /\ e.before = Image(files, folder[c].targets)
    BY DEF RolledBack, Entry
<1>4. \E f : drop = <<>> \/ drop = <<f>>
    BY DEF LevelDrop
<1> HIDE DEF e, drop
<1>5. PICK f : drop = <<>> \/ drop = <<f>>
    BY <1>4
<1> DEFINE S == {e, f}
<1>6. <<e>> \in Seq(S) /\ <<f>> \in Seq(S) /\ <<>> \in Seq(S)
    OBVIOUS
<1>7. drop \in Seq(S)
    BY <1>5, <1>6
<1>8. es \in Seq(S) /\ 1 \in DOMAIN es /\ es[1] = e
    BY <1>6, <1>7, ConcatProperties
<1> HIDE DEF es, S
<1>9. /\ Len(journal) + 1 \in DOMAIN journal' /\ journal'[Len(journal) + 1] = e
      /\ Len(journal) + 1 \notin DOMAIN journal
    BY <1>1, <1>8, JournalGrows
<1>10. Writes(c, e)
    BY <1>1, <1>2, <1>3, <1>9 DEF Writes, WrittenNow, ContentEvents, Restore
<1>11. QED BY <1>1, <1>2, <1>10 DEF Undoes
-----------------------------------------------------------------------------
\* The Executor implements the governed store.

Phases == [c \in ChangeSets |-> Phase(c)]

Saved == [c \in ChangeSets |-> IF Phase(c) = "installed" THEN snapshot[c] ELSE NoSnapshot]

PhaseOf(s, type) ==
    IF s \in {"UNKNOWN", "VALIDATED"} THEN "open"
    ELSE IF s \in {"QUEUED", "GATE_APPROVED", "APPROVED"} THEN "passed"
    ELSE IF s \in {"SUGGESTED", "REJECTED"} THEN "closed"
    ELSE IF type = "opaque" THEN "closed"
    ELSE IF s = "ROLLED_BACK" THEN "undone"
    ELSE "installed"

\* The step is about c alone.
Others(c) ==
    \A d \in ChangeSets \ {c} :
        /\ status'[d] = status[d]
        /\ snapshot'[d] = snapshot[d]
        /\ folder'[d].payload = folder[d].payload

LEMMA PhasesAre ==
    ASSUME NEW c \in ChangeSets
    PROVE  /\ Phases[c] = PhaseOf(status[c], folder[c].payload.type)
           /\ Phases'[c] = PhaseOf(status'[c], folder'[c].payload.type)
           /\ Saved[c] = IF Phases[c] = "installed" THEN snapshot[c] ELSE NoSnapshot
           /\ Saved'[c] = IF Phases'[c] = "installed" THEN snapshot'[c] ELSE NoSnapshot
BY DEF Phases, Saved, Phase, PhaseOf

\* A step about c changes the phase and the saved contents of c alone.
LEMMA MapsMove ==
    ASSUME NEW c \in ChangeSets, Others(c)
    PROVE  /\ Phases' = [Phases EXCEPT ![c] = Phases'[c]]
           /\ Saved' = [Saved EXCEPT ![c] = Saved'[c]]
<1>1. /\ Phases = [d \in ChangeSets |-> Phases[d]]
      /\ Phases' = [d \in ChangeSets |-> Phases'[d]]
      /\ Saved = [d \in ChangeSets |-> Saved[d]]
      /\ Saved' = [d \in ChangeSets |-> Saved'[d]]
    BY DEF Phases, Saved
<1>2. \A d \in ChangeSets \ {c} : Phases'[d] = Phases[d] /\ Saved'[d] = Saved[d]
    BY PhasesAre DEF Others
<1>3. QED BY <1>1, <1>2

\* The steps of the store, with the names of the Executor.
LEMMA StoreActions ==
    ASSUME NEW c \in ChangeSets
    PROVE  /\ (/\ Phases[c] = "open"
               /\ Phases' = [Phases EXCEPT ![c] = "passed"]
               /\ UNCHANGED <<files, Saved>>) => Store!PassGates(c)
           /\ (/\ Phases[c] \in {"open", "passed"}
               /\ Phases' = [Phases EXCEPT ![c] = "closed"]
               /\ UNCHANGED <<files, Saved>>) => Store!Close(c)
           /\ (/\ Phases[c] = "passed"
               /\ Phases' = [Phases EXCEPT ![c] = "installed"]
               /\ \E touched \in SUBSET Paths :
                    /\ files' \in [Paths -> FileState]
                    /\ \A f \in Paths \ touched : files'[f] = files[f]
                    /\ Saved' = [Saved EXCEPT ![c] = [f \in touched |-> files[f]]])
              => Store!Install(c)
           /\ (/\ Phases[c] = "installed"
               /\ Phases' = [Phases EXCEPT ![c] = "undone"]
               /\ files' = [f \in Paths |->
                        IF f \in DOMAIN Saved[c] THEN Saved[c][f] ELSE files[f]]
               /\ Saved' = [Saved EXCEPT ![c] = NoSnapshot]) => Store!Undo(c)
BY DEF Phases, Saved, Store!PassGates, Store!Close, Store!Install, Store!Undo

StoreStep == [Store!Next]_Store!storeVars

LEMMA StoreStutters ==
    ASSUME UNCHANGED <<files, Phases, Saved>>
    PROVE  StoreStep
BY DEF Phases, Saved, StoreStep, Store!storeVars

\* Steps about c that leave the files alone: the phase of c stays, or c passes its
\* gates, or is closed.
LEMMA QuietStep ==
    ASSUME NEW c \in ChangeSets, Others(c), UNCHANGED files,
           \/ Phases'[c] = Phases[c] /\ Saved'[c] = Saved[c]
           \/ Phases[c] = "open" /\ Phases'[c] = "passed"
           \/ Phases[c] \in {"open", "passed"} /\ Phases'[c] = "closed"
    PROVE  StoreStep
<1>1. /\ Phases' = [Phases EXCEPT ![c] = Phases'[c]]
      /\ Saved' = [Saved EXCEPT ![c] = Saved'[c]]
      /\ Phases = [d \in ChangeSets |-> Phases[d]]
      /\ Saved = [d \in ChangeSets |-> Saved[d]]
    <2>1. Phases = [d \in ChangeSets |-> Phases[d]] /\ Saved = [d \in ChangeSets |-> Saved[d]]
        BY DEF Phases, Saved
    <2>2. QED BY <2>1, MapsMove
<1>2. Phases[c] # "installed" /\ Phases'[c] # "installed" => Saved'[c] = Saved[c]
    BY PhasesAre
<1>3. Saved'[c] = Saved[c]
    BY <1>2
<1>4. Saved' = Saved
    BY <1>1, <1>3
<1>5. CASE Phases'[c] = Phases[c]
    <2>1. Phases' = Phases
        BY <1>1, <1>5
    <2>2. QED BY <1>4, <2>1, StoreStutters
<1>6. CASE Phases[c] = "open" /\ Phases'[c] = "passed"
    <2>1. Store!PassGates(c)
        BY <1>1, <1>4, <1>6, StoreActions
    <2>2. QED BY <2>1 DEF StoreStep, Store!Next
<1>7. CASE Phases[c] \in {"open", "passed"} /\ Phases'[c] = "closed"
    <2>1. Store!Close(c)
        BY <1>1, <1>4, <1>7, StoreActions
    <2>2. QED BY <2>1 DEF StoreStep, Store!Next
<1>8. QED BY <1>5, <1>6, <1>7

\* Phases by status.
LEMMA PhaseCases ==
    ASSUME NEW type
    PROVE  /\ PhaseOf("UNKNOWN", type) = "open" /\ PhaseOf("VALIDATED", type) = "open"
           /\ PhaseOf("QUEUED", type) = "passed" /\ PhaseOf("GATE_APPROVED", type) = "passed"
           /\ PhaseOf("APPROVED", type) = "passed"
           /\ PhaseOf("SUGGESTED", type) = "closed" /\ PhaseOf("REJECTED", type) = "closed"
           /\ type = "opaque" => PhaseOf("APPLIED", type) = "closed"
           /\ PhaseOf("PROMOTED", type) = PhaseOf("APPLIED", type)
           /\ type # "opaque" => /\ PhaseOf("APPLIED", type) = "installed"
                                 /\ PhaseOf("ROLLED_BACK", type) = "undone"
BY DEF PhaseOf

\* A command on c whose folder stays.
Command(c, s) ==
    /\ status' = [status EXCEPT ![c] = s]
    /\ folder' = folder
    /\ \E x : snapshot' = [snapshot EXCEPT ![c] = x]

LEMMA CommandOthers ==
    ASSUME TypeInv, NEW c \in ChangeSets, NEW s, Command(c, s)
    PROVE  /\ Others(c) /\ status'[c] = s
           /\ Phases'[c] = PhaseOf(s, folder[c].payload.type)
<1>1. Others(c) /\ status'[c] = s /\ folder' = folder
    BY DEF Command, Others, TypeInv, TypeOK
<1>2. QED BY <1>1, PhasesAre

\* An application, with or without its approval.
LEMMA ApplyStore ==
    ASSUME Undisturbed, TypeInv, TypeInv', LoadsInv, NEW c \in ChangeSets,
           status[c] \in {"QUEUED", "GATE_APPROVED", "APPROVED"},
           NEW st \in {"GATE_APPROVED", "APPROVED"},
           NEW prior \in Seq(JournalEntry), ApplyAs(c, st, prior)
    PROVE  StoreStep
<1> DEFINE type == folder[c].payload.type
<1>1. folder' = folder
    BY DEF ApplyAs
<1>2. Phases[c] = "passed"
    BY PhasesAre, PhaseCases
<1>3. ASSUME NEW s \in {"REJECTED", st, "APPLIED"}, Leaves(c, s),
             s = "APPLIED" => type = "opaque"
      PROVE  StoreStep
    <2>1. Command(c, s) /\ UNCHANGED files
        BY <1>1, <1>3 DEF Leaves, Command
    <2>2. Others(c) /\ Phases'[c] = PhaseOf(s, type)
        BY <2>1, CommandOthers
    <2>3. Phases'[c] \in {"passed", "closed"}
        BY <1>3, <2>2, PhaseCases
    <2>4. Phases'[c] = "passed" => Saved'[c] = Saved[c]
        BY <1>2, PhasesAre
    <2>5. QED BY <1>2, <2>1, <2>2, <2>3, <2>4, QuietStep
<1>4. CASE Installs(c)
    <2> DEFINE targets == folder[c].targets
               image == Image(files, targets)
    <2>1. /\ type # "opaque" /\ status' = [status EXCEPT ![c] = "APPLIED"]
          /\ snapshot' = [snapshot EXCEPT ![c] = image]
        BY <1>4 DEF Installs
    <2>2. PICK e : /\ e.after \in [targets -> FileState]
                   /\ files' = Written(files, e.after)
        BY <1>4 DEF Installs, Writes
    <2>3. targets \in SUBSET Paths /\ files' \in [Paths -> FileState]
        BY FolderFacts DEF TypeInv, TypeOK
    <2>4. snapshot'[c] = image
        BY <2>1 DEF TypeInv, TypeOK
    <2> HIDE DEF image
    <2>5. Command(c, "APPLIED")
        BY <1>1, <2>1 DEF Command
    <2>6. Others(c) /\ Phases'[c] = "installed"
        BY <2>1, <2>5, CommandOthers, PhaseCases
    <2>7. Saved'[c] = image
        BY <2>4, <2>6, PhasesAre
    <2>8. /\ Phases' = [Phases EXCEPT ![c] = "installed"]
          /\ Saved' = [Saved EXCEPT ![c] = image]
        BY <2>6, <2>7, MapsMove
    <2>9. image = [f \in targets |-> files[f]]
        BY DEF image, Image
    <2>10. \A f \in Paths \ targets : files'[f] = files[f]
        BY <2>2 DEF Written
    <2>11. Store!Install(c)
        BY <1>2, <2>3, <2>8, <2>9, <2>10, StoreActions
    <2>12. QED BY <2>11 DEF StoreStep, Store!Next
<1>5. QED BY <1>3, <1>4, ApplyOnFiles

LEMMA RollbackStore ==
    ASSUME TypeInv, SnapshotInv, NEW c \in ChangeSets, Rollback(c)
    PROVE  StoreStep
<1>1. /\ status[c] \in Live /\ folder[c].payload.type # "opaque"
      /\ status' = [status EXCEPT ![c] = "ROLLED_BACK"]
      /\ UNCHANGED <<folder, snapshot>>
      /\ files' = Restore(files, snapshot[c])
    BY RollbackOnFiles DEF Undoes
<1>2. Phases[c] = "installed" /\ Saved[c] = snapshot[c]
    BY <1>1, PhasesAre, PhaseCases DEF Live
<1>3. Command(c, "ROLLED_BACK")
    <2>1. snapshot' = [snapshot EXCEPT ![c] = snapshot[c]]
        BY <1>1 DEF TypeInv, TypeOK
    <2>2. QED BY <1>1, <2>1 DEF Command
<1>4. Others(c) /\ Phases'[c] = "undone"
    BY <1>1, <1>3, CommandOthers, PhaseCases
<1>5. Saved'[c] = NoSnapshot
    BY <1>4, PhasesAre
<1>6. /\ Phases' = [Phases EXCEPT ![c] = "undone"]
      /\ Saved' = [Saved EXCEPT ![c] = NoSnapshot]
    BY <1>4, <1>5, MapsMove
<1>7. files' = [f \in Paths |-> IF f \in DOMAIN Saved[c] THEN Saved[c][f] ELSE files[f]]
    BY <1>1, <1>2 DEF Restore, Written
<1>8. Store!Undo(c)
    BY <1>2, <1>6, <1>7, StoreActions
<1>9. QED BY <1>8 DEF StoreStep, Store!Next

\* Every step of an undisturbed Executor is a step of the store, or changes nothing that
\* the store shows.
LEMMA NextStore ==
    ASSUME Undisturbed, TypeInv, LoadsInv, SnapshotInv, [Next]_vars
    PROVE  StoreStep
<1>1. /\ TypeInv' /\ snapshot \in [ChangeSets -> PartialFiles \cup {NoSnapshot}]
      /\ status \in [ChangeSets -> Status]
      /\ folder \in [ChangeSets -> ChangeSetFolder \cup {NoFolder}]
    BY NextTypeInv DEF TypeInv, TypeOK
<1>2. ASSUME NEW c \in ChangeSets, Propose(c) \/ ProposeBadId(c)
      PROVE  StoreStep
    <2>1. /\ folder[c] = NoFolder
          /\ \E cs : folder' = [folder EXCEPT ![c] = cs]
          /\ \E s \in {"UNKNOWN", "VALIDATED", "REJECTED"} : status' = [status EXCEPT ![c] = s]
          /\ UNCHANGED <<files, snapshot>>
        <3>1. folder[c] = NoFolder
            BY <1>2 DEF Propose, ProposeBadId
        <3>2. status[c] = "UNKNOWN"
            BY <3>1 DEF TypeInv, KnownHasFolder
        <3>3. status = [status EXCEPT ![c] = "UNKNOWN"]
            BY <1>1, <3>2
        <3>4. QED BY <1>2, <3>1, <3>3 DEF Propose, ProposeBadId, stateVars
    <2>2. Others(c) /\ status[c] = "UNKNOWN" /\ status'[c] \in {"UNKNOWN", "VALIDATED", "REJECTED"}
        BY <1>1, <2>1 DEF Others, TypeInv, KnownHasFolder
    <2>3. Phases[c] = "open" /\ Phases'[c] \in {"open", "closed"}
        BY <2>2, PhasesAre, PhaseCases
    <2>4. Phases'[c] = "open" => Saved'[c] = Saved[c]
        BY <2>3, PhasesAre
    <2>5. QED BY <2>1, <2>2, <2>3, <2>4, QuietStep
<1>3. ASSUME NEW c \in ChangeSets, AttachEvidence(c) \/ AttachRefused(c)
      PROVE  StoreStep
    <2>1. /\ UNCHANGED <<files, status, snapshot>>
          /\ \E listing : folder' = [folder EXCEPT ![c].evidence = listing]
          /\ folder[c] \in ChangeSetFolder
        BY <1>1, <1>3 DEF AttachEvidence, AttachRefused, stateVars
    <2>2. \A d \in ChangeSets : folder'[d].payload = folder[d].payload
        BY <1>1, <2>1 DEF ChangeSetFolder
    <2>3. Others(c)
        BY <2>1, <2>2 DEF Others
    <2>4. Phases'[c] = Phases[c] /\ Saved'[c] = Saved[c]
        BY <2>1, <2>2, PhasesAre
    <2>5. QED BY <2>1, <2>3, <2>4, QuietStep
<1>4. ASSUME NEW c \in ChangeSets, NEW s, status' = [status EXCEPT ![c] = s],
             UNCHANGED <<files, folder, snapshot>>,
             \/ /\ status[c] = "VALIDATED"
                /\ s \in {"SUGGESTED", "QUEUED", "REJECTED", "GATE_APPROVED"}
             \/ status[c] = "QUEUED" /\ s = "REJECTED"
             \/ status[c] = "APPLIED" /\ s = "PROMOTED"
      PROVE  StoreStep
    <2>1. Command(c, s)
        <3>1. snapshot' = [snapshot EXCEPT ![c] = snapshot[c]]
            BY <1>1, <1>4
        <3>2. QED BY <1>4, <3>1 DEF Command
    <2>2. Others(c) /\ Phases'[c] = PhaseOf(s, folder[c].payload.type)
        BY <2>1, CommandOthers
    <2>3. Phases[c] = PhaseOf(status[c], folder[c].payload.type)
        BY PhasesAre
    <2>4. \/ Phases[c] = "open" /\ Phases'[c] \in {"passed", "closed"}
          \/ Phases[c] = "passed" /\ Phases'[c] = "closed"
          \/ Phases'[c] = Phases[c]
        BY <1>4, <2>2, <2>3, PhaseCases
    <2>5. Phases'[c] = Phases[c] => Saved'[c] = Saved[c]
        BY <1>4, PhasesAre
    <2>6. QED BY <1>4, <2>2, <2>4, <2>5, QuietStep
<1>5. ASSUME NEW c \in ChangeSets,
             GateSuggest(c) \/ GateReject(c) \/ GateQueue(c) \/ GateAuto(c)
      PROVE  StoreStep
    <2>1. /\ UNCHANGED <<files, folder, snapshot>> /\ status[c] = "VALIDATED"
          /\ \E s \in {"SUGGESTED", "QUEUED", "REJECTED", "GATE_APPROVED"} :
                status' = [status EXCEPT ![c] = s]
        BY <1>5 DEF GateSuggest, GateReject, GateQueue, GateAuto, GateTo
    <2>2. QED BY <1>4, <2>1
<1>6. ASSUME NEW c \in ChangeSets, Promote(c) \/ \E a \in Actors : Reject(c, a)
      PROVE  StoreStep
    <2>1. /\ UNCHANGED <<files, folder, snapshot>>
          /\ \/ status[c] = "QUEUED" /\ status' = [status EXCEPT ![c] = "REJECTED"]
             \/ status[c] = "APPLIED" /\ status' = [status EXCEPT ![c] = "PROMOTED"]
        BY <1>6 DEF Promote, Reject
    <2>2. QED BY <1>4, <2>1
<1>7. ASSUME NEW c \in ChangeSets, Apply(c)
      PROVE  StoreStep
    <2>1. status[c] \in {"GATE_APPROVED", "APPROVED"} /\ ApplyAs(c, status[c], <<>>)
        BY <1>7 DEF Apply
    <2>2. <<>> \in Seq(JournalEntry)
        OBVIOUS
    <2>3. QED BY <1>1, <2>1, <2>2, ApplyStore
<1>8. ASSUME NEW c \in ChangeSets, NEW a \in Actors, Approve(c, a)
      PROVE  StoreStep
    <2> DEFINE p == [Entry("approved", c) EXCEPT !.by = a, !.gate = "human_review"]
    <2>1. ApplyAs(c, "APPROVED", <<p>>) /\ status[c] = "QUEUED"
        BY <1>8 DEF Approve
    <2>2. p \in JournalEntry
        BY ApprovalType
    <2> HIDE DEF p
    <2>3. <<p>> \in Seq(JournalEntry)
        BY <2>2
    <2>4. QED BY <1>1, <2>1, <2>3, ApplyStore
<1>9. ASSUME UNCHANGED <<files, status, folder, snapshot>>
      PROVE  StoreStep
    <2>1. Phases' = Phases /\ Saved' = Saved
        BY <1>9 DEF Phases, Saved, Phase
    <2>2. QED BY <1>9, <2>1, StoreStutters
<1>10. CASE HandEdit \/ EditPolicy \/ Tick \/ UNCHANGED vars
    BY <1>9, <1>10 DEF HandEdit, EditPolicy, Tick, vars, stateVars, Undisturbed
<1>11. \A c \in ChangeSets : ~RollbackEscapes(c)
    BY DEF RollbackEscapes, Undisturbed
<1>12. QED
    BY <1>2, <1>3, <1>5, <1>6, <1>7, <1>8, <1>10, <1>11, RollbackStore DEF Next

\* The executor implements the governed store, undisturbed.
THEOREM ExecutorImplementsStore ==
    ASSUME Undisturbed
    PROVE  Spec => ImplementsStore
<1>1. Init => Store!Init
    BY ExecutorAssumption DEF Init, Store!Init, Phase
<1>2. TypeInv /\ LoadsInv /\ SnapshotInv /\ [Next]_vars => [Store!Next]_Store!storeVars
    BY NextStore DEF StoreStep
<1>3. QED
    BY <1>1, <1>2, UndisturbedAlways, PTL DEF Spec, ImplementsStore, Store!Spec
-----------------------------------------------------------------------------
\* Files and heads move together, and are journaled when they move.

LEMMA StepOnFiles ==
    ASSUME Undisturbed, TypeInv, LoadsInv, SnapshotInv, [Next]_vars
    PROVE  \/ UNCHANGED <<files, heads>>
           \/ \E c \in ChangeSets : \E e : folder[c].targets \in SUBSET Paths /\ Writes(c, e)
<1>1. ASSUME NEW c \in ChangeSets, status[c] # "UNKNOWN", NEW st,
             NEW prior \in Seq(JournalEntry), ApplyAs(c, st, prior)
      PROVE  \/ UNCHANGED <<files, heads>>
             \/ \E e : folder[c].targets \in SUBSET Paths /\ Writes(c, e)
    BY <1>1, ApplyOnFiles, FolderFacts DEF Installs, Leaves
<1>2. ASSUME NEW c \in ChangeSets, Apply(c)
      PROVE  \/ UNCHANGED <<files, heads>>
             \/ \E e : folder[c].targets \in SUBSET Paths /\ Writes(c, e)
    <2>1. <<>> \in Seq(JournalEntry)
        OBVIOUS
    <2>2. QED BY <1>1, <1>2, <2>1 DEF Apply
<1>3. ASSUME NEW c \in ChangeSets, NEW a \in Actors, Approve(c, a)
      PROVE  \/ UNCHANGED <<files, heads>>
             \/ \E e : folder[c].targets \in SUBSET Paths /\ Writes(c, e)
    <2> DEFINE p == [Entry("approved", c) EXCEPT !.by = a, !.gate = "human_review"]
    <2>1. ApplyAs(c, "APPROVED", <<p>>) /\ status[c] = "QUEUED"
        BY <1>3 DEF Approve
    <2>2. p \in JournalEntry
        BY ApprovalType
    <2> HIDE DEF p
    <2>3. <<p>> \in Seq(JournalEntry)
        BY <2>2
    <2>4. QED BY <1>1, <2>1, <2>3
<1>4. ASSUME NEW c \in ChangeSets, Rollback(c)
      PROVE  \E e : folder[c].targets \in SUBSET Paths /\ Writes(c, e)
    BY <1>4, RollbackOnFiles, FolderFacts DEF Undoes, Live
<1>5. ASSUME NEW c \in ChangeSets,
             \/ Propose(c) \/ ProposeBadId(c) \/ AttachEvidence(c) \/ AttachRefused(c)
             \/ GateSuggest(c) \/ GateReject(c) \/ GateQueue(c) \/ GateAuto(c)
             \/ Promote(c) \/ \E a \in Actors : Reject(c, a)
      PROVE  UNCHANGED <<files, heads>>
    BY <1>5
    DEF Propose, ProposeBadId, AttachEvidence, AttachRefused, GateSuggest, GateReject, GateQueue,
        GateAuto, GateTo, Promote, Reject, stateVars
<1>6. CASE HandEdit \/ EditPolicy \/ Tick \/ UNCHANGED vars
    BY <1>6 DEF HandEdit, EditPolicy, Tick, vars, stateVars, Undisturbed
<1>7. \A c \in ChangeSets : ~RollbackEscapes(c)
    BY DEF RollbackEscapes, Undisturbed
<1>8. QED BY <1>2, <1>3, <1>4, <1>5, <1>6, <1>7 DEF Next

\* state.json vouches for every line of the journal, after every command.
LEMMA NextVouches ==
    ASSUME journalHead = Len(journal), [Next]_vars
    PROVE  journalHead' = Len(journal')
<1>1. ASSUME NEW es, Journaled(es) PROVE journalHead' = Len(journal')
    BY <1>1 DEF Journaled
<1>2. ASSUME UNCHANGED <<journal, journalHead>> PROVE journalHead' = Len(journal')
    BY <1>2
<1>3. ASSUME NEW c \in ChangeSets,
             \/ Propose(c) \/ GateSuggest(c) \/ GateReject(c) \/ GateQueue(c) \/ GateAuto(c)
             \/ Promote(c) \/ Rollback(c) \/ \E a \in Actors : Reject(c, a)
      PROVE  \E es : Journaled(es)
    BY <1>3
    DEF Propose, GateSuggest, GateReject, GateQueue, GateAuto, GateTo, Promote, Rollback, Reject
<1>4. ASSUME NEW c, NEW st, NEW prior, ApplyAs(c, st, prior)
      PROVE  \E es : Journaled(es)
    BY <1>4 DEF ApplyAs, WeightUpdate, ApplySucceeds, ApplyReverts, ApplyEscapes
<1>5. ASSUME NEW c \in ChangeSets, Apply(c) \/ \E a \in Actors : Approve(c, a)
      PROVE  \E es : Journaled(es)
    BY <1>4, <1>5 DEF Apply, Approve
<1>6. ASSUME NEW c \in ChangeSets,
             ProposeBadId(c) \/ AttachEvidence(c) \/ AttachRefused(c) \/ RollbackEscapes(c)
      PROVE  UNCHANGED <<journal, journalHead>>
    BY <1>6 DEF ProposeBadId, AttachEvidence, AttachRefused, RollbackEscapes, stateVars
<1>7. CASE HandEdit \/ EditPolicy \/ Tick \/ UNCHANGED vars
    BY <1>2, <1>7 DEF HandEdit, EditPolicy, Tick, vars, stateVars
<1>8. QED BY <1>1, <1>2, <1>3, <1>5, <1>6, <1>7 DEF Next

LEMMA NextVerify ==
    ASSUME Undisturbed, TypeInv, LoadsInv, SnapshotInv, VerifyClean, [Next]_vars
    PROVE  VerifyClean'
<1>1. journalHead' = Len(journal')
    BY NextVouches DEF VerifyClean, VerifyOK
<1>2. \A t \in Paths : heads[t] # NoFile => files[t] = heads[t]
    BY DEF VerifyClean, VerifyOK
<1>3. CASE UNCHANGED <<files, heads>>
    BY <1>1, <1>2, <1>3 DEF VerifyClean, VerifyOK
<1>4. ASSUME NEW c \in ChangeSets, NEW e, Writes(c, e)
      PROVE  VerifyClean'
    <2>1. files' = Written(files, e.after) /\ heads' = Written(heads, e.after)
        BY <1>4 DEF Writes
    <2>2. \A t \in Paths : heads'[t] # NoFile => files'[t] = heads'[t]
        BY <1>2, <2>1 DEF Written
    <2>3. QED BY <1>1, <2>2 DEF VerifyClean, VerifyOK
<1>5. QED BY <1>3, <1>4, StepOnFiles

\* After any number of undisturbed commands, verify has nothing to report.
THEOREM VerifyStaysClean ==
    ASSUME Undisturbed
    PROVE  Spec => []VerifyClean
<1>1. Init => VerifyClean
    <2> SUFFICES ASSUME Init PROVE VerifyClean
        OBVIOUS
    <2>1. Len(journal) = 1
        BY DEF Init
    <2>2. QED BY <2>1 DEF Init, VerifyClean, VerifyOK, BaselineHeads
<1>2. TypeInv /\ LoadsInv /\ SnapshotInv /\ VerifyClean /\ [Next]_vars => VerifyClean'
    BY NextVerify
<1>3. QED BY <1>1, <1>2, UndisturbedAlways, PTL DEF Spec

\* Whatever changes the files is journaled in the same command, with the contents before
\* and after, and a command that fails leaves them as they were.
THEOREM ContentIsJournaled ==
    ASSUME Undisturbed
    PROVE  Spec => ContentChangesAreJournaled
<1> DEFINE Shown ==
        files' # files =>
            \E i \in DOMAIN journal' \ DOMAIN journal :
                /\ journal'[i].event \in ContentEvents
                /\ \A t \in Paths :
                    IF t \in DOMAIN journal'[i].after
                    THEN /\ journal'[i].before[t] = files[t]
                         /\ journal'[i].after[t] = files'[t]
                    ELSE files'[t] = files[t]
<1>1. ASSUME TypeInv, LoadsInv, SnapshotInv, [Next]_vars
      PROVE  Shown
    <2>1. SUFFICES ASSUME NEW c \in ChangeSets, NEW e, folder[c].targets \in SUBSET Paths,
                          Writes(c, e)
          PROVE  Shown
        BY <1>1, StepOnFiles
    <2>2. PICK i \in DOMAIN journal' \ DOMAIN journal : journal'[i] = e
        BY <2>1 DEF Writes, WrittenNow
    <2>3. \A t \in Paths :
            IF t \in DOMAIN e.after
            THEN e.before[t] = files[t] /\ e.after[t] = files'[t]
            ELSE files'[t] = files[t]
        BY <2>1 DEF Writes, Written, Image
    <2>4. e.event \in ContentEvents
        BY <2>1 DEF Writes
    <2>5. QED BY <2>2, <2>3, <2>4
<1>2. ContentChangesAreJournaled <=> [][Shown]_vars
    BY DEF ContentChangesAreJournaled
<1> HIDE DEF Shown
<1>3. TypeInv /\ LoadsInv /\ SnapshotInv /\ [Next]_vars => [Shown]_vars
    BY <1>1
<1>4. QED BY <1>2, <1>3, UndisturbedAlways, PTL DEF Spec
-----------------------------------------------------------------------------
\* The auditor finds what the Executor left.

\* What audit.py replays: each entry takes the levels of the one before.
ReplaysTo(g, n) ==
    g = [k \in 0 .. n |->
            IF k = 0 THEN journal[1].ext
            ELSE IF journal[k].event = "policy_changed"
            THEN [g[k - 1] EXCEPT ![journal[k].ext.layer] = journal[k].ext.to]
            ELSE g[k - 1]]

\* A property of the first number, that every next one takes over, holds up to n.
LEMMA CountingUp ==
    ASSUME NEW n \in Nat, NEW S, 0 \in S, \A k \in 1 .. n : k - 1 \in S => k \in S
    PROVE  0 .. n \subseteq S
<1> DEFINE T == {k \in 0 .. n : k \notin S}
           Less == {ss \in Nat \X Nat : ss[1] < ss[2]}
<1>1. SUFFICES ASSUME T # {} PROVE FALSE
    OBVIOUS
<1>2. T \subseteq Nat
    OBVIOUS
<1>3. PICK m \in T : \A k \in T : <<k, m>> \notin Less
    <2>1. IsWellFoundedOn(Less, Nat)
        BY NatLessThanWellFounded DEF OpToRel
    <2> HIDE DEF Less, T
    <2>2. QED BY <1>1, <1>2, <2>1, WFMin
<1>4. m \in 1 .. n /\ m - 1 \in 0 .. n
    OBVIOUS
<1>5. m - 1 \in S
    <2>1. <<m - 1, m>> \in Less
        BY <1>4
    <2>2. m - 1 \notin T
        BY <1>3, <2>1
    <2>3. QED BY <1>4, <2>2
<1>6. QED BY <1>4, <1>5

LEMMA ReplayExists ==
    ASSUME NEW n \in Nat
    PROVE  \E g : ReplaysTo(g, n)
<1> DEFINE S == {k \in Nat : \E g : ReplaysTo(g, k)}
<1>1. 0 \in S
    <2> DEFINE g == [k \in 0 .. 0 |-> journal[1].ext]
    <2>1. ReplaysTo(g, 0)
        BY DEF ReplaysTo
    <2>2. QED BY <2>1
<1>2. ASSUME NEW k \in 1 .. n, k - 1 \in S PROVE k \in S
    <2>1. PICK g : ReplaysTo(g, k - 1)
        BY <1>2
    <2> DEFINE old == g[k - 1]
               last == IF journal[k].event = "policy_changed"
                       THEN [old EXCEPT ![journal[k].ext.layer] = journal[k].ext.to]
                       ELSE old
               h == [j \in 0 .. k |-> IF j = k THEN last ELSE g[j]]
    <2>2. \A j \in 0 .. (k - 1) :
            g[j] = IF j = 0 THEN journal[1].ext
                   ELSE IF journal[j].event = "policy_changed"
                   THEN [g[j - 1] EXCEPT ![journal[j].ext.layer] = journal[j].ext.to]
                   ELSE g[j - 1]
        BY <2>1 DEF ReplaysTo
    <2>3. ASSUME NEW j \in 0 .. k
          PROVE  h[j] = IF j = 0 THEN journal[1].ext
                        ELSE IF journal[j].event = "policy_changed"
                        THEN [h[j - 1] EXCEPT ![journal[j].ext.layer] = journal[j].ext.to]
                        ELSE h[j - 1]
        <3>1. CASE j = k
            <4>1. k # 0 /\ k - 1 \in 0 .. k /\ k - 1 # k
                OBVIOUS
            <4>2. h[k] = last /\ h[k - 1] = old
                BY <4>1
            <4> HIDE DEF h
            <4>3. QED BY <3>1, <4>1, <4>2
        <3>2. CASE j # k
            <4>1. j \in 0 .. (k - 1) /\ (j # 0 => j - 1 \in 0 .. k /\ j - 1 # k)
                BY <3>2
            <4>2. h[j] = g[j] /\ (j # 0 => h[j - 1] = g[j - 1])
                BY <3>2, <4>1
            <4> HIDE DEF h
            <4>3. QED BY <2>2, <4>1, <4>2
        <3>3. QED BY <3>1, <3>2
    <2>4. ReplaysTo(h, k)
        <3>1. h = [j \in 0 .. k |-> h[j]]
            OBVIOUS
        <3> HIDE DEF h
        <3>2. QED BY <2>3, <3>1 DEF ReplaysTo
    <2> HIDE DEF h
    <2>5. QED BY <2>4
<1> HIDE DEF S
<1>3. 0 .. n \subseteq S
    BY <1>1, <1>2, CountingUp
<1>4. QED BY <1>3 DEF S

LEMMA LevelsUpToReplays ==
    ASSUME Len(journal) \in Nat
    PROVE  ReplaysTo(LevelsUpTo, Len(journal))
<1>1. \E g : ReplaysTo(g, Len(journal))
    BY ReplayExists
<1>2. LevelsUpTo = CHOOSE g : ReplaysTo(g, Len(journal))
    BY DEF LevelsUpTo, ReplaysTo
<1>3. QED BY <1>1, <1>2

\* The k-th entry sets the level of its layer, if it is a de-escalation.
LEMMA LevelNext ==
    ASSUME NEW log, NEW k \in Nat \ {0}, NEW layer
    PROVE  LevelIn(log, layer, k) =
                IF log[k].event = "policy_changed" /\ log[k].ext.layer = layer
                THEN log[k].ext.to ELSE LevelIn(log, layer, k - 1)
<1> DEFINE S == Lowerings(log, layer, k - 1)
           T == Lowerings(log, layer, k)
<1>1. CASE log[k].event = "policy_changed" /\ log[k].ext.layer = layer
    <2>1. k \in T /\ T \in SUBSET (1 .. k) /\ T # {}
        BY <1>1 DEF Lowerings
    <2> HIDE DEF T
    <2>2. LastOf(T) \in 1 .. k /\ k <= LastOf(T)
        BY <2>1, LastExists
    <2>3. LastOf(T) = k
        BY <2>2
    <2>4. QED BY <1>1, <2>1, <2>3 DEF LevelIn, T
<1>2. CASE ~(log[k].event = "policy_changed" /\ log[k].ext.layer = layer)
    <2>1. T = S
        BY <1>2 DEF Lowerings
    <2>2. QED BY <1>2, <2>1 DEF LevelIn
<1>3. QED BY <1>1, <1>2

\* The journal begins with the levels of genesis.
GenesisInv == Len(journal) >= 1 /\ journal[1].ext \in [Layers -> Levels]

LEMMA GenesisAlways == Spec => []GenesisInv
<1>1. ASSUME Init PROVE GenesisInv
    <2> DEFINE e == [Entry("genesis", NoChangeSet) EXCEPT !.ext = levels]
    <2>1. e.ext = levels /\ journal = <<e>>
        BY <1>1 DEF Entry, Init
    <2> HIDE DEF e
    <2>2. Len(journal) = 1 /\ journal[1].ext = levels
        BY <2>1
    <2>3. levels \in [Layers -> Levels]
        BY <1>1, InitTypeInv DEF TypeInv, TypeOK
    <2>4. QED BY <2>2, <2>3 DEF GenesisInv
<1>2. TypeInv /\ GenesisInv /\ [Next]_vars => GenesisInv'
    <2> SUFFICES ASSUME TypeInv, GenesisInv, [Next]_vars PROVE GenesisInv'
        OBVIOUS
    <2>1. journal \in Seq(JournalEntry)
        BY DEF TypeInv, TypeOK
    <2>2. ASSUME NEW log \in Seq(JournalEntry), Len(log) >= 1, NEW e \in JournalEntry
          PROVE  Len(Append(log, e)) >= 1 /\ Append(log, e)[1] = log[1]
        BY <2>2
    <2>3. CASE WritesNothing
        BY <2>3 DEF WritesNothing, GenesisInv
    <2>4. ASSUME NEW e, WritesOne(e) PROVE GenesisInv'
        BY <2>1, <2>2, <2>4 DEF WritesOne, GenesisInv
    <2>5. ASSUME NEW e, NEW f, WritesTwo(e, f) PROVE GenesisInv'
        <3> DEFINE mid == Append(journal, e)
        <3>1. e \in JournalEntry /\ f \in JournalEntry /\ journal' = Append(mid, f)
            BY <2>5 DEF WritesTwo
        <3>2. mid \in Seq(JournalEntry) /\ Len(mid) >= 1 /\ mid[1] = journal[1]
            BY <2>1, <2>2, <3>1 DEF GenesisInv
        <3> HIDE DEF mid
        <3>3. QED BY <2>2, <3>1, <3>2 DEF GenesisInv
    <2>6. QED BY <2>3, <2>4, <2>5, NextWrites
<1>3. QED BY <1>1, <1>2, TypeCorrect, PTL DEF Spec

\* What the auditor replays are the levels in force.
LEMMA ReplayAgrees ==
    ASSUME TypeInv, ReplayInv, GenesisInv
    PROVE  ReplayedLevels = levels
<1> DEFINE n == Len(journal)
           LevelsTold(k) == [layer \in Layers |-> LevelIn(journal, layer, k)]
           S == {k \in 0 .. n : LevelsUpTo[k] = LevelsTold(k)}
<1>1. n \in Nat /\ journal[1].ext \in [Layers -> Levels]
    BY LenProperties DEF TypeInv, TypeOK, GenesisInv
<1>2. \A k \in 0 .. n :
        LevelsUpTo[k] = IF k = 0 THEN journal[1].ext
                        ELSE IF journal[k].event = "policy_changed"
                        THEN [LevelsUpTo[k - 1] EXCEPT ![journal[k].ext.layer] = journal[k].ext.to]
                        ELSE LevelsUpTo[k - 1]
    BY <1>1, LevelsUpToReplays DEF ReplaysTo
<1> HIDE DEF n
<1>3. 0 \in S
    <2>1. \A layer : Lowerings(journal, layer, 0) = {}
        BY DEF Lowerings
    <2>2. \A layer \in Layers : LevelIn(journal, layer, 0) = journal[1].ext[layer]
        BY <2>1 DEF LevelIn
    <2>3. 0 \in 0 .. n
        BY <1>1
    <2>4. LevelsUpTo[0] = journal[1].ext
        BY <1>2, <2>3, Zenon
    <2>5. journal[1].ext = LevelsTold(0)
        BY <1>1, <2>2
    <2>6. QED BY <2>3, <2>4, <2>5
<1>4. ASSUME NEW k \in 1 .. n, k - 1 \in S PROVE k \in S
    <2>1. k \in Nat \ {0} /\ k \in 0 .. n /\ LevelsUpTo[k - 1] = LevelsTold(k - 1)
        BY <1>1, <1>4
    <2>2. LevelsUpTo[k] = IF journal[k].event = "policy_changed"
                          THEN [LevelsTold(k - 1) EXCEPT ![journal[k].ext.layer] = journal[k].ext.to]
                          ELSE LevelsTold(k - 1)
        BY <1>2, <2>1
    <2>3. \A layer \in Layers :
            LevelIn(journal, layer, k) =
                IF journal[k].event = "policy_changed" /\ journal[k].ext.layer = layer
                THEN journal[k].ext.to ELSE LevelIn(journal, layer, k - 1)
        BY <2>1, LevelNext
    <2>4. LevelsUpTo[k] = LevelsTold(k)
        BY <2>2, <2>3
    <2>5. QED BY <2>1, <2>4
<1>5. n \in S
    <2> HIDE DEF S
    <2>1. 0 .. n \subseteq S
        BY <1>1, <1>3, <1>4, CountingUp
    <2>2. QED BY <1>1, <2>1
<1>6. LevelsTold(n) = levels
    <2>1. levels = [layer \in Layers |-> levels[layer]]
        BY DEF TypeInv, TypeOK
    <2>2. QED BY <2>1 DEF ReplayInv, Replayed, n
<1>7. QED BY <1>5, <1>6 DEF ReplayedLevels, n

\* The entries of a step that vouch for contents.
NewContent == {entry \in NewEntries : entry.event \in ContentEvents}

\* What becomes of the files is what those entries say: nothing, or one change.
RecordedBy(c, e) ==
    /\ NewContent = {e}
    /\ e.cs = c /\ c \in ChangeSets /\ status[c] # "UNKNOWN"
    /\ e.after \in [folder[c].targets -> FileState]
    /\ files' = Written(files, e.after)

FilesAsJournaled ==
    \/ files' = files /\ NewContent = {}
    \/ \E c \in ChangeSets : \E e : RecordedBy(c, e)

LEMMA ApplyContents ==
    ASSUME Undisturbed, TypeInv, LoadsInv, NEW c \in ChangeSets, status[c] # "UNKNOWN", NEW st,
           NEW prior, ApplyAs(c, st, prior), NEW before,
           Journaled(prior) => NewEntries = before,
           \A e : Journaled(prior \o <<e>>) => NewEntries = before \cup {e},
           \A p \in before : p.event \notin ContentEvents
    PROVE  FilesAsJournaled
<1> DEFINE cs == folder[c]
<1>1. /\ cs.targets \in SUBSET Paths /\ cs.payload \in PayloadRecord
      /\ files \in [Paths -> FileState]
      /\ snapshot \in [ChangeSets -> PartialFiles \cup {NoSnapshot}]
    BY FolderFacts DEF TypeInv, TypeOK
<1>2. EvidenceLoads(cs)
    BY DEF LoadsInv, TypeInv, KnownHasFolder
<1>3. CASE WeightUpdate(c, st, prior)
    <2> DEFINE label == Label(cs, st)
               e == [Entry("weight_update", c) EXCEPT
                        !.gate = label.gate, !.level = label.level]
    <2>1. e.event = "weight_update" /\ Journaled(prior \o <<e>>) /\ files' = files
        BY <1>3 DEF WeightUpdate, Entry
    <2> HIDE DEF e
    <2>2. NewContent = {}
        BY <2>1 DEF NewContent, ContentEvents
    <2>3. QED BY <2>1, <2>2 DEF FilesAsJournaled
<1>4. CASE ApplyEscapes(c, st, prior)
    <2>1. Journaled(prior) /\ files' = files
        BY <1>2, <1>4 DEF ApplyEscapes, RaisesWritten, Undisturbed
    <2>2. QED BY <2>1 DEF NewContent, FilesAsJournaled
<1>5. CASE ApplyReverts(c, st, prior)
    <2>1. PICK touched \in SUBSET cs.targets :
            \E partial \in [touched -> FileState] :
                files' = Restore(Written(files, partial), snapshot'[c])
        BY <1>5, RevertsFromHalf
    <2>2. /\ snapshot' = [snapshot EXCEPT ![c] = Image(files, cs.targets)]
          /\ Journaled(prior \o <<Rejected(c, "apply")>>)
        BY <1>5 DEF ApplyReverts, TakeSnapshot
    <2>3. snapshot'[c] = Image(files, cs.targets)
        BY <1>1, <2>2
    <2>4. files' = files
        BY <1>1, <2>1, <2>3, RestoreUndoes
    <2> DEFINE e == Rejected(c, "apply")
    <2>5. e.event = "rejected" /\ Journaled(prior \o <<e>>)
        BY <2>2 DEF Rejected, Entry
    <2> HIDE DEF e
    <2>6. NewContent = {}
        BY <2>5 DEF NewContent, ContentEvents
    <2>7. QED BY <2>4, <2>6 DEF FilesAsJournaled
<1>6. CASE ApplySucceeds(c, st, prior)
    <2> DEFINE new == PayloadResults(cs.payload, cs.targets, files)
               label == Label(cs, st)
               e == [Entry("applied", c) EXCEPT
                        !.gate = label.gate, !.level = label.level,
                        !.before = Image(files, cs.targets),
                        !.after = Image(files', cs.targets)]
    <2>1. e.event = "applied" /\ e.cs = c /\ e.after = Image(files', cs.targets)
        BY DEF Entry
    <2>2. /\ Journaled(prior \o <<e>>)
          /\ cs.payload.type # "opaque"
          /\ files' = Written(files, new)
          /\ PayloadApplies(cs.payload, cs.targets, files)
        BY <1>6 DEF ApplySucceeds
    <2>3. new \in [cs.targets -> FileState]
        BY <1>1, <2>2, ResultsType
    <2> HIDE DEF e, new
    <2>4. Image(files', cs.targets) = new
        BY <1>1, <2>2, <2>3 DEF Image, Written
    <2>5. NewContent = {e}
        BY <2>1, <2>2 DEF NewContent, ContentEvents
    <2>6. RecordedBy(c, e)
        BY <2>1, <2>2, <2>3, <2>4, <2>5 DEF RecordedBy
    <2>7. QED BY <2>6 DEF FilesAsJournaled
<1>7. QED BY <1>3, <1>4, <1>5, <1>6 DEF ApplyAs

LEMMA RollbackContents ==
    ASSUME TypeInv, SnapshotInv, NEW c \in ChangeSets, Rollback(c)
    PROVE  FilesAsJournaled
<1> DEFINE e == RolledBack(c, snapshot[c])
           layer == folder[c].layer
           lowered == Ratchet(Append(journal, e), layer)
           f == [Entry("policy_changed", NoChangeSet) EXCEPT
                    !.gate = "de_escalation",
                    !.ext = [layer |-> layer, from |-> levels[layer], to |-> lowered]]
<1>1. e.cs = c /\ e.event = "rolled_back" /\ e.after = snapshot[c] /\ f.event = "policy_changed"
    BY DEF RolledBack, Entry
<1>2. /\ Journaled(<<e>> \o LevelDrop(layer, lowered))
      /\ status[c] \in Live
      /\ folder[c].payload.type # "opaque"
      /\ files' = Restore(files, snapshot[c])
    BY DEF Rollback, CanRollBack, Live
<1>3. LevelDrop(layer, lowered) = <<>> \/ LevelDrop(layer, lowered) = <<f>>
    BY DEF LevelDrop
<1>4. snapshot[c] \in [folder[c].targets -> FileState]
    BY <1>2 DEF SnapshotInv, Live
<1> HIDE DEF e, f, lowered
<1>5. Journaled(<<e>>) \/ Journaled(<<e, f>>)
    BY <1>2, <1>3, ShortConcats
<1>6. NewEntries = {e} \/ NewEntries = {e, f}
    BY <1>5, NewEntriesAre
<1>7. NewContent = {e}
    BY <1>1, <1>6 DEF NewContent, ContentEvents
<1>8. RecordedBy(c, e)
    BY <1>1, <1>2, <1>4, <1>7 DEF RecordedBy, Restore, Live
<1>9. QED BY <1>8 DEF FilesAsJournaled

\* Undisturbed, the files change as the journal says, command by command.
LEMMA StepContents ==
    ASSUME Undisturbed, TypeInv, LoadsInv, SnapshotInv, [Next]_vars
    PROVE  FilesAsJournaled
<1>1. ASSUME files' = files, NEW S, NewEntries = S, \A p \in S : p.event \notin ContentEvents
      PROVE  FilesAsJournaled
    BY <1>1 DEF FilesAsJournaled, NewContent
<1>2. ASSUME NEW e, Journaled(<<e>>), files' = files, e.event \notin ContentEvents
      PROVE  FilesAsJournaled
    <2>1. NewEntries = {e}
        BY <1>2, NewEntriesAre
    <2>2. QED BY <1>1, <1>2, <2>1
<1>3. ASSUME UNCHANGED <<journal, files>>
      PROVE  FilesAsJournaled
    <2>1. NewEntries = {}
        BY <1>3, NewEntriesAre
    <2>2. QED BY <1>3, <2>1 DEF FilesAsJournaled, NewContent
<1>4. ASSUME NEW c \in ChangeSets, Propose(c)
      PROVE  FilesAsJournaled
    <2> DEFINE e == Entry("proposed", c)
               f == Rejected(c, "validate")
    <2>1. e.event = "proposed" /\ f.event = "rejected"
        BY DEF Entry, Rejected
    <2>2. (Journaled(<<e>>) \/ Journaled(<<e, f>>)) /\ files' = files
        BY <1>4 DEF Propose
    <2> HIDE DEF e, f
    <2>3. NewEntries = {e} \/ NewEntries = {e, f}
        BY <2>2, NewEntriesAre
    <2>4. NewContent = {}
        BY <2>1, <2>3 DEF NewContent, ContentEvents
    <2>5. QED BY <2>2, <2>4 DEF FilesAsJournaled
<1>5. ASSUME NEW c \in ChangeSets,
             \/ GateSuggest(c) \/ GateReject(c) \/ GateQueue(c) \/ GateAuto(c)
             \/ Promote(c) \/ \E a \in Actors : Reject(c, a)
      PROVE  FilesAsJournaled
    <2>1. \E e : Journaled(<<e>>) /\ e.event \notin ContentEvents
        <3>1. \A mode, level : Gated(c, mode, level).event = "gated"
            BY DEF Gated, Entry
        <3>2. /\ \A stage : Rejected(c, stage).event = "rejected"
              /\ \A a : [Rejected(c, "human_review") EXCEPT !.by = a].event = "rejected"
            BY DEF Rejected, Entry
        <3>3. Entry("promoted", c).event = "promoted"
            BY DEF Entry
        <3>4. /\ "gated" \notin ContentEvents /\ "rejected" \notin ContentEvents
              /\ "promoted" \notin ContentEvents
            BY DEF ContentEvents
        <3>5. CASE GateSuggest(c) \/ GateReject(c) \/ GateQueue(c) \/ GateAuto(c)
            <4>1. \A e, s : GateTo(c, e, s) => Journaled(<<e>>)
                BY DEF GateTo
            <4>2. \/ \E mode, level, s : GateTo(c, Gated(c, mode, level), s)
                  \/ \E stage, s : GateTo(c, Rejected(c, stage), s)
                BY <3>5 DEF GateSuggest, GateReject, GateQueue, GateAuto
            <4>3. QED BY <3>1, <3>2, <3>4, <4>1, <4>2
        <3>6. CASE Promote(c)
            BY <3>3, <3>4, <3>6 DEF Promote
        <3>7. CASE \E a \in Actors : Reject(c, a)
            BY <3>2, <3>4, <3>7 DEF Reject
        <3>8. QED BY <1>5, <3>5, <3>6, <3>7
    <2>2. files' = files
        BY <1>5 DEF GateSuggest, GateReject, GateQueue, GateAuto, GateTo, Promote, Reject
    <2>3. QED BY <1>2, <2>1, <2>2
<1>6. ASSUME NEW c \in ChangeSets, Apply(c)
      PROVE  FilesAsJournaled
    <2> DEFINE none == {p \in {0} : FALSE}
               prior == <<>>
    <2>1. ApplyAs(c, status[c], prior) /\ status[c] # "UNKNOWN"
        BY <1>6 DEF Apply
    <2>2. Journaled(prior) => NewEntries = none
        BY NewEntriesAre
    <2>3. ASSUME NEW e, Journaled(prior \o <<e>>) PROVE NewEntries = none \cup {e}
        <3>1. prior \o <<e>> = <<e>>
            OBVIOUS
        <3>2. QED BY <2>3, <3>1, NewEntriesAre
    <2>4. \A p \in none : p.event \notin ContentEvents
        OBVIOUS
    <2> HIDE DEF none, prior
    <2>5. QED BY <2>1, <2>2, <2>3, <2>4, ApplyContents
<1>7. ASSUME NEW c \in ChangeSets, NEW a \in Actors, Approve(c, a)
      PROVE  FilesAsJournaled
    <2> DEFINE p == [Entry("approved", c) EXCEPT !.by = a, !.gate = "human_review"]
    <2>1. ApplyAs(c, "APPROVED", <<p>>) /\ status[c] # "UNKNOWN" /\ p.event = "approved"
        BY <1>7 DEF Approve, Entry
    <2> HIDE DEF p
    <2> DEFINE one == {p}
               prior == <<p>>
    <2>2. Journaled(prior) => NewEntries = one
        BY NewEntriesAre
    <2>3. ASSUME NEW e, Journaled(prior \o <<e>>) PROVE NewEntries = one \cup {e}
        <3>1. prior \o <<e>> = <<p, e>>
            BY ShortConcats
        <3>2. NewEntries = {p, e}
            BY <2>3, <3>1, NewEntriesAre
        <3>3. QED BY <3>2
    <2>4. \A q \in one : q.event \notin ContentEvents
        BY <2>1 DEF ContentEvents
    <2> HIDE DEF one, prior
    <2>5. ApplyAs(c, "APPROVED", prior)
        BY <2>1 DEF prior
    <2>6. QED BY <2>1, <2>2, <2>3, <2>4, <2>5, ApplyContents
<1>8. ASSUME NEW c \in ChangeSets,
             ProposeBadId(c) \/ AttachEvidence(c) \/ AttachRefused(c)
      PROVE  FilesAsJournaled
    BY <1>3, <1>8 DEF ProposeBadId, AttachEvidence, AttachRefused
<1>9. CASE HandEdit \/ EditPolicy \/ Tick \/ UNCHANGED vars
    BY <1>3, <1>9 DEF HandEdit, EditPolicy, Tick, vars, Undisturbed
<1>10. \A c \in ChangeSets : ~RollbackEscapes(c)
    BY DEF RollbackEscapes, Undisturbed
<1>11. QED BY <1>4, <1>5, <1>6, <1>7, <1>8, <1>9, <1>10, RollbackContents DEF Next

\* The journal only grows.
LEMMA NextExtends ==
    ASSUME TypeInv, [Next]_vars
    PROVE  /\ Len(journal) \in Nat /\ DOMAIN journal = 1 .. Len(journal)
           /\ Len(journal') \in Nat /\ DOMAIN journal' = 1 .. Len(journal')
           /\ Extended
<1>1. journal \in Seq(JournalEntry) /\ journal' \in Seq(JournalEntry)
    BY NextTypeInv DEF TypeInv, TypeOK
<1>2. /\ Len(journal) \in Nat /\ DOMAIN journal = 1 .. Len(journal)
      /\ Len(journal') \in Nat /\ DOMAIN journal' = 1 .. Len(journal')
    BY <1>1, LenProperties
<1>3. CASE WritesNothing
    BY <1>3 DEF WritesNothing, Extended
<1>4. ASSUME NEW e, WritesOne(e) PROVE Extended
    <2>1. e \in JournalEntry /\ journal' = Append(journal, e)
        BY <1>4 DEF WritesOne
    <2>2. QED BY <1>1, <2>1, AppendFacts DEF Agree, Extended
<1>5. ASSUME NEW e, NEW f, WritesTwo(e, f) PROVE Extended
    <2> DEFINE mid == Append(journal, e)
               n == Len(journal)
    <2>1. e \in JournalEntry /\ f \in JournalEntry /\ journal' = Append(mid, f)
        BY <1>5 DEF WritesTwo
    <2>2. mid \in Seq(JournalEntry) /\ Len(mid) = n + 1 /\ Agree(journal, mid, n)
        BY <1>1, <2>1, AppendFacts
    <2> HIDE DEF mid
    <2>3. Agree(mid, journal', n + 1) /\ DOMAIN journal' = 1 .. (n + 1 + 1)
        BY <2>1, <2>2, AppendFacts
    <2>4. n \in Nat /\ DOMAIN journal = 1 .. n
        BY <1>2
    <2> HIDE DEF n
    <2>5. QED BY <2>2, <2>3, <2>4 DEF Agree, Extended
<1>6. QED BY <1>2, <1>3, <1>4, <1>5, NextWrites

\* Every file is as the newest entry that covers it left it, removed files included,
\* and the entries of a change cover its targets.
Covers ==
    \A i \in ContentEntries : journal[i].after \in [folder[journal[i].cs].targets -> FileState]

FilesFollow == HeadsFollow(journal, files) /\ Covers

LEMMA NextFilesFollow ==
    ASSUME Undisturbed, TypeInv, LoadsInv, SnapshotInv, HistoryInv, FilesFollow, [Next]_vars
    PROVE  FilesFollow'
<1> DEFINE n == Len(journal)
           Newly == DOMAIN journal' \ DOMAIN journal
<1>1. /\ n \in Nat /\ DOMAIN journal = 1 .. n /\ DOMAIN journal' = 1 .. Len(journal')
      /\ \A i \in DOMAIN journal : i \in DOMAIN journal' /\ journal'[i] = journal[i]
    BY NextExtends DEF Extended
<1>2. \A i \in DOMAIN journal, j \in Newly : j > i
    BY <1>1
<1> HIDE DEF n
<1>3. KnownStay
    BY NextKnown
<1>4. ASSUME NEW i \in DOMAIN journal, journal[i].event \in ContentEvents
      PROVE  /\ journal[i].cs \in ChangeSets /\ status[journal[i].cs] # "UNKNOWN"
             /\ journal[i].after \in [folder'[journal[i].cs].targets -> FileState]
    <2>1. journal[i].cs \in ChangeSets /\ journal[i].event \in Past(status[journal[i].cs])
        BY <1>4 DEF HistoryInv, History
    <2>2. status[journal[i].cs] # "UNKNOWN"
        BY <1>4, <2>1 DEF Past, ContentEvents
    <2>3. folder'[journal[i].cs].targets = folder[journal[i].cs].targets
        BY <1>3, <2>1, <2>2 DEF KnownStay
    <2>4. QED BY <1>4, <2>1, <2>2, <2>3 DEF FilesFollow, Covers, ContentEntries
<1>5. CASE files' = files /\ NewContent = {}
    <2>1. \A j \in Newly : journal'[j].event \notin ContentEvents
        BY <1>5 DEF NewContent, NewEntries
    <2>2. HeadsFollow(journal', files')
        BY <1>1, <1>5, <2>1 DEF FilesFollow, HeadsFollow
    <2>3. Covers'
        BY <1>1, <1>4, <2>1 DEF Covers, ContentEntries
    <2>4. QED BY <2>2, <2>3 DEF FilesFollow
<1>6. ASSUME NEW c \in ChangeSets, NEW e, RecordedBy(c, e)
      PROVE  FilesFollow'
    <2>1. /\ e.cs = c /\ status[c] # "UNKNOWN"
          /\ e.after \in [folder[c].targets -> FileState]
          /\ files' = Written(files, e.after)
          /\ folder'[c].targets = folder[c].targets
          /\ folder[c].targets \in SUBSET Paths
        BY <1>3, <1>6, FolderFacts DEF RecordedBy, KnownStay
    <2>2. \A j \in Newly : journal'[j].event \in ContentEvents => journal'[j] = e
        BY <1>6 DEF RecordedBy, NewContent, NewEntries
    <2>3. PICK k \in Newly : journal'[k] = e /\ e.event \in ContentEvents
        BY <1>6 DEF RecordedBy, NewContent, NewEntries
    <2>4. ASSUME NEW i \in DOMAIN journal', journal'[i].event \in ContentEvents,
                 NEW t \in DOMAIN journal'[i].after
          PROVE  \/ files'[t] = journal'[i].after[t]
                 \/ \E j \in DOMAIN journal' :
                        /\ j > i /\ journal'[j].event \in ContentEvents
                        /\ t \in DOMAIN journal'[j].after
        <3>1. CASE i \in Newly
            <4>1. t \in Paths /\ journal'[i] = e /\ t \in DOMAIN e.after
                BY <2>1, <2>2, <2>4, <3>1
            <4>2. QED BY <2>1, <4>1 DEF Written
        <3>2. CASE i \in DOMAIN journal
            <4>1. journal'[i] = journal[i] /\ k > i /\ k \in DOMAIN journal'
                BY <1>1, <1>2, <3>2
            <4>2. journal[i].after \in [folder[journal[i].cs].targets -> FileState]
                BY <2>4, <3>2, <4>1 DEF FilesFollow, Covers, ContentEntries
            <4>3. t \in Paths
                BY <1>4, <2>4, <3>2, <4>1, <4>2, FolderFacts
            <4>4. CASE t \in DOMAIN e.after
                BY <2>3, <4>1, <4>4
            <4>5. CASE t \notin DOMAIN e.after
                <5>1. files'[t] = files[t]
                    BY <2>1, <4>3, <4>5 DEF Written
                <5>2. QED BY <1>1, <2>4, <3>2, <4>1, <5>1 DEF FilesFollow, HeadsFollow
            <4>6. QED BY <4>4, <4>5
        <3>3. QED BY <3>1, <3>2
    <2>5. Covers'
        BY <1>1, <1>4, <2>1, <2>2 DEF Covers, ContentEntries
    <2>6. QED BY <2>4, <2>5 DEF FilesFollow, HeadsFollow
<1>7. QED BY <1>5, <1>6, StepContents DEF FilesAsJournaled

\* A change that still owns all its targets has left them as its last entry says.
LEMMA OwnersAgree ==
    ASSUME TypeInv, HistoryInv, FilesFollow
    PROVE  Mismatches = {}
<1> SUFFICES ASSUME NEW c \in Surviving \cup RolledBackOnes, Checkable(c)
    PROVE  Image(files, folder[c].targets) = Expected(c)
    BY DEF Mismatches
<1> DEFINE targets == folder[c].targets
<1>1. c \in ChangeSets /\ status[c] # "UNKNOWN"
    <2>1. PICK i \in DOMAIN journal : journal[i].cs = c /\ journal[i].event \in ContentEvents
        BY DEF Surviving, Applied, RolledBackOnes, Told, ContentEvents
    <2>2. c \in ChangeSets /\ journal[i].event \in Past(status[c])
        BY <2>1 DEF HistoryInv, History
    <2>3. QED BY <2>1, <2>2 DEF Past, ContentEvents
<1>2. targets \in SUBSET Paths /\ targets # {} /\ \A t \in targets : FinalOwner(t) = c
    BY <1>1, FolderFacts DEF Checkable
<1>3. ASSUME NEW t \in targets
      PROVE  /\ Expected(c) \in [targets -> FileState]
             /\ files[t] = Expected(c)[t]
    <2> DEFINE n == Newest(Covering(t))
    <2>1. Covering(t) # {}
        <3>1. PICK i \in DOMAIN journal : journal[i].cs = c /\ journal[i].event \in ContentEvents
            BY DEF Surviving, Applied, RolledBackOnes, Told, ContentEvents
        <3>2. i \in Covering(t)
            BY <3>1 DEF Covering, ContentEntries
        <3>3. QED BY <3>2
    <2>2. Covering(t) \in SUBSET (DOMAIN journal)
        BY DEF Covering, ContentEntries
    <2>3. n \in Covering(t) /\ \A j \in Covering(t) : j <= n
        BY <2>1, <2>2, NewestExists
    <2>4. Expected(c) = journal[n].after /\ journal[n].cs = c
        BY <1>2, <2>1, OwnerExpects DEF FinalOwner
    <2> HIDE DEF n
    <2>5. n \in DOMAIN journal /\ journal[n].event \in ContentEvents
        BY <2>3 DEF Covering, ContentEntries
    <2>6. journal[n].after \in [targets -> FileState]
        BY <2>4, <2>5 DEF FilesFollow, Covers, ContentEntries
    <2>7. ASSUME NEW j \in DOMAIN journal, j > n, journal[j].event \in ContentEvents,
                 t \in DOMAIN journal[j].after
          PROVE  FALSE
        <3>1. t \in folder[journal[j].cs].targets
            BY <2>7 DEF FilesFollow, Covers, ContentEntries
        <3>2. j <= n
            BY <2>3, <2>7, <3>1 DEF Covering, ContentEntries
        <3>3. n \in Nat /\ j \in Nat
            BY <2>5 DEF TypeInv, TypeOK
        <3>4. QED BY <2>7, <3>2, <3>3
    <2>8. files[t] = journal[n].after[t]
        BY <2>5, <2>6, <2>7 DEF FilesFollow, HeadsFollow
    <2>9. QED BY <2>4, <2>6, <2>8
<1>4. Expected(c) \in [targets -> FileState]
    BY <1>2, <1>3
<1> HIDE DEF targets
<1>5. Image(files, targets) = Expected(c)
    BY <1>3, <1>4 DEF Image
<1>6. QED BY <1>5 DEF targets

\* Undisturbed, the auditor's account of the workspace from the journal alone is the
\* workspace, however changes were stacked, failed half way and were rolled back.
THEOREM AuditorIsRight ==
    ASSUME Undisturbed
    PROVE  Spec => []AuditAgrees
<1>1. Init => FilesFollow
    <2> SUFFICES ASSUME Init PROVE FilesFollow
        OBVIOUS
    <2> DEFINE e == [Entry("genesis", NoChangeSet) EXCEPT !.ext = levels]
    <2>1. journal = <<e>> /\ e.event = "genesis"
        BY DEF Entry, Init
    <2> HIDE DEF e
    <2>2. \A i \in DOMAIN journal : journal[i].event \notin ContentEvents
        BY <2>1 DEF ContentEvents
    <2>3. QED BY <2>2 DEF FilesFollow, HeadsFollow, Covers, ContentEntries
<1>2. TypeInv /\ LoadsInv /\ SnapshotInv /\ HistoryInv /\ FilesFollow /\ [Next]_vars
        => FilesFollow'
    BY NextFilesFollow
<1>3. TypeInv /\ HistoryInv /\ FilesFollow /\ ReplayInv /\ GenesisInv => AuditAgrees
    BY OwnersAgree, ReplayAgrees DEF AuditAgrees, AuditOK
<1>4. QED
    BY <1>1, <1>2, <1>3, UndisturbedAlways, HistoryAlways, ReplayAlways, GenesisAlways, PTL
    DEF Spec
=============================================================================
