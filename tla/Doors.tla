------------------------------- MODULE Doors --------------------------------
(***************************************************************************)
(* The two doors to the Executor: the command line (src/monumentum/cli.py) *)
(* and the SDK (sdk/monumentum_sdk).  Each command is answered, by an exit *)
(* code or by what the method returns or raises, and the answer is all     *)
(* that a script, an agent or the conformance runner goes by.              *)
(***************************************************************************)
EXTENDS ExecutorProperties

Verbs == {"propose", "gate", "apply", "approve", "reject", "promote", "rollback"}

\* What the Executor returned; an exception is a status of its own.
Outcome(ok, st) == [ok |-> ok, status |-> st]

Raised == Outcome(FALSE, "RAISED")

\* A command that the Executor starts on; any other raises before it changes anything.
Runs(verb, c, a) ==
    CASE verb = "propose" -> Propose(c) \/ ProposeBadId(c)
      [] verb = "gate" -> GateSuggest(c) \/ GateReject(c) \/ GateQueue(c) \/ GateAuto(c)
      [] verb = "apply" -> Apply(c)
      [] verb = "approve" -> Approve(c, a)
      [] verb = "reject" -> Reject(c, a)
      [] verb = "promote" -> Promote(c)
      [] verb = "rollback" -> Rollback(c) \/ RollbackEscapes(c)

\* The Outcome of a command that ran, told by the status it leaves.
Returned(verb, c) ==
    CASE status'[c] \in {status[c], "APPROVED"} -> Raised
      [] verb = "reject" -> Outcome(TRUE, status'[c])
      [] OTHER -> Outcome(status'[c] # "REJECTED", status'[c])

\* A plausible command line that reports a failure on stderr alone.
ExitCodeOfStatus(outcome) ==
    IF outcome.status = "RAISED" THEN "exit 1"
    ELSE IF outcome.status = "QUEUED" THEN "exit 2"
    ELSE "exit 0"

ExitCode(outcome) ==
    IF ~outcome.ok THEN "exit 1"
    ELSE IF outcome.status = "QUEUED" THEN "exit 2"
    ELSE "exit 0"

\* propose and apply raise what was rejected; the others hand the Outcome on.
Reply(verb, outcome) ==
    CASE outcome = Raised -> "raises"
      [] verb \in {"propose", "apply"} /\ ~outcome.ok -> "raises"
      [] verb = "gate" /\ outcome.status = "GATE_APPROVED" -> "approved"
      [] verb = "gate" /\ outcome.status = "QUEUED" -> "queued"
      [] verb = "gate" /\ outcome.status \notin {"GATE_APPROVED", "QUEUED", "RAISED"} ->
            "neither"
      [] OTHER -> IF outcome.ok THEN "ok" ELSE "not ok"

-----------------------------------------------------------------------------
Accepts(answer) == answer \in {"exit 0", "ok", "approved"}

\* What the journal of this step says a command did.
TookEffect(verb, c) ==
    LET new == {journal'[i] : i \in DOMAIN journal' \ DOMAIN journal}
        says(events) == \E entry \in new : entry.event \in events /\ entry.cs = c
    IN CASE verb = "propose" -> says({"proposed"}) /\ ~says({"rejected"})
         [] verb = "gate" -> \E entry \in new : entry.event = "gated" /\ entry.gate = "auto"
         [] verb \in {"apply", "approve"} -> says({"applied", "weight_update"})
         [] verb = "reject" -> says({"rejected"})
         [] verb = "promote" -> says({"promoted"})
         [] verb = "rollback" -> says({"rolled_back"})

\* Whoever goes by the answer alone is never misled: a command is accepted exactly when
\* the journal shows its effect, at the command line, where the one exception is that
\* the suggestion of an L0 gate is accepted too, and through the SDK, which has no
\* reject; also when applying fails half way or an exception escapes.
AnswersAreTrue ==
    [][\A verb \in Verbs, c \in ChangeSets, a \in Actors : Runs(verb, c, a) =>
        LET outcome == Returned(verb, c)
            suggested == verb = "gate" /\ status'[c] = "SUGGESTED"
        IN /\ Accepts(ExitCode(outcome)) <=> TookEffect(verb, c) \/ suggested
           /\ verb # "reject" =>
                (Accepts(Reply(verb, outcome)) <=> TookEffect(verb, c))]_vars
=============================================================================
