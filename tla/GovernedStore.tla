---------------------------- MODULE GovernedStore ----------------------------
(***************************************************************************)
(* What the Executor promises about the contents of a workspace, with no   *)
(* policy, journal, evidence or snapshot in sight.  Content changes in two *)
(* ways only: a change that passed the gates is installed, once; and an    *)
(* installed change is undone, which gives every file it touched the       *)
(* content it had just before that change was installed (I5).              *)
(***************************************************************************)
CONSTANTS
    Changes,    \* the changes that may be proposed
    Files,      \* the governed files
    States,     \* the states a file can be in
    Nothing     \* no saved contents

VARIABLES
    content,    \* the governed files
    phase,      \* where each change is in its life
    saved       \* what an installed change would restore

storeVars == <<content, phase, saved>>

Init ==
    /\ content \in [Files -> States]
    /\ phase = [c \in Changes |-> "open"]
    /\ saved = [c \in Changes |-> Nothing]

PassGates(c) ==
    /\ phase[c] = "open"
    /\ phase' = [phase EXCEPT ![c] = "passed"]
    /\ UNCHANGED <<content, saved>>

\* Refused, only suggested, or recorded without touching any file.
Close(c) ==
    /\ phase[c] \in {"open", "passed"}
    /\ phase' = [phase EXCEPT ![c] = "closed"]
    /\ UNCHANGED <<content, saved>>

Install(c) ==
    /\ phase[c] = "passed"
    /\ phase' = [phase EXCEPT ![c] = "installed"]
    /\ \E touched \in SUBSET Files :
        /\ content' \in [Files -> States]
        /\ \A f \in Files \ touched : content'[f] = content[f]
        /\ saved' = [saved EXCEPT ![c] = [f \in touched |-> content[f]]]

Undo(c) ==
    /\ phase[c] = "installed"
    /\ phase' = [phase EXCEPT ![c] = "undone"]
    /\ content' = [f \in Files |->
            IF f \in DOMAIN saved[c] THEN saved[c][f] ELSE content[f]]
    /\ saved' = [saved EXCEPT ![c] = Nothing]

Next == \E c \in Changes : PassGates(c) \/ Close(c) \/ Install(c) \/ Undo(c)

Spec == Init /\ [][Next]_storeVars
=============================================================================
