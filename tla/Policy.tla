------------------------------- MODULE Policy -------------------------------
(***************************************************************************)
(* The change envelope of policy.yaml and the level arithmetic on it       *)
(* (src/monumentum/policy.py).  A glob pattern stands for the set of paths *)
(* it matches, so targets_allow and protected are sets of paths here.      *)
(***************************************************************************)
EXTENDS Integers, Workspace

CONSTANT NoRule      \* policy.de_escalation() when the policy has no such block

Layers == {"context", "capability", "architecture"}

\* LEVELS, by index: L0 suggest only .. L3 full autonomy.
Levels == 0 .. 3

Gates == {"evidence_required", "reproducible_check", "human_review"}

ClassPolicy == [level : Levels, gates : SUBSET Gates, allow : SUBSET Paths]

DeEscalationRule == [onRollbacks : Nat \ {0}, window : Nat \ {0}, drop : Nat \ {0}]

PolicyFile ==
    [envelope     : [Layers -> ClassPolicy],
     protected    : SUBSET Paths,
     deEscalation : DeEscalationRule \cup {NoRule}]

DeclaredLevels(policy) == [layer \in Layers |-> policy.envelope[layer].level]

GatesOf(policy, layer) == policy.envelope[layer].gates

\* A protected pattern wins over any targets_allow pattern (I1 before I4).
TargetAllowed(policy, layer, target) ==
    /\ target \notin policy.protected
    /\ target \in policy.envelope[layer].allow

\* The paths some layer allows: what init takes a baseline hash of.
Governed(policy) == UNION {policy.envelope[layer].allow : layer \in Layers}

\* A plausible subtraction that does not stop at L0.
DropLevelUnclamped(level, drop) == level - drop

\* Never below L0.
DropLevel(level, drop) == IF level > drop THEN level - drop ELSE 0
=============================================================================
