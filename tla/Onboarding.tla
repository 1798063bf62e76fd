----------------------------- MODULE Onboarding -----------------------------
(***************************************************************************)
(* How a repository comes under the loop and an agent is kept to it: init  *)
(* (src/monumentum/executor.py, workspace.py), install-skill               *)
(* (skill_install.py), the PreToolUse guard an agent's edits pass          *)
(* (skill/hooks/pretooluse_guard.py), and verify behind it.                *)
(*                                                                         *)
(* Commands are the file operations they are made of, can be killed        *)
(* between them, and an agent edits files meanwhile.  A file written anew  *)
(* is empty (Torn) before it has its contents.  A policy is the set of     *)
(* files its patterns match.  An application or a rollback has one target  *)
(* here; one that fails puts the target back and is a Command like others. *)
(***************************************************************************)
EXTENDS Naturals

CONSTANTS
    Files,          \* files of the repository, AGENTS.md (AgentsFile) among them
    AgentsFile,
    LoopDir,        \* .monumentum, as the target of an edit
    Policies,       \* what policy.yaml can say; Malformed: it does not load
    PyYAML,         \* whether the hook can import yaml
    UserSettings,   \* whether the user has a settings.json with hooks of his own
    MaxKills,
    Missing, Torn, Malformed

Text == {"old", "block", "installed", "edited", "changed"}

\* What settings.json and state.json can say.
Settings == [user : {FALSE, TRUE}, guard : Nat, stop : Nat]
States == [patterns : SUBSET Files, heads : UNION {[D -> Text] : D \in SUBSET Files}]

\* A file that is absent, or empty as it is being written, says nothing.
ASSUME OnboardingAssumption ==
    /\ Policies \subseteq (SUBSET Files) \cup {Malformed}
    /\ UserSettings \in {FALSE, TRUE}
    /\ Missing # Torn /\ Missing \notin Policies /\ Missing \notin Text
    /\ \A nothing \in {Missing, Torn} : nothing \notin Settings /\ nothing \notin States

VARIABLES
    loop,       \* .monumentum exists
    policy,     \* policy.yaml
    genesis,    \* the journal has its genesis entry
    state,      \* state.json: managed_patterns and heads
    files,      \* content of each file: as it was, with the block, as the last
                \* application or rollback of it left it, or as the agent did (no edit
                \* brings the content of the head back)
    hooks,      \* the hook scripts are installed
    settings,   \* settings.json: the user's hooks, and how often ours are wired
    cmd,        \* the command under way
    said,       \* what the last init printed
    slipped,    \* files with a head that the agent has edited since a command wrote
                \* them or took their head
    unrecorded, \* files that an application or a rollback has written and whose head
                \* it has not taken, or never will
    tampered,   \* the agent has put something else into state.json
    governed,   \* the policy that init took the patterns from
    kills

tracks == <<slipped, unrecorded, tampered, governed>>
vars == <<loop, policy, genesis, state, files, hooks, settings, cmd, said, tracks, kills>>
repo == <<loop, policy, genesis, state, files, said, tracks>>

Idle == [pc |-> "idle"]

NoHeads == [f \in {} |-> "old"]

Present(f) == files[f] # Missing

Init ==
    /\ loop = FALSE
    /\ policy = Missing
    /\ genesis = FALSE
    /\ state = Missing
    /\ files \in [Files -> {"old", Missing}]
    /\ hooks = FALSE
    /\ settings = IF UserSettings THEN [user |-> TRUE, guard |-> 0, stop |-> 0] ELSE Missing
    /\ cmd = Idle
    /\ said = "nothing"
    /\ slipped = {} /\ unrecorded = {} /\ tampered = FALSE
    /\ governed = {}
    /\ kills = 0
-----------------------------------------------------------------------------
\* init

Exists == loop /\ policy # Missing

InitAgain ==
    /\ cmd = Idle
    /\ Exists
    /\ said' = "already"
    /\ UNCHANGED <<loop, policy, genesis, state, files, hooks, settings, cmd, tracks, kills>>

InitBegin ==
    /\ cmd = Idle
    /\ ~Exists
    /\ loop' = TRUE
    /\ \E text \in Policies : cmd' = [pc |-> "policy", text |-> text]
    /\ UNCHANGED <<policy, genesis, state, files, hooks, settings, said, tracks, kills>>

\* The text is written, then loaded; a policy that does not load ends the command.
InitPolicy ==
    /\ cmd.pc = "policy"
    /\ policy' = cmd.text
    /\ cmd' = IF policy' = Malformed THEN Idle ELSE [cmd EXCEPT !.pc = "block"]
    /\ UNCHANGED <<loop, genesis, state, files, hooks, settings, said, tracks, kills>>

\* ensure_agents_block: appended once, the file created if need be.
InitBlock ==
    /\ cmd.pc = "block"
    /\ files' = [files EXCEPT ![AgentsFile] = "block"]
    /\ cmd' = [cmd EXCEPT !.pc = "genesis"]
    /\ UNCHANGED <<loop, policy, genesis, state, hooks, settings, said, tracks, kills>>

InitGenesis ==
    /\ cmd.pc = "genesis"
    /\ genesis' = TRUE
    /\ cmd' = [cmd EXCEPT !.pc = "baseline"]
    /\ UNCHANGED <<loop, policy, state, files, hooks, settings, said, tracks, kills>>

\* A plausible baseline taken before the block is written: the file as it was.
BaselineBeforeBlock(text) ==
    [f \in {g \in text : Present(g)} |-> IF f = AgentsFile THEN "old" ELSE files[f]]

Baseline(text) == [f \in {g \in text : Present(g)} |-> files[f]]

\* write_state opens state.json, which empties it, then writes.
Open(contents) ==
    /\ state' = Torn
    /\ cmd' = [pc |-> "fill", contents |-> contents]

InitBaseline ==
    /\ cmd.pc = "baseline"
    /\ Open([patterns |-> cmd.text, heads |-> Baseline(cmd.text)])
    /\ said' = "initialized"
    /\ governed' = cmd.text
    /\ UNCHANGED <<loop, policy, genesis, files, hooks, settings, slipped, unrecorded, tampered, kills>>

Fill ==
    /\ cmd.pc = "fill"
    /\ state' = cmd.contents
    /\ cmd' = Idle
    /\ UNCHANGED <<loop, policy, genesis, files, hooks, settings, said, tracks, kills>>

\* What a command writes of what it has read: an absent state.json is {}.
SavedBack == IF state = Missing THEN [patterns |-> {}, heads |-> NoHeads] ELSE state

\* A command ends in an exception without a genesis entry, or when policy.yaml or
\* state.json does not load.
CanRun ==
    /\ cmd = Idle
    /\ Exists /\ policy # Malformed
    /\ genesis
    /\ state # Torn

\* Any later command that journals something and saves state.json with the heads it
\* has read.
Command ==
    /\ CanRun
    /\ Open(SavedBack)
    /\ UNCHANGED <<loop, policy, genesis, files, hooks, settings, said, tracks, kills>>

\* apply or rollback reads state.json and writes or removes its target.
WriteTarget(f) ==
    /\ CanRun
    /\ \E content \in {"installed", Missing} : files' = [files EXCEPT ![f] = content]
    /\ cmd' = [pc |-> "record", contents |-> SavedBack, target |-> f]
    /\ unrecorded' = unrecorded \cup {f}
    /\ slipped' = slipped \ {f}
    /\ UNCHANGED <<loop, policy, genesis, state, hooks, settings, said, tampered, governed, kills>>

\* A plausible apply that takes all heads again.
RecordedAfresh(heads, f) == Baseline(DOMAIN heads \cup {f})

\* The heads with that of f taken again, or dropped with the file.
Recorded(heads, f) ==
    [g \in (DOMAIN heads \ {f}) \cup {h \in {f} : Present(h)} |->
        IF g = f THEN files[f] ELSE heads[g]]

\* The target is hashed as it is by now, and state.json saved.
RecordTarget ==
    /\ cmd.pc = "record"
    /\ Open([cmd.contents EXCEPT !.heads = Recorded(cmd.contents.heads, cmd.target)])
    /\ unrecorded' = unrecorded \ {cmd.target}
    /\ slipped' = slipped \ {cmd.target}
    /\ UNCHANGED <<loop, policy, genesis, files, hooks, settings, said, tampered, governed, kills>>
-----------------------------------------------------------------------------
\* install-skill

InstallScripts ==
    /\ cmd = Idle
    /\ hooks' = TRUE
    /\ cmd' = [pc |-> "merge"]
    /\ UNCHANGED <<repo, settings, kills>>

\* A plausible merge that does not look for its own hooks.
MergedAgain(s) == [s EXCEPT !.guard = @ + 1, !.stop = @ + 1]

\* _merge_hooks: each hook is appended unless its command is there.
Merged(s) ==
    [s EXCEPT !.guard = IF @ = 0 THEN 1 ELSE @, !.stop = IF @ = 0 THEN 1 ELSE @]

InstallMerge ==
    LET found == IF settings = Missing THEN [user |-> FALSE, guard |-> 0, stop |-> 0]
                 ELSE settings
    IN /\ cmd.pc = "merge"
       /\ IF settings = Torn \/ Merged(found) = found
          THEN cmd' = Idle /\ UNCHANGED settings
          ELSE cmd' = [pc |-> "wire", contents |-> Merged(found)] /\ settings' = Torn
       /\ UNCHANGED <<repo, hooks, kills>>

InstallWire ==
    /\ cmd.pc = "wire"
    /\ settings' = cmd.contents
    /\ cmd' = Idle
    /\ UNCHANGED <<repo, hooks, kills>>
-----------------------------------------------------------------------------
\* The guard, and the agent behind it.

Wired == hooks /\ settings \notin {Missing, Torn} /\ settings.guard > 0

FallbackPatterns == IF PyYAML /\ policy \notin {Missing, Malformed} THEN policy ELSE {}

LoadPatterns ==
    IF state # Missing /\ state.patterns # {} THEN state.patterns ELSE FallbackPatterns

\* A plausible guard that loads the patterns before it looks at the path.
DeniesAfterLoading(target) ==
    /\ loop
    /\ state # Torn
    /\ target \in {LoopDir} \cup LoadPatterns

\* An exception (state.json does not parse) is not a denial.
Denies(target) ==
    /\ loop
    /\ \/ target = LoopDir
       \/ state # Torn /\ target \in LoadPatterns

\* The heads that state.json has, or will have when the command under way is done.
Heads ==
    IF cmd.pc \in {"record", "fill"} THEN cmd.contents.heads
    ELSE IF state \notin {Missing, Torn} THEN state.heads ELSE NoHeads

AgentEdit(f) ==
    /\ Wired => ~Denies(f)
    /\ files' = [files EXCEPT ![f] =
            IF f \in DOMAIN Heads /\ Heads[f] = "edited" THEN "changed" ELSE "edited"]
    /\ slipped' = slipped \cup ({f} \cap DOMAIN Heads)
    /\ UNCHANGED <<loop, policy, genesis, state, hooks, settings, cmd, said, unrecorded,
                   tampered, governed, kills>>

\* What the agent may put into a state.json that is there: no patterns and heads at
\* all, or heads that match the files.
Rewritten ==
    {[patterns |-> {}, heads |-> NoHeads], [state EXCEPT !.heads = Baseline(state.patterns)]}

\* Edits below .monumentum: state.json is spoilt or rewritten, or the journal removed.
AgentEditLoop ==
    /\ Wired => ~Denies(LoopDir)
    /\ loop
    /\ \/ state' = Torn /\ UNCHANGED <<genesis, tampered>>
       \/ genesis' = FALSE /\ UNCHANGED <<state, tampered>>
       \/ /\ state \notin {Missing, Torn}
          /\ state' \in Rewritten
          /\ tampered' = TRUE
          /\ UNCHANGED genesis
    /\ UNCHANGED <<loop, policy, files, hooks, settings, cmd, said, slipped, unrecorded, governed,
                   kills>>

\* The human owner edits policy.yaml.
EditPolicy ==
    /\ Exists
    /\ policy' \in Policies
    /\ UNCHANGED <<loop, genesis, state, files, hooks, settings, cmd, said, tracks, kills>>

Kill ==
    /\ kills < MaxKills
    /\ cmd # Idle
    /\ cmd' = Idle
    /\ kills' = kills + 1
    /\ UNCHANGED <<repo, hooks, settings>>

Next ==
    \/ InitAgain \/ InitBegin \/ InitPolicy \/ InitBlock \/ InitGenesis \/ InitBaseline
    \/ Fill \/ Command \/ RecordTarget
    \/ \E f \in Files : WriteTarget(f)
    \/ InstallScripts \/ InstallMerge \/ InstallWire
    \/ \E f \in Files : AgentEdit(f)
    \/ AgentEditLoop \/ EditPolicy \/ Kill

Spec == Init /\ [][Next]_vars
-----------------------------------------------------------------------------
\* Properties.

\* verify: an absent state.json is {} and nothing is compared.
VerifyOK ==
    /\ Exists /\ policy # Malformed
    /\ genesis
    /\ state # Torn
    /\ state # Missing => \A f \in DOMAIN state.heads : files[f] = state.heads[f]

\* A file with a head that is edited around the loop is reported by verify until an
\* application or a rollback writes that file or takes its head again: before or after
\* install-skill, while state.json is being rewritten, and whatever other commands save
\* state.json (the heads of other files are carried along, never taken again).  And
\* nothing else is reported, but for what an application or a rollback has written and
\* not recorded: the block that init writes into AGENTS.md is in its baseline.  All of
\* it holds until somebody puts other heads into state.json.
VerifyIsExact ==
    ~tampered =>
        /\ slipped # {} => ~VerifyOK
        /\ slipped \cup unrecorded = {} /\ Exists /\ policy # Malformed /\ genesis /\ state # Torn
            => VerifyOK

\* Once the guard is wired, no edit of the agent reaches .monumentum, be state.json
\* absent, empty or being written; and once init has ended, the files that its policy
\* governs are changed by the commands of the loop only, whatever policy.yaml says by
\* now and whichever commands have saved state.json since, but for the moments when
\* state.json does not parse, and unless the agent rewrote it before the guard was
\* wired (managed_patterns, DEC-018).
GuardHolds ==
    [][Wired /\ loop =>
        /\ (genesis => genesis') /\ tampered' = tampered
        /\ state # Torn /\ ~tampered =>
            \A f \in governed : files'[f] = files[f] \/ WriteTarget(f)]_vars

\* install-skill can be repeated, and be killed before: our hooks are wired at most
\* once and the hooks of the user stay, whenever settings.json can be read.  (A kill
\* while it is written leaves a settings.json that cannot be read, and the user's hooks
\* are lost with it.)
WiredOnce ==
    settings \notin {Missing, Torn} =>
        settings.guard <= 1 /\ settings.stop <= 1 /\ settings.user = UserSettings
=============================================================================
