-------------------------- MODULE OnboardingProofs --------------------------
(***************************************************************************)
(* Proofs about onboarding, for any files and policies and any number of   *)
(* kills: what verify says of edits around the loop, what a wired guard    *)
(* keeps from the agent, and what install-skill leaves in settings.json.   *)
(***************************************************************************)
EXTENDS Onboarding, TLAPS

Nothing == {Missing, Torn}

\* The commands under way, by what they carry.
Begun == {"policy", "block", "genesis", "baseline"}
Settled ==
    {s \in Settings : s.user = UserSettings /\ s.guard \in {0, 1} /\ s.stop \in {0, 1}}

Typed ==
    /\ files \in [Files -> Text \cup {Missing}]
    /\ policy \in Policies \cup {Missing}
    /\ state \in States \cup Nothing
    /\ governed \subseteq Files /\ slipped \subseteq Files

\* What the command under way will write fits.
CarriesText ==
    /\ cmd.pc = "policy" => cmd = [pc |-> "policy", text |-> cmd.text] /\ cmd.text \in Policies
    /\ cmd.pc \in Begun \ {"policy"} =>
        cmd = [pc |-> cmd.pc, text |-> cmd.text] /\ cmd.text \in SUBSET Files
    /\ cmd.pc = "fill" => cmd.contents \in States
    /\ cmd.pc = "record" => cmd.contents \in States /\ cmd.target \in Files

\* install-skill writes what it found with our hooks added, and never loses the user's.
SettingsInv ==
    /\ settings \in Settled \cup Nothing
    /\ settings = Missing => UserSettings = FALSE
    /\ cmd.pc = "wire" => cmd.contents \in Settled

\* The patterns are those init took, and the heads that differ from the files are those
\* of the files that slipped, or that a command has written and not recorded.
Fits(s, contents, edited, written, patterns) ==
    /\ s.patterns = patterns
    /\ edited \subseteq DOMAIN s.heads
    /\ \A f \in DOMAIN s.heads :
        /\ f \in edited => contents[f] # s.heads[f]
        /\ f \notin edited \cup written => contents[f] = s.heads[f]

Current(s) == Fits(s, files, slipped, unrecorded, governed)
NowCurrent(s) == Fits(s, files', slipped', unrecorded', governed')

\* Before init has written its baseline nothing is governed and nothing can slip; from
\* then on whatever stands in state.json, or is being written to it, is current.
Track ==
    /\ state \notin Nothing => Current(state)
    /\ cmd.pc = "record" => /\ Current(cmd.contents)
                            /\ state \notin Nothing => state.heads = cmd.contents.heads
                            /\ state = Missing => DOMAIN cmd.contents.heads = {}
    /\ cmd.pc = "fill" => state = Torn /\ Current(cmd.contents)
    /\ state = Missing => slipped = {} /\ governed = {}
    /\ cmd.pc \in Begun =>
        loop /\ slipped = {} /\ unrecorded = {} /\ governed = {} /\ state \in Nothing
    /\ cmd.pc \in Begun \ {"policy"} => policy # Missing
    /\ \/ state \notin Nothing \/ cmd.pc \in {"record", "fill"}
       \/ slipped # {} \/ unrecorded # {} \/ governed # {}
       => Exists

\* All of it until the agent rewrites state.json.
TrackInv == ~tampered => Track

OnboardingInv == Typed /\ CarriesText /\ SettingsInv /\ TrackInv

USE DEF Begun, Nothing

LEMMA InitOnboarding == Init => OnboardingInv
<1> SUFFICES ASSUME Init PROVE OnboardingInv
  OBVIOUS
<1>1. Typed
  BY DEF Init, Typed, Text
<1>2. CarriesText /\ TrackInv
  BY OnboardingAssumption DEF Init, CarriesText, TrackInv, Track, Idle, Text
<1>3. SettingsInv
  <2>1. CASE UserSettings = TRUE
    <3>1. settings = [user |-> TRUE, guard |-> 0, stop |-> 0]
      BY <2>1 DEF Init
    <3>2. settings \in Settled
      BY <2>1, <3>1 DEF Settled, Settings
    <3> QED BY <3>2, OnboardingAssumption DEF Init, SettingsInv, Idle, Settled
  <2>2. CASE UserSettings = FALSE
    BY <2>2 DEF Init, SettingsInv, Idle
  <2> QED BY <2>1, <2>2, OnboardingAssumption
<1> QED BY <1>1, <1>2, <1>3 DEF OnboardingInv
-----------------------------------------------------------------------------
\* settings.json

LEMMA MergedSettles == ASSUME NEW s \in Settled PROVE Merged(s) \in Settled
BY DEF Merged, Settled, Settings

LEMMA NextSettings == CarriesText /\ SettingsInv /\ [Next]_vars => SettingsInv'
<1> SUFFICES ASSUME CarriesText, SettingsInv, [Next]_vars PROVE SettingsInv'
  OBVIOUS
<1>1. ASSUME UNCHANGED settings, cmd'.pc = "wire" => cmd' = cmd
      PROVE  SettingsInv'
  BY <1>1 DEF SettingsInv
<1>2. CASE InitBegin \/ InitPolicy \/ InitBlock \/ InitGenesis \/ InitBaseline \/ Fill
             \/ Command \/ (\E f \in Files : WriteTarget(f)) \/ RecordTarget
             \/ InstallScripts \/ Kill
  <2>1. InitPolicy \/ InitBlock \/ InitGenesis => cmd'.pc # "wire"
    BY DEF InitPolicy, InitBlock, InitGenesis, CarriesText, Idle
  <2>2. \/ InitBegin \/ InitBaseline \/ Fill \/ Command \/ (\E f \in Files : WriteTarget(f))
        \/ RecordTarget \/ InstallScripts \/ Kill
        => cmd'.pc # "wire"
    BY DEF InitBegin, InitBaseline, Fill, Command, WriteTarget, RecordTarget, InstallScripts,
       Kill, Idle, Open
  <2> QED BY <1>1, <1>2, <2>1, <2>2
        DEF InitBegin, InitPolicy, InitBlock, InitGenesis, InitBaseline, Fill, Command,
            WriteTarget, RecordTarget, InstallScripts, Kill, repo
<1>3. CASE InitAgain \/ (\E f \in Files : AgentEdit(f)) \/ AgentEditLoop \/ EditPolicy
             \/ UNCHANGED vars
  BY <1>1, <1>3 DEF InitAgain, AgentEdit, AgentEditLoop, EditPolicy, vars
<1>4. CASE InstallMerge
  <2> DEFINE found == IF settings = Missing THEN [user |-> FALSE, guard |-> 0, stop |-> 0]
                      ELSE settings
  <2>1. settings # Torn => found \in Settled
    <3>1. settings = Missing => [user |-> FALSE, guard |-> 0, stop |-> 0] \in Settled
      BY DEF SettingsInv, Settled, Settings
    <3> QED BY <3>1 DEF SettingsInv
  <2>2. settings # Torn => Merged(found) \in Settled
    BY <2>1, MergedSettles
  <2>3. \/ cmd' = Idle /\ UNCHANGED settings
        \/ /\ settings # Torn /\ settings' = Torn
           /\ cmd' = [pc |-> "wire", contents |-> Merged(found)]
    BY <1>4 DEF InstallMerge
  <2> HIDE DEF found
  <2>4. CASE cmd' = Idle /\ UNCHANGED settings
    BY <1>1, <2>4 DEF Idle
  <2>5. ASSUME settings # Torn, settings' = Torn,
               cmd' = [pc |-> "wire", contents |-> Merged(found)]
        PROVE  SettingsInv'
    BY <2>2, <2>5, OnboardingAssumption DEF SettingsInv
  <2> QED BY <2>3, <2>4, <2>5
<1>5. CASE InstallWire
  <2>1. settings' \in Settled /\ cmd'.pc # "wire"
    BY <1>5 DEF InstallWire, SettingsInv, Idle
  <2>2. settings' \in Settings
    BY <2>1 DEF Settled
  <2> QED BY <2>1, <2>2, OnboardingAssumption DEF SettingsInv
<1> QED BY <1>2, <1>3, <1>4, <1>5 DEF Next
-----------------------------------------------------------------------------
\* state.json

\* A state.json that is taken to be written fits.
LEMMA BaselineFits ==
    ASSUME Typed, NEW text \in SUBSET Files
    PROVE  [patterns |-> text, heads |-> Baseline(text)] \in States
<1>1. {g \in text : Present(g)} \in SUBSET Files
  OBVIOUS
<1>2. Baseline(text) \in [{g \in text : Present(g)} -> Text]
  BY DEF Baseline, Typed, Present
<1> HIDE DEF Baseline
<1>3. Baseline(text) \in UNION {[D -> Text] : D \in SUBSET Files}
  BY <1>1, <1>2
<1> QED BY <1>3 DEF States

LEMMA SavedBackFits == ASSUME Typed, state # Torn PROVE SavedBack \in States
<1>1. NoHeads \in [{} -> Text]
  BY DEF NoHeads
<1>2. [patterns |-> {}, heads |-> NoHeads] \in States
  BY <1>1 DEF States
<1> QED BY <1>2 DEF SavedBack, Typed

\* So does one with a head taken again.
LEMMA RecordedFits ==
    ASSUME Typed, NEW s \in States, NEW t \in Files
    PROVE  [s EXCEPT !.heads = Recorded(s.heads, t)] \in States
<1>1. PICK D \in SUBSET Files : s.heads \in [D -> Text]
  BY DEF States
<1> DEFINE E == (D \ {t}) \cup {h \in {t} : Present(h)}
<1>2. Recorded(s.heads, t) \in [E -> Text]
  <2>1. DOMAIN s.heads = D
    BY <1>1
  <2>2. Present(t) => files[t] \in Text
    BY DEF Present, Typed
  <2>3. Recorded(s.heads, t) = [g \in E |-> IF g = t THEN files[t] ELSE s.heads[g]]
    BY <2>1 DEF Recorded
  <2>4. \A g \in E : (IF g = t THEN files[t] ELSE s.heads[g]) \in Text
    BY <1>1, <2>2
  <2> QED BY <2>3, <2>4
<1>3. E \in SUBSET Files
  OBVIOUS
<1>4. Recorded(s.heads, t) \in UNION {[A -> Text] : A \in SUBSET Files}
  BY <1>2, <1>3
<1> QED BY <1>4 DEF States

LEMMA RewrittenFits == ASSUME Typed, state \notin Nothing PROVE Rewritten \subseteq States
<1>1. state \in States /\ state.patterns \in SUBSET Files
  BY DEF Typed, States
<1>2. [patterns |-> state.patterns, heads |-> Baseline(state.patterns)] \in States
  BY <1>1, BaselineFits
<1>3. Baseline(state.patterns) \in UNION {[D -> Text] : D \in SUBSET Files}
  BY <1>2 DEF States
<1>4. [state EXCEPT !.heads = Baseline(state.patterns)] \in States
  BY <1>1, <1>3 DEF States
<1>5. [patterns |-> {}, heads |-> NoHeads] \in States
  <2>1. NoHeads \in [{} -> Text]
    BY DEF NoHeads
  <2> QED BY <2>1 DEF States
<1> QED BY <1>4, <1>5 DEF Rewritten

LEMMA NextTyped == OnboardingInv /\ [Next]_vars => Typed' /\ CarriesText'
<1> SUFFICES ASSUME OnboardingInv, [Next]_vars PROVE Typed' /\ CarriesText'
  OBVIOUS
<1> USE DEF OnboardingInv
<1>1. CASE InitAgain \/ UNCHANGED vars
  BY <1>1 DEF InitAgain, vars, tracks, Typed, CarriesText
<1>2. CASE InitBegin
  BY <1>2 DEF InitBegin, tracks, Typed, CarriesText
<1>3. CASE InitPolicy
  <2>1. cmd.text \in Policies /\ cmd = [pc |-> "policy", text |-> cmd.text]
    BY <1>3 DEF InitPolicy, CarriesText
  <2>2. policy' = cmd.text
    BY <1>3 DEF InitPolicy
  <2>3. Typed'
    BY <1>3, <2>1, <2>2 DEF InitPolicy, tracks, Typed
  <2>4. \/ cmd' = Idle
        \/ cmd.text # Malformed /\ cmd' = [cmd EXCEPT !.pc = "block"]
    BY <1>3 DEF InitPolicy
  <2>5. cmd' = [cmd EXCEPT !.pc = "block"] => cmd' = [pc |-> "block", text |-> cmd.text]
    BY <2>1
  <2>6. CarriesText'
    BY <2>1, <2>4, <2>5, OnboardingAssumption DEF CarriesText, Idle
  <2> QED BY <2>3, <2>6
<1>4. CASE InitBlock \/ InitGenesis
  <2>1. cmd = [pc |-> cmd.pc, text |-> cmd.text] /\ cmd.text \in SUBSET Files
    BY <1>4 DEF InitBlock, InitGenesis, CarriesText
  <2>2. \E p \in {"genesis", "baseline"} : cmd' = [pc |-> p, text |-> cmd.text]
    BY <1>4, <2>1 DEF InitBlock, InitGenesis
  <2>3. Typed'
    BY <1>4 DEF InitBlock, InitGenesis, tracks, Typed, Text
  <2> QED BY <2>1, <2>2, <2>3 DEF CarriesText
<1>5. CASE InitBaseline
  <2>1. cmd.text \in SUBSET Files
    BY <1>5 DEF InitBaseline, CarriesText
  <2>2. [patterns |-> cmd.text, heads |-> Baseline(cmd.text)] \in States
    BY <2>1, BaselineFits
  <2> QED BY <1>5, <2>1, <2>2 DEF InitBaseline, Open, Typed, CarriesText
<1>6. CASE Fill
  BY <1>6 DEF Fill, tracks, Typed, CarriesText, Idle
<1>7. CASE Command
  BY <1>7, SavedBackFits DEF Command, CanRun, Open, tracks, Typed, CarriesText
<1>11. ASSUME NEW f \in Files, WriteTarget(f)
       PROVE  Typed' /\ CarriesText'
  <2>1. SavedBack \in States
    BY <1>11, SavedBackFits DEF WriteTarget, CanRun
  <2>2. Typed'
    BY <1>11 DEF WriteTarget, Typed, Text
  <2>3. cmd'.pc = "record" /\ cmd'.contents = SavedBack /\ cmd'.target = f
    BY <1>11 DEF WriteTarget
  <2> QED BY <2>1, <2>2, <2>3 DEF CarriesText
<1>12. CASE RecordTarget
  <2> DEFINE s == [cmd.contents EXCEPT !.heads = Recorded(cmd.contents.heads, cmd.target)]
  <2>1. s \in States
    BY <1>12, RecordedFits DEF RecordTarget, CarriesText
  <2>2. state' = Torn /\ cmd' = [pc |-> "fill", contents |-> s]
    BY <1>12 DEF RecordTarget, Open
  <2> HIDE DEF s
  <2> QED BY <1>12, <2>1, <2>2 DEF RecordTarget, Typed, CarriesText
<1>8. CASE InstallScripts \/ InstallMerge \/ InstallWire
  BY <1>8 DEF InstallScripts, InstallMerge, InstallWire, repo, tracks, Typed, CarriesText, Idle
<1>9. ASSUME NEW f \in Files, AgentEdit(f)
      PROVE  Typed' /\ CarriesText'
  BY <1>9 DEF AgentEdit, Typed, CarriesText, Text
<1>10. CASE AgentEditLoop \/ EditPolicy \/ Kill
  BY <1>10, RewrittenFits
     DEF AgentEditLoop, EditPolicy, Kill, repo, tracks, Typed, CarriesText, Idle
<1> QED
  BY <1>1, <1>2, <1>3, <1>4, <1>5, <1>6, <1>7, <1>8, <1>9, <1>10, <1>11, <1>12 DEF Next
-----------------------------------------------------------------------------
\* The baseline

\* A baseline taken when nothing has slipped is current.
LEMMA BaselineIsCurrent ==
    ASSUME slipped' = {}, NEW text \in SUBSET Files, files' = files, governed' = text,
           NEW s, s = [patterns |-> text, heads |-> Baseline(text)]
    PROVE  /\ s.patterns = governed' /\ slipped' \subseteq DOMAIN s.heads
           /\ \A f \in DOMAIN s.heads : f \notin slipped' /\ files'[f] = s.heads[f]
BY DEF Baseline, Present

\* What is written back of a state.json that is current or absent is current.
LEMMA SavedBackIsCurrent ==
    ASSUME Track, state # Torn
    PROVE  /\ Current(SavedBack)
           /\ state \notin Nothing => state.heads = SavedBack.heads
           /\ state = Missing => DOMAIN SavedBack.heads = {}
<1>1. CASE state = Missing
  <2>1. SavedBack = [patterns |-> {}, heads |-> NoHeads]
    BY <1>1 DEF SavedBack
  <2>2. DOMAIN NoHeads = {}
    BY DEF NoHeads
  <2> QED BY <1>1, <2>1, <2>2 DEF Current, Fits, Track
<1>2. CASE state # Missing
  BY <1>2 DEF SavedBack, Track
<1> QED BY <1>1, <1>2

\* An edit of the agent: of a file with a head, which slips, or of another.
LEMMA EditTracked ==
    ASSUME Typed, NEW f \in Files, AgentEdit(f),
           NEW s, Current(s), s.heads = Heads, DOMAIN Heads \subseteq Files
    PROVE  NowCurrent(s)
<1>1. DOMAIN files = Files
  BY DEF Typed
<1>2. /\ files' = [files EXCEPT ![f] =
            IF f \in DOMAIN Heads /\ Heads[f] = "edited" THEN "changed" ELSE "edited"]
      /\ slipped' = slipped \cup ({f} \cap DOMAIN Heads)
      /\ governed' = governed /\ unrecorded' = unrecorded
  BY DEF AgentEdit
<1>3. \A g \in Files \ {f} : files'[g] = files[g]
  BY <1>1, <1>2
<1>4. f \in DOMAIN Heads => f \in slipped' /\ files'[f] # Heads[f]
  BY <1>1, <1>2
<1>5. slipped' \subseteq DOMAIN s.heads
  BY <1>2 DEF Current, NowCurrent, Fits
<1>6. ASSUME NEW g \in DOMAIN s.heads
      PROVE  /\ g \in slipped' => files'[g] # s.heads[g]
             /\ g \notin slipped' \cup unrecorded' => files'[g] = s.heads[g]
  <2>1. CASE g = f
    BY <1>4, <1>6, <2>1
  <2>2. CASE g # f
    <3>1. files'[g] = files[g] /\ (g \in slipped' <=> g \in slipped)
      BY <1>2, <1>3, <1>6, <2>2
    <3> QED BY <1>2, <1>6, <3>1 DEF Current, NowCurrent, Fits
  <2> QED BY <2>1, <2>2
<1> QED BY <1>2, <1>5, <1>6 DEF Current, NowCurrent, Fits

\* An application or a rollback writes its target.
LEMMA WriteTracked ==
    ASSUME Typed, NEW f \in Files, WriteTarget(f), NEW s, Current(s), DOMAIN s.heads \subseteq Files
    PROVE  NowCurrent(s)
<1>1. /\ \A g \in Files \ {f} : files'[g] = files[g]
      /\ slipped' = slipped \ {f} /\ unrecorded' = unrecorded \cup {f} /\ governed' = governed
  BY DEF WriteTarget, Typed
<1> QED BY <1>1 DEF Current, NowCurrent, Fits

\* It records the head of its target.
LEMMA RecordTracked ==
    ASSUME Typed, RecordTarget, cmd.contents \in States, Current(cmd.contents),
           NEW s, s = [cmd.contents EXCEPT !.heads = Recorded(cmd.contents.heads, cmd.target)]
    PROVE  NowCurrent(s)
<1> DEFINE t == cmd.target
           heads == cmd.contents.heads
<1>1. /\ files' = files /\ governed' = governed
      /\ slipped' = slipped \ {t} /\ unrecorded' = unrecorded \ {t}
  BY DEF RecordTarget
<1>2. s.heads = Recorded(heads, t) /\ s.patterns = cmd.contents.patterns
  BY DEF States
<1>3. /\ DOMAIN Recorded(heads, t) = (DOMAIN heads \ {t}) \cup {h \in {t} : Present(h)}
      /\ \A g \in DOMAIN Recorded(heads, t) :
            Recorded(heads, t)[g] = IF g = t THEN files[t] ELSE heads[g]
  BY DEF Recorded
<1>4. /\ slipped \subseteq DOMAIN heads /\ cmd.contents.patterns = governed
      /\ \A f \in DOMAIN heads :
            /\ f \in slipped => files[f] # heads[f]
            /\ f \notin slipped \cup unrecorded => files[f] = heads[f]
  BY DEF Current, NowCurrent, Fits
<1> HIDE DEF t, heads
<1>5. slipped' \subseteq DOMAIN s.heads
  BY <1>1, <1>2, <1>3, <1>4
<1>6. \A f \in DOMAIN s.heads :
        /\ f \in slipped' => files'[f] # s.heads[f]
        /\ f \notin slipped' \cup unrecorded' => files'[f] = s.heads[f]
  BY <1>1, <1>2, <1>3, <1>4
<1> QED BY <1>1, <1>2, <1>4, <1>5, <1>6 DEF Current, NowCurrent, Fits

LEMMA NextTracked == OnboardingInv /\ [Next]_vars => TrackInv'
<1> SUFFICES ASSUME Typed, CarriesText, Track, [Next]_vars, ~tampered' PROVE Track'
  <2>1. ASSUME [Next]_vars PROVE tampered => tampered'
    BY <2>1 DEF Next, InitAgain, InitBegin, InitPolicy, InitBlock, InitGenesis, InitBaseline,
       Fill, Command, WriteTarget, RecordTarget, InstallScripts, InstallMerge, InstallWire,
       AgentEdit, AgentEditLoop, EditPolicy, Kill, repo, vars, tracks
  <2> QED BY <2>1 DEF OnboardingInv, TrackInv
<1>1. CASE InitAgain \/ InstallScripts \/ InstallMerge \/ InstallWire \/ UNCHANGED vars
  <2>1. UNCHANGED <<loop, policy, state, files, slipped, unrecorded, governed>>
    <3>1. InitAgain \/ UNCHANGED vars =>
            UNCHANGED <<loop, policy, state, files, slipped, unrecorded, governed>>
      BY DEF InitAgain, vars, tracks
    <3>2. InstallScripts \/ InstallMerge \/ InstallWire =>
            UNCHANGED <<loop, policy, state, files, slipped, unrecorded, governed>>
      BY DEF InstallScripts, InstallMerge, InstallWire, repo, tracks
    <3> QED BY <1>1, <3>1, <3>2
  <2>2. cmd' = cmd \/ cmd'.pc \notin Begun \cup {"record", "fill"}
    BY <1>1 DEF InitAgain, InstallScripts, InstallMerge, InstallWire, vars, Idle
  <2> QED BY <2>1, <2>2 DEF Track, Current, Fits, Exists
<1>2. CASE InitBegin
  <2>1. /\ cmd'.pc = "policy" /\ loop' /\ slipped = {} /\ unrecorded = {} /\ governed = {}
        /\ state \in Nothing
        /\ UNCHANGED <<policy, state, files, slipped, unrecorded, governed>>
    BY <1>2 DEF InitBegin, Track, tracks
  <2> QED BY <2>1 DEF Track, Exists
<1>3. CASE InitPolicy
  <2>1. /\ cmd.text \in Policies /\ cmd = [pc |-> "policy", text |-> cmd.text]
        /\ policy' # Missing
    BY <1>3, OnboardingAssumption DEF InitPolicy, CarriesText
  <2>2. /\ loop /\ slipped = {} /\ unrecorded = {} /\ governed = {} /\ state \in Nothing
        /\ UNCHANGED <<loop, state, files, slipped, unrecorded, governed>>
    BY <1>3 DEF InitPolicy, Track, tracks
  <2>3. cmd'.pc \in {"idle", "block"}
    BY <1>3, <2>1 DEF InitPolicy, Idle
  <2> QED BY <2>1, <2>2, <2>3 DEF Track, Exists
<1>4. CASE InitBlock \/ InitGenesis
  <2>1. /\ loop /\ slipped = {} /\ unrecorded = {} /\ governed = {} /\ state \in Nothing
        /\ policy # Missing
        /\ UNCHANGED <<loop, policy, state, slipped, unrecorded, governed>>
    BY <1>4 DEF InitBlock, InitGenesis, Track, tracks
  <2>2. cmd'.pc \in {"genesis", "baseline"}
    BY <1>4 DEF InitBlock, InitGenesis, CarriesText
  <2> QED BY <2>1, <2>2 DEF Track, Exists
<1>5. CASE InitBaseline
  <2> DEFINE s == [patterns |-> cmd.text, heads |-> Baseline(cmd.text)]
  <2>1. /\ loop /\ slipped = {} /\ policy # Missing /\ cmd.text \in SUBSET Files
        /\ UNCHANGED <<loop, policy, files, slipped>>
        /\ governed' = cmd.text /\ state' = Torn
        /\ cmd' = [pc |-> "fill", contents |-> s]
    BY <1>5 DEF InitBaseline, Open, Track, CarriesText
  <2>2. /\ s.patterns = governed' /\ slipped' \subseteq DOMAIN s.heads
        /\ \A f \in DOMAIN s.heads : f \notin slipped' /\ files'[f] = s.heads[f]
    BY <2>1, BaselineIsCurrent
  <2> HIDE DEF s
  <2>3. cmd'.contents = s /\ cmd'.pc = "fill"
    BY <2>1
  <2>4. Current(cmd.contents)'
    BY <2>2, <2>3 DEF Current, NowCurrent, Fits
  <2> QED BY <2>1, <2>3, <2>4, OnboardingAssumption DEF Track, Exists
<1>6. CASE Fill
  <2>1. /\ Current(cmd.contents) /\ state' = cmd.contents /\ state' \in States /\ Exists
        /\ cmd'.pc = "idle"
        /\ UNCHANGED <<loop, policy, files, slipped, unrecorded, governed>>
    BY <1>6 DEF Fill, Track, CarriesText, Idle, tracks
  <2>2. Current(state)' /\ Exists'
    BY <2>1 DEF Current, Fits, Exists
  <2> QED BY <2>1, <2>2, OnboardingAssumption DEF Track
<1>7. CASE Command
  <2>1. /\ Current(SavedBack) /\ Exists /\ state' = Torn
        /\ cmd' = [pc |-> "fill", contents |-> SavedBack]
        /\ UNCHANGED <<loop, policy, files, slipped, unrecorded, governed>>
    BY <1>7, SavedBackIsCurrent DEF Command, CanRun, Open, tracks
  <2>2. cmd'.pc = "fill" /\ cmd'.contents = SavedBack
    BY <2>1
  <2>3. Current(cmd.contents)' /\ Exists'
    BY <2>1, <2>2 DEF Current, Fits, Exists
  <2> QED BY <2>1, <2>2, <2>3, OnboardingAssumption DEF Track
<1>8. ASSUME NEW f \in Files, AgentEdit(f)
      PROVE  Track'
  <2>1. UNCHANGED <<loop, policy, state, cmd, unrecorded, governed>>
    BY <1>8 DEF AgentEdit
  <2>2. DOMAIN Heads \subseteq Files
    BY DEF Heads, CarriesText, Typed, States, NoHeads
  <2>3. ASSUME state \notin Nothing PROVE NowCurrent(state)
    <3>1. Heads = state.heads /\ Current(state)
      BY <2>3 DEF Heads, Track
    <3> QED BY <1>8, <2>2, <3>1, EditTracked
  <2>4. ASSUME cmd.pc \in {"record", "fill"} PROVE NowCurrent(cmd.contents)
    <3>1. Heads = cmd.contents.heads /\ Current(cmd.contents)
      BY <2>4 DEF Heads, Track
    <3> QED BY <1>8, <2>2, <3>1, EditTracked
  <2>5. slipped' # slipped => f \in DOMAIN Heads
    BY <1>8 DEF AgentEdit
  <2>6. f \in DOMAIN Heads =>
            /\ state # Missing
            /\ state \notin Nothing \/ cmd.pc \in {"record", "fill"}
    BY OnboardingAssumption DEF Heads, Track, NoHeads
  <2>7. /\ (state \notin Nothing => Current(state))'
        /\ (cmd.pc \in {"record", "fill"} => Current(cmd.contents))'
    BY <2>1, <2>3, <2>4 DEF Current, NowCurrent
  <2> QED BY <2>1, <2>5, <2>6, <2>7 DEF Track, Exists
<1>9. CASE AgentEditLoop
  <2>1. /\ UNCHANGED <<loop, policy, files, cmd, slipped, unrecorded, governed>>
        /\ state' = Torn \/ state' = state
    BY <1>9 DEF AgentEditLoop
  <2> QED BY <2>1, OnboardingAssumption DEF Track, Current, Fits, Exists
<1>10. CASE EditPolicy
  <2>1. /\ UNCHANGED <<loop, state, files, cmd, slipped, unrecorded, governed>>
        /\ policy' # Missing
    BY <1>10, OnboardingAssumption DEF EditPolicy, tracks
  <2> QED BY <2>1 DEF Track, Current, Fits, Exists
<1>11. CASE Kill
  <2>1. UNCHANGED <<loop, policy, state, files, slipped, unrecorded, governed>> /\ cmd'.pc = "idle"
    BY <1>11 DEF Kill, Idle, repo, tracks
  <2> QED BY <2>1 DEF Track, Current, Fits, Exists
<1>12. ASSUME NEW f \in Files, WriteTarget(f)
       PROVE  Track'
  <2>1. /\ state # Torn /\ Exists /\ cmd'.pc = "record" /\ cmd'.contents = SavedBack
        /\ UNCHANGED <<loop, policy, state, governed>> /\ slipped' \subseteq slipped
    BY <1>12 DEF WriteTarget, CanRun
  <2>2. /\ Current(SavedBack)
        /\ state \notin Nothing => state.heads = SavedBack.heads
        /\ state = Missing => DOMAIN SavedBack.heads = {}
    BY <2>1, SavedBackIsCurrent
  <2>3. SavedBack \in States /\ DOMAIN SavedBack.heads \subseteq Files
    BY <2>1, SavedBackFits DEF States
  <2>4. NowCurrent(SavedBack)
    BY <1>12, <2>2, <2>3, WriteTracked
  <2>5. Current(cmd.contents)'
    BY <2>1, <2>4 DEF Current, NowCurrent
  <2>6. ASSUME state \notin Nothing PROVE NowCurrent(state)
    <3>1. Current(state) /\ DOMAIN state.heads \subseteq Files
      BY <2>6 DEF Track, Typed, States
    <3> QED BY <1>12, <3>1, WriteTracked
  <2>7. /\ (state \notin Nothing => state.heads = cmd.contents.heads)'
        /\ (state = Missing => DOMAIN cmd.contents.heads = {})'
        /\ (state \notin Nothing => Current(state))'
    BY <2>1, <2>2, <2>6 DEF Current, NowCurrent
  <2> QED BY <2>1, <2>5, <2>7 DEF Track, Exists
<1>13. CASE RecordTarget
  <2> DEFINE s == [cmd.contents EXCEPT !.heads = Recorded(cmd.contents.heads, cmd.target)]
  <2>1. /\ cmd.pc = "record" /\ cmd.contents \in States /\ Current(cmd.contents) /\ Exists
    BY <1>13 DEF RecordTarget, CarriesText, Track
  <2>2. NowCurrent(s)
    BY <1>13, <2>1, RecordTracked
  <2>3. /\ state' = Torn /\ cmd' = [pc |-> "fill", contents |-> s]
        /\ UNCHANGED <<loop, policy>>
    BY <1>13 DEF RecordTarget, Open
  <2> HIDE DEF s
  <2>4. cmd'.pc = "fill" /\ Current(cmd.contents)'
    BY <2>2, <2>3 DEF Current, NowCurrent
  <2> QED BY <2>1, <2>3, <2>4, OnboardingAssumption DEF Track, Exists
<1> QED
  BY <1>1, <1>2, <1>3, <1>4, <1>5, <1>6, <1>7, <1>8, <1>9, <1>10, <1>11, <1>12, <1>13 DEF Next

LEMMA OnboardingAlways == Spec => []OnboardingInv
<1>1. OnboardingInv /\ [Next]_vars => OnboardingInv'
  BY NextTyped, NextSettings, NextTracked DEF OnboardingInv
<1> QED BY <1>1, InitOnboarding, PTL DEF Spec
-----------------------------------------------------------------------------
\* Our hooks are wired at most once, and the user's stay, however often install-skill is
\* given and wherever it is killed, whenever settings.json can be read: a kill while it is
\* being written leaves one that cannot, and what it said is lost (_merge_hooks and the
\* write of skill_install.py).
THEOREM HooksAreWiredOnce == Spec => []WiredOnce
<1>1. SettingsInv => WiredOnce
  <2> SUFFICES ASSUME SettingsInv, settings \notin {Missing, Torn}
               PROVE  settings.guard <= 1 /\ settings.stop <= 1
                      /\ settings.user = UserSettings
    BY DEF WiredOnce
  <2>1. settings \in Settled
    BY DEF SettingsInv
  <2> QED BY <2>1 DEF Settled
<1>2. OnboardingInv => SettingsInv
  BY DEF OnboardingInv
<1> QED BY <1>1, <1>2, OnboardingAlways, PTL

\* verify reports a file edited around the loop until an application or a rollback writes
\* the file or takes its head again, and nothing else but what these have written and not
\* recorded: from init on, through kills, commands that save state.json again, and all
\* edits of state.json that leave the heads alone (init_workspace, apply, rollback and
\* verify of executor.py, write_state of workspace.py).
THEOREM VerifySeesWhatSlipped == Spec => []VerifyIsExact
<1>1. OnboardingInv => VerifyIsExact
  <2> SUFFICES ASSUME OnboardingInv, ~tampered PROVE VerifyIsExact
    BY DEF VerifyIsExact
  <2>1. Track
    BY DEF OnboardingInv, TrackInv
  <2>2. ASSUME slipped # {}, VerifyOK PROVE FALSE
    <3>1. state \notin Nothing
      BY <2>1, <2>2 DEF VerifyOK, Track
    <3>2. PICK f \in slipped : f \in DOMAIN state.heads /\ files[f] # state.heads[f]
      BY <2>1, <2>2, <3>1 DEF Track, Current, Fits
    <3> QED BY <2>2, <3>1, <3>2 DEF VerifyOK
  <2>3. ASSUME slipped \cup unrecorded = {}, Exists, policy # Malformed, genesis, state # Torn
        PROVE  VerifyOK
    <3>1. state # Missing => \A f \in DOMAIN state.heads : files[f] = state.heads[f]
      BY <2>1, <2>3 DEF Track, Current, Fits
    <3> QED BY <2>3, <3>1 DEF VerifyOK
  <2> QED BY <2>2, <2>3 DEF VerifyIsExact
<1> QED BY <1>1, OnboardingAlways, PTL

\* Past a wired guard no edit of the agent reaches .monumentum nor, while state.json
\* parses, a file that init governed, which applications and rollbacks alone change: the
\* patterns that the guard loads are those init took (load_patterns and main of
\* pretooluse_guard.py).
THEOREM GuardKeepsGoverned == Spec => GuardHolds
<1> DEFINE Held == /\ (genesis => genesis') /\ tampered' = tampered
                   /\ state # Torn /\ ~tampered =>
                        \A f \in governed : files'[f] = files[f] \/ WriteTarget(f)
<1>1. OnboardingInv /\ [Next]_vars => [Wired /\ loop => Held]_vars
  <2> SUFFICES ASSUME OnboardingInv, Next, Wired, loop PROVE Held
    BY DEF vars, tracks
  <2>1. Denies(LoopDir)
    BY DEF Denies
  <2>2. (genesis => genesis') /\ tampered' = tampered
    <3>1. genesis => genesis'
      BY <2>1 DEF Next, InitAgain, InitBegin, InitPolicy, InitBlock, InitGenesis,
         InitBaseline, Fill, Command, WriteTarget, RecordTarget, InstallScripts,
         InstallMerge, InstallWire, AgentEdit, AgentEditLoop, EditPolicy, Kill, repo
    <3>2. tampered' = tampered
      BY <2>1 DEF Next, InitAgain, InitBegin, InitPolicy, InitBlock, InitGenesis,
         InitBaseline, Fill, Command, WriteTarget, RecordTarget, InstallScripts,
         InstallMerge, InstallWire, AgentEdit, AgentEditLoop, EditPolicy, Kill, repo, tracks
    <3> QED BY <3>1, <3>2
  <2>3. ASSUME state # Torn, ~tampered, NEW f \in governed
        PROVE  files'[f] = files[f] \/ WriteTarget(f)
    <3>1. /\ Denies(f) /\ f \in Files /\ ~InitBlock
      <4>1. Track
        BY <2>3 DEF OnboardingInv, TrackInv
      <4>2. state \notin Nothing /\ Current(state)
        BY <2>3, <4>1 DEF Track
      <4>3. f \in LoadPatterns
        BY <2>3, <4>2 DEF LoadPatterns, Current, Fits
      <4> QED
        BY <2>3, <4>1, <4>2, <4>3 DEF Denies, OnboardingInv, Typed, Track, InitBlock
    <3>2. CASE files' = files
      BY <3>2
    <3>3. ASSUME NEW g \in Files, AgentEdit(g)
          PROVE  files'[f] = files[f]
      <4>1. g # f
        BY <3>1, <3>3 DEF AgentEdit
      <4> QED BY <3>1, <3>3, <4>1 DEF AgentEdit, OnboardingInv, Typed
    <3>4. ASSUME NEW g \in Files, WriteTarget(g)
          PROVE  files'[f] = files[f] \/ WriteTarget(f)
      <4>1. CASE g = f
        BY <3>4, <4>1
      <4>2. CASE g # f
        BY <3>1, <3>4, <4>2 DEF WriteTarget, OnboardingInv, Typed
      <4> QED BY <4>1, <4>2
    <3> QED
      BY <3>1, <3>2, <3>3, <3>4 DEF Next, InitAgain, InitBegin, InitPolicy, InitGenesis,
         InitBaseline, Fill, Command, RecordTarget, InstallScripts, InstallMerge,
         InstallWire, AgentEditLoop, EditPolicy, Kill, repo
  <2> QED BY <2>2, <2>3
<1> QED BY <1>1, OnboardingAlways, PTL DEF Spec, GuardHolds
=============================================================================
