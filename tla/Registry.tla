------------------------------ MODULE Registry ------------------------------
(***************************************************************************)
(* Workspaces that exchange promoted changes over a git remote             *)
(* (src/monumentum/registry.py, signing.py): each has a clone of the       *)
(* remote in .monumentum/cache, and `sync' updates it, adds what was       *)
(* promoted, pushes, and proposes what others have pushed.                 *)
(*                                                                         *)
(* A branch is the folder it holds for each change.  It only grows or has  *)
(* folders replaced, so two states of it are equal when no commit lies     *)
(* between them; a push is a fast forward when the remote still is what    *)
(* was fetched.                                                            *)
(***************************************************************************)
EXTENDS Naturals, FiniteSets

CONSTANTS
    Workspaces, ChangeSets,
    Maker,          \* Maker[c]: the workspace that c was proposed in first
    SignsAtStart,   \* workspaces with a signing key from the start
    Requires,       \* workspaces with require_signatures
    Trusts,         \* Trusts[w]: the keys in pubkeys_dir of w
    BranchAtStart,  \* whether the remote has the branch from the start: what is tried
    MaxMeddles,     \* bound on what somebody else commits to the remote
    MaxKills,       \* bound on killed syncs
    Absent, NoBranch, NoCache, Nobody, Garbled, NoId

\* All that sync looks at in a folder: whose valid signature it carries (Nobody: none,
\* or one that does not match the digest of its files; Garbled: a changeset.sig that
\* is JSON but no object), and under which id propose journals it (NoId: the folder
\* does not load, or journal.append refuses its id or its producer).
Folder(k, id) == [by |-> k, id |-> id]

Folders ==
    {Folder(k, id) : k \in Workspaces \cup {Nobody, Garbled}, id \in ChangeSets \cup {NoId}}
        \cup {Absent}

\* What somebody else may commit under the name of c; no key signs it.
StrangersFolders(c) ==
    {Folder(Nobody, id) : id \in ChangeSets \cup {NoId}} \cup {Folder(Garbled, c)}

Branches == [ChangeSets -> Folders]

ASSUME RegistryAssumption ==
    /\ Maker \in [ChangeSets -> Workspaces]
    /\ Requires \cup SignsAtStart \subseteq Workspaces
    /\ Trusts \in [Workspaces -> SUBSET Workspaces]
    /\ BranchAtStart \subseteq BOOLEAN
    /\ MaxKills \in Nat /\ MaxMeddles \in Nat
    /\ NoId \notin ChangeSets
    /\ \A k \in Workspaces \cup {Nobody, Garbled}, id \in ChangeSets \cup {NoId} :
        Absent # Folder(k, id)
    /\ NoBranch \notin Branches
    /\ \A base \in Branches \cup {NoBranch}, head \in Branches, stray \in SUBSET ChangeSets :
        NoCache # [base |-> base, head |-> head, stray |-> stray]

VARIABLES
    remote,     \* the branch at the remote, or NoBranch
    cache,      \* .monumentum/cache/registry: what origin/branch was, the local
                \* commits on it, and folders in the work tree that git knows not
    folder,     \* .monumentum/changesets: the folder of each change, Absent if none
    status,     \* state.json changesets[c].status, "UNKNOWN" if absent
    noted,      \* which events each journal holds
    vouched,    \* whether journal_head is the newest line
    sync,       \* how far each sync is
    signs,      \* workspaces whose registry.yaml names a signing key (also the key)
    kills, meddles

vars == <<remote, cache, folder, status, noted, vouched, sync, signs, kills, meddles>>
local == <<folder, status, noted, vouched>>

NoFolders == [c \in ChangeSets |-> Absent]

Idle == [pc |-> "idle", pushed |-> FALSE, cs |-> Absent, refused |-> {}]

Init ==
    /\ \E exists \in BranchAtStart : remote = IF exists THEN NoFolders ELSE NoBranch
    /\ cache = [w \in Workspaces |-> NoCache]
    /\ folder = [w \in Workspaces |-> [c \in ChangeSets |->
            IF Maker[c] = w THEN Folder(Nobody, c) ELSE Absent]]
    /\ status = [w \in Workspaces |-> [c \in ChangeSets |->
            IF Maker[c] = w THEN "VALIDATED" ELSE "UNKNOWN"]]
    /\ noted = [w \in Workspaces |-> {<<"proposed", c>> : c \in {d \in ChangeSets : Maker[d] = w}}]
    /\ vouched = [w \in Workspaces |-> TRUE]
    /\ sync = [w \in Workspaces |-> Idle]
    /\ signs = SignsAtStart
    /\ kills = 0 /\ meddles = 0

At(w, pc) == sync[w].pc = pc

Goto(w, pc) == sync' = [sync EXCEPT ![w].pc = pc]

\* journal.append, without and with update_journal_head after it.
Note(w, event, c) == noted' = [noted EXCEPT ![w] = @ \cup {<<event, c>>}]

Vouch(w, yes) == vouched' = [vouched EXCEPT ![w] = yes]

\* The folder w has under the name of c carries another id, or none.
Impostor(w, c) == folder[w][c] # Absent /\ folder[w][c].id # c

\* gate, apply and promote: any command that ends saves the journal head.  (Commands
\* about a folder that carries another id are left out; to get past their status it
\* takes two commits of strangers.)
Promote(w, c) ==
    /\ At(w, "idle")
    /\ status[w][c] = "VALIDATED"
    /\ folder[w][c] # Absent /\ ~Impostor(w, c)
    /\ status' = [status EXCEPT ![w][c] = "PROMOTED"]
    /\ Note(w, "promoted", c)
    /\ Vouch(w, TRUE)
    /\ UNCHANGED <<remote, cache, folder, sync, signs, kills, meddles>>

\* keygen, and the owner names the key in registry.yaml.
ConfigureKey(w) ==
    /\ At(w, "idle")
    /\ w \notin signs
    /\ signs' = signs \cup {w}
    /\ UNCHANGED <<remote, cache, local, sync, kills, meddles>>
-----------------------------------------------------------------------------
\* _ensure_cache

Cloned == [base |-> remote, head |-> IF remote = NoBranch THEN NoFolders ELSE remote, stray |-> {}]

\* A plausible update that fetches and stays on its own commits.
UpdatedNoReset(w) == [cache[w] EXCEPT !.stray = {}]

\* fetch and reset --hard: unpushed commits are dropped, unknown folders stay.
Updated(w) ==
    [base |-> remote, head |-> remote,
     stray |-> {c \in cache[w].stray : remote[c] = Absent}]

StartSync(w) ==
    /\ At(w, "idle")
    /\ \/ cache[w] = NoCache /\ cache' = [cache EXCEPT ![w] = Cloned]
       \/ /\ cache[w] # NoCache /\ remote # NoBranch
          /\ cache' = [cache EXCEPT ![w] = Updated(w)]
    /\ Goto(w, "share")
    /\ UNCHANGED <<remote, local, signs, kills, meddles>>

\* No network, or no such branch yet: the error is swallowed and the cache is
\* used as it is.
StartSyncStale(w) ==
    /\ At(w, "idle")
    /\ cache[w] # NoCache
    /\ Goto(w, "share")
    /\ UNCHANGED <<remote, cache, local, signs, kills, meddles>>
-----------------------------------------------------------------------------
\* push

InWorkTree(w, c) == cache[w].head[c] # Absent \/ c \in cache[w].stray

Unshared(w) == {c \in ChangeSets : status[w][c] = "PROMOTED" /\ ~InWorkTree(w, c)}

\* The folder is signed where it is, then copied.
CopyShare(w) ==
    /\ At(w, "share")
    /\ w \in signs \/ w \notin Requires
    /\ \E c \in Unshared(w) :
        /\ folder' = [folder EXCEPT ![w][c] = IF w \in signs THEN Folder(w, c) ELSE @]
        /\ cache' = [cache EXCEPT ![w].stray = @ \cup {c}]
        /\ sync' = [sync EXCEPT ![w].pc = "commit", ![w].cs = c]
    /\ UNCHANGED <<remote, status, noted, vouched, signs, kills, meddles>>

\* Signatures are required and there is no key: RegistryError before the pull.
ShareRefused(w) ==
    /\ At(w, "share")
    /\ w \notin signs /\ w \in Requires
    /\ Unshared(w) # {}
    /\ sync' = [sync EXCEPT ![w] = Idle]
    /\ UNCHANGED <<remote, cache, local, signs, kills, meddles>>

CommitShare(w) ==
    LET c == sync[w].cs IN
    /\ At(w, "commit")
    /\ cache' = [cache EXCEPT ![w].head[c] = folder[w][c], ![w].stray = @ \ {c}]
    /\ Goto(w, "note")
    /\ UNCHANGED <<remote, local, signs, kills, meddles>>

NoteShare(w) ==
    /\ At(w, "note")
    /\ Note(w, "shared", sync[w].cs)
    /\ Vouch(w, FALSE)
    /\ sync' = [sync EXCEPT ![w].pc = "share", ![w].pushed = TRUE]
    /\ UNCHANGED <<remote, cache, folder, status, signs, kills, meddles>>

ReadyToPush(w) == At(w, "share") /\ Unshared(w) = {} /\ sync[w].pushed

\* A plausible push --force.
PushForced(w) ==
    /\ ReadyToPush(w)
    /\ remote' = cache[w].head
    /\ cache' = [cache EXCEPT ![w].base = cache[w].head]
    /\ Goto(w, "head")
    /\ UNCHANGED <<local, signs, kills, meddles>>

Push(w) ==
    /\ ReadyToPush(w)
    /\ cache[w].base = remote
    /\ remote' = cache[w].head
    /\ cache' = [cache EXCEPT ![w].base = cache[w].head]
    /\ Goto(w, "head")
    /\ UNCHANGED <<local, signs, kills, meddles>>

\* No network, or not a fast forward: RegistryError.
PushFails(w) ==
    /\ ReadyToPush(w)
    /\ sync' = [sync EXCEPT ![w] = Idle]
    /\ UNCHANGED <<remote, cache, local, signs, kills, meddles>>

SaveHead(w) ==
    /\ At(w, "head")
    /\ Vouch(w, TRUE)
    /\ Goto(w, "pull")
    /\ UNCHANGED <<remote, cache, folder, status, noted, signs, kills, meddles>>

NothingToPush(w) ==
    /\ At(w, "share")
    /\ Unshared(w) = {} /\ ~sync[w].pushed
    /\ Goto(w, "pull")
    /\ UNCHANGED <<remote, cache, local, signs, kills, meddles>>
-----------------------------------------------------------------------------
\* pull

Incoming(w) ==
    {c \in ChangeSets :
        InWorkTree(w, c) /\ folder[w][c] = Absent /\ c \notin sync[w].refused}

\* A plausible verify_changeset that checks the digest and not the key.
AcceptableIfSigned(w, copy) == w \in Requires => copy.by \notin {Nobody, Garbled}

\* verify_changeset, where signatures are required.
Acceptable(w, copy) == w \in Requires => copy.by \in Trusts[w]

\* A plausible pull that copies the folder before it verifies it.
PullRefuseInPlace(w) ==
    /\ At(w, "pull")
    /\ \E c \in Incoming(w) :
        /\ ~Acceptable(w, cache[w].head[c])
        /\ folder' = [folder EXCEPT ![w][c] = cache[w].head[c]]
        /\ Note(w, "rejected", c)
        /\ sync' = [sync EXCEPT ![w].refused = @ \cup {c}]
    /\ Vouch(w, TRUE)
    /\ UNCHANGED <<remote, cache, status, signs, kills, meddles>>

PullRefuse(w) ==
    /\ At(w, "pull")
    /\ \E c \in Incoming(w) :
        /\ ~Acceptable(w, cache[w].head[c])
        /\ cache[w].head[c].by # Garbled
        /\ Note(w, "rejected", c)
        /\ sync' = [sync EXCEPT ![w].refused = @ \cup {c}]
    /\ Vouch(w, TRUE)
    /\ UNCHANGED <<remote, cache, folder, status, signs, kills, meddles>>

\* verify_changeset catches KeyError and ValueError, and the TypeError of a signature
\* that is no object ends the sync.
PullAborts(w) ==
    /\ At(w, "pull")
    /\ w \in Requires
    /\ \E c \in Incoming(w) : cache[w].head[c].by = Garbled
    /\ sync' = [sync EXCEPT ![w] = Idle]
    /\ UNCHANGED <<remote, cache, local, signs, kills, meddles>>

PullCopy(w) ==
    /\ At(w, "pull")
    /\ \E c \in Incoming(w) :
        /\ Acceptable(w, cache[w].head[c])
        /\ folder' = [folder EXCEPT ![w][c] = cache[w].head[c]]
        /\ sync' = [sync EXCEPT ![w].pc = "propose", ![w].cs = c]
    /\ UNCHANGED <<remote, cache, status, noted, vouched, signs, kills, meddles>>

\* propose: the local policy accepts the change or rejects it.  It is journaled, and
\* gets its status, under the id in the envelope and not under the folder's name.
ProposePulled(w) ==
    LET id == folder[w][sync[w].cs].id IN
    /\ At(w, "propose")
    /\ id # NoId
    /\ \E st \in {"VALIDATED", "REJECTED"} : status' = [status EXCEPT ![w][id] = st]
    /\ Note(w, "proposed", id)
    /\ Vouch(w, TRUE)
    /\ Goto(w, "pull")
    /\ UNCHANGED <<remote, cache, folder, signs, kills, meddles>>

\* load_changeset or journal.append raises; the copied folder stays.
ProposeFails(w) ==
    /\ At(w, "propose")
    /\ folder[w][sync[w].cs].id = NoId
    /\ sync' = [sync EXCEPT ![w] = Idle]
    /\ UNCHANGED <<remote, cache, local, signs, kills, meddles>>

EndSync(w) ==
    /\ At(w, "pull")
    /\ Incoming(w) = {}
    /\ sync' = [sync EXCEPT ![w] = Idle]
    /\ UNCHANGED <<remote, cache, local, signs, kills, meddles>>
-----------------------------------------------------------------------------
\* A sync is killed, or ends because git or the local policy fails it.
Kill(w) ==
    /\ kills < MaxKills
    /\ ~At(w, "idle")
    /\ sync' = [sync EXCEPT ![w] = Idle]
    /\ kills' = kills + 1
    /\ UNCHANGED <<remote, cache, local, signs, meddles>>

\* Somebody with write access to the remote commits a folder that nobody signed.
Meddle ==
    /\ meddles < MaxMeddles
    /\ remote # NoBranch
    /\ \E c \in ChangeSets : \E strange \in StrangersFolders(c) \ {remote[c]} :
        remote' = [remote EXCEPT ![c] = strange]
    /\ meddles' = meddles + 1
    /\ UNCHANGED <<cache, local, sync, signs, kills>>

Continue(w) ==
    \/ CopyShare(w)
    \/ ShareRefused(w)
    \/ CommitShare(w)
    \/ NoteShare(w)
    \/ Push(w)
    \/ PushFails(w)
    \/ SaveHead(w)
    \/ NothingToPush(w)
    \/ PullRefuse(w)
    \/ PullAborts(w)
    \/ PullCopy(w)
    \/ ProposePulled(w)
    \/ ProposeFails(w)
    \/ EndSync(w)

Next ==
    \/ \E w \in Workspaces :
        \/ \E c \in ChangeSets : Promote(w, c)
        \/ ConfigureKey(w)
        \/ StartSync(w)
        \/ StartSyncStale(w)
        \/ Continue(w)
        \/ Kill(w)
    \/ Meddle

Spec == Init /\ [][Next]_vars

\* A sync that is not killed goes on; sync is called again and again, and neither
\* the fetch nor the push fails for ever when it could succeed.
FairSpec ==
    /\ Spec
    /\ \A w \in Workspaces :
        /\ WF_vars(StartSync(w) \/ StartSyncStale(w)) /\ WF_vars(Continue(w))
        /\ SF_vars(StartSync(w)) /\ SF_vars(Push(w))
-----------------------------------------------------------------------------
\* Properties.

\* I6 at the receiving end: where signatures are required, every folder that came
\* over the registry carries a valid signature of a trusted key, whoever pushed to
\* the remote and however often folders there were replaced.
PulledIsTrusted ==
    \A w \in Requires : \A c \in ChangeSets :
        Maker[c] # w /\ folder[w][c] # Absent => folder[w][c].by \in Trusts[w] \cup {w}

\* Two workspaces that push at the same time never undo each other's share: what the
\* branch holds for a change stays there as it is, unless a stranger replaces it (a
\* push is refused unless it is a fast forward, and an update drops unpushed commits
\* first).
NoShareIsLost ==
    [][remote # NoBranch =>
        \A c \in ChangeSets : remote[c] # Absent =>
            remote'[c] = remote[c] \/ (Meddle /\ remote'[c] # Absent)]_vars

\* "`sync` pushes locally PROMOTED ChangeSets and pulls peers'": once the branch exists
\* and nobody lacks a key he needs, a change promoted where it was made is proposed or
\* refused in every other workspace in the end, when syncs of both race, pushes are
\* refused, fetches fail now and then, strangers commit, and folders of theirs end a
\* sync in propose.  Not promised: after a kill, which may leave a folder in the clone
\* that no later sync adds; while the remote holds a garbled signature, which ends each
\* pull of a workspace that requires signatures; where a stranger's folder was pulled
\* under the name of the change; and when one that carries its id was proposed where
\* it was made, which takes the promotion back.
PromotedReachesPeers ==
    \A c \in ChangeSets :
        /\ status[Maker[c]][c] = "PROMOTED"
        /\ remote # NoBranch
        /\ Requires \subseteq signs
        /\ kills = 0
        ~>  \/ \A w \in Workspaces :
                 \/ <<"proposed", c>> \in noted[w] \/ <<"rejected", c>> \in noted[w]
                 \/ Impostor(w, c)
            \/ kills > 0
            \/ \E d \in ChangeSets : remote # NoBranch /\ remote[d] = Folder(Garbled, d)
            \/ status[Maker[c]][c] # "PROMOTED"

Unproposed(w) ==
    {c \in ChangeSets :
        /\ At(w, "idle")
        /\ folder[w][c] # Absent /\ ~Impostor(w, c)
        /\ <<"proposed", c>> \notin noted[w]}

\* 10.2, "a pulled ChangeSet enters the local lifecycle at PROPOSED": between syncs
\* every folder that carries its id was proposed, but for the one that a killed sync was
\* about to propose (later syncs take its folder for a change they know).  Folders that
\* propose cannot journal, or journals under another id, stay without a kill.
KillStrandsOneFolder ==
    Cardinality({pair \in Workspaces \X ChangeSets : pair[2] \in Unproposed(pair[1])}) <= kills
=============================================================================
