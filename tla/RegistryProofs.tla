--------------------------- MODULE RegistryProofs ----------------------------
(***************************************************************************)
(* What module Registry promises, proved for any number of workspaces and  *)
(* changes, any keys and any number of kills: only trusted folders are     *)
(* pulled, and no push undoes another.                                     *)
(***************************************************************************)
EXTENDS Registry, FiniteSetTheorems, TLAPS

Caches == [base : Branches \cup {NoBranch}, head : Branches, stray : SUBSET ChangeSets]

Syncs ==
    [pc : {"idle", "share", "commit", "note", "head", "pull", "propose"}, pushed : BOOLEAN,
     cs : ChangeSets \cup {Absent}, refused : SUBSET ChangeSets]

\* The clone is there while a sync runs, and the change it is about to share or to
\* propose is one.
SyncReady(w) ==
    /\ sync[w].pc # "idle" => cache[w] # NoCache
    /\ sync[w].pc \in {"commit", "note", "propose"} => sync[w].cs \in ChangeSets

TypeInv ==
    /\ remote \in Branches \cup {NoBranch}
    /\ cache \in [Workspaces -> Caches \cup {NoCache}]
    /\ folder \in [Workspaces -> Branches]
    /\ sync \in [Workspaces -> Syncs]
    /\ \A w \in Workspaces : SyncReady(w)

\* What was fetched is in the branch of the clone as it was fetched; what is about to be
\* committed there was not fetched.
CacheInv ==
    \A w \in Workspaces : cache[w] # NoCache /\ cache[w].base # NoBranch =>
        /\ \A c \in ChangeSets : cache[w].base[c] # Absent => cache[w].head[c] = cache[w].base[c]
        /\ sync[w].pc = "commit" => cache[w].base[sync[w].cs] = Absent

\* Values that the actions build.
LEMMA Values ==
    /\ NoFolders \in Branches
    /\ Absent \in Folders
    /\ \A w \in Workspaces, c \in ChangeSets : Folder(w, c) \in Folders
    /\ \A c \in ChangeSets : /\ Folder(Nobody, c) \in Folders
                            /\ StrangersFolders(c) \subseteq Folders \ {Absent}
    /\ Idle \in Syncs
    /\ Idle.pc = "idle"
    /\ NoCache \notin Caches
PROOF
<1>1. \A k \in Workspaces \cup {Nobody, Garbled}, id \in ChangeSets \cup {NoId} :
        Folder(k, id) \in Folders \ {Absent}
  BY RegistryAssumption DEF Folders
<1>2. \A c \in ChangeSets : StrangersFolders(c) \subseteq Folders \ {Absent}
  BY <1>1 DEF StrangersFolders
<1>3. Absent \in Folders /\ NoFolders \in Branches
  BY DEF NoFolders, Branches, Folders
<1>4. Idle \in Syncs /\ Idle.pc = "idle"
  BY DEF Idle, Syncs
<1>5. NoCache \notin Caches
  BY RegistryAssumption DEF Caches
<1> QED
  BY <1>1, <1>2, <1>3, <1>4, <1>5

\* The initial state has its types.
LEMMA InitTypeInv == Init => TypeInv
PROOF
<1> SUFFICES ASSUME Init PROVE TypeInv
  OBVIOUS
<1>1. remote \in Branches \cup {NoBranch}
  BY Values DEF Init
<1>2. folder \in [Workspaces -> Branches]
  BY Values DEF Init, Branches
<1>3. sync \in [Workspaces -> Syncs] /\ \A w \in Workspaces : sync[w].pc = "idle"
  BY Values DEF Init
<1> QED
  BY <1>1, <1>2, <1>3 DEF Init, TypeInv, SyncReady

\* A step of one workspace keeps the types if it does so there.
LEMMA StepTypeInv ==
    ASSUME TypeInv, NEW w \in Workspaces,
           remote' \in Branches \cup {NoBranch},
           folder' \in [Workspaces -> Branches],
           cache' \in [Workspaces -> Caches \cup {NoCache}],
           sync' \in [Workspaces -> Syncs],
           \A v \in Workspaces \ {w} : cache'[v] = cache[v] /\ sync'[v] = sync[v],
           SyncReady(w)'
    PROVE  TypeInv'
BY DEF TypeInv, SyncReady

\* The step of a sync to another program counter.
LEMMA GotoTypes ==
    ASSUME TypeInv, NEW w \in Workspaces,
           NEW pc \in {"share", "commit", "note", "head", "pull", "propose"}, Goto(w, pc)
    PROVE  /\ sync' \in [Workspaces -> Syncs]
           /\ \A v \in Workspaces \ {w} : sync'[v] = sync[v]
           /\ sync'[w].pc = pc
           /\ sync'[w].cs = sync[w].cs
PROOF
<1>1. sync[w] \in Syncs
  BY DEF TypeInv
<1>2. [sync[w] EXCEPT !.pc = pc] \in Syncs
  BY <1>1 DEF Syncs
<1>3. sync' = [sync EXCEPT ![w] = [sync[w] EXCEPT !.pc = pc]]
  BY DEF Goto
<1>4. sync'[w] = [sync[w] EXCEPT !.pc = pc]
  BY <1>3 DEF TypeInv
<1>5. [sync[w] EXCEPT !.pc = pc].pc = pc /\ [sync[w] EXCEPT !.pc = pc].cs = sync[w].cs
  BY <1>1 DEF Syncs
<1> QED
  BY <1>2, <1>3, <1>4, <1>5 DEF TypeInv

\* The end of a sync.
LEMMA IdleTypes ==
    ASSUME TypeInv, NEW w \in Workspaces, sync' = [sync EXCEPT ![w] = Idle]
    PROVE  /\ sync' \in [Workspaces -> Syncs]
           /\ \A v \in Workspaces \ {w} : sync'[v] = sync[v]
           /\ sync'[w].pc = "idle"
BY Values DEF TypeInv

\* What the steps of a running sync leave of the types.
LEMMA ContinueTypeInv ==
    ASSUME TypeInv, NEW w \in Workspaces, Continue(w)
    PROVE  TypeInv'
PROOF
<1>t. /\ remote \in Branches \cup {NoBranch}
      /\ folder \in [Workspaces -> Branches]
      /\ cache \in [Workspaces -> Caches \cup {NoCache}]
      /\ sync \in [Workspaces -> Syncs]
      /\ SyncReady(w)
  BY DEF TypeInv
<1>r. ASSUME sync[w].pc # "idle" PROVE cache[w] \in Caches
  BY <1>t, <1>r DEF SyncReady
<1>1. CASE CopyShare(w)
  <2>1. PICK c \in ChangeSets :
          /\ folder' = [folder EXCEPT ![w][c] = IF w \in signs THEN Folder(w, c) ELSE @]
          /\ cache' = [cache EXCEPT ![w].stray = @ \cup {c}]
          /\ sync' = [sync EXCEPT ![w].pc = "commit", ![w].cs = c]
    BY <1>1 DEF CopyShare, Unshared
  <2>2. cache[w] \in Caches
    BY <1>1, <1>r DEF CopyShare, At
  <2>3. folder' \in [Workspaces -> Branches]
    BY <1>t, <2>1, Values DEF Branches
  <2>4. [cache[w] EXCEPT !.stray = @ \cup {c}] \in Caches
    BY <2>2 DEF Caches
  <2>5. sync[w] \in Syncs /\ [sync[w] EXCEPT !.pc = "commit", !.cs = c] \in Syncs
    BY <1>t DEF Syncs
  <2>6. sync'[w].pc = "commit" /\ sync'[w].cs = c
    BY <1>t, <2>1, <2>5 DEF Syncs
  <2>7. /\ cache' \in [Workspaces -> Caches \cup {NoCache}]
        /\ cache'[w] \in Caches
        /\ \A v \in Workspaces \ {w} : cache'[v] = cache[v]
    BY <1>t, <2>1, <2>4
  <2>8. /\ sync' \in [Workspaces -> Syncs]
        /\ \A v \in Workspaces \ {w} : sync'[v] = sync[v]
    BY <1>t, <2>1, <2>5
  <2>9. remote' = remote
    BY <1>1 DEF CopyShare
  <2> QED
    BY <1>t, <2>3, <2>6, <2>7, <2>8, <2>9, Values, StepTypeInv DEF SyncReady
<1>2. CASE ShareRefused(w)
  BY <1>2, <1>t, IdleTypes, StepTypeInv DEF ShareRefused, local, SyncReady
<1>3. CASE CommitShare(w)
  <2>1. cache[w] \in Caches /\ sync[w].cs \in ChangeSets
    BY <1>3, <1>r, <1>t DEF CommitShare, At, SyncReady
  <2> DEFINE c == sync[w].cs
             head == [cache[w].head EXCEPT ![c] = folder[w][c]]
             new == [cache[w] EXCEPT !.head = head, !.stray = @ \ {c}]
  <2>2. head \in Branches
    BY <1>t, <2>1 DEF Caches, Branches
  <2>3. new \in Caches
    BY <2>1, <2>2 DEF Caches
  <2>4. cache' = [cache EXCEPT ![w] = new]
    BY <1>3 DEF CommitShare
  <2>5. Goto(w, "note") /\ remote' = remote /\ folder' = folder
    BY <1>3 DEF CommitShare, local
  <2>6. /\ cache' \in [Workspaces -> Caches \cup {NoCache}]
        /\ cache'[w] \in Caches
        /\ \A v \in Workspaces \ {w} : cache'[v] = cache[v]
    BY <1>t, <2>3, <2>4
  <2> QED
    BY <1>t, <2>1, <2>5, <2>6, Values, GotoTypes, StepTypeInv DEF SyncReady
<1>4. CASE NoteShare(w)
  <2>1. sync[w] \in Syncs /\ [sync[w] EXCEPT !.pc = "share", !.pushed = TRUE] \in Syncs
    BY <1>t DEF Syncs
  <2>2. sync' = [sync EXCEPT ![w] = [sync[w] EXCEPT !.pc = "share", !.pushed = TRUE]]
    BY <1>4 DEF NoteShare
  <2>3. sync'[w].pc = "share"
    BY <1>t, <2>1, <2>2 DEF Syncs
  <2> QED
    BY <1>4, <1>t, <2>1, <2>2, <2>3, <1>r, StepTypeInv DEF NoteShare, SyncReady, At
<1>5. CASE Push(w)
  <2>1. cache[w] \in Caches
    BY <1>5, <1>r DEF Push, ReadyToPush, At
  <2>2. [cache[w] EXCEPT !.base = cache[w].head] \in Caches /\ cache[w].head \in Branches
    BY <2>1 DEF Caches
  <2>3. cache' = [cache EXCEPT ![w].base = cache[w].head]
    BY <1>5 DEF Push
  <2>4. Goto(w, "head")
    BY <1>5 DEF Push
  <2> QED
    BY <1>5, <1>t, <2>1, <2>2, <2>3, <2>4, Values, GotoTypes, StepTypeInv
    DEF Push, local, SyncReady
<1>6. CASE PushFails(w)
  BY <1>6, <1>t, IdleTypes, StepTypeInv DEF PushFails, local, SyncReady
<1>7. CASE SaveHead(w)
  <2>1. Goto(w, "pull") /\ cache[w] \in Caches
    BY <1>7, <1>r DEF SaveHead, At
  <2> QED
    BY <1>7, <1>t, <2>1, Values, GotoTypes, StepTypeInv DEF SaveHead, SyncReady
<1>8. CASE NothingToPush(w)
  <2>1. Goto(w, "pull") /\ cache[w] \in Caches
    BY <1>8, <1>r DEF NothingToPush, At
  <2> QED
    BY <1>8, <1>t, <2>1, Values, GotoTypes, StepTypeInv DEF NothingToPush, local, SyncReady
<1>9. CASE PullRefuse(w)
  <2>1. PICK c \in ChangeSets : sync' = [sync EXCEPT ![w].refused = @ \cup {c}]
    BY <1>9 DEF PullRefuse, Incoming
  <2>2. sync[w] \in Syncs /\ [sync[w] EXCEPT !.refused = @ \cup {c}] \in Syncs
    BY <1>t DEF Syncs
  <2>3. sync'[w].pc = "pull"
    BY <1>9, <1>t, <2>1, <2>2 DEF PullRefuse, At, Syncs
  <2>4. cache[w] \in Caches
    BY <1>9, <1>r DEF PullRefuse, At
  <2> QED
    BY <1>9, <1>t, <2>1, <2>2, <2>3, <2>4, Values, StepTypeInv DEF PullRefuse, SyncReady
<1>10. CASE PullCopy(w)
  <2>1. PICK c \in ChangeSets :
          /\ folder' = [folder EXCEPT ![w][c] = cache[w].head[c]]
          /\ sync' = [sync EXCEPT ![w].pc = "propose", ![w].cs = c]
    BY <1>10 DEF PullCopy, Incoming
  <2>2. cache[w] \in Caches
    BY <1>10, <1>r DEF PullCopy, At
  <2>3. folder' \in [Workspaces -> Branches]
    BY <1>t, <2>1, <2>2 DEF Caches, Branches
  <2>4. sync[w] \in Syncs /\ [sync[w] EXCEPT !.pc = "propose", !.cs = c] \in Syncs
    BY <1>t DEF Syncs
  <2>5. sync'[w].pc = "propose" /\ sync'[w].cs = c
    BY <1>t, <2>1, <2>4 DEF Syncs
  <2>6. /\ sync' \in [Workspaces -> Syncs]
        /\ \A v \in Workspaces \ {w} : sync'[v] = sync[v]
    BY <1>t, <2>1, <2>4
  <2>7. remote' = remote /\ cache' = cache
    BY <1>10 DEF PullCopy
  <2> QED
    BY <1>t, <2>2, <2>3, <2>5, <2>6, <2>7, Values, StepTypeInv DEF SyncReady
<1>11. CASE ProposePulled(w)
  <2>1. Goto(w, "pull") /\ cache[w] \in Caches
    BY <1>11, <1>r DEF ProposePulled, At
  <2> QED
    BY <1>11, <1>t, <2>1, Values, GotoTypes, StepTypeInv DEF ProposePulled, SyncReady
<1>12. CASE EndSync(w) \/ PullAborts(w) \/ ProposeFails(w)
  BY <1>12, <1>t, IdleTypes, StepTypeInv DEF EndSync, PullAborts, ProposeFails, local, SyncReady
<1> QED
  BY <1>1, <1>2, <1>3, <1>4, <1>5, <1>6, <1>7, <1>8, <1>9, <1>10, <1>11, <1>12 DEF Continue

\* Every step keeps the types.
LEMMA NextTypeInv == TypeInv /\ [Next]_vars => TypeInv'
PROOF
<1> SUFFICES ASSUME TypeInv, [Next]_vars PROVE TypeInv'
  OBVIOUS
<1>t. /\ remote \in Branches \cup {NoBranch}
      /\ folder \in [Workspaces -> Branches]
      /\ cache \in [Workspaces -> Caches \cup {NoCache}]
      /\ sync \in [Workspaces -> Syncs]
      /\ \A w \in Workspaces : SyncReady(w)
  BY DEF TypeInv
<1>1. ASSUME NEW w \in Workspaces, NEW c \in ChangeSets, Promote(w, c) PROVE TypeInv'
  BY <1>1 DEF Promote, TypeInv, SyncReady
<1>2. ASSUME NEW w \in Workspaces, ConfigureKey(w) PROVE TypeInv'
  BY <1>2 DEF ConfigureKey, local, TypeInv, SyncReady
<1>3. ASSUME NEW w \in Workspaces, StartSync(w) PROVE TypeInv'
  <2>1. Goto(w, "share")
    BY <1>3 DEF StartSync
  <2>2. Cloned \in Caches
    BY <1>t, Values DEF Cloned, Caches
  <2>3. ASSUME cache[w] # NoCache, remote # NoBranch PROVE Updated(w) \in Caches
    <3>1. cache[w] \in Caches
      BY <1>t, <2>3
    <3> QED
      BY <1>t, <2>3, <3>1 DEF Updated, Caches
  <2>4. PICK k \in Caches : cache' = [cache EXCEPT ![w] = k]
    BY <1>3, <2>2, <2>3 DEF StartSync
  <2> QED
    BY <1>3, <1>t, <2>1, <2>4, Values, GotoTypes, StepTypeInv DEF StartSync, local, SyncReady
<1>4. ASSUME NEW w \in Workspaces, StartSyncStale(w) PROVE TypeInv'
  <2>1. Goto(w, "share")
    BY <1>4 DEF StartSyncStale
  <2> QED
    BY <1>4, <1>t, <2>1, GotoTypes, StepTypeInv DEF StartSyncStale, local, SyncReady
<1>5. ASSUME NEW w \in Workspaces, Kill(w) PROVE TypeInv'
  BY <1>5, <1>t, IdleTypes, StepTypeInv DEF Kill, local, SyncReady
<1>6. CASE Meddle
  <2>1. remote' \in Branches \cup {NoBranch}
    BY <1>6, <1>t, Values DEF Meddle, Branches
  <2> QED
    BY <1>6, <2>1 DEF Meddle, local, TypeInv, SyncReady
<1>7. CASE UNCHANGED vars
  BY <1>7 DEF vars, TypeInv, SyncReady
<1> QED
  BY <1>1, <1>2, <1>3, <1>4, <1>5, <1>6, <1>7, ContinueTypeInv DEF Next

\* The types hold in every reachable state.
THEOREM TypesHold == Spec => []TypeInv
PROOF
<1>1. Init => TypeInv
  BY InitTypeInv
<1>2. TypeInv /\ [Next]_vars => TypeInv'
  BY NextTypeInv
<1> QED
  BY <1>1, <1>2, PTL DEF Spec
-----------------------------------------------------------------------------
\* What is pulled.

\* Only a share and a pull change a folder of a workspace.
LEMMA FolderSteps ==
    ASSUME TypeInv, [Next]_vars,
           NEW v \in Workspaces, NEW d \in ChangeSets, folder'[v][d] # folder[v][d]
    PROVE  \/ folder'[v][d] = Folder(v, d)
           \/ Acceptable(v, folder'[v][d])
PROOF
<1>1. ASSUME NEW w \in Workspaces, CopyShare(w) PROVE folder'[v][d] = Folder(v, d)
  BY <1>1 DEF CopyShare, Unshared, TypeInv, Branches
<1>2. ASSUME NEW w \in Workspaces, PullCopy(w) PROVE Acceptable(v, folder'[v][d])
  <2>1. PICK c \in ChangeSets :
          /\ Acceptable(w, cache[w].head[c])
          /\ folder' = [folder EXCEPT ![w][c] = cache[w].head[c]]
    BY <1>2 DEF PullCopy, Incoming
  <2>2. w = v /\ c = d /\ folder'[v][d] = cache[w].head[c]
    BY <2>1 DEF TypeInv, Branches
  <2> QED
    BY <2>1, <2>2
<1>3. ASSUME NEW w \in Workspaces, Continue(w), ~CopyShare(w), ~PullCopy(w)
      PROVE  folder' = folder
  BY <1>3 DEF Continue, ShareRefused, CommitShare, NoteShare, Push, PushFails, SaveHead,
              NothingToPush, PullRefuse, ProposePulled, PullAborts, ProposeFails, EndSync, local
<1>4. ASSUME NEW w \in Workspaces,
             (\E c \in ChangeSets : Promote(w, c)) \/ ConfigureKey(w) \/ StartSync(w)
                \/ StartSyncStale(w) \/ Kill(w)
      PROVE  folder' = folder
  BY <1>4 DEF Promote, ConfigureKey, StartSync, StartSyncStale, Kill, local
<1>5. ASSUME Meddle \/ UNCHANGED vars PROVE folder' = folder
  BY <1>5 DEF Meddle, vars, local
<1> QED
  BY <1>1, <1>2, <1>3, <1>4, <1>5 DEF Next

\* I6 for any number of workspaces, keys, strangers and kills.
THEOREM OnlyTrustedIsPulled == Spec => []PulledIsTrusted
PROOF
<1>1. Init => PulledIsTrusted
  BY RegistryAssumption DEF Init, PulledIsTrusted
<1>2. TypeInv /\ PulledIsTrusted /\ [Next]_vars => PulledIsTrusted'
  <2> SUFFICES ASSUME TypeInv, PulledIsTrusted, [Next]_vars, NEW w \in Requires,
                      NEW c \in ChangeSets, Maker[c] # w, folder'[w][c] # Absent
               PROVE  folder'[w][c].by \in Trusts[w] \cup {w}
    BY DEF PulledIsTrusted
  <2>1. w \in Workspaces
    BY RegistryAssumption
  <2>2. CASE folder'[w][c] = folder[w][c]
    BY <2>2 DEF PulledIsTrusted
  <2>3. CASE folder'[w][c] = Folder(w, c)
    BY <2>3 DEF Folder
  <2>4. CASE Acceptable(w, folder'[w][c])
    BY <2>4 DEF Acceptable
  <2> QED
    BY <2>1, <2>2, <2>3, <2>4, FolderSteps
<1> QED
  BY <1>1, <1>2, TypesHold, PTL DEF Spec
-----------------------------------------------------------------------------
\* What is pushed.

\* CacheInv for one workspace.
CacheInvOf(w) ==
    cache[w] # NoCache /\ cache[w].base # NoBranch =>
        /\ \A c \in ChangeSets : cache[w].base[c] # Absent => cache[w].head[c] = cache[w].base[c]
        /\ sync[w].pc = "commit" => cache[w].base[sync[w].cs] = Absent

\* A clone that stays as it is, in a sync that is not about to commit.
LEMMA CacheStays ==
    ASSUME CacheInv, NEW w \in Workspaces, cache'[w] = cache[w],
           sync'[w].pc # "commit" \/ sync'[w] = sync[w]
    PROVE  CacheInvOf(w)'
BY DEF CacheInv, CacheInvOf

\* Whoever takes no step keeps his clone.
LEMMA OthersStay ==
    ASSUME TypeInv, CacheInv, NEW w \in Workspaces, NEW v \in Workspaces, v # w,
           StartSync(w) \/ Continue(w)
    PROVE  CacheInvOf(v)'
PROOF
<1>1. cache'[v] = cache[v]
  BY DEF TypeInv, StartSync, Continue, CopyShare, ShareRefused, CommitShare, NoteShare, Push,
         PushFails, SaveHead, NothingToPush, PullRefuse, PullCopy, ProposePulled,
         PullAborts, ProposeFails, EndSync
<1>2. sync'[v] = sync[v]
  BY DEF TypeInv, StartSync, Continue, CopyShare, ShareRefused, CommitShare, NoteShare, Push,
         PushFails, SaveHead, NothingToPush, PullRefuse, PullCopy, ProposePulled,
         PullAborts, ProposeFails, EndSync, Goto
<1> QED
  BY <1>1, <1>2, CacheStays

\* The steps of a sync keep what was fetched in the branch of the clone.
LEMMA ContinueCacheInv ==
    ASSUME TypeInv, CacheInv, NEW w \in Workspaces, Continue(w)
    PROVE  CacheInvOf(w)'
PROOF
<1>t. /\ cache \in [Workspaces -> Caches \cup {NoCache}]
      /\ sync \in [Workspaces -> Syncs]
      /\ SyncReady(w)
      /\ CacheInvOf(w)
  BY DEF TypeInv, CacheInv, CacheInvOf
<1>r. ASSUME sync[w].pc # "idle" PROVE cache[w] \in Caches /\ cache[w] # NoCache
  BY <1>t, <1>r DEF SyncReady
<1>1. CASE CopyShare(w)
  <2>1. PICK c \in ChangeSets :
          /\ ~InWorkTree(w, c)
          /\ cache' = [cache EXCEPT ![w].stray = @ \cup {c}]
          /\ sync' = [sync EXCEPT ![w].pc = "commit", ![w].cs = c]
    BY <1>1 DEF CopyShare, Unshared
  <2>2. cache[w] \in Caches /\ cache[w] # NoCache
    BY <1>1, <1>r DEF CopyShare, At
  <2>3. cache'[w].base = cache[w].base /\ cache'[w].head = cache[w].head
    BY <1>t, <2>1, <2>2 DEF Caches
  <2>4. sync[w] \in Syncs /\ sync'[w] = [sync[w] EXCEPT !.pc = "commit", !.cs = c]
    BY <1>t, <2>1
  <2>5. sync'[w].cs = c
    BY <2>4 DEF Syncs
  <2>6. cache[w].head[c] = Absent
    BY <2>1 DEF InWorkTree
  <2> QED
    BY <1>t, <2>2, <2>3, <2>5, <2>6 DEF CacheInvOf
<1>2. CASE CommitShare(w)
  <2>1. cache[w] \in Caches /\ cache[w] # NoCache /\ sync[w].cs \in ChangeSets
    BY <1>2, <1>r, <1>t DEF CommitShare, At, SyncReady
  <2> DEFINE c == sync[w].cs
             head == [cache[w].head EXCEPT ![c] = folder[w][c]]
             new == [cache[w] EXCEPT !.head = head, !.stray = @ \ {c}]
  <2>2. cache' = [cache EXCEPT ![w] = new]
    BY <1>2 DEF CommitShare
  <2>3. cache'[w] = new
    BY <1>t, <2>2
  <2>4. cache'[w].base = cache[w].base /\ cache'[w].head = head
    BY <2>1, <2>3 DEF Caches
  <2>5. \A d \in ChangeSets : d # c => head[d] = cache[w].head[d]
    BY <2>1 DEF Caches, Branches
  <2>6. cache[w].base # NoBranch => cache[w].base[c] = Absent
    BY <1>2, <1>t, <2>1 DEF CacheInvOf, CommitShare, At
  <2>7. sync'[w].pc = "note"
    BY <1>2, GotoTypes DEF CommitShare
  <2> QED
    BY <1>t, <2>1, <2>4, <2>5, <2>6, <2>7 DEF CacheInvOf
<1>3. CASE Push(w)
  <2>1. cache[w] \in Caches
    BY <1>3, <1>r DEF Push, ReadyToPush, At
  <2>2. cache'[w] = [cache[w] EXCEPT !.base = cache[w].head]
    BY <1>3, <1>t DEF Push
  <2>3. cache'[w].base = cache'[w].head
    BY <2>1, <2>2 DEF Caches
  <2>4. sync'[w].pc = "head"
    BY <1>3, GotoTypes DEF Push
  <2> QED
    BY <2>3, <2>4 DEF CacheInvOf
<1>4. CASE NoteShare(w)
  <2>1. sync[w] \in Syncs /\ sync'[w] = [sync[w] EXCEPT !.pc = "share", !.pushed = TRUE]
    BY <1>4, <1>t DEF NoteShare
  <2>2. sync'[w].pc = "share"
    BY <2>1 DEF Syncs
  <2> QED
    BY <1>4, <2>2, CacheStays DEF NoteShare
<1>5. CASE PullRefuse(w)
  <2>1. PICK c \in ChangeSets : sync' = [sync EXCEPT ![w].refused = @ \cup {c}]
    BY <1>5 DEF PullRefuse, Incoming
  <2>2. sync[w] \in Syncs /\ sync'[w] = [sync[w] EXCEPT !.refused = @ \cup {c}]
    BY <1>t, <2>1
  <2>3. sync'[w].pc = "pull"
    BY <1>5, <2>2 DEF Syncs, PullRefuse, At
  <2> QED
    BY <1>5, <2>3, CacheStays DEF PullRefuse
<1>6. CASE PullCopy(w)
  <2>1. PICK c \in ChangeSets : sync' = [sync EXCEPT ![w].pc = "propose", ![w].cs = c]
    BY <1>6 DEF PullCopy, Incoming
  <2>2. sync[w] \in Syncs /\ sync'[w] = [sync[w] EXCEPT !.pc = "propose", !.cs = c]
    BY <1>t, <2>1
  <2>3. sync'[w].pc = "propose"
    BY <2>2 DEF Syncs
  <2> QED
    BY <1>6, <2>3, CacheStays DEF PullCopy
<1>7. CASE SaveHead(w) \/ NothingToPush(w) \/ ProposePulled(w)
  <2>1. cache' = cache /\ Goto(w, "pull")
    BY <1>7 DEF SaveHead, NothingToPush, ProposePulled
  <2> QED
    BY <2>1, GotoTypes, CacheStays
<1>8. CASE \/ ShareRefused(w) \/ PushFails(w) \/ EndSync(w)
           \/ PullAborts(w) \/ ProposeFails(w)
  <2>1. cache' = cache /\ sync' = [sync EXCEPT ![w] = Idle]
    BY <1>8 DEF ShareRefused, PushFails, EndSync, PullAborts, ProposeFails
  <2> QED
    BY <2>1, IdleTypes, CacheStays
<1> QED
  BY <1>1, <1>2, <1>3, <1>4, <1>5, <1>6, <1>7, <1>8 DEF Continue

\* Every step keeps CacheInv.
LEMMA NextCacheInv == TypeInv /\ CacheInv /\ [Next]_vars => CacheInv'
PROOF
<1> SUFFICES ASSUME TypeInv, CacheInv, [Next]_vars, NEW v \in Workspaces PROVE CacheInvOf(v)'
  BY DEF CacheInv, CacheInvOf
<1>1. ASSUME NEW w \in Workspaces, Continue(w) PROVE CacheInvOf(v)'
  BY <1>1, ContinueCacheInv, OthersStay
<1>2. ASSUME NEW w \in Workspaces, StartSync(w) PROVE CacheInvOf(v)'
  <2>1. CASE v = w
    <3>1. cache'[w] = Cloned \/ (remote # NoBranch /\ cache'[w] = Updated(w))
      BY <1>2 DEF StartSync, TypeInv
    <3>2. cache'[w].base = remote /\ (remote # NoBranch => cache'[w].head = remote)
      BY <3>1 DEF Cloned, Updated
    <3>3. sync'[w].pc = "share"
      BY <1>2, GotoTypes DEF StartSync
    <3> QED
      BY <2>1, <3>2, <3>3 DEF CacheInvOf
  <2> QED
    BY <1>2, <2>1, OthersStay
<1>3. ASSUME NEW w \in Workspaces, StartSyncStale(w) PROVE CacheInvOf(v)'
  <2>1. cache' = cache /\ sync'[w].pc = "share" /\ (v # w => sync'[v] = sync[v])
    BY <1>3, GotoTypes DEF StartSyncStale
  <2> QED
    BY <2>1, CacheStays
<1>4. ASSUME NEW w \in Workspaces, Kill(w) PROVE CacheInvOf(v)'
  <2>1. cache' = cache /\ sync'[w].pc = "idle" /\ (v # w => sync'[v] = sync[v])
    BY <1>4, IdleTypes DEF Kill
  <2> QED
    BY <2>1, CacheStays
<1>5. CASE \/ \E w \in Workspaces : (\E c \in ChangeSets : Promote(w, c)) \/ ConfigureKey(w)
           \/ Meddle
           \/ UNCHANGED vars
  BY <1>5, CacheStays DEF Promote, ConfigureKey, Meddle, vars
<1> QED
  BY <1>1, <1>2, <1>3, <1>4, <1>5 DEF Next

\* What a workspace has fetched is in the branch it pushes.
THEOREM FetchedIsKept == Spec => []CacheInv
PROOF
<1>1. Init => CacheInv
  BY DEF Init, CacheInv
<1>2. TypeInv /\ CacheInv /\ [Next]_vars => CacheInv'
  BY NextCacheInv
<1> QED
  BY <1>1, <1>2, TypesHold, PTL DEF Spec

\* No push removes or replaces what another has pushed, for any number of workspaces
\* that push at the same time; a stranger may replace a folder, and removes none.
THEOREM NoPushUndoes == Spec => NoShareIsLost
PROOF
<1>1. TypeInv /\ CacheInv /\ [Next]_vars =>
        [remote # NoBranch =>
            \A c \in ChangeSets : remote[c] # Absent =>
                remote'[c] = remote[c] \/ (Meddle /\ remote'[c] # Absent)]_vars
  <2> SUFFICES ASSUME TypeInv, CacheInv, Next, remote # NoBranch, NEW c \in ChangeSets,
                      remote[c] # Absent
               PROVE  remote'[c] = remote[c] \/ (Meddle /\ remote'[c] # Absent)
    BY DEF vars
  <2>1. ASSUME NEW w \in Workspaces, Push(w) PROVE remote'[c] = remote[c]
    <3>1. cache[w] # NoCache
      BY <2>1 DEF Push, ReadyToPush, At, TypeInv, SyncReady
    <3>2. cache[w].base = remote /\ remote' = cache[w].head
      BY <2>1 DEF Push
    <3> QED
      BY <3>1, <3>2 DEF CacheInv
  <2>2. CASE Meddle
    <3>1. PICK d \in ChangeSets : \E strange \in StrangersFolders(d) :
            remote' = [remote EXCEPT ![d] = strange]
      BY <2>2 DEF Meddle
    <3>2. PICK strange \in StrangersFolders(d) : remote' = [remote EXCEPT ![d] = strange]
      BY <3>1
    <3>3. Absent # strange
      BY Values
    <3> QED
      BY <2>2, <3>2, <3>3 DEF TypeInv, Branches
  <2>3. ASSUME NEW w \in Workspaces, Continue(w), ~Push(w) PROVE remote' = remote
    BY <2>3 DEF Continue, CopyShare, ShareRefused, CommitShare, NoteShare, PushFails, SaveHead,
                NothingToPush, PullRefuse, PullCopy, ProposePulled,
         PullAborts, ProposeFails, EndSync
  <2>4. ASSUME NEW w \in Workspaces,
               (\E d \in ChangeSets : Promote(w, d)) \/ ConfigureKey(w) \/ StartSync(w)
                  \/ StartSyncStale(w) \/ Kill(w)
        PROVE  remote' = remote
    BY <2>4 DEF Promote, ConfigureKey, StartSync, StartSyncStale, Kill
  <2> QED
    BY <2>1, <2>2, <2>3, <2>4 DEF Next
<1> QED
  BY <1>1, TypesHold, FetchedIsKept, PTL DEF Spec, NoShareIsLost
-----------------------------------------------------------------------------
\* What is proposed.

Statuses == {"UNKNOWN", "VALIDATED", "PROMOTED", "REJECTED"}

Proposed(w, c) == <<"proposed", c>> \in noted[w]

Proposing(w, c) == sync[w].pc = "propose" /\ sync[w].cs = c

\* Nothing but a running sync will propose what is pending; what no sync will is stranded.
Pending(w, c) == folder[w][c] # Absent /\ ~Impostor(w, c) /\ ~Proposed(w, c)

Stranded == {pair \in Workspaces \X ChangeSets :
                Pending(pair[1], pair[2]) /\ ~Proposing(pair[1], pair[2])}

\* A change that state.json knows was proposed.
JournalsInv ==
    /\ status \in [Workspaces -> [ChangeSets -> Statuses]]
    /\ DOMAIN noted = Workspaces
    /\ \A w \in Workspaces, c \in ChangeSets : status[w][c] # "UNKNOWN" => Proposed(w, c)

StrandedInv ==
    /\ kills \in Nat
    /\ IsFiniteSet(Stranded)
    /\ Cardinality(Stranded) <= kills

\* What the steps do to one journal and one status.
LEMMA NoteGrows ==
    ASSUME JournalsInv, NEW w \in Workspaces, NEW event, NEW d, Note(w, event, d)
    PROVE  /\ DOMAIN noted' = Workspaces
           /\ \A v \in Workspaces : noted[v] \subseteq noted'[v]
           /\ <<event, d>> \in noted'[w]
BY DEF JournalsInv, Note

LEMMA NextJournals ==
    ASSUME JournalsInv, TypeInv, [Next]_vars
    PROVE  JournalsInv' /\ \A v \in Workspaces : noted[v] \subseteq noted'[v]
PROOF
<1>1. ASSUME NEW w \in Workspaces, NEW c \in ChangeSets, Promote(w, c)
      PROVE  JournalsInv' /\ \A v \in Workspaces : noted[v] \subseteq noted'[v]
  <2>1. /\ DOMAIN noted' = Workspaces
        /\ \A v \in Workspaces : noted[v] \subseteq noted'[v]
    BY <1>1, NoteGrows DEF Promote
  <2>2. Proposed(w, c)
    BY <1>1 DEF Promote, JournalsInv
  <2> QED
    BY <1>1, <2>1, <2>2 DEF Promote, JournalsInv, Proposed, Statuses
<1>2. ASSUME NEW w \in Workspaces, NoteShare(w) \/ PullRefuse(w)
      PROVE  JournalsInv' /\ \A v \in Workspaces : noted[v] \subseteq noted'[v]
  <2>1. /\ DOMAIN noted' = Workspaces
        /\ \A v \in Workspaces : noted[v] \subseteq noted'[v]
    BY <1>2, NoteGrows DEF NoteShare, PullRefuse
  <2>2. status' = status
    BY <1>2 DEF NoteShare, PullRefuse
  <2> QED
    BY <2>1, <2>2 DEF JournalsInv, Proposed
<1>3. ASSUME NEW w \in Workspaces, ProposePulled(w)
      PROVE  JournalsInv' /\ \A v \in Workspaces : noted[v] \subseteq noted'[v]
  <2> DEFINE c == folder[w][sync[w].cs].id
  <2>1. /\ DOMAIN noted' = Workspaces
        /\ \A v \in Workspaces : noted[v] \subseteq noted'[v]
        /\ <<"proposed", c>> \in noted'[w]
    BY <1>3, NoteGrows DEF ProposePulled
  <2>2. PICK st \in {"VALIDATED", "REJECTED"} : status' = [status EXCEPT ![w][c] = st]
    BY <1>3 DEF ProposePulled
  <2> HIDE DEF c
  <2> QED
    BY <2>1, <2>2 DEF JournalsInv, Proposed, Statuses
<1>4. ASSUME UNCHANGED <<status, noted>>
      PROVE  JournalsInv' /\ \A v \in Workspaces : noted[v] \subseteq noted'[v]
  BY <1>4 DEF JournalsInv, Proposed
<1>5. ASSUME NEW w \in Workspaces, Continue(w)
      PROVE  \/ NoteShare(w) \/ PullRefuse(w) \/ ProposePulled(w)
             \/ UNCHANGED <<status, noted>>
  BY <1>5 DEF Continue, CopyShare, ShareRefused, CommitShare, Push, PushFails, SaveHead,
              NothingToPush, PullCopy, PullAborts, ProposeFails, EndSync, local
<1>6. ASSUME NEW w \in Workspaces,
             ConfigureKey(w) \/ StartSync(w) \/ StartSyncStale(w) \/ Kill(w)
      PROVE  UNCHANGED <<status, noted>>
  BY <1>6 DEF ConfigureKey, StartSync, StartSyncStale, Kill, local
<1>7. Meddle \/ UNCHANGED vars => UNCHANGED <<status, noted>>
  BY DEF Meddle, vars, local
<1> QED
  BY <1>1, <1>2, <1>3, <1>4, <1>5, <1>6, <1>7 DEF Next

\* A folder changes for a change that is known, or one that is about to be proposed.
LEMMA FolderProposed ==
    ASSUME JournalsInv, TypeInv, [Next]_vars, NEW v \in Workspaces, NEW d \in ChangeSets,
           folder'[v][d] # folder[v][d]
    PROVE  Proposed(v, d) \/ Proposing(v, d)'
PROOF
<1>1. ASSUME NEW w \in Workspaces, CopyShare(w) PROVE Proposed(v, d)
  <2>1. PICK c \in ChangeSets :
          /\ status[w][c] = "PROMOTED"
          /\ folder' = [folder EXCEPT ![w][c] = IF w \in signs THEN Folder(w, c) ELSE @]
    BY <1>1 DEF CopyShare, Unshared
  <2>2. w = v /\ c = d
    BY <2>1 DEF TypeInv, Branches
  <2> QED
    BY <2>1, <2>2 DEF JournalsInv
<1>2. ASSUME NEW w \in Workspaces, PullCopy(w) PROVE Proposing(v, d)'
  <2>1. PICK c \in ChangeSets :
          /\ folder' = [folder EXCEPT ![w][c] = cache[w].head[c]]
          /\ sync' = [sync EXCEPT ![w].pc = "propose", ![w].cs = c]
    BY <1>2 DEF PullCopy, Incoming
  <2>2. w = v /\ c = d
    BY <2>1 DEF TypeInv, Branches
  <2>3. sync[w] \in Syncs /\ sync'[w] = [sync[w] EXCEPT !.pc = "propose", !.cs = c]
    BY <2>1 DEF TypeInv
  <2> QED
    BY <2>2, <2>3 DEF Proposing, Syncs
<1>3. ASSUME NEW w \in Workspaces, Continue(w), ~CopyShare(w), ~PullCopy(w)
      PROVE  folder' = folder
  BY <1>3 DEF Continue, ShareRefused, CommitShare, NoteShare, Push, PushFails, SaveHead,
              NothingToPush, PullRefuse, ProposePulled, PullAborts, ProposeFails, EndSync, local
<1>4. ASSUME NEW w \in Workspaces,
             (\E c \in ChangeSets : Promote(w, c)) \/ ConfigureKey(w) \/ StartSync(w)
                \/ StartSyncStale(w) \/ Kill(w)
      PROVE  folder' = folder
  BY <1>4 DEF Promote, ConfigureKey, StartSync, StartSyncStale, Kill, local
<1>5. ASSUME Meddle \/ UNCHANGED vars PROVE folder' = folder
  BY <1>5 DEF Meddle, vars, local
<1> QED
  BY <1>1, <1>2, <1>3, <1>4, <1>5 DEF Next

\* A sync about to propose a folder that carries its id does so next, or is killed.
LEMMA ProposingEnds ==
    ASSUME JournalsInv, TypeInv, [Next]_vars, NEW v \in Workspaces, NEW d \in ChangeSets,
           Proposing(v, d), folder[v][d].id = d
    PROVE  Proposing(v, d)' \/ Proposed(v, d)' \/ Kill(v)
PROOF
<1>1. ASSUME sync'[v] = sync[v] PROVE Proposing(v, d)'
  BY <1>1 DEF Proposing
<1>2. ASSUME NEW w \in Workspaces, Continue(w), w # v PROVE sync'[v] = sync[v]
  BY <1>2 DEF TypeInv, Continue, CopyShare, ShareRefused, CommitShare, NoteShare, Push,
              PushFails, SaveHead, NothingToPush, PullRefuse, PullCopy, ProposePulled,
              PullAborts, ProposeFails, EndSync, Goto
<1>3. ASSUME Continue(v) PROVE Proposed(v, d)'
  <2>1. ProposePulled(v)
    BY <1>3, RegistryAssumption
       DEF Proposing, At, ReadyToPush, Continue, CopyShare, ShareRefused, CommitShare, NoteShare,
           Push, PushFails, SaveHead, NothingToPush, PullRefuse, PullCopy,
           PullAborts, ProposeFails, EndSync
  <2>2. Note(v, "proposed", d)
    BY <2>1 DEF ProposePulled, Proposing
  <2> QED
    BY <2>2, NoteGrows DEF Proposed
<1>4. ASSUME NEW w \in Workspaces, StartSync(w) \/ StartSyncStale(w) PROVE sync'[v] = sync[v]
  <2>1. w # v /\ Goto(w, "share")
    BY <1>4 DEF StartSync, StartSyncStale, At, Proposing
  <2> QED
    BY <2>1, GotoTypes
<1>5. ASSUME NEW w \in Workspaces, Kill(w), w # v PROVE sync'[v] = sync[v]
  BY <1>5, IdleTypes DEF Kill
<1>6. ASSUME \/ \E w \in Workspaces : (\E c \in ChangeSets : Promote(w, c)) \/ ConfigureKey(w)
             \/ Meddle \/ UNCHANGED vars
      PROVE  sync'[v] = sync[v]
  BY <1>6 DEF Promote, ConfigureKey, Meddle, vars
<1> QED
  BY <1>1, <1>2, <1>3, <1>4, <1>5, <1>6 DEF Next

\* Only a kill strands a change, and only the one its sync was about to propose.
LEMMA NewlyStranded ==
    ASSUME JournalsInv, TypeInv, [Next]_vars, NEW v \in Workspaces, NEW d \in ChangeSets,
           <<v, d>> \in Stranded', <<v, d>> \notin Stranded
    PROVE  Kill(v) /\ Proposing(v, d)
PROOF
<1>1. /\ folder'[v][d] # Absent /\ folder'[v][d].id = d
      /\ ~Proposed(v, d)' /\ ~Proposing(v, d)'
  BY DEF Stranded, Pending, Impostor
<1>2. ~Proposed(v, d)
  BY <1>1, NextJournals DEF Proposed
<1>3. folder'[v][d] = folder[v][d]
  BY <1>1, <1>2, FolderProposed
<1>4. Proposing(v, d)
  BY <1>1, <1>2, <1>3 DEF Stranded, Pending, Impostor
<1> QED
  BY <1>1, <1>3, <1>4, ProposingEnds

\* A step kills one sync, and each kill counts.
LEMMA NextStranded ==
    ASSUME JournalsInv, TypeInv, StrandedInv, [Next]_vars
    PROVE  StrandedInv'
PROOF
<1>1. CASE \A v \in Workspaces : ~Kill(v)
  <2>1. kills' = kills
    BY <1>1 DEF Next, vars, Promote, ConfigureKey, StartSync, StartSyncStale, Continue,
       CopyShare, ShareRefused, CommitShare, NoteShare, Push, PushFails, SaveHead,
       NothingToPush, PullRefuse, PullCopy, ProposePulled,
         PullAborts, ProposeFails, EndSync, Meddle
  <2>2. Stranded' \subseteq Stranded
    BY <1>1, NewlyStranded DEF Stranded
  <2>3. IsFiniteSet(Stranded') /\ Cardinality(Stranded') <= Cardinality(Stranded)
    BY <2>2, FS_Subset DEF StrandedInv
  <2>4. Cardinality(Stranded') \in Nat /\ Cardinality(Stranded) \in Nat
    BY <2>3, FS_CardinalityType DEF StrandedInv
  <2> QED
    BY <2>1, <2>3, <2>4 DEF StrandedInv
<1>2. ASSUME NEW w \in Workspaces, Kill(w)
      PROVE  StrandedInv'
  <2> DEFINE pair == <<w, sync[w].cs>>
             more == Stranded \cup {pair}
  <2>1. kills' = kills + 1
    BY <1>2 DEF Kill
  <2>2. ASSUME NEW v \in Workspaces, Kill(v) PROVE v = w
    <3>1. sync[v].pc # "idle" /\ sync'[v].pc = "idle"
      BY <2>2, IdleTypes DEF Kill, At
    <3> QED
      BY <1>2, <3>1, IdleTypes DEF Kill
  <2>3. Stranded' \subseteq more
    <3> SUFFICES ASSUME NEW v \in Workspaces, NEW d \in ChangeSets, <<v, d>> \in Stranded',
                        <<v, d>> \notin Stranded
                 PROVE  <<v, d>> = pair
      BY DEF Stranded
    <3> QED
      BY <2>2, NewlyStranded DEF Proposing
  <2> HIDE DEF pair
  <2>4. /\ IsFiniteSet(more) /\ Cardinality(Stranded) \in Nat
        /\ Cardinality(more) \in {Cardinality(Stranded), Cardinality(Stranded) + 1}
    BY FS_AddElement, FS_CardinalityType DEF StrandedInv
  <2> HIDE DEF more
  <2>5. IsFiniteSet(Stranded') /\ Cardinality(Stranded') <= Cardinality(more)
    BY <2>3, <2>4, FS_Subset
  <2>6. Cardinality(Stranded') \in Nat
    BY <2>5, FS_CardinalityType
  <2> QED
    BY <2>1, <2>4, <2>5, <2>6 DEF StrandedInv
<1> QED
  BY <1>1, <1>2

LEMMA InitStranded == Init => JournalsInv /\ StrandedInv
PROOF
<1> SUFFICES ASSUME Init PROVE JournalsInv /\ StrandedInv
  OBVIOUS
<1>1. JournalsInv
  BY DEF Init, JournalsInv, Statuses, Proposed
<1>2. Stranded = {}
  BY RegistryAssumption DEF Init, Stranded, Pending, Proposed
<1>3. kills = 0
  BY DEF Init
<1> QED
  BY <1>1, <1>2, <1>3, FS_EmptySet DEF StrandedInv

\* Section 10.2 of the specification: each kill leaves at most one folder that was pulled,
\* carries its id and is never proposed (sync of registry.py copies the folder and then
\* proposes it), for any number of workspaces, changes, strangers' folders and kills.
THEOREM KillsStrandOne == Spec => []KillStrandsOneFolder
PROOF
<1>1. JournalsInv /\ TypeInv /\ StrandedInv /\ [Next]_vars => JournalsInv' /\ StrandedInv'
  BY NextJournals, NextStranded
<1>2. StrandedInv => KillStrandsOneFolder
  <2> DEFINE left == {pair \in Workspaces \X ChangeSets : pair[2] \in Unproposed(pair[1])}
  <2> SUFFICES ASSUME StrandedInv PROVE Cardinality(left) <= kills
    BY DEF KillStrandsOneFolder
  <2>1. left \subseteq Stranded
    BY DEF Stranded, Unproposed, Pending, Proposed, Proposing, At
  <2> HIDE DEF left
  <2>2. IsFiniteSet(left) /\ Cardinality(left) <= Cardinality(Stranded)
    BY <2>1, FS_Subset DEF StrandedInv
  <2>3. Cardinality(left) \in Nat /\ Cardinality(Stranded) \in Nat
    BY <2>2, FS_CardinalityType DEF StrandedInv
  <2> QED
    BY <2>2, <2>3 DEF StrandedInv
<1> QED
  BY <1>1, <1>2, InitStranded, TypesHold, PTL DEF Spec
=============================================================================
