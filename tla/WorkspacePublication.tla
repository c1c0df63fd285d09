------------------------ MODULE WorkspacePublication ------------------------
(***************************************************************************)
(* Publication of a file-authority workspace.                              *)
(*                                                                         *)
(* Research lives in the rows of a database and in canonical files of the  *)
(* workspace.  A checkpoint worker (workspaceCheckpointWorker.ts) finishes *)
(* an interrupted publication, rebuilds the rows if they were released,    *)
(* imports a direct edit of one file, and publishes the rows: verify what  *)
(* was published before, journal, write and remove files, then the index,  *)
(* the publication state, and drop the journal (workspace-project.ts).     *)
(* One worker runs at a time (workspaceCheckpoints.ts); typed operations   *)
(* and the operator's edits interleave with every step of it, and the      *)
(* process may die between any two.                                        *)
(*                                                                         *)
(* A file holds the rendering of a revision of its row, an edit, or        *)
(* nothing (0).  A content hash stands for the content itself.             *)
(***************************************************************************)
EXTENDS Naturals, FiniteSets

CONSTANTS
    Records,        \* the managed paths
    Evidence,       \* those whose content is pinned by its first publication
    Edits,          \* contents the operator writes directly, each at most once
    NoJournal,      \* there is no pending-publication.json
    MaxRevision,    \* bound: revisions of a row
    MaxCrashes      \* bound: times the process dies

ASSUME WorkspacePublicationAssumption ==
    /\ Evidence \subseteq Records
    /\ Edits \cap Nat = {}
    /\ MaxRevision \in Nat
    /\ MaxCrashes \in Nat

Revisions == 0 .. MaxRevision
Contents == Revisions \cup Edits

\* A WorkspaceResearchIndex: the hashes of the canonical files and of the pins.
Publications == [files : [Records -> Revisions], pins : [Records -> Revisions]]
Nothing == [files |-> [p \in Records |-> 0], pins |-> [p \in Records |-> 0]]

ASSUME JournalAssumption == NoJournal \notin Publications

Jobs == {"sync", "import", "release", "rebuild"}
Steps == {"idle", "recovering", "checking", "rebuilt", "examining", "importing", "revising",
          "restoring", "rendering", "verifying", "journaling", "writing", "removing", "indexing",
          "stating", "clearing", "published", "releasing", "pruning", "pruned"}

VARIABLES
    store,        \* the database: the revision of each row, 0 when there is none
    disk,         \* the canonical file of each row
    index,        \* references/research-index.json
    publication,  \* publication.json
    pending,      \* pending-publication.json
    baselines,    \* publication-content: <<path, content>>
    recovery,     \* recovery copies: <<path, content>>
    cache,        \* research-cache.json
    step,         \* what the worker does next
    job,
    goal,         \* the publication the worker builds or finishes
    todo,         \* paths the current loop has not reached
    at,           \* {} or the path in the middle of an iteration, or of an import
    resume,       \* the step that follows finishWorkspacePublication
    \* observed by the properties only
    edited,       \* edits the operator has made, deletions included
    late,         \* edits made after the check that would have refused them
    forgotten,    \* rows that a typed operation has deleted
    crashes

files == <<disk, index, publication, pending, baselines, recovery>>
worker == <<step, job, goal, todo, at, resume>>
history == <<edited, late, forgotten, crashes>>
vars == <<store, files, cache, worker, history>>

Init ==
    /\ store = [p \in Records |-> 0]
    /\ disk = [p \in Records |-> 0]
    /\ index = Nothing
    /\ publication = Nothing
    /\ pending = NoJournal
    /\ baselines = {}
    /\ recovery = {}
    /\ cache = "missing"
    /\ step = "idle"
    /\ job = "sync"
    /\ goal = Nothing
    /\ todo = {}
    /\ at = {}
    /\ resume = "checking"
    /\ edited = {}
    /\ late = {}
    /\ forgotten = {}
    /\ crashes = 0

-----------------------------------------------------------------------------
(* Typed operations and direct edits.                                      *)

NeedsRebuild == cache \in {"missing", "releasing", "released"}

\* A typed operation of the host runs once the rows are there.  Identities are
\* not used again, so a row that was deleted is not created anew.
Save(p) ==
    /\ ~NeedsRebuild
    /\ p \notin forgotten
    /\ store[p] < MaxRevision
    /\ store' = [store EXCEPT ![p] = store[p] + 1]
    /\ UNCHANGED <<files, cache, worker, history>>

Forget(p) ==
    /\ ~NeedsRebuild
    /\ store[p] # 0
    /\ p \notin forgotten
    /\ store' = [store EXCEPT ![p] = 0]
    /\ forgotten' = forgotten \cup {p}
    /\ UNCHANGED <<files, cache, worker, edited, late, crashes>>

\* The steps at which the worker has checked the files and still writes to them.
Window == {"revising", "restoring", "journaling", "writing", "removing"}

\* An edit writes new content to a managed path, or deletes the file.
Edit(p, e) ==
    /\ e \notin edited
    /\ \E content \in {e, 0} : disk' = [disk EXCEPT ![p] = content]
    /\ edited' = edited \cup {e}
    /\ late' = IF step \in Window THEN late \cup {e} ELSE late
    /\ UNCHANGED <<store, index, publication, pending, baselines, recovery, cache, worker, forgotten, crashes>>

\* The operator gives an edit up, between two checkpoints: the file is
\* published content again.
Revert(p) ==
    /\ step = "idle"
    /\ disk[p] \in Edits \cup {0}
    /\ publication.files[p] # 0
    /\ disk' = [disk EXCEPT ![p] = publication.files[p]]
    /\ UNCHANGED <<store, index, publication, pending, baselines, recovery, cache, worker, history>>

-----------------------------------------------------------------------------
(* Steps of the worker.                                                    *)

\* The worker's thread ends when its operation does.
Rest == step' = "idle" /\ job' = "sync" /\ goal' = Nothing /\ todo' = {} /\ at' = {} /\ resume' = "checking"
Goto(s) == IF s = "idle" THEN Rest ELSE step' = s /\ UNCHANGED <<job, goal, todo, at, resume>>
Fail == Goto("idle") /\ UNCHANGED <<store, files, cache, history>>

\* runWorkspaceCheckpoint: the next operation of the workspace's queue.
Start(j) ==
    /\ step = "idle"
    /\ step' = "recovering"
    /\ job' = j
    /\ UNCHANGED <<goal, todo, at, resume, store, files, cache, history>>

Written(target) == {p \in Records : target.files[p] # 0}
Removed(target) == {p \in Records : publication.files[p] # 0 /\ target.files[p] = 0 /\ target.pins[p] = 0}

\* finishWorkspacePublication starts with the loop over the files.
Finish(target, then) ==
    /\ step' = "writing"
    /\ goal' = target
    /\ todo' = Written(target)
    /\ at' = {}
    /\ resume' = then
    /\ UNCHANGED job

ChangedSinceJournal == {p \in Written(pending) \cup Written(publication) : disk[p] \notin {0, pending.files[p]}}

\* Files that are neither what the journal nor what the last publication says.
Changed == {p \in Written(pending) \cup Written(publication) :
               disk[p] \notin {0, pending.files[p], publication.files[p]}}

Recover ==
    /\ step = "recovering"
    /\ IF pending = NoJournal THEN Goto("checking")
       ELSE IF Changed # {} THEN Goto("idle")
       ELSE Finish(pending, "checking")
    /\ UNCHANGED <<store, files, cache, history>>

\* publication(options): every file of the index is there and intact.
FilesAreIntact == \A p \in Written(index) : disk[p] = index.files[p]

RebuildOnlyReleased ==
    /\ step = "checking"
    /\ job = "rebuild" \/ NeedsRebuild
    /\ IF FilesAreIntact /\ cache # "releasing"
       THEN /\ store' = [p \in Records |-> IF store[p] = 0 THEN index.files[p] ELSE store[p]]
            /\ Goto("rebuilt")
            /\ UNCHANGED <<files, cache, history>>
       ELSE Fail

\* INSERT OR IGNORE of every canonical record.
Rebuild ==
    /\ step = "checking"
    /\ job = "rebuild" \/ NeedsRebuild
    /\ IF FilesAreIntact
       THEN /\ store' = [p \in Records |-> IF store[p] = 0 THEN index.files[p] ELSE store[p]]
            /\ Goto("rebuilt")
            /\ UNCHANGED <<files, cache, history>>
       ELSE Fail

MarkRebuilt ==
    /\ step = "rebuilt"
    /\ cache' = "ready"
    /\ Goto(IF job = "rebuild" THEN "idle" ELSE "examining")
    /\ UNCHANGED <<store, files, history>>

SkipRebuild ==
    /\ step = "checking"
    /\ job # "rebuild"
    /\ ~NeedsRebuild
    /\ Goto("examining")
    /\ UNCHANGED <<store, files, cache, history>>

\* listWorkspaceResearchEdits.
Managed(p) == IF publication.files[p] # 0 THEN publication.files[p] ELSE publication.pins[p]
Deleted == {p \in Records : Managed(p) # 0 /\ disk[p] = 0}
Modified == {p \in Records : Managed(p) # 0 /\ disk[p] \notin {0, Managed(p)}}
Created == {p \in Records \ Evidence : Managed(p) = 0 /\ disk[p] # 0}

Import(p) ==
    /\ step' = "importing"
    /\ at' = {p}
    /\ UNCHANGED <<job, goal, todo, resume>>

\* An explicit import names its file; the others take the only edit there is.
Examine ==
    /\ step = "examining"
    /\ IF job = "import" THEN \E p \in Records \ Evidence : Import(p)
       ELSE IF index # publication \/ Created # {} \/ Deleted # {}
               \/ Cardinality(Modified) > 1 \/ Modified \cap Evidence # {} THEN Goto("idle")
       ELSE IF Modified = {} THEN Goto("rendering")
       ELSE \E p \in Modified : Import(p)
    /\ UNCHANGED <<store, files, cache, history>>

\* importWorkspaceResearchFile keeps a copy of the edit, applies it to the row
\* if nothing else has revised it since it was published, and puts the
\* published bytes back.
KeepImported(p) ==
    /\ step = "importing"
    /\ at = {p}
    /\ IF publication.files[p] # 0 /\ <<p, publication.files[p]>> \in baselines /\ disk[p] # 0
       THEN /\ recovery' = recovery \cup {<<p, disk[p]>>}
            /\ Goto(IF disk[p] = publication.files[p] THEN "restoring" ELSE "revising")
            /\ UNCHANGED <<store, disk, index, publication, pending, baselines, cache, history>>
       ELSE Fail

ReviseVerbatim(p) ==
    /\ step = "revising"
    /\ at = {p}
    /\ store' = [store EXCEPT ![p] = disk[p]]
    /\ Goto("restoring")
    /\ UNCHANGED <<files, cache, history>>

\* A store that does not accept the edit, or has another revision, refuses it.
ReviseImported(p) ==
    /\ step = "revising"
    /\ at = {p}
    /\ \/ /\ store[p] = publication.files[p] /\ store[p] < MaxRevision
          /\ store' = [store EXCEPT ![p] = store[p] + 1]
          /\ Goto("restoring")
          /\ UNCHANGED <<files, cache, history>>
       \/ Fail

RestoreBaseline(p) ==
    /\ step = "restoring"
    /\ at = {p}
    /\ disk' = [disk EXCEPT ![p] = publication.files[p]]
    /\ step' = "rendering"
    /\ at' = {}
    /\ UNCHANGED <<job, goal, todo, resume, store, index, publication, pending, baselines, recovery, cache, history>>

\* publishWorkspaceResearch reads the rows in one transaction.
Render ==
    /\ step = "rendering"
    /\ goal' = [files |-> store, pins |-> [p \in Records |-> IF p \in Evidence THEN store[p] ELSE 0]]
    /\ step' = "verifying"
    /\ UNCHANGED <<job, todo, at, resume, store, files, cache, history>>

\* publishWorkspaceFiles: pinned content replaces what was rendered for it.
Replaced(rendered) == {p \in Written(rendered) : publication.pins[p] \notin {0, rendered.files[p]}}
WithRenderedPins(rendered) ==
    [rendered EXCEPT !.pins = [p \in Records |-> IF rendered.pins[p] # 0 THEN rendered.pins[p] ELSE publication.pins[p]]]

WithPins(rendered) ==
    [files |-> [p \in Records |-> IF p \in Replaced(rendered) THEN publication.pins[p] ELSE rendered.files[p]],
     pins |-> [p \in Records |-> IF publication.pins[p] # 0 THEN publication.pins[p] ELSE rendered.pins[p]]]

MayPublishUnverified(target) ==
    /\ index = publication
    /\ \A p \in Written(target) : publication.files[p] = 0 => disk[p] \in {0, target.files[p]}

\* Nothing published was touched, and nothing unknown is in the way.
MayPublish(target) ==
    /\ index = publication
    /\ \A p \in Written(publication) : disk[p] = publication.files[p]
    /\ \A p \in Written(target) : publication.files[p] = 0 => disk[p] \in {0, target.files[p]}

Verify ==
    /\ step = "verifying"
    /\ IF /\ \A p \in Replaced(goal) : <<p, publication.pins[p]>> \in baselines
          /\ MayPublish(WithPins(goal))
       THEN /\ goal' = WithPins(goal)
            /\ step' = "journaling"
            /\ UNCHANGED <<job, todo, at, resume>>
       ELSE Goto("idle")
    /\ UNCHANGED <<store, files, cache, history>>

Journal ==
    /\ step = "journaling"
    /\ pending' = goal
    /\ Finish(goal, "published")
    /\ UNCHANGED <<store, disk, index, publication, baselines, recovery, cache, history>>

KeepNoBaseline(p) ==
    /\ step = "writing"
    /\ at = {}
    /\ p \in todo
    /\ at' = {p}
    /\ UNCHANGED <<store, files, cache, step, job, goal, todo, resume, history>>

\* One file: its content goes to publication-content, then to its path.
KeepBaseline(p) ==
    /\ step = "writing"
    /\ at = {}
    /\ p \in todo
    /\ baselines' = baselines \cup {<<p, goal.files[p]>>}
    /\ at' = {p}
    /\ UNCHANGED <<store, disk, index, publication, pending, recovery, cache, step, job, goal, todo, resume, history>>

WriteFile(p) ==
    /\ step = "writing"
    /\ at = {p}
    /\ disk' = [disk EXCEPT ![p] = goal.files[p]]
    /\ at' = {}
    /\ todo' = todo \ {p}
    /\ UNCHANGED <<store, index, publication, pending, baselines, recovery, cache, step, job, goal, resume, history>>

FilesSkipped ==
    /\ step = "writing"
    /\ at = {}
    /\ step' = "removing"
    /\ todo' = Removed(goal)
    /\ UNCHANGED <<job, goal, at, resume, store, files, cache, history>>

FilesWritten ==
    /\ step = "writing"
    /\ todo = {}
    /\ step' = "removing"
    /\ todo' = Removed(goal)
    /\ UNCHANGED <<job, goal, at, resume, store, files, cache, history>>

\* One file that is no longer published: a recovery copy, then rm.
Preserve(p) ==
    /\ step = "removing"
    /\ at = {}
    /\ p \in todo
    /\ recovery' = IF disk[p] = 0 THEN recovery ELSE recovery \cup {<<p, disk[p]>>}
    /\ at' = {p}
    /\ UNCHANGED <<store, disk, index, publication, pending, baselines, cache, step, job, goal, todo, resume, history>>

Remove(p) ==
    /\ step = "removing"
    /\ at = {p}
    /\ disk' = [disk EXCEPT ![p] = 0]
    /\ at' = {}
    /\ todo' = todo \ {p}
    /\ UNCHANGED <<store, index, publication, pending, baselines, recovery, cache, step, job, goal, resume, history>>

FilesRemovedAndJournal ==
    /\ step = "removing"
    /\ todo = {}
    /\ pending' = NoJournal
    /\ Goto("indexing")
    /\ UNCHANGED <<store, disk, index, publication, baselines, recovery, cache, history>>

FilesRemoved ==
    /\ step = "removing"
    /\ todo = {}
    /\ Goto("indexing")
    /\ UNCHANGED <<store, files, cache, history>>

WriteIndex ==
    /\ step = "indexing"
    /\ index' = goal
    /\ Goto("stating")
    /\ UNCHANGED <<store, disk, publication, pending, baselines, recovery, cache, history>>

WriteState ==
    /\ step = "stating"
    /\ publication' = goal
    /\ Goto("clearing")
    /\ UNCHANGED <<store, disk, index, pending, baselines, recovery, cache, history>>

DropJournal ==
    /\ step = "clearing"
    /\ pending' = NoJournal
    /\ step' = resume
    /\ goal' = Nothing
    /\ UNCHANGED <<job, todo, at, resume, store, disk, index, publication, baselines, recovery, cache, history>>

\* markWorkspaceResearchIndexReady.
MarkReady ==
    /\ step = "published"
    /\ cache' = "ready"
    /\ Goto(IF job = "release" THEN "releasing" ELSE "idle")
    /\ UNCHANGED <<store, files, history>>

ReleaseWithoutIntent ==
    /\ step = "releasing"
    /\ IF FilesAreIntact THEN Goto("pruning") /\ UNCHANGED <<store, files, cache, history>> ELSE Fail

\* releaseWorkspaceResearchIndex: the intent, the rows, the outcome.
MarkReleasing ==
    /\ step = "releasing"
    /\ IF FilesAreIntact
       THEN /\ cache' = "releasing"
            /\ Goto("pruning")
            /\ UNCHANGED <<store, files, history>>
       ELSE Fail

Prune ==
    /\ step = "pruning"
    /\ store' = [p \in Records |-> 0]
    /\ Goto("pruned")
    /\ UNCHANGED <<files, cache, history>>

MarkReleased ==
    /\ step = "pruned"
    /\ cache' = "released"
    /\ Goto("idle")
    /\ UNCHANGED <<store, files, history>>

\* The process dies: files and rows stay, the worker is gone.
Crash ==
    /\ step # "idle"
    /\ crashes < MaxCrashes
    /\ crashes' = crashes + 1
    /\ Goto("idle")
    /\ UNCHANGED <<store, files, cache, edited, late, forgotten>>

-----------------------------------------------------------------------------
Publishes ==
    \/ Render \/ Verify \/ Journal
    \/ \E p \in Records : KeepBaseline(p) \/ WriteFile(p) \/ Preserve(p) \/ Remove(p)
    \/ FilesWritten \/ FilesRemoved \/ WriteIndex \/ WriteState \/ DropJournal \/ MarkReady

Imports == Examine \/ \E p \in Records : KeepImported(p) \/ ReviseImported(p) \/ RestoreBaseline(p)

Maintains == Rebuild \/ MarkRebuilt \/ SkipRebuild \/ MarkReleasing \/ Prune \/ MarkReleased

Work == Recover \/ Maintains \/ Imports \/ Publishes

Operator == \E p \in Records : Revert(p) \/ \E e \in Edits : Edit(p, e)

Typed == \E p \in Records : Save(p) \/ Forget(p)

Next == Typed \/ Operator \/ (\E j \in Jobs : Start(j)) \/ Work \/ Crash

Spec == Init /\ [][Next]_vars

\* A worker that runs comes to its end, and the host asks for another
\* synchronization: each typed mutation does, and each operation that needs
\* released rows asks for a rebuild.
FairSpec ==
    /\ Spec
    /\ WF_vars(Work)
    /\ SF_vars(Start("sync"))

-----------------------------------------------------------------------------
(* Properties.                                                             *)

Pairs == Records \X Contents

TypeOK ==
    /\ store \in [Records -> Revisions]
    /\ disk \in [Records -> Contents]
    /\ index \in Publications
    /\ publication \in Publications
    /\ pending \in Publications \cup {NoJournal}
    /\ baselines \subseteq Pairs
    /\ recovery \subseteq Pairs
    /\ cache \in {"missing", "ready", "releasing", "released"}
    /\ step \in Steps
    /\ job \in Jobs
    /\ goal \in Publications
    /\ todo \subseteq Records
    /\ at \subseteq Records
    /\ resume \in {"checking", "published"}
    /\ edited \subseteq Edits
    /\ late \subseteq edited
    /\ forgotten \subseteq Records
    /\ crashes \in 0 .. MaxCrashes

\* Whatever step a publication stops at, a file nobody edited holds what the
\* last publication or the journal says, or is gone: recovery never takes the
\* app-server's own half-done work for an edit (workspace-project.ts 573, 579).
\* An edit made between two of its writes does not change that.
OwnWorkIsRecognized ==
    pending # NoJournal =>
        \A p \in Records : disk[p] \in {0, pending.files[p], publication.files[p],
                                        publication.pins[p]} \cup edited

\* The index and the state disagree only while a journal can repair them; an
\* index of its own blocks every later synchronization (376, 442).
GapsAreJournaled == index # publication => pending # NoJournal /\ index = pending

\* The published content of every record and of every pin can be read back:
\* imports, restorations and pinned evidence depend on it (370, 430).
PublishedIsReadable ==
    \A p \in Records :
        /\ publication.files[p] # 0 => <<p, publication.files[p]>> \in baselines
        /\ publication.pins[p] # 0 => <<p, publication.pins[p]>> \in baselines

\* Evidence is immutable from the publication that pins it, whatever its row
\* becomes: neither the pin, nor what is published, nor the file itself moves.
PinnedEvidenceIsKept ==
    [][\A p \in Records : publication.pins[p] # 0 =>
          /\ publication'.pins[p] = publication.pins[p]
          /\ publication'.files[p] \in {0, publication.pins[p]}
          /\ disk[p] = publication.pins[p] /\ worker' # worker => disk'[p] = disk[p]]_vars

\* The worker replaces or removes an edit only after it kept a copy of it,
\* unless the edit came after the check that would have refused it.
EditsSurvive ==
    [][\A p \in Records :
          disk[p] \in Edits \ late /\ disk'[p] # disk[p] /\ worker' # worker =>
              <<p, disk[p]>> \in recovery']_vars

\* A record leaves the publication only because somebody deleted its row: rows
\* that were released are never published as an empty workspace, wherever the
\* release was interrupted (workspace-research-index.ts 377-379).
OnlyForgottenRecordsLeave ==
    [][\A p \in Records :
          publication.files[p] # 0 /\ publication'.files[p] = 0 => p \in forgotten]_vars

\* A restart can finish an interrupted publication (399), if nobody edited the
\* files in between.
PublicationFinishes == (pending # NoJournal) ~> (pending = NoJournal \/ edited # {})

\* Released rows come back with the next operation that needs them, if the
\* files were left alone.
IndexComesBack == NeedsRebuild ~> (~NeedsRebuild \/ edited # {})

\* release-index removes rebuildable rows (app-server/README.md 22): a row it
\* removes is published at its latest revision.
ReleasedRowsAreRebuildable ==
    [][step = "pruning" /\ step' = "pruned" =>
          \A p \in Records \ Evidence : store[p] \in {0, publication.files[p]}]_vars
=============================================================================
