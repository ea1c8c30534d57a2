------------------------------- MODULE Service -------------------------------
(***************************************************************************)
(* The web service (src/internal/handlers) over the store and the files:   *)
(* browser tabs post requests, the handlers call the store and move files  *)
(* between the photo directory and the trash directory (src/internal/img). *)
(*                                                                         *)
(* A handler is one step per store call or file move that others can see;  *)
(* requests of several tabs interleave between the steps, and a crash ends *)
(* them all.  Reads a handler makes after its last change (renderNext) are *)
(* part of the step of that change.  What the photos look like is left     *)
(* out: all hashed photos are one cluster of near-duplicates, one          *)
(* directory holds all files, and the clock stands still.                  *)
(***************************************************************************)
EXTENDS PhotoStore, Queue

CONSTANTS
    Clients,     \* browser tabs
    Routes,      \* bound: what the tabs ask for
    Crashes,     \* whether the process may die and start again
    PutsBack,    \* whether the user moves files back from the trash by hand
    MovesMayFail, \* whether MkdirAll or Rename may fail with the file there
    MaxImports,  \* bound: files ever put at one path
    MaxSlot      \* bound: names uniqueDest tries for one path

VARIABLES
    lib,       \* the file at each photo's path, or Nil
    trash,     \* the file at each path of the trash directory, or Nil
    imported,  \* history: how many files were ever put at a photo's path
    stranded,  \* history: files in the trash whose restore failed
    hashed,    \* photos the indexer has hashed
    req,       \* the request each tab waits for
    page       \* what each tab shows

files == <<lib, trash, stranded>>

serviceVars == <<vars, files, imported, hashed, req, page>>

Slots == 1 .. MaxSlot

Idle == [pc |-> "idle"]

\* What a request knows at each of its steps.
Request ==
    {Idle}
    \cup [pc: {"start"}, target: Nat, mix: Mixes]
    \cup [pc: {"record"}, id: PhotoIDs, slot: TrashPaths]
    \cup [pc: {"members"}, id: PhotoIDs, todo: SUBSET PhotoIDs,
          ops: ClusterRequests]
    \cup [pc: {"skip"}, id: PhotoIDs, members: SUBSET PhotoIDs]
    \cup [pc: {"restore"}, todo: SUBSET (TrashPaths \X PhotoIDs),
          byID: BOOLEAN, id: PhotoIDs]
    \cup [pc: {"walk"}, todo: SUBSET PhotoIDs, seen: SUBSET PhotoIDs]

\* A card shows one photo; a cluster page those of a cluster not decided yet.
Page == [cluster: PhotoIDs \cup {Nil}, photos: SUBSET PhotoIDs]

NoPage == [cluster |-> Nil, photos |-> {}]

(***************************************************************************)
(* Clusters (dupes.Find) and pages.                                        *)
(***************************************************************************)
Least(S) == CHOOSE x \in S : \A y \in S : x <= y

\* The cluster: hashed, not trashed, at least two.
Cluster(s) ==
    LET alike == {x \in hashed : Known(s, x) /\ s.photos[x].state # "trashed"}
    IN  IF Cardinality(alike) < 2 THEN {} ELSE alike

Undecided(s, members) == {x \in members : s.photos[x].state = "unsorted"}

ClusterPage(s) ==
    [cluster |-> Least(Cluster(s)), photos |-> Undecided(s, Cluster(s))]

PageFor(s, id) ==
    IF id \in Cluster(s) /\ Cardinality(Undecided(s, Cluster(s))) >= 2
    THEN ClusterPage(s)
    ELSE [cluster |-> Nil, photos |-> {id}]

PhotoPool(s) ==
    Pool(s.photos, {x \in PhotoIDs : Known(s, x)}, s.session, s.settings, now)

\* renderNext; no candidate and a complete session send the tab to the summary.
NextPages(s) ==
    IF ~HasSession(s) \/ Complete(s.session) \/ PhotoPool(s) = {}
    THEN {NoPage}
    ELSE {PageFor(s, id) : id \in PhotoPool(s)}

-----------------------------------------------------------------------------
(***************************************************************************)
(* File moves.  A rename is atomic; one over an existing file replaces it. *)
(***************************************************************************)
InLibrary == {id \in PhotoIDs : lib[id] # Nil}

\* uniqueDest: the photo's own name, then suffixed ones.
FreeSlots(id) == {k \in Slots : trash[<<id, k>>] = Nil}

UniqueDest(id) == <<id, Least(FreeSlots(id))>>

MoveToTrash(id) ==
    /\ FreeSlots(id) # {}
    /\ lib' = [lib EXCEPT ![id] = Nil]
    /\ trash' = [trash EXCEPT ![UniqueDest(id)] = lib[id]]
    /\ UNCHANGED stranded

\* The move, or an error that leaves the files alone: there is nothing to move,
\* or MkdirAll or Rename fails.
RestoreFromTrash(slot, id) ==
    \/ /\ trash[slot] # Nil
       /\ lib' = [lib EXCEPT ![id] = trash[slot]]
       /\ trash' = [trash EXCEPT ![slot] = Nil]
       /\ stranded' = stranded \ {slot}
    \/ /\ trash[slot] = Nil
       /\ UNCHANGED files
    \/ /\ MovesMayFail /\ trash[slot] # Nil
       /\ stranded' = stranded \cup {slot}
       /\ UNCHANGED <<lib, trash>>

-----------------------------------------------------------------------------
(***************************************************************************)
(* Requests.                                                               *)
(***************************************************************************)
\* Within the bounds, a request that will record n finds room for it.
RoomAhead(n) == HasSession(mem) => Room(n)

Asks(c, route) == route \in Routes /\ req[c] = Idle

Waits(c, r) == req' = [req EXCEPT ![c] = r]

Shows(c, pages) == \E p \in pages : page' = [page EXCEPT ![c] = p]

\* The answer that ends a request after a store call; the page stays when the
\* call could not save.
Answers(c) ==
    /\ Waits(c, Idle)
    /\ \/ disk' = mem' /\ Shows(c, NextPages(mem'))
       \/ SavesMayFail /\ disk' = disk /\ UNCHANGED page

Errs(c) == Waits(c, Idle) /\ UNCHANGED page

\* A store call at a handler's last step.
Stores(s) == StoreCall(s) /\ UNCHANGED <<files, imported, hashed>>

StoreKept == UNCHANGED <<vars, imported, hashed>>

\* handleHome finds no session; the settings are read before StartSession locks.
HomeStart(c) ==
    /\ Asks(c, "home")
    /\ ~HasSession(mem)
    /\ Waits(c, [pc |-> "start", target |-> AutoTarget(mem), mix |-> AutoMix(mem)])
    /\ StoreKept /\ UNCHANGED <<files, page>>

StartSession(c) ==
    /\ req[c].pc = "start"
    /\ Stores(AfterStartSession(mem, req[c].target, req[c].mix, now))
    /\ Answers(c)

\* handleHome with a session, and handleNext.
ShowNext(c) ==
    /\ Asks(c, "home")
    /\ HasSession(mem)
    /\ Waits(c, Idle)
    /\ Shows(c, NextPages(mem))
    /\ StoreKept /\ UNCHANGED files

Card(c, id) == page[c] = [cluster |-> Nil, photos |-> {id}]

\* handleDecision.
Keep(c, id) ==
    /\ Asks(c, "keep") /\ Card(c, id)
    /\ CanDecide(mem, id) /\ Room(1)
    /\ Stores(AfterRecordDecision(mem, id, "kept", Nil, now))
    /\ Answers(c)

SkipPhoto(c, id) ==
    /\ Asks(c, "skip") /\ Card(c, id)
    /\ CanDecide(mem, id) /\ Room(1)
    /\ Stores(AfterRecordSkip(mem, id, now))
    /\ Answers(c)

\* The file moves before anyone asks whether the decision can be recorded; a move
\* that fails ends the request with nothing changed.
TrashFile(c, id) ==
    /\ Asks(c, "trash") /\ Card(c, id)
    /\ Known(mem, id) /\ lib[id] # Nil
    /\ RoomAhead(1)
    /\ MoveToTrash(id)
    /\ Waits(c, [pc |-> "record", id |-> id, slot |-> UniqueDest(id)])
    /\ StoreKept /\ UNCHANGED page

RecordTrash(c) ==
    /\ req[c].pc = "record"
    /\ IF CanDecide(mem, req[c].id)
       THEN /\ Room(1)
            /\ Stores(AfterRecordDecision(mem, req[c].id, "trashed",
                                          req[c].slot, now))
            /\ Answers(c)
       ELSE StoreKept /\ Errs(c) /\ UNCHANGED files

\* handleClusterResolve computes the clusters anew and looks for the id.
Resolves(c) == Cluster(mem) # {} /\ Least(Cluster(mem)) = page[c].cluster

ClusterVanished(c) ==
    /\ Asks(c, "cluster") /\ page[c].cluster # Nil
    /\ ~Resolves(c)
    /\ Waits(c, Idle)
    /\ Shows(c, NextPages(mem))
    /\ StoreKept /\ UNCHANGED files

ResolveCluster(c, keep) ==
    /\ Asks(c, "cluster") /\ page[c].cluster # Nil
    /\ Resolves(c)
    /\ RoomAhead(ClusterBump(mem, Cardinality(Cluster(mem))))
    /\ LET members == Undecided(mem, Cluster(mem))
       IN  Waits(c, [pc |-> "members", id |-> page[c].cluster,
                     todo |-> members \ keep,
                     ops |-> [x \in PhotoIDs |->
                                IF x \in members \cap keep
                                THEN [newState |-> "kept", trashTo |-> Nil]
                                ELSE Nil]])
    /\ StoreKept /\ UNCHANGED <<files, page>>

\* Mutant: a member whose file cannot be moved is recorded all the same.
TrashMemberAnyway(c, id) ==
    /\ req[c].pc = "members" /\ id \in req[c].todo
    /\ IF lib[id] # Nil THEN MoveToTrash(id) ELSE UNCHANGED files
    /\ Waits(c, [req[c] EXCEPT
            !.todo = @ \ {id},
            !.ops[id] = [newState |-> "trashed",
                         trashTo |-> IF lib[id] # Nil THEN UniqueDest(id)
                                     ELSE <<id, 1>>]])
    /\ StoreKept /\ UNCHANGED page

\* A member whose file cannot be moved is left out of the decision.
TrashMember(c, id) ==
    /\ req[c].pc = "members" /\ id \in req[c].todo
    /\ \/ /\ lib[id] # Nil
          /\ MoveToTrash(id)
          /\ Waits(c, [req[c] EXCEPT
                  !.todo = @ \ {id},
                  !.ops[id] = [newState |-> "trashed",
                               trashTo |-> UniqueDest(id)]])
       \/ /\ lib[id] = Nil \/ MovesMayFail
          /\ Waits(c, [req[c] EXCEPT !.todo = @ \ {id}])
          /\ UNCHANGED files
    /\ StoreKept /\ UNCHANGED page

RecordCluster(c) ==
    /\ req[c].pc = "members" /\ req[c].todo = {}
    /\ LET ops == req[c].ops
       IN  IF Requested(ops) # {} /\ CanDecideCluster(mem, ops)
           THEN /\ Room(ClusterBump(mem, Cardinality(Requested(ops))))
                /\ Stores(AfterRecordClusterDecision(mem, req[c].id, ops, now))
           ELSE StoreKept /\ UNCHANGED files
    /\ Waits(c, Idle)
    /\ Shows(c, NextPages(mem'))

SkipMembers(c) ==
    /\ Asks(c, "skipCluster") /\ page[c].cluster # Nil
    /\ Resolves(c)
    /\ RoomAhead(ClusterBump(mem, Cardinality(Cluster(mem))))
    /\ Waits(c, [pc |-> "skip", id |-> page[c].cluster,
                 members |-> Undecided(mem, Cluster(mem))])
    /\ StoreKept /\ UNCHANGED <<files, page>>

RecordClusterSkip(c) ==
    /\ req[c].pc = "skip"
    /\ IF HasSession(mem)
       THEN \E ids \in MemberLists :
               /\ {ids[i] : i \in DOMAIN ids} = req[c].members
               /\ Len(ids) = Cardinality(req[c].members)
               /\ Room(ClusterBump(mem, Len(ids)))
               /\ Stores(AfterSkipCluster(mem, req[c].id, ids, now))
       ELSE StoreKept /\ UNCHANGED files
    /\ Waits(c, Idle)
    /\ Shows(c, NextPages(mem'))

\* Mutant: only single decisions have their file move taken back.
RestoresSingle(d) ==
    {<<d.ops[x].trashTo, x>> : x \in {y \in Touched(d) : d.kind = "decision"
                                        /\ d.ops[y].newState = "trashed"}}

\* Mutant: the members a cluster decision kept are moved back as well.
RestoresAll(d) ==
    {<<d.ops[x].trashTo, x>> : x \in {y \in Touched(d) : Decides(d, y)}}

\* The moves an undone entry took, as far as they have to be taken back.
Restores(d) ==
    {<<d.ops[x].trashTo, x>> : x \in {y \in Touched(d) : Decides(d, y)
                                        /\ d.ops[y].newState = "trashed"}}

\* Mutant: the file is restored although the undo could not be saved.
UndoEntryUnsaved(c) ==
    /\ Asks(c, "undo") /\ CanUndo(mem) /\ ~UndoFails(mem)
    /\ StoreCall(AfterUndo(mem))
    /\ LET d == Last(mem.session.stack)
       IN  Waits(c, [pc |-> "restore", todo |-> Restores(d), byID |-> FALSE,
                     id |-> d.photo])
    /\ UNCHANGED <<files, imported, hashed, page>>

\* Mutant: the undone entry stays on the stack.
UndoEntryUnpopped(c) ==
    /\ Asks(c, "undo") /\ CanUndo(mem) /\ ~UndoFails(mem)
    /\ StoreCall([AfterUndo(mem) EXCEPT !.session.stack = mem.session.stack])
    /\ LET d == Last(mem.session.stack)
       IN  Waits(c, [pc |-> "restore", todo |-> Restores(d), byID |-> FALSE,
                     id |-> d.photo])
    /\ UNCHANGED <<files, imported, hashed, page>>

\* handleUndo, first the store's part.  Without a save there is no restore.
UndoEntry(c) ==
    /\ Asks(c, "undo") /\ CanUndo(mem)
    /\ mem' = AfterUndo(mem)
    /\ LET d == Last(mem.session.stack)
           byID == d.kind \in {"cluster", "clusterSkip"}
       IN  \/ /\ ~UndoFails(mem)
              /\ disk' = mem'
              /\ Waits(c, [pc |-> "restore", todo |-> Restores(d), byID |-> byID,
                           id |-> d.photo])
           \/ /\ UndoFails(mem) \/ SavesMayFail
              /\ UNCHANGED disk
              /\ Waits(c, Idle)
    /\ UNCHANGED <<now, forgotten, files, imported, hashed, page>>

\* An error is only logged (handlers.go:473-475, 490-493): the undo was saved.
RestoreFile(c) ==
    /\ req[c].pc = "restore"
    /\ \E move \in req[c].todo :
          /\ RestoreFromTrash(move[1], move[2])
          /\ Waits(c, [req[c] EXCEPT !.todo = @ \ {move}])
    /\ StoreKept /\ UNCHANGED page

\* The page after an undo: the cluster again, or the photo.
UndonePages(s, byID, id) ==
    IF byID
    THEN IF Cluster(s) # {} /\ Least(Cluster(s)) = id THEN {ClusterPage(s)}
         ELSE NextPages(s)
    ELSE IF Known(s, id) THEN {PageFor(s, id)} ELSE NextPages(s)

UndoDone(c) ==
    /\ req[c].pc = "restore" /\ req[c].todo = {}
    /\ Waits(c, Idle)
    /\ Shows(c, UndonePages(mem, req[c].byID, req[c].id))
    /\ StoreKept /\ UNCHANGED files

\* The tab goes to /stats; Back brings the page it showed.
End(c) ==
    /\ Asks(c, "end")
    /\ Stores(AfterEndSession(mem))
    /\ UNCHANGED <<req, page>>

Extend(c, delta) ==
    /\ Asks(c, "extend")
    /\ HasSession(mem) /\ mem.session.target + delta <= MaxTarget
    /\ Stores(AfterSessionExtend(mem, delta))
    /\ Answers(c)

SaveSettings(c, ns) ==
    /\ Asks(c, "settings")
    /\ Stores(AfterUpdateSettings(mem, ns))
    /\ UNCHANGED <<req, page>>

(***************************************************************************)
(* Scan.  The walk visits the files the directory listed when it began and *)
(* gives up at one that is gone.                                           *)
(***************************************************************************)
Rescan(c) ==
    /\ Asks(c, "rescan")
    /\ Waits(c, [pc |-> "walk", todo |-> InLibrary, seen |-> {}])
    /\ StoreKept /\ UNCHANGED <<files, page>>

Visit(c, id) ==
    /\ req[c].pc = "walk" /\ id \in req[c].todo
    /\ IF lib[id] # Nil
       THEN /\ UpsertPhoto(id)
            /\ \/ /\ disk' = mem' \/ Known(mem, id)
                  /\ Waits(c, [req[c] EXCEPT !.todo = @ \ {id},
                                            !.seen = @ \cup {id}])
               \/ /\ ~Known(mem, id) /\ SavesMayFail /\ disk' = disk
                  /\ Waits(c, Idle)
            /\ UNCHANGED <<files, imported, hashed>>
       ELSE StoreKept /\ Waits(c, Idle) /\ UNCHANGED files
    /\ UNCHANGED page

Prune(c) ==
    /\ req[c].pc = "walk" /\ req[c].todo = {}
    /\ LET seen == req[c].seen
       IN  IF Missing(mem, seen) # {}
           THEN /\ Commit(AfterForgetMissing(mem, seen))
                /\ forgotten' = forgotten \cup Missing(mem, seen)
                /\ hashed' = hashed \ Missing(mem, seen)
           ELSE UNCHANGED <<mem, disk, forgotten, hashed>>
    /\ Waits(c, Idle)
    /\ UNCHANGED <<now, files, imported, page>>

\* The scan at start-up, before any request is served.
Scanned(s) ==
    AfterForgetMissing(
        [s EXCEPT !.photos = [x \in PhotoIDs |->
            IF x \in InLibrary THEN AfterUpsertPhoto(s, x).photos[x] ELSE @[x]]],
        InLibrary)

Restart ==
    /\ Crashes
    /\ LET s == Opened(disk, now)
       IN  /\ mem' = Scanned(s)
           /\ disk' = IF Scanned(s) # s \/ DropsSession(disk, now) THEN mem'
                      ELSE disk
           /\ forgotten' = forgotten \cup Missing(s, InLibrary)
           /\ hashed' = {x \in hashed \ Missing(s, InLibrary) : Known(s, x)}
    /\ req' = [c \in Clients |-> Idle]
    /\ UNCHANGED <<now, files, imported, page>>

\* The background indexer hashes a photo (NextUnhashed, SetHash).
Index(id) ==
    /\ id \notin hashed /\ lib[id] # Nil
    /\ Known(mem, id) /\ mem.photos[id].state # "trashed"
    /\ hashed' = hashed \cup {id}
    /\ UNCHANGED <<vars, files, imported, req, page>>

\* The user puts a new file at a photo's path.
Import(id) ==
    /\ lib[id] = Nil /\ imported[id] < MaxImports
    /\ imported' = [imported EXCEPT ![id] = @ + 1]
    /\ lib' = [lib EXCEPT ![id] = imported[id] + 1]
    /\ UNCHANGED <<vars, trash, stranded, hashed, req, page>>

\* The user moves a trashed file back (docs/operations.md:148-152).
PutBack(id, k) ==
    /\ PutsBack /\ lib[id] = Nil /\ trash[<<id, k>>] # Nil
    /\ lib' = [lib EXCEPT ![id] = trash[<<id, k>>]]
    /\ trash' = [trash EXCEPT ![<<id, k>>] = Nil]
    /\ stranded' = stranded \ {<<id, k>>}
    /\ UNCHANGED <<vars, imported, hashed, req, page>>

ServiceInit ==
    /\ lib = [id \in PhotoIDs |-> 1]
    /\ trash = [slot \in PhotoIDs \X Slots |-> Nil]
    /\ imported = [id \in PhotoIDs |-> 1]
    /\ stranded = {}
    /\ hashed = {}
    /\ req = [c \in Clients |-> Idle]
    /\ page = [c \in Clients |-> NoPage]
    /\ now = 1
    /\ forgotten = {}
    /\ \E f \in StateFiles :
          /\ mem = Scanned(Opened(f, now))
          /\ disk = mem

Handle(c) ==
    \/ HomeStart(c) \/ StartSession(c) \/ ShowNext(c)
    \/ \E id \in PhotoIDs : \/ Keep(c, id) \/ SkipPhoto(c, id)
                            \/ TrashFile(c, id) \/ TrashMember(c, id)
                            \/ Visit(c, id)
    \/ RecordTrash(c)
    \/ \E keep \in SUBSET page[c].photos : ResolveCluster(c, keep)
    \/ ClusterVanished(c) \/ RecordCluster(c)
    \/ SkipMembers(c) \/ RecordClusterSkip(c)
    \/ UndoEntry(c) \/ RestoreFile(c) \/ UndoDone(c)
    \/ End(c)
    \/ \E delta \in Batches : Extend(c, delta)
    \/ \E ns \in SettingsChoices : SaveSettings(c, ns)
    \/ Rescan(c) \/ Prune(c)

ServiceNext ==
    \/ \E c \in Clients : Handle(c)
    \/ \E id \in PhotoIDs : Index(id) \/ Import(id)
    \/ \E id \in PhotoIDs, k \in Slots : PutBack(id, k)
    \/ Restart

ServiceSpec == ServiceInit /\ [][ServiceNext]_serviceVars

-----------------------------------------------------------------------------
\* Store values stay well formed under the handlers' own sequences of calls, only
\* known photos count as hashed, every page names photos, and every request knows
\* at each step what that step uses: an undo, in particular, has a trash path for
\* each file it moves back (handlers.go:473, 489).
ServiceTypeOK ==
    /\ StoreType(mem) /\ StoreType(disk)
    /\ lib \in [PhotoIDs -> 1 .. MaxImports \cup {Nil}]
    /\ trash \in [PhotoIDs \X Slots -> 1 .. MaxImports \cup {Nil}]
    /\ hashed \subseteq {id \in PhotoIDs : Known(mem, id)}
    /\ page \in [Clients -> Page]
    /\ req \in [Clients -> Request]
    /\ imported \in [PhotoIDs -> 1 .. MaxImports]
    /\ stranded \subseteq TrashPaths

\* The trash file that memory or the state file records for a trashed photo is
\* there: handlers move before they record, and restore after they have un-recorded
\* and saved (handlers.go:421-453, 460-501), so no interleaving of tabs, crash or
\* failed save breaks it.  Only a photo at whose path a second file was put may be
\* trashed and have none recorded: undoing the trash of the second file forgets
\* that of the first (Undo, store.go:722-725).
TrashedHasFile ==
    \A s \in {mem, disk}, id \in PhotoIDs : IsTrashed(s, id) =>
        LET path == s.photos[id].trashedPath
        IN  IF path = Nil THEN imported[id] > 1 ELSE trash[path] # Nil

\* Whatever an undo on the stack will have to move back is there to be moved.
UndoCanRestore ==
    \A s \in {mem, disk} : HasSession(s) =>
        \A i \in DOMAIN s.session.stack :
            \A move \in Restores(s.session.stack[i]) : trash[move[1]] # Nil

AllIdle == \A c \in Clients : req[c] = Idle

TrackedBy(s, id, slot) ==
    \/ IsTrashed(s, id) /\ s.photos[id].trashedPath = slot
    \/ HasSession(s) /\ \E i \in DOMAIN s.session.stack :
                            <<slot, id>> \in Restores(s.session.stack[i])

\* Between requests every file in the trash is the one a trashed photo records,
\* or one that an undo still brings back, or one whose own restore failed:
\* handleUndo logs that error and goes on (handlers.go:473-475, 490-493), when the
\* entry that knew the file is popped and saved.
TrashTracked ==
    AllIdle => \A id \in PhotoIDs, k \in Slots :
        trash[<<id, k>>] # Nil => \/ TrackedBy(mem, id, <<id, k>>)
                                  \/ <<id, k>> \in stranded

ASSUME SlotsAssumption == TrashPaths = PhotoIDs \X Slots /\ PhotoIDs \subseteq Nat

ASSUME BoundsAssumption ==
    /\ MaxImports \in Nat \ {0}
    /\ MaxSlot \in Nat
    /\ Nil \notin TrashPaths \cup Nat
    /\ Nil \notin MemberRequest

\* The first start finds the trash directory empty (ServiceInit), so the state
\* file it finds speaks of nothing in it.
ASSUME FirstFileAssumption ==
    \A f \in StateFiles, id \in PhotoIDs :
        /\ ~IsTrashed(f, id)
        /\ HasSession(f) =>
              \A i \in DOMAIN f.session.stack : Decides(f.session.stack[i], id) =>
                  /\ f.session.stack[i].ops[id].prevState # "trashed"
                  /\ f.session.stack[i].ops[id].newState # "trashed"
=============================================================================
