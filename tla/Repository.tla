------------------------------ MODULE Repository ------------------------------
(***************************************************************************)
(* The server's content-addressed backup store: blob objects and snapshot  *)
(* manifests in the active storage backend, the blob index and snapshot    *)
(* rows in SQLite, and the operations that run over them concurrently:     *)
(* blob uploads, snapshot commits, snapshot deletion, retention, garbage   *)
(* collection, switching the backend and restarting the server.            *)
(*                                                                         *)
(* A handler that reads or writes more than one of these is split at every *)
(* point where another handler can run in between.  What the clients send  *)
(* is unconstrained here: any hash may be uploaded with right or wrong     *)
(* content, any set of hashes may be committed as a snapshot.  BackupRun   *)
(* puts the agents' own protocol on top.                                   *)
(***************************************************************************)
EXTENDS Integers, FiniteSets

CONSTANTS
    Backends,   \* storage destinations, named by backendID
    Local,      \* the local file system, the fallback destination
    Hashes,     \* content hashes
    SnapIds,    \* snapshot ids, never reused
    Jobs,       \* job ids
    Clients,    \* requesters of uploads and commits
    KeepLast,   \* retention policy of each job: newest N snapshots ...
    KeepDays,   \* ... and everything younger than N clock units (0 = off)
    Grace,      \* blobGCGrace
    MaxClock,   \* bound on the clock
    Allow       \* what the environment of this instance may do

(***************************************************************************)
(* "put":     two uploads of one hash may be in flight at the same time;   *)
(* "switch":  the backend may change while requests are in flight;         *)
(* "dberror": the HasBlob query of an upload may fail;                     *)
(* "error":   PruneAndGC may meet a database or storage error;             *)
(* "crash":   the server may stop and start again at any time;             *)
(* "gc" is read by BackupRun only.                                         *)
(***************************************************************************)
ASSUME ConstantsAssumption ==
    /\ Local \in Backends
    /\ Grace \in Nat /\ MaxClock \in Nat
    /\ KeepLast \in [Jobs -> Nat] /\ KeepDays \in [Jobs -> Nat]
    /\ Allow \subseteq {"put", "switch", "dberror", "error", "crash", "gc"}
    /\ Jobs # {}

VARIABLES
    clock,       \* time.Now, in units of which Grace counts several
    active,      \* storageActive and storageBackendID, always set together
    configured,  \* the persisted storage.config setting
    index,       \* blobs table: created_at of each (backend, hash), or NoRow
    object,      \* what each backend stores under BlobKey(hash)
    manifest,    \* the <<backend, snapshot>> pairs whose manifest object exists
    snaps,       \* ids with a row in the snapshots table
    snap,        \* the columns of a snapshot's row
    rowid,       \* rowid of the latest row of the snapshots table
    ids,         \* ids handed out by NewID
    puts,        \* handleBlobPut calls in flight
    commits,     \* handleSnapshotCommit calls in flight (commitMu read-held)
    deleting,    \* requested deleteSnapshot calls between object and row
    mpc,         \* where PruneAndGC stands
    todo,        \* jobs pruneRetention has not listed yet
    victims,     \* snapshots of the listed job it has still to delete
    pruned,      \* the victim whose manifest is gone and whose row is not
    gcOf,        \* gcBlobs' local variable backend
    unread,      \* snapshots gcBlobs listed and whose manifest it has to read
    referenced,  \* hashes of the manifests it has read
    garbage,     \* blobs gcBlobs has still to sweep
    swept,       \* the blob whose object is gone and whose row is not
    doomed,      \* history: snapshots some deleteSnapshot was called on
    whole        \* history: snapshots all of whose blobs were held at commit

blobVars  == <<index, object>>
snapVars  == <<manifest, snaps, snap, rowid, ids, doomed, whole>>
maintVars == <<mpc, todo, victims, pruned, gcOf, unread, referenced, garbage, swept>>
storeVars == <<clock, active, configured>>
vars == <<storeVars, blobVars, snapVars, puts, commits, deleting, maintVars>>

NoRow == -1

Uploads == [by : Clients, hash : Hashes, to : Backends,
            pc : {"writing", "stored", "rejected"}]
Commits == [by : Clients, id : SnapIds, job : Jobs, refs : SUBSET Hashes,
            to : Backends, pc : {"writing", "stored"}]
Rows    == [backend : Backends, job : Jobs, refs : SUBSET Hashes,
            at : Nat, row : Nat]

\* The server can serve this blob: the index knows it and the object is right.
Held(b, h) == index[b][h] # NoRow /\ object[b][h] = "good"

RowsOf(b) == {i \in snaps : snap[i].backend = b}

-----------------------------------------------------------------------------
(* Storage backends *)

\* Nothing is in flight on the server.
Quiescent == puts = {} /\ commits = {} /\ deleting = {} /\ mpc = "idle"

\* applyStorageConfig: persist the configuration, then activate it.
SwitchBackend(b) ==
    /\ "switch" \in Allow \/ Quiescent
    /\ configured' = b /\ active' = b
    /\ UNCHANGED <<clock, blobVars, snapVars, puts, commits, deleting, maintVars>>

\* handleStorageSetApp: persist a configuration without activating it.
SetApp(b) ==
    /\ configured' = b
    /\ UNCHANGED <<clock, active, blobVars, snapVars, puts, commits, deleting,
                   maintVars>>

\* PruneAndGC returns: its locals are gone, commitMu is free.
MaintenanceOver ==
    /\ mpc' = "idle" /\ todo' = {} /\ victims' = {} /\ pruned' = {}
    /\ gcOf' = Local /\ unread' = {} /\ referenced' = {}
    /\ garbage' = {} /\ swept' = {}

\* The server stops and starts again: every handler is gone, the database and
\* the objects stay.  initStorage builds the configured backend, or falls
\* back to local storage when it cannot.
Restart ==
    /\ "crash" \in Allow
    /\ active' \in {configured, Local}
    /\ puts' = {} /\ commits' = {} /\ deleting' = {}
    /\ MaintenanceOver
    /\ UNCHANGED <<clock, configured, blobVars, snapVars>>

Tick ==
    /\ clock < MaxClock /\ clock' = clock + 1
    /\ UNCHANGED <<active, configured, blobVars, snapVars, puts, commits,
                   deleting, maintVars>>

-----------------------------------------------------------------------------
(* Blob upload: handleBlobPut *)

\* HasBlob says no (or fails, which reads the same), so the body is streamed to the active backend.
PutBegin(c, h) ==
    /\ \A p \in puts : p.by # c
    /\ index[active][h] = NoRow \/ "dberror" \in Allow
    /\ "put" \in Allow \/ \A p \in puts : p.hash # h
    /\ puts' = puts \cup {[by |-> c, hash |-> h, to |-> active, pc |-> "writing"]}
    /\ UNCHANGED <<storeVars, blobVars, snapVars, commits, deleting, maintVars>>

Becomes(p, pc) == puts' = (puts \ {p}) \cup {[p EXCEPT !.pc = pc]}

\* Mutant: the hash is never compared.
VerdictBlind(c) == "stored"

\* The hash of what was stored is compared with the claimed one.
Verdict(c) == IF c = "good" THEN "stored" ELSE "rejected"

\* Put's rename makes the object visible, before its hash is compared.
PutStore(p, c) ==
    /\ p.pc = "writing"
    /\ object' = [object EXCEPT ![p.to][p.hash] = c]
    /\ Becomes(p, Verdict(c))
    /\ UNCHANGED <<storeVars, index, snapVars, commits, deleting, maintVars>>

\* Put itself fails (the connection broke, the disk is full): no new object.
PutError(p) ==
    /\ p.pc = "writing"
    /\ Becomes(p, "rejected")
    /\ UNCHANGED <<storeVars, blobVars, snapVars, commits, deleting, maintVars>>

\* Mutant: the row is dated with the end of its grace period.
DatedLater(old) == IF old = NoRow THEN clock + Grace ELSE old

\* INSERT ... ON CONFLICT DO NOTHING: an existing row keeps its date.
Dated(old) == IF old = NoRow THEN clock ELSE old

\* AddBlob under the key that is active now.
PutAccept(p) ==
    /\ p.pc = "stored"
    /\ index' = [index EXCEPT ![active][p.hash] = Dated(@)]
    /\ puts' = puts \ {p}
    /\ UNCHANGED <<storeVars, object, snapVars, commits, deleting, maintVars>>

\* AddBlob fails: the object stays, without a row.
PutLost(p) ==
    /\ p.pc = "stored"
    /\ puts' = puts \ {p}
    /\ UNCHANGED <<storeVars, blobVars, snapVars, commits, deleting, maintVars>>

\* A failed or mismatching upload deletes the object from the active backend.
PutReject(p) ==
    /\ p.pc = "rejected"
    /\ object' = [object EXCEPT ![active][p.hash] = "none"]
    /\ puts' = puts \ {p}
    /\ UNCHANGED <<storeVars, index, snapVars, commits, deleting, maintVars>>

-----------------------------------------------------------------------------
(* Snapshot commit: handleSnapshotCommit, under commitMu's read lock.  A    *)
(* collector that waits for the write lock already keeps new readers out,   *)
(* as sync.RWMutex does.                                                    *)

CommitBegin(c, i, j, refs) ==
    /\ \A k \in commits : k.by # c
    /\ mpc \in {"idle", "prune"}
    /\ i \notin ids /\ ids' = ids \cup {i}
    /\ commits' = commits \cup {[by |-> c, id |-> i, job |-> j, refs |-> refs,
                                 to |-> active, pc |-> "writing"]}
    /\ UNCHANGED <<storeVars, blobVars, manifest, snaps, snap, rowid, doomed,
                   whole, puts, deleting, maintVars>>

CommitStore(k) ==
    /\ k.pc = "writing"
    /\ manifest' = manifest \cup {<<k.to, k.id>>}
    /\ commits' = (commits \ {k}) \cup {[k EXCEPT !.pc = "stored"]}
    /\ UNCHANGED <<storeVars, blobVars, snaps, snap, rowid, ids, doomed, whole,
                   puts, deleting, maintVars>>

\* The manifest could not be stored.
CommitError(k) ==
    /\ k.pc = "writing"
    /\ commits' = commits \ {k}
    /\ UNCHANGED <<storeVars, blobVars, snapVars, puts, deleting, maintVars>>

\* Mutant: the row names the configured backend, which is not the active one
\* after a fallback to local storage.
RowConfigured(k) == [backend |-> configured, job |-> k.job, refs |-> k.refs,
                     at |-> clock, row |-> rowid + 1]

Row(k) == [backend |-> active, job |-> k.job, refs |-> k.refs,
           at |-> clock, row |-> rowid + 1]

\* CreateSnapshot under the key that is active now.
CommitRow(k) ==
    /\ k.pc = "stored"
    /\ commits' = commits \ {k}
    /\ snaps' = snaps \cup {k.id}
    /\ snap' = [snap EXCEPT ![k.id] = Row(k)]
    /\ rowid' = rowid + 1
    /\ whole' = IF <<active, k.id>> \in manifest /\ \A h \in k.refs : Held(active, h)
                THEN whole \cup {k.id} ELSE whole
    /\ UNCHANGED <<storeVars, blobVars, manifest, ids, doomed, puts, deleting,
                   maintVars>>

\* The row could not be inserted: the manifest is deleted again.
CommitRowError(k) ==
    /\ k.pc = "stored"
    /\ commits' = commits \ {k}
    /\ manifest' = manifest \ {<<active, k.id>>}
    /\ UNCHANGED <<storeVars, blobVars, snaps, snap, rowid, ids, doomed, whole,
                   puts, deleting, maintVars>>

-----------------------------------------------------------------------------
(* Snapshot deletion on request: handleSnapshotDelete, handleAgentDelete.   *)
(* deleteSnapshot removes the manifest from the active backend, wherever    *)
(* the snapshot lives, and then the row.                                    *)

AdminDelete(i) ==
    /\ i \in snaps \ deleting
    /\ manifest' = manifest \ {<<active, i>>}
    /\ deleting' = deleting \cup {i} /\ doomed' = doomed \cup {i}
    /\ UNCHANGED <<storeVars, blobVars, snaps, snap, rowid, ids, whole, puts,
                   commits, maintVars>>

AdminDeleteRow(i) ==
    /\ i \in deleting
    /\ deleting' = deleting \ {i} /\ snaps' = snaps \ {i}
    /\ UNCHANGED <<storeVars, blobVars, manifest, snap, rowid, ids, doomed, whole,
                   puts, commits, maintVars>>

-----------------------------------------------------------------------------
(* Retention: pruneRetention, one job after the other *)

PruneStart ==
    /\ mpc = "idle"
    /\ mpc' = "prune" /\ todo' = Jobs
    /\ UNCHANGED <<storeVars, blobVars, snapVars, puts, commits, deleting, victims,
                   pruned, gcOf, unread, referenced, garbage, swept>>

\* Position of i in its job's ListSnapshots, newest first.
Rank(i) == Cardinality({k \in RowsOf(active) : /\ snap[k].job = snap[i].job
                                               /\ snap[k].row > snap[i].row})

\* Mutant: off by one in the number to keep.
KeptOneLess(i, j) == \/ Rank(i) = 0
                     \/ KeepLast[j] > 0 /\ Rank(i) < KeepLast[j] - 1
                     \/ KeepDays[j] > 0 /\ snap[i].at >= clock - KeepDays[j]

Kept(i, j) == \/ Rank(i) = 0
              \/ KeepLast[j] > 0 /\ Rank(i) < KeepLast[j]
              \/ KeepDays[j] > 0 /\ snap[i].at >= clock - KeepDays[j]

PruneList(j) ==
    /\ mpc = "prune" /\ victims = {} /\ pruned = {}
    /\ j \in todo /\ todo' = todo \ {j}
    /\ victims' = IF KeepLast[j] = 0 /\ KeepDays[j] = 0 THEN {}
                  ELSE {i \in RowsOf(active) : snap[i].job = j /\ ~ Kept(i, j)}
    /\ UNCHANGED <<storeVars, blobVars, snapVars, puts, commits, deleting, mpc,
                   pruned, gcOf, unread, referenced, garbage, swept>>

\* deleteSnapshot of a listed snapshot: its manifest ...
PruneManifest(i) ==
    /\ mpc = "prune" /\ pruned = {} /\ i \in victims \cap snaps
    /\ victims' = victims \ {i} /\ pruned' = {i}
    /\ manifest' = manifest \ {<<active, i>>} /\ doomed' = doomed \cup {i}
    /\ UNCHANGED <<storeVars, blobVars, snaps, snap, rowid, ids, whole, puts,
                   commits, deleting, mpc, todo, gcOf, unread, referenced,
                   garbage, swept>>

\* ... then its row.
PruneRow(i) ==
    /\ mpc = "prune" /\ i \in pruned
    /\ pruned' = {} /\ snaps' = snaps \ {i}
    /\ UNCHANGED <<storeVars, blobVars, manifest, snap, rowid, ids, doomed, whole,
                   puts, commits, deleting, mpc, todo, victims, gcOf, unread,
                   referenced, garbage, swept>>

\* GetSnapshot says ErrNotFound: someone else deleted it.
PruneSkip(i) ==
    /\ mpc = "prune" /\ pruned = {} /\ i \in victims \ snaps
    /\ victims' = victims \ {i}
    /\ UNCHANGED <<storeVars, blobVars, snapVars, puts, commits, deleting, mpc,
                   todo, pruned, gcOf, unread, referenced, garbage, swept>>

\* All jobs done; gcBlobs asks for commitMu.
PruneEnd ==
    /\ mpc = "prune" /\ todo = {} /\ victims = {} /\ pruned = {}
    /\ mpc' = "gcwait"
    /\ UNCHANGED <<storeVars, blobVars, snapVars, puts, commits, deleting, todo,
                   victims, pruned, gcOf, unread, referenced, garbage, swept>>

-----------------------------------------------------------------------------
(* Garbage collection: gcBlobs, under commitMu's write lock *)

\* Mutant: gcBlobs does not take commitMu.
Unlocked == TRUE

\* The write lock is granted when no commit holds the read lock.
Exclusive == commits = {}

GCLock ==
    /\ mpc = "gcwait" /\ Exclusive
    /\ mpc' = "mark" /\ gcOf' = active /\ unread' = RowsOf(active)
    /\ UNCHANGED <<storeVars, blobVars, snapVars, puts, commits, deleting, todo,
                   victims, pruned, referenced, garbage, swept>>

\* eachManifestEntry reads from the backend that is active now.
GCRead(i) ==
    /\ mpc = "mark" /\ i \in unread /\ <<active, i>> \in manifest
    /\ unread' = unread \ {i} /\ referenced' = referenced \cup snap[i].refs
    /\ UNCHANGED <<storeVars, blobVars, snapVars, puts, commits, deleting, mpc,
                   todo, victims, pruned, gcOf, garbage, swept>>

\* Mutants: no grace period; a blob of exactly that age is never old enough.
AnyAge(h) == index[gcOf][h] # NoRow
Older(h) == index[gcOf][h] # NoRow /\ index[gcOf][h] < clock - Grace

Old(h) == index[gcOf][h] # NoRow /\ index[gcOf][h] <= clock - Grace

\* AllBlobs, less the referenced and the young ones.
GCList ==
    /\ mpc = "mark" /\ unread = {}
    /\ mpc' = "sweep"
    /\ garbage' = {h \in Hashes \ referenced : Old(h)}
    /\ UNCHANGED <<storeVars, blobVars, snapVars, puts, commits, deleting, todo,
                   victims, pruned, gcOf, unread, referenced, swept>>

ObjectsWithout(h) == [object EXCEPT ![active][h] = "none"]

\* The object goes from the backend that is active now ...
GCSweepObject(h) ==
    /\ mpc = "sweep" /\ swept = {} /\ h \in garbage
    /\ object' = ObjectsWithout(h)
    /\ garbage' = garbage \ {h} /\ swept' = {h}
    /\ UNCHANGED <<storeVars, index, snapVars, puts, commits, deleting, mpc, todo,
                   victims, pruned, gcOf, unread, referenced>>

\* Mutant: the index row is left behind.
RowsKept(h) == index

RowsWithout(h) == [index EXCEPT ![gcOf][h] = NoRow]

\* ... and the row from the index of the backend gcBlobs started on.
GCSweepRow(h) ==
    /\ mpc = "sweep" /\ h \in swept
    /\ index' = RowsWithout(h)
    /\ swept' = {}
    /\ UNCHANGED <<storeVars, object, snapVars, puts, commits, deleting, mpc, todo,
                   victims, pruned, gcOf, unread, referenced, garbage>>

GCEnd ==
    /\ mpc = "sweep" /\ garbage = {} /\ swept = {}
    /\ MaintenanceOver
    /\ UNCHANGED <<storeVars, blobVars, snapVars, puts, commits, deleting>>

\* Mutant: an unreadable manifest is tried again and again.
GCAbortNever == FALSE /\ UNCHANGED vars

\* "A single unreadable manifest must abort the sweep."
GCAbort ==
    /\ mpc = "mark" /\ \E i \in unread : <<active, i>> \notin manifest
    /\ MaintenanceOver
    /\ UNCHANGED <<storeVars, blobVars, snapVars, puts, commits, deleting>>

\* Any other error ends PruneAndGC where it stands.
MaintenanceError ==
    /\ "error" \in Allow /\ mpc \in {"prune", "mark", "sweep"}
    /\ MaintenanceOver
    /\ UNCHANGED <<storeVars, blobVars, snapVars, puts, commits, deleting>>

-----------------------------------------------------------------------------

Init ==
    /\ clock = 0 /\ active = Local /\ configured = Local
    /\ index = [b \in Backends |-> [h \in Hashes |-> NoRow]]
    /\ object = [b \in Backends |-> [h \in Hashes |-> "none"]]
    /\ manifest = {} /\ snaps = {} /\ rowid = 0 /\ ids = {}
    /\ snap = [i \in SnapIds |-> [backend |-> Local, job |-> CHOOSE j \in Jobs : TRUE,
                                  refs |-> {}, at |-> 0, row |-> 0]]
    /\ doomed = {} /\ whole = {}
    /\ puts = {} /\ commits = {} /\ deleting = {}
    /\ mpc = "idle" /\ todo = {} /\ victims = {} /\ pruned = {} /\ gcOf = Local
    /\ unread = {} /\ referenced = {} /\ garbage = {} /\ swept = {}

PutStep(p) ==
    \/ \E c \in {"good", "bad"} : PutStore(p, c)
    \/ PutError(p) \/ PutAccept(p) \/ PutLost(p) \/ PutReject(p)

CommitStep(k) ==
    CommitStore(k) \/ CommitError(k) \/ CommitRow(k) \/ CommitRowError(k)

Prune ==
    \/ \E j \in Jobs : PruneList(j)
    \/ \E i \in SnapIds : PruneManifest(i) \/ PruneRow(i) \/ PruneSkip(i)
    \/ PruneEnd

GC ==
    \/ GCLock \/ (\E i \in SnapIds : GCRead(i)) \/ GCList
    \/ \E h \in Hashes : GCSweepObject(h) \/ GCSweepRow(h)
    \/ GCEnd \/ GCAbort

Storage == (\E b \in Backends : SwitchBackend(b) \/ SetApp(b)) \/ Restart \/ Tick

AdminStep == \E i \in SnapIds : AdminDelete(i) \/ AdminDeleteRow(i)

Maintenance == PruneStart \/ Prune \/ GC \/ MaintenanceError

Next ==
    \/ Storage
    \/ \E c \in Clients, h \in Hashes : PutBegin(c, h)
    \/ \E p \in puts : PutStep(p)
    \/ \E c \in Clients, i \in SnapIds, j \in Jobs, refs \in SUBSET Hashes :
           CommitBegin(c, i, j, refs)
    \/ \E k \in commits : CommitStep(k)
    \/ AdminStep
    \/ Maintenance

\* A started handler and a started PruneAndGC keep running: their goroutines
\* are scheduled, and their storage calls return or fail.  runMaintenance
\* starts PruneAndGC again and again.
Fairness ==
    /\ \A c \in Clients : WF_vars(\E k \in commits : k.by = c /\ CommitStep(k))
    /\ \A i \in SnapIds : WF_vars(AdminDeleteRow(i))
    /\ WF_vars(Maintenance)

Spec == Init /\ [][Next]_vars

FairSpec == Spec /\ Fairness

-----------------------------------------------------------------------------
(* What the store promises *)

\* Every variable has its type, and no row is dated in the future.
TypeOK ==
    /\ clock \in Nat /\ active \in Backends /\ configured \in Backends
    /\ index \in [Backends -> [Hashes -> {NoRow} \cup 0..clock]]
    /\ object \in [Backends -> [Hashes -> {"none", "good", "bad"}]]
    /\ manifest \subseteq Backends \X SnapIds
    /\ snaps \subseteq SnapIds /\ ids \subseteq SnapIds
    /\ snap \in [SnapIds -> Rows] /\ rowid \in Nat
    /\ \A i \in SnapIds : snap[i].at <= clock /\ snap[i].row <= rowid
    /\ puts \subseteq Uploads /\ commits \subseteq Commits
    /\ deleting \subseteq SnapIds /\ doomed \subseteq SnapIds /\ whole \subseteq SnapIds
    /\ mpc \in {"idle", "prune", "gcwait", "mark", "sweep"}
    /\ todo \subseteq Jobs /\ victims \subseteq SnapIds /\ pruned \subseteq SnapIds
    /\ gcOf \in Backends /\ unread \subseteq SnapIds
    /\ referenced \subseteq Hashes /\ garbage \subseteq Hashes /\ swept \subseteq Hashes

\* The snapshot's manifest and every blob it refers to can be read back.
Restorable(i) ==
    /\ <<snap[i].backend, i>> \in manifest
    /\ \A h \in snap[i].refs : Held(snap[i].backend, h)

\* A snapshot that was complete when it was committed stays restorable until
\* somebody deletes it: uploads, retention, garbage collection, crashes and
\* orderly switches of the backend take neither its manifest nor its blobs.
SnapshotsRestorable == \A i \in (snaps \cap whole) \ doomed : Restorable(i)

\* handleBlobPut verifies the hash "before the blob becomes visible in the
\* index": what is indexed never holds content that failed verification.
IndexedBlobsVerified ==
    \A b \in Backends, h \in Hashes : index[b][h] # NoRow => object[b][h] # "bad"

\* A blob leaves the index only past the grace period and only while no
\* snapshot row of its backend refers to it, whatever runs concurrently.
SweepOnlyGarbage ==
    [][\A b \in Backends, h \in Hashes :
          index[b][h] # NoRow /\ index'[b][h] = NoRow =>
              /\ index[b][h] <= clock - Grace
              /\ \A i \in RowsOf(b) : h \notin snap[i].refs]_vars

\* The snapshots of i's job and backend that were committed after i.
Successors(i) ==
    {k \in SnapIds : /\ snap[k].row > snap[i].row
                     /\ snap[k].job = snap[i].job /\ snap[k].backend = snap[i].backend}

\* What retention deletes had a successor, at least KeepLast of them, and is
\* older than KeepDays: also when the admin deletes snapshots meanwhile.
RetentionKeeps ==
    [][\A i \in pruned' \ pruned :
          LET j == snap[i].job
              n == Cardinality(Successors(i))
          IN  /\ KeepLast[j] > 0 \/ KeepDays[j] > 0
              /\ n >= 1 /\ n >= KeepLast[j]
              /\ KeepDays[j] > 0 => snap[i].at < clock - KeepDays[j]]_vars

\* Every PruneAndGC ends: a collector waiting for commitMu gets it.
MaintenanceEnds == (mpc # "idle") ~> (mpc = "idle")

\* Indexed blobs nothing refers to, past the grace period.
Reclaimable ==
    {h \in Hashes : /\ index[active][h] # NoRow /\ index[active][h] <= clock - Grace
                    /\ \A i \in RowsOf(active) : h \notin snap[i].refs}

\* Garbage does not stay: a deletion that gets in the way of one collection
\* only delays it to a later one.
GarbageReclaimed == []<>(Reclaimable = {})
=============================================================================
