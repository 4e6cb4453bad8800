-------------------------- MODULE RepositoryProofs --------------------------
(* Theorems about Repository, for every value of its constants. *)
EXTENDS Repository, FiniteSetTheorems, TLAPS

USE DEF NoRow, Verdict, Dated, Row, Exclusive, Old, ObjectsWithout, RowsWithout

-----------------------------------------------------------------------------
(* Type correctness *)

LEMMA InitTypeOK == Init => TypeOK
  BY ConstantsAssumption DEF Init, TypeOK, Rows

LEMMA StorageTypeOK == TypeOK /\ Storage => TypeOK'
  <1> SUFFICES ASSUME TypeOK, Storage PROVE TypeOK'
    OBVIOUS
  <1> USE ConstantsAssumption DEF TypeOK, vars, storeVars, blobVars, snapVars, maintVars
  <1>1. ASSUME NEW b \in Backends, SwitchBackend(b) PROVE TypeOK'
    BY <1>1 DEF SwitchBackend
  <1>2. ASSUME NEW b \in Backends, SetApp(b) PROVE TypeOK'
    BY <1>2 DEF SetApp
  <1>3. CASE Restart
    BY <1>3 DEF Restart, MaintenanceOver
  <1>4. CASE Tick
    <2>1. clock' \in Nat /\ clock <= clock'
      BY <1>4 DEF Tick
    <2>2. {NoRow} \cup 0..clock \subseteq ({NoRow} \cup 0..clock)'
      BY <2>1
    <2>3. index' \in [Backends -> [Hashes -> {NoRow} \cup 0..clock']]
      BY <1>4, <2>1, <2>2 DEF Tick
    <2>4. \A i \in SnapIds : snap'[i].at <= clock' /\ snap'[i].row <= rowid'
      BY <1>4, <2>1 DEF Tick, Rows
    <2> QED
      BY <1>4, <2>1, <2>3, <2>4 DEF Tick
  <1> QED
    BY <1>1, <1>2, <1>3, <1>4 DEF Storage

LEMMA PutTypeOK ==
    ASSUME TypeOK,
           \/ \E c \in Clients, h \in Hashes : PutBegin(c, h)
           \/ \E p \in puts : PutStep(p)
    PROVE  TypeOK'
  <1> USE ConstantsAssumption DEF TypeOK, vars, storeVars, blobVars, snapVars, maintVars
  <1>1. ASSUME NEW c \in Clients, NEW h \in Hashes, PutBegin(c, h) PROVE TypeOK'
    BY <1>1 DEF PutBegin, Uploads
  <1>2. ASSUME NEW p \in puts, NEW c \in {"good", "bad"}, PutStore(p, c) PROVE TypeOK'
    BY <1>2 DEF PutStore, Becomes, Uploads
  <1>3. ASSUME NEW p \in puts, PutError(p) PROVE TypeOK'
    BY <1>3 DEF PutError, Becomes, Uploads
  <1>4. ASSUME NEW p \in puts, PutAccept(p) PROVE TypeOK'
    BY <1>4 DEF PutAccept, Uploads
  <1>5. ASSUME NEW p \in puts, PutLost(p) PROVE TypeOK'
    BY <1>5 DEF PutLost
  <1>6. ASSUME NEW p \in puts, PutReject(p) PROVE TypeOK'
    BY <1>6 DEF PutReject, Uploads
  <1> QED
    BY <1>1, <1>2, <1>3, <1>4, <1>5, <1>6 DEF PutStep

LEMMA CommitTypeOK ==
    ASSUME TypeOK,
           \/ \E c \in Clients, i \in SnapIds, j \in Jobs, refs \in SUBSET Hashes :
                 CommitBegin(c, i, j, refs)
           \/ \E k \in commits : CommitStep(k)
    PROVE  TypeOK'
  <1> USE ConstantsAssumption DEF TypeOK, vars, storeVars, blobVars, snapVars, maintVars
  <1>1. ASSUME NEW c \in Clients, NEW i \in SnapIds, NEW j \in Jobs,
               NEW refs \in SUBSET Hashes, CommitBegin(c, i, j, refs)
        PROVE TypeOK'
    BY <1>1 DEF CommitBegin, Commits
  <1>2. ASSUME NEW k \in commits, CommitStore(k) PROVE TypeOK'
    <2>1. commits' \subseteq Commits
      BY <1>2 DEF CommitStore, Commits
    <2>2. manifest' \subseteq Backends \X SnapIds
      BY <1>2 DEF CommitStore, Commits
    <2> QED
      BY <1>2, <2>1, <2>2 DEF CommitStore
  <1>3. ASSUME NEW k \in commits, CommitError(k) PROVE TypeOK'
    BY <1>3 DEF CommitError
  <1>4. ASSUME NEW k \in commits, CommitRow(k) PROVE TypeOK'
    <2>1. k.id \in SnapIds /\ k.job \in Jobs /\ k.refs \in SUBSET Hashes
      BY DEF Commits
    <2>2. snap' \in [SnapIds -> Rows]
      BY <1>4, <2>1 DEF CommitRow, Rows
    <2>3. \A i \in SnapIds : snap'[i].at <= clock' /\ snap'[i].row <= rowid'
      BY <1>4, <2>1 DEF CommitRow, Rows
    <2> QED
      BY <1>4, <2>1, <2>2, <2>3 DEF CommitRow
  <1>5. ASSUME NEW k \in commits, CommitRowError(k) PROVE TypeOK'
    BY <1>5 DEF CommitRowError
  <1> QED
    BY <1>1, <1>2, <1>3, <1>4, <1>5 DEF CommitStep

LEMMA AdminTypeOK == TypeOK /\ AdminStep => TypeOK'
  BY DEF AdminStep, AdminDelete, AdminDeleteRow, TypeOK, storeVars, blobVars, maintVars

LEMMA MaintenanceTypeOK == TypeOK /\ Maintenance => TypeOK'
  <1> SUFFICES ASSUME TypeOK, Maintenance PROVE TypeOK'
    OBVIOUS
  <1> USE ConstantsAssumption DEF TypeOK, vars, storeVars, blobVars, snapVars, maintVars
  <1>1. CASE PruneStart
    BY <1>1 DEF PruneStart
  <1>2. CASE Prune
    BY <1>2 DEF Prune, PruneList, PruneManifest, PruneRow, PruneSkip, PruneEnd, RowsOf
  <1>3. CASE GC
    <2>1. CASE GCLock
      BY <2>1 DEF GCLock, RowsOf
    <2>2. ASSUME NEW i \in SnapIds, GCRead(i) PROVE TypeOK'
      <3>1. snap[i].refs \subseteq Hashes
        BY DEF Rows
      <3> QED
        BY <2>2, <3>1 DEF GCRead
    <2>3. CASE GCList
      BY <2>3 DEF GCList
    <2>4. ASSUME NEW h \in Hashes, GCSweepObject(h) PROVE TypeOK'
      BY <2>4 DEF GCSweepObject
    <2>5. ASSUME NEW h \in Hashes, GCSweepRow(h) PROVE TypeOK'
      BY <2>5 DEF GCSweepRow
    <2>6. CASE GCEnd \/ GCAbort
      BY <2>6 DEF GCEnd, GCAbort, MaintenanceOver
    <2> QED
      BY <1>3, <2>1, <2>2, <2>3, <2>4, <2>5, <2>6 DEF GC
  <1>4. CASE MaintenanceError
    BY <1>4 DEF MaintenanceError, MaintenanceOver
  <1> QED
    BY <1>1, <1>2, <1>3, <1>4 DEF Maintenance

\* Spec keeps the type invariant: the rows, the objects and the locals of the
\* handlers stay in their types, and no row is ever dated in the future.
THEOREM TypeCorrect == Spec => []TypeOK
  <1>1. TypeOK /\ [Next]_vars => TypeOK'
    <2> SUFFICES ASSUME TypeOK, [Next]_vars PROVE TypeOK'
      OBVIOUS
    <2>1. CASE Next
      BY <2>1, StorageTypeOK, PutTypeOK, CommitTypeOK, AdminTypeOK, MaintenanceTypeOK
         DEF Next
    <2>2. CASE UNCHANGED vars
      BY <2>2 DEF TypeOK, vars, storeVars, blobVars, snapVars, maintVars
    <2> QED
      BY <2>1, <2>2
  <1> QED
    BY InitTypeOK, <1>1, PTL DEF Spec

-----------------------------------------------------------------------------
(* Garbage collection sweeps nothing but garbage.  The inductive invariant  *)
(* says what gcBlobs may rely on while it holds commitMu: no commit is in   *)
(* flight, every row of its backend is still unread or has its hashes in    *)
(* referenced, and what it has left to sweep is old, indexed and outside    *)
(* every row's hashes.                                                      *)

Marked == mpc = "mark" => \A i \in RowsOf(gcOf) : i \in unread \/ snap[i].refs \subseteq referenced

Sweepable(h) ==
    /\ index[gcOf][h] # NoRow /\ index[gcOf][h] <= clock - Grace
    /\ \A i \in RowsOf(gcOf) : h \notin snap[i].refs

GCInv ==
    /\ mpc \in {"mark", "sweep"} => commits = {}
    /\ Marked
    /\ mpc # "sweep" => garbage = {} /\ swept = {}
    /\ garbage \cap swept = {}
    /\ \A h \in garbage \cup swept : Sweepable(h)

LEMMA InitGCInv == Init => GCInv
  BY DEF Init, GCInv, Marked

\* Steps that leave the collector alone, and the rows and the index at most
\* move in its favour.
LEMMA GCInvFrame ==
    ASSUME TypeOK, GCInv,
           UNCHANGED <<mpc, gcOf, unread, referenced, garbage, swept, snap>>,
           snaps' \subseteq snaps,
           mpc \in {"mark", "sweep"} => commits' = {},
           clock' \in Nat, clock <= clock',
           \A h \in Hashes : index[gcOf][h] # NoRow => index'[gcOf][h] = index[gcOf][h]
    PROVE  GCInv'
  <1>1. RowsOf(gcOf)' \subseteq RowsOf(gcOf)
    BY DEF RowsOf
  <1>2. Marked'
    BY <1>1 DEF GCInv, Marked
  <1>3. ASSUME NEW h \in garbage \cup swept PROVE Sweepable(h)'
    <2>1. Sweepable(h) /\ h \in Hashes
      BY DEF GCInv, TypeOK
    <2>2. index'[gcOf][h] = index[gcOf][h]
      BY <2>1 DEF Sweepable
    <2>3. index[gcOf][h] \in Int /\ clock \in Int /\ Grace \in Int
      BY <2>1, ConstantsAssumption DEF TypeOK
    <2>4. index[gcOf][h] <= clock' - Grace
      BY <2>1, <2>3 DEF Sweepable
    <2> QED
      BY <1>1, <2>1, <2>2, <2>4 DEF Sweepable
  <1> QED
    BY <1>2, <1>3 DEF GCInv

LEMMA GCInvOver ==
    ASSUME MaintenanceOver PROVE GCInv'
  BY DEF MaintenanceOver, GCInv, Marked

LEMMA StorageGCInv == TypeOK /\ GCInv /\ Storage => GCInv'
  <1> SUFFICES ASSUME TypeOK, GCInv, Storage PROVE GCInv'
    OBVIOUS
  <1> USE DEF storeVars, blobVars, snapVars, maintVars
  <1>1. ASSUME NEW b \in Backends, SwitchBackend(b) \/ SetApp(b) PROVE GCInv'
    BY <1>1, GCInvFrame DEF SwitchBackend, SetApp, TypeOK, GCInv
  <1>2. CASE Restart
    BY <1>2, GCInvOver DEF Restart
  <1>3. CASE Tick
    BY <1>3, GCInvFrame DEF Tick, TypeOK, GCInv
  <1> QED
    BY <1>1, <1>2, <1>3 DEF Storage

LEMMA PutGCInv ==
    ASSUME TypeOK, GCInv,
           \/ \E c \in Clients, h \in Hashes : PutBegin(c, h)
           \/ \E p \in puts : PutStep(p)
    PROVE  GCInv'
  <1> USE DEF storeVars, blobVars, snapVars, maintVars
  <1>1. ASSUME NEW p \in puts, PutAccept(p) PROVE GCInv'
    <2>1. \A h \in Hashes : index[gcOf][h] # NoRow => index'[gcOf][h] = index[gcOf][h]
      BY <1>1 DEF PutAccept, TypeOK, Uploads
    <2> QED
      BY <1>1, <2>1, GCInvFrame DEF PutAccept, TypeOK, GCInv
  <1>2. CASE UNCHANGED <<index, snapVars, maintVars, storeVars, commits>>
    BY <1>2, GCInvFrame DEF TypeOK, GCInv
  <1> QED
    BY <1>1, <1>2 DEF PutBegin, PutStep, PutStore, PutError, PutLost, PutReject

LEMMA CommitGCInv ==
    ASSUME TypeOK, GCInv,
           \/ \E c \in Clients, i \in SnapIds, j \in Jobs, refs \in SUBSET Hashes :
                 CommitBegin(c, i, j, refs)
           \/ \E k \in commits : CommitStep(k)
    PROVE  GCInv'
  <1> USE DEF storeVars, blobVars, maintVars, snapVars
  <1>1. mpc \notin {"mark", "sweep"}
    BY DEF GCInv, CommitBegin
  <1>2. UNCHANGED maintVars
    BY DEF CommitBegin, CommitStep, CommitStore, CommitError, CommitRow, CommitRowError
  <1> QED
    BY <1>1, <1>2 DEF GCInv, Marked

LEMMA AdminGCInv == TypeOK /\ GCInv /\ AdminStep => GCInv'
  BY GCInvFrame DEF AdminStep, AdminDelete, AdminDeleteRow, TypeOK, GCInv,
                    storeVars, blobVars, maintVars

LEMMA PruneGCInv == TypeOK /\ GCInv /\ (PruneStart \/ Prune) => GCInv'
  <1> SUFFICES ASSUME TypeOK, GCInv, PruneStart \/ Prune PROVE GCInv'
    OBVIOUS
  <1>1. /\ mpc \in {"idle", "prune"} /\ mpc' \in {"prune", "gcwait"}
        /\ UNCHANGED <<garbage, swept>>
    BY DEF PruneStart, Prune, PruneList, PruneManifest, PruneRow, PruneSkip, PruneEnd
  <1> QED
    BY <1>1 DEF GCInv, Marked

LEMMA GCGCInv == TypeOK /\ GCInv /\ GC => GCInv'
  <1> SUFFICES ASSUME TypeOK, GCInv, GC PROVE GCInv'
    OBVIOUS
  <1> USE DEF storeVars, blobVars, snapVars, maintVars
  <1>1. CASE GCLock
    BY <1>1 DEF GCLock, GCInv, Marked, RowsOf
  <1>2. ASSUME NEW i \in SnapIds, GCRead(i) PROVE GCInv'
    BY <1>2 DEF GCRead, GCInv, Marked, RowsOf
  <1>3. CASE GCList
    <2>1. \A h \in garbage' : Sweepable(h)'
      BY <1>3 DEF GCList, GCInv, Marked, Sweepable, RowsOf
    <2> QED
      BY <1>3, <2>1 DEF GCList, GCInv, Marked
  <1>4. ASSUME NEW h \in Hashes, GCSweepObject(h) PROVE GCInv'
    BY <1>4 DEF GCSweepObject, GCInv, Marked, Sweepable, RowsOf
  <1>5. ASSUME NEW h \in Hashes, GCSweepRow(h) PROVE GCInv'
    <2>1. \A g \in garbage : g # h /\ g \in Hashes
      BY <1>5 DEF GCSweepRow, GCInv, TypeOK
    <2>2. \A g \in garbage : index'[gcOf][g] = index[gcOf][g]
      BY <1>5, <2>1 DEF GCSweepRow, TypeOK
    <2> QED
      BY <1>5, <2>2 DEF GCSweepRow, GCInv, Marked, Sweepable, RowsOf
  <1>6. CASE GCEnd \/ GCAbort
    BY <1>6, GCInvOver DEF GCEnd, GCAbort
  <1> QED
    BY <1>1, <1>2, <1>3, <1>4, <1>5, <1>6 DEF GC

LEMMA NextGCInv == TypeOK /\ GCInv /\ [Next]_vars => GCInv'
  <1> SUFFICES ASSUME TypeOK, GCInv, [Next]_vars PROVE GCInv'
    OBVIOUS
  <1>1. CASE Next
    BY <1>1, StorageGCInv, PutGCInv, CommitGCInv, AdminGCInv, PruneGCInv, GCGCInv,
       GCInvOver DEF Next, Maintenance, MaintenanceError
  <1>2. CASE UNCHANGED vars
    BY <1>2 DEF vars, storeVars, blobVars, snapVars, maintVars, GCInv, Marked,
                Sweepable, RowsOf
  <1> QED
    BY <1>1, <1>2

\* What gcBlobs relies on while it holds commitMu holds in every state.
THEOREM GCInvariant == Spec => []GCInv
  BY InitGCInv, NextGCInv, TypeCorrect, PTL DEF Spec

\* One step: a row leaves the index only by GCSweepRow, and then as garbage.
LEMMA SweepStep ==
    ASSUME TypeOK, GCInv, [Next]_vars,
           NEW b \in Backends, NEW h \in Hashes,
           index[b][h] # NoRow, index'[b][h] = NoRow
    PROVE  /\ index[b][h] <= clock - Grace
           /\ \A i \in RowsOf(b) : h \notin snap[i].refs
  <1>1. ASSUME NEW g \in Hashes, GCSweepRow(g)
        PROVE  b = gcOf /\ h = g /\ h \in swept
    BY <1>1 DEF GCSweepRow, TypeOK
  <1>2. \A p \in puts : ~ PutAccept(p)
    BY DEF PutAccept, TypeOK, Uploads
  <1>3. index' # index
    OBVIOUS
  <1>4. \E g \in Hashes : GCSweepRow(g)
    <2> USE DEF storeVars, blobVars, snapVars, maintVars
    <2>1. ~ Storage /\ ~ AdminStep /\ ~ UNCHANGED vars
      BY <1>3 DEF Storage, SwitchBackend, SetApp, Restart, Tick, AdminStep, AdminDelete,
                  AdminDeleteRow, vars
    <2>2. \A c \in Clients, g \in Hashes : ~ PutBegin(c, g)
      BY <1>3 DEF PutBegin
    <2>3. \A p \in puts : ~ PutStep(p)
      BY <1>2, <1>3 DEF PutStep, PutStore, PutError, PutLost, PutReject
    <2>4. \A c \in Clients, i \in SnapIds, j \in Jobs, refs \in SUBSET Hashes :
             ~ CommitBegin(c, i, j, refs)
      BY <1>3 DEF CommitBegin
    <2>5. \A k \in commits : ~ CommitStep(k)
      BY <1>3 DEF CommitStep, CommitStore, CommitError, CommitRow, CommitRowError
    <2>6. ~ PruneStart /\ ~ Prune /\ ~ MaintenanceError
      BY <1>3 DEF PruneStart, Prune, PruneList, PruneManifest, PruneRow, PruneSkip,
                  PruneEnd, MaintenanceError
    <2>7. GC
      BY <2>1, <2>2, <2>3, <2>4, <2>5, <2>6 DEF Next, Maintenance
    <2> QED
      BY <1>3, <2>7 DEF GC, GCLock, GCRead, GCList, GCSweepObject, GCEnd, GCAbort
  <1> QED
    BY <1>1, <1>4 DEF GCInv, Sweepable

\* gcBlobs deletes an index row only past the grace period and while no
\* snapshot of that backend refers to the blob: with any number of uploads,
\* commits, deletions, backend switches and restarts around it.
THEOREM SweepIsSafe == Spec => SweepOnlyGarbage
  <1>1. TypeOK /\ GCInv /\ [Next]_vars =>
          [\A b \in Backends, h \in Hashes :
             index[b][h] # NoRow /\ index'[b][h] = NoRow =>
                 /\ index[b][h] <= clock - Grace
                 /\ \A i \in RowsOf(b) : h \notin snap[i].refs]_vars
    BY SweepStep
  <1> QED
    BY <1>1, TypeCorrect, GCInvariant, PTL DEF Spec, SweepOnlyGarbage

-----------------------------------------------------------------------------
(* Snapshots stay restorable, as long as no two uploads of one hash overlap, *)
(* the backend is switched between requests, and HasBlob does not fail.      *)

Serial == {"put", "switch", "dberror"} \cap Allow = {}

\* An upload in flight works on the active backend, on a hash no row shows and
\* no other upload touches; once accepted by the hash check its object is good.
PutInv ==
    \A p \in puts :
        /\ p.to = active /\ index[active][p.hash] = NoRow
        /\ p.pc = "stored" => object[active][p.hash] = "good"
        /\ \A q \in puts : q.hash = p.hash => q = p

\* A commit in flight has an id that no row, no history and no other commit has.
IdInv ==
    /\ snaps \subseteq ids /\ whole \subseteq ids
    /\ \A k \in commits : k.id \in ids /\ k.id \notin snaps /\ k.id \notin whole
    /\ \A k, l \in commits : k.id = l.id => k = l

\* The backend does not change under a collection.
GCScope == mpc \in {"mark", "sweep"} => gcOf = active

SerialInv == PutInv /\ IdInv /\ GCScope /\ IndexedBlobsVerified /\ SnapshotsRestorable

LEMMA InitSerialInv == Init => SerialInv
  BY DEF Init, SerialInv, PutInv, IdInv, GCScope, IndexedBlobsVerified,
         SnapshotsRestorable

\* The ids.
LEMMA NextIdInv == TypeOK /\ IdInv /\ [Next]_vars => IdInv'
  <1> SUFFICES ASSUME TypeOK, IdInv, [Next]_vars PROVE IdInv'
    OBVIOUS
  <1> USE DEF storeVars, blobVars, snapVars, maintVars
  <1>1. CASE UNCHANGED <<ids, commits, whole>> /\ snaps' \subseteq snaps
    BY <1>1 DEF IdInv
  <1>2. CASE Storage
    BY <1>1, <1>2 DEF Storage, SwitchBackend, SetApp, Restart, Tick, IdInv
  <1>3. ASSUME NEW c \in Clients, NEW i \in SnapIds, NEW j \in Jobs,
               NEW refs \in SUBSET Hashes, CommitBegin(c, i, j, refs)
        PROVE IdInv'
    BY <1>3 DEF CommitBegin, IdInv
  <1>4. ASSUME NEW k \in commits, CommitStep(k) PROVE IdInv'
    <2>1. CASE CommitStore(k)
      <3>1. k \in Commits /\ [k EXCEPT !.pc = "stored"].id = k.id
        BY DEF TypeOK, Commits
      <3> QED
        BY <2>1, <3>1 DEF CommitStore, IdInv
    <2>2. CASE CommitError(k) \/ CommitRowError(k)
      BY <2>2 DEF CommitError, CommitRowError, IdInv
    <2>3. CASE CommitRow(k)
      BY <2>3 DEF CommitRow, IdInv
    <2> QED
      BY <1>4, <2>1, <2>2, <2>3 DEF CommitStep
  <1>5. CASE (\E c \in Clients, h \in Hashes : PutBegin(c, h)) \/ \E p \in puts : PutStep(p)
    BY <1>1, <1>5 DEF PutBegin, PutStep, PutStore, PutError, PutAccept, PutLost, PutReject
  <1>6. CASE AdminStep
    BY <1>1, <1>6 DEF AdminStep, AdminDelete, AdminDeleteRow
  <1>7. CASE Maintenance
    BY <1>1, <1>7 DEF Maintenance, PruneStart, Prune, PruneList, PruneManifest, PruneRow,
       PruneSkip, PruneEnd, GC, GCLock, GCRead, GCList, GCSweepObject, GCSweepRow, GCEnd,
       GCAbort, MaintenanceError
  <1>8. CASE UNCHANGED vars
    BY <1>1, <1>8 DEF vars
  <1> QED
    BY <1>2, <1>3, <1>4, <1>5, <1>6, <1>7, <1>8 DEF Next

\* Steps that leave blobs, uploads and the collector's backend alone and take
\* no manifest that matters keep the rest of the invariant.
LEMMA RestorableFrame ==
    ASSUME SerialInv, IdInv',
           UNCHANGED <<blobVars, snap, whole>>,
           snaps' \subseteq snaps, doomed \subseteq doomed',
           \A i \in (snaps \cap whole) \ doomed' : \A b \in Backends :
               <<b, i>> \in manifest => <<b, i>> \in manifest',
           TypeOK,
           puts' = {} \/ UNCHANGED <<puts, active>>,
           mpc' \in {"mark", "sweep"} => gcOf' = active'
    PROVE  SerialInv'
  <1>1. PutInv'
    BY DEF SerialInv, PutInv, blobVars
  <1>2. SnapshotsRestorable'
    <2> SUFFICES ASSUME NEW i \in (snaps' \cap whole') \ doomed'
                 PROVE  Restorable(i)'
      BY DEF SnapshotsRestorable
    <2>1. i \in (snaps \cap whole) \ doomed /\ snap' = snap /\ i \in SnapIds
      BY DEF TypeOK
    <2>2. snap[i].backend \in Backends
      BY <2>1 DEF TypeOK, Rows
    <2> QED
      BY <2>1, <2>2 DEF SerialInv, SnapshotsRestorable, Restorable, Held, blobVars
  <1>3. IndexedBlobsVerified' /\ GCScope'
    BY DEF SerialInv, IndexedBlobsVerified, GCScope, blobVars
  <1> QED
    BY <1>1, <1>2, <1>3 DEF SerialInv

LEMMA StorageSerialInv == Serial /\ TypeOK /\ SerialInv /\ IdInv' /\ Storage => SerialInv'
  <1> SUFFICES ASSUME Serial, TypeOK, SerialInv, IdInv', Storage PROVE SerialInv'
    OBVIOUS
  <1> USE DEF storeVars, blobVars, snapVars, maintVars
  <1>1. ASSUME NEW b \in Backends, SwitchBackend(b) PROVE SerialInv'
    BY <1>1, RestorableFrame DEF SwitchBackend, Serial, Quiescent
  <1>2. ASSUME NEW b \in Backends, SetApp(b) PROVE SerialInv'
    BY <1>2, RestorableFrame DEF SetApp, SerialInv, GCScope
  <1>3. CASE Restart
    BY <1>3, RestorableFrame DEF Restart, MaintenanceOver
  <1>4. CASE Tick
    BY <1>4, RestorableFrame DEF Tick, SerialInv, GCScope
  <1> QED
    BY <1>1, <1>2, <1>3, <1>4 DEF Storage

LEMMA PutSerialInv ==
    ASSUME Serial, TypeOK, SerialInv, IdInv',
           \/ \E c \in Clients, h \in Hashes : PutBegin(c, h)
           \/ \E p \in puts : PutStep(p)
    PROVE  SerialInv'
  <1> USE DEF storeVars, blobVars, snapVars, maintVars
  <1>0. GCScope'
    BY DEF SerialInv, GCScope, PutBegin, PutStep, PutStore, PutError, PutAccept, PutLost,
           PutReject
  <1>1. ASSUME NEW c \in Clients, NEW h \in Hashes, PutBegin(c, h) PROVE SerialInv'
    <2>1. PutInv'
      BY <1>1 DEF PutBegin, Serial, SerialInv, PutInv
    <2>2. IndexedBlobsVerified' /\ SnapshotsRestorable'
      BY <1>1 DEF PutBegin, SerialInv, IndexedBlobsVerified, SnapshotsRestorable,
                  Restorable, Held
    <2> QED
      BY <1>0, <2>1, <2>2 DEF SerialInv
  <1>2. ASSUME NEW p \in puts, PutStep(p) PROVE SerialInv'
    <2> DEFINE b == p.to  h == p.hash
    <2>1. /\ p \in Uploads /\ h \in Hashes /\ b \in Backends
          /\ b = active /\ index[b][h] = NoRow
          /\ \A pc \in {"writing", "stored", "rejected"} :
                 /\ [p EXCEPT !.pc = pc].hash = h /\ [p EXCEPT !.pc = pc].to = b
                 /\ [p EXCEPT !.pc = pc].pc = pc
      BY DEF TypeOK, Uploads, SerialInv, PutInv
    <2>2. /\ UNCHANGED <<active, snaps, snap, manifest, whole, doomed>>
          /\ \A d \in Backends, g \in Hashes : <<d, g>> # <<b, h>> =>
                 index'[d][g] = index[d][g] /\ object'[d][g] = object[d][g]
      <3>1. CASE PutError(p) \/ PutLost(p)
        BY <3>1 DEF PutError, PutLost
      <3>2. ASSUME NEW c \in {"good", "bad"}, PutStore(p, c)
            PROVE  object' = [object EXCEPT ![b][h] = c] /\ index' = index
        BY <3>2 DEF PutStore
      <3>3. CASE \E c \in {"good", "bad"} : PutStore(p, c)
        BY <2>1, <3>2, <3>3 DEF PutStore, TypeOK
      <3>4. CASE PutReject(p)
        BY <2>1, <3>4 DEF PutReject, TypeOK
      <3>5. CASE PutAccept(p)
        BY <2>1, <3>5 DEF PutAccept, TypeOK
      <3> QED
        BY <1>2, <3>1, <3>3, <3>4, <3>5 DEF PutStep
    \* A restorable snapshot never needs the hash: it has no row yet.
    <2>3. SnapshotsRestorable'
      <3> SUFFICES ASSUME NEW i \in (snaps \cap whole) \ doomed PROVE Restorable(i)'
        BY <2>2 DEF SnapshotsRestorable
      <3>1. Restorable(i) /\ snap[i].backend \in Backends /\ snap[i].refs \subseteq Hashes
        BY DEF SerialInv, SnapshotsRestorable, TypeOK, Rows
      <3>2. \A g \in snap[i].refs : <<snap[i].backend, g>> # <<b, h>>
        BY <2>1, <3>1 DEF Restorable, Held
      <3> QED
        BY <2>2, <3>1, <3>2 DEF Restorable, Held
    <2>4. IndexedBlobsVerified'
      <3>1. index'[b][h] # NoRow => object'[b][h] # "bad"
        BY <1>2, <2>1 DEF PutStep, PutStore, PutError, PutAccept, PutLost, PutReject,
                          TypeOK, SerialInv, PutInv
      <3> QED
        BY <2>2, <3>1 DEF SerialInv, IndexedBlobsVerified
    <2>5. PutInv'
      <3>1. \A q \in puts \ {p} : q.hash # h /\ q \in Uploads
        BY DEF SerialInv, PutInv, TypeOK
      <3>2. \A q \in puts \ {p} :
               /\ q.to = active' /\ index'[active'][q.hash] = NoRow
               /\ q.pc = "stored" => object'[active'][q.hash] = "good"
        BY <2>1, <2>2, <3>1 DEF SerialInv, PutInv, TypeOK, Uploads
      <3>3. CASE puts' = puts \ {p}
        BY <3>2, <3>3 DEF SerialInv, PutInv
      <3>4. ASSUME NEW pc \in {"writing", "stored", "rejected"}, Becomes(p, pc),
                   UNCHANGED index, pc = "stored" => object'[b][h] = "good"
            PROVE  PutInv'
        <4> DEFINE n == [p EXCEPT !.pc = pc]
        <4>1. n.hash = h /\ n.to = b /\ n.pc = pc
          BY <2>1
        <4>2. puts' = (puts \ {p}) \cup {n}
          BY <3>4 DEF Becomes
        <4>3. \A q \in puts \ {p} : \A r \in puts \ {p} : r.hash = q.hash => r = q
          BY DEF PutInv, SerialInv
        <4>4. active' = b /\ index'[b][h] = NoRow
          BY <2>1, <2>2, <3>4
        <4> HIDE DEF n, b, h
        <4> QED
          BY <3>1, <3>2, <3>4, <4>1, <4>2, <4>3, <4>4 DEF PutInv
      <3>5. CASE PutError(p)
        BY <3>4, <3>5 DEF PutError
      <3>6. ASSUME NEW c \in {"good", "bad"}, PutStore(p, c) PROVE PutInv'
        <4>1. UNCHANGED index /\ object'[b][h] = c
          BY <3>6, <2>1 DEF PutStore, TypeOK
        <4> QED
          BY <3>4, <3>6, <4>1 DEF PutStore
      <3> QED
        BY <1>2, <3>3, <3>5, <3>6 DEF PutStep, PutAccept, PutLost, PutReject
    <2> QED
      BY <1>0, <2>3, <2>4, <2>5 DEF SerialInv
  <1> QED
    BY <1>1, <1>2

LEMMA CommitSerialInv ==
    ASSUME TypeOK, SerialInv, IdInv',
           \/ \E c \in Clients, i \in SnapIds, j \in Jobs, refs \in SUBSET Hashes :
                 CommitBegin(c, i, j, refs)
           \/ \E k \in commits : CommitStep(k)
    PROVE  SerialInv'
  <1> USE DEF storeVars, blobVars, snapVars, maintVars
  <1>1. ASSUME NEW c \in Clients, NEW i \in SnapIds, NEW j \in Jobs,
               NEW refs \in SUBSET Hashes, CommitBegin(c, i, j, refs)
        PROVE SerialInv'
    BY <1>1, RestorableFrame DEF CommitBegin, SerialInv, GCScope
  <1>2. ASSUME NEW k \in commits, CommitStore(k) \/ CommitError(k) \/ CommitRowError(k)
        PROVE SerialInv'
    <2>1. k.id \notin snaps
      BY DEF SerialInv, IdInv
    <2> QED
      BY <1>2, <2>1, RestorableFrame
         DEF CommitStore, CommitError, CommitRowError, SerialInv, GCScope
  <1>3. ASSUME NEW k \in commits, CommitRow(k) PROVE SerialInv'
    <2>1. k.id \in SnapIds /\ k.id \notin snaps /\ k.id \notin whole
      BY DEF SerialInv, IdInv, TypeOK, Commits
    <2>2. SnapshotsRestorable'
      <3> SUFFICES ASSUME NEW i \in (snaps' \cap whole') \ doomed' PROVE Restorable(i)'
        BY DEF SnapshotsRestorable
      <3>1. CASE i = k.id
        <4>1. /\ <<active, i>> \in manifest /\ \A h \in k.refs : Held(active, h)
              /\ snap'[i].backend = active /\ snap'[i].refs = k.refs
          BY <1>3, <2>1, <3>1 DEF CommitRow, TypeOK
        <4> QED
          BY <1>3, <4>1 DEF CommitRow, Restorable, Held
      <3>2. CASE i # k.id
        <4>1. i \in (snaps \cap whole) \ doomed /\ snap'[i] = snap[i]
          BY <1>3, <2>1, <3>2 DEF CommitRow, TypeOK
        <4> QED
          BY <1>3, <4>1 DEF CommitRow, Restorable, Held, SerialInv, SnapshotsRestorable
      <3> QED
        BY <3>1, <3>2
    <2>3. PutInv' /\ IndexedBlobsVerified' /\ GCScope'
      BY <1>3 DEF CommitRow, SerialInv, PutInv, IndexedBlobsVerified, GCScope
    <2> QED
      BY <2>2, <2>3 DEF SerialInv
  <1> QED
    BY <1>1, <1>2, <1>3 DEF CommitStep

LEMMA AdminSerialInv == TypeOK /\ SerialInv /\ IdInv' /\ AdminStep => SerialInv'
  BY RestorableFrame DEF AdminStep, AdminDelete, AdminDeleteRow, SerialInv, GCScope,
                         storeVars, blobVars, snapVars, maintVars

\* Retention dooms what it deletes; the collector sweeps from the active backend
\* only what GCInv shows to be outside every snapshot.
LEMMA MaintenanceSerialInv ==
    ASSUME TypeOK, GCInv, SerialInv, IdInv', Maintenance PROVE SerialInv'
  <1> USE DEF storeVars, blobVars, snapVars, maintVars
  <1>1. CASE PruneStart \/ Prune
    BY <1>1, RestorableFrame DEF PruneStart, Prune, PruneList, PruneManifest, PruneRow,
       PruneSkip, PruneEnd
  <1>2. CASE GCLock \/ (\E i \in SnapIds : GCRead(i)) \/ GCList
    BY <1>2, RestorableFrame DEF GCLock, GCRead, GCList, SerialInv, GCScope
  <1>3. CASE GCEnd \/ GCAbort \/ MaintenanceError
    BY <1>3, RestorableFrame DEF GCEnd, GCAbort, MaintenanceError, MaintenanceOver
  <1>4. ASSUME NEW h \in Hashes, GCSweepObject(h) \/ GCSweepRow(h) PROVE SerialInv'
    <2>1. gcOf = active /\ Sweepable(h)
      BY <1>4 DEF GCSweepObject, GCSweepRow, GCInv, SerialInv, GCScope
    <2>2. /\ UNCHANGED <<active, puts, snaps, snap, manifest, whole, doomed>>
          /\ \A d \in Backends, g \in Hashes : <<d, g>> # <<active, h>> =>
                 index'[d][g] = index[d][g] /\ object'[d][g] = object[d][g]
          /\ index'[active][h] # NoRow => object'[active][h] # "bad"
      BY <1>4, <2>1 DEF GCSweepObject, GCSweepRow, TypeOK
    <2>3. SnapshotsRestorable'
      <3> SUFFICES ASSUME NEW i \in (snaps \cap whole) \ doomed PROVE Restorable(i)'
        BY <2>2 DEF SnapshotsRestorable
      <3>1. Restorable(i) /\ snap[i].backend \in Backends /\ snap[i].refs \subseteq Hashes
        BY DEF SerialInv, SnapshotsRestorable, TypeOK, Rows
      <3>2. \A g \in snap[i].refs : <<snap[i].backend, g>> # <<active, h>>
        BY <2>1 DEF Sweepable, RowsOf
      <3> QED
        BY <2>2, <3>1, <3>2 DEF Restorable, Held
    <2>4. PutInv'
      <3>1. \A p \in puts : p.hash # h /\ p.hash \in Hashes
        BY <2>1 DEF SerialInv, PutInv, Sweepable, TypeOK, Uploads
      <3> QED
        BY <2>2, <3>1 DEF SerialInv, PutInv, TypeOK
    <2>5. IndexedBlobsVerified'
      BY <2>2 DEF SerialInv, IndexedBlobsVerified
    <2>6. GCScope'
      BY <1>4, <2>1 DEF GCSweepObject, GCSweepRow, GCScope
    <2> QED
      BY <2>3, <2>4, <2>5, <2>6 DEF SerialInv
  <1> QED
    BY <1>1, <1>2, <1>3, <1>4 DEF Maintenance, GC

LEMMA NextSerialInv == Serial /\ TypeOK /\ GCInv /\ SerialInv /\ [Next]_vars => SerialInv'
  <1> SUFFICES ASSUME Serial, TypeOK, GCInv, SerialInv, [Next]_vars PROVE SerialInv'
    OBVIOUS
  <1>1. IdInv'
    BY NextIdInv DEF SerialInv
  <1>2. CASE Next
    BY <1>1, <1>2, StorageSerialInv, PutSerialInv, CommitSerialInv, AdminSerialInv,
       MaintenanceSerialInv DEF Next
  <1>3. CASE UNCHANGED vars
    BY <1>1, <1>3, RestorableFrame DEF vars, storeVars, blobVars, snapVars, maintVars,
       SerialInv, GCScope
  <1> QED
    BY <1>2, <1>3

\* The inductive invariant of the two theorems below holds in every state.
THEOREM SerialInvariant == ASSUME Serial PROVE Spec => []SerialInv
  BY InitSerialInv, NextSerialInv, TypeCorrect, GCInvariant, PTL DEF Spec

\* With uploads of one hash one at a time, the backend switched between
\* requests and a working HasBlob, a snapshot complete at its commit stays
\* restorable until it is deleted: for any number of clients, jobs, blobs,
\* snapshots and backends, through crashes, retention and collections.
THEOREM RestorableUntilDeleted ==
    ASSUME Serial PROVE Spec => []SnapshotsRestorable
  <1>1. SerialInv => SnapshotsRestorable
    BY DEF SerialInv
  <1> QED
    BY <1>1, SerialInvariant, PTL

\* Under the same conditions no content that failed handleBlobPut's hash check
\* is ever behind an index row.
THEOREM IndexShowsVerifiedBlobs ==
    ASSUME Serial PROVE Spec => []IndexedBlobsVerified
  <1>1. SerialInv => IndexedBlobsVerified
    BY DEF SerialInv
  <1> QED
    BY <1>1, SerialInvariant, PTL

-----------------------------------------------------------------------------
(* Retention deletes nothing that is to be kept.  A listed victim stays     *)
(* condemned until it is deleted: rows are never rewritten, so that commits *)
(* add successors and deletions, which leave the columns in snap, take none *)
(* away; and the clock only makes it older.                                 *)

\* The ids that have had a row.
Recorded == {k \in SnapIds : snap[k].row > 0}

\* An id is given a row once.
RowsAreNew ==
    /\ \A k \in commits : k.id \in ids /\ snap[k.id].row = 0
    /\ \A k, l \in commits : k.id = l.id => k = l
    /\ \A i \in SnapIds \ ids : snap[i].row = 0
    /\ \A i \in snaps \cup victims : snap[i].row > 0

\* Retention may delete i.
Condemned(i) ==
    /\ KeepLast[snap[i].job] > 0 \/ KeepDays[snap[i].job] > 0
    /\ Cardinality(Successors(i)) >= 1 /\ Cardinality(Successors(i)) >= KeepLast[snap[i].job]
    /\ KeepDays[snap[i].job] > 0 => snap[i].at < clock - KeepDays[snap[i].job]

RetentionInv ==
    /\ IsFiniteSet(Recorded) /\ RowsAreNew
    /\ \A i \in victims : Condemned(i)

\* The fields of a row.
LEMMA RowFields ==
    ASSUME TypeOK, NEW i \in SnapIds
    PROVE  snap[i].row \in Nat /\ snap[i].at \in Nat /\ snap[i].job \in Jobs /\ snap[i].row <= rowid
  BY DEF TypeOK, Rows

\* Successors have rows, so there are finitely many.
LEMMA SuccessorsFinite ==
    ASSUME TypeOK, IsFiniteSet(Recorded), NEW i \in SnapIds
    PROVE  /\ Successors(i) \subseteq Recorded /\ IsFiniteSet(Successors(i))
           /\ Cardinality(Successors(i)) \in Nat
  <1>1. Successors(i) \subseteq Recorded
    BY RowFields DEF Successors, Recorded
  <1> QED
    BY <1>1, FS_Subset, FS_CardinalityType

\* A condemned snapshot stays so while its row, the successors' rows and the
\* clock only move on.
LEMMA CondemnedKept ==
    ASSUME TypeOK, IsFiniteSet(Recorded), IsFiniteSet(Recorded'), TypeOK',
           NEW i \in SnapIds, Condemned(i), snap'[i] = snap[i], clock' >= clock,
           Successors(i) \subseteq Successors(i)'
    PROVE  Condemned(i)'
  <1>1. /\ IsFiniteSet(Successors(i)') /\ Cardinality(Successors(i)') \in Nat
        /\ Cardinality(Successors(i)) \in Nat
    <2>1. \A m \in SnapIds : snap'[m].row \in Nat
      BY DEF TypeOK, Rows
    <2>2. Successors(i)' \subseteq Recorded'
      BY <2>1 DEF Successors, Recorded
    <2> QED
      BY <2>2, SuccessorsFinite, FS_Subset, FS_CardinalityType
  <1>2. Cardinality(Successors(i)) <= Cardinality(Successors(i)')
    BY <1>1, FS_Subset
  <1>3. snap[i].job \in Jobs /\ snap[i].at \in Nat /\ clock \in Nat /\ clock' \in Nat
    BY RowFields DEF TypeOK
  <1>4. KeepLast[snap[i].job] \in Nat /\ KeepDays[snap[i].job] \in Nat
    BY <1>3, ConstantsAssumption
  <1>5. KeepDays[snap[i].job] > 0 => snap[i].at < clock' - KeepDays[snap[i].job]
    BY <1>3, <1>4 DEF Condemned
  <1>6. Cardinality(Successors(i)') >= 1 /\ Cardinality(Successors(i)') >= KeepLast[snap[i].job]
    BY <1>1, <1>2, <1>4 DEF Condemned
  <1> QED
    BY <1>5, <1>6 DEF Condemned

\* Steps that write no row and list no victim.
LEMMA RetentionFrame ==
    ASSUME TypeOK, TypeOK', RetentionInv, UNCHANGED snap, clock' >= clock,
           snaps' \subseteq snaps, victims' \subseteq victims, ids \subseteq ids',
           \A k \in commits' : k \in commits \/ (k.id \in ids' /\ snap[k.id].row = 0),
           \A k, l \in commits' : k.id = l.id => k = l
    PROVE  RetentionInv'
  <1>1. IsFiniteSet(Recorded')
    BY DEF RetentionInv, Recorded
  <1>2. RowsAreNew'
    BY DEF RetentionInv, RowsAreNew
  <1>3. ASSUME NEW i \in victims' PROVE Condemned(i)'
    <2>1. i \in SnapIds /\ Condemned(i)
      BY DEF RetentionInv, TypeOK
    <2>2. Successors(i)' = Successors(i)
      BY DEF Successors
    <2> QED
      BY <1>1, <2>1, <2>2, CondemnedKept DEF RetentionInv
  <1> QED
    BY <1>1, <1>2, <1>3 DEF RetentionInv

\* CreateSnapshot adds a row, newer than all.
LEMMA CommitRowRetention ==
    ASSUME TypeOK, TypeOK', RetentionInv, NEW k \in commits, CommitRow(k)
    PROVE  RetentionInv'
  <1>1. k.id \in SnapIds /\ k.id \in ids /\ snap[k.id].row = 0
    BY DEF TypeOK, Commits, RetentionInv, RowsAreNew
  <1>2. /\ snap' = [snap EXCEPT ![k.id] = Row(k)] /\ snaps' = snaps \cup {k.id} /\ commits' = commits \ {k}
        /\ UNCHANGED <<clock, ids, victims>> /\ rowid' = rowid + 1
    BY DEF CommitRow, storeVars, maintVars
  <1>3. Row(k).row = rowid + 1 /\ rowid \in Nat
    BY DEF TypeOK
  <1>4. snap'[k.id] = Row(k) /\ \A i \in SnapIds \ {k.id} : snap'[i] = snap[i]
    BY <1>1, <1>2 DEF TypeOK
  <1>5. Recorded' = Recorded \cup {k.id}
    BY <1>1, <1>3, <1>4 DEF Recorded
  <1>6. IsFiniteSet(Recorded')
    BY <1>5, FS_AddElement DEF RetentionInv
  <1>7. RowsAreNew'
    <2>1. \A l \in commits' : l \in commits /\ l.id # k.id /\ l.id \in SnapIds
      BY <1>2 DEF RetentionInv, RowsAreNew, TypeOK, Commits
    <2>2. \A l \in commits' : l.id \in ids' /\ snap'[l.id].row = 0
      BY <1>2, <1>4, <2>1 DEF RetentionInv, RowsAreNew
    <2>3. \A l, m \in commits' : l.id = m.id => l = m
      BY <2>1 DEF RetentionInv, RowsAreNew
    <2>4. \A i \in SnapIds \ ids' : snap'[i].row = 0
      BY <1>1, <1>2, <1>4 DEF RetentionInv, RowsAreNew
    <2>5. ASSUME NEW i \in snaps' \cup victims' PROVE snap'[i].row > 0
      <3>1. CASE i = k.id
        BY <1>3, <1>4, <3>1
      <3>2. CASE i # k.id
        BY <1>2, <1>4, <3>2 DEF RetentionInv, RowsAreNew, TypeOK
      <3> QED
        BY <3>1, <3>2
    <2> QED
      BY <2>2, <2>3, <2>4, <2>5 DEF RowsAreNew
  <1>8. ASSUME NEW i \in victims' PROVE Condemned(i)'
    <2>1. i \in SnapIds /\ Condemned(i) /\ snap[i].row > 0 /\ i # k.id
      BY <1>1, <1>2 DEF RetentionInv, RowsAreNew, TypeOK
    <2>2. snap'[i] = snap[i]
      BY <1>4, <2>1
    <2>3. ASSUME NEW m \in Successors(i) PROVE m \in Successors(i)'
      <3>1. m \in SnapIds /\ snap[m].row > snap[i].row
        BY DEF Successors
      <3>2. m # k.id
        BY <1>1, <2>1, <3>1, RowFields
      <3>3. snap'[m] = snap[m]
        BY <1>4, <3>1, <3>2
      <3> QED
        BY <2>2, <3>3 DEF Successors
    <2>4. clock' >= clock
      BY <1>2 DEF TypeOK
    <2> QED
      BY <1>6, <2>1, <2>2, <2>3, <2>4, CondemnedKept DEF RetentionInv
  <1> QED
    BY <1>6, <1>7, <1>8 DEF RetentionInv

\* pruneRetention lists the victims of a job.
LEMMA PruneListRetention ==
    ASSUME TypeOK, RetentionInv, NEW j \in Jobs, PruneList(j)
    PROVE  RetentionInv'
  <1>1. UNCHANGED <<snap, snaps, ids, commits, clock>>
    BY DEF PruneList, snapVars, storeVars
  <1>2. ASSUME NEW i \in victims'
        PROVE  /\ i \in snaps /\ i \in SnapIds /\ snap[i].backend = active /\ snap[i].job = j /\ ~ Kept(i, j)
               /\ KeepLast[j] # 0 \/ KeepDays[j] # 0
    BY <1>2 DEF PruneList, RowsOf, TypeOK
  <1>3. ASSUME NEW i \in victims' PROVE Condemned(i)
    <2>1. /\ i \in SnapIds /\ snap[i].backend = active /\ snap[i].job = j /\ ~ Kept(i, j)
          /\ KeepLast[j] # 0 \/ KeepDays[j] # 0
      BY <1>2, <1>3
    <2> DEFINE R == {k \in RowsOf(active) : snap[k].job = snap[i].job /\ snap[k].row > snap[i].row}
    <2>2. R \subseteq Successors(i)
      BY <2>1 DEF RowsOf, Successors, TypeOK
    <2>3. Rank(i) = Cardinality(R)
      BY DEF Rank
    <2> HIDE DEF R
    <2>4. IsFiniteSet(Successors(i)) /\ Cardinality(Successors(i)) \in Nat
      BY <2>1, SuccessorsFinite DEF RetentionInv
    <2>5. Rank(i) \in Nat /\ Rank(i) <= Cardinality(Successors(i))
      BY <2>2, <2>3, <2>4, FS_Subset, FS_CardinalityType
    <2>6. KeepLast[j] \in Nat /\ KeepDays[j] \in Nat /\ clock \in Nat /\ snap[i].at \in Nat
      BY <2>1, RowFields, ConstantsAssumption DEF TypeOK
    <2>7. /\ Rank(i) # 0 /\ ~ (KeepLast[j] > 0 /\ Rank(i) < KeepLast[j])
          /\ ~ (KeepDays[j] > 0 /\ snap[i].at >= clock - KeepDays[j])
      BY <2>1 DEF Kept
    <2>8. Cardinality(Successors(i)) >= 1 /\ Cardinality(Successors(i)) >= KeepLast[j]
      BY <2>4, <2>5, <2>6, <2>7
    <2>9. KeepDays[j] > 0 => snap[i].at < clock - KeepDays[j]
      BY <2>6, <2>7
    <2>10. KeepLast[j] > 0 \/ KeepDays[j] > 0
      BY <2>1, <2>6
    <2> QED
      BY <2>1, <2>8, <2>9, <2>10 DEF Condemned
  <1>4. \A i \in victims' : Condemned(i)'
    BY <1>1, <1>3 DEF Condemned, Successors
  <1>5. RowsAreNew'
    BY <1>1, <1>2 DEF RetentionInv, RowsAreNew
  <1>6. IsFiniteSet(Recorded')
    BY <1>1 DEF RetentionInv, Recorded
  <1> QED
    BY <1>4, <1>5, <1>6 DEF RetentionInv

LEMMA CommitRetention ==
    ASSUME TypeOK, TypeOK', RetentionInv,
           \/ \E c \in Clients, i \in SnapIds, j \in Jobs, refs \in SUBSET Hashes :
                 CommitBegin(c, i, j, refs)
           \/ \E k \in commits : CommitStep(k)
    PROVE  RetentionInv'
  <1> USE DEF storeVars, maintVars, snapVars
  <1>0. clock >= clock
    BY DEF TypeOK
  <1>1. ASSUME NEW c \in Clients, NEW i \in SnapIds, NEW j \in Jobs,
               NEW refs \in SUBSET Hashes, CommitBegin(c, i, j, refs)
        PROVE  RetentionInv'
    <2>1. UNCHANGED <<snap, snaps, victims, clock>> /\ ids' = ids \cup {i} /\ i \notin ids
      BY <1>1 DEF CommitBegin
    <2> DEFINE new == [by |-> c, id |-> i, job |-> j, refs |-> refs, to |-> active, pc |-> "writing"]
    <2>2. PICK k : commits' = commits \cup {k} /\ k.id = i
      <3>1. commits' = commits \cup {new} /\ new.id = i
        BY <1>1 DEF CommitBegin
      <3> QED
        BY <3>1
    <2>3. snap[i].row = 0 /\ \A l \in commits : l.id # i
      BY <2>1 DEF RetentionInv, RowsAreNew
    <2>4. \A l, m \in commits' : l.id = m.id => l = m
      BY <2>2, <2>3 DEF RetentionInv, RowsAreNew
    <2> QED
      BY <1>0, <2>1, <2>2, <2>3, <2>4, RetentionFrame
  <1>2. ASSUME NEW k \in commits, CommitStore(k) PROVE RetentionInv'
    <2>1. UNCHANGED <<snap, snaps, victims, clock, ids>>
      BY <1>2 DEF CommitStore
    <2>2. PICK l : commits' = (commits \ {k}) \cup {l} /\ l.id = k.id
      <3>1. k \in Commits
        BY DEF TypeOK
      <3>2. [k EXCEPT !.pc = "stored"].id = k.id
        BY <3>1 DEF Commits
      <3> QED
        BY <1>2, <3>2 DEF CommitStore
    <2>3. k.id \in ids /\ snap[k.id].row = 0
      BY DEF RetentionInv, RowsAreNew
    <2>4. \A m, n \in commits' : m.id = n.id => m = n
      BY <2>2 DEF RetentionInv, RowsAreNew
    <2> QED
      BY <1>0, <2>1, <2>2, <2>3, <2>4, RetentionFrame
  <1>3. ASSUME NEW k \in commits, CommitError(k) \/ CommitRowError(k) PROVE RetentionInv'
    <2>1. UNCHANGED <<snap, snaps, victims, clock, ids>> /\ commits' = commits \ {k}
      BY <1>3 DEF CommitError, CommitRowError
    <2>2. \A m, n \in commits' : m.id = n.id => m = n
      BY <2>1 DEF RetentionInv, RowsAreNew
    <2> QED
      BY <1>0, <2>1, <2>2, RetentionFrame
  <1> QED
    BY <1>1, <1>2, <1>3, CommitRowRetention DEF CommitStep

LEMMA NextRetention ==
    ASSUME TypeOK, TypeOK', RetentionInv, [Next]_vars PROVE RetentionInv'
  <1> USE DEF storeVars, blobVars, maintVars, snapVars
  <1>0. clock \in Nat /\ (\A k, l \in commits : k.id = l.id => k = l)
    BY DEF TypeOK, RetentionInv, RowsAreNew
  <1>1. CASE /\ UNCHANGED <<snap, ids>> /\ commits' \subseteq commits /\ clock' \in {clock, clock + 1}
             /\ snaps' \subseteq snaps /\ victims' \subseteq victims
    <2>1. clock' >= clock
      BY <1>0, <1>1
    <2> QED
      BY <1>0, <1>1, <2>1, RetentionFrame
  <1>2. CASE Storage
    BY <1>1, <1>2 DEF Storage, SwitchBackend, SetApp, Restart, Tick, MaintenanceOver
  <1>3. CASE (\E c \in Clients, h \in Hashes : PutBegin(c, h)) \/ (\E p \in puts : PutStep(p))
    BY <1>1, <1>3 DEF PutBegin, PutStep, PutStore, PutError, PutAccept, PutLost, PutReject
  <1>4. CASE AdminStep
    BY <1>1, <1>4 DEF AdminStep, AdminDelete, AdminDeleteRow
  <1>5. CASE PruneStart \/ GC \/ MaintenanceError
    BY <1>1, <1>5 DEF PruneStart, GC, GCLock, GCRead, GCList, GCSweepObject, GCSweepRow, GCEnd,
                      GCAbort, MaintenanceError, MaintenanceOver
  <1>6. CASE Prune
    <2>1. CASE \E i \in SnapIds : PruneManifest(i) \/ PruneRow(i) \/ PruneSkip(i)
      BY <1>1, <2>1 DEF PruneManifest, PruneRow, PruneSkip
    <2>2. CASE PruneEnd
      BY <1>1, <2>2 DEF PruneEnd
    <2> QED
      BY <1>6, <2>1, <2>2, PruneListRetention DEF Prune
  <1>7. CASE UNCHANGED vars
    BY <1>1, <1>7 DEF vars
  <1> QED
    BY <1>2, <1>3, <1>4, <1>5, <1>6, <1>7, CommitRetention DEF Next, Maintenance

\* Every listed victim stays one that retention may delete until it is
\* deleted, and a snapshot id is given a row once.
THEOREM RetentionInvariant == Spec => []RetentionInv
  <1>1. Init => RetentionInv
    <2> SUFFICES ASSUME Init PROVE RetentionInv
      OBVIOUS
    <2>1. \A i \in SnapIds : snap[i].row = 0
      BY DEF Init
    <2>2. Recorded = {}
      BY <2>1 DEF Recorded
    <2> QED
      BY <2>1, <2>2, FS_EmptySet DEF Init, RetentionInv, RowsAreNew
  <1>2. TypeOK /\ TypeOK' /\ RetentionInv /\ [Next]_vars => RetentionInv'
    BY NextRetention
  <1> QED
    BY <1>1, <1>2, TypeCorrect, PTL DEF Spec

\* pruneRetention: what it deletes has at least KeepLast successors of its job
\* and backend, one in any case, and is older than KeepDays; also when commits
\* and deletions on request run between its list and its deletions, and when
\* the backend is switched.
THEOREM RetentionIsSafe == Spec => RetentionKeeps
  <1>1. RetentionInv /\ [Next]_vars =>
          [\A i \in pruned' \ pruned :
             LET j == snap[i].job
                 n == Cardinality(Successors(i))
             IN  /\ KeepLast[j] > 0 \/ KeepDays[j] > 0
                 /\ n >= 1 /\ n >= KeepLast[j]
                 /\ KeepDays[j] > 0 => snap[i].at < clock - KeepDays[j]]_vars
    <2> SUFFICES ASSUME RetentionInv, Next, NEW i \in pruned' \ pruned PROVE Condemned(i)
      BY DEF Condemned
    <2>1. i \in victims
      BY DEF Next, Storage, SwitchBackend, SetApp, Restart, Tick, PutBegin, PutStep, PutStore, PutError,
             PutAccept, PutLost, PutReject, CommitBegin, CommitStep, CommitStore, CommitError, CommitRow,
             CommitRowError, AdminStep, AdminDelete, AdminDeleteRow, Maintenance, PruneStart, Prune,
             PruneList, PruneManifest, PruneRow, PruneSkip, PruneEnd, GC, GCLock, GCRead, GCList,
             GCSweepObject, GCSweepRow, GCEnd, GCAbort, MaintenanceError, MaintenanceOver, maintVars
    <2> QED
      BY <2>1 DEF RetentionInv
  <1> QED
    BY <1>1, RetentionInvariant, PTL DEF Spec, RetentionKeeps
=============================================================================
