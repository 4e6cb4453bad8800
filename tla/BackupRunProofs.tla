---------------------------- MODULE BackupRunProofs ----------------------------
(***************************************************************************)
(* What is proved of the agents' backup runs, for any number of agents,    *)
(* files, contents, backends, jobs and snapshots.  The runs use the store  *)
(* as Repository lets every client use it, so all that is proved of        *)
(* Repository holds here too; on top of it, a run reported as success      *)
(* covers its scan, and snapshots are complete when they are committed.    *)
(***************************************************************************)
EXTENDS BackupRun, RepositoryProofs

RunsTyped ==
    /\ file \in [Agents -> [Files -> Hashes \cup {None}]]
    /\ rpc \in [Agents -> {"idle", "check", "upload", "commit", "committing"}]
    /\ entries \in [Agents -> [Files -> Hashes \cup {None}]]
    /\ missing \in [Agents -> SUBSET Hashes] /\ ups \in [Agents -> SUBSET UploadCalls]
    /\ status \in [Agents -> {"none", "running", "success", "partial", "error", "cancelled"}]
    /\ skipped \in [Agents -> BOOLEAN] /\ failed \in [Agents -> BOOLEAN]
    /\ scanned \in [Agents -> SUBSET Files]
    /\ had \in [Agents -> [Files -> SUBSET Hashes]]
    /\ snapOf \in [Agents -> SnapIds \cup {None}]

LEMMA HashTyped == ASSUME RunsTyped, NEW a \in Agents PROVE Hash(a) \in SUBSET Hashes
  BY DEF RunsTyped, Hash

LEMMA EndedTyped == ASSUME RunsTyped, NEW a \in Agents,
                           NEW st \in {"success", "partial", "error", "cancelled"}, Ended(a, st)
                    PROVE  RunsTyped'
  BY DEF RunsTyped, Ended

\* An uploadFile call that is sent, or tried again with the content it read.
LEMMA CallTyped ==
    ASSUME RunsTyped, NEW a \in Agents, NEW u \in ups[a]
    PROVE  /\ u \in UploadCalls /\ u.file \in Files /\ u.got \in Hashes /\ u.expect \in Hashes
           /\ file[a][u.file] # None => [u EXCEPT !.got = file[a][u.file], !.pc = "sent"] \in UploadCalls
           /\ [u EXCEPT !.expect = u.got, !.try = 2, !.pc = "open"] \in UploadCalls
  <1>1. u \in UploadCalls
    BY DEF RunsTyped
  <1>2. u.file \in Files /\ u.got \in Hashes /\ u.expect \in Hashes
    BY <1>1 DEF UploadCalls
  <1>3. file[a][u.file] \in Hashes \cup {None}
    BY <1>2 DEF RunsTyped
  <1>4. file[a][u.file] # None => [u EXCEPT !.got = file[a][u.file], !.pc = "sent"] \in UploadCalls
    BY <1>1, <1>3 DEF UploadCalls
  <1>5. 2 \in 1..2
    OBVIOUS
  <1>6. [u EXCEPT !.expect = u.got, !.try = 2, !.pc = "open"] \in UploadCalls
    BY <1>1, <1>2, <1>5 DEF UploadCalls
  <1> QED
    BY <1>1, <1>2, <1>4, <1>6

LEMMA UploadTyped == ASSUME RunsTyped, NEW a \in Agents, UploadStep(a) PROVE RunsTyped'
  <1>1. ASSUME NEW h \in Hashes, NEW f \in Files, UploadStart(a, h, f) PROVE RunsTyped'
    <2> DEFINE u == [file |-> f, hash |-> h, expect |-> h, got |-> h, try |-> 1, pc |-> "open"]
    <2>1. u \in UploadCalls
      BY DEF UploadCalls
    <2>2. ups' = [ups EXCEPT ![a] = @ \cup {u}]
      BY <1>1 DEF UploadStart
    <2> HIDE DEF u
    <2>3. ups' \in [Agents -> SUBSET UploadCalls]
      BY <2>1, <2>2 DEF RunsTyped
    <2> QED
      BY <1>1, <2>3 DEF UploadStart, RunsTyped
  <1>2. ASSUME NEW u \in ups[a], Return(a, u) PROVE ups' \in [Agents -> SUBSET UploadCalls]
    BY <1>2 DEF Return, RunsTyped
  <1>3. ASSUME NEW u \in ups[a], NEW v \in UploadCalls, Continue(a, u, v)
        PROVE  ups' \in [Agents -> SUBSET UploadCalls]
    BY <1>3 DEF Continue, RunsTyped
  <1>4. ASSUME NEW u \in ups[a], UploadVanished(a, u) \/ UploadBroken(a, u) PROVE RunsTyped'
    BY <1>2, <1>4 DEF UploadVanished, UploadBroken, RunsTyped
  <1>5. ASSUME NEW u \in ups[a], UploadHit(a, u) PROVE RunsTyped'
    BY <1>2, <1>5, CallTyped DEF UploadHit, RunsTyped
  <1>6. ASSUME NEW u \in ups[a], UploadSend(a, u) PROVE RunsTyped'
    BY <1>3, <1>6, CallTyped DEF UploadSend, RunsTyped
  <1>7. ASSUME NEW u \in ups[a], NEW p \in puts, UploadStore(a, u, p) PROVE RunsTyped'
    BY <1>7 DEF UploadStore, RunsTyped, agentVars, runVars
  <1>8. ASSUME NEW u \in ups[a], NEW p \in puts, UploadOk(a, u, p) PROVE RunsTyped'
    BY <1>2, <1>8, CallTyped DEF UploadOk, RunsTyped
  <1>9. ASSUME NEW u \in ups[a], NEW p \in puts, UploadRefused(a, u, p) PROVE RunsTyped'
    BY <1>2, <1>3, <1>9, CallTyped DEF UploadRefused, RunsTyped
  <1> QED
    BY <1>1, <1>4, <1>5, <1>6, <1>7, <1>8, <1>9 DEF UploadStep

LEMMA RunsTypedNext == RunsTyped /\ [BackupNext]_allVars => RunsTyped'
  <1> SUFFICES ASSUME RunsTyped, [BackupNext]_allVars PROVE RunsTyped'
    OBVIOUS
  <1>1. ASSUME UNCHANGED agentVars PROVE RunsTyped'
    BY <1>1 DEF agentVars, runVars, RunsTyped
  <1>2. ASSUME NEW a \in Agents, NEW f \in Files, NEW c \in Hashes \cup {None}, Edit(a, f, c)
        PROVE  RunsTyped'
    <2>1. file' \in [Agents -> [Files -> Hashes \cup {None}]]
      BY <1>2 DEF Edit, RunsTyped
    <2>2. had' \in [Agents -> [Files -> SUBSET Hashes]]
      <3>1. {c} \ {None} \subseteq Hashes
        OBVIOUS
      <3> QED
        BY <1>2, <3>1 DEF Edit, RunsTyped
    <2> QED
      BY <1>2, <2>1, <2>2 DEF Edit, RunsTyped, runVars
  <1>3. ASSUME NEW a \in Agents, NEW bad \in SUBSET Files, Scan(a, bad) PROVE RunsTyped'
    BY <1>3 DEF Scan, RunsTyped
  <1>4. ASSUME NEW a \in Agents, Check(a) \/ FinalCheck(a) PROVE RunsTyped'
    <2>1. CASE Check(a)
      BY <2>1 DEF Check, Hash, RunsTyped
    <2>2. CASE FinalCheck(a)
      <3>1. skipped' \in [Agents -> BOOLEAN]
        BY <2>2 DEF FinalCheck, CountLost, RunsTyped
      <3> QED
        BY <2>2, <3>1 DEF FinalCheck, RunsTyped
    <2> QED
      BY <1>4, <2>1, <2>2
  <1>5. ASSUME NEW a \in Agents, NEW i \in SnapIds, NEW j \in Jobs, Commit(a, i, j) PROVE RunsTyped'
    BY <1>5 DEF Commit, RunsTyped
  <1>6. ASSUME NEW a \in Agents, NEW k \in commits, Committed(a, k) \/ CommitFailed(a, k)
        PROVE  RunsTyped'
    BY <1>6, EndedTyped DEF Committed, CommitFailed
  <1>7. ASSUME NEW a \in Agents, UploadsFailed(a) \/ RequestBroken(a) \/ Cancel(a) PROVE RunsTyped'
    BY <1>7, EndedTyped DEF UploadsFailed, RequestBroken, Cancel
  <1> QED
    BY <1>1, <1>2, <1>3, <1>4, <1>5, <1>6, <1>7, UploadTyped
       DEF BackupNext, RunStep, OrphanPut, OrphanCommit, ServerAlone, allVars

\* What the store may do in a step of the two together, but for CommitBegin.
RequestStep ==
    \/ UNCHANGED vars
    \/ \E c \in Clients, h \in Hashes : PutBegin(c, h)
    \/ \E p \in puts : PutStep(p)
    \/ \E k \in commits : CommitStep(k)

StoreStep == RequestStep \/ Storage \/ AdminStep \/ Maintenance

LEMMA RunsStepStore ==
    ASSUME RunsTyped, [BackupNext]_allVars
    PROVE  ServerAlone \/ RequestStep \/ \E a \in Agents, i \in SnapIds, j \in Jobs : Commit(a, i, j)
  <1>1. ASSUME NEW a \in Agents, NEW u \in ups[a],
               \/ UploadSend(a, u)
               \/ \E p \in puts : UploadStore(a, u, p) \/ UploadOk(a, u, p) \/ UploadRefused(a, u, p)
        PROVE  RequestStep
    <2>1. CASE UploadSend(a, u)
      <3>1. <<a, u.file>> \in Clients /\ u.expect \in Hashes
        BY CallTyped, BackupAssumption
      <3>2. PutBegin(<<a, u.file>>, u.expect)
        BY <2>1 DEF UploadSend
      <3> QED
        BY <3>1, <3>2 DEF RequestStep
    <2>2. ASSUME NEW p \in puts, UploadStore(a, u, p) \/ UploadOk(a, u, p) \/ UploadRefused(a, u, p)
          PROVE  RequestStep
      BY <2>2 DEF UploadStore, UploadOk, UploadRefused, PutStep, RequestStep
    <2> QED
      BY <1>1, <2>1, <2>2
  <1>2. ASSUME NEW a \in Agents, NEW k \in commits,
               Committed(a, k) \/ CommitFailed(a, k) \/ CommitStore(k)
        PROVE  RequestStep
    BY <1>2 DEF Committed, CommitFailed, CommitStep, RequestStep
  <1>3. ASSUME NEW p \in puts, OrphanPut(p) PROVE RequestStep
    BY <1>3 DEF OrphanPut, RequestStep
  <1>4. ASSUME NEW k \in commits, OrphanCommit(k) PROVE RequestStep
    BY <1>4 DEF OrphanCommit, RequestStep
  <1> QED
    BY <1>1, <1>2, <1>3, <1>4 DEF BackupNext, RunStep, UploadStep, Edit, Scan, Check, UploadStart,
       UploadVanished, UploadHit, UploadBroken, FinalCheck, UploadsFailed, RequestBroken, Cancel,
       allVars, RequestStep

LEMMA ServerAloneSteps == ServerAlone => StoreStep
  BY DEF ServerAlone, Storage, StoreStep

\* Every step of a run is, for the store, a step of some client.
LEMMA RunsUseStore == RunsTyped /\ [BackupNext]_allVars => [Next]_vars
  <1> SUFFICES ASSUME RunsTyped, [BackupNext]_allVars PROVE [Next]_vars
    OBVIOUS
  <1>1. CASE StoreStep
    BY <1>1 DEF StoreStep, RequestStep, Next
  <1>2. ASSUME NEW a \in Agents, NEW i \in SnapIds, NEW j \in Jobs, Commit(a, i, j) PROVE Next
    <2>1. Hash(a) \in SUBSET Hashes /\ a \in Clients
      BY HashTyped, BackupAssumption
    <2> QED
      BY <1>2, <2>1 DEF Commit, Next
  <1> QED
    BY <1>1, <1>2, RunsStepStore, ServerAloneSteps DEF StoreStep

\* The variables of the runs keep their types.
THEOREM RunsAreTyped == BackupSpec => []RunsTyped
  <1>1. BackupInit => RunsTyped
    BY DEF BackupInit, RunsTyped
  <1> QED
    BY <1>1, RunsTypedNext, PTL DEF BackupSpec

\* The agents' runs are clients of the store as Repository describes them, so
\* every theorem about Repository's Spec holds of the two together.
THEOREM RunsImplementClients == BackupSpec => Spec
  <1>1. BackupInit => Init
    BY DEF BackupInit
  <1> QED
    BY <1>1, RunsUseStore, RunsAreTyped, PTL DEF BackupSpec, Spec

\* Types of the store and of the runs together.
THEOREM BackupTypes == BackupSpec => []BackupTypeOK
  <1>1. TypeOK /\ RunsTyped => BackupTypeOK
    BY DEF RunsTyped, BackupTypeOK
  <1> QED
    BY <1>1, TypeCorrect, RunsImplementClients, RunsAreTyped, PTL

-----------------------------------------------------------------------------
(* A successful run covers its scan.  While a run is on, each entry is a    *)
(* content its file had during the run or is dropped, and a dropped one is  *)
(* counted; an uploadFile call has read such a content; and the commit that *)
(* the run waits for carries the hashes of the entries, which nothing       *)
(* changes any more.                                                        *)

Covers(a) ==
    /\ rpc[a] # "upload" => ups[a] = {}
    /\ rpc[a] # "idle" =>
          /\ \A f \in Files : entries[a][f] \in had[a][f] \cup {None}
          /\ \A f \in Files : file[a][f] \in had[a][f] \cup {None}
          /\ ~ skipped[a] => \A f \in scanned[a] : entries[a][f] # None
    /\ \A u \in ups[a] : u.got \in had[a][u.file]
    /\ rpc[a] = "committing" => \A k \in commits : k.by = a /\ k.id = snapOf[a] => k.refs = Hash(a)

CoverInv == \A a \in Agents : Covers(a)

\* What a step leaves as it was: the run of b; the requests to commit.
Apart(b) ==
    /\ file'[b] = file[b] /\ had'[b] = had[b] /\ rpc'[b] = rpc[b] /\ entries'[b] = entries[b]
    /\ skipped'[b] = skipped[b] /\ ups'[b] = ups[b] /\ scanned'[b] = scanned[b] /\ snapOf'[b] = snapOf[b]

Others(a) == \A b \in Agents : b # a => Apart(b)

SameCommits(b) ==
    \A k \in commits' : k.by = b => \E l \in commits : l.by = b /\ l.id = k.id /\ l.refs = k.refs

LEMMA ApartCovers == ASSUME NEW b \in Agents, Covers(b), Apart(b), SameCommits(b) PROVE Covers(b)'
  BY DEF Covers, Apart, SameCommits, Hash

\* Only CommitBegin makes a request to commit.
LEMMA CommitsPersist == ASSUME TypeOK, StoreStep, NEW b PROVE SameCommits(b)
  <1> USE DEF storeVars, blobVars, snapVars, maintVars
  <1>1. ASSUME commits' \subseteq commits PROVE SameCommits(b)
    BY <1>1 DEF SameCommits
  <1>2. ASSUME NEW k \in commits, CommitStep(k) PROVE SameCommits(b)
    <2>1. CASE CommitStore(k)
      <3> DEFINE s == [k EXCEPT !.pc = "stored"]
      <3>1. k \in Commits /\ s.by = k.by /\ s.id = k.id /\ s.refs = k.refs
        BY DEF TypeOK, Commits
      <3>2. commits' = (commits \ {k}) \cup {s}
        BY <2>1 DEF CommitStore
      <3> HIDE DEF s
      <3> QED
        BY <3>1, <3>2 DEF SameCommits
    <2> QED
      BY <1>1, <1>2, <2>1 DEF CommitStep, CommitError, CommitRow, CommitRowError
  <1>3. CASE Storage
    BY <1>1, <1>3 DEF Storage, SwitchBackend, SetApp, Restart, Tick
  <1>4. CASE (\E c \in Clients, h \in Hashes : PutBegin(c, h)) \/ \E p \in puts : PutStep(p)
    BY <1>1, <1>4 DEF PutBegin, PutStep, PutStore, PutError, PutAccept, PutLost, PutReject
  <1>5. CASE AdminStep
    BY <1>1, <1>5 DEF AdminStep, AdminDelete, AdminDeleteRow
  <1>6. CASE Maintenance
    BY <1>1, <1>6 DEF Maintenance, PruneStart, Prune, PruneList, PruneManifest, PruneRow,
       PruneSkip, PruneEnd, GC, GCLock, GCRead, GCList, GCSweepObject, GCSweepRow, GCEnd,
       GCAbort, MaintenanceError
  <1>7. CASE UNCHANGED vars
    BY <1>1, <1>7 DEF vars
  <1> QED
    BY <1>2, <1>3, <1>4, <1>5, <1>6, <1>7 DEF StoreStep, RequestStep

\* A run that is over has nothing left to cover.
LEMMA EndedCovers ==
    ASSUME RunsTyped, NEW a \in Agents, NEW st, Ended(a, st)
    PROVE  Covers(a)' /\ Others(a)
  BY DEF RunsTyped, Ended, Covers, Others, Apart

\* uploadFile calls: what they write into an entry was read during the run.
LEMMA UploadCovers ==
    ASSUME RunsTyped, NEW a \in Agents, Covers(a), UploadStep(a), SameCommits(a)
    PROVE  Covers(a)' /\ Others(a)
  <1>1. ASSUME NEW h \in Hashes, NEW f \in Files, UploadStart(a, h, f) PROVE Covers(a)' /\ Others(a)
    <2> DEFINE u == [file |-> f, hash |-> h, expect |-> h, got |-> h, try |-> 1, pc |-> "open"]
    <2>1. u.file = f /\ u.got = h /\ h # None
      BY BackupAssumption
    <2>2. ups' = [ups EXCEPT ![a] = @ \cup {u}]
      BY <1>1 DEF UploadStart
    <2> HIDE DEF u
    <2>3. ups'[a] = ups[a] \cup {u} /\ \A b \in Agents : b # a => ups'[b] = ups[b]
      BY <2>2 DEF RunsTyped
    <2>4. rpc[a] = "upload" /\ h \in had[a][f]
      BY <1>1, <2>1 DEF UploadStart, Covers
    <2> QED
      BY <1>1, <2>1, <2>3, <2>4 DEF UploadStart, Covers, Others, Apart
  <1>2. ASSUME NEW u \in ups[a], Return(a, u)
        PROVE  ups'[a] = ups[a] \ {u} /\ \A b \in Agents : b # a => ups'[b] = ups[b]
    BY <1>2 DEF Return, RunsTyped
  <1>3. ASSUME NEW u \in ups[a], NEW v, Continue(a, u, v)
        PROVE  ups'[a] = (ups[a] \ {u}) \cup {v} /\ \A b \in Agents : b # a => ups'[b] = ups[b]
    BY <1>3 DEF Continue, RunsTyped
  <1>4. \A u \in ups[a] : rpc[a] = "upload" /\ u \in UploadCalls /\ u.file \in Files
                         /\ u.got \in had[a][u.file] /\ u.got # None
    BY CallTyped, BackupAssumption DEF Covers
  <1>5. ASSUME NEW u \in ups[a], NEW c, Return(a, u), entries' = [entries EXCEPT ![a][u.file] = c],
               c \in had[a][u.file], c # None,
               UNCHANGED <<file, had, rpc, skipped, scanned, snapOf>>
        PROVE  Covers(a)' /\ Others(a)
    <2>1. /\ entries'[a][u.file] = c /\ \A f \in Files : f # u.file => entries'[a][f] = entries[a][f]
          /\ \A b \in Agents : b # a => entries'[b] = entries[b]
      BY <1>4, <1>5 DEF RunsTyped
    <2> QED
      BY <1>2, <1>4, <1>5, <2>1 DEF Covers, Others, Apart
  <1>6. ASSUME NEW u \in ups[a], UploadVanished(a, u) \/ UploadBroken(a, u)
        PROVE  Covers(a)' /\ Others(a)
    BY <1>2, <1>4, <1>6 DEF UploadVanished, UploadBroken, Covers, Others, Apart
  <1>7. ASSUME NEW u \in ups[a], UploadHit(a, u) PROVE Covers(a)' /\ Others(a)
    BY <1>4, <1>5, <1>7 DEF UploadHit, Covers
  <1>8. ASSUME NEW u \in ups[a], UploadSend(a, u) PROVE Covers(a)' /\ Others(a)
    <2> DEFINE v == [u EXCEPT !.got = file[a][u.file], !.pc = "sent"]
    <2>1. v.file = u.file /\ v.got = file[a][u.file]
      BY <1>4 DEF UploadCalls
    <2>2. Continue(a, u, v) /\ file[a][u.file] # None
      BY <1>8 DEF UploadSend
    <2> HIDE DEF v
    <2> QED
      BY <1>3, <1>4, <1>8, <2>1, <2>2 DEF UploadSend, Covers, Others, Apart
  <1>9. ASSUME NEW u \in ups[a], NEW p \in puts, UploadStore(a, u, p) PROVE Covers(a)' /\ Others(a)
    BY <1>4, <1>9 DEF UploadStore, agentVars, runVars, Covers, Others, Apart
  <1>10. ASSUME NEW u \in ups[a], NEW p \in puts, UploadOk(a, u, p) PROVE Covers(a)' /\ Others(a)
    BY <1>4, <1>5, <1>10 DEF UploadOk
  <1>11. ASSUME NEW u \in ups[a], NEW p \in puts, UploadRefused(a, u, p) PROVE Covers(a)' /\ Others(a)
    <2> DEFINE v == [u EXCEPT !.expect = u.got, !.try = 2, !.pc = "open"]
    <2>1. v.file = u.file /\ v.got = u.got
      BY <1>4 DEF UploadCalls
    <2>2. Continue(a, u, v) \/ Return(a, u)
      BY <1>11 DEF UploadRefused
    <2> HIDE DEF v
    <2> QED
      BY <1>2, <1>3, <1>4, <1>11, <2>1, <2>2 DEF UploadRefused, Covers, Others, Apart
  <1> QED
    BY <1>1, <1>6, <1>7, <1>8, <1>9, <1>10, <1>11 DEF UploadStep

LEMMA CoverNext == TypeOK /\ RunsTyped /\ CoverInv /\ [BackupNext]_allVars => CoverInv'
  <1> SUFFICES ASSUME TypeOK, RunsTyped, CoverInv, [BackupNext]_allVars PROVE CoverInv'
    OBVIOUS
  <1>1. CASE StoreStep
    <2> USE CommitsPersist, <1>1
    <2>1. \A b \in Agents : Covers(b) /\ SameCommits(b)
      BY DEF CoverInv
    <2>2. ASSUME NEW a \in Agents, Covers(a)', Others(a) PROVE CoverInv'
      BY <2>1, <2>2, ApartCovers DEF Others, CoverInv
    <2>3. ASSUME UNCHANGED agentVars PROVE CoverInv'
      <3>1. \A b \in Agents : Apart(b)
        BY <2>3 DEF agentVars, runVars, Apart
      <3> QED
        BY <2>1, <3>1, ApartCovers DEF CoverInv
    <2>4. ASSUME NEW a \in Agents, NEW f \in Files, NEW c \in Hashes \cup {None}, Edit(a, f, c)
          PROVE  CoverInv'
      <3>1. /\ file'[a][f] = c /\ \A g \in Files : g # f => file'[a][g] = file[a][g]
            /\ \A b \in Agents : b # a => file'[b] = file[b] /\ had'[b] = had[b]
            /\ rpc[a] # "idle" => /\ had'[a][f] = had[a][f] \cup ({c} \ {None})
                                 /\ \A g \in Files : g # f => had'[a][g] = had[a][g]
            /\ UNCHANGED <<rpc, entries, skipped, ups, scanned, snapOf>>
            /\ \A g \in Files : had[a][g] \subseteq had'[a][g]
        BY <2>4 DEF Edit, RunsTyped, Busy, runVars
      <3>2. \A u \in ups[a] : u.file \in Files
        BY CallTyped
      <3>3. Covers(a)'
        BY <2>1, <3>1, <3>2 DEF Covers, SameCommits, Hash
      <3> QED
        BY <2>2, <3>1, <3>3 DEF Others, Apart
    <2>5. ASSUME NEW a \in Agents, NEW bad \in SUBSET Files, Scan(a, bad) PROVE CoverInv'
      <3>1. /\ rpc[a] = "idle" /\ rpc'[a] = "check" /\ UNCHANGED <<file, ups>>
            /\ entries'[a] = [f \in Files |-> IF f \in bad THEN None ELSE file[a][f]]
            /\ skipped'[a] = (bad # {}) /\ scanned'[a] = {f \in Files : file[a][f] # None}
            /\ had'[a] = [f \in Files |-> {file[a][f]} \ {None}]
            /\ Others(a)
        BY <2>5 DEF Scan, Busy, RunsTyped, Others, Apart
      <3>2. ups[a] = {}
        BY <2>1, <3>1 DEF Covers
      <3>3. Covers(a)'
        BY <3>1, <3>2 DEF Covers
      <3> QED
        BY <2>2, <3>1, <3>3
    <2>6. ASSUME NEW a \in Agents, Check(a) PROVE CoverInv'
      <3>1. /\ rpc[a] = "check" /\ rpc'[a] = "upload" /\ Others(a)
            /\ UNCHANGED <<file, had, entries, skipped, ups, scanned, snapOf>>
        BY <2>6 DEF Check, RunsTyped, Others, Apart
      <3>2. Covers(a)'
        BY <2>1, <3>1 DEF Covers
      <3> QED
        BY <2>2, <3>1, <3>2
    <2>7. ASSUME NEW a \in Agents, FinalCheck(a) PROVE CoverInv'
      <3>1. /\ rpc[a] = "upload" /\ rpc'[a] = "commit" /\ ups[a] = {} /\ Others(a)
            /\ UNCHANGED <<file, had, ups, scanned, snapOf>>
            /\ entries'[a] = [f \in Files |-> IF f \in Lost(a) THEN None ELSE entries[a][f]]
            /\ ~ skipped'[a] => ~ skipped[a] /\ Lost(a) = {}
        BY <2>7 DEF FinalCheck, CountLost, RunsTyped, Others, Apart
      <3>2. /\ scanned[a] \subseteq Files
            /\ \A f \in Files : entries'[a][f] \in {entries[a][f], None}
            /\ ~ skipped'[a] => \A f \in Files : entries'[a][f] = entries[a][f]
        BY <3>1 DEF RunsTyped
      <3>3. Covers(a)'
        BY <2>1, <3>1, <3>2 DEF Covers
      <3> QED
        BY <2>2, <3>1, <3>3
    <2>8. ASSUME NEW a \in Agents, NEW st, Ended(a, st) PROVE CoverInv'
      BY <2>2, <2>8, EndedCovers
    <2>9. ASSUME NEW a \in Agents, UploadStep(a) PROVE CoverInv'
      BY <2>1, <2>2, <2>9, UploadCovers
    <2>10. ASSUME NEW a \in Agents, RunStep(a) PROVE CoverInv'
      <3>1. ASSUME NEW i \in SnapIds, NEW j \in Jobs, Commit(a, i, j) PROVE CoverInv'
        <4>1. CommitBegin(a, i, j, Hash(a))
          BY <3>1 DEF Commit
        <4> DEFINE k == [by |-> a, id |-> i, job |-> j, refs |-> Hash(a), to |-> active, pc |-> "writing"]
        <4>2. k \in commits' /\ k.by = a /\ \A l \in commits : l.by # a
          BY <4>1 DEF CommitBegin
        <4> HIDE DEF k
        <4> QED
          BY <2>1, <4>2 DEF SameCommits
      <3> QED
        BY <2>3, <2>6, <2>7, <2>8, <2>9, <2>10, <3>1 DEF RunStep, Committed, CommitFailed, UploadsFailed,
           RequestBroken
    <2> QED
      BY <2>3, <2>4, <2>5, <2>8, <2>10 DEF BackupNext, Cancel, OrphanPut, OrphanCommit,
         ServerAlone, allVars
  <1>2. ASSUME NEW a \in Agents, NEW i \in SnapIds, NEW j \in Jobs, Commit(a, i, j) PROVE CoverInv'
    <2> DEFINE k == [by |-> a, id |-> i, job |-> j, refs |-> Hash(a), to |-> active, pc |-> "writing"]
    <2>1. /\ \A l \in commits : l.by # a
          /\ commits' = commits \cup {k} /\ k.by = a /\ k.refs = Hash(a)
      BY <1>2 DEF Commit, CommitBegin
    <2>2. /\ rpc[a] = "commit" /\ rpc'[a] = "committing" /\ Others(a)
          /\ UNCHANGED <<file, had, entries, skipped, ups, scanned>>
      BY <1>2 DEF Commit, RunsTyped, Others, Apart
    <2> HIDE DEF k
    <2>3. Covers(a)'
      BY <2>1, <2>2 DEF CoverInv, Covers, Hash
    <2>4. \A b \in Agents : b # a => SameCommits(b)
      BY <2>1 DEF SameCommits
    <2> QED
      BY <2>2, <2>3, <2>4, ApartCovers DEF Others, CoverInv
  <1> QED
    BY <1>1, <1>2, RunsStepStore, ServerAloneSteps DEF StoreStep

\* What a run has to commit is what its scan found, in every state.
THEOREM CoverInvariant == BackupSpec => []CoverInv
  <1>1. BackupInit => CoverInv
    BY DEF BackupInit, CoverInv, Covers
  <1>2. BackupSpec => []TypeOK
    BY TypeCorrect, RunsImplementClients, PTL
  <1> QED
    BY <1>1, <1>2, CoverNext, RunsAreTyped, PTL DEF BackupSpec

\* runBackup reports success only for a run that committed every file its scan
\* found, with a content that the file had during the run: whatever changed,
\* was shared, refused or retried meanwhile, and whatever the environment of
\* the store may do.
THEOREM SuccessIsComplete == BackupSpec => SuccessCoversScan
  <1>1. ASSUME TypeOK, RunsTyped, CoverInv, [BackupNext]_allVars
        PROVE  [\A a \in Agents : status[a] = "running" /\ status'[a] = "success" =>
                  /\ \A f \in scanned[a] : entries[a][f] \in had[a][f]
                  /\ snapOf[a] \in snaps' /\ snap'[snapOf[a]].refs = Hash(a)]_allVars
    <2> SUFFICES ASSUME BackupNext, NEW a \in Agents, status[a] = "running", status'[a] = "success"
                 PROVE  /\ \A f \in scanned[a] : entries[a][f] \in had[a][f]
                        /\ snapOf[a] \in snaps' /\ snap'[snapOf[a]].refs = Hash(a)
      BY <1>1
    <2>1. ASSUME NEW b \in Agents, NEW st, Ended(b, st) PROVE b = a /\ st = "success"
      BY <1>1, <2>1 DEF Ended, RunsTyped
    <2>2. \E k \in commits : Committed(a, k)
      <3>1. ASSUME UNCHANGED status PROVE FALSE
        BY <3>1
      <3>2. ASSUME NEW b \in Agents, NEW bad \in SUBSET Files, Scan(b, bad) PROVE FALSE
        BY <1>1, <3>2 DEF Scan, RunsTyped
      <3>3. ASSUME NEW b \in Agents, NEW k \in commits, Committed(b, k) PROVE b = a
        BY <2>1, <3>3 DEF Committed
      <3>4. ASSUME NEW b \in Agents,
                   UploadsFailed(b) \/ RequestBroken(b) \/ Cancel(b) \/ \E k \in commits : CommitFailed(b, k)
            PROVE  FALSE
        <4>1. Ended(b, "error") \/ Ended(b, "cancelled")
          BY <3>4 DEF UploadsFailed, RequestBroken, Cancel, CommitFailed
        <4> QED
          BY <2>1, <4>1
      <3>5. ASSUME NEW b \in Agents, UploadStep(b) PROVE FALSE
        BY <3>1, <3>5 DEF UploadStep, UploadStart, UploadVanished, UploadHit, UploadSend, UploadBroken,
           UploadStore, UploadOk, UploadRefused, agentVars, runVars
      <3>6. ASSUME UNCHANGED agentVars PROVE FALSE
        BY <3>1, <3>6 DEF agentVars, runVars
      <3>7. ASSUME NEW b \in Agents, RunStep(b) PROVE \E k \in commits : Committed(a, k)
        BY <3>1, <3>3, <3>4, <3>5, <3>6, <3>7 DEF RunStep, Check, FinalCheck, Commit
      <3> QED
        BY <3>1, <3>2, <3>4, <3>6, <3>7 DEF BackupNext, Edit, OrphanPut, OrphanCommit, ServerAlone,
           runVars
    <2>3. PICK k \in commits : Committed(a, k)
      BY <2>2
    <2>4. rpc[a] = "committing" /\ k.by = a /\ k.id = snapOf[a] /\ CommitRow(k)
      BY <2>3 DEF Committed
    <2>5. ~ skipped[a]
      <3>1. Ended(a, IF skipped[a] THEN "partial" ELSE "success")
        BY <2>3 DEF Committed
      <3>2. (IF skipped[a] THEN "partial" ELSE "success") = "success"
        BY <2>1, <3>1
      <3> QED
        BY <3>2
    <2>6. \A f \in scanned[a] : f \in Files
      BY <1>1 DEF RunsTyped
    <2>7. \A f \in scanned[a] : entries[a][f] \in had[a][f]
      BY <1>1, <2>4, <2>5, <2>6 DEF CoverInv, Covers
    <2>8. k.refs = Hash(a)
      BY <1>1, <2>4 DEF CoverInv, Covers
    <2>9. k.id \in snaps' /\ snap'[k.id].refs = k.refs
      <3>1. k.id \in SnapIds /\ snap \in [SnapIds -> Rows]
        BY <1>1 DEF TypeOK, Commits
      <3> QED
        BY <2>4, <3>1 DEF CommitRow, Row
    <2> QED
      BY <2>4, <2>7, <2>8, <2>9
  <1>2. BackupSpec => []TypeOK
    BY TypeCorrect, RunsImplementClients, PTL
  <1> QED
    BY <1>1, <1>2, CoverInvariant, RunsAreTyped, PTL DEF BackupSpec, SuccessCoversScan

-----------------------------------------------------------------------------
(* Snapshots are complete when they are committed, if nothing on the server *)
(* is in the way of a running backup: no collection and no switch of the    *)
(* backend meanwhile, no two uploads of one hash at a time, no restart and  *)
(* no error that leaves a collection half done (Allow is empty).            *)

\* A row of the index is good, but for the blob whose object was just swept.
IndexGood ==
    \A b \in Backends, h \in Hashes :
        index[b][h] # NoRow => object[b][h] = "good" \/ (mpc = "sweep" /\ b = gcOf /\ h \in swept)

\* A request to commit is for the active backend, names indexed hashes only,
\* and keeps the manifest it stored.
Commitable(k) ==
    /\ k.to = active
    /\ \A h \in k.refs : index[active][h] # NoRow
    /\ k.pc = "stored" => <<active, k.id>> \in manifest

WholeInv ==
    /\ \A a \in Agents : rpc[a] # "idle" => mpc = "idle"
    /\ \A a \in Agents : rpc[a] = "commit" => \A h \in Hash(a) : index[active][h] # NoRow
    /\ \A k \in commits : Commitable(k)
    /\ IndexGood /\ CommittedWhole
    /\ \A g, h \in swept : g = h

StoreInv == TypeOK /\ GCInv /\ SerialInv

IndexKept == \A h \in Hashes : index[active][h] # NoRow => index'[active][h] # NoRow

\* The part of WholeInv that is about the store.
WholeStore ==
    (\A k \in commits : Commitable(k)) /\ IndexGood /\ CommittedWhole /\ (\A g, h \in swept : g = h)

LEMMA StoreWhole ==
    ASSUME Allow = {}, StoreInv, SerialInv', WholeStore, StoreStep
    PROVE  /\ WholeStore'
           /\ RequestStep => UNCHANGED <<mpc, active>> /\ IndexKept
  <1> USE DEF storeVars, blobVars, snapVars, maintVars
  <1>0. TypeOK /\ GCInv /\ PutInv /\ IdInv /\ GCScope /\ IdInv'
    BY DEF StoreInv, SerialInv
  <1>k. \A k \in commits : k \in Commits /\ k.id \in SnapIds /\ k.refs \subseteq Hashes
    BY <1>0 DEF TypeOK, Commits
  <1>1. ASSUME UNCHANGED <<index, object, manifest, snaps, whole, commits, active, mpc, gcOf, swept>>
        PROVE  WholeStore' /\ UNCHANGED <<mpc, active>> /\ IndexKept
    BY <1>1 DEF WholeStore, Commitable, IndexGood, CommittedWhole, IndexKept
  <1>2. ASSUME UNCHANGED vars PROVE WholeStore' /\ UNCHANGED <<mpc, active>> /\ IndexKept
    BY <1>1, <1>2 DEF vars
  <1>3. ASSUME Storage PROVE WholeStore'
    <2>1. ASSUME NEW b \in Backends, SwitchBackend(b) PROVE WholeStore'
      BY <2>1 DEF SwitchBackend, Quiescent, WholeStore, IndexGood, CommittedWhole
    <2> QED
      BY <1>1, <1>3, <2>1 DEF Storage, SetApp, Restart, Tick
  <1>4. ASSUME AdminStep PROVE WholeStore'
    <2>1. ASSUME NEW i \in SnapIds, AdminDelete(i) PROVE WholeStore' /\ UNCHANGED <<mpc, active>> /\ IndexKept
      <3>1. \A k \in commits : k.id # i
        BY <1>0, <2>1 DEF IdInv, AdminDelete
      <3> QED
        BY <2>1, <3>1 DEF AdminDelete, WholeStore, Commitable, IndexGood, CommittedWhole, IndexKept
    <2>2. ASSUME NEW i \in SnapIds, AdminDeleteRow(i) PROVE WholeStore' /\ UNCHANGED <<mpc, active>> /\ IndexKept
      BY <2>2 DEF AdminDeleteRow, WholeStore, Commitable, IndexGood, CommittedWhole, IndexKept
    <2> QED
      BY <1>4, <2>1, <2>2 DEF AdminStep
  <1>5. ASSUME NEW c \in Clients, NEW h \in Hashes, PutBegin(c, h) PROVE WholeStore' /\ UNCHANGED <<mpc, active>> /\ IndexKept
    BY <1>1, <1>5 DEF PutBegin
  <1>6. ASSUME NEW p \in puts, PutStep(p) PROVE WholeStore' /\ UNCHANGED <<mpc, active>> /\ IndexKept
    <2>0. /\ p.hash \in Hashes /\ p.to = active /\ index[active][p.hash] = NoRow /\ active \in Backends
          /\ index \in [Backends -> [Hashes -> {NoRow} \cup 0..clock]] /\ clock \in Nat
          /\ object \in [Backends -> [Hashes -> {"none", "good", "bad"}]]
          /\ p.pc = "stored" => object[active][p.hash] = "good"
      BY <1>0 DEF TypeOK, Uploads, PutInv
    <2>1. ASSUME NEW c, object' = [object EXCEPT ![active][p.hash] = c],
                 UNCHANGED <<index, manifest, snaps, whole, commits, active, mpc, gcOf, swept>>
          PROVE  WholeStore' /\ UNCHANGED <<mpc, active>> /\ IndexKept
      BY <2>0, <2>1 DEF WholeStore, Commitable, IndexGood, CommittedWhole, IndexKept
    <2>2. CASE PutAccept(p)
      <3>1. /\ index'[active][p.hash] = clock /\ clock # NoRow
            /\ \A b \in Backends, h \in Hashes : (b # active \/ h # p.hash) => index'[b][h] = index[b][h]
            /\ object[active][p.hash] = "good"
            /\ UNCHANGED <<object, manifest, snaps, whole, commits, active, mpc, gcOf, swept>>
        BY <2>0, <2>2 DEF PutAccept, Dated, NoRow
      <3>2. IndexKept
        BY <2>0, <3>1 DEF IndexKept
      <3>3. \A k \in commits : Commitable(k)'
        BY <1>k, <3>1, <3>2 DEF WholeStore, Commitable, IndexKept
      <3>4. IndexGood'
        BY <2>0, <3>1 DEF WholeStore, IndexGood
      <3> QED
        BY <3>1, <3>2, <3>3, <3>4 DEF WholeStore, CommittedWhole
    <2> QED
      BY <1>1, <1>6, <2>0, <2>1, <2>2 DEF PutStep, PutStore, PutError, PutLost, PutReject
  <1>7. ASSUME NEW k \in commits, CommitStep(k) PROVE WholeStore' /\ UNCHANGED <<mpc, active>> /\ IndexKept
    <2>0. UNCHANGED <<index, object, active, mpc, gcOf, swept>>
      BY <1>7 DEF CommitStep, CommitStore, CommitError, CommitRow, CommitRowError
    <2>1. IndexGood' /\ IndexKept
      BY <2>0 DEF WholeStore, IndexGood, IndexKept
    <2>2. CASE CommitStore(k)
      <3> DEFINE s == [k EXCEPT !.pc = "stored"]
      <3>1. s.to = k.to /\ s.refs = k.refs /\ s.id = k.id
        BY <1>k DEF Commits
      <3>2. commits' = (commits \ {k}) \cup {s} /\ manifest' = manifest \cup {<<k.to, k.id>>}
            /\ UNCHANGED <<snaps, whole>>
        BY <2>2 DEF CommitStore
      <3> HIDE DEF s
      <3> QED
        BY <2>0, <2>1, <3>1, <3>2 DEF WholeStore, Commitable, CommittedWhole
    <2>3. CASE CommitError(k)
      BY <2>0, <2>1, <2>3 DEF CommitError, WholeStore, Commitable, CommittedWhole
    <2>4. CASE CommitRow(k)
      <3>1. mpc \notin {"mark", "sweep"}
        BY <1>0 DEF GCInv
      <3>2. \A h \in k.refs : Held(active, h)
        BY <1>0, <1>k, <3>1 DEF WholeStore, Commitable, IndexGood, Held, TypeOK
      <3>3. <<active, k.id>> \in manifest
        BY <2>4 DEF CommitRow, WholeStore, Commitable
      <3>4. whole' = whole \cup {k.id} /\ snaps' = snaps \cup {k.id} /\ commits' \subseteq commits
            /\ UNCHANGED manifest
        BY <2>4, <3>2, <3>3 DEF CommitRow
      <3> QED
        BY <2>0, <2>1, <3>4 DEF WholeStore, Commitable, CommittedWhole
    <2>5. CASE CommitRowError(k)
      <3>1. \A l \in commits' : l \in commits /\ l.id # k.id
        BY <1>0, <2>5 DEF CommitRowError, IdInv
      <3> QED
        BY <2>0, <2>1, <2>5, <3>1 DEF CommitRowError, WholeStore, Commitable, CommittedWhole
    <2> QED
      BY <1>7, <2>1, <2>2, <2>3, <2>4, <2>5 DEF CommitStep
  <1>8. ASSUME Maintenance PROVE WholeStore'
    <2>1. CASE PruneStart \/ Prune
      <3>1. ASSUME NEW i \in SnapIds, PruneManifest(i) PROVE WholeStore'
        <4>1. \A k \in commits : k.id # i
          BY <1>0, <3>1 DEF IdInv, PruneManifest
        <4> QED
          BY <3>1, <4>1 DEF PruneManifest, WholeStore, Commitable, IndexGood, CommittedWhole
      <3>2. ASSUME UNCHANGED <<index, object, manifest, whole, commits, active, gcOf, swept>>, snaps' \subseteq snaps,
                   mpc # "sweep"
            PROVE  WholeStore'
        BY <1>0, <3>2 DEF WholeStore, Commitable, IndexGood, CommittedWhole, GCInv
      <3>3. CASE PruneStart
        BY <3>2, <3>3 DEF PruneStart
      <3>4. ASSUME NEW j \in Jobs, PruneList(j) PROVE WholeStore'
        BY <3>2, <3>4 DEF PruneList
      <3>5. ASSUME NEW i \in SnapIds, PruneRow(i) \/ PruneSkip(i) PROVE WholeStore'
        BY <3>2, <3>5 DEF PruneRow, PruneSkip
      <3>6. CASE PruneEnd
        BY <3>2, <3>6 DEF PruneEnd
      <3> QED
        BY <2>1, <3>1, <3>3, <3>4, <3>5, <3>6 DEF Prune
    <2>2. CASE GC
      <3>1. CASE GCLock \/ (\E i \in SnapIds : GCRead(i)) \/ GCList \/ GCEnd \/ GCAbort
        <4>1. /\ UNCHANGED <<index, object, manifest, snaps, whole, commits, active>>
              /\ swept = {} /\ swept' = {}
          BY <1>0, <3>1 DEF GCLock, GCRead, GCList, GCEnd, GCAbort, MaintenanceOver, GCInv
        <4> QED
          BY <4>1 DEF WholeStore, Commitable, IndexGood, CommittedWhole
      <3>2. ASSUME NEW h \in Hashes, GCSweepObject(h) PROVE WholeStore'
        <4>1. gcOf = active /\ commits = {} /\ commits' = {} /\ active \in Backends
              /\ object \in [Backends -> [Hashes -> {"none", "good", "bad"}]]
          BY <1>0, <3>2 DEF GCSweepObject, GCScope, GCInv, TypeOK
        <4>2. \A b \in Backends, g \in Hashes : (b # active \/ g # h) => object'[b][g] = object[b][g]
          BY <3>2, <4>1 DEF GCSweepObject, ObjectsWithout
        <4> QED
          BY <3>2, <4>1, <4>2 DEF GCSweepObject, WholeStore, IndexGood, CommittedWhole
      <3>3. ASSUME NEW h \in Hashes, GCSweepRow(h) PROVE WholeStore'
        <4>1. gcOf \in Backends /\ commits = {} /\ commits' = {} /\ swept' = {} /\ h \in swept
              /\ index \in [Backends -> [Hashes -> {NoRow} \cup 0..clock]]
          BY <1>0, <3>3 DEF GCSweepRow, GCInv, TypeOK
        <4>2. /\ index'[gcOf][h] = NoRow
              /\ \A b \in Backends, g \in Hashes : (b # gcOf \/ g # h) => index'[b][g] = index[b][g]
          BY <3>3, <4>1 DEF GCSweepRow, RowsWithout
        <4>3. \A g \in swept : g = h
          BY <4>1 DEF WholeStore
        <4> QED
          BY <3>3, <4>1, <4>2, <4>3 DEF GCSweepRow, WholeStore, IndexGood, CommittedWhole
      <3> QED
        BY <2>2, <3>1, <3>2, <3>3 DEF GC
    <2> QED
      BY <1>8, <2>1, <2>2 DEF Maintenance, MaintenanceError
  <1> QED
    <2>1. CASE RequestStep
      BY <1>2, <1>5, <1>6, <1>7, <2>1 DEF RequestStep
    <2>2. CASE ~ RequestStep
      BY <1>3, <1>4, <1>8, <2>2 DEF StoreStep
    <2> QED
      BY <2>1, <2>2

\* A request to commit that uploadMissing has prepared.
LEMMA CommitWhole ==
    ASSUME StoreInv, WholeStore, RunsTyped, NEW a \in Agents, NEW i \in SnapIds, NEW j \in Jobs, Commit(a, i, j),
           \A h \in Hash(a) : index[active][h] # NoRow
    PROVE  WholeStore'
  <1> DEFINE k == [by |-> a, id |-> i, job |-> j, refs |-> Hash(a), to |-> active, pc |-> "writing"]
  <1>1. /\ commits' = commits \cup {k} /\ k.refs = Hash(a) /\ k.to = active /\ k.pc = "writing"
        /\ UNCHANGED <<index, object, manifest, snaps, whole, active, mpc, gcOf, swept>>
    BY DEF Commit, CommitBegin, storeVars, blobVars, maintVars
  <1> HIDE DEF k
  <1> QED
    BY <1>1 DEF WholeStore, Commitable, IndexGood, CommittedWhole

\* The runs: while one is on no collection is, and what its second question
\* left in the entries stays indexed.
LEMMA WholeNext ==
    ASSUME Allow = {}, StoreInv, SerialInv', RunsTyped, CoverInv, WholeInv, [BackupNext]_allVars
    PROVE  WholeInv'
  <1>0. WholeStore /\ active \in Backends
    BY DEF WholeInv, WholeStore, StoreInv, TypeOK
  <1>1. ASSUME NEW a \in Agents, NEW i \in SnapIds, NEW j \in Jobs, Commit(a, i, j) PROVE WholeInv'
    <2>1. /\ rpc[a] = "commit" /\ rpc'[a] = "committing" /\ \A b \in Agents : b # a => rpc'[b] = rpc[b]
          /\ UNCHANGED <<entries, mpc, index, active>>
      BY <1>1 DEF Commit, CommitBegin, RunsTyped, storeVars, blobVars, maintVars
    <2>2. WholeStore'
      BY <1>0, <1>1, <2>1, CommitWhole DEF WholeInv
    <2> QED
      BY <2>1, <2>2 DEF WholeInv, WholeStore, Hash
  <1>2. CASE ServerAlone
    <2>1. WholeStore' /\ UNCHANGED <<rpc, entries>>
      BY <1>0, <1>2, StoreWhole, ServerAloneSteps DEF ServerAlone, agentVars, runVars
    <2>2. CASE AllIdle
      BY <2>1, <2>2 DEF AllIdle, Busy, WholeInv, WholeStore
    <2>3. CASE ~ AllIdle
      <3>1. Tick \/ AdminStep
        BY <1>2, <2>3 DEF ServerAlone, Restart
      <3>2. UNCHANGED <<mpc, index, active>>
        BY <3>1 DEF Tick, AdminStep, AdminDelete, AdminDeleteRow, storeVars, blobVars, maintVars
      <3> QED
        BY <2>1, <3>2 DEF WholeInv, WholeStore, Hash
    <2> QED
      BY <2>2, <2>3
  <1>3. CASE RequestStep /\ ~ ServerAlone /\ ~ \E a \in Agents, i \in SnapIds, j \in Jobs : Commit(a, i, j)
    <2>1. WholeStore' /\ UNCHANGED <<mpc, active>> /\ IndexKept
      BY <1>0, <1>3, StoreWhole DEF StoreStep
    <2> SUFFICES ASSUME NEW b \in Agents
                 PROVE  /\ rpc'[b] # "idle" => mpc' = "idle"
                        /\ rpc'[b] = "commit" => \A h \in Hash(b)' : index'[active'][h] # NoRow
      BY <2>1 DEF WholeInv, WholeStore
    <2>2. CASE rpc'[b] = rpc[b] /\ (entries'[b] = entries[b] \/ rpc[b] = "upload")
      <3>1. Hash(b) \subseteq Hashes
        BY HashTyped
      <3> QED
        BY <2>1, <2>2, <3>1 DEF WholeInv, Hash, IndexKept
    <2>3. CASE rpc'[b] \in {"idle", "upload"} /\ (rpc[b] # "idle" \/ rpc'[b] = "idle")
      BY <2>1, <2>3 DEF WholeInv
    <2>4. ASSUME NEW a \in Agents, NEW st, Ended(a, st)
          PROVE  rpc'[b] = "idle" \/ (rpc'[b] = rpc[b] /\ entries'[b] = entries[b])
      BY <2>4 DEF Ended, RunsTyped
    <2>5. ASSUME NEW a \in Agents, NEW bad \in SUBSET Files, Scan(a, bad)
          PROVE  (rpc'[b] = "check" /\ mpc = "idle") \/ (rpc'[b] = rpc[b] /\ entries'[b] = entries[b])
      BY <2>5 DEF Scan, RunsTyped
    <2>6. ASSUME NEW a \in Agents, Check(a)
          PROVE  (rpc[b] = "check" /\ rpc'[b] = "upload") \/ (rpc'[b] = rpc[b] /\ entries'[b] = entries[b])
      BY <2>6 DEF Check, RunsTyped
    <2>7. ASSUME NEW a \in Agents, UploadStep(a)
          PROVE  rpc'[b] = rpc[b] /\ (entries'[b] = entries[b] \/ rpc[b] = "upload")
      <3>1. b # a => entries'[b] = entries[b] /\ rpc'[b] = rpc[b]
        <4>1. RequestStep => SameCommits(a)
          BY CommitsPersist DEF StoreInv, StoreStep
        <4> QED
          BY <1>3, <2>7, <4>1, UploadCovers DEF CoverInv, Others, Apart
      <3>2. UNCHANGED rpc
        BY <2>7 DEF UploadStep, UploadStart, UploadVanished, UploadHit, UploadSend, UploadBroken,
           UploadStore, UploadOk, UploadRefused, agentVars, runVars
      <3>3. rpc[a] = "upload"
        BY <2>7 DEF UploadStep, UploadStart, CoverInv, Covers
      <3> QED
        BY <3>1, <3>2, <3>3
    <2>8. ASSUME NEW a \in Agents, FinalCheck(a)
          PROVE  \/ rpc'[b] = rpc[b] /\ entries'[b] = entries[b]
                 \/ rpc[b] = "upload" /\ \A h \in Hash(b)' : index'[active'][h] # NoRow
      <3>1. CASE a # b
        BY <2>8, <3>1 DEF FinalCheck, RunsTyped
      <3>2. CASE a = b
        <4>1. /\ rpc[b] = "upload" /\ UNCHANGED <<index, active>>
              /\ entries'[b] = [f \in Files |-> IF f \in Lost(b) THEN None ELSE entries[b][f]]
          BY <2>8, <3>2 DEF FinalCheck, RunsTyped, vars, storeVars, blobVars
        <4>2. \A f \in Files : entries'[b][f] # None => index[active][entries'[b][f]] # NoRow
          BY <4>1 DEF Lost
        <4> QED
          BY <4>1, <4>2 DEF Hash
      <3> QED
        BY <3>1, <3>2
    <2>9. ASSUME UNCHANGED <<rpc, entries>>
          PROVE  rpc'[b] = rpc[b] /\ entries'[b] = entries[b]
      BY <2>9
    <2>10. CASE rpc'[b] = "check" /\ mpc = "idle"
      BY <2>1, <2>10
    <2>11. CASE rpc[b] = "upload" /\ \A h \in Hash(b)' : index'[active'][h] # NoRow
      BY <2>1, <2>11 DEF WholeInv
    <2>12. ASSUME NEW a \in Agents, RunStep(a)
           PROVE  \/ rpc'[b] = rpc[b] /\ (entries'[b] = entries[b] \/ rpc[b] = "upload")
                  \/ rpc'[b] = "idle" \/ (rpc[b] = "check" /\ rpc'[b] = "upload")
                  \/ rpc[b] = "upload" /\ \A h \in Hash(b)' : index'[active'][h] # NoRow
      BY <1>3, <2>4, <2>6, <2>7, <2>8, <2>9, <2>12 DEF RunStep, Committed, CommitFailed, UploadsFailed,
         RequestBroken, agentVars, runVars
    <2> QED
      BY <1>3, <2>2, <2>3, <2>4, <2>5, <2>9, <2>10, <2>11, <2>12 DEF BackupNext, Cancel, Edit, OrphanPut,
         OrphanCommit, agentVars, runVars, allVars
  <1> QED
    BY <1>1, <1>2, <1>3, RunsStepStore

\* What the server checks and keeps for the runs, in every state.
THEOREM WholeInvariant == ASSUME Allow = {} PROVE BackupSpec => []WholeInv
  <1>1. BackupInit => WholeInv
    BY DEF BackupInit, Init, WholeInv, IndexGood, CommittedWhole
  <1>2. Serial
    BY DEF Serial
  <1>3. BackupSpec => []StoreInv
    <2>1. TypeOK /\ GCInv /\ SerialInv => StoreInv
      BY DEF StoreInv
    <2> QED
      BY <1>2, <2>1, TypeCorrect, GCInvariant, SerialInvariant, RunsImplementClients, PTL
  <1>4. StoreInv => SerialInv
    BY DEF StoreInv
  <1>5. StoreInv /\ SerialInv' /\ RunsTyped /\ CoverInv /\ WholeInv /\ [BackupNext]_allVars => WholeInv'
    BY WholeNext
  <1> QED
    BY <1>1, <1>3, <1>4, <1>5, RunsAreTyped, CoverInvariant, PTL DEF BackupSpec

\* uploadMissing: "the manifest never references data the server doesn't hold".
\* With collections and switches of the backend between the runs, every
\* snapshot has its manifest and all of its blobs when its row is made.
THEOREM SnapshotsAreWhole == ASSUME Allow = {} PROVE BackupSpec => []CommittedWhole
  <1>1. WholeInv => CommittedWhole
    BY DEF WholeInv
  <1> QED
    BY <1>1, WholeInvariant, PTL
=============================================================================
