------------------------------ MODULE BackupRun ------------------------------
(***************************************************************************)
(* The agents' backup runs on top of the server's Repository: scan, ask    *)
(* which blobs are missing, upload them (a file that changed is uploaded   *)
(* again under its new hash, once), ask again, drop what the server still  *)
(* lacks, commit the manifest.  Files change and vanish meanwhile, runs    *)
(* are cancelled and connections break; the server's maintenance goes on.  *)
(***************************************************************************)
EXTENDS Repository

CONSTANTS
    Agents,     \* one backup job each
    Files,      \* paths of a job
    None        \* no hash: a file that is not there, an entry that is dropped

\* Uploads of one run go in parallel, one per file; commits are the agent's.
ASSUME BackupAssumption ==
    /\ Clients = Agents \cup (Agents \X Files)
    /\ None \notin Hashes

VARIABLES
    file,     \* content of each file of each agent, or None
    rpc,      \* where the agent's run stands
    entries,  \* res.entries: hash of each file, or None
    skipped,  \* stats.FilesSkipped > 0
    missing,  \* hashes uploadLoop has still to start
    ups,      \* uploadFile calls in progress
    failed,   \* firstErr # nil
    status,   \* RunDone.Status of the last run
    scanned,  \* history: files the run's scan found
    had,      \* history: contents each file had since the scan
    snapOf    \* the id the server gave to the run's commit, or None

runVars   == <<rpc, entries, skipped, missing, ups, failed, status, scanned,
               snapOf>>
agentVars == <<file, had, runVars>>
allVars   == <<vars, agentVars>>

UploadCalls == [file : Files, hash : Hashes, expect : Hashes, got : Hashes,
                try : 1..2, pc : {"open", "sent"}]

Busy(a) == rpc[a] # "idle"

\* The upload request p was sent by a's uploadFile call u.
Serves(p, a, u) == p.by = <<a, u.file>> /\ u \in ups[a] /\ u.pc = "sent"

\* The distinct hashes of the entries.
Hash(a) == {entries[a][f] : f \in Files} \ {None}

-----------------------------------------------------------------------------
(* The agent's files *)

\* A file is rewritten, deleted or created.
Edit(a, f, c) ==
    /\ file[a][f] # c
    /\ file' = [file EXCEPT ![a][f] = c]
    /\ had' = IF Busy(a) THEN [had EXCEPT ![a][f] = @ \cup ({c} \ {None})] ELSE had
    /\ UNCHANGED <<vars, runVars>>

-----------------------------------------------------------------------------
(* doBackup *)

\* scan: the files that are there get their hash; the ones in bad cannot be
\* read and count as skipped.
Scan(a, bad) ==
    /\ ~ Busy(a)
    /\ "gc" \in Allow \/ mpc = "idle"
    /\ \A f \in bad : file[a][f] # None
    /\ entries' = [entries EXCEPT ![a] =
                      [f \in Files |-> IF f \in bad THEN None ELSE file[a][f]]]
    /\ skipped' = [skipped EXCEPT ![a] = bad # {}]
    /\ scanned' = [scanned EXCEPT ![a] = {f \in Files : file[a][f] # None}]
    /\ had' = [had EXCEPT ![a] = [f \in Files |-> {file[a][f]} \ {None}]]
    /\ rpc' = [rpc EXCEPT ![a] = "check"]
    /\ status' = [status EXCEPT ![a] = "running"]
    /\ snapOf' = [snapOf EXCEPT ![a] = None]
    /\ UNCHANGED <<vars, file, missing, ups, failed>>

\* uploadMissing, first question: handleBlobCheck consults the index.
Check(a) ==
    /\ rpc[a] = "check"
    /\ missing' = [missing EXCEPT ![a] = {h \in Hash(a) : index[active][h] = NoRow}]
    /\ rpc' = [rpc EXCEPT ![a] = "upload"]
    /\ UNCHANGED <<vars, file, had, entries, skipped, ups, failed, status,
                   scanned, snapOf>>

\* uploadLoop starts uploadFile for a missing hash, on one file that has it.
UploadStart(a, h, f) ==
    /\ rpc[a] = "upload" /\ h \in missing[a] /\ entries[a][f] = h
    /\ missing' = [missing EXCEPT ![a] = @ \ {h}]
    /\ ups' = [ups EXCEPT ![a] = @ \cup {[file |-> f, hash |-> h, expect |-> h,
                                         got |-> h, try |-> 1, pc |-> "open"]}]
    /\ UNCHANGED <<vars, file, had, rpc, entries, skipped, failed, status,
                   scanned, snapOf>>

Return(a, u) == ups' = [ups EXCEPT ![a] = @ \ {u}]

Continue(a, u, v) == ups' = [ups EXCEPT ![a] = (@ \ {u}) \cup {v}]

\* The file cannot be opened: firstErr.
UploadVanished(a, u) ==
    /\ u.pc = "open" /\ file[a][u.file] = None
    /\ Return(a, u) /\ failed' = [failed EXCEPT ![a] = TRUE]
    /\ UNCHANGED <<vars, file, had, rpc, entries, skipped, missing, status,
                   scanned, snapOf>>

\* The server has the expected hash by now and discards the body unverified;
\* the entry gets the hash of what was read.
UploadHit(a, u) ==
    /\ u.pc = "open" /\ file[a][u.file] # None
    /\ index[active][u.expect] # NoRow
    /\ Return(a, u)
    /\ entries' = [entries EXCEPT ![a][u.file] = file[a][u.file]]
    /\ UNCHANGED <<vars, file, had, rpc, skipped, missing, failed, status,
                   scanned, snapOf>>

UploadSend(a, u) ==
    /\ u.pc = "open" /\ file[a][u.file] # None
    /\ PutBegin(<<a, u.file>>, u.expect)
    /\ Continue(a, u, [u EXCEPT !.got = file[a][u.file], !.pc = "sent"])
    /\ UNCHANGED <<file, had, rpc, entries, skipped, missing, failed, status,
                   scanned, snapOf>>

\* The server stores what it is sent, right or wrong, or fails to.
UploadStore(a, u, p) ==
    /\ Serves(p, a, u)
    /\ PutStore(p, IF u.got = u.expect THEN "good" ELSE "bad") \/ PutError(p)
    /\ UNCHANGED agentVars

UploadOk(a, u, p) ==
    /\ Serves(p, a, u) /\ PutAccept(p)
    /\ Return(a, u)
    /\ entries' = [entries EXCEPT ![a][u.file] = u.got]
    /\ UNCHANGED <<file, had, rpc, skipped, missing, failed, status, scanned,
                   snapOf>>

\* Mutant: the attempts are not counted.
ChangedAgain(u) == u.got # u.expect

Changed(u) == u.got # u.expect /\ u.try < 2

\* 400 or 500.  When the file was still what it should be this is a failure;
\* otherwise it has changed, and the new content is tried once.
UploadRefused(a, u, p) ==
    /\ Serves(p, a, u) /\ (PutReject(p) \/ PutLost(p))
    /\ IF Changed(u)
       THEN /\ Continue(a, u, [u EXCEPT !.expect = u.got, !.try = 2, !.pc = "open"])
            /\ UNCHANGED failed
       ELSE /\ Return(a, u) /\ failed' = [failed EXCEPT ![a] = TRUE]
    /\ UNCHANGED <<file, had, rpc, entries, skipped, missing, status, scanned, snapOf>>

\* The connection breaks under the request; the server finds out for itself.
UploadBroken(a, u) ==
    /\ u \in ups[a] /\ u.pc = "sent"
    /\ Return(a, u) /\ failed' = [failed EXCEPT ![a] = TRUE]
    /\ UNCHANGED <<vars, file, had, rpc, entries, skipped, missing, status, scanned,
                   snapOf>>

\* Mutants: the answer is ignored; dropped entries are not counted.
LostIgnored(a) == {}
CountNone(a) == skipped[a]

\* Files whose blob the server still lacks.
Lost(a) == {f \in Files : entries[a][f] # None /\ index[active][entries[a][f]] = NoRow}

CountLost(a) == skipped[a] \/ Lost(a) # {}

\* uploadMissing, second question: entries whose blob the server still lacks
\* are dropped.
FinalCheck(a) ==
    /\ rpc[a] = "upload" /\ missing[a] = {} /\ ups[a] = {} /\ ~ failed[a]
    /\ entries' = [entries EXCEPT ![a] =
                      [f \in Files |-> IF f \in Lost(a) THEN None ELSE @[f]]]
    /\ skipped' = [skipped EXCEPT ![a] = CountLost(a)]
    /\ rpc' = [rpc EXCEPT ![a] = "commit"]
    /\ UNCHANGED <<vars, file, had, missing, ups, failed, status, scanned, snapOf>>

\* commitManifest sends the manifest; handleSnapshotCommit takes it.
Commit(a, i, j) ==
    /\ rpc[a] = "commit"
    /\ CommitBegin(a, i, j, Hash(a))
    /\ rpc' = [rpc EXCEPT ![a] = "committing"]
    /\ snapOf' = [snapOf EXCEPT ![a] = i]
    /\ UNCHANGED <<file, had, entries, skipped, missing, ups, failed, status,
                   scanned>>

-----------------------------------------------------------------------------
(* runBackup: how a run ends *)

Ended(a, st) ==
    /\ rpc' = [rpc EXCEPT ![a] = "idle"] /\ status' = [status EXCEPT ![a] = st]
    /\ missing' = [missing EXCEPT ![a] = {}] /\ ups' = [ups EXCEPT ![a] = {}]
    /\ failed' = [failed EXCEPT ![a] = FALSE]
    /\ entries' = [entries EXCEPT ![a] = [f \in Files |-> None]]
    /\ had' = [had EXCEPT ![a] = [f \in Files |-> {}]]
    /\ scanned' = [scanned EXCEPT ![a] = {}] /\ skipped' = [skipped EXCEPT ![a] = FALSE]
    /\ UNCHANGED <<file, snapOf>>

\* The server answers the commit.
Committed(a, k) ==
    /\ rpc[a] = "committing" /\ k.by = a /\ k.id = snapOf[a]
    /\ CommitRow(k)
    /\ Ended(a, IF skipped[a] THEN "partial" ELSE "success")

CommitFailed(a, k) ==
    /\ rpc[a] = "committing" /\ k.by = a /\ k.id = snapOf[a]
    /\ CommitError(k) \/ CommitRowError(k)
    /\ Ended(a, "error")

\* All uploads are over and one of them failed.
UploadsFailed(a) ==
    /\ rpc[a] = "upload" /\ missing[a] = {} /\ ups[a] = {} /\ failed[a]
    /\ Ended(a, "error") /\ UNCHANGED vars

\* A check or commit request breaks; a commit may still go through.
RequestBroken(a) ==
    /\ \/ rpc[a] \in {"check", "commit", "committing"}
       \/ rpc[a] = "upload" /\ missing[a] = {} /\ ups[a] = {} /\ ~ failed[a]
    /\ Ended(a, "error") /\ UNCHANGED vars

\* context.Canceled, wherever the run stands.
Cancel(a) == Busy(a) /\ Ended(a, "cancelled") /\ UNCHANGED vars

-----------------------------------------------------------------------------
(* The server goes on with requests whose run is over, and with the rest.   *)
(* Unless Allow says otherwise, collections and backend switches wait for   *)
(* running backups.                                                         *)

OrphanPut(p) ==
    /\ \A a \in Agents : \A u \in ups[a] : ~ Serves(p, a, u)
    /\ PutStep(p) /\ UNCHANGED agentVars

OrphanCommit(k) ==
    /\ ~ (rpc[k.by] = "committing" /\ k.id = snapOf[k.by])
    /\ CommitStep(k) /\ UNCHANGED agentVars

AllIdle == \A a \in Agents : ~ Busy(a)

ServerAlone ==
    /\ \/ \E b \in Backends : SwitchBackend(b) /\ ("switch" \in Allow \/ AllIdle)
       \/ Restart \/ Tick \/ AdminStep
       \/ Maintenance /\ ("gc" \in Allow \/ AllIdle)
    /\ UNCHANGED agentVars

-----------------------------------------------------------------------------

BackupInit ==
    /\ Init
    /\ file = [a \in Agents |-> [f \in Files |-> None]]
    /\ rpc = [a \in Agents |-> "idle"] /\ status = [a \in Agents |-> "none"]
    /\ entries = [a \in Agents |-> [f \in Files |-> None]]
    /\ had = [a \in Agents |-> [f \in Files |-> {}]]
    /\ skipped = [a \in Agents |-> FALSE] /\ scanned = [a \in Agents |-> {}]
    /\ missing = [a \in Agents |-> {}] /\ ups = [a \in Agents |-> {}]
    /\ failed = [a \in Agents |-> FALSE]
    /\ snapOf = [a \in Agents |-> None]

UploadStep(a) ==
    \/ \E h \in Hashes, f \in Files : UploadStart(a, h, f)
    \/ \E u \in ups[a] :
          \/ UploadVanished(a, u) \/ UploadHit(a, u) \/ UploadSend(a, u)
          \/ UploadBroken(a, u)
          \/ \E p \in puts : \/ UploadStore(a, u, p) \/ UploadOk(a, u, p)
                             \/ UploadRefused(a, u, p)

RunStep(a) ==
    \/ Check(a) \/ UploadStep(a) \/ UploadsFailed(a) \/ FinalCheck(a)
    \/ \E i \in SnapIds, j \in Jobs : Commit(a, i, j)
    \/ \E k \in commits : Committed(a, k) \/ CommitFailed(a, k)
                          \/ (CommitStore(k) /\ rpc[a] = "committing"
                               /\ k.id = snapOf[a] /\ UNCHANGED agentVars)
    \/ RequestBroken(a)

BackupNext ==
    \/ \E a \in Agents :
          \/ \E f \in Files, c \in Hashes \cup {None} : Edit(a, f, c)
          \/ \E bad \in SUBSET Files : Scan(a, bad)
          \/ RunStep(a) \/ Cancel(a)
    \/ \E p \in puts : OrphanPut(p)
    \/ \E k \in commits : OrphanCommit(k)
    \/ ServerAlone

\* A started run goes on, the server answers or the connection breaks, and
\* handlers and maintenance keep running.
BackupFairness ==
    /\ \A a \in Agents : WF_allVars(RunStep(a))
    /\ WF_allVars(\E p \in puts : OrphanPut(p))
    /\ WF_allVars(\E k \in commits : OrphanCommit(k))
    /\ WF_allVars(Maintenance /\ ("gc" \in Allow \/ AllIdle) /\ UNCHANGED agentVars)

BackupSpec == BackupInit /\ [][BackupNext]_allVars

FairBackupSpec == BackupSpec /\ BackupFairness

-----------------------------------------------------------------------------

\* Every variable of the runs has its type.
BackupTypeOK ==
    /\ TypeOK
    /\ file \in [Agents -> [Files -> Hashes \cup {None}]]
    /\ rpc \in [Agents -> {"idle", "check", "upload", "commit", "committing"}]
    /\ entries \in [Agents -> [Files -> Hashes \cup {None}]]
    /\ missing \in [Agents -> SUBSET Hashes]
    /\ \A a \in Agents : ups[a] \subseteq UploadCalls
    /\ status \in [Agents -> {"none", "running", "success", "partial", "error",
                              "cancelled"}]
    /\ skipped \in [Agents -> BOOLEAN] /\ failed \in [Agents -> BOOLEAN]
    /\ scanned \in [Agents -> SUBSET Files]
    /\ had \in [Agents -> [Files -> SUBSET Hashes]]
    /\ snapOf \in [Agents -> SnapIds \cup {None}]

\* uploadMissing: "the manifest never references data the server doesn't hold".
\* Every snapshot row had its manifest and all its blobs when it was made.
CommittedWhole == snaps \subseteq whole

\* A run reported as success committed every file its scan found, each with a
\* content the file had during the run: whatever changed, was shared with
\* other files or agents, or was retried meanwhile.
SuccessCoversScan ==
    [][\A a \in Agents : status[a] = "running" /\ status'[a] = "success" =>
          /\ \A f \in scanned[a] : entries[a][f] \in had[a][f]
          /\ snapOf[a] \in snaps' /\ snap'[snapOf[a]].refs = Hash(a)]_allVars

\* A started run ends, also while its files keep changing and collections
\* keep coming.
RunsEnd == \A a \in Agents : Busy(a) ~> ~ Busy(a)
=============================================================================
