------------------------------- MODULE Restore -------------------------------
(***************************************************************************)
(* A restore on the client: the agent fetches the manifest, then each entry *)
(* in its order, into a file system that the user changes meanwhile, from a *)
(* server that may have lost the data.  A file is downloaded to a temporary *)
(* file, verified and renamed; a link is removed and made again.            *)
(***************************************************************************)
EXTENDS Integers, Sequences

CONSTANTS
    Entries,   \* the entries that match the selected paths, in manifest order
    MaxEdits,  \* bound on what the user does meanwhile
    Gone       \* nothing at a path

\* An entry is a directory, a link or a file at a path of its own.
Paths == {Entries[i].path : i \in DOMAIN Entries}

\* Contents: of before the restore, of the user, of the snapshot, or damaged.
Contents == {"old", "user", "snapshot", "junk"}

ASSUME RestoreAssumption ==
    /\ Entries \in Seq({Entries[i] : i \in DOMAIN Entries}) /\ Gone \notin Contents
    /\ \A i, j \in DOMAIN Entries : Entries[i].path = Entries[j].path => i = j
    /\ \A i \in DOMAIN Entries : Entries[i].type \in {"d", "l", "f"}
    /\ MaxEdits \in Nat

VARIABLES
    overwrite, \* the option of the request
    fs,        \* what is at each path: Gone, or whose it is
    phase,     \* where doRestore is
    at,        \* the entry it is at
    temp,      \* the temporary file: Gone, "snapshot" or "junk"
    skipped,   \* stats.FilesSkipped
    cancelled, \* the context
    report,    \* the report of runRestore, "none" before
    made,      \* history: entries that are in place
    edits,     \* bound
    late       \* history: paths the user wrote after the restore had looked

restoreVars == <<overwrite, fs, phase, at, temp, skipped, cancelled, report, made, edits, late>>

RestoreInit ==
    /\ overwrite \in BOOLEAN
    /\ fs \in [Paths -> {Gone, "old"}]
    /\ phase = "manifest" /\ at = 1 /\ temp = Gone /\ skipped = 0
    /\ cancelled = FALSE /\ report = "none"
    /\ made = {} /\ edits = 0 /\ late = {}

Entry == Entries[at]
Target == Entry.path
Running == report = "none"

\* runRestore's report.
StatusBlind(err) == IF err # "none" THEN err ELSE "success"
Status(err) == IF err # "none" THEN err ELSE IF skipped > 0 THEN "partial" ELSE "success"

\* The end of doRestore: err is "cancelled", "error" or "none".
EndRestore(err) ==
    /\ report' = Status(err)
    /\ phase' = "over"
    /\ UNCHANGED <<overwrite, fs, at, temp, skipped, cancelled, made, edits, late>>

\* On to the next entry; a skipped one is counted.
NextEntry(skip) ==
    /\ at' = at + 1 /\ phase' = "entry" /\ temp' = Gone
    /\ skipped' = IF skip THEN skipped + 1 ELSE skipped
    /\ UNCHANGED <<overwrite, cancelled, report, edits, late>>
-----------------------------------------------------------------------------
\* getManifest and the pass over it.
FetchManifest ==
    /\ Running /\ phase = "manifest"
    /\ \/ /\ ~cancelled /\ Entries # <<>>
          /\ phase' = "entry"
          /\ UNCHANGED <<overwrite, fs, at, temp, skipped, cancelled, report, made, edits, late>>
       \/ cancelled /\ EndRestore("cancelled")
       \/ EndRestore("error")   \* refused, corrupt, or nothing matches

\* The loop: the context is looked at before every entry.
LoopEnds ==
    /\ Running /\ phase = "entry"
    /\ \/ at > Len(Entries) /\ EndRestore("none")
       \/ at <= Len(Entries) /\ cancelled /\ EndRestore("cancelled")

Here(t) == Running /\ phase = "entry" /\ at <= Len(Entries) /\ ~cancelled /\ Entry.type = t

\* restoreTarget refuses a path that would leave the target directory.
UnsafePath ==
    /\ Running /\ phase = "entry" /\ at <= Len(Entries) /\ ~cancelled
    /\ NextEntry(TRUE)
    /\ UNCHANGED <<fs, made>>

\* MkdirAll keeps a directory that exists, and fails on anything else there.
MakeDir ==
    /\ Here("d")
    /\ \/ /\ fs' = [fs EXCEPT ![Target] = IF @ = Gone THEN "snapshot" ELSE @]
          /\ made' = made \cup {at}
          /\ NextEntry(FALSE)
       \/ NextEntry(TRUE) /\ UNCHANGED <<fs, made>>

\* What is there stays, unless overwrite is set.
Replace == TRUE
MayReplace == overwrite \/ fs[Target] = Gone

\* A link: what is there is removed, if it can be; then the link is made, or that fails.
LookLink ==
    /\ Here("l")
    /\ \/ /\ ~MayReplace
          /\ NextEntry(TRUE) /\ UNCHANGED <<fs, made>>
       \/ /\ MayReplace
          /\ fs' \in {fs, [fs EXCEPT ![Target] = Gone]}
          /\ phase' = "link" /\ late' = late \ {Target}
          /\ UNCHANGED <<overwrite, at, temp, skipped, cancelled, report, made, edits>>

MakeLink ==
    /\ Running /\ phase = "link"
    /\ \/ /\ fs[Target] = Gone
          /\ fs' = [fs EXCEPT ![Target] = "snapshot"] /\ made' = made \cup {at}
          /\ NextEntry(FALSE)
       \/ NextEntry(TRUE) /\ UNCHANGED <<fs, made>>

\* restoreFile: the target is looked at before the download ...
LookFile ==
    /\ Here("f")
    /\ \/ /\ ~MayReplace
          /\ NextEntry(TRUE) /\ UNCHANGED <<fs, made>>
       \/ /\ MayReplace
          /\ phase' = "download" /\ late' = late \ {Target}
          /\ UNCHANGED <<overwrite, fs, at, temp, skipped, cancelled, report, made, edits>>

\* ... the blob is downloaded, as it is on the server or damaged; it may be
\* missing there, and the context may end the download.
Download ==
    /\ Running /\ phase = "download"
    /\ \/ /\ temp' \in {"snapshot", "junk"} /\ phase' = "verify"
          /\ UNCHANGED <<overwrite, fs, at, skipped, cancelled, report, made, edits, late>>
       \/ NextEntry(TRUE) /\ UNCHANGED <<fs, made>>
       \/ cancelled /\ EndRestore("cancelled")

\* The hash of what was written.
HashIgnored == TRUE
HashMatches == temp = "snapshot"

\* The temporary file takes the target's place, whatever is there by now.
Rename ==
    /\ Running /\ phase = "verify"
    /\ \/ /\ HashMatches
          /\ fs' = [fs EXCEPT ![Target] = temp] /\ made' = made \cup {at}
          /\ NextEntry(FALSE)
       \/ NextEntry(TRUE) /\ UNCHANGED <<fs, made>>
-----------------------------------------------------------------------------
\* cancelRun reaches the agent.
CancelRestore ==
    /\ Running /\ ~cancelled
    /\ cancelled' = TRUE
    /\ UNCHANGED <<overwrite, fs, phase, at, temp, skipped, report, made, edits, late>>

\* The user, or another program, writes or removes.
Edit(p) ==
    /\ edits < MaxEdits /\ edits' = edits + 1
    /\ fs' \in {[fs EXCEPT ![p] = "user"], [fs EXCEPT ![p] = Gone]}
    /\ late' = late \cup {p}
    /\ UNCHANGED <<overwrite, phase, at, temp, skipped, cancelled, report, made>>

\* The agent dies: nothing is reported, a temporary file may stay.
AgentDies ==
    /\ Running
    /\ report' = "lost" /\ phase' = "over"
    /\ UNCHANGED <<overwrite, fs, at, temp, skipped, cancelled, made, edits, late>>

RestoreNext ==
    \/ FetchManifest \/ LoopEnds \/ UnsafePath \/ MakeDir \/ LookLink \/ MakeLink
    \/ LookFile \/ Download \/ Rename \/ CancelRestore \/ AgentDies
    \/ \E p \in Paths : Edit(p)

RestoreSpec == RestoreInit /\ [][RestoreNext]_restoreVars
-----------------------------------------------------------------------------
\* Every path holds what was there, what the user put there, or what the
\* snapshot holds: never part of a file or damaged data, at whatever step the
\* download failed, the restore was cancelled or the agent died.
NeverDamaged == \A p \in Paths : fs[p] \in Contents \cup {Gone} /\ fs[p] # "junk"

\* The report is true: success means that every entry was put in place, partial
\* that one was not, and cancelled that a cancellation was asked for.
ReportIsTrue ==
    /\ report = "success" => made = DOMAIN Entries
    /\ report = "partial" => made # DOMAIN Entries
    /\ report = "cancelled" => cancelled

\* Without overwrite nothing is replaced or removed but what the user has put
\* there after the restore had looked at the path.
ExistingIsKept ==
    [][\A p \in Paths : ~overwrite /\ fs[p] # Gone /\ fs'[p] # fs[p] /\ edits' = edits
          => p \in late]_restoreVars
=============================================================================
