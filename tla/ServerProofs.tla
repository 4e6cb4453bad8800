---------------------------- MODULE ServerProofs ----------------------------
(***************************************************************************)
(* Theorems about Accounts, Restore and StorageConfig, for every value of   *)
(* their constants.                                                         *)
(***************************************************************************)
EXTENDS Accounts, Restore, StorageConfig, TLAPS

-----------------------------------------------------------------------------
(* Accounts.  The inductive invariant adds to the types: which enrollments  *)
(* have a token, that only an enrolled client has snapshots or requests,    *)
(* and what a deletion that was not disturbed has emptied so far.           *)

AccountsTyped ==
    /\ tokens \in [Tokens -> Enrolls \cup {NoAgent, "none", "expired"}]
    /\ enroll \in [Enrolls -> [pc : {"new", "created", "enrolled", "refused", "lost"},
                               token : Tokens \cup {"none"}]]
    /\ agents \subseteq Enrolls /\ snapshots \subseteq Enrolls /\ posting \subseteq Enrolls
    /\ rows \subseteq Enrolls \X Tables
    /\ deletion \in [pc : {"idle", "snapshots", "payloads", "rows"},
                     agent : Enrolls \cup {NoAgent}, at : 1..3]

TokenHeld == \A e \in Enrolls : enroll[e].pc \in {"created", "enrolled"} => enroll[e].token \in Tokens

OnlyEnrolled == \A e \in posting \cup snapshots : enroll[e].pc = "enrolled"

\* What DeleteAgent has done for a client that did nothing meanwhile.
DeletionEmptied ==
    /\ deletion.pc # "rows" => deletion.at = 1
    /\ deletion.agent \notin busy =>
          /\ deletion.pc \in {"payloads", "rows"} => deletion.agent \notin snapshots
          /\ deletion.at > 1 => <<deletion.agent, "runs">> \notin rows
          /\ deletion.at > 2 => <<deletion.agent, "transfers">> \notin rows

Outlives(a) == a \in snapshots \/ \E t \in Tables : <<a, t>> \in rows

AccountsInv ==
    /\ AccountsTyped /\ TokenHeld /\ OnlyEnrolled /\ DeletionEmptied
    /\ OneClientPerToken /\ NoPhantomAgents
    /\ \A a \in Enrolls \ busy : Outlives(a) => a \in agents

LEMMA OutlivesFirst ==
    ASSUME AccountsTyped, NEW a
    PROVE  a \in snapshots \cup {r[1] : r \in rows} <=> Outlives(a)
  <1>1. \A r \in rows : r = <<r[1], r[2]>> /\ r[2] \in Tables
    BY DEF AccountsTyped
  <1>2. ASSUME NEW t, <<a, t>> \in rows PROVE \E r \in rows : r[1] = a
    BY <1>2
  <1> QED
    BY <1>1, <1>2 DEF Outlives

LEMMA AccountsTypedNext == AccountsTyped /\ [AccountsNext]_accountVars => AccountsTyped'
  <1> SUFFICES ASSUME AccountsTyped, [AccountsNext]_accountVars PROVE AccountsTyped'
    OBVIOUS
  <1> USE DEF AccountsTyped, Tables
  <1>1. ASSUME NEW t \in Tokens, TokenCreate(t) \/ TokenExpire(t) PROVE AccountsTyped'
    BY <1>1 DEF TokenCreate, TokenExpire
  <1>2. ASSUME NEW a \in Enrolls, CreateAgent(a) \/ ConsumeEnrollToken(a) PROVE AccountsTyped'
    BY <1>2 DEF CreateAgent, ConsumeEnrollToken, WithoutRow
  <1>3. ASSUME NEW a \in Enrolls, Online(a) \/ Offline(a) \/ Fill(a) \/ Post(a) \/ Commit(a)
        PROVE AccountsTyped'
    BY <1>3 DEF Online, Offline, Fill, Post, Commit
  <1>4. ASSUME NEW a \in Enrolls, DeleteBegin(a) PROVE AccountsTyped'
    BY <1>4 DEF DeleteBegin
  <1>5. CASE DeleteSnapshots \/ DeletePayloads
    BY <1>5 DEF DeleteSnapshots, DeletePayloads
  <1>6. CASE DeleteStatement
    BY <1>6 DEF DeleteStatement, NoDeletion, Statements
  <1>7. CASE DeleteFails \/ AccountsCrash
    BY <1>7 DEF DeleteFails, AccountsCrash, NoDeletion
  <1>8. CASE UNCHANGED accountVars
    BY <1>8 DEF accountVars
  <1> QED
    BY <1>1, <1>2, <1>3, <1>4, <1>5, <1>6, <1>7, <1>8 DEF AccountsNext

LEMMA AccountsInvInit == AccountsInit => AccountsInv
  BY DEF AccountsInit, AccountsInv, AccountsTyped, TokenHeld, OnlyEnrolled, DeletionEmptied,
         OneClientPerToken, NoPhantomAgents, Outlives, NoDeletion, Tables

\* Enrollment: tokens, rows of the agents table and their clients.
LEMMA EnrollmentNext ==
    AccountsInv /\ [AccountsNext]_accountVars
        => TokenHeld' /\ OnlyEnrolled' /\ OneClientPerToken' /\ NoPhantomAgents'
  <1> DEFINE Goal == TokenHeld /\ OnlyEnrolled /\ OneClientPerToken /\ NoPhantomAgents
  <1> SUFFICES ASSUME AccountsInv, [AccountsNext]_accountVars PROVE Goal'
    OBVIOUS
  <1> USE AccountsAssumption DEF AccountsInv, AccountsTyped, TokenHeld, OnlyEnrolled,
          OneClientPerToken, NoPhantomAgents
  <1>1. ASSUME NEW t \in Tokens, TokenCreate(t) \/ TokenExpire(t) PROVE Goal'
    BY <1>1 DEF TokenCreate, TokenExpire
  <1>2. ASSUME NEW a \in Enrolls, CreateAgent(a) PROVE Goal'
    BY <1>2 DEF CreateAgent
  <1>3. ASSUME NEW a \in Enrolls, ConsumeEnrollToken(a) PROVE Goal'
    BY <1>3 DEF ConsumeEnrollToken, WithoutRow, Usable
  <1>4. ASSUME NEW a \in Enrolls, Online(a) \/ Offline(a) \/ Fill(a) \/ Post(a) \/ Commit(a)
        PROVE Goal'
    BY <1>4 DEF Online, Offline, Fill, Post, Commit, Verified
  <1>5. ASSUME NEW a \in Enrolls, DeleteBegin(a) PROVE Goal'
    BY <1>5 DEF DeleteBegin
  <1>6. CASE DeleteSnapshots \/ DeletePayloads \/ DeleteStatement \/ DeleteFails
    BY <1>6 DEF DeleteSnapshots, DeletePayloads, DeleteStatement, DeleteFails
  <1>7. CASE AccountsCrash
    BY <1>7 DEF AccountsCrash
  <1>8. CASE UNCHANGED accountVars
    BY <1>8 DEF accountVars
  <1> QED
    BY <1>1, <1>2, <1>3, <1>4, <1>5, <1>6, <1>7, <1>8 DEF AccountsNext

\* Deletion: what is emptied stays empty, unless the client is at work.
LEMMA DeletionNext ==
    ASSUME AccountsInv, [AccountsNext]_accountVars
    PROVE  DeletionEmptied' /\ (\A a \in Enrolls \ busy : Outlives(a) => a \in agents)'
  <1> DEFINE Listed == \A a \in Enrolls \ busy : Outlives(a) => a \in agents
             Goal == DeletionEmptied /\ Listed
  <1> SUFFICES Goal'
    OBVIOUS
  <1> USE AccountsAssumption DEF AccountsInv, AccountsTyped, DeletionEmptied, Outlives, Tables
  <1>1. ASSUME NEW t \in Tokens, TokenCreate(t) \/ TokenExpire(t) PROVE Goal'
    BY <1>1 DEF TokenCreate, TokenExpire
  <1>2. ASSUME NEW a \in Enrolls, CreateAgent(a) PROVE Goal'
    BY <1>2 DEF CreateAgent
  <1>3. ASSUME NEW a \in Enrolls, ConsumeEnrollToken(a) PROVE Goal'
    <2>1. a \notin snapshots
      BY <1>3 DEF ConsumeEnrollToken, OnlyEnrolled
    <2> QED
      BY <1>3, <2>1 DEF ConsumeEnrollToken, WithoutRow
  <1>4. ASSUME NEW a \in Enrolls, Online(a) \/ Offline(a) \/ Post(a) PROVE Goal'
    BY <1>4 DEF Online, Offline, Post, Marked
  <1>5. ASSUME NEW a \in Enrolls, Fill(a) \/ Commit(a) PROVE Goal'
    BY <1>5 DEF Fill, Commit, Marked
  <1>6. ASSUME NEW a \in Enrolls, DeleteBegin(a) PROVE Goal'
    BY <1>6 DEF DeleteBegin
  <1>7. CASE DeleteSnapshots \/ DeletePayloads
    BY <1>7 DEF DeleteSnapshots, DeletePayloads
  <1>8. CASE DeleteStatement
    <2>1. deletion.at \in {1, 2, 3} /\ Len(Statements) = 3
      BY DEF Statements
    <2>2. CASE deletion.at = 1
      <3>1. Statements[deletion.at] = "runs"
        BY <2>2 DEF Statements
      <3> QED
        BY <1>8, <2>1, <2>2, <3>1 DEF DeleteStatement
    <2>3. CASE deletion.at = 2
      <3>1. Statements[deletion.at] = "transfers"
        BY <2>3 DEF Statements
      <3> QED
        BY <1>8, <2>1, <2>3, <3>1 DEF DeleteStatement
    <2>4. CASE deletion.at = 3
      <3>1. Statements[deletion.at] = "agents"
        BY <2>4 DEF Statements
      <3>2. /\ agents' = agents \ {deletion.agent} /\ deletion' = NoDeletion
            /\ UNCHANGED <<rows, snapshots, busy>> /\ deletion.pc = "rows"
        BY <1>8, <2>1, <2>4, <3>1 DEF DeleteStatement
      <3>3. DeletionEmptied'
        BY <3>2 DEF NoDeletion
      <3>4. deletion.agent \notin busy => ~ Outlives(deletion.agent)
        BY <2>4, <3>2
      <3>5. Listed'
        BY <3>2, <3>4
      <3> QED
        BY <3>3, <3>5
    <2> QED
      BY <2>1, <2>2, <2>3, <2>4
  <1>9. CASE DeleteFails \/ AccountsCrash
    BY <1>9 DEF DeleteFails, AccountsCrash, NoDeletion
  <1>10. CASE UNCHANGED accountVars
    BY <1>10 DEF accountVars
  <1> QED
    BY <1>1, <1>2, <1>3, <1>4, <1>5, <1>6, <1>7, <1>8, <1>9, <1>10 DEF AccountsNext

\* ConsumeEnrollToken, DeleteAgent: a token is spent by the enrollment its row names,
\* and what deletions have removed so far follows their order, in every state.
THEOREM AccountsInvariant == AccountsSpec => []AccountsInv
  <1>1. AccountsInv /\ [AccountsNext]_accountVars => AccountsInv'
    BY AccountsTypedNext, EnrollmentNext, DeletionNext DEF AccountsInv
  <1> QED
    BY AccountsInvInit, <1>1, PTL DEF AccountsSpec

\* However many enrollments race for however many tokens, a token gives
\* credentials to at most one client, the one its row names.
THEOREM TokensAreOneTime == AccountsSpec => []OneClientPerToken
  <1>1. AccountsInv => OneClientPerToken
    BY DEF AccountsInv
  <1> QED
    BY <1>1, AccountsInvariant, PTL

\* The agents table lists enrolled clients, enrollments under way, and what a
\* stop of the server left of one.
THEOREM ListedAgentsAreReal == AccountsSpec => []NoPhantomAgents
  <1>1. AccountsInv => NoPhantomAgents
    BY DEF AccountsInv
  <1> QED
    BY <1>1, AccountsInvariant, PTL

\* Wherever a deletion fails or is cut off, a client that was not at work is
\* listed for as long as anything of it is left.
THEOREM DeletionCanBeRepeated == AccountsSpec => []NothingOutlivesItsAgent
  <1>1. AccountsInv => NothingOutlivesItsAgent
    BY OutlivesFirst DEF AccountsInv, NothingOutlivesItsAgent
  <1> QED
    BY <1>1, AccountsInvariant, PTL

-----------------------------------------------------------------------------
(* Restore.  The inductive invariant counts: the entries before the current *)
(* one are all in place, or one of them was skipped; and a target that is   *)
(* about to be replaced without overwrite was empty, or written since.      *)

Sound == {"old", "user", "snapshot", Gone}

RestoreTyped ==
    /\ overwrite \in BOOLEAN /\ fs \in [Paths -> Sound]
    /\ phase \in {"manifest", "entry", "link", "download", "verify", "over"}
    /\ at \in 1..(Len(Entries) + 1) /\ skipped \in Nat /\ edits \in Nat
    /\ cancelled \in BOOLEAN
    /\ phase \in {"link", "download", "verify"} => at <= Len(Entries)

Counted ==
    /\ made \subseteq 1..(at - 1)
    /\ (skipped = 0) <=> (made = 1..(at - 1))

LookedAt ==
    (phase \in {"download", "verify"} /\ ~overwrite /\ fs[Target] # Gone) => Target \in late

RestoreInv == RestoreTyped /\ Counted /\ LookedAt /\ ReportIsTrue

LEMMA EntriesFinite == Len(Entries) \in Nat /\ DOMAIN Entries = 1..Len(Entries)
  BY RestoreAssumption

LEMMA TargetIsPath == ASSUME at \in 1..Len(Entries) PROVE Target \in Paths
  BY EntriesFinite DEF Target, Entry, Paths

LEMMA RestoreInvInit == RestoreInit => RestoreInv
  <1> SUFFICES ASSUME RestoreInit PROVE RestoreInv
    OBVIOUS
  <1>1. RestoreTyped
    <2>1. fs \in [Paths -> Sound]
      BY DEF RestoreInit, Sound
    <2>2. overwrite \in BOOLEAN /\ cancelled \in BOOLEAN
      BY DEF RestoreInit
    <2>3. at \in 1..(Len(Entries) + 1) /\ skipped \in Nat /\ edits \in Nat
      BY EntriesFinite DEF RestoreInit
    <2> QED
      BY <2>1, <2>2, <2>3 DEF RestoreInit, RestoreTyped
  <1>2. Counted
    BY DEF RestoreInit, Counted
  <1> QED
    BY <1>1, <1>2 DEF RestoreInit, RestoreInv, LookedAt, ReportIsTrue

\* Steps to the next entry: the current one is in place, or is counted.
LEMMA NextEntryCounts ==
    ASSUME RestoreInv, NEW skip \in BOOLEAN, NextEntry(skip), at <= Len(Entries), Running,
           fs' \in [Paths -> Sound], made' = IF skip THEN made ELSE made \cup {at}
    PROVE  RestoreInv'
  <1>1. at' = at + 1 /\ at' \in 1..(Len(Entries) + 1) /\ skipped' \in Nat
    BY EntriesFinite DEF RestoreInv, RestoreTyped, NextEntry
  <1>2. RestoreTyped'
    BY <1>1 DEF RestoreInv, RestoreTyped, NextEntry
  <1>3. Counted'
    <2>1. at \in Nat /\ at \notin 1..(at - 1) /\ 1..(at' - 1) = (1..(at - 1)) \cup {at}
      BY <1>1, EntriesFinite DEF RestoreInv, RestoreTyped
    <2>2. CASE skip
      BY <2>1, <2>2 DEF RestoreInv, Counted, NextEntry, RestoreTyped
    <2>3. CASE ~skip
      BY <2>1, <2>3 DEF RestoreInv, Counted, NextEntry, RestoreTyped
    <2> QED
      BY <2>2, <2>3
  <1>4. LookedAt' /\ ReportIsTrue'
    BY DEF NextEntry, LookedAt, ReportIsTrue, Running
  <1> QED
    BY <1>2, <1>3, <1>4 DEF RestoreInv

LEMMA EndRestoreIsTrue ==
    ASSUME RestoreInv, Running, NEW err \in {"none", "cancelled", "error"}, EndRestore(err),
           err = "none" => at = Len(Entries) + 1,
           err = "cancelled" => cancelled
    PROVE  RestoreInv'
  <1>1. RestoreTyped' /\ Counted' /\ LookedAt'
    BY DEF RestoreInv, RestoreTyped, Counted, LookedAt, EndRestore
  <1>2. ReportIsTrue'
    <2>1. CASE err # "none"
      BY <2>1 DEF EndRestore, Status, ReportIsTrue
    <2>2. CASE err = "none"
      <3>1. (skipped = 0) <=> (made = DOMAIN Entries)
        BY <2>2, EntriesFinite DEF RestoreInv, Counted
      <3> QED
        BY <2>2, <3>1 DEF EndRestore, Status, ReportIsTrue, RestoreInv, RestoreTyped
    <2> QED
      BY <2>1, <2>2
  <1> QED
    BY <1>1, <1>2 DEF RestoreInv

LEMMA RestoreInvNext == RestoreInv /\ [RestoreNext]_restoreVars => RestoreInv'
  <1> SUFFICES ASSUME RestoreInv, [RestoreNext]_restoreVars PROVE RestoreInv'
    OBVIOUS
  <1> USE EntriesFinite
  <1>0. fs \in [Paths -> Sound] /\ at \in Nat
    BY DEF RestoreInv, RestoreTyped
  <1>1. CASE FetchManifest
    <2>1. CASE /\ phase' = "entry"
               /\ UNCHANGED <<overwrite, fs, at, temp, skipped, cancelled, report, made, edits, late>>
      BY <2>1 DEF RestoreInv, RestoreTyped, Counted, LookedAt, ReportIsTrue
    <2> QED
      BY <1>1, <2>1, EndRestoreIsTrue DEF FetchManifest
  <1>2. CASE LoopEnds
    <2>1. at > Len(Entries) => at = Len(Entries) + 1
      BY DEF RestoreInv, RestoreTyped
    <2> QED
      BY <1>2, <2>1, EndRestoreIsTrue DEF LoopEnds
  <1>3. CASE UnsafePath
    BY <1>0, <1>3, NextEntryCounts DEF UnsafePath
  <1>4. CASE MakeDir
    <2>1. at <= Len(Entries) /\ Running
      BY <1>4 DEF MakeDir, Here
    <2>2. CASE NextEntry(TRUE) /\ UNCHANGED <<fs, made>>
      BY <1>0, <2>1, <2>2, NextEntryCounts
    <2>3. CASE /\ fs' = [fs EXCEPT ![Target] = IF @ = Gone THEN "snapshot" ELSE @]
               /\ made' = made \cup {at} /\ NextEntry(FALSE)
      <3>1. fs' \in [Paths -> Sound]
        BY <1>0, <2>3 DEF Sound
      <3> QED
        BY <2>1, <2>3, <3>1, NextEntryCounts
    <2> QED
      BY <1>4, <2>2, <2>3 DEF MakeDir
  <1>5. CASE LookLink
    <2>1. CASE NextEntry(TRUE) /\ UNCHANGED <<fs, made>>
      BY <1>0, <1>5, <2>1, NextEntryCounts DEF LookLink, Here
    <2>2. CASE /\ fs' \in {fs, [fs EXCEPT ![Target] = Gone]} /\ phase' = "link"
               /\ UNCHANGED <<overwrite, at, temp, skipped, cancelled, report, made, edits>>
      <3>1. fs' \in [Paths -> Sound]
        BY <1>0, <2>2 DEF Sound
      <3> QED
        BY <1>5, <2>2, <3>1 DEF LookLink, Here, RestoreInv, RestoreTyped, Counted, LookedAt, ReportIsTrue
    <2> QED
      BY <1>5, <2>1, <2>2 DEF LookLink
  <1>6. CASE MakeLink
    <2>1. at <= Len(Entries) /\ Running
      BY <1>6 DEF MakeLink, RestoreInv, RestoreTyped
    <2>2. CASE NextEntry(TRUE) /\ UNCHANGED <<fs, made>>
      BY <1>0, <2>1, <2>2, NextEntryCounts
    <2>3. CASE fs' = [fs EXCEPT ![Target] = "snapshot"] /\ made' = made \cup {at} /\ NextEntry(FALSE)
      <3>1. fs' \in [Paths -> Sound]
        BY <1>0, <2>3 DEF Sound
      <3> QED
        BY <2>1, <2>3, <3>1, NextEntryCounts
    <2> QED
      BY <1>6, <2>2, <2>3 DEF MakeLink
  <1>7. CASE LookFile
    <2>1. CASE NextEntry(TRUE) /\ UNCHANGED <<fs, made>>
      BY <1>0, <1>7, <2>1, NextEntryCounts DEF LookFile, Here
    <2>2. CASE /\ MayReplace /\ phase' = "download"
               /\ UNCHANGED <<overwrite, fs, at, temp, skipped, cancelled, report, made, edits>>
      <3>1. LookedAt'
        BY <2>2 DEF LookedAt, MayReplace, Target, Entry
      <3> QED
        BY <1>7, <2>2, <3>1 DEF LookFile, Here, RestoreInv, RestoreTyped, Counted, ReportIsTrue
    <2> QED
      BY <1>7, <2>1, <2>2 DEF LookFile
  <1>8. CASE Download
    <2>1. at <= Len(Entries) /\ Running
      BY <1>8 DEF Download, RestoreInv, RestoreTyped
    <2>2. CASE NextEntry(TRUE) /\ UNCHANGED <<fs, made>>
      BY <1>0, <2>1, <2>2, NextEntryCounts
    <2>3. CASE /\ phase' = "verify"
               /\ UNCHANGED <<overwrite, fs, at, skipped, cancelled, report, made, edits, late>>
      BY <1>8, <2>1, <2>3 DEF Download, RestoreInv, RestoreTyped, Counted, LookedAt, ReportIsTrue,
                              Target, Entry
    <2> QED
      BY <1>8, <2>1, <2>2, <2>3, EndRestoreIsTrue DEF Download
  <1>9. CASE Rename
    <2>1. at <= Len(Entries) /\ Running
      BY <1>9 DEF Rename, RestoreInv, RestoreTyped
    <2>2. CASE NextEntry(TRUE) /\ UNCHANGED <<fs, made>>
      BY <1>0, <2>1, <2>2, NextEntryCounts
    <2>3. CASE /\ HashMatches /\ fs' = [fs EXCEPT ![Target] = temp]
               /\ made' = made \cup {at} /\ NextEntry(FALSE)
      <3>1. fs' \in [Paths -> Sound]
        BY <1>0, <2>3 DEF Sound, HashMatches
      <3> QED
        BY <2>1, <2>3, <3>1, NextEntryCounts
    <2> QED
      BY <1>9, <2>2, <2>3 DEF Rename
  <1>10. CASE CancelRestore \/ AgentDies
    BY <1>10 DEF CancelRestore, AgentDies, RestoreInv, RestoreTyped, Counted, LookedAt,
                 ReportIsTrue, Target, Entry, Running
  <1>11. ASSUME NEW p \in Paths, Edit(p) PROVE RestoreInv'
    <2>1. fs' \in [Paths -> Sound] /\ \A q \in Paths : q # p => fs'[q] = fs[q]
      BY <1>0, <1>11 DEF Edit, Sound
    <2>2. LookedAt'
      <3> SUFFICES ASSUME phase \in {"download", "verify"}, ~overwrite, fs'[Target] # Gone
                   PROVE  Target \in late'
        BY <1>11 DEF Edit, LookedAt, Target, Entry
      <3>1. Target \in Paths
        BY TargetIsPath DEF RestoreInv, RestoreTyped
      <3> QED
        BY <1>11, <2>1, <3>1 DEF RestoreInv, LookedAt, Edit
    <2> QED
      BY <1>11, <2>1, <2>2 DEF Edit, RestoreInv, RestoreTyped, Counted, ReportIsTrue
  <1>12. CASE UNCHANGED restoreVars
    BY <1>12 DEF restoreVars, RestoreInv, RestoreTyped, Counted, LookedAt, ReportIsTrue, Target, Entry
  <1> QED
    BY <1>1, <1>2, <1>3, <1>4, <1>5, <1>6, <1>7, <1>8, <1>9, <1>10, <1>11, <1>12 DEF RestoreNext

\* runRestore: its counts are those of the entries it has gone through, and what
\* it knows of a path is true but for the user's later changes, in every state.
THEOREM RestoreInvariant == RestoreSpec => []RestoreInv
  BY RestoreInvInit, RestoreInvNext, PTL DEF RestoreSpec

\* For a manifest of any length and a user who changes any files at any time:
\* no path ever holds part of a file or damaged data.
THEOREM RestoreDamagesNothing == RestoreSpec => []NeverDamaged
  <1>1. RestoreInv => NeverDamaged
    BY RestoreAssumption DEF RestoreInv, RestoreTyped, Sound, NeverDamaged, Contents
  <1> QED
    BY <1>1, RestoreInvariant, PTL

\* runRestore's report says what was done: success exactly for every entry,
\* partial for less, cancelled only after a cancellation.
THEOREM RestoreReportsTruth == RestoreSpec => []ReportIsTrue
  <1>1. RestoreInv => ReportIsTrue
    BY DEF RestoreInv
  <1> QED
    BY <1>1, RestoreInvariant, PTL

\* Without overwrite a restore replaces nothing but what was written after it
\* had looked.
THEOREM RestoreKeepsExisting == RestoreSpec => ExistingIsKept
  <1> DEFINE Keeps == \A p \in Paths :
                        ~overwrite /\ fs[p] # Gone /\ fs'[p] # fs[p] /\ edits' = edits => p \in late
  <1>1. RestoreInv /\ [RestoreNext]_restoreVars => [Keeps]_restoreVars
    <2> SUFFICES ASSUME RestoreInv, RestoreNext, NEW p \in Paths,
                        ~overwrite, fs[p] # Gone, fs'[p] # fs[p], edits' = edits
                 PROVE  p \in late
      OBVIOUS
    <2>1. fs \in [Paths -> Sound] /\ edits \in Nat
      BY DEF RestoreInv, RestoreTyped
    <2>2. CASE MakeDir \/ LookLink \/ MakeLink
      BY <2>1, <2>2 DEF MakeDir, LookLink, MakeLink, MayReplace
    <2>3. CASE Rename
      BY <2>1, <2>3 DEF Rename, RestoreInv, LookedAt
    <2>4. CASE UNCHANGED fs
      BY <2>4
    <2>5. CASE \E q \in Paths : Edit(q)
      BY <2>1, <2>5 DEF Edit
    <2> QED
      BY <2>2, <2>3, <2>4, <2>5 DEF RestoreNext, FetchManifest, LoopEnds, UnsafePath, LookFile,
         Download, CancelRestore, AgentDies, EndRestore
  <1> QED
    BY <1>1, RestoreInvariant, PTL DEF RestoreSpec, ExistingIsKept

-----------------------------------------------------------------------------
(* Storage configuration.  Every configuration anywhere - saved, active,    *)
(* pending or in a request - fits its token (Fits); what is active or about *)
(* to be made active can be built; links are numbered upwards; and unless   *)
(* two activations crossed, the one request that has saved and not yet      *)
(* activated holds what is saved.                                           *)

AnyToken == {Nothing} \cup [prov : OAuthProviders \cup {"local", "s3"}, app : Apps \cup Buckets \cup {Nothing},
                            user : Users \cup {Nothing}]
AnyConfig == [prov : OAuthProviders \cup {"local", "s3"}, app : Apps \cup Buckets \cup {Nothing},
              token : AnyToken, label : Users \cup {Nothing}, folder : Folders \cup {Nothing}]

AnyJob == [pc : {"idle", "save", "test", "saveapp", "flow", "exchange", "set"}, cfg : AnyConfig,
           link : Links \cup {NoLink}, user : Users \cup {Nothing}]

Fits(cfg) ==
    cfg.prov \in OAuthProviders /\ cfg.token # NoToken =>
        /\ cfg.token.prov = cfg.prov /\ cfg.token.app = cfg.app
        /\ cfg.label # Nothing => cfg.token.user = cfg.label

Good(cfg) == cfg \in AnyConfig /\ Fits(cfg)

StorageTyped ==
    /\ job \in [Requests -> AnyJob]
    /\ flow \in [state : Links \cup {NoLink}, pending : AnyConfig]
    /\ links \subseteq [state : Links, prov : OAuthProviders \cup {"local", "s3"},
                        app : Apps \cup Buckets \cup {Nothing}]
    /\ draft \in BOOLEAN /\ raced \in BOOLEAN

AllGood == Good(saved) /\ Good(active) /\ Good(flow.pending) /\ \A r \in Requests : Good(job[r].cfg)

Built == Buildable(active) /\ \A r \in Requests : job[r].pc = "set" => Buildable(job[r].cfg)

LinksInv ==
    /\ \A i \in spent : \E l \in links : l.state = i
    /\ flow.state # NoLink => flow.state \notin spent

Crossed == \E r \in Requests : job[r].pc = "set"

ActivationInv ==
    ~raced =>
        /\ \A r, q \in Requests : job[r].pc = "set" /\ job[q].pc = "set" => r = q
        /\ ~draft => \A r \in Requests : job[r].pc = "set" => job[r].cfg = saved
        /\ ~draft /\ ~Crossed => active = Chosen

StorageInv == StorageTyped /\ AllGood /\ Built /\ LinksInv /\ ActivationInv

LEMMA LocalIsGood == Good(Local) /\ Buildable(Local)
  BY DEF Good, Fits, Local, Config, AnyConfig, AnyToken, Buildable, OAuthProviders

LEMMA NoJobFields == NoJob.pc = "idle" /\ NoJob.cfg = Local /\ NoJob.link = NoLink /\ NoJob.user = Nothing
  BY DEF NoJob

LEMMA StorageInvInit == StorageInit => StorageInv
  <1> SUFFICES ASSUME StorageInit PROVE StorageInv
    OBVIOUS
  <1> USE LocalIsGood
  <1>1. StorageTyped
    BY DEF StorageInit, StorageTyped, NoJob, NoFlow, Good, AnyJob
  <1>2. AllGood /\ Built
    BY NoJobFields DEF StorageInit, AllGood, Built, NoFlow
  <1>3. LinksInv
    BY DEF StorageInit, LinksInv, NoFlow
  <1>4. ActivationInv
    BY NoJobFields DEF StorageInit, ActivationInv, Crossed, Chosen
  <1> QED
    BY <1>1, <1>2, <1>3, <1>4 DEF StorageInv

\* A request that moves on with a good configuration, or ends.
LEMMA AdvanceTyped ==
    ASSUME StorageInv, NEW r \in Requests,
           NEW pc \in {"idle", "save", "test", "saveapp", "flow", "exchange", "set"},
           NEW cfg, Good(cfg), job' = Advance(r, pc, cfg) \/ job' = Over(r)
    PROVE  /\ job' \in [Requests -> AnyJob]
           /\ \A q \in Requests : Good(job'[q].cfg)
           /\ \A q \in Requests : q # r => job'[q] = job[q]
           /\ job'[r].pc \in {pc, "idle"}
           /\ job'[r].pc = pc => (job'[r].cfg = cfg \/ pc = "idle")
  <1> USE DEF StorageInv, StorageTyped
  <1>1. CASE job' = Advance(r, pc, cfg)
    <2>1. cfg \in AnyConfig
      BY DEF Good
    <2>2. /\ job'[r].pc = pc /\ job'[r].cfg = cfg
          /\ job'[r].link = job[r].link /\ job'[r].user = job[r].user
          /\ \A q \in Requests : q # r => job'[q] = job[q]
      BY <1>1 DEF Advance, AnyJob
    <2>3. job' \in [Requests -> AnyJob]
      <3>1. [job[r] EXCEPT !.pc = pc, !.cfg = cfg] \in AnyJob
        BY <2>1 DEF AnyJob
      <3>2. job' = [job EXCEPT ![r] = [job[r] EXCEPT !.pc = pc, !.cfg = cfg]]
        BY <1>1 DEF Advance
      <3> QED
        BY <3>1, <3>2
    <2>4. \A q \in Requests : Good(job'[q].cfg)
      BY <2>2 DEF AllGood
    <2> QED
      BY <2>2, <2>3, <2>4
  <1>2. CASE job' = Over(r)
    <2>1. NoJob \in AnyJob
      BY LocalIsGood DEF NoJob, Good, AnyJob
    <2>2. job'[r] = NoJob /\ \A q \in Requests : q # r => job'[q] = job[q]
      BY <1>2 DEF Over
    <2> QED
      BY <1>2, <2>1, <2>2, NoJobFields, LocalIsGood DEF AllGood, Over
  <1> QED
    BY <1>1, <1>2

\* Steps that read, wait and decide, and change nothing but the request.
LEMMA RequestMoves ==
    ASSUME StorageInv, NEW r \in Requests,
           NEW pc \in {"idle", "save", "test", "saveapp", "flow"}, NEW cfg, Good(cfg),
           job' = Advance(r, pc, cfg) \/ job' = Over(r),
           job[r].pc # "set",
           UNCHANGED <<saved, active, flow, links, spent, draft, raced>>
    PROVE  StorageInv'
  <1>1. /\ \A q \in Requests : q # r => job'[q] = job[q]
        /\ job'[r].pc # "set"
        /\ \A q \in Requests : Good(job'[q].cfg)
    BY AdvanceTyped
  <1>2. StorageTyped'
    BY AdvanceTyped DEF StorageInv, StorageTyped
  <1>3. AllGood' /\ Built'
    BY <1>1 DEF StorageInv, AllGood, Built
  <1>4. LinksInv'
    BY DEF StorageInv, LinksInv
  <1>5. ActivationInv'
    BY <1>1 DEF StorageInv, ActivationInv, Crossed, Chosen
  <1> QED
    BY <1>2, <1>3, <1>4, <1>5 DEF StorageInv

LEMMA ReadingStepsInv ==
    ASSUME StorageInv, NEW r \in Requests,
           UseLocal(r) \/ UseS3(r) \/ SelfTest(r) \/ SetApp(r) \/ Connect(r)
    PROVE  StorageInv'
  <1>0. Good(saved) /\ Good(job[r].cfg)
    BY DEF StorageInv, AllGood
  <1>1. CASE UseLocal(r)
    BY <1>1, RequestMoves, LocalIsGood, NoJobFields DEF UseLocal
  <1>2. CASE UseS3(r)
    <2>1. PICK b \in Buckets, f \in Folders, t \in {Secret(c) : c \in Buckets} \cup {Typo, NoToken} :
             job' = Advance(r, "test", Config("s3", b, S3Secret(t), Nothing, f))
      BY <1>2 DEF UseS3
    <2>2. t \in AnyToken
      BY <2>1 DEF AnyToken, Secret, Typo, NoToken, Grant
    <2>3. S3Secret(t) \in AnyToken
      BY <1>0, <2>2 DEF S3Secret, Good, AnyConfig
    <2>4. Good(Config("s3", b, S3Secret(t), Nothing, f))
      BY <2>1, <2>3 DEF Good, Fits, Config, AnyConfig, OAuthProviders
    <2> QED
      BY <1>2, <2>1, <2>4, RequestMoves, NoJobFields DEF UseS3
  <1>3. CASE SelfTest(r)
    BY <1>0, <1>3, RequestMoves DEF SelfTest
  <1>4. CASE SetApp(r)
    <2>1. PICK p \in Clouds, a \in Apps, f \in Folders :
             job' = Advance(r, "saveapp", IF KeepToken(p, a)
                                    THEN Config(p, a, saved.token, saved.label, f)
                                    ELSE Config(p, a, NoToken, Nothing, f))
      BY <1>4 DEF SetApp
    <2>2. p \in OAuthProviders
      BY StorageAssumption
    <2>3. ASSUME KeepToken(p, a) PROVE Good(Config(p, a, saved.token, saved.label, f))
      BY <1>0, <2>2, <2>3 DEF KeepToken, Good, Fits, Config, AnyConfig
    <2>4. Good(Config(p, a, NoToken, Nothing, f))
      BY <2>2 DEF Good, Fits, Config, AnyConfig, AnyToken, NoToken
    <2> QED
      BY <1>4, <2>1, <2>3, <2>4, RequestMoves, NoJobFields DEF SetApp
  <1>5. CASE Connect(r)
    BY <1>0, <1>5, RequestMoves, NoJobFields DEF Connect
  <1> QED
    BY <1>1, <1>2, <1>3, <1>4, <1>5

LEMMA ConsentInv ==
    ASSUME StorageInv, NEW r \in Requests, BeginFlow(r) \/ Callback(r) \/ Exchange(r)
    PROVE  StorageInv'
  <1>0. /\ Good(job[r].cfg) /\ Good(flow.pending) /\ job[r] \in AnyJob
        /\ job \in [Requests -> AnyJob] /\ MaxFlows \in Nat
    BY StorageAssumption DEF StorageInv, AllGood, StorageTyped
  <1>1. CASE BeginFlow(r)
    <2>1. PICK i \in Links :
             /\ \A l \in links : l.state < i
             /\ flow' = [state |-> i, pending |-> job[r].cfg]
             /\ links' = links \cup {[state |-> i, prov |-> job[r].cfg.prov, app |-> job[r].cfg.app]}
      BY <1>1 DEF BeginFlow
    <2>2. job' = Over(r) /\ job[r].pc # "set" /\ UNCHANGED <<saved, active, spent, draft, raced>>
      BY <1>1 DEF BeginFlow
    <2>3. /\ \A q \in Requests : q # r => job'[q] = job[q]
          /\ job'[r].pc # "set" /\ job' \in [Requests -> AnyJob]
          /\ \A q \in Requests : Good(job'[q].cfg)
      BY <2>2, AdvanceTyped, LocalIsGood
    <2>4. flow'.state = i /\ flow'.pending = job[r].cfg
      BY <2>1
    <2>5. StorageTyped'
      BY <1>0, <2>1, <2>2, <2>3 DEF StorageInv, StorageTyped, Good, AnyConfig
    <2>6. AllGood' /\ Built'
      BY <1>0, <2>2, <2>3, <2>4 DEF StorageInv, AllGood, Built
    <2>7. LinksInv'
      <3>1. i \notin spent
        BY <1>0, <2>1 DEF StorageInv, LinksInv, Links
      <3> QED
        BY <2>1, <2>2, <2>4, <3>1 DEF StorageInv, LinksInv
    <2>8. ActivationInv'
      BY <2>2, <2>3 DEF StorageInv, ActivationInv, Crossed, Chosen
    <2> QED
      BY <2>5, <2>6, <2>7, <2>8 DEF StorageInv
  <1>2. CASE Callback(r)
    <2>1. PICK l \in links, u \in Users :
             /\ job' = IF l.state = flow.state
                       THEN [job EXCEPT ![r] = [pc |-> "exchange", cfg |-> flow.pending,
                                                link |-> l.state, user |-> u]]
                       ELSE job
             /\ spent' = IF l.state = flow.state THEN spent \cup {l.state} ELSE spent
      BY <1>2 DEF Callback
    <2>2. /\ job[r].pc = "idle" /\ UNCHANGED <<saved, active, links, draft, raced>>
          /\ flow'.state = NoLink /\ flow'.pending = flow.pending /\ flow' = Cleared
      BY <1>2, NoJobFields DEF Callback, Cleared, StorageInv, StorageTyped
    <2>3. [pc |-> "exchange", cfg |-> flow.pending, link |-> l.state, user |-> u] \in AnyJob
      BY <1>0, <2>1 DEF AnyJob, Good, StorageInv, StorageTyped
    <2>4. /\ \A q \in Requests : q # r => job'[q] = job[q]
          /\ job'[r].pc # "set" /\ job' \in [Requests -> AnyJob]
          /\ \A q \in Requests : Good(job'[q].cfg)
      BY <1>0, <2>1, <2>2, <2>3 DEF StorageInv, AllGood
    <2>5. StorageTyped'
      BY <2>2, <2>4 DEF StorageInv, StorageTyped, Cleared
    <2>6. AllGood' /\ Built'
      BY <1>0, <2>2, <2>4 DEF StorageInv, AllGood, Built
    <2>7. LinksInv'
      BY <2>1, <2>2 DEF StorageInv, LinksInv
    <2>8. ActivationInv'
      BY <2>2, <2>4 DEF StorageInv, ActivationInv, Crossed, Chosen
    <2> QED
      BY <2>5, <2>6, <2>7, <2>8 DEF StorageInv
  <1>3. CASE Exchange(r)
    <2>1. CASE job' = Over(r)
      BY <1>3, <2>1, LocalIsGood, RequestMoves DEF Exchange
    <2>2. ASSUME NEW l \in links, NEW label \in {job[r].user, Nothing},
                 l.prov = job[r].cfg.prov, l.app = job[r].cfg.app,
                 job' = Advance(r, "save", [job[r].cfg EXCEPT
                          !.token = Grant(l.prov, l.app, job[r].user), !.label = label])
          PROVE  StorageInv'
      <3> DEFINE cfg == [job[r].cfg EXCEPT
                          !.token = Grant(l.prov, l.app, job[r].user), !.label = label]
      <3>1. job[r].cfg \in AnyConfig /\ job[r].user \in Users \cup {Nothing}
        BY <1>0 DEF AnyJob
      <3>2. /\ cfg.prov = job[r].cfg.prov /\ cfg.app = job[r].cfg.app /\ cfg.label = label
            /\ cfg.token = Grant(l.prov, l.app, job[r].user) /\ cfg.folder = job[r].cfg.folder
        BY <3>1 DEF AnyConfig
      <3>3. Fits(cfg)
        BY <2>2, <3>2 DEF Fits, Grant
      <3>4. l.prov \in OAuthProviders \cup {"local", "s3"} /\ l.app \in Apps \cup Buckets \cup {Nothing}
        BY <2>2 DEF StorageInv, StorageTyped
      <3>5. Grant(l.prov, l.app, job[r].user) \in AnyToken
        BY <3>1, <3>4 DEF AnyToken, Grant
      <3>6. cfg \in AnyConfig
        BY <2>2, <3>1, <3>5 DEF AnyConfig
      <3>7. Good(cfg)
        BY <3>3, <3>6 DEF Good
      <3>8. job' = Advance(r, "save", cfg) /\ job[r].pc # "set"
            /\ UNCHANGED <<saved, active, flow, links, spent, draft, raced>>
        BY <1>3, <2>2 DEF Exchange
      <3> HIDE DEF cfg
      <3> QED
        BY <3>7, <3>8, RequestMoves
    <2> QED
      BY <1>3, <2>1, <2>2 DEF Exchange
  <1> QED
    BY <1>1, <1>2, <1>3

\* The steps that write the settings or change the active backend.
LEMMA SaveAppInv ==
    ASSUME StorageInv, NEW r \in Requests, SaveApp(r)
    PROVE  StorageInv'
  <1>1. /\ job' = Over(r) /\ job[r].pc = "saveapp"
        /\ UNCHANGED <<active, flow, links, spent, raced>>
        /\ (saved' = job[r].cfg /\ draft' = TRUE) \/ UNCHANGED <<saved, draft>>
    BY DEF SaveApp
  <1>2. /\ \A q \in Requests : q # r => job'[q] = job[q]
        /\ job'[r].pc # "set" /\ job' \in [Requests -> AnyJob]
        /\ \A q \in Requests : Good(job'[q].cfg)
    BY <1>1, AdvanceTyped, LocalIsGood
  <1>3. StorageTyped'
    BY <1>1, <1>2 DEF StorageInv, StorageTyped
  <1>4. AllGood' /\ Built'
    BY <1>1, <1>2 DEF StorageInv, AllGood, Built
  <1>5. LinksInv'
    BY <1>1 DEF StorageInv, LinksInv
  <1>6. ActivationInv'
    <2>1. CASE draft' = TRUE
      BY <1>1, <1>2, <2>1 DEF StorageInv, ActivationInv, Crossed
    <2>2. CASE UNCHANGED <<saved, draft>>
      BY <1>1, <1>2, <2>2 DEF StorageInv, ActivationInv, Crossed, Chosen
    <2> QED
      BY <1>1, <2>1, <2>2
  <1> QED
    BY <1>3, <1>4, <1>5, <1>6 DEF StorageInv

LEMMA SaveInv ==
    ASSUME StorageInv, NEW r \in Requests, Save(r)
    PROVE  StorageInv'
  <1>1. Good(job[r].cfg) /\ job[r].pc = "save" /\ UNCHANGED <<active, flow, links, spent>>
    BY DEF StorageInv, AllGood, Save
  <1>2. CASE job' = Over(r) /\ UNCHANGED <<saved, draft, raced>>
    BY <1>1, <1>2, RequestMoves
  <1>3. ASSUME Buildable(job[r].cfg), saved' = job[r].cfg, draft' = FALSE,
               raced' = (raced \/ \E q \in Requests : job[q].pc = "set"),
               job' = Advance(r, "set", job[r].cfg)
        PROVE  StorageInv'
    <2>1. /\ \A q \in Requests : q # r => job'[q] = job[q]
          /\ job'[r].pc = "set" /\ job'[r].cfg = job[r].cfg
      BY <1>3 DEF Advance, StorageInv, StorageTyped, AnyJob
    <2>2. /\ job' \in [Requests -> AnyJob]
          /\ \A q \in Requests : Good(job'[q].cfg)
      BY <1>1, <1>3, AdvanceTyped
    <2>3. StorageTyped'
      BY <1>1, <1>3, <2>2 DEF StorageInv, StorageTyped
    <2>4. AllGood' /\ Built'
      BY <1>1, <1>3, <2>1, <2>2 DEF StorageInv, AllGood, Built
    <2>5. LinksInv'
      BY <1>1 DEF StorageInv, LinksInv
    <2>6. ActivationInv'
      BY <1>1, <1>3, <2>1 DEF StorageInv, StorageTyped, ActivationInv, Crossed
    <2> QED
      BY <2>3, <2>4, <2>5, <2>6 DEF StorageInv
  <1> QED
    BY <1>2, <1>3 DEF Save, SavedNow

LEMMA SetBackendInv ==
    ASSUME StorageInv, NEW r \in Requests, SetBackend(r)
    PROVE  StorageInv'
  <1>1. /\ Good(job[r].cfg) /\ Buildable(job[r].cfg) /\ job[r].pc = "set"
        /\ active' = job[r].cfg /\ job' = Over(r)
        /\ UNCHANGED <<saved, flow, links, spent, draft, raced>>
    BY DEF StorageInv, AllGood, Built, SetBackend, Activate
  <1>2. /\ \A q \in Requests : q # r => job'[q] = job[q]
        /\ job'[r].pc # "set" /\ job' \in [Requests -> AnyJob]
        /\ \A q \in Requests : Good(job'[q].cfg)
    BY <1>1, AdvanceTyped, LocalIsGood
  <1>3. StorageTyped'
    BY <1>1, <1>2 DEF StorageInv, StorageTyped
  <1>4. AllGood' /\ Built'
    BY <1>1, <1>2 DEF StorageInv, AllGood, Built
  <1>5. LinksInv'
    BY <1>1 DEF StorageInv, LinksInv
  <1>6. ActivationInv'
    <2>1. Buildable(saved) => Chosen' = saved
      BY <1>1 DEF Chosen
    <2> QED
      BY <1>1, <1>2, <2>1 DEF StorageInv, ActivationInv, Crossed
  <1> QED
    BY <1>3, <1>4, <1>5, <1>6 DEF StorageInv

LEMMA StorageRestartInv == StorageInv /\ StorageRestart => StorageInv'
  <1> SUFFICES ASSUME StorageInv, StorageRestart PROVE StorageInv'
    OBVIOUS
  <1> USE LocalIsGood
  <1>1. /\ active' = Chosen /\ UNCHANGED saved /\ Chosen' = Chosen
        /\ \A r \in Requests : job'[r] = NoJob
    BY DEF StorageRestart, Activate, Chosen
  <1>2. Good(Chosen) /\ Buildable(Chosen)
    BY DEF StorageInv, AllGood, Chosen
  <1>3. StorageTyped'
    BY DEF StorageRestart, StorageTyped, NoJob, NoFlow, Good, AnyJob
  <1>4. AllGood' /\ Built'
    BY <1>1, <1>2, NoJobFields DEF StorageInv, StorageRestart, AllGood, Built, NoFlow
  <1>5. LinksInv'
    BY DEF StorageRestart, LinksInv, NoFlow
  <1>6. ActivationInv'
    BY <1>1, NoJobFields DEF StorageRestart, ActivationInv, Crossed
  <1> QED
    BY <1>3, <1>4, <1>5, <1>6 DEF StorageInv

LEMMA StorageInvNext == StorageInv /\ [StorageNext]_storageVars => StorageInv'
  <1> SUFFICES ASSUME StorageInv, [StorageNext]_storageVars PROVE StorageInv'
    OBVIOUS
  <1>1. CASE UNCHANGED storageVars
    BY <1>1 DEF storageVars, StorageInv, StorageTyped, AllGood, Built, LinksInv, ActivationInv,
       Crossed, Chosen
  <1>2. CASE StorageNext
    BY <1>2, StorageRestartInv, ReadingStepsInv, ConsentInv, SaveAppInv, SaveInv, SetBackendInv
       DEF StorageNext
  <1> QED
    BY <1>1, <1>2

\* The parts above hold in every state of the storage configuration.
THEOREM StorageInvariant == StorageSpec => []StorageInv
  BY StorageInvInit, StorageInvNext, PTL DEF StorageSpec

\* However settings change while a consent is under way, a refresh token is
\* only ever kept with the app and provider it was granted to
\* (handleStorageSetApp, handleOAuthCallback).
THEOREM TokensFitTheirApp == StorageSpec => []TokensFit
  <1>1. StorageInv => TokensFit
    BY DEF StorageInv, AllGood, Good, Fits, TokensFit
  <1> QED
    BY <1>1, StorageInvariant, PTL

\* With no request at work, initStorage finds the backend that is active,
\* unless credentials were saved without connecting or activations crossed.
THEOREM RestartFindsBackend == StorageSpec => []RestartKeepsBackend
  <1>1. StorageInv => RestartKeepsBackend
    BY NoJobFields DEF StorageInv, ActivationInv, Crossed, RestartKeepsBackend
  <1> QED
    BY <1>1, StorageInvariant, PTL

\* No consent link is accepted twice: the expected state is cleared by every
\* callback (handleOAuthCallback).
THEOREM ConsentIsOneTime == StorageSpec => LinksAreOneTime
  <1>1. ASSUME StorageInv, [StorageNext]_storageVars
        PROVE  [\A r \in Requests : job'[r].pc = "exchange" /\ job[r].pc # "exchange"
                   => job'[r].link \notin spent]_storageVars
    <2> SUFFICES ASSUME StorageNext, NEW r \in Requests, job'[r].pc = "exchange", job[r].pc # "exchange"
                 PROVE  job'[r].link \notin spent
      BY <1>1
    <2>1. CASE StorageRestart
      BY <2>1, NoJobFields DEF StorageRestart
    <2>2. ASSUME NEW q \in Requests, Callback(q) PROVE job'[r].link \notin spent
      <3>1. PICK l \in links, u \in Users :
               job' = IF l.state = flow.state
                      THEN [job EXCEPT ![q] = [pc |-> "exchange", cfg |-> flow.pending,
                                               link |-> l.state, user |-> u]]
                      ELSE job
        BY <2>2 DEF Callback
      <3>2. l.state \in Links /\ l.state # NoLink
        BY <1>1, StorageAssumption DEF StorageInv, StorageTyped, Links, NoLink
      <3>3. l.state = flow.state /\ job'[r].link = l.state
        BY <1>1, <3>1 DEF StorageInv, StorageTyped
      <3> QED
        BY <1>1, <3>2, <3>3 DEF StorageInv, LinksInv
    <2>3. ASSUME NEW q \in Requests, NEW pc \in {"save", "test", "saveapp", "flow", "set"}, NEW cfg,
                 job' = Advance(q, pc, cfg) \/ job' = Over(q)
          PROVE  FALSE
      BY <1>1, <2>3, NoJobFields DEF Advance, Over, StorageInv, StorageTyped, AnyJob
    <2> QED
      BY <2>1, <2>2, <2>3 DEF StorageNext, UseLocal, UseS3, SelfTest, SetApp, SaveApp, Connect,
         BeginFlow, Exchange, Save, SetBackend
  <1> QED
    BY <1>1, StorageInvariant, PTL DEF StorageSpec, LinksAreOneTime

\* "provider + account + folder distinguishes distinct destinations"
\* (storage.go): a switch or restart that leads the backups elsewhere changes
\* the backend's identifier, except between accounts that were not named.
THEOREM IdentifiersAreDistinct == StorageSpec => IdsIdentify
  <1>1. ASSUME StorageInv, StorageInv'
        PROVE  BackendId(active') = BackendId(active) /\ ~Unnamed(active)
                  => Destination(active') = Destination(active)
    <2> SUFFICES ASSUME BackendId(active') = BackendId(active), ~Unnamed(active)
                 PROVE  Destination(active') = Destination(active)
      OBVIOUS
    <2>1. /\ active.prov \in OAuthProviders \cup {"local", "s3"}
          /\ Fits(active) /\ Fits(active') /\ Buildable(active) /\ Buildable(active')
      BY <1>1 DEF StorageInv, AllGood, Good, Built, AnyConfig
    <2>2. active'.prov = active.prov /\ active'.folder = active.folder
          /\ (IF active'.prov = "s3" THEN active'.app ELSE active'.label)
             = (IF active.prov = "s3" THEN active.app ELSE active.label)
      BY DEF BackendId
    <2>3. CASE active.prov = "local" \/ active.prov = "s3"
      BY <2>2, <2>3 DEF Destination
    <2>4. CASE active.prov \in OAuthProviders
      <3>1. active.token # NoToken /\ active'.token # NoToken
        BY <2>1, <2>2, <2>4 DEF Buildable, OAuthProviders
      <3>2. active.label # Nothing /\ active'.label = active.label
        BY <2>2, <2>4 DEF Unnamed, OAuthProviders
      <3>3. active.token.user = active'.token.user
        BY <2>1, <2>2, <2>4, <3>1, <3>2 DEF Fits
      <3> QED
        BY <2>2, <2>4, <3>3 DEF Destination, OAuthProviders
    <2> QED
      BY <2>1, <2>3, <2>4
  <1> QED
    BY <1>1, StorageInvariant, PTL DEF IdsIdentify
=============================================================================
