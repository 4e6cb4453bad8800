------------------------------- MODULE JobSync -------------------------------
(***************************************************************************)
(* The jobs of one agent, kept in three places: the server's table, the    *)
(* agent's cache of it, and agent.yaml.  The GUI edits the table, the user *)
(* edits the file; the agent sends what differs between file and cache,    *)
(* and after every change the server sends the whole table back, which     *)
(* replaces cache and file.                                                *)
(*                                                                         *)
(* A job's specification is reduced to its name and one switch: Enabled.   *)
(***************************************************************************)
EXTENDS Integers, SequencesExt

CONSTANTS
    MaxIds,      \* bound on the job ids store.NewID returns
    Names,       \* job names
    Gui,         \* requests of the GUI that may run at once
    MaxConn,     \* bound on the connections the agent makes
    MaxEdits,    \* bound on the edits of the user and the GUI together
    QueueCap,    \* capacity of a connection's send queue
    Overlap,     \* FALSE: requests run one after another, and the user saves
                 \* the file while the agent is not at work on it
    None

Ids   == 1..MaxIds
Conns == 1..MaxConn
Procs == Conns \cup Gui

VARIABLES
    jobs,      \* the jobs table: Ids -> Row, None without a row
    used,      \* the last id given out
    proc,      \* handlers of the connections and requests of the GUI
    hub,       \* hub.conns[agent], 0 if none
    up, down,  \* what a handler, and what the agent, will read
    link,      \* a.ws, 0 if none
    cache,     \* lc.serverJobs and jobs-cache.json
    sent,      \* lc.sentCreates
    file,      \* agent.yaml
    seen,      \* lc.lastHash: the content hashed last, None at start
    syncing,   \* goroutine of syncNow started by connectAndServe
    at,        \* what the holder of lc.mu is doing
    draft,     \* what the user will save
    edits, made

tableVars == <<jobs, used>>
netVars   == <<hub, up, down, link, made>>
agentVars == <<cache, sent, seen, syncing, at>>
userVars  == <<draft, edits>>
vars == <<tableVars, proc, netVars, agentVars, file, userVars>>

Specs   == [name : Names, enabled : BOOLEAN]
Row     == [spec : Specs, origin : {"client", "server"}, ver : Nat]
Entry   == [id : Ids \cup {None}, spec : Specs]
File    == [jobs : SUBSET Entry, delete : SUBSET Ids]
Change  == [id : Ids \cup {None}, spec : Specs, ver : Nat]
Table   == [Ids -> Row \cup {None}]

ASSUME JobSyncAssumption ==
    /\ MaxIds \in Nat \ {0} /\ MaxConn \in Nat \ {0} /\ MaxEdits \in Nat
    /\ QueueCap \in Nat \ {0} /\ Overlap \in BOOLEAN /\ Names # {}
    /\ Gui \cap Conns = {} /\ None \notin Ids \cup Names \cup Row \cup File

Idle == [pc |-> "idle", todo |-> {}, id |-> None, row |-> None, list |-> None]
At0  == [pc |-> "idle", got |-> None]
Empty == [i \in Ids |-> None]

\* Bound: one more edit, in the GUI or of the file.
Count == edits < MaxEdits /\ edits' = edits + 1

\* Request p need not wait for another one.
Free(p) == Overlap \/ \A q \in Procs \ {p} : proc[q].pc \in {"idle", "gone"}

Goto(p, pc) == [proc EXCEPT ![p].pc = pc]

\* After its changes a request calls pushJobs; a handler first does the rest
\* of its message.
After(p) == IF p \in Gui THEN "list" ELSE "sync"

-----------------------------------------------------------------------------
(* The server: requests of the GUI *)

\* Jobs are created enabled, in the GUI and by backup-agent job add.
New(n) == [name |-> n, enabled |-> TRUE]

\* handleJobSave of a new job.
GuiCreate(p, i, n) ==
    /\ proc[p] = Idle /\ Free(p) /\ i = used + 1 /\ Count
    /\ used' = i
    /\ proc' = [proc EXCEPT ![p] = [Idle EXCEPT !.pc = "save", !.id = i,
                   !.row = [spec |-> New(n), origin |-> "server", ver |-> 1]]]
    /\ UNCHANGED <<jobs, netVars, agentVars, file, draft>>

\* Mutant: an edit in the GUI keeps the version.
EditedSameVersion(row, s) == [row EXCEPT !.spec = s]

\* The row an edit in the GUI makes of the one it has read.
Edited(row, s) == [row EXCEPT !.spec = s, !.ver = @ + 1]

\* handleJobSave of an existing job reads its row first.
GuiEdit(p, i, s) ==
    /\ proc[p] = Idle /\ Free(p) /\ jobs[i] # None /\ Count
    /\ proc' = [proc EXCEPT ![p] = [Idle EXCEPT !.pc = "save", !.id = i,
                                                !.row = Edited(jobs[i], s)]]
    /\ UNCHANGED <<tableVars, netVars, agentVars, file, draft>>

\* handleJobDelete.
GuiDelete(p, i) ==
    /\ proc[p] = Idle /\ Free(p) /\ jobs[i] # None /\ Count
    /\ proc' = [proc EXCEPT ![p] = [Idle EXCEPT !.pc = "delete", !.id = i]]
    /\ UNCHANGED <<tableVars, netVars, agentVars, file, draft>>

\* SaveJob inserts or replaces the row.
SaveJob(p) ==
    /\ proc[p].pc = "save"
    /\ jobs' = [jobs EXCEPT ![proc[p].id] = proc[p].row]
    /\ proc' = [proc EXCEPT ![p].pc = After(p), ![p].id = None, ![p].row = None]
    /\ UNCHANGED <<used, netVars, agentVars, file, userVars>>

DeleteJob(p) ==
    /\ proc[p].pc = "delete"
    /\ jobs' = [jobs EXCEPT ![proc[p].id] = None]
    /\ proc' = [proc EXCEPT ![p].pc = "list", ![p].id = None]
    /\ UNCHANGED <<used, netVars, agentVars, file, userVars>>

\* pushJobs lists the jobs ...
ListJobs(p) ==
    /\ proc[p].pc = "list"
    /\ proc' = [proc EXCEPT ![p].pc = "push", ![p].list = jobs]
    /\ UNCHANGED <<tableVars, netVars, agentVars, file, userVars>>

\* ... and sends the list; Send reports failure, pushJobs does not look.
PushJobs(p) ==
    /\ proc[p].pc = "push"
    /\ down' = IF hub # 0 /\ Len(down[hub]) < QueueCap
               THEN [down EXCEPT ![hub] = Append(@, proc[p].list)] ELSE down
    /\ proc' = [proc EXCEPT ![p] = Idle]
    /\ UNCHANGED <<tableVars, hub, up, link, made, agentVars, file, userVars>>

-----------------------------------------------------------------------------
(* The server: the handler of a connection *)

\* Mutant: a reconnecting agent is not sent the jobs.
HelloSilent == Idle

Hello == [Idle EXCEPT !.pc = "list"]

\* handleAgentMessage: hello and jobs_sync end in a push, job_delete only if
\* the job exists.
Take(c) ==
    /\ proc[c] = Idle /\ Free(c) /\ up[c] # <<>>
    /\ LET m == Head(up[c]) IN
       proc' = [proc EXCEPT ![c] =
                  CASE m.type = "hello"  -> Hello
                    [] m.type = "sync"   -> [Idle EXCEPT !.pc = "sync", !.todo = m.jobs]
                    [] m.type = "delete" -> IF jobs[m.id] = None THEN Idle
                                            ELSE [Idle EXCEPT !.pc = "delete", !.id = m.id]]
    /\ up' = [up EXCEPT ![c] = Tail(@)]
    /\ UNCHANGED <<tableVars, hub, down, link, made, agentVars, file, userVars>>

\* A new job that comes from the client.
ClientRow(s) == [spec |-> s, origin |-> "client", ver |-> 1]

\* handleJobsSync: a job without id is new.
SyncCreate(c, i) ==
    /\ proc[c].pc = "sync" /\ i = used + 1
    /\ \E j \in proc[c].todo :
         /\ j.id = None
         /\ jobs' = [jobs EXCEPT ![i] = ClientRow(j.spec)]
         /\ proc' = [proc EXCEPT ![c].todo = @ \ {j}]
    /\ used' = i
    /\ UNCHANGED <<netVars, agentVars, file, userVars>>

\* validateJob refuses the job, and it is skipped.
SyncRefuse(c) ==
    /\ proc[c].pc = "sync"
    /\ \E j \in proc[c].todo :
         proc' = [proc EXCEPT ![c].todo = @ \ {j}]
    /\ UNCHANGED <<tableVars, netVars, agentVars, file, userVars>>

\* An edit wins with a higher version only.
Newer(j, row) == row # None /\ j.ver > row.ver

\* An edit replaces the row it has read if its version is the higher one.
SyncEdit(c) ==
    /\ proc[c].pc = "sync"
    /\ \E j \in proc[c].todo :
         /\ j.id # None
         /\ proc' = IF Newer(j, jobs[j.id])
                    THEN [proc EXCEPT ![c].pc = "save", ![c].todo = @ \ {j}, ![c].id = j.id,
                            ![c].row = [jobs[j.id] EXCEPT !.spec = j.spec, !.ver = j.ver]]
                    ELSE [proc EXCEPT ![c].todo = @ \ {j}]
    /\ UNCHANGED <<tableVars, netVars, agentVars, file, userVars>>

\* Mutant: nothing is pushed back.
SyncEndSilent(c) ==
    /\ proc[c].pc = "sync" /\ proc[c].todo = {}
    /\ proc' = [proc EXCEPT ![c] = Idle]
    /\ UNCHANGED <<tableVars, netVars, agentVars, file, userVars>>

SyncEnd(c) ==
    /\ proc[c].pc = "sync" /\ proc[c].todo = {}
    /\ proc' = Goto(c, "list")
    /\ UNCHANGED <<tableVars, netVars, agentVars, file, userVars>>

\* The handler finds its connection broken, with or without having read all
\* that the agent had sent, and unregisters it.
Leave(c) ==
    /\ proc[c] = Idle /\ link # c /\ c <= made
    /\ proc' = Goto(c, "gone")
    /\ hub' = IF hub = c THEN 0 ELSE hub
    /\ up' = [up EXCEPT ![c] = <<>>]
    /\ UNCHANGED <<tableVars, down, link, made, agentVars, file, userVars>>

-----------------------------------------------------------------------------
(* The agent *)

\* connectAndServe: dial, hello, and a goroutine for syncNow.
Connect ==
    /\ link = 0 /\ made < MaxConn
    /\ made' = made + 1 /\ link' = made' /\ hub' = made'
    /\ up' = [up EXCEPT ![made'] = <<[type |-> "hello"]>>]
    /\ syncing' = TRUE
    /\ UNCHANGED <<tableVars, proc, down, cache, sent, seen, at, file, userVars>>

\* The connection breaks; what the server has queued for it is lost.
Break ==
    /\ link # 0 /\ made < MaxConn
    /\ link' = 0 /\ down' = [down EXCEPT ![link] = <<>>]
    /\ UNCHANGED <<tableVars, proc, hub, up, made, agentVars, file, userVars>>

\* The agent restarts: loadCache, and nothing else it knew.
Restart ==
    /\ made < MaxConn
    /\ link' = 0 /\ down' = [c \in Conns |-> <<>>]
    /\ sent' = {} /\ seen' = None /\ syncing' = FALSE /\ at' = At0
    /\ UNCHANGED <<tableVars, proc, hub, up, made, cache, file, userVars>>

\* applyServerJobs: the cache and the creates in flight ...
ApplyCache ==
    /\ at.pc = "idle" /\ link # 0 /\ down[link] # <<>>
    /\ cache' = Head(down[link]) /\ sent' = {}
    /\ down' = [down EXCEPT ![link] = Tail(@)]
    /\ at' = [At0 EXCEPT !.pc = "cached"]
    /\ UNCHANGED <<tableVars, proc, hub, up, link, made, seen, syncing, file, userVars>>

\* yamlFromProto of every job; no delete list.
FileOf(t) == [jobs |-> {[id |-> i, spec |-> t[i].spec] : i \in {k \in Ids : t[k] # None}},
              delete |-> {}]

\* ... then the file is written ... (a write that fails is not modelled)
ApplyWrite ==
    /\ at.pc = "cached"
    /\ file' = FileOf(cache)
    /\ at' = [At0 EXCEPT !.pc = "written"]
    /\ UNCHANGED <<tableVars, proc, netVars, cache, sent, seen, syncing, userVars>>

\* ... and what is there now is hashed.
ApplyHash ==
    /\ at.pc = "written"
    /\ seen' = file /\ at' = At0
    /\ UNCHANGED <<tableVars, proc, netVars, cache, sent, syncing, file, userVars>>

\* syncNow, called by watch or after a connect, reads the file ...
SyncRead ==
    /\ at.pc = "idle" /\ (syncing \/ file # seen)
    /\ at' = [pc |-> "read", got |-> file]
    /\ syncing' = FALSE
    /\ UNCHANGED <<tableVars, proc, netVars, cache, sent, seen, file, userVars>>

\* What it sends: jobs without id unless one of that name is in flight, and
\* known jobs whose specification is not the cached one.
Creates(f) == {e \in f.jobs : e.id = None /\ e.spec.name \notin sent}
Edits(f)   == {e \in f.jobs : /\ e.id # None /\ cache[e.id] # None
                              /\ e.spec # cache[e.id].spec}
Changes(f) ==
    {[id |-> None, spec |-> e.spec, ver |-> 0] : e \in Creates(f)}
    \cup {[id |-> e.id, spec |-> e.spec, ver |-> cache[e.id].ver + 1] : e \in Edits(f)}

Deletes(f) == SetToSeq({[type |-> "delete", id |-> i] : i \in f.delete})

\* ... hashes it, and sends the changes and the deletions; offline it
\* forgets the creates, and the deletions stay in the file.
SyncSend ==
    /\ at.pc = "read"
    /\ seen' = file /\ at' = At0
    /\ LET f == at.got  ch == Changes(f) IN
       IF link = 0 THEN UNCHANGED <<up, sent>>
       ELSE /\ up' = [up EXCEPT ![link] = @ \o
                        (IF ch = {} THEN <<>> ELSE <<[type |-> "sync", jobs |-> ch]>>)
                        \o Deletes(f)]
            /\ sent' = sent \cup {e.spec.name : e \in Creates(f)}
    /\ UNCHANGED <<tableVars, proc, hub, down, link, made, cache, syncing, file, userVars>>

-----------------------------------------------------------------------------
(* The user: backup-agent job add, rm, enable, disable, or an editor.  Each *)
(* reads the file and saves it changed.                                    *)

JobAdd(f) == {[f EXCEPT !.jobs = @ \cup {[id |-> None, spec |-> s]}] :
                 s \in {New(n) : n \in Names \ {e.spec.name : e \in f.jobs}}}

JobRm(f) == {[jobs |-> f.jobs \ {e}, delete |-> f.delete \cup ({e.id} \ {None})] : e \in f.jobs}

JobEnable(f) == {[f EXCEPT !.jobs = (@ \ {e}) \cup {[e EXCEPT !.spec.enabled = ~ @]}] : e \in f.jobs}

EditFile ==
    /\ draft = None /\ Count
    /\ draft' \in JobAdd(file) \cup JobRm(file) \cup JobEnable(file)
    /\ UNCHANGED <<tableVars, proc, netVars, agentVars, file>>

SaveFile ==
    /\ draft # None /\ (Overlap \/ at.pc = "idle")
    /\ file' = draft /\ draft' = None
    /\ UNCHANGED <<tableVars, proc, netVars, agentVars, edits>>

-----------------------------------------------------------------------------
\* The agent is offline; its first job is known everywhere.
First == [Empty EXCEPT ![1] = [spec |-> New(CHOOSE n \in Names : TRUE),
                               origin |-> "server", ver |-> 1]]

Init ==
    /\ jobs = First /\ used = 1 /\ proc = [p \in Procs |-> Idle]
    /\ hub = 0 /\ link = 0 /\ made = 0
    /\ up = [c \in Conns |-> <<>>] /\ down = [c \in Conns |-> <<>>]
    /\ cache = jobs /\ sent = {} /\ seen = None /\ syncing = FALSE /\ at = At0
    /\ file = FileOf(jobs) /\ draft = None /\ edits = 0

GuiStart == \E p \in Gui, i \in Ids :
    \/ \E n \in Names : GuiCreate(p, i, n)
    \/ \E s \in Specs : GuiEdit(p, i, s)
    \/ GuiDelete(p, i)

ServerStep ==
    \/ \E p \in Procs : SaveJob(p) \/ DeleteJob(p) \/ ListJobs(p) \/ PushJobs(p)
    \/ \E c \in Conns : Take(c) \/ SyncEdit(c) \/ SyncEnd(c) \/ Leave(c) \/ SyncRefuse(c)
    \/ \E c \in Conns, i \in Ids : SyncCreate(c, i)

AgentStep == ApplyCache \/ ApplyWrite \/ ApplyHash \/ SyncRead \/ SyncSend

Next == GuiStart \/ ServerStep \/ AgentStep \/ Connect \/ Break \/ Restart \/ EditFile \/ SaveFile

\* The handlers, the GUI's requests and the agent go on; nobody has to edit,
\* and connections need not break.
Fairness == WF_vars(ServerStep) /\ WF_vars(AgentStep) /\ WF_vars(Connect)

Spec == Init /\ [][Next]_vars /\ Fairness

-----------------------------------------------------------------------------
\* The variables stay in their types: jobs, cache and file.
TypeOK ==
    /\ jobs \in Table /\ cache \in Table /\ used \in 0..MaxIds /\ sent \subseteq Names
    /\ file \in File /\ seen \in File \cup {None} /\ draft \in File \cup {None}
    /\ hub \in 0..made /\ link \in {0, made} /\ made \in 0..MaxConn
    /\ \A c \in Conns : \A k \in 1..Len(down[c]) : down[c][k] \in Table

\* Nothing is under way between the server, the agent and the user.
Quiet ==
    /\ link # 0 /\ hub = link /\ up[link] = <<>> /\ down[link] = <<>>
    /\ \A p \in Procs : proc[p].pc \in {"idle", "gone"}
    /\ \A c \in Conns : up[c] = <<>>
    /\ at.pc = "idle" /\ ~ syncing /\ file = seen

\* The agent knows the server's jobs, and the file asks for nothing else: no
\* job waits to be created, changed or deleted.
Agreed ==
    /\ cache = jobs
    /\ \A e \in file.jobs : e.id # None /\ (cache[e.id] # None => e.spec = cache[e.id].spec)
    /\ \A i \in file.delete : cache[i] = None

\* pushJobs, syncNow: once everything sent has been handled, server and agent
\* agree, whatever was edited where and however often the connection broke or
\* the agent restarted ("so the file always reflects live config").
QuietAgrees == Quiet => Agreed

\* handleJobSave, handleJobsSync: a change of a job raises its version and
\* keeps its origin, and a deleted job never comes back.
ChangesAreVersioned ==
    [][\A i \in Ids :
         /\ (jobs[i] # None /\ jobs'[i] \notin {jobs[i], None})
               => jobs'[i].ver > jobs[i].ver /\ jobs'[i].origin = jobs[i].origin
         /\ (jobs[i] = None /\ jobs'[i] # None) => jobs'[i].ver = 1
      ]_vars

\* An agent that stays connected ends up agreeing with the server.
Converges == <>[](link # 0 /\ draft = None) => <>[]Agreed
=============================================================================
