---------------------------- MODULE JobSyncProofs ----------------------------
(***************************************************************************)
(* The jobs of an agent, for any numbers of jobs, connections and edits:   *)
(* where requests do not overlap, a change of a job raises its version,    *)
(* and once all is quiet the table, the cache and the file agree.          *)
(***************************************************************************)
EXTENDS JobSync, FiniteSetTheorems, SequenceTheorems, TLAPS

Pcs   == {"idle", "save", "delete", "list", "push", "sync", "gone"}
Tasks == [pc : Pcs, todo : SUBSET Change, id : Ids \cup {None}, row : Row \cup {None},
          list : Table \cup {None}]
Dels  == [type : {"delete"}, id : Ids]
Msgs  == [type : {"hello"}] \cup [type : {"sync"}, jobs : SUBSET Change] \cup Dels

\* What a request has, by the step it is at.
Shape(t) ==
    /\ t.pc = "idle" => t = Idle
    /\ t.pc = "save" => t.id \in Ids /\ t.row \in Row
    /\ t.pc = "delete" => t.id \in Ids
    /\ t.pc = "push" => t.list \in Table

Rows == jobs \in Table /\ used \in 0..MaxIds /\ \A i \in Ids : i > used => jobs[i] = None

Requests ==
    /\ proc \in [Procs -> Tasks]
    /\ \A p \in Procs : Shape(proc[p]) /\ (proc[p].pc = "save" => proc[p].id <= used)

Nets ==
    /\ made \in 0..MaxConn /\ hub \in 0..made /\ link \in {0, made}
    /\ up \in [Conns -> Seq(Msgs)] /\ down \in [Conns -> Seq(Table)]

Agent ==
    /\ cache \in Table /\ sent \subseteq Names /\ syncing \in BOOLEAN
    /\ file \in File /\ seen \in File \cup {None} /\ draft \in File \cup {None}
    /\ at \in [pc : {"idle", "cached", "written", "read"}, got : File \cup {None}]
    /\ at.pc = "read" => at.got \in File

Typed == Rows /\ Requests /\ Nets /\ Agent

\* What a request that is about to save a row makes of the table.
Ready(t) == /\ jobs[t.id] = None => t.row.ver = 1
            /\ jobs[t.id] # None => t.row.ver > jobs[t.id].ver /\ t.row.origin = jobs[t.id].origin

-----------------------------------------------------------------------------
(* The operators that the actions are built from *)

\* Idle is a request's state, and the constants of the model are typed.
LEMMA IdleIs ==
    /\ Idle \in Tasks /\ Shape(Idle) /\ Idle.pc = "idle" /\ Idle.todo = {}
    /\ Idle.id = None /\ Idle.row = None /\ Idle.list = None
BY DEF Idle, Tasks, Shape, Pcs

\* New.
LEMMA NewIs == \A n \in Names : New(n) \in Specs
BY DEF New, Specs

\* The file that is written for a table.
LEMMA FileOfIs == ASSUME NEW t \in Table PROVE FileOf(t) \in File
<1>1. ASSUME NEW i \in Ids, t[i] # None PROVE [id |-> i, spec |-> t[i].spec] \in Entry
  <2>1. t[i] \in Row BY <1>1 DEF Table
  <2> QED BY <2>1 DEF Row, Entry
<1>2. {[id |-> i, spec |-> t[i].spec] : i \in {k \in Ids : t[k] # None}} \in SUBSET Entry BY <1>1
<1> QED BY <1>2 DEF FileOf, File

\* What syncNow sends.
LEMMA ChangesAre == ASSUME Typed, NEW f \in File PROVE Changes(f) \subseteq Change
<1>1. f.jobs \subseteq Entry BY DEF File
<1>2. ASSUME NEW e \in Creates(f) PROVE [id |-> None, spec |-> e.spec, ver |-> 0] \in Change
  BY <1>1 DEF Creates, Entry, Change
<1>3. ASSUME NEW e \in Edits(f) PROVE [id |-> e.id, spec |-> e.spec, ver |-> cache[e.id].ver + 1] \in Change
  <2>1. e \in Entry /\ e.id # None /\ cache[e.id] # None BY <1>1 DEF Edits
  <2>2. e.id \in Ids /\ e.spec \in Specs BY <2>1 DEF Entry
  <2>3. cache[e.id] \in Row BY <2>1, <2>2 DEF Typed, Rows, Requests, Nets, Agent, Table
  <2>4. cache[e.id].ver + 1 \in Nat BY <2>3 DEF Row
  <2> QED BY <2>2, <2>4 DEF Change
<1> QED BY <1>2, <1>3 DEF Changes

\* The deletions, in some order.
LEMMA DeletesAre ==
    ASSUME NEW f \in File
    PROVE  /\ Deletes(f) \in Seq(Dels)
           /\ \A i \in f.delete : \E k \in 1..Len(Deletes(f)) : Deletes(f)[k] = [type |-> "delete", id |-> i]
<1> DEFINE S == {[type |-> "delete", id |-> i] : i \in f.delete}
<1>1. f.delete \subseteq Ids BY DEF File
<1>2. S \subseteq Dels BY <1>1 DEF Dels
<1>3. IsFiniteSet(f.delete)
  <2>1. IsFiniteSet(Ids) BY FS_Interval, JobSyncAssumption DEF Ids
  <2> QED BY <1>1, <2>1, FS_Subset
<1>4. ExistsBijection(f.delete, S)
  <2> DEFINE b == [i \in f.delete |-> [type |-> "delete", id |-> i]]
  <2>1. b \in [f.delete -> S] OBVIOUS
  <2>2. \A i, j \in f.delete : b[i] = b[j] => i = j OBVIOUS
  <2>3. \A s \in S : \E i \in f.delete : b[i] = s OBVIOUS
  <2>4. DOMAIN b = f.delete OBVIOUS
  <2> HIDE DEF b, S
  <2>5. b \in Bijection(f.delete, S) BY <2>1, <2>2, <2>3, <2>4 DEF Bijection, Injection, Surjection, IsInjective
  <2> QED BY <2>5 DEF ExistsBijection
<1> HIDE DEF S
<1>5. IsFiniteSet(S) BY <1>3, <1>4, FS_Bijection
<1>6. Cardinality(S) \in Nat /\ ExistsBijection(1..Cardinality(S), S) BY <1>5, FS_CardinalityType
<1> DEFINE n == Cardinality(S)
<1> HIDE DEF n
<1>7. n \in Nat /\ \E b \in [1..n -> S] : IsInjective(b) BY <1>6 DEF ExistsBijection, Bijection, Injection, n
<1> DEFINE d == CHOOSE b \in [1..n -> S] : IsInjective(b)
<1>8. d \in [1..n -> S] /\ IsInjective(d) BY <1>7
<1>9. d = Deletes(f) BY DEF Deletes, SetToSeq, d, n, S
<1> HIDE DEF d
<1>10. d \in Seq(S) /\ Len(d) = n BY <1>7, <1>8
<1>11. d \in Seq(Dels) BY <1>2, <1>10
<1> DEFINE R == {d[k] : k \in 1..n}
<1>12. R = S
  <2>1. d \in [1..n -> R] /\ (\A r \in R : \E k \in 1..n : d[k] = r) BY <1>8
  <2>2. R \in SUBSET S BY <1>8
  <2> HIDE DEF R
  <2>3. d \in Bijection(1..n, R) BY <1>8, <2>1 DEF Bijection, Injection, Surjection
  <2>4. Cardinality(R) = n BY <1>7, <2>3, FS_CountingElements DEF ExistsBijection
  <2> QED BY <1>5, <2>2, <2>4, FS_Subset DEF n
<1>13. \A i \in f.delete : \E k \in 1..n : d[k] = [type |-> "delete", id |-> i] BY <1>12 DEF S
<1> QED BY <1>9, <1>10, <1>11, <1>13

-----------------------------------------------------------------------------
(* What a step makes of the request that takes it *)

\* Request p is now t, and the others are as they were.
Moves(p, t) == t \in Tasks /\ Shape(t) /\ proc' = [proc EXCEPT ![p] = t]

\* A row of the table, or None.
LEMMA RowIs == ASSUME NEW t \in Table, NEW i \in Ids, t[i] # None PROVE t[i] \in Row
BY DEF Table

\* Handlers and requests of the GUI are different.
LEMMA ProcsAre == Conns \subseteq Procs /\ Gui \subseteq Procs /\ Conns \cap Gui = {}
BY JobSyncAssumption DEF Procs

\* The requests of the GUI.
LEMMA GuiMoves ==
    ASSUME Typed, NEW p \in Gui, NEW i \in Ids,
           \/ \E n \in Names : GuiCreate(p, i, n)
           \/ \E s \in Specs : GuiEdit(p, i, s)
           \/ GuiDelete(p, i)
    PROVE  /\ \E t \in Tasks : /\ Moves(p, t) /\ t.pc \in {"save", "delete"}
                               /\ t.pc = "save" => t.id <= used' /\ Ready(t)
           /\ used' \in 0..MaxIds /\ used' >= used
           /\ UNCHANGED <<jobs, netVars, agentVars, file, draft>>
<1>1. used \in Nat /\ MaxIds \in Nat /\ i \in Nat /\ i <= MaxIds BY JobSyncAssumption DEF Typed, Rows, Requests, Nets, Agent, Ids
<1>2. ASSUME NEW n \in Names, GuiCreate(p, i, n)
      PROVE  \E t \in Tasks : Moves(p, t) /\ t.pc = "save" /\ t.id <= used' /\ Ready(t)
  <2> DEFINE r == [spec |-> New(n), origin |-> "server", ver |-> 1]
             t == [Idle EXCEPT !.pc = "save", !.id = i, !.row = r]
  <2>1. r \in Row /\ r.ver = 1 BY NewIs DEF Row
  <2> HIDE DEF r
  <2>2. t \in Tasks BY <2>1, IdleIs DEF Tasks, Pcs
  <2>3. t.pc = "save" /\ t.id = i /\ t.row = r BY <2>2, IdleIs DEF Tasks
  <2>4. proc' = [proc EXCEPT ![p] = t] /\ i = used + 1 /\ used' = i BY <1>2 DEF GuiCreate, r
  <2> HIDE DEF t
  <2>5. jobs[i] = None BY <1>1, <2>4 DEF Typed, Rows, Requests, Nets, Agent
  <2>6. Shape(t) BY <2>1, <2>3 DEF Shape
  <2>7. Moves(p, t) BY <2>2, <2>4, <2>6 DEF Moves
  <2>8. t.id <= used' BY <1>1, <2>3, <2>4
  <2>9. Ready(t) BY <2>1, <2>3, <2>5 DEF Ready
  <2> QED BY <2>2, <2>3, <2>7, <2>8, <2>9
<1>3. ASSUME NEW s \in Specs, GuiEdit(p, i, s)
      PROVE  \E t \in Tasks : Moves(p, t) /\ t.pc = "save" /\ t.id <= used' /\ Ready(t)
  <2>1. jobs[i] # None /\ used' = used BY <1>3 DEF GuiEdit, tableVars
  <2>2. jobs[i] \in Row BY <2>1, RowIs DEF Typed, Rows, Requests, Nets, Agent
  <2> DEFINE r == Edited(jobs[i], s)
             t == [Idle EXCEPT !.pc = "save", !.id = i, !.row = r]
  <2>0. jobs[i].ver \in Nat /\ jobs[i].ver + 1 \in Nat BY <2>2 DEF Row
  <2>3. r \in Row BY <2>0, <2>2, Zenon DEF Row, Edited
  <2>4. r.ver = jobs[i].ver + 1 /\ r.origin = jobs[i].origin /\ jobs[i].ver \in Nat BY <2>0, <2>2 DEF Row, Edited
  <2> HIDE DEF r
  <2>5. t \in Tasks BY <2>3, IdleIs DEF Tasks, Pcs
  <2>6. t.pc = "save" /\ t.id = i /\ t.row = r BY <2>5, IdleIs DEF Tasks
  <2>7. proc' = [proc EXCEPT ![p] = t] BY <1>3 DEF GuiEdit, r
  <2> HIDE DEF t
  <2>8. Shape(t) BY <2>3, <2>6 DEF Shape
  <2>9. Moves(p, t) BY <2>5, <2>7, <2>8 DEF Moves
  <2>10. t.id <= used' BY <1>1, <2>1, <2>6 DEF Typed, Rows, Requests, Nets, Agent
  <2>11. Ready(t) BY <2>1, <2>4, <2>6 DEF Ready
  <2> QED BY <2>5, <2>6, <2>9, <2>10, <2>11
<1>4. CASE GuiDelete(p, i)
  <2> DEFINE t == [Idle EXCEPT !.pc = "delete", !.id = i]
  <2>1. t \in Tasks BY IdleIs DEF Tasks, Pcs
  <2>2. t.pc = "delete" /\ t.id = i BY <2>1, IdleIs DEF Tasks
  <2>3. proc' = [proc EXCEPT ![p] = t] BY <1>4 DEF GuiDelete
  <2> HIDE DEF t
  <2>4. Shape(t) BY <2>2 DEF Shape
  <2>5. Moves(p, t) /\ used' = used BY <1>4, <2>1, <2>3, <2>4 DEF Moves, GuiDelete, tableVars
  <2>6. UNCHANGED <<jobs, netVars, agentVars, file, draft>> BY <1>4 DEF GuiDelete, tableVars
  <2> QED BY <1>1, <2>1, <2>2, <2>5, <2>6 DEF Typed, Rows, Requests, Nets, Agent
<1>5. used' \in 0..MaxIds /\ used' >= used
  <2>1. used' = used \/ (used' = i /\ i = used + 1)
    BY DEF GuiCreate, GuiEdit, GuiDelete, tableVars
  <2> QED BY <1>1, <2>1 DEF Typed, Rows, Requests, Nets, Agent
<1>6. UNCHANGED <<jobs, netVars, agentVars, file, draft>> BY DEF GuiCreate, GuiEdit, GuiDelete, tableVars
<1> QED BY <1>2, <1>3, <1>4, <1>5, <1>6

\* SaveJob, DeleteJob, ListJobs and PushJobs.
LEMMA TableMoves ==
    ASSUME Typed, NEW p \in Procs, SaveJob(p) \/ DeleteJob(p) \/ ListJobs(p) \/ PushJobs(p)
    PROVE  \E t \in Tasks :
             /\ Moves(p, t)
             /\ \/ proc[p].pc = "save" /\ jobs' = [jobs EXCEPT ![proc[p].id] = proc[p].row]
                   /\ t.pc \in {"list", "sync"} /\ down' = down
                \/ proc[p].pc = "delete" /\ jobs' = [jobs EXCEPT ![proc[p].id] = None] /\ t.pc = "list" /\ down' = down
                \/ proc[p].pc = "list" /\ jobs' = jobs /\ t.pc = "push" /\ t.list = jobs /\ down' = down
                \/ proc[p].pc = "push" /\ jobs' = jobs /\ t = Idle /\ PushJobs(p)
<1>0. proc[p] \in Tasks /\ jobs \in Table BY DEF Typed, Rows, Requests, Nets, Agent
<1>1. CASE SaveJob(p)
  <2> DEFINE t == [proc[p] EXCEPT !.pc = After(p), !.id = None, !.row = None]
  <2>1. After(p) \in {"list", "sync"} BY DEF After
  <2>2. t \in Tasks BY <1>0, <2>1 DEF Tasks, Pcs
  <2>3. t.pc = After(p) BY <1>0, <2>2 DEF Tasks
  <2>4. proc' = [proc EXCEPT ![p] = t] BY <1>1 DEF SaveJob, Typed, Rows, Requests, Nets, Agent
  <2> HIDE DEF t
  <2>5. Shape(t) BY <2>1, <2>3 DEF Shape
  <2> QED BY <1>1, <2>1, <2>2, <2>3, <2>4, <2>5 DEF Moves, SaveJob, netVars
<1>2. CASE DeleteJob(p)
  <2> DEFINE t == [proc[p] EXCEPT !.pc = "list", !.id = None]
  <2>2. t \in Tasks BY <1>0 DEF Tasks, Pcs
  <2>3. t.pc = "list" BY <1>0, <2>2 DEF Tasks
  <2>4. proc' = [proc EXCEPT ![p] = t] BY <1>2 DEF DeleteJob, Typed, Rows, Requests, Nets, Agent
  <2> HIDE DEF t
  <2>5. Shape(t) BY <2>3 DEF Shape
  <2> QED BY <1>2, <2>2, <2>3, <2>4, <2>5 DEF Moves, DeleteJob, netVars
<1>3. CASE ListJobs(p)
  <2> DEFINE t == [proc[p] EXCEPT !.pc = "push", !.list = jobs]
  <2>2. t \in Tasks BY <1>0 DEF Tasks, Pcs
  <2>3. t.pc = "push" /\ t.list = jobs BY <1>0, <2>2 DEF Tasks
  <2>4. proc' = [proc EXCEPT ![p] = t] BY <1>3 DEF ListJobs, Typed, Rows, Requests, Nets, Agent
  <2> HIDE DEF t
  <2>5. Shape(t) BY <1>0, <2>3 DEF Shape
  <2> QED BY <1>3, <2>2, <2>3, <2>4, <2>5 DEF Moves, ListJobs, netVars, tableVars
<1>4. CASE PushJobs(p)
  BY <1>4, IdleIs DEF Moves, PushJobs, tableVars
<1> QED BY <1>1, <1>2, <1>3, <1>4

\* The handler takes a message.
LEMMA TakeMoves ==
    ASSUME Typed, NEW c \in Conns, Take(c)
    PROVE  /\ up[c] \in Seq(Msgs) /\ up[c] # <<>> /\ proc[c] = Idle
           /\ \E t \in Tasks :
             /\ Moves(c, t)
             /\ t.pc \in {"list", "sync", "delete", "idle"}
             /\ t.pc = "idle" => /\ Head(up[c]).type = "delete" /\ jobs[Head(up[c]).id] = None
                                 /\ Head(up[c]) \in Dels
<1>1. up[c] # <<>> /\ up[c] \in Seq(Msgs) /\ Head(up[c]) \in Msgs /\ proc[c] = Idle
  BY DEF Take, Typed, Rows, Requests, Nets, Agent
<1> DEFINE m == Head(up[c])
<1>2. CASE m.type = "hello"
  <2>1. Hello \in Tasks BY IdleIs DEF Hello, Tasks, Pcs
  <2>2. Hello.pc = "list" BY <2>1, IdleIs DEF Hello, Tasks
  <2>3. Shape(Hello) BY <2>2 DEF Shape
  <2>4. proc' = [proc EXCEPT ![c] = Hello] BY <1>2 DEF Take
  <2> QED BY <1>1, <2>1, <2>2, <2>3, <2>4 DEF Moves
<1>3. CASE m.type = "sync"
  <2> DEFINE t == [Idle EXCEPT !.pc = "sync", !.todo = m.jobs]
  <2>1. m.jobs \in SUBSET Change BY <1>1, <1>3 DEF Msgs, Dels
  <2>2. t \in Tasks BY <2>1, IdleIs DEF Tasks, Pcs
  <2>3. t.pc = "sync" BY <2>2, IdleIs DEF Tasks
  <2>4. proc' = [proc EXCEPT ![c] = t] BY <1>3 DEF Take
  <2> HIDE DEF t
  <2>5. Shape(t) BY <2>3 DEF Shape
  <2> QED BY <1>1, <2>2, <2>3, <2>4, <2>5 DEF Moves
<1>4. CASE m.type = "delete"
  <2>1. m \in Dels BY <1>1, <1>4 DEF Msgs
  <2>2. m.id \in Ids BY <2>1 DEF Dels
  <2>3. CASE jobs[m.id] = None
    <3>1. proc' = [proc EXCEPT ![c] = Idle] BY <1>4, <2>3 DEF Take
    <3> QED BY <1>1, <1>4, <2>1, <2>3, <3>1, IdleIs DEF Moves
  <2>4. CASE jobs[m.id] # None
    <3> DEFINE t == [Idle EXCEPT !.pc = "delete", !.id = m.id]
    <3>1. t \in Tasks BY <2>2, IdleIs DEF Tasks, Pcs
    <3>2. t.pc = "delete" /\ t.id = m.id BY <3>1, IdleIs DEF Tasks
    <3>3. proc' = [proc EXCEPT ![c] = t] BY <1>4, <2>4 DEF Take
    <3> HIDE DEF t
    <3>4. Shape(t) BY <2>2, <3>2 DEF Shape
    <3> QED BY <1>1, <3>1, <3>2, <3>3, <3>4 DEF Moves
  <2> QED BY <2>3, <2>4
<1>5. m.type \in {"hello", "sync", "delete"} BY <1>1 DEF Msgs, Dels
<1> QED BY <1>2, <1>3, <1>4, <1>5

\* handleJobsSync: a job is refused, or is an edit, or the list has ended.
LEMMA SyncMoves ==
    ASSUME Typed, NEW c \in Conns, SyncRefuse(c) \/ SyncEdit(c) \/ SyncEnd(c)
    PROVE  /\ proc[c].pc = "sync"
           /\ \E t \in Tasks : /\ Moves(c, t) /\ t.pc \in {"sync", "save", "list"}
                               /\ t.pc = "save" => t.id <= used /\ Ready(t)
           /\ UNCHANGED <<tableVars, netVars, agentVars, file, userVars>>
<1>0. proc[c] \in Tasks /\ proc[c].todo \in SUBSET Change /\ proc \in [Procs -> Tasks] BY ProcsAre DEF Typed, Rows, Requests, Nets, Agent, Tasks
<1>1. proc[c].pc = "sync" /\ UNCHANGED <<tableVars, netVars, agentVars, file, userVars>>
  BY DEF SyncRefuse, SyncEdit, SyncEnd
<1>2. ASSUME NEW j \in proc[c].todo, proc' = [proc EXCEPT ![c].todo = @ \ {j}]
      PROVE  \E t \in Tasks : Moves(c, t) /\ t.pc = "sync"
  <2> DEFINE t == [proc[c] EXCEPT !.todo = @ \ {j}]
  <2>1. t \in Tasks BY <1>0 DEF Tasks
  <2>2. t.pc = "sync" BY <1>0, <1>1, <2>1 DEF Tasks
  <2>3. proc' = [proc EXCEPT ![c] = t] BY <1>0, <1>2
  <2> HIDE DEF t
  <2>4. Shape(t) BY <2>2 DEF Shape
  <2> QED BY <2>1, <2>2, <2>3, <2>4 DEF Moves
<1>3. CASE SyncRefuse(c)
  <2>1. PICK j \in proc[c].todo : proc' = [proc EXCEPT ![c].todo = @ \ {j}] BY <1>3 DEF SyncRefuse
  <2> QED BY <1>1, <1>2, <2>1
<1>4. CASE SyncEnd(c)
  <2> DEFINE t == [proc[c] EXCEPT !.pc = "list"]
  <2>1. t \in Tasks BY <1>0 DEF Tasks, Pcs
  <2>2. t.pc = "list" BY <1>0, <2>1 DEF Tasks
  <2>3. proc' = [proc EXCEPT ![c] = t] BY <1>4, <1>0 DEF SyncEnd, Goto
  <2> HIDE DEF t
  <2>4. Shape(t) BY <2>2 DEF Shape
  <2> QED BY <1>1, <2>1, <2>2, <2>3, <2>4 DEF Moves
<1>5. CASE SyncEdit(c)
  <2>1. PICK j \in proc[c].todo :
          /\ j.id # None
          /\ proc' = IF Newer(j, jobs[j.id])
                     THEN [proc EXCEPT ![c].pc = "save", ![c].todo = @ \ {j}, ![c].id = j.id,
                             ![c].row = [jobs[j.id] EXCEPT !.spec = j.spec, !.ver = j.ver]]
                     ELSE [proc EXCEPT ![c].todo = @ \ {j}]
    BY <1>5 DEF SyncEdit
  <2>2. j \in Change BY <1>0
  <2>3. j.id \in Ids /\ j.spec \in Specs /\ j.ver \in Nat BY <2>1, <2>2 DEF Change
  <2>4. CASE ~ Newer(j, jobs[j.id])
    BY <1>1, <1>2, <2>1, <2>4
  <2>5. CASE Newer(j, jobs[j.id])
    <3> DEFINE r == [jobs[j.id] EXCEPT !.spec = j.spec, !.ver = j.ver]
               t == [proc[c] EXCEPT !.pc = "save", !.todo = @ \ {j}, !.id = j.id, !.row = r]
    <3>1. jobs[j.id] # None /\ j.ver > jobs[j.id].ver BY <2>5 DEF Newer
    <3>2. jobs[j.id] \in Row BY <2>3, <3>1, RowIs DEF Typed, Rows, Requests, Nets, Agent
    <3>3. r \in Row BY <2>3, <3>2 DEF Row
    <3>4. r.ver = j.ver /\ r.origin = jobs[j.id].origin BY <3>2 DEF Row
    <3>5. proc' = [proc EXCEPT ![c] = t] BY <1>0, <2>1, <2>5
    <3> HIDE DEF r
    <3>6. t \in Tasks BY <1>0, <2>3, <3>3 DEF Tasks, Pcs
    <3>7. t.pc = "save" /\ t.id = j.id /\ t.row = r BY <1>0, <3>6 DEF Tasks
    <3> HIDE DEF t
    <3>8. Shape(t) BY <2>3, <3>3, <3>7 DEF Shape
    <3>9. Ready(t) BY <3>1, <3>4, <3>7 DEF Ready
    <3>10. used \in Int /\ j.id \in Int /\ ~ (j.id > used) BY <2>3, <3>1, JobSyncAssumption DEF Typed, Rows, Requests, Nets, Agent, Ids
    <3>11. t.id <= used BY <3>7, <3>10
    <3> QED BY <1>1, <3>5, <3>6, <3>7, <3>8, <3>9, <3>11 DEF Moves
  <2> QED BY <2>4, <2>5
<1> QED BY <1>3, <1>4, <1>5

\* handleJobsSync creates a job.
LEMMA CreateMoves ==
    ASSUME Typed, NEW c \in Conns, NEW i \in Ids, SyncCreate(c, i)
    PROVE  /\ proc[c].pc = "sync" /\ i = used + 1 /\ used' = i /\ jobs[i] = None
           /\ \E t \in Tasks : Moves(c, t) /\ t.pc = "sync"
           /\ \E r \in Row : r.ver = 1 /\ jobs' = [jobs EXCEPT ![i] = r]
           /\ UNCHANGED <<netVars, agentVars, file, userVars>>
<1>0. proc[c] \in Tasks /\ proc[c].todo \in SUBSET Change /\ proc \in [Procs -> Tasks] BY ProcsAre DEF Typed, Rows, Requests, Nets, Agent, Tasks
<1>1. PICK j \in proc[c].todo :
        jobs' = [jobs EXCEPT ![i] = ClientRow(j.spec)] /\ proc' = [proc EXCEPT ![c].todo = @ \ {j}]
  BY DEF SyncCreate
<1>2. proc[c].pc = "sync" /\ i = used + 1 /\ used' = i /\ UNCHANGED <<netVars, agentVars, file, userVars>>
  BY DEF SyncCreate
<1>3. j.spec \in Specs BY <1>0 DEF Change
<1>4. ClientRow(j.spec) \in Row /\ ClientRow(j.spec).ver = 1 BY <1>3 DEF ClientRow, Row
<1>5. \E t \in Tasks : Moves(c, t) /\ t.pc = "sync"
  <2> DEFINE t == [proc[c] EXCEPT !.todo = @ \ {j}]
  <2>1. t \in Tasks BY <1>0 DEF Tasks
  <2>2. t.pc = "sync" BY <1>0, <1>2, <2>1 DEF Tasks
  <2>3. proc' = [proc EXCEPT ![c] = t] BY <1>0, <1>1
  <2> HIDE DEF t
  <2>4. Shape(t) BY <2>2 DEF Shape
  <2> QED BY <2>1, <2>2, <2>3, <2>4 DEF Moves
<1>6. jobs[i] = None
  <2>1. i > used BY <1>2, JobSyncAssumption DEF Typed, Rows, Requests, Nets, Agent, Ids
  <2> QED BY <2>1 DEF Typed, Rows, Requests, Nets, Agent
<1> QED BY <1>1, <1>2, <1>4, <1>5, <1>6

\* A handler ends.
LEMMA LeaveMoves ==
    ASSUME Typed, NEW c \in Conns, Leave(c)
    PROVE  /\ proc[c] = Idle /\ link # c
           /\ \E t \in Tasks : Moves(c, t) /\ t.pc = "gone"
           /\ hub' = IF hub = c THEN 0 ELSE hub
           /\ up' = [up EXCEPT ![c] = <<>>]
           /\ UNCHANGED <<tableVars, down, link, made, agentVars, file, userVars>>
<1>0. proc[c] \in Tasks /\ proc \in [Procs -> Tasks] BY ProcsAre DEF Typed, Rows, Requests, Nets, Agent
<1> DEFINE t == [proc[c] EXCEPT !.pc = "gone"]
<1>1. t \in Tasks BY <1>0 DEF Tasks, Pcs
<1>2. t.pc = "gone" BY <1>0, <1>1 DEF Tasks
<1>3. proc' = [proc EXCEPT ![c] = t] BY <1>0 DEF Leave, Goto
<1> HIDE DEF t
<1>4. Shape(t) BY <1>2 DEF Shape
<1>5. \E u \in Tasks : Moves(c, u) /\ u.pc = "gone" BY <1>1, <1>2, <1>3, <1>4 DEF Moves
<1> QED BY <1>5 DEF Leave

-----------------------------------------------------------------------------
(* The types *)

\* A request's step leaves the requests typed.
LEMMA RequestsKept ==
    ASSUME Typed, NEW p \in Procs, NEW t \in Tasks, Moves(p, t),
           used' \in 0..MaxIds, used' >= used, t.pc = "save" => t.id <= used'
    PROVE  Requests'
<1>1. proc \in [Procs -> Tasks] BY DEF Typed, Requests
<1>2. proc' \in [Procs -> Tasks] BY <1>1 DEF Moves
<1>3. ASSUME NEW q \in Procs PROVE Shape(proc'[q]) /\ (proc'[q].pc = "save" => proc'[q].id <= used')
  <2>1. CASE q = p
    <3>1. proc'[q] = t BY <1>1, <2>1 DEF Moves
    <3> QED BY <3>1 DEF Moves
  <2>2. CASE q # p
    <3>1. proc'[q] = proc[q] BY <1>1, <2>2 DEF Moves
    <3>2. Shape(proc[q]) /\ (proc[q].pc = "save" => proc[q].id <= used /\ proc[q].id \in Ids)
      BY DEF Typed, Requests, Shape
    <3>3. ASSUME proc[q].pc = "save" PROVE proc[q].id <= used'
      <4>1. proc[q].id \in Int /\ used \in Int /\ used' \in Int /\ proc[q].id <= used
        BY <3>2, <3>3, JobSyncAssumption DEF Typed, Rows, Ids
      <4> QED BY <4>1
    <3> QED BY <3>1, <3>2, <3>3
  <2> QED BY <2>1, <2>2
<1> QED BY <1>2, <1>3 DEF Requests, Shape

\* The requests of the GUI.
LEMMA GuiTyped == ASSUME Typed, GuiStart PROVE Typed'
<1>1. PICK p \in Gui, i \in Ids :
        \/ \E n \in Names : GuiCreate(p, i, n)
        \/ \E s \in Specs : GuiEdit(p, i, s)
        \/ GuiDelete(p, i)
  BY DEF GuiStart
<1>2. /\ \E t \in Tasks : Moves(p, t) /\ (t.pc = "save" => t.id <= used')
      /\ used' \in 0..MaxIds /\ used' >= used /\ UNCHANGED <<jobs, netVars, agentVars, file, draft>>
  BY <1>1, GuiMoves
<1>3. Requests' BY <1>2, RequestsKept, ProcsAre
<1>4. Rows'
  <2>1. ASSUME NEW k \in Ids, k > used' PROVE jobs[k] = None
    <3>1. k \in Int /\ used \in Int /\ used' \in Int BY <1>2, JobSyncAssumption DEF Typed, Rows, Ids
    <3>2. k > used BY <1>2, <2>1, <3>1
    <3> QED BY <3>2 DEF Typed, Rows
  <2> QED BY <1>2, <2>1 DEF Typed, Rows
<1>5. Nets' /\ Agent' BY <1>2 DEF Typed, Nets, Agent, netVars, agentVars
<1> QED BY <1>3, <1>4, <1>5 DEF Typed

\* A change of the table.
LEMMA TableTyped ==
    ASSUME Typed, NEW p \in Procs, SaveJob(p) \/ DeleteJob(p) \/ ListJobs(p) \/ PushJobs(p)
    PROVE  Typed'
<1>1. used' = used /\ UNCHANGED <<hub, up, link, made, agentVars, file, userVars>>
  BY DEF SaveJob, DeleteJob, ListJobs, PushJobs, tableVars, netVars
<1>2. PICK t \in Tasks :
        /\ Moves(p, t)
        /\ \/ proc[p].pc = "save" /\ jobs' = [jobs EXCEPT ![proc[p].id] = proc[p].row]
              /\ t.pc \in {"list", "sync"} /\ down' = down
           \/ proc[p].pc = "delete" /\ jobs' = [jobs EXCEPT ![proc[p].id] = None] /\ t.pc = "list" /\ down' = down
           \/ proc[p].pc = "list" /\ jobs' = jobs /\ t.pc = "push" /\ t.list = jobs /\ down' = down
           \/ proc[p].pc = "push" /\ jobs' = jobs /\ t = Idle /\ PushJobs(p)
  BY TableMoves
<1>3. used \in Int /\ used' \in 0..MaxIds /\ used' >= used BY <1>1, JobSyncAssumption DEF Typed, Rows
<1>4. t.pc # "save" BY <1>2, IdleIs
<1>5. Requests' BY <1>2, <1>3, <1>4, RequestsKept
<1>6. Agent' BY <1>1 DEF Typed, Agent, agentVars, userVars
<1>7. Rows'
  <2>1. CASE jobs' = jobs BY <1>1, <2>1 DEF Typed, Rows
  <2>2. CASE proc[p].pc = "delete" /\ jobs' = [jobs EXCEPT ![proc[p].id] = None]
    BY <1>1, <2>2 DEF Typed, Rows, Table
  <2>3. CASE proc[p].pc = "save" /\ jobs' = [jobs EXCEPT ![proc[p].id] = proc[p].row]
    <3>1. proc[p].id \in Ids /\ proc[p].row \in Row /\ proc[p].id <= used BY <2>3 DEF Typed, Requests, Shape
    <3>2. ~ (proc[p].id > used) BY <1>3, <3>1, JobSyncAssumption DEF Ids
    <3> QED BY <1>1, <2>3, <3>1, <3>2 DEF Typed, Rows, Table
  <2> QED BY <1>2, <2>1, <2>2, <2>3
<1>8. down' \in [Conns -> Seq(Table)]
  <2>1. CASE down' = down BY <2>1 DEF Typed, Nets
  <2>2. CASE proc[p].pc = "push" /\ PushJobs(p)
    <3>1. proc[p].list \in Table BY <2>2 DEF Typed, Requests, Shape
    <3>2. hub # 0 => hub \in Conns BY JobSyncAssumption DEF Typed, Nets, Conns
    <3>3. hub # 0 => Append(down[hub], proc[p].list) \in Seq(Table) BY <3>1, <3>2 DEF Typed, Nets
    <3> QED BY <2>2, <3>2, <3>3 DEF PushJobs, Typed, Nets
  <2> QED BY <1>2, <2>1, <2>2
<1>9. Nets' BY <1>1, <1>8 DEF Typed, Nets
<1> QED BY <1>5, <1>6, <1>7, <1>9 DEF Typed

\* The steps of a handler.
LEMMA HandlerTyped ==
    ASSUME Typed, NEW c \in Conns, Take(c) \/ SyncRefuse(c) \/ SyncEdit(c) \/ SyncEnd(c) \/ Leave(c)
    PROVE  Typed'
<1>0. c \in Procs /\ used \in 0..MaxIds /\ used \in Int /\ used >= used
  BY ProcsAre, JobSyncAssumption DEF Typed, Rows
<1>1. UNCHANGED <<tableVars, down, link, made, agentVars, file, userVars>>
  BY DEF Take, SyncRefuse, SyncEdit, SyncEnd, Leave, netVars
<1>2. \E t \in Tasks : Moves(c, t) /\ (t.pc = "save" => t.id <= used)
  BY TakeMoves, SyncMoves, LeaveMoves
<1>3. used' = used BY <1>1 DEF tableVars
<1>4. Requests' BY <1>0, <1>2, <1>3, RequestsKept
<1>5. Rows' /\ Agent' BY <1>1 DEF Typed, Rows, Agent, tableVars, agentVars, userVars
<1>6. up' \in [Conns -> Seq(Msgs)] /\ hub' \in 0..made
  <2>1. hub \in 0..made /\ 0 \in 0..made /\ up \in [Conns -> Seq(Msgs)] BY JobSyncAssumption DEF Typed, Nets
  <2>2. CASE Take(c)
    <3>1. Tail(up[c]) \in Seq(Msgs) BY <2>1, <2>2 DEF Take
    <3> QED BY <2>1, <2>2, <3>1 DEF Take
  <2>3. CASE Leave(c)
    <3>1. <<>> \in Seq(Msgs) OBVIOUS
    <3> QED BY <2>1, <2>3, <3>1 DEF Leave
  <2>4. CASE UNCHANGED <<hub, up>> BY <2>1, <2>4
  <2> QED BY <2>2, <2>3, <2>4 DEF SyncRefuse, SyncEdit, SyncEnd, netVars
<1>7. Nets' BY <1>1, <1>6 DEF Typed, Nets
<1> QED BY <1>4, <1>5, <1>7 DEF Typed

\* A job from the file is created.
LEMMA CreateTyped == ASSUME Typed, NEW c \in Conns, NEW i \in Ids, SyncCreate(c, i) PROVE Typed'
<1>0. c \in Procs /\ used \in Nat /\ i \in Nat /\ i <= MaxIds /\ MaxIds \in Nat
  BY ProcsAre, JobSyncAssumption DEF Typed, Rows, Ids
<1>1. /\ i = used + 1 /\ used' = i /\ \E t \in Tasks : Moves(c, t) /\ t.pc = "sync"
      /\ \E r \in Row : jobs' = [jobs EXCEPT ![i] = r]
      /\ UNCHANGED <<netVars, agentVars, file, userVars>>
  BY CreateMoves
<1>2. used' \in 0..MaxIds /\ used' >= used BY <1>0, <1>1
<1>3. Requests' BY <1>0, <1>1, <1>2, RequestsKept
<1>4. Nets' /\ Agent' BY <1>1 DEF Typed, Nets, Agent, netVars, agentVars, userVars
<1>5. ASSUME NEW k \in Ids, k > used' PROVE jobs[k] = None /\ k # i
  <2>1. k \in Int BY DEF Ids
  <2>2. k > used /\ k # i BY <1>0, <1>1, <1>5, <2>1
  <2> QED BY <2>2 DEF Typed, Rows
<1>6. Rows' BY <1>1, <1>2, <1>5 DEF Typed, Rows, Table
<1> QED BY <1>3, <1>4, <1>6 DEF Typed

\* The agent.
LEMMA AgentTyped == ASSUME Typed, AgentStep PROVE Typed'
<1>1. UNCHANGED <<tableVars, proc, hub, link, made, userVars>>
  BY DEF AgentStep, ApplyCache, ApplyWrite, ApplyHash, SyncRead, SyncSend, netVars
<1>2. Rows' /\ Requests' BY <1>1 DEF Typed, Rows, Requests, Shape, tableVars
<1>3. link # 0 => link \in Conns BY JobSyncAssumption DEF Typed, Nets, Conns
<1>4. At0 \in [pc : {"idle"}, got : {None}] /\ At0.pc = "idle" BY DEF At0
<1>5. CASE ApplyCache
  <2>1. link # 0 /\ down[link] # <<>> /\ down[link] \in Seq(Table) BY <1>3, <1>5 DEF ApplyCache, Typed, Nets
  <2>2. Head(down[link]) \in Table /\ Tail(down[link]) \in Seq(Table) BY <2>1
  <2>3. Nets' BY <1>1, <1>3, <1>5, <2>1, <2>2 DEF ApplyCache, Typed, Nets
  <2>4. at' \in [pc : {"cached"}, got : {None}] /\ at'.pc = "cached" BY <1>5 DEF ApplyCache, At0
  <2>5. at' \in [pc : {"idle", "cached", "written", "read"}, got : File \cup {None}] BY <2>4
  <2>6. Agent' BY <1>1, <1>5, <2>2, <2>4, <2>5 DEF ApplyCache, Typed, Agent, userVars
  <2> QED BY <1>2, <2>3, <2>6 DEF Typed
<1>6. CASE ApplyWrite
  <2>1. at' \in [pc : {"written"}, got : {None}] /\ at'.pc = "written" BY <1>6 DEF ApplyWrite, At0
  <2>2. at' \in [pc : {"idle", "cached", "written", "read"}, got : File \cup {None}] BY <2>1
  <2>3. file' \in File BY <1>6, FileOfIs DEF ApplyWrite, Typed, Agent
  <2>4. Agent' BY <1>1, <1>6, <2>1, <2>2, <2>3 DEF ApplyWrite, Typed, Agent, userVars
  <2>5. Nets' BY <1>1, <1>6 DEF ApplyWrite, Typed, Nets, netVars
  <2> QED BY <1>2, <2>4, <2>5 DEF Typed
<1>7. CASE ApplyHash
  <2>1. at' \in [pc : {"idle", "cached", "written", "read"}, got : File \cup {None}] /\ at'.pc = "idle"
    BY <1>4, <1>7 DEF ApplyHash
  <2>2. Agent' BY <1>1, <1>7, <2>1 DEF ApplyHash, Typed, Agent, userVars
  <2>3. Nets' BY <1>1, <1>7 DEF ApplyHash, Typed, Nets, netVars
  <2> QED BY <1>2, <2>2, <2>3 DEF Typed
<1>8. CASE SyncRead
  <2>1. at' \in [pc : {"idle", "cached", "written", "read"}, got : File \cup {None}] /\ at'.got \in File
    BY <1>8 DEF SyncRead, Typed, Agent
  <2>2. Agent' BY <1>1, <1>8, <2>1 DEF SyncRead, Typed, Agent, userVars
  <2>3. Nets' BY <1>1, <1>8 DEF SyncRead, Typed, Nets, netVars
  <2> QED BY <1>2, <2>2, <2>3 DEF Typed
<1>9. CASE SyncSend
  <2>1. at' \in [pc : {"idle", "cached", "written", "read"}, got : File \cup {None}] /\ at'.pc = "idle"
    BY <1>4, <1>9 DEF SyncSend
  <2>2. at.got \in File BY <1>9 DEF SyncSend, Typed, Agent
  <2>3. sent' \subseteq Names
    <3>1. at.got.jobs \subseteq Entry BY <2>2 DEF File
    <3>2. \A e \in Creates(at.got) : e.spec.name \in Names BY <3>1 DEF Creates, Entry, Specs
    <3>3. {e.spec.name : e \in Creates(at.got)} \subseteq Names BY <3>2
    <3>4. sent' = sent \/ sent' = sent \cup {e.spec.name : e \in Creates(at.got)} BY <1>9 DEF SyncSend
    <3> QED BY <3>3, <3>4 DEF Typed, Agent
  <2>4. Agent' BY <1>1, <1>9, <2>1, <2>3 DEF SyncSend, Typed, Agent, userVars
  <2>5. up' = up \/ (link # 0 /\ up' = [up EXCEPT ![link] = @ \o
                        (IF Changes(at.got) = {} THEN <<>> ELSE <<[type |-> "sync", jobs |-> Changes(at.got)]>>)
                        \o Deletes(at.got)])
    BY <1>9 DEF SyncSend
  <2>6. up' \in [Conns -> Seq(Msgs)]
    <3>0. up \in [Conns -> Seq(Msgs)] BY DEF Typed, Nets
    <3> DEFINE h == IF Changes(at.got) = {} THEN <<>> ELSE <<[type |-> "sync", jobs |-> Changes(at.got)]>>
    <3>1. h \in Seq(Msgs)
      <4>1. [type |-> "sync", jobs |-> Changes(at.got)] \in Msgs BY <2>2, ChangesAre DEF Msgs
      <4> QED BY <4>1
    <3>2. Deletes(at.got) \in Seq(Msgs)
      <4>1. Dels \subseteq Msgs BY DEF Msgs
      <4> QED BY <2>2, <4>1, DeletesAre
    <3>3. up' = up \/ (link # 0 /\ up' = [up EXCEPT ![link] = @ \o h \o Deletes(at.got)]) BY <2>5
    <3> HIDE DEF h
    <3>4. ASSUME link # 0 PROVE up[link] \o h \o Deletes(at.got) \in Seq(Msgs)
      BY <1>3, <3>0, <3>1, <3>2, <3>4
    <3> QED BY <3>0, <3>3, <3>4
  <2>7. Nets' BY <1>1, <1>9, <2>6 DEF SyncSend, Typed, Nets
  <2> QED BY <1>2, <2>4, <2>7 DEF Typed
<1> QED BY <1>5, <1>6, <1>7, <1>8, <1>9 DEF AgentStep

\* The connection, the agent's restarts.
LEMMA LinkTyped == ASSUME Typed, Connect \/ Break \/ Restart PROVE Typed'
<1>1. UNCHANGED <<tableVars, proc, cache, file, userVars>> BY DEF Connect, Break, Restart, agentVars
<1>2. Rows' /\ Requests' BY <1>1 DEF Typed, Rows, Requests, Shape, tableVars
<1>3. link # 0 => link \in Conns BY JobSyncAssumption DEF Typed, Nets, Conns
<1>4. <<>> \in Seq(Table) OBVIOUS
<1>5. CASE Connect
  <2>1. made \in Nat /\ made < MaxConn /\ MaxConn \in Nat BY <1>5, JobSyncAssumption DEF Connect, Typed, Nets
  <2>2. made' = made + 1 /\ link' = made' /\ hub' = made' BY <1>5 DEF Connect
  <2>3. made' \in 0..MaxConn /\ hub' \in 0..made' BY <2>1, <2>2
  <2>4. <<[type |-> "hello"]>> \in Seq(Msgs)
    <3>1. [type |-> "hello"] \in Msgs BY DEF Msgs
    <3> QED BY <3>1
  <2>5. up' \in [Conns -> Seq(Msgs)] BY <1>5, <2>4 DEF Connect, Typed, Nets
  <2>6. Nets' BY <1>5, <2>2, <2>3, <2>5 DEF Connect, Typed, Nets
  <2>7. Agent' BY <1>1, <1>5 DEF Connect, Typed, Agent, userVars
  <2> QED BY <1>2, <2>6, <2>7 DEF Typed
<1>6. CASE Break
  <2>1. Nets' BY <1>3, <1>4, <1>6 DEF Break, Typed, Nets
  <2>2. Agent' BY <1>1, <1>6 DEF Break, Typed, Agent, userVars, agentVars
  <2> QED BY <1>2, <2>1, <2>2 DEF Typed
<1>7. CASE Restart
  <2>1. Nets' BY <1>4, <1>7 DEF Restart, Typed, Nets
  <2>2. at' \in [pc : {"idle", "cached", "written", "read"}, got : File \cup {None}] /\ at'.pc = "idle"
    BY <1>7 DEF Restart, At0
  <2>3. Agent' BY <1>1, <1>7, <2>2 DEF Restart, Typed, Agent, userVars
  <2> QED BY <1>2, <2>1, <2>3 DEF Typed
<1> QED BY <1>5, <1>6, <1>7

\* What the user saves.
LEMMA DraftsAre == ASSUME NEW f \in File PROVE JobAdd(f) \cup JobRm(f) \cup JobEnable(f) \subseteq File
<1>0. f.jobs \in SUBSET Entry /\ f.delete \in SUBSET Ids BY DEF File
<1>1. JobAdd(f) \subseteq File
  <2>1. ASSUME NEW s \in Specs PROVE [f EXCEPT !.jobs = @ \cup {[id |-> None, spec |-> s]}] \in File
    <3>1. [id |-> None, spec |-> s] \in Entry BY DEF Entry
    <3>2. f.jobs \cup {[id |-> None, spec |-> s]} \in SUBSET Entry BY <1>0, <3>1
    <3> QED BY <3>2 DEF File
  <2>2. {New(n) : n \in Names \ {e.spec.name : e \in f.jobs}} \subseteq Specs BY NewIs
  <2> QED BY <2>1, <2>2 DEF JobAdd
<1>2. JobRm(f) \subseteq File
  <2>1. ASSUME NEW e \in f.jobs PROVE [jobs |-> f.jobs \ {e}, delete |-> f.delete \cup ({e.id} \ {None})] \in File
    <3>1. e.id \in Ids \cup {None} BY <1>0 DEF Entry
    <3>2. f.delete \cup ({e.id} \ {None}) \in SUBSET Ids BY <1>0, <3>1
    <3>3. f.jobs \ {e} \in SUBSET Entry BY <1>0
    <3> QED BY <3>2, <3>3 DEF File
  <2> QED BY <2>1 DEF JobRm
<1>3. JobEnable(f) \subseteq File
  <2>1. ASSUME NEW e \in f.jobs
        PROVE  [f EXCEPT !.jobs = (@ \ {e}) \cup {[e EXCEPT !.spec.enabled = ~ @]}] \in File
    <3>1. e \in Entry BY <1>0
    <3>2. e.spec \in Specs BY <3>1 DEF Entry
    <3>3. [e.spec EXCEPT !.enabled = ~ @] \in Specs BY <3>2 DEF Specs
    <3>4. [e EXCEPT !.spec.enabled = ~ @] = [e EXCEPT !.spec = [e.spec EXCEPT !.enabled = ~ @]] BY <3>1 DEF Entry
    <3>5. [e EXCEPT !.spec.enabled = ~ @] \in Entry BY <3>1, <3>3, <3>4 DEF Entry
    <3>6. (f.jobs \ {e}) \cup {[e EXCEPT !.spec.enabled = ~ @]} \in SUBSET Entry BY <1>0, <3>5
    <3> QED BY <3>6 DEF File
  <2> QED BY <2>1 DEF JobEnable
<1> QED BY <1>1, <1>2, <1>3

\* The user.
LEMMA UserTyped == ASSUME Typed, EditFile \/ SaveFile PROVE Typed'
<1>1. UNCHANGED <<tableVars, proc, netVars, agentVars>> BY DEF EditFile, SaveFile
<1>2. Rows' /\ Requests' /\ Nets' BY <1>1 DEF Typed, Rows, Requests, Nets, Shape, tableVars, netVars
<1>3. file' \in File /\ draft' \in File \cup {None}
  <2>1. CASE EditFile BY <2>1, DraftsAre DEF EditFile, Typed, Agent
  <2>2. CASE SaveFile BY <2>2 DEF SaveFile, Typed, Agent
  <2> QED BY <2>1, <2>2
<1>4. Agent' BY <1>1, <1>3 DEF Typed, Agent, agentVars
<1> QED BY <1>2, <1>4 DEF Typed

\* Every step.
LEMMA TypedKept == ASSUME Typed, [Next]_vars PROVE Typed'
<1>1. CASE ServerStep BY <1>1, TableTyped, HandlerTyped, CreateTyped DEF ServerStep
<1>2. CASE UNCHANGED vars
  BY <1>2 DEF vars, Typed, Rows, Requests, Nets, Agent, Shape, tableVars, netVars, agentVars, userVars
<1> QED BY <1>1, <1>2, GuiTyped, AgentTyped, LinkTyped, UserTyped DEF Next

\* The start.
LEMMA TypedFirst == Init => Typed
<1> SUFFICES ASSUME Init PROVE Typed OBVIOUS
<1>1. 1 \in Ids BY JobSyncAssumption DEF Ids
<1>2. First \in Table /\ \A i \in Ids : i > 1 => First[i] = None
  <2>1. New(CHOOSE n \in Names : TRUE) \in Specs BY JobSyncAssumption, NewIs
  <2>2. [spec |-> New(CHOOSE n \in Names : TRUE), origin |-> "server", ver |-> 1] \in Row BY <2>1 DEF Row
  <2> QED BY <1>1, <2>2 DEF First, Empty, Table
<1>3. Rows BY <1>2, JobSyncAssumption DEF Init, Rows
<1>4. Requests BY IdleIs DEF Init, Requests
<1>5. Nets BY JobSyncAssumption DEF Init, Nets
<1>6. Agent BY <1>2, FileOfIs DEF Init, Agent, At0
<1> QED BY <1>3, <1>4, <1>5, <1>6 DEF Typed

\* What every request, message and file of the job tables is.
THEOREM JobsAreTyped == Spec => []Typed
<1>1. Init => Typed BY TypedFirst
<1>2. Typed /\ [Next]_vars => Typed' BY TypedKept
<1> QED BY <1>1, <1>2, PTL DEF Spec

\* The variables stay in their types, for any number of jobs and connections.
THEOREM JobTypes == Spec => []TypeOK
<1>1. Typed => TypeOK
  <2> SUFFICES ASSUME Typed PROVE TypeOK OBVIOUS
  <2>1. ASSUME NEW c \in Conns, NEW k \in 1..Len(down[c]) PROVE down[c][k] \in Table
    <3>1. down[c] \in Seq(Table) BY DEF Typed, Nets
    <3> QED BY <3>1
  <2> QED BY <2>1 DEF TypeOK, Typed, Rows, Nets, Agent
<1> QED BY <1>1, JobsAreTyped, PTL

-----------------------------------------------------------------------------
(* Requests that run one after another *)

Active(p) == proc[p].pc \notin {"idle", "gone"}

\* One request is at work at a time.
Alone == \A p, q \in Procs : Active(p) /\ Active(q) => p = q

\* What it has read is still so: the row it will replace, the list it sends.
Fresh == \A p \in Procs : /\ proc[p].pc = "save" => Ready(proc[p])
                          /\ proc[p].pc = "push" => proc[p].list = jobs

TurnInv == Typed /\ Alone /\ Fresh

\* While request p takes a step no other one is at work.
LEMMA OthersRest ==
    ASSUME Overlap = FALSE, Alone, NEW p \in Procs, Active(p) \/ Free(p)
    PROVE  \A q \in Procs \ {p} : ~ Active(q)
BY DEF Alone, Free, Active

\* Its step.
LEMMA TurnKept ==
    ASSUME Overlap = FALSE, Typed, Alone, NEW p \in Procs, NEW t \in Tasks, Moves(p, t),
           \A q \in Procs \ {p} : ~ Active(q),
           t.pc = "save" => jobs' = jobs /\ Ready(t),
           t.pc = "push" => t.list = jobs'
    PROVE  Alone' /\ Fresh' /\ (t.pc \notin {"idle", "gone"} => \E q \in Procs : Active(q)')
<1>1. proc \in [Procs -> Tasks] BY DEF Typed, Requests
<1>2. proc'[p] = t /\ \A q \in Procs \ {p} : proc'[q] = proc[q] BY <1>1 DEF Moves
<1>3. \A q \in Procs \ {p} : ~ Active(q)' /\ proc'[q].pc \notin {"save", "push"} BY <1>2 DEF Active
<1>4. Alone' BY <1>3 DEF Alone
<1>5. proc'[p].pc = "save" => Ready(proc[p])' BY <1>2 DEF Ready
<1>6. Fresh' BY <1>2, <1>3, <1>5 DEF Fresh
<1>7. t.pc \notin {"idle", "gone"} => Active(p)' BY <1>2 DEF Active
<1> QED BY <1>4, <1>6, <1>7

\* A request is at work.
Busy == \E p \in Procs : Active(p)

\* A request of the GUI begins.
LEMMA GuiTurn == ASSUME Overlap = FALSE, TurnInv, GuiStart PROVE Alone' /\ Fresh' /\ Busy' /\ jobs' = jobs
<1>1. PICK p \in Gui, i \in Ids :
        \/ \E n \in Names : GuiCreate(p, i, n)
        \/ \E s \in Specs : GuiEdit(p, i, s)
        \/ GuiDelete(p, i)
  BY DEF GuiStart
<1>2. PICK t \in Tasks : /\ Moves(p, t) /\ t.pc \in {"save", "delete"} /\ (t.pc = "save" => Ready(t))
                         /\ jobs' = jobs
  BY <1>1, GuiMoves DEF TurnInv
<1>3. p \in Procs /\ Free(p) BY <1>1, ProcsAre DEF GuiCreate, GuiEdit, GuiDelete
<1>4. \A q \in Procs \ {p} : ~ Active(q) BY <1>3, OthersRest DEF TurnInv
<1> QED BY <1>2, <1>3, <1>4, TurnKept DEF TurnInv, Busy

\* A request changes the table, lists or pushes the jobs.
LEMMA TableTurn ==
    ASSUME Overlap = FALSE, TurnInv, NEW p \in Procs, SaveJob(p) \/ DeleteJob(p) \/ ListJobs(p) \/ PushJobs(p)
    PROVE  Alone' /\ Fresh' /\ (Busy' \/ PushJobs(p))
<1>1. PICK t \in Tasks :
        /\ Moves(p, t)
        /\ \/ proc[p].pc = "save" /\ jobs' = [jobs EXCEPT ![proc[p].id] = proc[p].row]
              /\ t.pc \in {"list", "sync"} /\ down' = down
           \/ proc[p].pc = "delete" /\ jobs' = [jobs EXCEPT ![proc[p].id] = None] /\ t.pc = "list" /\ down' = down
           \/ proc[p].pc = "list" /\ jobs' = jobs /\ t.pc = "push" /\ t.list = jobs /\ down' = down
           \/ proc[p].pc = "push" /\ jobs' = jobs /\ t = Idle /\ PushJobs(p)
  BY TableMoves DEF TurnInv
<1>2. Active(p) BY <1>1 DEF Active
<1>3. \A q \in Procs \ {p} : ~ Active(q) BY <1>2, OthersRest DEF TurnInv
<1>4. /\ t.pc # "save" /\ (t.pc = "push" => t.list = jobs')
      /\ t.pc \notin {"idle", "gone"} \/ PushJobs(p)
  BY <1>1, IdleIs
<1> QED BY <1>1, <1>3, <1>4, TurnKept DEF TurnInv, Busy

\* A handler goes on with a jobs_sync.
LEMMA SyncTurn ==
    ASSUME Overlap = FALSE, TurnInv, NEW c \in Conns,
           SyncRefuse(c) \/ SyncEdit(c) \/ SyncEnd(c) \/ \E i \in Ids : SyncCreate(c, i)
    PROVE  Alone' /\ Fresh' /\ Busy'
<1>1. c \in Procs BY ProcsAre
<1>2. PICK t \in Tasks : /\ Moves(c, t) /\ t.pc \in {"sync", "save", "list"} /\ proc[c].pc = "sync"
                         /\ t.pc = "save" => jobs' = jobs /\ Ready(t)
  BY SyncMoves, CreateMoves DEF TurnInv, tableVars
<1>3. \A q \in Procs \ {c} : ~ Active(q) BY <1>1, <1>2, OthersRest DEF TurnInv, Active
<1> QED BY <1>1, <1>2, <1>3, TurnKept DEF TurnInv, Busy

\* A handler takes a message.
LEMMA TakeTurn ==
    ASSUME Overlap = FALSE, TurnInv, NEW c \in Conns, Take(c)
    PROVE  /\ Alone' /\ Fresh' /\ ~ Busy
           /\ Busy' \/ (Head(up[c]) \in Dels /\ jobs[Head(up[c]).id] = None)
<1>1. c \in Procs BY ProcsAre
<1>2. PICK t \in Tasks : /\ Moves(c, t) /\ t.pc \in {"list", "sync", "delete", "idle"}
                         /\ t.pc = "idle" => jobs[Head(up[c]).id] = None /\ Head(up[c]) \in Dels
  BY TakeMoves DEF TurnInv
<1>3. \A q \in Procs \ {c} : ~ Active(q) BY <1>1, OthersRest DEF TurnInv, Take
<1>4. ~ Busy BY <1>3, IdleIs DEF Busy, Take, Active
<1>5. Alone' /\ Fresh' /\ (t.pc \notin {"idle", "gone"} => Busy') BY <1>1, <1>2, <1>3, TurnKept DEF TurnInv, Busy
<1> QED BY <1>2, <1>4, <1>5

\* A handler ends; the others may be at work.
LEMMA LeaveTurn ==
    ASSUME TurnInv, NEW c \in Conns, Leave(c) PROVE Alone' /\ Fresh' /\ (Busy' <=> Busy) /\ jobs' = jobs
<1>1. PICK t \in Tasks : Moves(c, t) /\ t.pc = "gone" BY LeaveMoves DEF TurnInv
<1>2. proc[c] = Idle /\ jobs' = jobs BY DEF Leave, tableVars
<1>3. proc \in [Procs -> Tasks] /\ c \in Procs BY ProcsAre DEF TurnInv, Typed, Requests
<1>4. proc'[c] = t /\ \A q \in Procs \ {c} : proc'[q] = proc[q] BY <1>1, <1>3 DEF Moves
<1>5. ~ Active(c) /\ ~ Active(c)' /\ \A q \in Procs \ {c} : Active(q)' <=> Active(q)
  BY <1>1, <1>2, <1>4, IdleIs DEF Active
<1>6. Alone' BY <1>5 DEF Alone, TurnInv
<1>7. Busy' <=> Busy BY <1>5 DEF Busy
<1>8. Fresh'
  <2>1. ASSUME NEW q \in Procs \ {c} PROVE /\ proc'[q].pc = "save" => Ready(proc[q])'
                                           /\ proc'[q].pc = "push" => proc'[q].list = jobs'
    BY <1>2, <1>4 DEF TurnInv, Fresh, Ready
  <2>2. proc'[c].pc \notin {"save", "push"} BY <1>1, <1>4
  <2> QED BY <2>1, <2>2 DEF Fresh
<1> QED BY <1>2, <1>6, <1>7, <1>8

\* The other steps leave the requests alone.
LEMMA StillTurn ==
    ASSUME TurnInv, UNCHANGED <<jobs, proc>> PROVE Alone' /\ Fresh' /\ (Busy' <=> Busy)
BY DEF TurnInv, Alone, Fresh, Ready, Active, Busy

\* Which steps they are.
LEMMA OtherSteps ==
    ASSUME AgentStep \/ Connect \/ Break \/ Restart \/ EditFile \/ SaveFile \/ UNCHANGED vars
    PROVE  UNCHANGED <<jobs, proc>>
BY DEF AgentStep, ApplyCache, ApplyWrite, ApplyHash, SyncRead, SyncSend, Connect, Break, Restart,
       EditFile, SaveFile, vars, tableVars

\* Requests that run one after another: one is at work at a time, and what it
\* has read of the table is still so when it writes or sends.
THEOREM TurnInvariant ==
    ASSUME Overlap = FALSE PROVE Spec => []TurnInv
<1>1. Init => TurnInv
  <2> SUFFICES ASSUME Init PROVE TurnInv OBVIOUS
  <2>1. \A p \in Procs : proc[p].pc = "idle" BY IdleIs DEF Init
  <2> QED BY <2>1, TypedFirst DEF TurnInv, Alone, Fresh, Active
<1>2. TurnInv /\ [Next]_vars => TurnInv'
  <2> SUFFICES ASSUME TurnInv, [Next]_vars PROVE TurnInv' OBVIOUS
  <2>1. Typed' BY TypedKept DEF TurnInv
  <2>2. CASE GuiStart BY <2>1, <2>2, GuiTurn DEF TurnInv
  <2>3. CASE ServerStep BY <2>1, <2>3, TableTurn, SyncTurn, TakeTurn, LeaveTurn DEF TurnInv, ServerStep
  <2>4. CASE AgentStep \/ Connect \/ Break \/ Restart \/ EditFile \/ SaveFile \/ UNCHANGED vars
    BY <2>1, <2>4, OtherSteps, StillTurn DEF TurnInv
  <2> QED BY <2>2, <2>3, <2>4 DEF Next
<1> QED BY <1>1, <1>2, PTL DEF Spec

\* The property of one step.
Versioned == \A i \in Ids :
    /\ (jobs[i] # None /\ jobs'[i] \notin {jobs[i], None})
          => jobs'[i].ver > jobs[i].ver /\ jobs'[i].origin = jobs[i].origin
    /\ (jobs[i] = None /\ jobs'[i] # None) => jobs'[i].ver = 1

\* handleJobSave, handleJobsSync: where requests run one after another, a
\* change of a job raises its version and keeps its origin, and a job that was
\* deleted comes back at most as a new one.
THEOREM JobChangesAreVersioned ==
    ASSUME Overlap = FALSE PROVE Spec => ChangesAreVersioned
<1>1. TurnInv /\ [Next]_vars => [Versioned]_vars
  <2> SUFFICES ASSUME TurnInv, [Next]_vars PROVE Versioned OBVIOUS
  <2>0. jobs \in Table BY DEF TurnInv, Typed, Rows
  <2>1. CASE jobs' = jobs BY <2>1 DEF Versioned
  <2>2. ASSUME NEW p \in Procs, SaveJob(p) PROVE Versioned
    <3>1. jobs' = [jobs EXCEPT ![proc[p].id] = proc[p].row] /\ proc[p].pc = "save" BY <2>2 DEF SaveJob
    <3>2. proc[p].id \in Ids /\ Ready(proc[p]) BY <3>1 DEF TurnInv, Typed, Requests, Shape, Fresh
    <3>3. ASSUME NEW i \in Ids, i # proc[p].id PROVE jobs'[i] = jobs[i] BY <2>0, <3>1, <3>2, <3>3 DEF Table
    <3>4. jobs'[proc[p].id] = proc[p].row BY <2>0, <3>1, <3>2 DEF Table
    <3> QED BY <3>2, <3>3, <3>4 DEF Versioned, Ready
  <2>3. ASSUME NEW p \in Procs, DeleteJob(p) PROVE Versioned
    BY <2>0, <2>3 DEF Versioned, DeleteJob, Table
  <2>4. ASSUME NEW c \in Conns, NEW i \in Ids, SyncCreate(c, i) PROVE Versioned
    <3>1. jobs[i] = None /\ \E r \in Row : r.ver = 1 /\ jobs' = [jobs EXCEPT ![i] = r]
      BY <2>4, CreateMoves DEF TurnInv
    <3> QED BY <2>0, <3>1 DEF Versioned, Table
  <2>5. CASE ServerStep
    <3>1. ASSUME NEW p \in Procs, ListJobs(p) \/ PushJobs(p) PROVE jobs' = jobs
      BY <3>1 DEF ListJobs, PushJobs, tableVars
    <3>2. ASSUME NEW c \in Conns, Take(c) \/ SyncEdit(c) \/ SyncEnd(c) \/ Leave(c) \/ SyncRefuse(c)
          PROVE  jobs' = jobs
      BY <3>2 DEF Take, SyncEdit, SyncEnd, Leave, SyncRefuse, tableVars
    <3> QED BY <2>1, <2>2, <2>3, <2>4, <2>5, <3>1, <3>2 DEF ServerStep
  <2>6. CASE GuiStart BY <2>1, <2>6 DEF GuiStart, GuiCreate, GuiEdit, GuiDelete, tableVars
  <2> QED BY <2>1, <2>5, <2>6, OtherSteps DEF Next
<1>2. [][Versioned]_vars => ChangesAreVersioned
  BY PTL DEF Versioned, ChangesAreVersioned
<1> QED BY <1>1, <1>2, TurnInvariant, PTL DEF Spec

-----------------------------------------------------------------------------
(* Once all is quiet the three places agree *)

\* pushJobs finds room in the queue of the connection.
Room == \A p \in Procs : proc[p].pc = "push" /\ hub # 0 => Len(down[hub]) < QueueCap

\* The agent has sent what the server answers with all the jobs.
Asked == \E k \in 1..Len(up[link]) : up[link][k].type \in {"hello", "sync"}

\* All the jobs are on their way to the agent, or will be sent.
Coming == Busy \/ Asked \/ down[link] # <<>>

\* The agent has, is being sent or will be sent the table as it is now.
Known ==
    \/ Busy \/ Asked
    \/ down[link] # <<>> /\ down[link][Len(down[link])] = jobs
    \/ down[link] = <<>> /\ cache = jobs

Deleting(i) == \E k \in 1..Len(up[link]) : up[link][k] = [type |-> "delete", id |-> i]

\* The content f asks for nothing but deletions that are on their way.
Nothing(f) ==
    /\ \A e \in f.jobs : e.id # None /\ (cache[e.id] # None => e.spec = cache[e.id].spec)
    /\ \A i \in f.delete : cache[i] = None \/ Deleting(i)

\* The file does not change between the two halves of a sync or a write.
Still == /\ at.pc = "read" => at.got = file
         /\ at.pc = "written" => file = FileOf(cache)

\* What was hashed last has been dealt with.
Settled == at.pc = "idle" /\ ~ syncing /\ seen # None => Coming \/ Nothing(seen)

QuietInv ==
    /\ Still
    /\ link # 0 => hub = link /\ Known /\ (sent # {} => Coming) /\ Settled

\* Connection of the agent.
LEMMA LinkIs == ASSUME Typed, link # 0 PROVE /\ link \in Conns /\ up[link] \in Seq(Msgs) /\ down[link] \in Seq(Table)
BY JobSyncAssumption DEF Typed, Nets, Conns

\* A request is at work: the jobs will be sent.
LEMMA BusyQuiet ==
    ASSUME QuietInv, Busy', UNCHANGED <<hub, link, at, file, cache>> PROVE QuietInv'
<1>1. Still' BY DEF QuietInv, Still
<1>2. Known' /\ Coming' BY DEF Known, Coming
<1> QED BY <1>1, <1>2 DEF QuietInv, Settled

\* What QuietInv says of the connection does not change.
LEMMA SameQuiet ==
    ASSUME QuietInv, Busy' <=> Busy, link # 0 => up'[link] = up[link] /\ hub' = hub,
           UNCHANGED <<jobs, link, down, cache, sent, seen, syncing, at>>,
           at.pc = "idle" \/ file' = file
    PROVE  QuietInv'
<1>1. Still' BY DEF QuietInv, Still
<1>2. ASSUME link # 0 PROVE (Asked' <=> Asked) /\ \A i : Deleting(i)' <=> Deleting(i)
  BY <1>2 DEF Asked, Deleting
<1>3. ASSUME link # 0 PROVE (Known' <=> Known) /\ (Coming' <=> Coming) BY <1>2, <1>3 DEF Known, Coming
<1>4. ASSUME link # 0, Nothing(seen) PROVE Nothing(seen)' BY <1>2, <1>4 DEF Nothing
<1>5. ASSUME link # 0 PROVE Settled' BY <1>3, <1>4, <1>5 DEF QuietInv, Settled
<1> QED BY <1>1, <1>3, <1>5 DEF QuietInv

\* The list is pushed.
LEMMA PushQuiet ==
    ASSUME TurnInv, QuietInv, Room, NEW p \in Procs, PushJobs(p) PROVE QuietInv'
<1>1. proc[p].pc = "push" /\ UNCHANGED <<jobs, hub, link, at, file, cache>>
  BY DEF PushJobs, tableVars, agentVars
<1>2. proc[p].list = jobs /\ jobs \in Table BY <1>1 DEF TurnInv, Fresh, Typed, Rows
<1>3. Still' BY <1>1 DEF QuietInv, Still
<1>4. ASSUME link # 0 PROVE Known' /\ Coming'
  <2>1. hub = link /\ link \in Conns /\ down[link] \in Seq(Table) BY <1>4, LinkIs DEF QuietInv, TurnInv
  <2>2. down' = [down EXCEPT ![link] = Append(@, jobs)] BY <1>1, <1>2, <1>4, <2>1 DEF Room, PushJobs
  <2>3. down'[link] = Append(down[link], jobs) BY <2>1, <2>2 DEF TurnInv, Typed, Nets
  <2> DEFINE d == Append(down[link], jobs)
  <2>4. d # <<>> /\ d[Len(d)] = jobs BY <1>2, <2>1
  <2> HIDE DEF d
  <2>5. down'[link'] = d BY <1>1, <2>3 DEF d
  <2> QED BY <1>1, <2>4, <2>5 DEF Known, Coming
<1> QED BY <1>1, <1>3, <1>4 DEF QuietInv, Settled

\* A deletion of a job that the server does not have is taken.
LEMMA TakeQuiet ==
    ASSUME TurnInv, QuietInv, NEW c \in Conns, Take(c), ~ Busy, Head(up[c]) \in Dels, jobs[Head(up[c]).id] = None
    PROVE  QuietInv'
<1>1. UNCHANGED <<jobs, hub, link, down, cache, sent, seen, syncing, at, file>>
  BY DEF Take, tableVars, agentVars
<1>2. up[c] # <<>> /\ up[c] \in Seq(Msgs) /\ up' = [up EXCEPT ![c] = Tail(@)] /\ up \in [Conns -> Seq(Msgs)]
  BY DEF Take, TurnInv, Typed, Nets
<1>3. Still' BY <1>1 DEF QuietInv, Still
<1>4. ASSUME link # 0, c # link PROVE up'[link] = up[link] BY <1>2, <1>4, LinkIs DEF TurnInv
<1>5. up'[c] = Tail(up[c]) BY <1>2
<1>6. PICK m \in Dels : m = Head(up[c]) OBVIOUS
<1>7. m.type = "delete" /\ m.id \in Ids /\ m = [type |-> "delete", id |-> m.id] BY DEF Dels
<1>8. ASSUME NEW k \in 1..Len(up[c]), k # 1 PROVE k - 1 \in 1..Len(up'[c]) /\ up'[c][k - 1] = up[c][k]
  BY <1>2, <1>5, <1>8
<1>9. up[c][1] = m BY <1>2, <1>6
<1>10. ASSUME link # 0, Asked PROVE Asked'
  <2>1. CASE c # link BY <1>1, <1>4, <1>10, <2>1 DEF Asked
  <2>2. CASE c = link
    <3>1. PICK k \in 1..Len(up[c]) : up[c][k].type \in {"hello", "sync"} BY <1>10, <2>2 DEF Asked
    <3>2. k # 1 BY <1>7, <1>9, <3>1
    <3> QED BY <1>1, <1>8, <2>2, <3>1, <3>2 DEF Asked
  <2> QED BY <2>1, <2>2
<1>11. ASSUME link # 0, NEW i \in Ids, Deleting(i) PROVE Deleting(i)' \/ (c = link /\ i = m.id)
  <2>1. CASE c # link BY <1>1, <1>4, <1>11, <2>1 DEF Deleting
  <2>2. CASE c = link
    <3>1. PICK k \in 1..Len(up[c]) : up[c][k] = [type |-> "delete", id |-> i] BY <1>11, <2>2 DEF Deleting
    <3>2. CASE k = 1
      <4>1. m = [type |-> "delete", id |-> i] BY <1>9, <3>1, <3>2
      <4> QED BY <2>2, <4>1
    <3>3. CASE k # 1 BY <1>1, <1>8, <2>2, <3>1, <3>3 DEF Deleting
    <3> QED BY <3>2, <3>3
  <2> QED BY <2>1, <2>2
<1>12. ASSUME link # 0 PROVE Known' /\ (Coming => Coming')
  BY <1>1, <1>10, <1>12 DEF QuietInv, Known, Coming
<1>13. ASSUME link # 0, ~ Coming, Nothing(seen), seen \in File PROVE Nothing(seen)'
  <2>1. cache = jobs BY <1>13 DEF QuietInv, Known, Coming
  <2>2. cache[m.id] = None BY <1>6, <2>1
  <2>3. \A i \in seen.delete : i \in Ids BY <1>13 DEF File
  <2>4. ASSUME NEW i \in seen.delete PROVE cache[i] = None \/ Deleting(i)'
    BY <1>11, <1>13, <2>2, <2>3, <2>4 DEF Nothing
  <2> QED BY <1>1, <1>13, <2>4 DEF Nothing
<1>14. ASSUME link # 0 PROVE Settled'
  <2>1. seen \in File \cup {None} BY DEF TurnInv, Typed, Agent
  <2> QED BY <1>1, <1>12, <1>13, <1>14, <2>1 DEF QuietInv, Settled
<1> QED BY <1>1, <1>3, <1>12, <1>14 DEF QuietInv

\* The agent takes a list.
LEMMA ApplyQuiet == ASSUME TurnInv, QuietInv, ApplyCache PROVE QuietInv'
<1>1. UNCHANGED <<jobs, proc, hub, up, link>> /\ at'.pc = "cached" /\ sent' = {}
  BY DEF ApplyCache, tableVars, At0
<1>2. link # 0 /\ link \in Conns /\ down[link] \in Seq(Table) /\ down[link] # <<>>
  BY LinkIs DEF ApplyCache, TurnInv
<1>3. down' = [down EXCEPT ![link] = Tail(@)] /\ cache' = Head(down[link]) BY DEF ApplyCache
<1>4. down'[link] = Tail(down[link]) BY <1>2, <1>3 DEF TurnInv, Typed, Nets
<1>5. (Busy' <=> Busy) /\ (Asked' <=> Asked) BY <1>1 DEF Busy, Active, Asked
<1>6. ASSUME down[link][Len(down[link])] = jobs
      PROVE  \/ Tail(down[link]) # <<>> /\ Tail(down[link])[Len(Tail(down[link]))] = jobs
             \/ Tail(down[link]) = <<>> /\ Head(down[link]) = jobs
  <2> DEFINE d == down[link]
  <2>1. d \in Seq(Table) /\ d # <<>> /\ d[Len(d)] = jobs BY <1>2, <1>6
  <2> HIDE DEF d
  <2>2. Len(d) \in Nat /\ Len(d) # 0 BY <2>1, EmptySeq
  <2>3. Tail(d) \in Seq(Table) /\ Len(Tail(d)) = Len(d) - 1 BY <2>1, HeadTailProperties
  <2>4. CASE Len(d) = 1
    <3>1. Len(Tail(d)) = 0 BY <2>3, <2>4
    <3>2. Tail(d) = <<>> BY <2>3, <3>1, EmptySeq
    <3>3. Head(d) = jobs BY <2>1, <2>4
    <3> QED BY <3>2, <3>3 DEF d
  <2>5. CASE Len(d) # 1
    <3>1. Len(d) - 1 \in 1..Len(Tail(d)) /\ Len(Tail(d)) # 0 BY <2>2, <2>3, <2>5
    <3>2. Tail(d)[Len(d) - 1] = d[(Len(d) - 1) + 1] BY <2>1, <3>1, HeadTailProperties
    <3>3. (Len(d) - 1) + 1 = Len(d) BY <2>2
    <3>4. Tail(d)[Len(Tail(d))] = jobs
      <4>1. Tail(d)[Len(d) - 1] = jobs BY <2>1, <3>2, <3>3, Zenon
      <4> QED BY <2>3, <4>1, Zenon
    <3>5. Tail(d) # <<>>
      <4> SUFFICES ASSUME Tail(d) = <<>> PROVE Len(Tail(d)) = 0 BY <3>1
      <4> QED BY EmptySeq, Zenon
    <3> QED BY <3>4, <3>5 DEF d
  <2> QED BY <2>4, <2>5
<1>7. Known'
  <2>1. CASE Busy \/ Asked BY <1>5, <2>1 DEF Known
  <2>2. CASE down[link][Len(down[link])] = jobs
    <3>1. down'[link'] = Tail(down[link]) /\ jobs' = jobs /\ cache' = Head(down[link]) BY <1>1, <1>3, <1>4
    <3> QED BY <1>6, <2>2, <3>1 DEF Known
  <2> QED BY <1>2, <2>1, <2>2 DEF QuietInv, Known
<1>8. Still' BY <1>1 DEF Still
<1>9. hub' = link' BY <1>1, <1>2 DEF QuietInv
<1> QED BY <1>1, <1>7, <1>8, <1>9 DEF QuietInv, Settled

\* What is written for a table asks for nothing.
LEMMA FileOfAsks == ASSUME Typed PROVE Nothing(FileOf(cache))
<1>1. None \notin Ids BY JobSyncAssumption
<1>2. FileOf(cache).delete = {} BY DEF FileOf
<1>3. ASSUME NEW e \in FileOf(cache).jobs PROVE e.id # None /\ e.spec = cache[e.id].spec
  <2>1. PICK i \in Ids : e = [id |-> i, spec |-> cache[i].spec] BY <1>3 DEF FileOf
  <2> QED BY <1>1, <2>1
<1> QED BY <1>2, <1>3 DEF Nothing

\* A file all of whose changes are sent or need not be sent.
LEMMA SentAsks ==
    ASSUME Typed, NEW f \in File, Changes(f) = {}, sent = {}
    PROVE  \A e \in f.jobs : e.id # None /\ (cache[e.id] # None => e.spec = cache[e.id].spec)
<1>1. Creates(f) = {} /\ Edits(f) = {} BY DEF Changes
<1> QED BY <1>1 DEF Creates, Edits

\* syncNow sends.
LEMMA SendQuiet == ASSUME TurnInv, QuietInv, SyncSend PROVE QuietInv'
<1>1. /\ UNCHANGED <<jobs, proc, hub, down, link, cache, syncing, file>>
      /\ at'.pc = "idle" /\ seen' = file /\ at.pc = "read"
  BY DEF SyncSend, tableVars, At0
<1>2. at.got = file /\ file \in File BY <1>1 DEF QuietInv, Still, TurnInv, Typed, Agent
<1>3. Still' BY <1>1 DEF Still
<1>4. SUFFICES ASSUME link # 0 PROVE hub' = link' /\ Known' /\ (sent' # {} => Coming') /\ Settled'
  BY <1>1, <1>3 DEF QuietInv
<1> DEFINE h == IF Changes(file) = {} THEN <<>> ELSE <<[type |-> "sync", jobs |-> Changes(file)]>>
<1>5. /\ up' = [up EXCEPT ![link] = @ \o h \o Deletes(file)]
      /\ sent' = sent \cup {e.spec.name : e \in Creates(file)}
  BY <1>2, <1>4 DEF SyncSend
<1>6. link \in Conns /\ up[link] \in Seq(Msgs) /\ up \in [Conns -> Seq(Msgs)] BY <1>4, LinkIs DEF TurnInv, Typed, Nets
<1>7. h \in Seq(Msgs)
  <2>1. [type |-> "sync", jobs |-> Changes(file)] \in Msgs BY <1>2, ChangesAre DEF Msgs, TurnInv
  <2> QED BY <2>1
<1>8. Changes(file) # {} => h = <<[type |-> "sync", jobs |-> Changes(file)]>> OBVIOUS
<1> HIDE DEF h
<1>9. Deletes(file) \in Seq(Msgs)
  <2>1. Dels \subseteq Msgs BY DEF Msgs
  <2> QED BY <1>2, <2>1, DeletesAre
<1>10. up'[link'] = up[link] \o h \o Deletes(file) BY <1>1, <1>5, <1>6
<1> DEFINE u == up[link]
           d == Deletes(file)
           w == u \o h \o d
<1>11. /\ \A k \in 1..Len(u) : k \in 1..Len(w) /\ w[k] = u[k]
       /\ \A k \in 1..Len(h) : Len(u) + k \in 1..Len(w) /\ w[Len(u) + k] = h[k]
       /\ \A k \in 1..Len(d) : Len(u) + Len(h) + k \in 1..Len(w) /\ w[Len(u) + Len(h) + k] = d[k]
  <2>1. u \in Seq(Msgs) /\ h \in Seq(Msgs) /\ d \in Seq(Msgs) BY <1>6, <1>7, <1>9
  <2> HIDE DEF u, d
  <2> QED BY <2>1
<1> HIDE DEF u, d, w
<1>12. up'[link'] = w BY <1>10 DEF w, u, d
<1>13. (Busy' <=> Busy) /\ (Asked => Asked')
  <2>1. Busy' <=> Busy BY <1>1 DEF Busy, Active
  <2>2. ASSUME Asked PROVE Asked'
    <3>1. PICK k \in 1..Len(u) : u[k].type \in {"hello", "sync"} BY <2>2 DEF Asked, u
    <3> QED BY <1>11, <1>12, <3>1 DEF Asked
  <2> QED BY <2>1, <2>2
<1>14. ASSUME Changes(file) # {} PROVE Asked'
  <2>1. Len(h) = 1 /\ h[1].type = "sync" BY <1>8, <1>14
  <2>2. Len(u) + 1 \in 1..Len(w) /\ w[Len(u) + 1].type = "sync" BY <1>11, <2>1
  <2> QED BY <1>12, <2>2 DEF Asked
<1>15. \A i \in file.delete : Deleting(i)'
  <2>1. ASSUME NEW i \in file.delete PROVE Deleting(i)'
    <3>1. PICK k \in 1..Len(d) : d[k] = [type |-> "delete", id |-> i] BY <1>2, DeletesAre DEF d
    <3> QED BY <1>11, <1>12, <3>1 DEF Deleting
  <2> QED BY <2>1
<1>16. Known' /\ (Coming => Coming') BY <1>1, <1>4, <1>13 DEF QuietInv, Known, Coming
<1>17. sent # {} => Coming' BY <1>4, <1>16 DEF QuietInv
<1>18. sent' # {} => Coming'
  <2>1. ASSUME Creates(file) # {} PROVE Coming'
    <3>1. Changes(file) # {} BY <2>1 DEF Changes
    <3> QED BY <1>14, <3>1 DEF Coming
  <2>2. ASSUME Creates(file) = {} PROVE sent' = sent BY <1>5, <2>2
  <2> QED BY <1>17, <2>1, <2>2
<1>19. Coming' \/ Nothing(seen)'
  <2>1. CASE Changes(file) # {} BY <1>14, <2>1 DEF Coming
  <2>2. CASE sent # {} BY <1>17, <2>2
  <2>3. CASE Changes(file) = {} /\ sent = {}
    <3>1. \A e \in file.jobs : e.id # None /\ (cache[e.id] # None => e.spec = cache[e.id].spec)
      BY <1>2, <2>3, SentAsks DEF TurnInv
    <3> QED BY <1>1, <1>15, <3>1 DEF Nothing
  <2> QED BY <2>1, <2>2, <2>3
<1> QED BY <1>1, <1>4, <1>16, <1>18, <1>19 DEF QuietInv, Settled

\* The agent writes and hashes the file, and reads it.
LEMMA FileQuiet == ASSUME TurnInv, QuietInv, ApplyWrite \/ ApplyHash \/ SyncRead PROVE QuietInv'
<1>1. UNCHANGED <<jobs, proc, hub, link, up, down, cache, sent>>
  BY DEF ApplyWrite, ApplyHash, SyncRead, tableVars, netVars
<1>2. /\ Busy' <=> Busy
      /\ Asked' <=> Asked
      /\ Known' <=> Known
      /\ Coming' <=> Coming
  BY <1>1 DEF Busy, Active, Asked, Known, Coming
<1>3. Still' BY <1>1 DEF ApplyWrite, ApplyHash, SyncRead, Still, At0
<1>4. Settled'
  <2>1. CASE ApplyWrite \/ SyncRead BY <2>1 DEF ApplyWrite, SyncRead, Settled, At0
  <2>2. CASE ApplyHash
    <3>1. seen' = FileOf(cache) /\ cache' = cache BY <2>2 DEF ApplyHash, QuietInv, Still
    <3>2. Nothing(FileOf(cache))
      BY FileOfAsks DEF TurnInv
    <3>3. \A e \in FileOf(cache).jobs : e.id # None /\ (cache[e.id] # None => e.spec = cache[e.id].spec)
      BY <3>2 DEF Nothing
    <3>4. FileOf(cache).delete = {} BY DEF FileOf
    <3>5. Nothing(seen)' BY <3>1, <3>3, <3>4 DEF Nothing
    <3> QED BY <3>5 DEF Settled
  <2> QED BY <2>1, <2>2
<1> QED BY <1>1, <1>2, <1>3, <1>4 DEF QuietInv

\* The connection comes and goes.
LEMMA LinkQuiet == ASSUME TurnInv, QuietInv, Connect \/ Break \/ Restart PROVE QuietInv'
<1>1. CASE Connect
  <2>1. made' \in Conns /\ link' = made' /\ hub' = made' /\ up' = [up EXCEPT ![made'] = <<[type |-> "hello"]>>]
    BY <1>1, JobSyncAssumption DEF Connect, TurnInv, Typed, Nets, Conns
  <2>2. up'[link'] = <<[type |-> "hello"]>> BY <2>1 DEF TurnInv, Typed, Nets
  <2>3. Len(<<[type |-> "hello"]>>) = 1 /\ <<[type |-> "hello"]>>[1].type = "hello" OBVIOUS
  <2>4. Asked' BY <2>2, <2>3 DEF Asked
  <2>5. Known' /\ Coming' BY <2>4 DEF Known, Coming
  <2>6. Still' BY <1>1 DEF Connect, QuietInv, Still
  <2> QED BY <2>1, <2>5, <2>6 DEF QuietInv, Settled
<1>2. CASE Break
  BY <1>2 DEF Break, agentVars, QuietInv, Still
<1>3. CASE Restart
  BY <1>3 DEF Restart, QuietInv, Still, At0
<1> QED BY <1>1, <1>2, <1>3

\* The user edits and saves while the agent is not at work on the file.
LEMMA UserQuiet == ASSUME Overlap = FALSE, TurnInv, QuietInv, EditFile \/ SaveFile \/ UNCHANGED vars PROVE QuietInv'
<1>1. UNCHANGED <<jobs, proc, hub, link, up, down, cache, sent, seen, syncing, at>> /\ (at.pc = "idle" \/ file' = file)
  BY DEF EditFile, SaveFile, vars, tableVars, netVars, agentVars
<1>2. Busy' <=> Busy BY <1>1 DEF Busy, Active
<1> QED BY <1>1, <1>2, SameQuiet

\* Every step of the server.
LEMMA ServerQuiet == ASSUME Overlap = FALSE, TurnInv, QuietInv, Room, GuiStart \/ ServerStep PROVE QuietInv'
<1>1. CASE GuiStart
  <2>1. UNCHANGED <<hub, link, at, file, cache>>
    BY <1>1 DEF GuiStart, GuiCreate, GuiEdit, GuiDelete, netVars, agentVars
  <2> QED BY <1>1, <2>1, GuiTurn, BusyQuiet
<1>2. ASSUME NEW p \in Procs, SaveJob(p) \/ DeleteJob(p) \/ ListJobs(p) \/ PushJobs(p) PROVE QuietInv'
  <2>1. UNCHANGED <<hub, link, at, file, cache>>
    BY <1>2 DEF SaveJob, DeleteJob, ListJobs, PushJobs, netVars, agentVars
  <2> QED BY <1>2, <2>1, TableTurn, BusyQuiet, PushQuiet
<1>3. ASSUME NEW c \in Conns, SyncRefuse(c) \/ SyncEdit(c) \/ SyncEnd(c) \/ \E i \in Ids : SyncCreate(c, i)
      PROVE  QuietInv'
  <2>1. UNCHANGED <<hub, link, at, file, cache>>
    BY <1>3 DEF SyncRefuse, SyncEdit, SyncEnd, SyncCreate, netVars, agentVars
  <2> QED BY <1>3, <2>1, SyncTurn, BusyQuiet
<1>4. ASSUME NEW c \in Conns, Take(c) PROVE QuietInv'
  <2>1. UNCHANGED <<hub, link, at, file, cache>> BY <1>4 DEF Take, agentVars
  <2>2. ~ Busy /\ (Busy' \/ (Head(up[c]) \in Dels /\ jobs[Head(up[c]).id] = None)) BY <1>4, TakeTurn
  <2> QED BY <1>4, <2>1, <2>2, BusyQuiet, TakeQuiet
<1>5. ASSUME NEW c \in Conns, Leave(c) PROVE QuietInv'
  <2>1. UNCHANGED <<jobs, link, down, cache, sent, seen, syncing, at, file>> BY <1>5 DEF Leave, tableVars, agentVars
  <2>2. c # link BY <1>5 DEF Leave
  <2>3. link # 0 => hub = link /\ link \in Conns BY LinkIs DEF QuietInv, TurnInv
  <2>4. link # 0 => up'[link] = up[link] /\ hub' = hub BY <1>5, <2>2, <2>3 DEF Leave, TurnInv, Typed, Nets
  <2>5. Busy' <=> Busy BY <1>5, LeaveTurn
  <2> QED BY <2>1, <2>4, <2>5, SameQuiet
<1> QED BY <1>1, <1>2, <1>3, <1>4, <1>5 DEF ServerStep

\* What makes the agreement inductive: as long as pushJobs finds room, the
\* agent has the table as it is, or is being sent or will be sent it, and what
\* it has hashed of the file asks for nothing that is not on its way.
THEOREM QuietInvariant ==
    ASSUME Overlap = FALSE PROVE Spec /\ []Room => []QuietInv
<1>1. Init => QuietInv BY DEF Init, QuietInv, Still, At0
<1>2. TurnInv /\ Room /\ QuietInv /\ [Next]_vars => QuietInv'
  <2> SUFFICES ASSUME TurnInv, Room, QuietInv, [Next]_vars PROVE QuietInv' OBVIOUS
  <2>1. CASE AgentStep BY <2>1, ApplyQuiet, FileQuiet, SendQuiet DEF AgentStep
  <2> QED BY <2>1, ServerQuiet, LinkQuiet, UserQuiet DEF Next
<1> QED BY <1>1, <1>2, TurnInvariant, PTL DEF Spec

\* pushJobs, syncNow: once everything sent has been handled, the server's
\* table, the agent's cache and agent.yaml agree, whatever was edited where and
\* however often the connection broke or the agent restarted, if requests run
\* one after another, the user saves while the agent is not at work on the
\* file, and no push meets a full queue.
THEOREM QuietPlacesAgree ==
    ASSUME Overlap = FALSE PROVE Spec /\ []Room => []QuietAgrees
<1>1. TurnInv /\ QuietInv => QuietAgrees
  <2> SUFFICES ASSUME TurnInv, QuietInv, Quiet PROVE Agreed BY DEF QuietAgrees
  <2>1. link # 0 /\ up[link] = <<>> /\ down[link] = <<>> /\ at.pc = "idle" /\ ~ syncing /\ file = seen
    BY DEF Quiet
  <2>2. ~ Busy BY DEF Quiet, Busy, Active
  <2>3. ~ Asked /\ \A i : ~ Deleting(i)
    <3>1. Len(up[link]) = 0 BY <2>1
    <3>2. 1..Len(up[link]) = {} BY <3>1
    <3> QED BY <3>2 DEF Asked, Deleting
  <2>4. ~ Coming BY <2>1, <2>2, <2>3 DEF Coming
  <2>5. cache = jobs BY <2>1, <2>2, <2>3 DEF QuietInv, Known
  <2>6. seen # None BY <2>1, JobSyncAssumption DEF TurnInv, Typed, Agent
  <2>7. Nothing(file) BY <2>1, <2>4, <2>6 DEF QuietInv, Settled
  <2> QED BY <2>3, <2>5, <2>7 DEF Agreed, Nothing
<1> QED BY <1>1, TurnInvariant, QuietInvariant, PTL
=============================================================================
