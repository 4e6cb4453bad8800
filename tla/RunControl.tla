------------------------------ MODULE RunControl ------------------------------
(***************************************************************************)
(* Run rows and the control channel to one agent: the hub's connection and *)
(* its handlers, the calls that start, dispatch and cancel runs (the       *)
(* scheduler, the GUI, the goroutine each reconnect starts) and the        *)
(* agent's own run goroutines.  Connections break at any time, the agent   *)
(* restarts, messages on a broken connection are lost.                     *)
(*                                                                         *)
(* Agents share nothing here but the database tables, whose statements     *)
(* name the agent, so one agent stands for all.                            *)
(***************************************************************************)
EXTENDS Integers, Sequences

CONSTANTS
    Runs,       \* run ids
    Jobs,       \* the agent's jobs, all enabled
    Scheduled,  \* the jobs with a schedule, all of them with catch-up
    MaxConn,    \* bound on the connections the agent makes
    QueueCap,   \* capacity of a connection's send queue
    None        \* no run, no job

Conns == 1..MaxConn

\* The callers of startBackup and sendRunBackup: the scheduler, a request of
\* the GUI, and dispatchPendingWork once per connection.
Admin == -1
Sched == 0
Procs == {Admin, Sched} \cup Conns

ASSUME RunControlAssumption ==
    /\ MaxConn \in Nat /\ QueueCap \in Nat \ {0}
    /\ None \notin Runs /\ None \notin Jobs
    /\ Scheduled \subseteq Jobs

VARIABLES
    status,   \* status column of each run, "none" before CreateRun
    jobOf,    \* job_id column
    catchup,  \* jobs whose catchup_pending is set
    hub,      \* hub.conns[agent]: the current connection, 0 if none
    handler,  \* handleAgentWS of each connection
    closed,   \* connections the server has closed
    down,     \* what the agent will read from its connection: queue and socket
    up,       \* what the handler of each connection will read
    proc,     \* where each caller stands
    link,     \* a.ws: the agent's connection, 0 if none
    waiting,  \* goroutines of each run that wait for a.runs
    cur,      \* a.currentRunID
    stop,     \* the current run's context is cancelled
    lost      \* history: runs put into the queue of a connection long gone, and
              \* runs that were running when the server restarted

connVars  == <<hub, handler, closed>>
agentVars == <<link, waiting, cur, stop>>
rowVars   == <<status, jobOf, catchup>>
vars == <<rowVars, connVars, down, up, proc, agentVars, lost>>

Messages == [type : {"run", "cancel"}, run : Runs]
Reports  == [type : {"hello"}] \cup
            [type : {"done"}, run : Runs, status : {"success", "error", "cancelled"}]

Idle == [pc |-> "idle", back |-> "idle", run |-> None, job |-> None, via |-> 0,
         todo |-> {}, due |-> {}]

\* Caller p goes on after the call it made.
Return(p) == [proc EXCEPT ![p] = [proc[p] EXCEPT !.pc = proc[p].back, !.run = None,
                                                 !.job = None, !.via = 0]]

Goto(p, pc) == [proc EXCEPT ![p].pc = pc]

Set(r, st) == status' = [status EXCEPT ![r] = st]

-----------------------------------------------------------------------------
(* startBackup *)

\* Bound: requests and schedules come while there are run ids left.
Free == \E r \in Runs : status[r] = "none"

\* handleJobRun, startRestore: a request of the GUI.  Offline and told to
\* queue, the run is queued unless the job has one queued already.
Request(j, queue) ==
    /\ proc[Admin] = Idle /\ Free
    /\ hub # 0 \/ (queue /\ \A r \in Runs : ~ (status[r] = "queued" /\ jobOf[r] = j))
    /\ proc' = [proc EXCEPT ![Admin] =
                   [Idle EXCEPT !.pc = IF hub # 0 THEN "running" ELSE "queued", !.job = j]]
    /\ UNCHANGED <<rowVars, connVars, down, up, agentVars, lost>>

\* runScheduler: the job is due.
Due(j) ==
    /\ j \in Scheduled /\ proc[Sched] = Idle /\ Free
    /\ proc' = [proc EXCEPT ![Sched] =
                   [Idle EXCEPT !.pc = IF hub # 0 THEN "start" ELSE "flag", !.job = j]]
    /\ UNCHANGED <<rowVars, connVars, down, up, agentVars, lost>>

\* The agent was offline: SetCatchupPending.
Flag(p) ==
    /\ proc[p].pc = "flag"
    /\ catchup' = catchup \cup {proc[p].job}
    /\ proc' = Return(p)
    /\ UNCHANGED <<status, jobOf, connVars, down, up, agentVars, lost>>

\* startBackup looks again whether the agent is online; without queueing,
\* offline is an error.
Start(p) ==
    /\ proc[p].pc = "start"
    /\ proc' = IF hub # 0 THEN Goto(p, "running") ELSE Return(p)
    /\ UNCHANGED <<rowVars, connVars, down, up, agentVars, lost>>

\* CreateRun, with the status decided before.
Create(p, r) ==
    /\ proc[p].pc \in {"running", "queued"} /\ status[r] = "none"
    /\ Set(r, proc[p].pc)
    /\ jobOf' = [jobOf EXCEPT ![r] = proc[p].job]
    /\ proc' = IF proc[p].pc = "running"
               THEN [proc EXCEPT ![p].pc = "send", ![p].run = r] ELSE Return(p)
    /\ UNCHANGED <<catchup, connVars, down, up, agentVars, lost>>

\* CreateRun fails.
CreateFails(p) ==
    /\ proc[p].pc \in {"running", "queued"}
    /\ proc' = Return(p)
    /\ UNCHANGED <<rowVars, connVars, down, up, agentVars, lost>>

-----------------------------------------------------------------------------
(* sendRunBackup and hub.Send *)

\* Mutant: a run that could not be dispatched is left as it is.
DroppedSilently(r) == status

\* "failed to dispatch to agent".
Dropped(r) == [status EXCEPT ![r] = "error"]

\* Send looks up the connection.
Lookup(p) ==
    /\ proc[p].pc = "send"
    /\ IF hub # 0
       THEN /\ proc' = [proc EXCEPT ![p].pc = "put", ![p].via = hub]
            /\ UNCHANGED status
       ELSE /\ status' = Dropped(proc[p].run)
            /\ proc' = Return(p)
    /\ UNCHANGED <<jobOf, catchup, connVars, down, up, agentVars, lost>>

\* Mutant: the queue has no limit.
Unlimited(c) == TRUE

Room(c) == c = link => Len(down) < QueueCap

\* A message for the agent goes into the queue of connection c.  It arrives
\* if the agent's end is still there.
Enqueue(c, m) == down' = IF c = link /\ c \notin closed THEN Append(down, m) ELSE down

\* Send chooses the queue, which select may do although the connection was
\* closed since the lookup.  When its handler is over, nobody ever fails the
\* run for it.
Put(p) ==
    LET c == proc[p].via
        r == proc[p].run
    IN  /\ proc[p].pc = "put" /\ Room(c)
        /\ Enqueue(c, [type |-> "run", run |-> r])
        /\ lost' = IF handler[c] = "over" THEN lost \cup {r} ELSE lost
        /\ proc' = Return(p)
        /\ UNCHANGED <<rowVars, connVars, up, agentVars>>

\* The connection is closed, or its queue stays full for ten seconds.
PutFails(p) ==
    /\ proc[p].pc = "put" /\ (proc[p].via \in closed \/ ~ Room(proc[p].via))
    /\ status' = Dropped(proc[p].run)
    /\ proc' = Return(p)
    /\ UNCHANGED <<jobOf, catchup, connVars, down, up, agentVars, lost>>

-----------------------------------------------------------------------------
(* cancelRun *)

\* The run is queued when GetRun reads it ...
CancelQueued(r) ==
    /\ proc[Admin] = Idle /\ status[r] = "queued"
    /\ proc' = [proc EXCEPT ![Admin] = [Idle EXCEPT !.pc = "cancel", !.run = r]]
    /\ UNCHANGED <<rowVars, connVars, down, up, agentVars, lost>>

\* ... and FinishRun does not look again.
Cancelled(p) ==
    /\ proc[p].pc = "cancel"
    /\ Set(proc[p].run, "cancelled")
    /\ proc' = Return(p)
    /\ UNCHANGED <<jobOf, catchup, connVars, down, up, agentVars, lost>>

\* A running one is cancelled by asking the agent, if it is there.
CancelRunning(r) ==
    /\ status[r] = "running" /\ hub # 0 /\ Room(hub)
    /\ Enqueue(hub, [type |-> "cancel", run |-> r])
    /\ UNCHANGED <<rowVars, connVars, up, proc, agentVars, lost>>

-----------------------------------------------------------------------------
(* dispatchPendingWork, one goroutine per connection *)

\* QueuedRuns.
ListQueued(c) ==
    /\ proc[c].pc = "list"
    /\ proc' = [proc EXCEPT ![c].pc = "runs", ![c].back = "runs",
                            ![c].todo = {r \in Runs : status[r] = "queued"}]
    /\ UNCHANGED <<rowVars, connVars, down, up, agentVars, lost>>

\* MarkRunStarted, whatever has become of the run since.
MarkStarted(c, r) ==
    /\ proc[c].pc = "runs" /\ r \in proc[c].todo
    /\ Set(r, "running")
    /\ proc' = [proc EXCEPT ![c].pc = "send", ![c].run = r,
                            ![c].todo = proc[c].todo \ {r}]
    /\ UNCHANGED <<jobOf, catchup, connVars, down, up, agentVars, lost>>

\* ListJobs.
ListCatchup(c) ==
    /\ proc[c].pc = "runs" /\ proc[c].todo = {}
    /\ proc' = [proc EXCEPT ![c].pc = "jobs", ![c].back = "jobs", ![c].due = catchup]
    /\ UNCHANGED <<rowVars, connVars, down, up, agentVars, lost>>

\* The flag is cleared before the backup is started.
Catchup(c, j) ==
    /\ proc[c].pc = "jobs" /\ j \in proc[c].due
    /\ catchup' = catchup \ {j}
    /\ proc' = [proc EXCEPT ![c].pc = "start", ![c].job = j,
                            ![c].due = proc[c].due \ {j}]
    /\ UNCHANGED <<status, jobOf, connVars, down, up, agentVars, lost>>

DispatchEnd(c) ==
    /\ proc[c].pc = "jobs" /\ proc[c].due = {}
    /\ proc' = [proc EXCEPT ![c] = Idle]
    /\ UNCHANGED <<rowVars, connVars, down, up, agentVars, lost>>

-----------------------------------------------------------------------------
(* Connections: handleAgentWS, Hub.register, Hub.unregister *)

\* The agent connects and says hello; register replaces and closes the
\* connection that was there.
Dial(c) ==
    /\ link = 0 /\ handler[c] = "new" /\ \A d \in 1..(c - 1) : handler[d] # "new"
    /\ link' = c /\ hub' = c
    /\ handler' = [handler EXCEPT ![c] = "reading"]
    /\ closed' = closed \cup ({hub} \ {0})
    /\ up' = [d \in Conns |-> IF d = c THEN <<[type |-> "hello"]>>
                             ELSE IF d = hub THEN <<>> ELSE up[d]]
    /\ UNCHANGED <<rowVars, down, proc, waiting, cur, stop, lost>>

\* handleAgentMessage: the next message of an open connection.
Receive(c) ==
    LET m == Head(up[c])
    IN  /\ handler[c] = "reading" /\ c \notin closed /\ up[c] # <<>>
        /\ up' = [up EXCEPT ![c] = Tail(@)]
        /\ IF m.type = "hello"
           THEN /\ proc' = [proc EXCEPT ![c] = [Idle EXCEPT !.pc = "list"]]
                /\ UNCHANGED status
           ELSE /\ Set(m.run, m.status) /\ UNCHANGED proc
        /\ UNCHANGED <<jobOf, catchup, connVars, down, agentVars, lost>>

\* Mutant: unregister removes whatever connection is current.
UnregisterAny(c) == 0

\* unregister removes the connection if it is still the current one.
Unregister(c) == IF hub = c THEN 0 ELSE hub

\* ReadJSON fails: the connection is closed, broken or silent for 90 s.
Leave(c) ==
    /\ handler[c] = "reading"
    /\ hub' = Unregister(c) /\ closed' = closed \cup {c}
    /\ handler' = [handler EXCEPT ![c] = "leaving"] /\ up' = [up EXCEPT ![c] = <<>>]
    /\ UNCHANGED <<rowVars, down, proc, agentVars, lost>>

\* Mutant: a handler whose connection was replaced leaves the runs alone.
FailedUnlessReplaced == IF hub # 0 THEN status
                        ELSE [r \in Runs |-> IF status[r] = "running" THEN "error" ELSE status[r]]

Failed == [r \in Runs |-> IF status[r] = "running" THEN "error" ELSE status[r]]

\* FailRunningRuns, also when the connection had been replaced.
FailRunningRuns(c) ==
    /\ handler[c] = "leaving"
    /\ status' = Failed
    /\ handler' = [handler EXCEPT ![c] = "over"]
    /\ UNCHANGED <<jobOf, catchup, hub, closed, down, up, proc, agentVars, lost>>

\* The server restarts: handlers and calls are gone, the rows stay.
ServerRestart ==
    /\ hub' = 0 /\ closed' = {c \in Conns : handler[c] # "new"}
    /\ handler' = [c \in Conns |-> IF handler[c] = "new" THEN "new" ELSE "over"]
    /\ proc' = [p \in Procs |-> Idle] /\ up' = [c \in Conns |-> <<>>]
    /\ lost' = lost \cup {r \in Runs : status[r] = "running"}
    /\ UNCHANGED <<rowVars, down, agentVars>>

-----------------------------------------------------------------------------
(* The agent *)

\* connectAndServe returns: the agent's end of the connection is gone.
Break ==
    /\ link # 0 /\ link' = 0 /\ down' = <<>>
    /\ UNCHANGED <<rowVars, connVars, up, proc, waiting, cur, stop, lost>>

\* handleMessage: a run gets a goroutine of its own; a cancellation counts
\* only for the run that is executing.
AgentReceive ==
    /\ link # 0 /\ down # <<>>
    /\ LET m == Head(down)
       IN  /\ waiting' = IF m.type = "run" THEN [waiting EXCEPT ![m.run] = @ + 1]
                         ELSE waiting
           /\ stop' = (stop \/ (m.type = "cancel" /\ m.run = cur))
    /\ down' = Tail(down)
    /\ UNCHANGED <<rowVars, connVars, up, proc, link, cur, lost>>

\* runBackup, runRestore: a goroutine gets a.runs; beginRun.
BeginRun(r) ==
    /\ cur = None /\ waiting[r] > 0
    /\ cur' = r /\ stop' = FALSE /\ waiting' = [waiting EXCEPT ![r] = @ - 1]
    /\ UNCHANGED <<rowVars, connVars, down, up, proc, link, lost>>

\* The run is over.  runDone reports it when there is a connection, and is
\* not repeated when there is none; endRun.
EndRun(st) ==
    /\ cur # None /\ (st = "cancelled" => stop)
    /\ up' = IF link = 0 \/ link \in closed THEN up
             ELSE [up EXCEPT ![link] = Append(@, [type |-> "done", run |-> cur, status |-> st])]
    /\ cur' = None /\ stop' = FALSE
    /\ UNCHANGED <<rowVars, connVars, down, proc, link, waiting, lost>>

\* The agent process restarts and forgets its runs.
AgentRestart ==
    /\ link' = 0 /\ down' = <<>> /\ cur' = None /\ stop' = FALSE
    /\ waiting' = [r \in Runs |-> 0]
    /\ UNCHANGED <<rowVars, connVars, up, proc, lost>>

-----------------------------------------------------------------------------

Init ==
    /\ status = [r \in Runs |-> "none"] /\ jobOf = [r \in Runs |-> None]
    /\ catchup = {}
    /\ hub = 0 /\ handler = [c \in Conns |-> "new"] /\ closed = {}
    /\ down = <<>> /\ up = [c \in Conns |-> <<>>]
    /\ proc = [p \in Procs |-> Idle]
    /\ link = 0 /\ waiting = [r \in Runs |-> 0] /\ cur = None /\ stop = FALSE
    /\ lost = {}

\* A call that was made goes on.
Step(p) ==
    \/ Flag(p) \/ Start(p) \/ (\E r \in Runs : Create(p, r)) \/ CreateFails(p)
    \/ Lookup(p) \/ Put(p) \/ PutFails(p) \/ Cancelled(p)

Dispatch(c) ==
    \/ ListQueued(c) \/ (\E r \in Runs : MarkStarted(c, r)) \/ ListCatchup(c)
    \/ (\E j \in Jobs : Catchup(c, j)) \/ DispatchEnd(c)

\* The agent goes on with what it has.
Work == AgentReceive \/ (\E r \in Runs : BeginRun(r))

Finish == \E st \in {"success", "error", "cancelled"} : EndRun(st)

Next ==
    \/ \E j \in Jobs : Due(j) \/ \E queue \in BOOLEAN : Request(j, queue)
    \/ \E r \in Runs : CancelQueued(r) \/ CancelRunning(r)
    \/ \E p \in Procs : Step(p)
    \/ \E c \in Conns : \/ Dispatch(c) \/ Dial(c) \/ Receive(c) \/ Leave(c)
                        \/ FailRunningRuns(c)
    \/ ServerRestart
    \/ Break \/ Work \/ Finish \/ AgentRestart

\* The handler of c: it reads, and notices within the read deadline that its
\* connection is closed or broken.
Handle(c) ==
    \/ Receive(c) \/ FailRunningRuns(c)
    \/ Leave(c) /\ (c \in closed \/ link # c)

\* Goroutines are scheduled, also the ones that wait for a.runs; backups end
\* (BackupRun); messages on a working connection arrive.  Nothing says that
\* connections are made or that they break.
Fairness ==
    /\ WF_vars(Step(Admin)) /\ WF_vars(Step(Sched))
    /\ \A c \in Conns : WF_vars(Step(c) \/ Dispatch(c)) /\ WF_vars(Handle(c))
    /\ WF_vars(AgentReceive) /\ (\A r \in Runs : SF_vars(BeginRun(r)))
    /\ WF_vars(Finish)

Spec == Init /\ [][Next]_vars

FairSpec == Spec /\ Fairness

-----------------------------------------------------------------------------

\* Every variable has its type; a send queue never exceeds its capacity.
TypeOK ==
    /\ status \in [Runs -> {"none", "queued", "running", "success", "error", "cancelled"}]
    /\ jobOf \in [Runs -> Jobs \cup {None}] /\ catchup \subseteq Jobs
    /\ hub \in 0..MaxConn /\ closed \subseteq Conns
    /\ handler \in [Conns -> {"new", "reading", "leaving", "over"}]
    /\ down \in Seq(Messages) /\ Len(down) <= QueueCap
    /\ \A c \in Conns : up[c] \in Seq(Reports)
    /\ \A p \in Procs :
          /\ proc[p].pc \in {"idle", "start", "flag", "running", "queued", "send", "put",
                             "cancel", "list", "runs", "jobs"}
          /\ proc[p].run \in Runs \cup {None} /\ proc[p].job \in Jobs \cup {None}
          /\ proc[p].via \in 0..MaxConn
          /\ proc[p].todo \subseteq Runs /\ proc[p].due \subseteq Jobs
    /\ link \in 0..MaxConn /\ waiting \in [Runs -> Nat] /\ cur \in Runs \cup {None}
    /\ stop \in BOOLEAN /\ lost \subseteq Runs

\* The hub knows the agent's connection while both ends are up, and never
\* offers one whose handler is gone: a handler that ends late does not take
\* its successor's entry with it.
HubFollowsConnection ==
    /\ hub # 0 => handler[hub] = "reading" /\ hub \notin closed
    /\ link # 0 /\ link \notin closed /\ handler[link] = "reading" => hub = link

\* Messages of run r that can still arrive.
Sent(r) == \E i \in DOMAIN down : down[i] = [type |-> "run", run |-> r]
Told(r, c) == \E i \in DOMAIN up[c] : up[c][i].type = "done" /\ up[c][i].run = r

\* The handler of c will still fail what is running.
WillFail(c) == handler[c] = "leaving" \/ (handler[c] = "reading" /\ (c \in closed \/ link # c))

\* A run shown as running is never forgotten: a call is about to send or fail
\* it, the agent has it or will get it, its report is under way, or a handler
\* has still to fail it.  The exceptions are a run that hub.Send put into the
\* queue of a connection whose handler has ended since its lookup, and runs
\* of before a restart of the server.
RunningIsAccountedFor ==
    \A r \in Runs : status[r] = "running" =>
        \/ \E p \in Procs : proc[p].run = r /\ proc[p].pc \in {"send", "put"}
        \/ Sent(r) \/ waiting[r] > 0 \/ cur = r
        \/ \E c \in Conns : WillFail(c) \/ (handler[c] = "reading" /\ Told(r, c))
        \/ r \in lost

\* A run shown as running ends, with the same exceptions, also when
\* connections are replaced under it, the agent restarts, the run is sent
\* twice or its report is lost.
RunningEnds ==
    \A r \in Runs : (status[r] = "running") ~> (status[r] # "running" \/ r \in lost)

\* startBackup: "the run is queued and dispatched on reconnect".
QueuedIsDispatched ==
    \A r \in Runs : (status[r] = "queued" /\ hub # 0) ~> (status[r] # "queued" \/ hub = 0)
=============================================================================
