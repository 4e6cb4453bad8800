------------------------------ MODULE Transfers ------------------------------
(***************************************************************************)
(* File transfers between the server and one client.  A push stores the    *)
(* file on the server and lets the agent fetch it; a pull lets the agent   *)
(* upload one.  The rows of the transfers table, the payload objects, the  *)
(* requests of the GUI, the goroutine that every reconnect starts for the  *)
(* queued transfers, and the agent's goroutines, one per command received. *)
(*                                                                         *)
(* All pushes of an instance go to the same path on the client.            *)
(***************************************************************************)
EXTENDS Integers, Sequences

CONSTANTS
    Pushes, Pulls,  \* transfer ids by direction
    Overwriting,    \* the pushes with the overwrite option
    MaxConn,        \* bound on the connections the agent makes
    MaxWorkers,     \* bound on the goroutines a transfer gets on the agent
    Overlap,        \* FALSE: requests of the GUI and the goroutines of
                    \* dispatchPendingTransfers run one after another
    None

Xfers == Pushes \cup Pulls
Conns == 1..MaxConn
Gui   == 0
Procs == {Gui} \cup Conns

ASSUME TransfersAssumption ==
    /\ Pushes \cap Pulls = {} /\ Overwriting \subseteq Pushes /\ None \notin Xfers
    /\ MaxConn \in Nat \ {0} /\ MaxWorkers \in Nat \ {0} /\ Overlap \in BOOLEAN

VARIABLES
    row,      \* status column, "none" before CreateTransfer
    objs,     \* transfers whose payload is in the backend
    proc,     \* the GUI's request, and dispatchPendingTransfers per connection
    hub,      \* hub.conns[agent], 0 if none
    handler,  \* handleAgentWS of each connection
    up, down, \* what a handler, and what the agent, will read
    link,     \* a.ws, 0 if none
    made,     \* connections made
    work,     \* the agent's goroutines
    born,     \* goroutines started so far for each transfer
    xfers,    \* a.xfers: the goroutine whose cancel function is registered
    disk,     \* the push whose file is at the target, None if there is none
    wrote,    \* history: pushes whose file was put there
    asked,    \* bound: transfers whose cancellation was asked for, once each
    lost      \* history: transfers sent to a connection long gone

netVars   == <<hub, handler, up, down, link, made>>
agentVars == <<work, born, xfers, disk, wrote>>
vars == <<row, objs, proc, netVars, agentVars, asked, lost>>

Ended == {"success", "error", "cancelled"}
Rowed == {"queued", "running"} \cup Ended
Idle  == [pc |-> "idle", x |-> None, todo |-> {}, via |-> 0]

\* Another caller may be at work at the same time.
Free(p) == Overlap \/ \A q \in Procs \ {p} : proc[q] = Idle

Set(x, st) == row' = [row EXCEPT ![x] = st]

\* UPDATE ... WHERE id: nothing happens without the row.
Update(x, st) == row' = IF row[x] \in Rowed THEN [row EXCEPT ![x] = st] ELSE row

\* Mutant: the object stays.
LeftOver(x) == objs

\* Delete of the payload object; it may be missing.
Removed(x) == objs \ {x}

\* A caller goes on: dispatchPendingTransfers with its next transfer.
Return(p) == [proc EXCEPT ![p] = IF proc[p].todo = {} THEN Idle
                                 ELSE [Idle EXCEPT !.pc = "mark", !.todo = proc[p].todo]]

-----------------------------------------------------------------------------
(* handleTransferCreate, handleTransferPull *)

\* storeTransferPayload of a push, before there is a row.
StorePayload(x) ==
    /\ proc[Gui] = Idle /\ Free(Gui) /\ x \in Pushes /\ row[x] = "none" /\ x \notin objs
    /\ objs' = objs \cup {x}
    /\ proc' = [proc EXCEPT ![Gui] = [Idle EXCEPT !.pc = "online", !.x = x]]
    /\ UNCHANGED <<row, netVars, agentVars, asked, lost>>

RequestPull(x) ==
    /\ proc[Gui] = Idle /\ Free(Gui) /\ x \in Pulls /\ row[x] = "none"
    /\ proc' = [proc EXCEPT ![Gui] = [Idle EXCEPT !.pc = "online", !.x = x]]
    /\ UNCHANGED <<row, objs, netVars, agentVars, asked, lost>>

\* Online is read before the row is created.
ReadOnline ==
    /\ proc[Gui].pc = "online"
    /\ proc' = [proc EXCEPT ![Gui].pc = IF hub # 0 THEN "running" ELSE "queued"]
    /\ UNCHANGED <<row, objs, netVars, agentVars, asked, lost>>

CreateTransfer ==
    /\ proc[Gui].pc \in {"running", "queued"}
    /\ Set(proc[Gui].x, proc[Gui].pc)
    /\ proc' = IF proc[Gui].pc = "running" THEN [proc EXCEPT ![Gui].pc = "send"] ELSE Return(Gui)
    /\ UNCHANGED <<objs, netVars, agentVars, asked, lost>>

\* The row cannot be created: a push's payload is removed.  Bound: the GUI
\* does not try again.
CreateFails ==
    /\ proc[Gui].pc \in {"running", "queued"}
    /\ Set(proc[Gui].x, "deleted")
    /\ objs' = Removed(proc[Gui].x)
    /\ proc' = Return(Gui)
    /\ UNCHANGED <<netVars, agentVars, asked, lost>>

-----------------------------------------------------------------------------
(* dispatchTransfer and cancelTransfer call hub.Send. *)

\* Mutant: a transfer that could not be sent stays as it is.
UnsentKept(x) == row' = row

\* "failed to dispatch to client".
Unsent(x) == Update(x, "error")

\* Send looks up the connection.  A cancellation that cannot be sent is only
\* reported to the GUI.
Lookup(p) ==
    /\ proc[p].pc \in {"send", "stop"}
    /\ IF hub # 0
       THEN /\ proc' = [proc EXCEPT ![p].via = hub,
                                    ![p].pc = IF @ = "send" THEN "put" ELSE "putStop"]
            /\ row' = row
       ELSE /\ IF proc[p].pc = "send" THEN Unsent(proc[p].x) ELSE row' = row
            /\ proc' = Return(p)
    /\ UNCHANGED <<objs, netVars, agentVars, asked, lost>>

\* It queues the message; on a closed connection the message may be queued
\* all the same, and nobody reads it.
Put(p) ==
    /\ proc[p].pc \in {"put", "putStop"}
    /\ LET c == proc[p].via
           m == [type |-> IF proc[p].pc = "put" THEN "start" ELSE "cancel", x |-> proc[p].x]
       IN  /\ down' = IF link = c THEN [down EXCEPT ![c] = Append(@, m)] ELSE down
           /\ lost' = IF handler[c] = "gone" /\ m.type = "start" THEN lost \cup {m.x} ELSE lost
    /\ proc' = Return(p)
    /\ UNCHANGED <<row, objs, hub, handler, up, link, made, agentVars, asked>>

\* The connection is closed or the queue stays full: Send fails.
PutFails(p) ==
    /\ proc[p].pc \in {"put", "putStop"}
    /\ IF proc[p].pc = "put" THEN Unsent(proc[p].x) ELSE row' = row
    /\ proc' = Return(p)
    /\ UNCHANGED <<objs, netVars, agentVars, asked, lost>>

\* cancelTransfer decides by the status it reads.
Cancel(x) ==
    /\ proc[Gui] = Idle /\ Free(Gui) /\ row[x] \in {"queued", "running"} /\ x \notin asked
    /\ asked' = asked \cup {x}
    /\ proc' = [proc EXCEPT ![Gui] =
                  [Idle EXCEPT !.pc = IF row[x] = "queued" THEN "cancel" ELSE "stop", !.x = x]]
    /\ UNCHANGED <<row, objs, netVars, agentVars, lost>>

\* "cancelled before it started".
CancelQueued ==
    /\ proc[Gui].pc = "cancel"
    /\ Update(proc[Gui].x, "cancelled")
    /\ proc' = Return(Gui)
    /\ UNCHANGED <<objs, netVars, agentVars, asked, lost>>

\* deleteTransfer: the row, then the object.
DeleteRow(x) ==
    /\ proc[Gui] = Idle /\ Free(Gui) /\ row[x] \in Rowed
    /\ Set(x, "deleted")
    /\ proc' = [proc EXCEPT ![Gui] = [Idle EXCEPT !.pc = "object", !.x = x]]
    /\ UNCHANGED <<objs, netVars, agentVars, asked, lost>>

DeleteObject ==
    /\ proc[Gui].pc = "object"
    /\ objs' = Removed(proc[Gui].x)
    /\ proc' = Return(Gui)
    /\ UNCHANGED <<row, netVars, agentVars, asked, lost>>

-----------------------------------------------------------------------------
(* handleAgentWS and dispatchPendingTransfers *)

\* Mutant: the list is not restricted by status.
QueuedAny == {x \in Xfers : row[x] \in Rowed}

\* QueuedTransfers.
Queued == {x \in Xfers : row[x] = "queued"}

\* hello starts dispatchPendingTransfers, which lists the queued transfers.
Hello(c) ==
    /\ handler[c] = "hello" /\ Free(c)
    /\ handler' = [handler EXCEPT ![c] = "open"]
    /\ proc' = [proc EXCEPT ![c] = IF Queued = {} THEN Idle
                                   ELSE [Idle EXCEPT !.pc = "mark", !.todo = Queued]]
    /\ UNCHANGED <<row, objs, hub, up, down, link, made, agentVars, asked, lost>>

\* MarkTransferStarted, whatever the status is by now.
MarkStarted(c, x) ==
    /\ proc[c].pc = "mark" /\ x \in proc[c].todo
    /\ Update(x, "running")
    /\ proc' = [proc EXCEPT ![c] = [Idle EXCEPT !.pc = "send", !.x = x, !.todo = proc[c].todo \ {x}]]
    /\ UNCHANGED <<objs, netVars, agentVars, asked, lost>>

\* transfer_done is taken for a transfer whose row is still there.
Report(c) ==
    /\ handler[c] = "open" /\ up[c] # <<>>
    /\ Update(Head(up[c]).x, Head(up[c]).status)
    /\ up' = [up EXCEPT ![c] = Tail(@)]
    /\ UNCHANGED <<objs, proc, hub, handler, down, link, made, agentVars, asked, lost>>

\* The handler finds its connection broken and unregisters it ...
Leave(c) ==
    /\ handler[c] \in {"hello", "open"} /\ link # c
    /\ handler' = [handler EXCEPT ![c] = "fail"]
    /\ hub' = IF hub = c THEN 0 ELSE hub
    /\ up' = [up EXCEPT ![c] = <<>>]
    /\ UNCHANGED <<row, objs, proc, down, link, made, agentVars, asked, lost>>

\* Mutant: running transfers are left to themselves.
FailedNone == row

\* FailRunningTransfers.
Failed == [x \in Xfers |-> IF row[x] = "running" THEN "error" ELSE row[x]]

\* ... and fails what is running, on whatever connection.
Fail(c) ==
    /\ handler[c] = "fail"
    /\ handler' = [handler EXCEPT ![c] = "gone"]
    /\ row' = Failed
    /\ UNCHANGED <<objs, proc, hub, up, down, link, made, agentVars, asked, lost>>

-----------------------------------------------------------------------------
(* The agent *)

Connect ==
    /\ link = 0 /\ made < MaxConn
    /\ made' = made + 1 /\ link' = made' /\ hub' = made'
    /\ handler' = [handler EXCEPT ![made'] = "hello"]
    /\ UNCHANGED <<row, objs, proc, up, down, agentVars, asked, lost>>

Break ==
    /\ link # 0 /\ made < MaxConn
    /\ link' = 0 /\ down' = [down EXCEPT ![link] = <<>>]
    /\ UNCHANGED <<row, objs, proc, hub, handler, up, made, agentVars, asked, lost>>

\* The agent restarts: its goroutines are gone, and the server gives up the
\* uploads it was reading.
Restart ==
    /\ made < MaxConn /\ work # {}
    /\ link' = 0 /\ down' = [c \in Conns |-> <<>>]
    /\ work' = {} /\ xfers' = [x \in Xfers |-> 0]
    /\ objs' = objs \ {w.x : w \in {v \in work : v.pc = "storing"}}
    /\ UNCHANGED <<row, proc, hub, handler, up, made, born, disk, wrote, asked, lost>>

\* handleMessage: push_file, pull_file start a goroutine; cancel_transfer
\* calls the function registered for the transfer, if there is one.
Receive ==
    /\ link # 0 /\ down[link] # <<>>
    /\ LET m == Head(down[link]) IN
       \/ /\ m.type = "start" /\ born[m.x] < MaxWorkers
          /\ born' = [born EXCEPT ![m.x] = @ + 1]
          /\ work' = work \cup {[x |-> m.x, n |-> born'[m.x], pc |-> "new", stop |-> FALSE]}
       \/ /\ m.type = "cancel"
          /\ work' = {IF w.x = m.x /\ w.n = xfers[m.x] THEN [w EXCEPT !.stop = TRUE] ELSE w : w \in work}
          /\ born' = born
    /\ down' = [down EXCEPT ![link] = Tail(@)]
    /\ UNCHANGED <<row, objs, proc, hub, handler, up, link, made, xfers, disk, wrote, asked, lost>>

Step(w, pc) == (work \ {w}) \cup {[w EXCEPT !.pc = pc]}

\* The end of runPushFile and runPullFile: the report, if there is a
\* connection, and the cancel function removed, whoever registered it.
Finish(w, st) ==
    /\ work' = work \ {w}
    /\ xfers' = [xfers EXCEPT ![w.x] = 0]
    /\ up' = IF link = 0 THEN up ELSE [up EXCEPT ![link] = Append(@, [x |-> w.x, status |-> st])]
    /\ UNCHANGED <<row, proc, hub, handler, down, link, made, born, asked, lost>>

\* The goroutine registers its cancel function.
Begin(w) ==
    /\ w.pc = "new"
    /\ xfers' = [xfers EXCEPT ![w.x] = w.n]
    /\ work' = Step(w, IF w.x \in Pushes THEN "check" ELSE "read")
    /\ UNCHANGED <<row, objs, proc, netVars, born, disk, wrote, asked, lost>>

\* Mutant: an error is taken for success.
OutcomeSwallowed(w) == "success"

\* What is reported after an error.
Outcome(w) == IF w.stop THEN "cancelled" ELSE "error"

\* doPushFile: Lstat of the target.
Check(w) ==
    /\ w.pc = "check"
    /\ IF disk # None /\ w.x \notin Overwriting
       THEN Finish(w, "error")
       ELSE work' = Step(w, "fetch") /\ UNCHANGED <<row, proc, netVars, born, xfers, asked, lost>>
    /\ UNCHANGED <<objs, disk, wrote>>

\* handleTransferContent serves the payload; it is written to a temporary
\* file, and its hash is right.
Fetch(w) ==
    /\ w.pc = "fetch" /\ ~ w.stop /\ row[w.x] \in Rowed /\ w.x \in objs
    /\ work' = Step(w, "rename")
    /\ UNCHANGED <<row, objs, proc, netVars, born, xfers, disk, wrote, asked, lost>>

\* It cannot be fetched, or written, or is not what the hash says.
FetchFails(w) ==
    /\ w.pc = "fetch" /\ Finish(w, Outcome(w))
    /\ UNCHANGED <<objs, disk, wrote>>

\* The rename; a cancellation comes too late.
Rename(w) ==
    /\ w.pc = "rename" /\ Finish(w, "success")
    /\ disk' = w.x /\ wrote' = wrote \cup {w.x}
    /\ UNCHANGED objs

\* doPullFile: the source cannot be read, or handleTransferUpload finds no row.
ReadFails(w) ==
    /\ w.pc = "read" /\ Finish(w, Outcome(w))
    /\ UNCHANGED <<objs, disk, wrote>>

\* handleTransferUpload finds the row and reads the body.
Upload(w) ==
    /\ w.pc = "read" /\ ~ w.stop /\ row[w.x] \in Rowed
    /\ work' = Step(w, "storing")
    /\ UNCHANGED <<row, objs, proc, netVars, born, xfers, disk, wrote, asked, lost>>

\* The payload is stored, SetTransferPayload, and the agent hears of it.
Stored(w) ==
    /\ w.pc = "storing" /\ Finish(w, "success")
    /\ objs' = objs \cup {w.x}
    /\ UNCHANGED <<disk, wrote>>

\* Put or the decompression failed: the object is deleted.
StoreFails(w) ==
    /\ w.pc = "storing" /\ Finish(w, Outcome(w))
    /\ objs' = Removed(w.x)
    /\ UNCHANGED <<disk, wrote>>

-----------------------------------------------------------------------------
Init ==
    /\ row = [x \in Xfers |-> "none"] /\ objs = {} /\ proc = [p \in Procs |-> Idle]
    /\ hub = 0 /\ link = 0 /\ made = 0 /\ handler = [c \in Conns |-> "none"]
    /\ up = [c \in Conns |-> <<>>] /\ down = [c \in Conns |-> <<>>]
    /\ work = {} /\ born = [x \in Xfers |-> 0] /\ xfers = [x \in Xfers |-> 0]
    /\ disk = None /\ wrote = {} /\ asked = {} /\ lost = {}

GuiStart == \E x \in Xfers : StorePayload(x) \/ RequestPull(x) \/ Cancel(x) \/ DeleteRow(x)

ServerStep ==
    \/ ReadOnline \/ CreateTransfer \/ CreateFails \/ CancelQueued \/ DeleteObject
    \/ \E p \in Procs : Lookup(p) \/ Put(p) \/ PutFails(p)
    \/ \E c \in Conns : Hello(c) \/ Report(c) \/ Leave(c) \/ Fail(c)
    \/ \E c \in Conns, x \in Xfers : MarkStarted(c, x)

AgentStep ==
    \/ Receive
    \/ \E w \in work : \/ Begin(w) \/ Check(w) \/ Fetch(w) \/ FetchFails(w) \/ Rename(w)
                       \/ ReadFails(w) \/ Upload(w) \/ Stored(w) \/ StoreFails(w)

Next == GuiStart \/ ServerStep \/ AgentStep \/ Connect \/ Break \/ Restart

\* The server's goroutines and the agent's go on.
Fairness == WF_vars(ServerStep) /\ WF_vars(AgentStep)

Spec == Init /\ [][Next]_vars /\ Fairness

-----------------------------------------------------------------------------
\* The variables stay in their types: rows, payloads, connections and goroutines.
TypeOK ==
    /\ row \in [Xfers -> {"none", "deleted"} \cup Rowed]
    /\ objs \subseteq Xfers /\ wrote \subseteq Pushes /\ disk \in Pushes \cup {None}
    /\ hub \in 0..made /\ link \in {0, made} /\ made \in 0..MaxConn
    /\ \A w \in work : w.x \in Xfers /\ w.n \in 1..born[w.x]

\* dispatchTransfer, FailRunningTransfers: a running transfer is on its way
\* to the agent, at work there, on its way back, or about to be failed.
RunningIsAccountedFor ==
    \A x \in Xfers \ lost : row[x] = "running" =>
        \/ \E p \in Procs : proc[p].x = x
        \/ \E c \in Conns : handler[c] \in {"hello", "open"} /\ link # c
        \/ \E c \in Conns : handler[c] = "fail"
        \/ \E c \in Conns : \E k \in 1..Len(down[c]) : down[c][k].x = x /\ down[c][k].type = "start"
        \/ \E c \in Conns : \E k \in 1..Len(up[c]) : up[c][k].x = x
        \/ \E w \in work : w.x = x

\* runPushFile, handleTransferUpload: a push that succeeded was written, with
\* the payload that was uploaded; a pull that succeeded can be downloaded; a
\* push that was cancelled was not written.
StatusIsTrue == \A x \in Xfers :
    /\ row[x] = "success" => x \in wrote \cup (objs \cap Pulls)
    /\ row[x] = "cancelled" => x \notin wrote

\* deleteTransfer, handleTransferCreate: once the GUI's request is over, the
\* payload of a push has its row.  (That of a pull removed while the agent
\* uploads it has none.)
NoOrphanPayload ==
    proc[Gui] = Idle => \A x \in objs \cap Pushes : row[x] \in Rowed

\* A transfer that was delivered is not started again.
SuccessIsFinal == [][\A x \in Xfers : row[x] = "success" => row'[x] \in {"success", "deleted"}]_vars

\* A running transfer ends.
TransfersEnd == \A x \in Xfers : (row[x] = "running" /\ x \notin lost) ~> (row[x] # "running" \/ x \in lost)
=============================================================================
