--------------------------- MODULE RunControlProofs ---------------------------
(***************************************************************************)
(* What is proved of RunControl for any number of runs, jobs, connections  *)
(* and places in a send queue.                                             *)
(*                                                                         *)
(* RunningIsAccountedFor is not inductive.  A message still on its way to  *)
(* the agent, or a run the agent executes, is worth nothing once the       *)
(* handler of the agent's connection is over: when the agent breaks the    *)
(* connection, nobody fails the run.  What keeps a run accounted for is    *)
(* that the connection is Live at both ends; AccountInv says so, and the   *)
(* rest of RunInv supports it.                                             *)
(***************************************************************************)
EXTENDS RunControl, TLAPS

Calls == [pc : {"idle", "start", "flag", "running", "queued", "send", "put", "cancel", "list",
                "runs", "jobs"},
          back : {"idle", "runs", "jobs"}, run : Runs \cup {None}, job : Jobs \cup {None},
          via : 0..MaxConn, todo : SUBSET Runs, due : SUBSET Jobs]

Typed ==
    /\ status \in [Runs -> {"none", "queued", "running", "success", "error", "cancelled"}]
    /\ jobOf \in [Runs -> Jobs \cup {None}] /\ catchup \subseteq Jobs
    /\ hub \in 0..MaxConn /\ closed \subseteq Conns
    /\ handler \in [Conns -> {"new", "reading", "leaving", "over"}]
    /\ down \in Seq(Messages) /\ Len(down) <= QueueCap
    /\ up \in [Conns -> Seq(Reports)] /\ proc \in [Procs -> Calls]
    /\ link \in 0..MaxConn /\ waiting \in [Runs -> Nat] /\ cur \in Runs \cup {None}
    /\ stop \in BOOLEAN /\ lost \subseteq Runs

\* A call has the arguments that its next step needs.
CallOk(x) ==
    /\ x.pc \in {"start", "flag", "running", "queued"} => x.job \in Jobs
    /\ x.pc \in {"send", "put", "cancel"} => x.run \in Runs
    /\ x.pc = "put" => x.via \in Conns /\ handler[x.via] # "new"

CallInv == \A p \in Procs : CallOk(proc[p])

ConnInv ==
    /\ HubFollowsConnection
    /\ link # 0 => handler[link] # "new"
    /\ \A c \in closed : handler[c] # "new"

\* The hello of a connection is its first message, and no goroutine works for
\* the connection before it was read.
HelloInv ==
    \A c \in Conns :
        /\ handler[c] = "new" => proc[c] = Idle
        /\ \A i \in DOMAIN up[c] : up[c][i].type = "hello" => i = 1 /\ proc[c] = Idle

Held(r) == \E p \in Procs : proc[p].run = r /\ proc[p].pc \in {"send", "put"}
Live == link # 0 /\ link \notin closed /\ handler[link] = "reading"
AtAgent(r) == Sent(r) \/ waiting[r] > 0 \/ cur = r \/ Told(r, link)

AccountInv ==
    \A r \in Runs : status[r] = "running" =>
        Held(r) \/ r \in lost \/ (\E c \in Conns : WillFail(c)) \/ (Live /\ AtAgent(r))

RunInv == Typed /\ CallInv /\ ConnInv /\ HelloInv /\ AccountInv

USE DEF Conns, Procs, Admin, Sched

LEMMA IdleCall == Idle \in Calls /\ CallOk(Idle) /\ Idle.pc = "idle"
  <1>1. Idle.pc = "idle"
    BY DEF Idle
  <1>2. 0 \in 0..MaxConn
    BY RunControlAssumption
  <1>3. Idle \in Calls
    BY <1>2 DEF Idle, Calls
  <1>4. CallOk(Idle)
    BY <1>1 DEF CallOk
  <1> QED
    BY <1>1, <1>3, <1>4

LEMMA RunInvInit == Init => RunInv
  <1> SUFFICES ASSUME Init PROVE RunInv
    OBVIOUS
  <1>1. Typed
    <2>1. 0 \in 0..MaxConn /\ 0 <= QueueCap /\ \A S : <<>> \in Seq(S) /\ Len(<<>>) = 0
      BY RunControlAssumption
    <2> QED
      BY <2>1, IdleCall DEF Init, Typed
  <1>2. CallInv
    BY IdleCall DEF Init, CallInv
  <1>3. ConnInv
    BY DEF Init, ConnInv, HubFollowsConnection
  <1>4. HelloInv
    BY DEF Init, HelloInv
  <1>5. AccountInv
    BY DEF Init, AccountInv
  <1> QED
    BY <1>1, <1>2, <1>3, <1>4, <1>5 DEF RunInv

\* One call takes a step: it may change rows, and a run that is running after
\* it was so before and is not dropped, or is held by the call.
LEMMA CallMoves ==
    ASSUME RunInv, NEW p \in Procs, NEW x \in Calls, CallOk(x), proc' = [proc EXCEPT ![p] = x],
           proc[p] # Idle \/ p \notin Conns,
           status' \in [Runs -> {"none", "queued", "running", "success", "error", "cancelled"}],
           jobOf' \in [Runs -> Jobs \cup {None}], catchup' \subseteq Jobs,
           \A r \in Runs : status'[r] = "running" =>
              \/ x.run = r /\ x.pc \in {"send", "put"}
              \/ status[r] = "running" /\ ~ (proc[p].run = r /\ proc[p].pc \in {"send", "put"}),
           UNCHANGED <<connVars, down, up, agentVars, lost>>
    PROVE  RunInv'
  <1>1. proc'[p] = x /\ (\A q \in Procs : q # p => proc'[q] = proc[q]) /\ proc' \in [Procs -> Calls]
    BY DEF RunInv, Typed
  <1>2. Typed'
    BY <1>1 DEF RunInv, Typed, connVars, agentVars
  <1>3. CallInv'
    BY <1>1 DEF RunInv, CallInv, CallOk, connVars
  <1>4. ConnInv'
    BY DEF RunInv, ConnInv, HubFollowsConnection, connVars, agentVars
  <1>5. HelloInv'
    BY <1>1 DEF RunInv, HelloInv, connVars
  <1>6. AccountInv'
    <2> SUFFICES ASSUME NEW r \in Runs, status'[r] = "running"
                 PROVE  (Held(r) \/ r \in lost \/ (\E c \in Conns : WillFail(c)) \/ (Live /\ AtAgent(r)))'
      BY DEF AccountInv
    <2>1. CASE x.run = r /\ x.pc \in {"send", "put"}
      BY <1>1, <2>1 DEF Held
    <2>2. CASE status[r] = "running" /\ ~ (proc[p].run = r /\ proc[p].pc \in {"send", "put"})
      <3>1. Held(r) => Held(r)'
        BY <1>1, <2>2 DEF Held
      <3>2. (Live /\ AtAgent(r)) => (Live /\ AtAgent(r))'
        BY DEF Live, AtAgent, Sent, Told, connVars, agentVars
      <3>3. \A c \in Conns : WillFail(c) => WillFail(c)'
        BY DEF WillFail, connVars, agentVars
      <3> QED
        BY <2>2, <3>1, <3>2, <3>3 DEF RunInv, AccountInv
    <2> QED
      BY <2>1, <2>2
  <1> QED
    BY <1>2, <1>3, <1>4, <1>5, <1>6 DEF RunInv

\* A call that returns to its caller.
LEMMA CallReturns ==
    ASSUME RunInv, NEW p \in Procs
    PROVE  \E x \in Calls : /\ CallOk(x) /\ Return(p) = [proc EXCEPT ![p] = x]
                            /\ x.pc \in {"idle", "runs", "jobs"}
  <1> DEFINE x == [proc[p] EXCEPT !.pc = proc[p].back, !.run = None, !.job = None, !.via = 0]
  <1>1. proc[p] \in Calls
    BY DEF RunInv, Typed
  <1>2. x \in Calls /\ x.pc \in {"idle", "runs", "jobs"}
    <2>1. 0 \in 0..MaxConn
      BY RunControlAssumption
    <2> QED
      BY <1>1, <2>1 DEF Calls
  <1>3. CallOk(x)
    BY <1>2 DEF CallOk
  <1>4. Return(p) = [proc EXCEPT ![p] = x]
    BY DEF Return
  <1> QED
    BY <1>2, <1>3, <1>4

\* The steps of startBackup, sendRunBackup, cancelRun and dispatchPendingWork
\* that send nothing.
LEMMA StartStepsInv ==
    ASSUME RunInv, NEW p \in Procs,
           Flag(p) \/ Start(p) \/ (\E r \in Runs : Create(p, r)) \/ CreateFails(p)
           \/ Lookup(p) \/ PutFails(p) \/ Cancelled(p)
    PROVE  RunInv'
  <1>0. proc[p] \in Calls /\ CallOk(proc[p]) /\ Typed
    BY DEF RunInv, Typed, CallInv
  <1>1. PICK x \in Calls : /\ CallOk(x) /\ Return(p) = [proc EXCEPT ![p] = x]
                           /\ x.pc \in {"idle", "runs", "jobs"}
    BY CallReturns
  <1>2. CASE Flag(p)
    BY <1>0, <1>1, <1>2, CallMoves, IdleCall DEF Flag, CallOk, Typed
  <1>3. CASE Start(p)
    <2> DEFINE y == [proc[p] EXCEPT !.pc = "running"]
    <2>1. y \in Calls /\ CallOk(y) /\ y.pc = "running" /\ Goto(p, "running") = [proc EXCEPT ![p] = y]
      BY <1>0, <1>3 DEF Calls, CallOk, Goto, Start
    <2> HIDE DEF y
    <2> QED
      BY <1>0, <1>1, <1>3, <2>1, CallMoves, IdleCall DEF Start, Typed, rowVars
  <1>4. ASSUME NEW r \in Runs, Create(p, r) PROVE RunInv'
    <2> DEFINE y == [proc[p] EXCEPT !.pc = "send", !.run = r]
    <2>1. y \in Calls /\ CallOk(y) /\ y.pc = "send" /\ y.run = r
          /\ [proc EXCEPT ![p].pc = "send", ![p].run = r] = [proc EXCEPT ![p] = y]
      BY <1>0 DEF Calls, CallOk
    <2> HIDE DEF y
    <2>2. /\ status' \in [Runs -> {"none", "queued", "running", "success", "error", "cancelled"}]
          /\ \A q \in Runs : q # r => status'[q] = status[q]
          /\ status'[r] = proc[p].pc /\ proc[p].pc \in {"running", "queued"}
      BY <1>0, <1>4 DEF Create, Set, Typed
    <2>3. jobOf' \in [Runs -> Jobs \cup {None}] /\ catchup' \subseteq Jobs
      BY <1>0, <1>4 DEF Create, Typed, CallOk
    <2>4. UNCHANGED <<connVars, down, up, agentVars, lost>>
      BY <1>4 DEF Create
    <2>5. CASE proc[p].pc = "running"
      BY <1>4, <2>1, <2>2, <2>3, <2>4, <2>5, CallMoves, IdleCall DEF Create
    <2>6. CASE proc[p].pc = "queued"
      BY <1>1, <1>4, <2>2, <2>3, <2>4, <2>6, CallMoves, IdleCall DEF Create
    <2> QED
      BY <2>2, <2>5, <2>6
  <1>5. CASE CreateFails(p)
    BY <1>0, <1>1, <1>5, CallMoves, IdleCall DEF CreateFails, Typed, rowVars
  <1>6. ASSUME proc[p].pc \in {"put", "send", "cancel"}, NEW st \in {"error", "cancelled"},
               status' = [status EXCEPT ![proc[p].run] = st],
               proc' = Return(p), UNCHANGED <<jobOf, catchup, connVars, down, up, agentVars, lost>>
        PROVE  RunInv'
    <2>1. /\ status' \in [Runs -> {"none", "queued", "running", "success", "error", "cancelled"}]
          /\ \A q \in Runs : q # proc[p].run => status'[q] = status[q]
          /\ status'[proc[p].run] # "running"
      BY <1>0, <1>6 DEF Typed, CallOk
    <2> QED
      BY <1>0, <1>1, <1>6, <2>1, CallMoves, IdleCall DEF Typed
  <1>7. CASE Lookup(p)
    <2>1. CASE hub = 0
      BY <1>6, <1>7, <2>1 DEF Lookup, Dropped
    <2>2. CASE hub # 0
      <3> DEFINE y == [proc[p] EXCEPT !.pc = "put", !.via = hub]
      <3>1. hub \in Conns /\ handler[hub] # "new"
        BY <1>0, <2>2 DEF Typed, RunInv, ConnInv, HubFollowsConnection
      <3>2. proc[p].pc = "send" /\ proc[p].run \in Runs
        BY <1>0, <1>7 DEF Lookup, CallOk
      <3>3. y \in Calls /\ y.pc = "put" /\ y.run = proc[p].run /\ y.via = hub
            /\ [proc EXCEPT ![p].pc = "put", ![p].via = hub] = [proc EXCEPT ![p] = y]
        BY <1>0, <3>1 DEF Calls, Typed
      <3>4. CallOk(y)
        BY <3>1, <3>2, <3>3 DEF CallOk
      <3> HIDE DEF y
      <3> QED
        BY <1>0, <1>7, <2>2, <3>2, <3>3, <3>4, CallMoves, IdleCall DEF Lookup, Typed
    <2> QED
      BY <2>1, <2>2
  <1>8. CASE PutFails(p)
    BY <1>6, <1>8 DEF PutFails, Dropped
  <1>9. CASE Cancelled(p)
    BY <1>6, <1>9 DEF Cancelled, Set
  <1> QED
    BY <1>2, <1>3, <1>4, <1>5, <1>7, <1>8, <1>9

\* A call begins.
LEMMA RequestsInv ==
    ASSUME RunInv,
           \/ \E j \in Jobs : Due(j) \/ \E queue \in BOOLEAN : Request(j, queue)
           \/ \E r \in Runs : CancelQueued(r)
    PROVE  RunInv'
  <1>0. Typed /\ \A p \in {Admin, Sched} : p \in Procs /\ p \notin Conns
    BY RunControlAssumption DEF RunInv
  <1>1. ASSUME NEW j \in Jobs, NEW pc \in {"running", "queued", "start", "flag"}, NEW p \in {Admin, Sched},
               proc[p] = Idle, proc' = [proc EXCEPT ![p] = [Idle EXCEPT !.pc = pc, !.job = j]],
               UNCHANGED <<rowVars, connVars, down, up, agentVars, lost>>
        PROVE  RunInv'
    <2> DEFINE y == [Idle EXCEPT !.pc = pc, !.job = j]
    <2>1. y \in Calls /\ y.pc = pc /\ y.job = j
      BY IdleCall DEF Calls
    <2>2. CallOk(y)
      BY <2>1 DEF CallOk
    <2>3. proc' = [proc EXCEPT ![p] = y]
      BY <1>1
    <2> HIDE DEF y
    <2> QED
      BY <1>0, <1>1, <2>1, <2>2, <2>3, CallMoves, IdleCall DEF Typed, rowVars
  <1>2. ASSUME NEW r \in Runs, CancelQueued(r) PROVE RunInv'
    <2> DEFINE y == [Idle EXCEPT !.pc = "cancel", !.run = r]
    <2>1. y \in Calls /\ y.pc = "cancel" /\ y.run = r
      BY IdleCall DEF Calls
    <2>2. CallOk(y)
      BY <2>1 DEF CallOk
    <2>3. proc' = [proc EXCEPT ![Admin] = y]
      BY <1>2 DEF CancelQueued
    <2> HIDE DEF y
    <2> QED
      BY <1>0, <1>2, <2>1, <2>2, <2>3, CallMoves, IdleCall DEF CancelQueued, Typed, rowVars
  <1> QED
    BY <1>1, <1>2 DEF Due, Request

LEMMA DispatchInv ==
    ASSUME RunInv, NEW c \in Conns, Dispatch(c)
    PROVE  RunInv'
  <1>0. proc[c] \in Calls /\ Typed /\ c \in Procs
    BY DEF RunInv, Typed
  <1>1. CASE ListQueued(c)
    <2> DEFINE todo == {r \in Runs : status[r] = "queued"}
               y == [proc[c] EXCEPT !.pc = "runs", !.back = "runs", !.todo = todo]
    <2>1. y \in Calls /\ y.pc = "runs"
      BY <1>0 DEF Calls
    <2>2. CallOk(y)
      BY <2>1 DEF CallOk
    <2>3. proc' = [proc EXCEPT ![c] = y]
      BY <1>1 DEF ListQueued
    <2> HIDE DEF y
    <2> QED
      BY <1>0, <1>1, <2>1, <2>2, <2>3, CallMoves, IdleCall DEF ListQueued, Typed, rowVars
  <1>2. ASSUME NEW r \in Runs, MarkStarted(c, r) PROVE RunInv'
    <2> DEFINE y == [proc[c] EXCEPT !.pc = "send", !.run = r, !.todo = proc[c].todo \ {r}]
    <2>1. y \in Calls /\ y.pc = "send" /\ y.run = r
      BY <1>0 DEF Calls
    <2>2. CallOk(y)
      BY <2>1 DEF CallOk
    <2>3. proc' = [proc EXCEPT ![c] = y]
      BY <1>2 DEF MarkStarted
    <2>4. /\ status' \in [Runs -> {"none", "queued", "running", "success", "error", "cancelled"}]
          /\ \A q \in Runs : q # r => status'[q] = status[q]
      BY <1>0, <1>2 DEF MarkStarted, Set, Typed
    <2> HIDE DEF y
    <2> QED
      BY <1>0, <1>2, <2>1, <2>2, <2>3, <2>4, CallMoves, IdleCall DEF MarkStarted, Typed
  <1>3. CASE ListCatchup(c)
    <2> DEFINE y == [proc[c] EXCEPT !.pc = "jobs", !.back = "jobs", !.due = catchup]
    <2>1. y \in Calls /\ y.pc = "jobs"
      BY <1>0 DEF Calls, Typed
    <2>2. CallOk(y)
      BY <2>1 DEF CallOk
    <2>3. proc' = [proc EXCEPT ![c] = y]
      BY <1>3 DEF ListCatchup
    <2> HIDE DEF y
    <2> QED
      BY <1>0, <1>3, <2>1, <2>2, <2>3, CallMoves, IdleCall DEF ListCatchup, Typed, rowVars
  <1>4. ASSUME NEW j \in Jobs, Catchup(c, j) PROVE RunInv'
    <2> DEFINE y == [proc[c] EXCEPT !.pc = "start", !.job = j, !.due = proc[c].due \ {j}]
    <2>1. y \in Calls /\ y.pc = "start" /\ y.job = j
      BY <1>0 DEF Calls
    <2>2. CallOk(y)
      BY <2>1 DEF CallOk
    <2>3. proc' = [proc EXCEPT ![c] = y]
      BY <1>4 DEF Catchup
    <2> HIDE DEF y
    <2> QED
      BY <1>0, <1>4, <2>1, <2>2, <2>3, CallMoves, IdleCall DEF Catchup, Typed
  <1>5. CASE DispatchEnd(c)
    BY <1>0, <1>5, CallMoves, IdleCall DEF DispatchEnd, Typed, rowVars
  <1> QED
    BY <1>1, <1>2, <1>3, <1>4, <1>5 DEF Dispatch

\* What a queue holds after a message was put in or taken out.
LEMMA AppendHas ==
    ASSUME NEW S, NEW s \in Seq(S), NEW m \in S
    PROVE  /\ Append(s, m) \in Seq(S) /\ Len(Append(s, m)) = Len(s) + 1
           /\ \A i \in DOMAIN s : i \in DOMAIN Append(s, m) /\ Append(s, m)[i] = s[i]
           /\ Len(s) + 1 \in DOMAIN Append(s, m) /\ Append(s, m)[Len(s) + 1] = m
           /\ \A i \in DOMAIN Append(s, m) : i \in DOMAIN s \/ i = Len(s) + 1
  OBVIOUS

LEMMA TailHas ==
    ASSUME NEW S, NEW s \in Seq(S), s # <<>>
    PROVE  /\ Tail(s) \in Seq(S) /\ Len(Tail(s)) = Len(s) - 1
           /\ 1 \in DOMAIN s /\ Head(s) = s[1] /\ Head(s) \in S
           /\ \A i \in DOMAIN Tail(s) : i > 0 /\ i + 1 \in DOMAIN s /\ Tail(s)[i] = s[i + 1]
           /\ \A i \in DOMAIN s : i = 1 \/ (i - 1 \in DOMAIN Tail(s) /\ Tail(s)[i - 1] = s[i])
  OBVIOUS

LEMMA EnqueueKeeps ==
    ASSUME Typed, NEW c, NEW m \in Messages, Room(c), Enqueue(c, m)
    PROVE  /\ down' \in Seq(Messages) /\ Len(down') <= QueueCap
           /\ \A r \in Runs : Sent(r) => Sent(r)'
           /\ c = link /\ c \notin closed => \E i \in DOMAIN down' : down'[i] = m
  <1>1. CASE c = link /\ c \notin closed
    <2>1. down' = Append(down, m) /\ Len(down) < QueueCap /\ down \in Seq(Messages) /\ QueueCap \in Nat
      BY <1>1, RunControlAssumption DEF Room, Enqueue, Typed
    <2> HIDE DEF Messages
    <2>2. /\ \A i \in DOMAIN down : i \in DOMAIN down' /\ down'[i] = down[i]
          /\ Len(down) + 1 \in DOMAIN down' /\ down'[Len(down) + 1] = m
          /\ down' \in Seq(Messages) /\ Len(down') = Len(down) + 1
      BY <2>1, AppendHas
    <2>3. Len(down') <= QueueCap
      BY <2>1, <2>2
    <2>4. \A r \in Runs : Sent(r) => Sent(r)'
      BY <2>2 DEF Sent
    <2> QED
      BY <2>2, <2>3, <2>4
  <1>2. CASE ~ (c = link /\ c \notin closed)
    BY <1>2 DEF Enqueue, Typed, Sent
  <1> QED
    BY <1>1, <1>2

\* The run that is put into a queue reaches the agent, or a handler has still
\* to fail it, or it is lost.
LEMMA PutInv ==
    ASSUME RunInv, NEW p \in Procs, Put(p)
    PROVE  RunInv'
  <1>0. PICK c \in Conns, r \in Runs :
           proc[p].pc = "put" /\ c = proc[p].via /\ r = proc[p].run /\ handler[c] # "new"
    BY DEF RunInv, CallInv, CallOk, Put
  <1> DEFINE m == [type |-> "run", run |-> r]
  <1>1. /\ Typed /\ Room(c) /\ Enqueue(c, m) /\ m \in Messages
        /\ lost' = (IF handler[c] = "over" THEN lost \cup {r} ELSE lost)
        /\ proc' = Return(p) /\ UNCHANGED <<rowVars, connVars, up, agentVars>>
    BY <1>0 DEF RunInv, Put, Messages
  <1>2. PICK x \in Calls : /\ CallOk(x) /\ Return(p) = [proc EXCEPT ![p] = x]
                           /\ x.pc \in {"idle", "runs", "jobs"}
    BY CallReturns
  <1>3. proc'[p] = x /\ (\A q \in Procs : q # p => proc'[q] = proc[q]) /\ proc' \in [Procs -> Calls]
    BY <1>1, <1>2 DEF Typed
  <1> HIDE DEF m
  <1>4. /\ down' \in Seq(Messages) /\ Len(down') <= QueueCap
        /\ \A q \in Runs : Sent(q) => Sent(q)'
        /\ c = link /\ c \notin closed => Sent(r)'
    <2>1. c = link /\ c \notin closed => \E i \in DOMAIN down' : down'[i] = m
      BY <1>1, <1>0, EnqueueKeeps
    <2> QED
      BY <1>1, <1>0, <2>1, EnqueueKeeps DEF Sent, m
  <1>5. Typed'
    BY <1>1, <1>0, <1>3, <1>4 DEF Typed, rowVars, connVars, agentVars
  <1>6. CallInv'
    BY <1>1, <1>2, <1>3 DEF RunInv, CallInv, CallOk, connVars
  <1>7. ConnInv'
    BY <1>1 DEF RunInv, ConnInv, HubFollowsConnection, connVars, agentVars
  <1>8. HelloInv'
    BY <1>1, <1>0, <1>3, IdleCall DEF RunInv, HelloInv, connVars
  <1>9. AccountInv'
    <2> SUFFICES ASSUME NEW q \in Runs, status[q] = "running"
                 PROVE  (Held(q) \/ q \in lost \/ (\E d \in Conns : WillFail(d)) \/ (Live /\ AtAgent(q)))'
      BY <1>1 DEF AccountInv, rowVars
    <2>1. (\A d \in Conns : WillFail(d) => WillFail(d)') /\ (Live => Live')
      BY <1>1 DEF WillFail, Live, connVars, agentVars
    <2>2. CASE q = r
      <3>1. CASE Live /\ c = link
        BY <1>4, <2>1, <2>2, <3>1 DEF Live, AtAgent
      <3>2. CASE ~ (Live /\ c = link)
        <4>1. handler[c] # "over" => WillFail(c)
          BY <1>1, <1>0, <3>2 DEF Live, WillFail, Typed
        <4> QED
          BY <1>1, <1>0, <2>1, <2>2, <4>1
      <3> QED
        BY <3>1, <3>2
    <2>3. CASE q # r
      <3>1. Held(q) => Held(q)'
        BY <1>0, <1>3, <2>3 DEF Held
      <3>2. AtAgent(q) => AtAgent(q)'
        BY <1>1, <1>4 DEF AtAgent, Told, agentVars
      <3> QED
        BY <1>1, <2>1, <3>1, <3>2 DEF RunInv, AccountInv
    <2> QED
      BY <2>2, <2>3
  <1> QED
    BY <1>5, <1>6, <1>7, <1>8, <1>9 DEF RunInv

LEMMA CancelRunningInv ==
    ASSUME RunInv, NEW r \in Runs, CancelRunning(r)
    PROVE  RunInv'
  <1> DEFINE m == [type |-> "cancel", run |-> r]
  <1>0. /\ Typed /\ Room(hub) /\ Enqueue(hub, m) /\ m \in Messages
        /\ UNCHANGED <<rowVars, connVars, up, proc, agentVars, lost>>
    BY DEF RunInv, CancelRunning, Messages
  <1> HIDE DEF m
  <1>1. /\ down' \in Seq(Messages) /\ Len(down') <= QueueCap
        /\ \A q \in Runs : Sent(q) => Sent(q)'
    BY <1>0, EnqueueKeeps
  <1>2. Typed'
    BY <1>0, <1>1 DEF Typed, rowVars, connVars, agentVars
  <1>3. CallInv' /\ ConnInv' /\ HelloInv'
    BY <1>0 DEF RunInv, CallInv, CallOk, ConnInv, HubFollowsConnection, HelloInv, connVars, agentVars
  <1>4. \A q \in Runs : (Held(q) => Held(q)') /\ (Live /\ AtAgent(q) => (Live /\ AtAgent(q))')
    BY <1>0, <1>1 DEF Held, Live, AtAgent, Told, connVars, agentVars
  <1>5. \A d \in Conns : WillFail(d) => WillFail(d)'
    BY <1>0 DEF WillFail, connVars, agentVars
  <1>6. AccountInv'
    BY <1>0, <1>4, <1>5 DEF RunInv, AccountInv, rowVars
  <1> QED
    BY <1>2, <1>3, <1>6 DEF RunInv

-----------------------------------------------------------------------------
(* Connections *)

LEMMA DialInv ==
    ASSUME RunInv, NEW c \in Conns, Dial(c)
    PROVE  RunInv'
  <1>0. /\ Typed /\ ConnInv /\ link = 0 /\ handler[c] = "new" /\ link' = c /\ hub' = c
        /\ handler' = [handler EXCEPT ![c] = "reading"]
        /\ closed' = closed \cup ({hub} \ {0})
        /\ up' = [d \in Conns |-> IF d = c THEN <<[type |-> "hello"]>>
                                 ELSE IF d = hub THEN <<>> ELSE up[d]]
        /\ UNCHANGED <<rowVars, down, proc, waiting, cur, stop, lost>>
    BY DEF RunInv, Dial
  <1>1. /\ handler'[c] = "reading" /\ \A d \in Conns : d # c => handler'[d] = handler[d]
        /\ handler' \in [Conns -> {"new", "reading", "leaving", "over"}]
    BY <1>0 DEF Typed
  <1>2. c # 0 /\ c # hub /\ c \notin closed /\ c \notin closed' /\ hub \in Conns \cup {0}
    BY <1>0 DEF Typed, ConnInv, HubFollowsConnection
  <1>3. up' \in [Conns -> Seq(Reports)]
    <2>1. [type |-> "hello"] \in Reports
      BY DEF Reports
    <2>2. <<[type |-> "hello"]>> \in Seq(Reports) /\ <<>> \in Seq(Reports)
      BY <2>1
    <2> QED
      BY <1>0, <2>2 DEF Typed
  <1>4. Typed'
    BY <1>0, <1>1, <1>2, <1>3 DEF Typed, rowVars
  <1>5. CallInv'
    BY <1>0, <1>1 DEF RunInv, CallInv, CallOk
  <1>6. ConnInv'
    BY <1>0, <1>1, <1>2 DEF ConnInv, HubFollowsConnection, Typed
  <1>7. HelloInv'
    <2>1. \A d \in Conns : d # c => up'[d] = up[d] \/ up'[d] = <<>>
      BY <1>0
    <2>2. proc[c] = Idle /\ up'[c] = <<[type |-> "hello"]>>
      BY <1>0 DEF RunInv, HelloInv
    <2> QED
      BY <1>0, <1>1, <2>1, <2>2 DEF RunInv, HelloInv
  <1>8. AccountInv'
    <2>1. \A d \in Conns : WillFail(d) => WillFail(d)'
      BY <1>0, <1>1 DEF WillFail
    <2>2. \A r \in Runs : Held(r) => Held(r)'
      BY <1>0 DEF Held
    <2> QED
      BY <1>0, <2>1, <2>2 DEF RunInv, AccountInv, Live, rowVars
  <1> QED
    BY <1>4, <1>5, <1>6, <1>7, <1>8 DEF RunInv

LEMMA ReceiveInv ==
    ASSUME RunInv, NEW c \in Conns, Receive(c)
    PROVE  RunInv'
  <1> DEFINE m == Head(up[c])
  <1>0. /\ Typed /\ handler[c] = "reading" /\ up[c] # <<>> /\ up' = [up EXCEPT ![c] = Tail(up[c])]
        /\ UNCHANGED <<jobOf, catchup, connVars, down, agentVars, lost>> /\ c \in Procs
        /\ up[c] \in Seq(Reports)
    BY DEF RunInv, Receive, Typed
  <1>1. /\ Tail(up[c]) \in Seq(Reports) /\ m \in Reports /\ m = up[c][1] /\ 1 \in DOMAIN up[c]
        /\ \A i \in DOMAIN Tail(up[c]) : i > 0 /\ i + 1 \in DOMAIN up[c] /\ Tail(up[c])[i] = up[c][i + 1]
        /\ \A i \in DOMAIN up[c] : i = 1 \/ (i - 1 \in DOMAIN Tail(up[c]) /\ Tail(up[c])[i - 1] = up[c][i])
    BY <1>0, TailHas
  <1>2. /\ up'[c] = Tail(up[c]) /\ \A d \in Conns : d # c => up'[d] = up[d]
        /\ up' \in [Conns -> Seq(Reports)]
    BY <1>0, <1>1 DEF Typed
  <1>3. \A i \in DOMAIN up'[c] : up'[c][i].type # "hello"
    <2> SUFFICES ASSUME NEW i \in DOMAIN up'[c], up'[c][i].type = "hello" PROVE FALSE
      OBVIOUS
    <2>1. i \in DOMAIN Tail(up[c]) /\ i > 0 /\ i + 1 \in DOMAIN up[c] /\ up[c][i + 1].type = "hello"
      BY <1>1, <1>2
    <2>2. i + 1 = 1
      BY <2>1 DEF RunInv, HelloInv
    <2>3. i \in Nat
      BY <1>1, <2>1
    <2> QED
      BY <2>1, <2>2, <2>3
  <1>4. ASSUME NEW r \in Runs, NEW d \in Conns, Told(r, d), ~ (d = c /\ m.type = "done" /\ m.run = r)
        PROVE  Told(r, d)'
    <2>1. CASE d # c
      BY <1>2, <1>4, <2>1 DEF Told
    <2>2. CASE d = c
      <3>1. PICK i \in DOMAIN up[c] : up[c][i].type = "done" /\ up[c][i].run = r
        BY <1>4, <2>2 DEF Told
      <3>2. i # 1
        BY <1>1, <1>4, <2>2, <3>1
      <3>3. i - 1 \in DOMAIN up'[c] /\ up'[c][i - 1] = up[c][i]
        BY <1>1, <1>2, <3>2
      <3> QED
        BY <2>2, <3>1, <3>3 DEF Told
    <2> QED
      BY <2>1, <2>2
  <1>5. ConnInv' /\ (Live => Live') /\ \A d \in Conns : WillFail(d) => WillFail(d)'
    BY <1>0 DEF RunInv, ConnInv, HubFollowsConnection, Live, WillFail, connVars, agentVars
  <1>6. CASE m.type = "hello"
    <2> DEFINE x == [Idle EXCEPT !.pc = "list"]
    <2>1. x \in Calls /\ x.pc = "list"
      BY IdleCall DEF Calls
    <2>2. /\ proc' = [proc EXCEPT ![c] = x] /\ UNCHANGED status /\ proc[c] = Idle
          /\ m.type # "done"
      BY <1>0, <1>1, <1>6 DEF Receive, RunInv, HelloInv
    <2>3. proc'[c] = x /\ (\A q \in Procs : q # c => proc'[q] = proc[q]) /\ proc' \in [Procs -> Calls]
      BY <1>0, <2>1, <2>2 DEF Typed
    <2> HIDE DEF x, m
    <2>4. Typed'
      BY <1>0, <1>2, <2>2, <2>3 DEF Typed, connVars, agentVars
    <2>5. CallInv'
      BY <1>0, <2>1, <2>3 DEF RunInv, CallInv, CallOk, connVars
    <2>6. HelloInv'
      BY <1>0, <1>2, <1>3, <2>3 DEF RunInv, HelloInv, connVars
    <2>7. AccountInv'
      <3>1. \A r \in Runs : Held(r) => Held(r)'
        BY <2>2, <2>3, IdleCall DEF Held
      <3>2. \A r \in Runs : Live /\ AtAgent(r) => AtAgent(r)'
        <4> SUFFICES ASSUME NEW r \in Runs, Live, AtAgent(r) PROVE AtAgent(r)'
          OBVIOUS
        <4>1. link \in Conns /\ UNCHANGED <<link, waiting, cur, down>>
          BY <1>0 DEF Live, Typed, agentVars
        <4>2. Told(r, link) => Told(r, link)'
          BY <1>4, <2>2, <4>1 DEF Told
        <4> QED
          BY <4>1, <4>2 DEF AtAgent, Sent
      <3> QED
        BY <1>0, <1>5, <2>2, <3>1, <3>2 DEF RunInv, AccountInv
    <2> QED
      BY <1>5, <2>4, <2>5, <2>6, <2>7 DEF RunInv
  <1>7. CASE m.type # "hello"
    <2>1. m.run \in Runs /\ m.status \in {"success", "error", "cancelled"}
      BY <1>1, <1>7 DEF Reports
    <2>2. status' = [status EXCEPT ![m.run] = m.status] /\ UNCHANGED proc
      BY <1>7 DEF Receive, Set
    <2>3. /\ status' \in [Runs -> {"none", "queued", "running", "success", "error", "cancelled"}]
          /\ \A r \in Runs : status'[r] = "running" => status[r] = "running" /\ r # m.run
      BY <1>0, <2>1, <2>2 DEF Typed
    <2> HIDE DEF m
    <2>4. Typed'
      BY <1>0, <1>2, <2>2, <2>3 DEF Typed, connVars, agentVars
    <2>5. CallInv' /\ HelloInv'
      BY <1>0, <1>2, <1>3, <2>2 DEF RunInv, CallInv, CallOk, HelloInv, connVars
    <2>6. AccountInv'
      <3>1. \A r \in Runs : Held(r) => Held(r)'
        BY <2>2 DEF Held
      <3>2. \A r \in Runs : r # m.run /\ Live /\ AtAgent(r) => AtAgent(r)'
        <4> SUFFICES ASSUME NEW r \in Runs, r # m.run, Live, AtAgent(r) PROVE AtAgent(r)'
          OBVIOUS
        <4>1. link \in Conns /\ UNCHANGED <<link, waiting, cur, down>>
          BY <1>0 DEF Live, Typed, agentVars
        <4>2. Told(r, link) => Told(r, link)'
          BY <1>4, <4>1 DEF Told
        <4> QED
          BY <4>1, <4>2 DEF AtAgent, Sent
      <3> QED
        BY <1>0, <1>5, <2>3, <3>1, <3>2 DEF RunInv, AccountInv
    <2> QED
      BY <1>5, <2>4, <2>5, <2>6 DEF RunInv
  <1> QED
    BY <1>6, <1>7

LEMMA LeaveInv ==
    ASSUME RunInv, NEW c \in Conns, Leave(c) \/ FailRunningRuns(c)
    PROVE  RunInv'
  <1>0. Typed
    BY DEF RunInv
  <1>1. CASE Leave(c)
    <2>1. /\ handler[c] = "reading" /\ hub' = (IF hub = c THEN 0 ELSE hub) /\ closed' = closed \cup {c}
          /\ handler' = [handler EXCEPT ![c] = "leaving"] /\ up' = [up EXCEPT ![c] = <<>>]
          /\ UNCHANGED <<rowVars, down, proc, agentVars, lost>>
      BY <1>1 DEF Leave, Unregister
    <2>2. /\ handler'[c] = "leaving" /\ \A d \in Conns : d # c => handler'[d] = handler[d]
          /\ handler' \in [Conns -> {"new", "reading", "leaving", "over"}]
      BY <1>0, <2>1 DEF Typed
    <2>3. /\ up'[c] = <<>> /\ \A d \in Conns : d # c => up'[d] = up[d]
          /\ up' \in [Conns -> Seq(Reports)] /\ hub' \in 0..MaxConn
      <3>1. <<>> \in Seq(Reports) /\ 0 \in 0..MaxConn
        BY RunControlAssumption
      <3> QED
        BY <1>0, <2>1, <3>1 DEF Typed
    <2>4. Typed'
      BY <1>0, <2>1, <2>2, <2>3 DEF Typed, rowVars, agentVars
    <2>5. CallInv' /\ HelloInv'
      BY <2>1, <2>2, <2>3 DEF RunInv, CallInv, CallOk, HelloInv
    <2>6. ConnInv'
      BY <1>0, <2>1, <2>2 DEF RunInv, ConnInv, HubFollowsConnection, Typed, agentVars
    <2>7. AccountInv'
      BY <2>2 DEF AccountInv, WillFail
    <2> QED
      BY <2>4, <2>5, <2>6, <2>7 DEF RunInv
  <1>2. CASE FailRunningRuns(c)
    <2>1. /\ handler[c] = "leaving" /\ status' = Failed
          /\ handler' = [handler EXCEPT ![c] = "over"]
          /\ UNCHANGED <<jobOf, catchup, hub, closed, down, up, proc, agentVars, lost>>
      BY <1>2 DEF FailRunningRuns
    <2>2. /\ handler'[c] = "over" /\ \A d \in Conns : d # c => handler'[d] = handler[d]
          /\ handler' \in [Conns -> {"new", "reading", "leaving", "over"}]
      BY <1>0, <2>1 DEF Typed
    <2>3. /\ status' \in [Runs -> {"none", "queued", "running", "success", "error", "cancelled"}]
          /\ \A r \in Runs : status'[r] # "running"
      BY <1>0, <2>1 DEF Typed, Failed
    <2>4. Typed'
      BY <1>0, <2>1, <2>2, <2>3 DEF Typed, agentVars
    <2>5. CallInv' /\ HelloInv'
      BY <2>1, <2>2 DEF RunInv, CallInv, CallOk, HelloInv
    <2>6. ConnInv'
      BY <1>0, <2>1, <2>2 DEF RunInv, ConnInv, HubFollowsConnection, Typed, agentVars
    <2>7. AccountInv'
      BY <2>3 DEF AccountInv
    <2> QED
      BY <2>4, <2>5, <2>6, <2>7 DEF RunInv
  <1> QED
    BY <1>1, <1>2

LEMMA ServerRestartInv == RunInv /\ ServerRestart => RunInv'
  <1> SUFFICES ASSUME RunInv, ServerRestart PROVE RunInv'
    OBVIOUS
  <1>0. Typed /\ 0 \in 0..MaxConn
    BY RunControlAssumption DEF RunInv, Typed
  <1>1. /\ \A p \in Procs : proc'[p] = Idle
        /\ \A c \in Conns : up'[c] = <<>> /\ (handler'[c] = "new" <=> handler[c] = "new")
                           /\ (handler[c] # "new" => c \in closed')
    BY DEF ServerRestart
  <1>2. Typed'
    <2>1. proc' \in [Procs -> Calls] /\ up' \in [Conns -> Seq(Reports)]
      BY IdleCall DEF ServerRestart
    <2> QED
      BY <1>0, <2>1 DEF ServerRestart, Typed, rowVars, agentVars
  <1>3. CallInv'
    BY <1>1, IdleCall DEF CallInv, CallOk
  <1>4. ConnInv'
    BY <1>0, <1>1 DEF ServerRestart, RunInv, ConnInv, HubFollowsConnection, Typed, agentVars
  <1>5. HelloInv'
    BY <1>1 DEF HelloInv
  <1>6. AccountInv'
    BY DEF ServerRestart, AccountInv, rowVars
  <1> QED
    BY <1>2, <1>3, <1>4, <1>5, <1>6 DEF RunInv

-----------------------------------------------------------------------------
(* The agent *)

\* A step of the agent leaves calls and connections alone.
LEMMA AgentKeeps ==
    ASSUME RunInv, UNCHANGED <<connVars, up, proc>>, link' = link \/ link' = 0
    PROVE  CallInv' /\ ConnInv' /\ HelloInv' /\ \A d \in Conns : WillFail(d) => WillFail(d)'
  <1>1. \A d \in Conns : WillFail(d) => WillFail(d)'
    BY DEF WillFail, connVars
  <1> QED
    BY <1>1 DEF RunInv, CallInv, CallOk, ConnInv, HubFollowsConnection, HelloInv, connVars

\* The agent's end goes while the server's is open: the handler will notice.
LEMMA BreakInv ==
    ASSUME RunInv, Break \/ AgentRestart
    PROVE  RunInv'
  <1>0. /\ Typed /\ link' = 0 /\ 0 \in 0..MaxConn /\ down' = <<>> /\ Len(<<>>) <= QueueCap
        /\ UNCHANGED <<rowVars, connVars, up, proc, lost>>
    BY RunControlAssumption DEF RunInv, Break, AgentRestart
  <1>1. Typed'
    <2>1. cur' \in Runs \cup {None} /\ stop' \in BOOLEAN /\ waiting' \in [Runs -> Nat]
      <3>1. CASE Break
        BY <1>0, <3>1 DEF Break, Typed
      <3>2. CASE AgentRestart
        BY <3>2 DEF AgentRestart
      <3> QED
        BY <3>1, <3>2
    <2>2. <<>> \in Seq(Messages)
      OBVIOUS
    <2> QED
      BY <1>0, <2>1, <2>2 DEF Typed, rowVars, connVars
  <1>2. CallInv' /\ ConnInv' /\ HelloInv' /\ \A d \in Conns : WillFail(d) => WillFail(d)'
    BY <1>0, AgentKeeps
  <1>3. Live => link \in Conns
    BY <1>0 DEF Live, Typed
  <1>4. AccountInv'
    <2>1. Live => \E d \in Conns : WillFail(d)'
      <3> SUFFICES ASSUME Live PROVE \E d \in Conns : WillFail(d)'
        OBVIOUS
      <3>1. PICK d \in Conns : d = link
        BY <1>3
      <3>2. WillFail(d)'
        BY <1>0, <3>1 DEF Live, WillFail, connVars
      <3> QED
        BY <3>2
    <2>2. \A r \in Runs : Held(r) => Held(r)'
      BY <1>0 DEF Held
    <2> QED
      BY <1>0, <1>2, <2>1, <2>2 DEF RunInv, AccountInv, rowVars
  <1> QED
    BY <1>1, <1>2, <1>4 DEF RunInv

LEMMA AgentReceiveInv == RunInv /\ AgentReceive => RunInv'
  <1> SUFFICES ASSUME RunInv, AgentReceive PROVE RunInv'
    OBVIOUS
  <1> DEFINE m == Head(down)
  <1>0. /\ Typed /\ down # <<>> /\ down' = Tail(down)
        /\ waiting' = (IF m.type = "run" THEN [waiting EXCEPT ![m.run] = @ + 1] ELSE waiting)
        /\ stop' \in BOOLEAN
        /\ UNCHANGED <<rowVars, connVars, up, proc, link, cur, lost>>
    BY DEF RunInv, AgentReceive
  <1>1. /\ Tail(down) \in Seq(Messages) /\ Len(Tail(down)) = Len(down) - 1
        /\ m = down[1] /\ m \in Messages
        /\ \A i \in DOMAIN down : i = 1 \/ (i - 1 \in DOMAIN Tail(down) /\ Tail(down)[i - 1] = down[i])
    BY <1>0, TailHas DEF Typed
  <1>2. m.run \in Runs
    BY <1>1 DEF Messages
  <1> HIDE DEF m
  <1>3. /\ waiting' \in [Runs -> Nat] /\ \A r \in Runs : waiting[r] > 0 => waiting'[r] > 0
        /\ m.type = "run" => waiting'[m.run] > 0
    BY <1>0, <1>2 DEF Typed
  <1>4. Typed'
    <2>1. Len(down') <= QueueCap
      BY <1>0, <1>1, RunControlAssumption DEF Typed
    <2> QED
      BY <1>0, <1>1, <1>3, <2>1 DEF Typed, rowVars, connVars
  <1>5. CallInv' /\ ConnInv' /\ HelloInv' /\ \A d \in Conns : WillFail(d) => WillFail(d)'
    BY <1>0, AgentKeeps
  <1>6. AccountInv'
    <2>1. ASSUME NEW r \in Runs, Sent(r) PROVE Sent(r)' \/ waiting'[r] > 0
      <3>1. PICK i \in DOMAIN down : down[i] = [type |-> "run", run |-> r]
        BY <2>1 DEF Sent
      <3>2. CASE i = 1
        BY <1>1, <1>3, <3>1, <3>2
      <3>3. CASE i # 1
        <4>1. i - 1 \in DOMAIN down' /\ down'[i - 1] = [type |-> "run", run |-> r]
          BY <1>0, <1>1, <3>1, <3>3
        <4> QED
          BY <4>1 DEF Sent
      <3> QED
        BY <3>2, <3>3
    <2>2. \A r \in Runs : (Held(r) => Held(r)') /\ (Live /\ AtAgent(r) => (Live /\ AtAgent(r))')
      BY <1>0, <1>3, <2>1 DEF Held, Live, AtAgent, Told, connVars
    <2> QED
      BY <1>0, <1>5, <2>2 DEF RunInv, AccountInv, rowVars
  <1> QED
    BY <1>4, <1>5, <1>6 DEF RunInv

LEMMA BeginRunInv ==
    ASSUME RunInv, NEW r \in Runs, BeginRun(r)
    PROVE  RunInv'
  <1>0. /\ Typed /\ cur = None /\ waiting[r] > 0 /\ cur' = r /\ stop' = FALSE
        /\ waiting' = [waiting EXCEPT ![r] = @ - 1]
        /\ UNCHANGED <<rowVars, connVars, down, up, proc, link, lost>>
    BY DEF RunInv, BeginRun
  <1>1. waiting' \in [Runs -> Nat] /\ \A q \in Runs : q # r => waiting'[q] = waiting[q]
    BY <1>0 DEF Typed
  <1>2. Typed'
    BY <1>0, <1>1 DEF Typed, rowVars, connVars
  <1>3. CallInv' /\ ConnInv' /\ HelloInv' /\ \A d \in Conns : WillFail(d) => WillFail(d)'
    BY <1>0, AgentKeeps
  <1>4. AccountInv'
    <2>1. \A q \in Runs : (Held(q) => Held(q)') /\ (Live /\ AtAgent(q) => (Live /\ AtAgent(q))')
      BY <1>0, <1>1, RunControlAssumption DEF Held, Live, AtAgent, Sent, Told, connVars
    <2> QED
      BY <1>0, <1>3, <2>1 DEF RunInv, AccountInv, rowVars
  <1> QED
    BY <1>2, <1>3, <1>4 DEF RunInv

LEMMA EndRunInv ==
    ASSUME RunInv, NEW st \in {"success", "error", "cancelled"}, EndRun(st)
    PROVE  RunInv'
  <1> DEFINE m == [type |-> "done", run |-> cur, status |-> st]
  <1>0. /\ Typed /\ cur \in Runs /\ cur' = None /\ stop' = FALSE
        /\ up' = (IF link = 0 \/ link \in closed THEN up ELSE [up EXCEPT ![link] = Append(@, m)])
        /\ UNCHANGED <<rowVars, connVars, down, proc, link, waiting, lost>>
    BY DEF RunInv, EndRun, Typed
  <1>1. m \in Reports /\ m.type = "done" /\ m.run = cur
    BY <1>0 DEF Reports
  <1> HIDE DEF m
  <1>2. /\ up' \in [Conns -> Seq(Reports)]
        /\ \A c \in Conns : \A i \in DOMAIN up'[c] :
              (i \in DOMAIN up[c] /\ up'[c][i] = up[c][i]) \/ up'[c][i].type = "done"
        /\ \A c \in Conns : \A i \in DOMAIN up[c] : i \in DOMAIN up'[c] /\ up'[c][i] = up[c][i]
        /\ Live => \E i \in DOMAIN up'[link] : up'[link][i] = m
    <2>1. CASE link = 0 \/ link \in closed
      BY <1>0, <2>1 DEF Typed, Live
    <2>2. CASE ~ (link = 0 \/ link \in closed)
      <3>1. link \in Conns /\ up[link] \in Seq(Reports)
        BY <1>0, <2>2 DEF Typed
      <3>2. /\ up'[link] = Append(up[link], m) /\ \A c \in Conns : c # link => up'[c] = up[c]
            /\ Append(up[link], m) \in Seq(Reports) => up' \in [Conns -> Seq(Reports)]
        BY <1>0, <2>2, <3>1 DEF Typed
      <3>3. /\ Append(up[link], m) \in Seq(Reports)
            /\ \A i \in DOMAIN up[link] : i \in DOMAIN up'[link] /\ up'[link][i] = up[link][i]
            /\ Len(up[link]) + 1 \in DOMAIN up'[link] /\ up'[link][Len(up[link]) + 1] = m
            /\ \A i \in DOMAIN up'[link] : i \in DOMAIN up[link] \/ i = Len(up[link]) + 1
        BY <1>1, <3>1, <3>2, AppendHas
      <3> QED
        BY <1>1, <3>1, <3>2, <3>3
    <2> QED
      BY <2>1, <2>2
  <1>3. Typed'
    BY <1>0, <1>2 DEF Typed, rowVars, connVars
  <1>4. CallInv' /\ ConnInv'
    BY <1>0 DEF RunInv, CallInv, CallOk, ConnInv, HubFollowsConnection, connVars
  <1>5. HelloInv'
    BY <1>0, <1>2 DEF RunInv, HelloInv, connVars
  <1>6. AccountInv'
    <2>1. \A d \in Conns : WillFail(d) => WillFail(d)'
      BY <1>0 DEF WillFail, connVars
    <2>2. \A r \in Runs : (Held(r) => Held(r)') /\ (Live => Live')
      BY <1>0 DEF Held, Live, connVars
    <2>3. ASSUME NEW r \in Runs, Live, AtAgent(r) PROVE AtAgent(r)'
      <3>1. link \in Conns
        BY <1>0, <2>3 DEF Live, Typed
      <3>2. CASE cur = r
        BY <1>0, <1>1, <1>2, <2>3, <3>2 DEF AtAgent, Told
      <3>3. CASE Told(r, link)
        BY <1>0, <1>2, <3>1, <3>3 DEF AtAgent, Told
      <3>4. CASE Sent(r) \/ waiting[r] > 0
        BY <1>0, <3>4 DEF AtAgent, Sent
      <3> QED
        BY <2>3, <3>2, <3>3, <3>4 DEF AtAgent
    <2> QED
      BY <1>0, <2>1, <2>2, <2>3 DEF RunInv, AccountInv, rowVars
  <1> QED
    BY <1>3, <1>4, <1>5, <1>6 DEF RunInv

LEMMA RunInvNext == RunInv /\ [Next]_vars => RunInv'
  <1> SUFFICES ASSUME RunInv, [Next]_vars PROVE RunInv'
    OBVIOUS
  <1>1. CASE UNCHANGED vars
    <2>1. UNCHANGED <<status, jobOf, catchup, hub, handler, closed, down, up, proc, link, waiting,
                      cur, stop, lost>>
      BY <1>1 DEF vars, rowVars, connVars, agentVars
    <2>2. Typed' /\ CallInv' /\ ConnInv' /\ HelloInv'
      BY <2>1 DEF RunInv, Typed, CallInv, CallOk, ConnInv, HubFollowsConnection, HelloInv
    <2>3. AccountInv'
      BY <2>1 DEF RunInv, AccountInv, Held, WillFail, Live, AtAgent, Sent, Told
    <2> QED
      BY <2>2, <2>3 DEF RunInv
  <1>2. CASE Next
    BY <1>2, RequestsInv, CancelRunningInv, StartStepsInv, PutInv, DispatchInv, DialInv, ReceiveInv,
       LeaveInv, ServerRestartInv, BreakInv, AgentReceiveInv, BeginRunInv, EndRunInv, AgentReceiveInv
       DEF Next, Step, Work, Finish
  <1> QED
    BY <1>1, <1>2

\* The inductive invariant of run control: types, the arguments of every
\* call, what hub and agent know of the connection, and what accounts for a
\* running run.
THEOREM RunControlInvariant == Spec => []RunInv
  BY RunInvInit, RunInvNext, PTL DEF Spec

\* Types, and the bound on a connection's send queue (hub.go), which every
\* sender respects although several send at the same time.
THEOREM RunControlTypes == Spec => []TypeOK
  <1>1. RunInv => TypeOK
    BY DEF RunInv, Typed, TypeOK, Calls
  <1> QED
    BY <1>1, RunControlInvariant, PTL

\* register and unregister: while both ends of a connection are up the hub
\* knows it, and it never offers one whose handler is gone, however late the
\* handler of a replaced connection ends.
THEOREM HubIsRight == Spec => []HubFollowsConnection
  <1>1. RunInv => HubFollowsConnection
    BY DEF RunInv, ConnInv
  <1> QED
    BY <1>1, RunControlInvariant, PTL

\* A run shown as running is never forgotten: a call, a message, the agent,
\* a report or a handler still accounts for it, except for the runs that a
\* send lost after its connection's handler had ended and the ones from
\* before a restart of the server.
THEOREM NoRunIsForgotten == Spec => []RunningIsAccountedFor
  <1>1. RunInv => RunningIsAccountedFor
    <2> SUFFICES ASSUME RunInv, NEW r \in Runs, status[r] = "running", Live, AtAgent(r), ~ Sent(r),
                        ~ (waiting[r] > 0), cur # r
                 PROVE  \E c \in Conns : handler[c] = "reading" /\ Told(r, c)
      BY DEF RunInv, AccountInv, RunningIsAccountedFor, Held
    <2>1. link \in Conns
      BY DEF RunInv, Typed, Live
    <2> QED
      BY <2>1 DEF Live, AtAgent
  <1> QED
    BY <1>1, RunControlInvariant, PTL
=============================================================================
