-------------------------- MODULE RemoteCallsProofs --------------------------
(***************************************************************************)
(* The replies of the client, for any number of commands, requests and     *)
(* connections: begin, deliver and end never hand a request the reply to   *)
(* another one, nor keep a channel for a request that is over.  And the    *)
(* output of the commands: no line is stored twice or past the limit, and  *)
(* a success means that none was lost.                                     *)
(***************************************************************************)
EXTENDS RemoteCalls, FiniteSetTheorems, SequenceTheorems, TLAPS

Orders  == [type : {"run", "cancel"}, id : Cmds] \cup [type : {"ask"}, id : Reqs]
Replies == [type : {"reply"}, id : Reqs]
Outputs == [type : {"output"}, id : Cmds, line : Streams \cup {"truncated"}]
Dones   == [type : {"done"}, id : Cmds, status : Ended]
Reports == Replies \cup Outputs \cup Dones

Typed ==
    /\ row \in [Cmds -> {"none", "running", "deleted"} \cup Ended]
    /\ wait \in [Reqs -> {"none", "begun", "waiting", "ok", "failed"}]
    /\ ch \subseteq Reqs /\ acted \subseteq Reqs /\ serving \subseteq Reqs
    /\ made \in 0..MaxConn /\ hub \in 0..made /\ link \in {0, made}
    /\ up \in [Conns -> Seq(Reports)] /\ down \in [Conns -> Seq(Orders)]
    /\ gui.pc = "send" => gui.c \in Cmds

\* What is registered is waited for; a reply on its way, or in a channel, is
\* that of a request that was carried out.
Matched ==
    /\ pending = {r \in Reqs : wait[r] \in {"begun", "waiting"}}
    /\ \A c \in Conns : \A k \in 1..Len(up[c]) : up[c][k].type = "reply" => up[c][k].id \in acted
    /\ ch \subseteq acted
    /\ \A r \in Reqs : wait[r] = "ok" => r \in ch

CallsInv == Typed /\ Matched

-----------------------------------------------------------------------------
\* Update keeps the rows.
LEMMA UpdateRow ==
    ASSUME Typed, NEW c, NEW st \in Ended, Update(c, st) \/ row' = row
    PROVE  row' \in [Cmds -> {"none", "running", "deleted"} \cup Ended]
BY DEF Typed, Update

\* Queue puts an order on the connection that there is.
LEMMA QueueIs ==
    ASSUME Typed, hub # 0, NEW m \in Orders, Queue(m)
    PROVE  down' \in [Conns -> Seq(Orders)]
<1>1. hub \in Conns BY RemoteCallsAssumption DEF Typed, Conns
<1> QED BY <1>1 DEF Typed, Queue

\* Tell: a message of the agent; a reply is one to what it has done.
LEMMA TellIs ==
    ASSUME Typed, Matched, NEW m \in Reports, Tell(m), acted \subseteq acted',
           m.type = "reply" => m.id \in acted'
    PROVE  /\ up' \in [Conns -> Seq(Reports)]
           /\ \A c \in Conns : \A k \in 1..Len(up'[c]) : up'[c][k].type = "reply" => up'[c][k].id \in acted'
<1>1. link # 0 => link \in Conns BY RemoteCallsAssumption DEF Typed, Conns
<1>2. up \in [Conns -> Seq(Reports)] BY DEF Typed
<1>3. up' \in [Conns -> Seq(Reports)] BY <1>1, <1>2 DEF Tell
<1>4. ASSUME NEW c \in Conns, NEW k \in 1..Len(up'[c]), up'[c][k].type = "reply"
      PROVE  up'[c][k].id \in acted'
  <2>1. CASE up'[c] = up[c] BY <1>4, <2>1 DEF Matched
  <2>2. CASE up'[c] = Append(up[c], m)
    <3>1. up[c] \in Seq(Reports) BY <1>2
    <3>2. CASE k \in 1..Len(up[c])
      <4>1. up'[c][k] = up[c][k] BY <2>2, <3>1, <3>2
      <4> QED BY <1>4, <3>2, <4>1 DEF Matched
    <3>3. CASE k \notin 1..Len(up[c])
      <4>1. up'[c][k] = m BY <1>4, <2>2, <3>1, <3>3
      <4> QED BY <1>4, <4>1
    <3> QED BY <3>2, <3>3
  <2> QED BY <1>1, <1>2, <2>1, <2>2 DEF Tell
<1> QED BY <1>3, <1>4

\* A step that leaves the requests and the agent's messages alone.
LEMMA CallsFrame ==
    ASSUME CallsInv, UNCHANGED <<callVars, up>>,
           row' \in [Cmds -> {"none", "running", "deleted"} \cup Ended],
           made' \in 0..MaxConn, hub' \in 0..made', link' \in {0, made'},
           down' \in [Conns -> Seq(Orders)],
           gui'.pc = "send" => gui'.c \in Cmds
    PROVE  CallsInv'
BY DEF CallsInv, Typed, Matched, callVars

\* The GUI's requests about commands.
LEMMA GuiKeeps ==
    ASSUME CallsInv, Send \/ DeleteRow \/ \E c \in Cmds : Create(c) \/ Cancel(c) \/ DeleteOutput(c)
    PROVE  CallsInv'
<1>0. Typed BY DEF CallsInv
<1>1. /\ UNCHANGED <<callVars, up>> /\ made' \in 0..MaxConn /\ hub' \in 0..made' /\ link' \in {0, made'}
  BY <1>0 DEF Send, DeleteRow, Create, Cancel, DeleteOutput, netVars, Typed
<1>2. row' \in [Cmds -> {"none", "running", "deleted"} \cup Ended]
  <2>1. CASE Send BY <1>0, <2>1, UpdateRow DEF Send, Ended
  <2>2. CASE DeleteRow BY <1>0, <2>2 DEF DeleteRow, Typed
  <2>3. ASSUME NEW c \in Cmds, Create(c) PROVE row' \in [Cmds -> {"none", "running", "deleted"} \cup Ended]
    BY <1>0, <2>3 DEF Create, Typed
  <2> QED BY <1>0, <2>1, <2>2, <2>3 DEF Cancel, DeleteOutput, Typed
<1>3. gui'.pc = "send" => gui'.c \in Cmds
  <2>1. CASE gui' = Idle BY <2>1 DEF Idle
  <2>2. CASE gui' = gui BY <1>0, <2>2 DEF Typed
  <2>3. ASSUME NEW c \in Cmds, Create(c) \/ DeleteOutput(c) PROVE gui'.c \in Cmds
    <3>1. gui' = [pc |-> "send", c |-> c] \/ gui' = [pc |-> "row", c |-> c] BY <2>3 DEF Create, DeleteOutput
    <3> QED BY <3>1
  <2> QED BY <2>1, <2>2, <2>3 DEF Send, DeleteRow, Cancel
<1>4. down' \in [Conns -> Seq(Orders)]
  <2>1. CASE Send /\ hub # 0
    <3>1. [type |-> "run", id |-> gui.c] \in Orders BY <1>0, <2>1 DEF Send, Typed, Orders
    <3> QED BY <1>0, <2>1, <3>1, QueueIs DEF Send
  <2>2. ASSUME NEW c \in Cmds, Cancel(c) PROVE down' \in [Conns -> Seq(Orders)]
    <3>1. [type |-> "cancel", id |-> c] \in Orders BY DEF Orders
    <3> QED BY <1>0, <2>2, <3>1, QueueIs DEF Cancel
  <2> QED BY <1>0, <2>1, <2>2 DEF Send, DeleteRow, Create, DeleteOutput, netVars, Typed
<1> QED BY <1>1, <1>2, <1>3, <1>4, CallsFrame

\* The requests that wait for a reply.
LEMMA RequestKeeps ==
    ASSUME CallsInv, NEW r \in Reqs, BeginRequest(r) \/ SendRequest(r) \/ Answered(r) \/ TimedOut(r)
    PROVE  CallsInv'
<1>0. Typed /\ Matched BY DEF CallsInv
<1>1. UNCHANGED <<row, gui, ch, serving, acted, hub, up, link, made>>
  BY DEF BeginRequest, SendRequest, Answered, TimedOut, netVars
<1>2. PICK st \in {"begun", "waiting", "ok", "failed"} :
        /\ wait' = [wait EXCEPT ![r] = st]
        /\ pending' = IF st \in {"begun", "waiting"} THEN pending \cup {r} ELSE pending \ {r}
        /\ st = "ok" => r \in ch
  <2>1. wait[r] = "begun" => r \in pending BY <1>0 DEF Matched
  <2> QED BY <2>1 DEF BeginRequest, SendRequest, Answered, TimedOut, EndRequest
<1>3. down' \in [Conns -> Seq(Orders)]
  <2>1. [type |-> "ask", id |-> r] \in Orders BY DEF Orders
  <2> QED BY <1>0, <2>1, QueueIs DEF BeginRequest, SendRequest, Answered, TimedOut, netVars, Typed
<1>4. Typed' BY <1>0, <1>1, <1>2, <1>3 DEF Typed
<1>5. Matched' BY <1>0, <1>1, <1>2 DEF Matched, Typed
<1> QED BY <1>4, <1>5 DEF CallsInv

\* The handler of a connection.
LEMMA HandlerKeeps ==
    ASSUME CallsInv, NEW c \in Conns, Take(c) \/ AppendOutput(c) \/ Leave(c) \/ Fail(c)
    PROVE  CallsInv'
<1>0. Typed /\ Matched BY DEF CallsInv
<1>1. CASE AppendOutput(c) BY <1>0, <1>1, CallsFrame DEF AppendOutput, Typed
<1>2. CASE Fail(c)
  <2>1. row' \in [Cmds -> {"none", "running", "deleted"} \cup Ended]
    BY <1>0, <1>2 DEF Fail, Failed, Typed, Ended
  <2> QED BY <1>0, <1>2, <2>1, CallsFrame DEF Fail, Typed
<1>3. CASE Leave(c)
  <2>1. UNCHANGED <<row, gui, callVars, down, link, made>> /\ up' = [up EXCEPT ![c] = <<>>] BY <1>3 DEF Leave
  <2>2. hub' \in 0..made' BY <1>0, <1>3, RemoteCallsAssumption DEF Leave, Typed
  <2>3. Typed' BY <1>0, <2>1, <2>2 DEF Typed, callVars
  <2>4. Matched' BY <1>0, <2>1 DEF Matched, Typed, callVars
  <2> QED BY <2>3, <2>4 DEF CallsInv
<1>4. CASE Take(c)
  <2>1. up[c] \in Seq(Reports) /\ up[c] # <<>> BY <1>0, <1>4 DEF Typed, Take
  <2>2. /\ Head(up[c]) \in Reports /\ Tail(up[c]) \in Seq(Reports) /\ Head(up[c]) = up[c][1]
        /\ 1 \in 1..Len(up[c])
        /\ \A k \in 1..Len(Tail(up[c])) : k + 1 \in 1..Len(up[c]) /\ Tail(up[c])[k] = up[c][k + 1]
    BY <2>1
  <2>3. UNCHANGED <<gui, wait, pending, serving, acted, hub, down, link, made>>
        /\ up' = [up EXCEPT ![c] = Tail(@)]
    BY <1>4 DEF Take
  <2>4. row' \in [Cmds -> {"none", "running", "deleted"} \cup Ended]
    <3>1. Head(up[c]).type = "done" => Head(up[c]).status \in Ended
      BY <2>2 DEF Reports, Replies, Outputs, Dones
    <3> QED BY <1>0, <1>4, <3>1, UpdateRow DEF Take, Typed
  <2>5. ch \subseteq ch' /\ \A r \in ch' : r \in ch \/ (Head(up[c]).type = "reply" /\ r = Head(up[c]).id)
    BY <1>4 DEF Take, ChannelOf
  <2>6. ch' \subseteq acted BY <1>0, <2>2, <2>5 DEF Matched
  <2>7. Typed' BY <1>0, <2>2, <2>3, <2>4, <2>6 DEF Typed
  <2>8. \A d \in Conns : \A k \in 1..Len(up'[d]) : up'[d][k].type = "reply" => up'[d][k].id \in acted
    BY <1>0, <2>2, <2>3 DEF Matched, Typed
  <2>9. Matched' BY <1>0, <2>3, <2>5, <2>6, <2>8 DEF Matched
  <2> QED BY <2>7, <2>9 DEF CallsInv
<1> QED BY <1>1, <1>2, <1>3, <1>4

\* Connect and Break.
LEMMA LinkKeeps ==
    ASSUME CallsInv, Connect \/ Break
    PROVE  CallsInv'
<1>0. Typed BY DEF CallsInv
<1>1. UNCHANGED <<row, gui, callVars, up>> BY DEF Connect, Break
<1>2. made' \in 0..MaxConn /\ hub' \in 0..made' /\ link' \in {0, made'}
  BY <1>0, RemoteCallsAssumption DEF Connect, Break, Typed
<1>3. down' \in [Conns -> Seq(Orders)]
  <2>1. <<>> \in Seq(Orders) OBVIOUS
  <2> QED BY <1>0, <2>1 DEF Connect, Break, Typed
<1> QED BY <1>0, <1>1, <1>2, <1>3, CallsFrame DEF Typed

\* The agent receives an order, and carries out a request.
LEMMA AgentKeeps ==
    ASSUME CallsInv, Receive \/ \E r \in Reqs : Serve(r)
    PROVE  CallsInv'
<1>0. Typed /\ Matched BY DEF CallsInv
<1>1. CASE Receive
  <2>1. link \in Conns /\ down[link] # <<>> BY <1>0, <1>1, RemoteCallsAssumption DEF Receive, Typed, Conns
  <2>2. Head(down[link]) \in Orders /\ Tail(down[link]) \in Seq(Orders) BY <1>0, <2>1 DEF Typed
  <2>3. serving' \subseteq Reqs BY <1>0, <1>1, <2>2 DEF Receive, Orders, Typed
  <2>4. down' \in [Conns -> Seq(Orders)] BY <1>0, <1>1, <2>1, <2>2 DEF Receive, Typed
  <2>5. UNCHANGED <<row, gui, wait, pending, ch, acted, hub, up, link, made>> BY <1>1 DEF Receive
  <2>6. Typed' BY <1>0, <2>3, <2>4, <2>5 DEF Typed
  <2>7. Matched' BY <1>0, <2>5 DEF Matched
  <2> QED BY <2>6, <2>7 DEF CallsInv
<1>2. ASSUME NEW r \in Reqs, Serve(r) PROVE CallsInv'
  <2> DEFINE m == [type |-> "reply", id |-> r]
  <2>1. m \in Reports /\ m.id = r BY DEF Reports, Replies
  <2>2. acted' = acted \cup {r} /\ serving' = serving \ {r} /\ Tell(m)
        /\ UNCHANGED <<row, gui, wait, pending, ch, hub, down, link, made>>
    BY <1>2 DEF Serve
  <2> HIDE DEF m
  <2>3. /\ up' \in [Conns -> Seq(Reports)]
        /\ \A c \in Conns : \A k \in 1..Len(up'[c]) : up'[c][k].type = "reply" => up'[c][k].id \in acted'
    BY <1>0, <2>1, <2>2, TellIs
  <2>4. Typed' BY <1>0, <2>2, <2>3 DEF Typed
  <2>5. Matched' BY <1>0, <2>2, <2>3 DEF Matched
  <2> QED BY <2>4, <2>5 DEF CallsInv
<1> QED BY <1>1, <1>2

\* runCommand and its process.
LEMMA CommandKeeps ==
    ASSUME CallsInv, NEW c \in Cmds,
           \/ StartShell(c) \/ StartFails(c) \/ Exit(c) \/ \E ok \in BOOLEAN : Done(c, ok)
           \/ \E s \in Streams : WriteLine(c, s) \/ Scan(c, s) \/ Forward(c, s)
    PROVE  CallsInv'
<1>0. Typed /\ Matched BY DEF CallsInv
<1>1. CmdFrame BY DEF StartShell, StartFails, Exit, Done, WriteLine, Scan, Forward
<1>2. CASE up' = up BY <1>0, <1>1, <1>2, CallsFrame DEF CmdFrame, Typed
<1>3. ASSUME NEW m \in Reports, Tell(m), m.type # "reply" PROVE CallsInv'
  <2>1. acted' = acted BY <1>1 DEF CmdFrame, callVars
  <2>2. /\ up' \in [Conns -> Seq(Reports)]
        /\ \A d \in Conns : \A k \in 1..Len(up'[d]) : up'[d][k].type = "reply" => up'[d][k].id \in acted'
    BY <1>0, <1>3, <2>1, TellIs
  <2>3. Typed' BY <1>0, <1>1, <2>2 DEF Typed, CmdFrame, callVars
  <2>4. Matched' BY <1>0, <1>1, <2>2 DEF Matched, CmdFrame, callVars
  <2> QED BY <2>3, <2>4 DEF CallsInv
<1>4. ASSUME NEW st \in Ended, Tell([type |-> "done", id |-> c, status |-> st]) PROVE CallsInv'
  <2>1. [type |-> "done", id |-> c, status |-> st] \in Reports BY DEF Reports, Dones
  <2> QED BY <1>3, <1>4, <2>1
<1>5. ASSUME NEW l \in Streams \cup {"truncated"}, Tell([type |-> "output", id |-> c, line |-> l]) PROVE CallsInv'
  <2>1. [type |-> "output", id |-> c, line |-> l] \in Reports BY DEF Reports, Outputs
  <2> QED BY <1>3, <1>5, <2>1
<1>6. CASE StartFails(c) BY <1>4, <1>6 DEF StartFails, Ended
<1>7. ASSUME NEW ok \in BOOLEAN, Done(c, ok) PROVE CallsInv'
  <2>1. (IF cmd[c].stop THEN "cancelled" ELSE IF ok THEN "success" ELSE "error") \in Ended BY DEF Ended
  <2> QED BY <1>4, <1>7, <2>1 DEF Done
<1>8. ASSUME NEW s \in Streams, Forward(c, s), up' # up PROVE CallsInv'
  <2>1. /\ Forwarded(cmd[c].at[s], s) # <<>>
        /\ Tell([type |-> "output", id |-> c, line |-> Forwarded(cmd[c].at[s], s)[1]])
    BY <1>8 DEF Forward
  <2>2. Forwarded(cmd[c].at[s], s)[1] \in Streams \cup {"truncated"}
    BY <2>1 DEF Forwarded
  <2> QED BY <1>5, <2>1, <2>2
<1> QED BY <1>2, <1>6, <1>7, <1>8 DEF StartShell, Exit, WriteLine, Scan

-----------------------------------------------------------------------------
\* begin, deliver, end, handleAgentMessage: CallsInv is inductive.
THEOREM CallsInvariant == Spec => []CallsInv
<1>1. Init => CallsInv
  <2> SUFFICES ASSUME Init PROVE CallsInv OBVIOUS
  <2>1. made \in 0..MaxConn /\ hub \in 0..made /\ link \in {0, made} BY RemoteCallsAssumption DEF Init
  <2>2. Typed BY <2>1 DEF Init, Typed, Idle
  <2>3. Matched BY DEF Init, Matched
  <2> QED BY <2>2, <2>3 DEF CallsInv
<1>2. CallsInv /\ [Next]_vars => CallsInv'
  <2> SUFFICES ASSUME CallsInv, [Next]_vars PROVE CallsInv' OBVIOUS
  <2>1. CASE GuiStart BY <2>1, GuiKeeps, RequestKeeps DEF GuiStart
  <2>2. CASE ServerStep BY <2>2, GuiKeeps, RequestKeeps, HandlerKeeps DEF ServerStep
  <2>3. CASE AgentStep BY <2>3, AgentKeeps, CommandKeeps DEF AgentStep
  <2>4. CASE Connect \/ Break BY <2>4, LinkKeeps
  <2>5. CASE UNCHANGED vars BY <2>5 DEF CallsInv, Typed, Matched, vars, callVars, netVars
  <2> QED BY <2>1, <2>2, <2>3, <2>4, <2>5 DEF Next
<1> QED BY <1>1, <1>2, PTL DEF Spec

\* The rows of the commands, the requests and the connections stay in their types.
THEOREM CallTypes == Spec => []TypeOK
<1>1. CallsInv => TypeOK BY DEF CallsInv, Typed, Matched, TypeOK
<1> QED BY <1>1, CallsInvariant, PTL

\* begin, deliver, end: a request is answered only after the client has
\* carried it out, however late replies come and whatever they follow; and
\* the hub keeps a channel for exactly the requests that still wait.
THEOREM RepliesAreMatched == Spec => []RepliesMatch
<1>1. CallsInv => RepliesMatch BY DEF CallsInv, Matched, RepliesMatch
<1> QED BY <1>1, CallsInvariant, PTL

-----------------------------------------------------------------------------
(* The output of the commands *)

\* The messages that are lines of a command, of the kinds w.
Line(c, w) == [type : {"output"}, id : {c}, line : w]

\* The places of messages in L on the connections.
Flight(u, L) == {a \in Conns \X Nat : a[2] \in 1..Len(u[a[1]]) /\ u[a[1]][a[2]] \in L}

\* Of which lines stored, at the handlers, and read by the scanners.
Kept(q, w) == {k \in 1..Len(q) : q[k] \in w}
Held(h, L) == {d \in Conns : h[d].pc = "output" /\ h[d].m \in L}
Due(at, w) == {s \in Streams : at[s] # 0 /\ Forwarded(at[s], s) # <<>> /\ Forwarded(at[s], s)[1] \in w}

\* Connections u become v: a message m is added on d, the first one on d is taken.
Added(u, d, m, v) == v = [u EXCEPT ![d] = Append(u[d], m)]
Taken(u, d, v)    == u[d] # <<>> /\ v = [u EXCEPT ![d] = Tail(u[d])]

\* A message that is sent is the last on its connection.
LEMMA FlightAppend ==
    ASSUME NEW u \in [Conns -> Seq(Reports)], NEW d \in Conns, NEW m \in Reports, NEW L,
           IsFiniteSet(Flight(u, L)), NEW v, Added(u, d, m, v)
    PROVE  /\ IsFiniteSet(Flight(v, L))
           /\ Cardinality(Flight(v, L)) = Cardinality(Flight(u, L)) + (IF m \in L THEN 1 ELSE 0)
<1> DEFINE p == <<d, Len(u[d]) + 1>>
<1>1. u[d] \in Seq(Reports) /\ Len(u[d]) \in Nat OBVIOUS
<1>2. /\ Len(v[d]) = Len(u[d]) + 1 /\ v[d][Len(u[d]) + 1] = m
      /\ \A k \in 1..Len(u[d]) : v[d][k] = u[d][k]
      /\ \A e \in Conns \ {d} : v[e] = u[e]
  BY <1>1 DEF Added
<1>3. p \notin Flight(u, L) BY <1>1 DEF Flight
<1>a. p \in Conns \X Nat /\ p[1] = d /\ p[2] = Len(u[d]) + 1 BY <1>1
<1>4. CASE m \in L
  <2>1. Flight(v, L) = Flight(u, L) \cup {p}
    <3>1. ASSUME NEW a \in Flight(v, L), a # p PROVE a \in Flight(u, L)
      <4>1. a \in Conns \X Nat /\ a[2] \in 1..Len(v[a[1]]) /\ v[a[1]][a[2]] \in L BY <3>1 DEF Flight
      <4>2. CASE a[1] = d
        <5>1. a[2] # Len(u[d]) + 1 BY <3>1, <4>1, <4>2
        <5>2. a[2] \in 1..Len(u[d]) BY <1>1, <1>2, <4>1, <4>2, <5>1
        <5> QED BY <1>2, <4>1, <4>2, <5>2 DEF Flight
      <4> QED BY <1>2, <4>1, <4>2 DEF Flight
    <3>2. Flight(u, L) \subseteq Flight(v, L)
      <4> SUFFICES ASSUME NEW a \in Flight(u, L) PROVE a \in Flight(v, L) OBVIOUS
      <4>1. a \in Conns \X Nat /\ a[2] \in 1..Len(u[a[1]]) /\ u[a[1]][a[2]] \in L BY DEF Flight
      <4>2. CASE a[1] = d
        <5>1. a[2] \in 1..Len(v[d]) BY <1>1, <1>2, <4>1, <4>2
        <5> QED BY <1>2, <4>1, <4>2, <5>1 DEF Flight
      <4> QED BY <1>2, <4>1, <4>2 DEF Flight
    <3>3. p \in Flight(v, L)
      <4>1. p[2] \in 1..Len(v[p[1]]) BY <1>1, <1>2, <1>a
      <4> QED BY <1>2, <1>4, <1>a, <4>1 DEF Flight
    <3> QED BY <3>1, <3>2, <3>3
  <2> HIDE DEF p
  <2>2. IsFiniteSet(Flight(v, L)) /\ Cardinality(Flight(v, L)) = Cardinality(Flight(u, L)) + 1
    BY <1>3, <2>1, FS_AddElement
  <2> QED BY <1>4, <2>2
<1>5. CASE m \notin L
  <2>1. Flight(v, L) = Flight(u, L)
    <3>1. ASSUME NEW a \in Flight(v, L) PROVE a \in Flight(u, L)
      <4>1. a \in Conns \X Nat /\ a[2] \in 1..Len(v[a[1]]) /\ v[a[1]][a[2]] \in L BY <3>1 DEF Flight
      <4>2. CASE a[1] = d
        <5>1. a[2] # Len(u[d]) + 1 BY <1>2, <1>5, <4>1, <4>2
        <5>2. a[2] \in 1..Len(u[d]) BY <1>1, <1>2, <4>1, <4>2, <5>1
        <5> QED BY <1>2, <4>1, <4>2, <5>2 DEF Flight
      <4> QED BY <1>2, <4>1, <4>2 DEF Flight
    <3>2. Flight(u, L) \subseteq Flight(v, L)
      <4> SUFFICES ASSUME NEW a \in Flight(u, L) PROVE a \in Flight(v, L) OBVIOUS
      <4>1. a \in Conns \X Nat /\ a[2] \in 1..Len(u[a[1]]) /\ u[a[1]][a[2]] \in L BY DEF Flight
      <4>2. CASE a[1] = d
        <5>1. a[2] \in 1..Len(v[d]) BY <1>1, <1>2, <4>1, <4>2
        <5> QED BY <1>2, <4>1, <4>2, <5>1 DEF Flight
      <4> QED BY <1>2, <4>1, <4>2 DEF Flight
    <3> QED BY <3>1, <3>2
  <2>2. Cardinality(Flight(u, L)) \in Nat BY FS_CardinalityType
  <2> QED BY <1>5, <2>1, <2>2
<1> QED BY <1>4, <1>5

\* A message that is read is the first on its connection.
LEMMA FlightTail ==
    ASSUME NEW u \in [Conns -> Seq(Reports)], NEW d \in Conns, NEW L,
           IsFiniteSet(Flight(u, L)), NEW v, Taken(u, d, v)
    PROVE  /\ IsFiniteSet(Flight(v, L))
           /\ Cardinality(Flight(v, L)) = Cardinality(Flight(u, L)) - (IF Head(u[d]) \in L THEN 1 ELSE 0)
<1> DEFINE p == <<d, 1>>
           S == Flight(u, L) \ {p}
           f == [a \in S |-> IF a[1] = d THEN <<d, a[2] - 1>> ELSE a]
<1>1. u[d] \in Seq(Reports) /\ Len(u[d]) \in Nat \ {0} BY DEF Taken
<1>2. /\ Len(v[d]) = Len(u[d]) - 1 /\ Head(u[d]) = u[d][1]
      /\ \A k \in 1..Len(u[d]) - 1 : v[d][k] = u[d][k + 1]
      /\ \A e \in Conns \ {d} : v[e] = u[e]
  BY <1>1 DEF Taken
<1>3. p \in Flight(u, L) <=> Head(u[d]) \in L
  BY <1>1, <1>2 DEF Flight
<1>4. IsFiniteSet(S) /\ Cardinality(S) = Cardinality(Flight(u, L)) - (IF Head(u[d]) \in L THEN 1 ELSE 0)
  <2> HIDE DEF p
  <2> QED BY <1>3, FS_RemoveElement, FS_CardinalityType
<1>5. ASSUME NEW a \in S
      PROVE  /\ a \in Conns \X Nat /\ a = <<a[1], a[2]>> /\ a[2] \in 1..Len(u[a[1]]) /\ u[a[1]][a[2]] \in L
             /\ a[1] = d => a[2] \in 2..Len(u[d])
  <2>1. a \in Conns \X Nat /\ a = <<a[1], a[2]>> /\ a[2] \in 1..Len(u[a[1]]) /\ u[a[1]][a[2]] \in L BY <1>5 DEF Flight
  <2>2. ASSUME a[1] = d PROVE a[2] # 1 BY <1>5, <2>1, <2>2
  <2> QED BY <1>1, <2>1, <2>2
<1>6. ASSUME NEW a \in S PROVE f[a] \in Flight(v, L)
  <2>1. CASE a[1] = d
    <3>1. a[2] - 1 \in 1..Len(v[d]) /\ v[d][a[2] - 1] = u[d][a[2]] BY <1>1, <1>2, <1>5, <1>6, <2>1
    <3>2. f[a] = <<d, a[2] - 1>> BY <1>6, <2>1
    <3>3. f[a] \in Conns \X Nat /\ f[a][1] = d /\ f[a][2] = a[2] - 1 BY <3>1, <3>2, <1>1, <1>2
    <3> QED BY <1>5, <1>6, <2>1, <3>1, <3>3 DEF Flight
  <2>2. CASE a[1] # d
    <3>1. f[a] = a BY <1>6, <2>2
    <3> QED BY <1>2, <1>5, <1>6, <2>2, <3>1 DEF Flight
  <2> QED BY <2>1, <2>2
<1>7. ASSUME NEW a \in S, NEW b \in S, f[a] = f[b] PROVE a = b
  <2>1. f[a][1] = a[1] /\ f[b][1] = b[1] BY <1>5, <1>7
  <2>2. CASE a[1] = d
    <3>1. f[a] = <<d, a[2] - 1>> /\ f[b] = <<d, b[2] - 1>> /\ b[1] = d BY <1>7, <2>1, <2>2
    <3>2. a[2] - 1 = b[2] - 1 BY <1>7, <3>1
    <3>3. a[2] \in Nat /\ b[2] \in Nat BY <1>5
    <3>4. a[2] = b[2] BY <3>2, <3>3
    <3> QED BY <1>5, <2>2, <3>1, <3>4
  <2>3. CASE a[1] # d BY <1>7, <2>1, <2>3
  <2> QED BY <2>2, <2>3
<1>8. ASSUME NEW b \in Flight(v, L) PROVE \E a \in S : f[a] = b
  <2>1. b \in Conns \X Nat /\ b = <<b[1], b[2]>> /\ b[2] \in 1..Len(v[b[1]]) /\ v[b[1]][b[2]] \in L BY <1>8 DEF Flight
  <2>2. CASE b[1] = d
    <3> DEFINE a == <<d, b[2] + 1>>
    <3>1. b[2] + 1 \in 2..Len(u[d]) /\ u[d][b[2] + 1] = v[d][b[2]] BY <1>1, <1>2, <2>1, <2>2
    <3>2. a \in Conns \X Nat /\ a[1] = d /\ a[2] = b[2] + 1 /\ a # p BY <3>1, <1>1
    <3>3. a \in S
      <4>1. a[2] \in 1..Len(u[a[1]]) BY <3>1, <3>2, <1>1
      <4> QED BY <2>1, <2>2, <3>1, <3>2, <4>1 DEF Flight
    <3>4. f[a] = <<d, (b[2] + 1) - 1>> BY <3>2, <3>3
    <3>5. (b[2] + 1) - 1 = b[2] BY <2>1
    <3>6. f[a] = b BY <2>1, <2>2, <3>4, <3>5
    <3> QED BY <3>3, <3>6
  <2>3. CASE b[1] # d
    <3>1. b \in S
      <4>1. b # p BY <2>3
      <4> QED BY <1>2, <2>1, <2>3, <4>1 DEF Flight
    <3> QED BY <2>3, <3>1
  <2> QED BY <2>2, <2>3
<1>9. ExistsBijection(S, Flight(v, L))
  <2>1. f \in [S -> Flight(v, L)] BY <1>6
  <2> HIDE DEF f, S
  <2>2. f \in Bijection(S, Flight(v, L))
    BY <1>7, <1>8, <2>1 DEF Bijection, Injection, Surjection, IsInjective
  <2> QED BY <2>2 DEF ExistsBijection
<1> HIDE DEF S, p
<1> QED BY <1>4, <1>9, FS_Bijection

-----------------------------------------------------------------------------
\* No line is longer than the scanner's buffer.
Scannable == Output \in [Streams -> Seq({"line"})]

Procs == [pc : {"none", "new", "run", "exit", "over"}, stop : BOOLEAN, via : Nat,
          left : [Streams -> Seq({"line"})], pipe : [Streams -> Seq({"line"})],
          at : [Streams -> Nat], n : Nat, off : SUBSET Streams]

Handlers == [pc : {"none", "open", "output", "fail", "gone"}, m : Outputs \cup {None}]

Shaped ==
    /\ stored \in [Cmds -> Seq(Streams \cup {"truncated"})]
    /\ handler \in [Conns -> Handlers]
    /\ \A d \in Conns : handler[d].pc = "output" => handler[d].m \in Outputs
    /\ gui \in [pc : {"idle", "send", "row"}, c : Cmds \cup {None}]
    /\ gui.pc # "idle" => gui.c \in Cmds
    /\ cmd \in [Cmds -> Procs]

\* The processes, handlers and tables stay in their types.
LEMMA ShapedInit == Scannable /\ Init => Shaped
<1> SUFFICES ASSUME Scannable, Init PROVE Shaped OBVIOUS
<1>1. Open \in Handlers /\ [Open EXCEPT !.pc = "none"] \in Handlers BY DEF Open, Handlers
<1>2. Process0 \in Procs BY DEF Process0, Procs, Scannable
<1>3. \A d \in Conns : handler[d].pc # "output" BY DEF Init, Open
<1>4. Idle \in [pc : {"idle", "send", "row"}, c : Cmds \cup {None}] /\ Idle.pc = "idle" BY DEF Idle
<1> QED BY <1>1, <1>2, <1>3, <1>4 DEF Init, Shaped

\* What a step of a command makes of its process.
LEMMA ProcNext ==
    ASSUME Shaped, NEW c \in Cmds,
           \/ StartShell(c) \/ StartFails(c) \/ Exit(c) \/ \E ok \in BOOLEAN : Done(c, ok)
           \/ \E s \in Streams : WriteLine(c, s) \/ Scan(c, s) \/ Forward(c, s)
    PROVE  cmd' \in [Cmds -> Procs] /\ cmd' = [cmd EXCEPT ![c] = cmd'[c]]
<1>1. cmd \in [Cmds -> Procs] /\ cmd[c] \in Procs BY DEF Shaped
<1>2. CASE StartShell(c) \/ StartFails(c) \/ \E ok \in BOOLEAN : Done(c, ok)
  <2>1. \E st \in {"run", "over"} : cmd' = [cmd EXCEPT ![c].pc = st]
    BY <1>2 DEF StartShell, StartFails, Done
  <2>2. \A st \in {"run", "over"} : [cmd[c] EXCEPT !.pc = st] \in Procs BY <1>1 DEF Procs
  <2> QED BY <1>1, <2>1, <2>2
<1>3. CASE Exit(c)
  <2>1. [s \in Streams |-> <<>>] \in [Streams -> Seq({"line"})] OBVIOUS
  <2> QED BY <1>1, <1>3, <2>1 DEF Exit, Procs
<1>4. ASSUME NEW s \in Streams, WriteLine(c, s) PROVE cmd' \in [Cmds -> Procs] /\ cmd' = [cmd EXCEPT ![c] = cmd'[c]]
  <2>1. cmd[c].left \in [Streams -> Seq({"line"})] /\ cmd[c].pipe \in [Streams -> Seq({"line"})] BY <1>1 DEF Procs
  <2>2. cmd[c].left[s] # <<>> BY <1>4 DEF WriteLine
  <2>3. Tail(cmd[c].left[s]) \in Seq({"line"}) /\ Append(cmd[c].pipe[s], Head(cmd[c].left[s])) \in Seq({"line"})
    BY <2>1, <2>2
  <2>4. cmd' = [cmd EXCEPT ![c].left[s] = Tail(cmd[c].left[s]), ![c].pipe[s] = Append(cmd[c].pipe[s], Head(cmd[c].left[s]))]
    BY <1>1, <1>4 DEF WriteLine, Procs
  <2>5. cmd' = [cmd EXCEPT ![c] = [cmd[c] EXCEPT !.left = [cmd[c].left EXCEPT ![s] = Tail(cmd[c].left[s])],
                                   !.pipe = [cmd[c].pipe EXCEPT ![s] = Append(cmd[c].pipe[s], Head(cmd[c].left[s]))]]]
    BY <1>1, <2>1, <2>4 DEF Procs
  <2>6. [cmd[c] EXCEPT !.left = [cmd[c].left EXCEPT ![s] = Tail(cmd[c].left[s])],
                       !.pipe = [cmd[c].pipe EXCEPT ![s] = Append(cmd[c].pipe[s], Head(cmd[c].left[s]))]] \in Procs
    BY <1>1, <2>1, <2>3 DEF Procs
  <2> QED BY <1>1, <2>5, <2>6
<1>5. ASSUME NEW s \in Streams, Scan(c, s) PROVE cmd' \in [Cmds -> Procs] /\ cmd' = [cmd EXCEPT ![c] = cmd'[c]]
  <2>1. cmd[c].at \in [Streams -> Nat] /\ cmd[c].pipe \in [Streams -> Seq({"line"})] /\ cmd[c].n \in Nat BY <1>1 DEF Procs
  <2>2. CASE cmd' = [cmd EXCEPT ![c].off = @ \cup {s}] BY <1>1, <2>2 DEF Procs
  <2>3. CASE cmd[c].pipe[s] # <<>> /\ cmd' = [cmd EXCEPT ![c].n = @ + 1, ![c].at[s] = cmd[c].n + 1, ![c].pipe[s] = Tail(@)]
    <3>1. Tail(cmd[c].pipe[s]) \in Seq({"line"}) BY <2>1, <2>3
    <3>2. cmd' = [cmd EXCEPT ![c] = [cmd[c] EXCEPT !.n = cmd[c].n + 1, !.at = [cmd[c].at EXCEPT ![s] = cmd[c].n + 1],
                                     !.pipe = [cmd[c].pipe EXCEPT ![s] = Tail(cmd[c].pipe[s])]]]
      BY <1>1, <2>1, <2>3 DEF Procs
    <3>3. [cmd[c] EXCEPT !.n = cmd[c].n + 1, !.at = [cmd[c].at EXCEPT ![s] = cmd[c].n + 1],
                         !.pipe = [cmd[c].pipe EXCEPT ![s] = Tail(cmd[c].pipe[s])]] \in Procs
      <4>1. [cmd[c].at EXCEPT ![s] = cmd[c].n + 1] \in [Streams -> Nat] BY <2>1
      <4>2. [cmd[c].pipe EXCEPT ![s] = Tail(cmd[c].pipe[s])] \in [Streams -> Seq({"line"})] BY <2>1, <3>1
      <4>3. cmd[c].n + 1 \in Nat BY <2>1
      <4> QED BY <1>1, <4>1, <4>2, <4>3 DEF Procs
    <3> QED BY <1>1, <3>2, <3>3
  <2> QED BY <1>5, <2>2, <2>3 DEF Scan
<1>6. ASSUME NEW s \in Streams, Forward(c, s) PROVE cmd' \in [Cmds -> Procs] /\ cmd' = [cmd EXCEPT ![c] = cmd'[c]]
  BY <1>1, <1>6 DEF Forward, Procs
<1> QED BY <1>2, <1>3, <1>4, <1>5, <1>6

\* What an order from the server makes of the processes.
LEMMA ProcReceive ==
    ASSUME CallsInv, Shaped, Receive
    PROVE  /\ link \in Conns /\ link = made /\ down[link] # <<>> /\ Head(down[link]) \in Orders
           /\ Head(down[link]).type = "ask" => cmd' = cmd
           /\ Head(down[link]).type = "run" => Head(down[link]).id \in Cmds
                 /\ cmd' = [cmd EXCEPT ![Head(down[link]).id] = [cmd[Head(down[link]).id] EXCEPT !.pc = "new", !.via = link]]
           /\ Head(down[link]).type = "cancel" => Head(down[link]).id \in Cmds
                 /\ cmd' = [cmd EXCEPT ![Head(down[link]).id] = [cmd[Head(down[link]).id] EXCEPT
                              !.stop = cmd[Head(down[link]).id].pc \in {"run", "exit"}]]
           /\ cmd' \in [Cmds -> Procs]
<1>1. link \in Conns /\ link = made /\ down[link] # <<>>
  BY RemoteCallsAssumption DEF CallsInv, Typed, Receive, Conns
<1>2. down[link] \in Seq(Orders) BY <1>1 DEF CallsInv, Typed
<1> DEFINE m == Head(down[link])
<1>3. m \in Orders BY <1>1, <1>2
<1>4. cmd' = CASE m.type = "run"    -> [cmd EXCEPT ![m.id].pc = "new", ![m.id].via = link]
               [] m.type = "cancel" -> [cmd EXCEPT ![m.id].stop = cmd[m.id].pc \in {"run", "exit"}]
               [] m.type = "ask"    -> cmd
  BY DEF Receive
<1>5. cmd \in [Cmds -> Procs] BY DEF Shaped
<1>6. link \in Nat BY <1>1 DEF Conns
<1> HIDE DEF m
<1>7. m.type \in {"run", "cancel", "ask"} /\ (m.type # "ask" => m.id \in Cmds) BY <1>3 DEF Orders
<1>8. CASE m.type = "run"
  <2>1. cmd' = [cmd EXCEPT ![m.id].pc = "new", ![m.id].via = link] BY <1>4, <1>8
  <2>2. cmd' = [cmd EXCEPT ![m.id] = [cmd[m.id] EXCEPT !.pc = "new", !.via = link]] BY <1>5, <1>7, <1>8, <2>1 DEF Procs
  <2>a. cmd[m.id] \in Procs BY <1>5, <1>7, <1>8
  <2>3. [cmd[m.id] EXCEPT !.pc = "new", !.via = link] \in Procs BY <1>6, <2>a DEF Procs
  <2> QED BY <1>1, <1>3, <1>5, <1>7, <1>8, <2>2, <2>3 DEF m
<1>9. CASE m.type = "cancel"
  <2>1. cmd' = [cmd EXCEPT ![m.id].stop = cmd[m.id].pc \in {"run", "exit"}] BY <1>4, <1>9
  <2>2. cmd' = [cmd EXCEPT ![m.id] = [cmd[m.id] EXCEPT !.stop = cmd[m.id].pc \in {"run", "exit"}]] BY <1>5, <1>7, <1>9, <2>1 DEF Procs
  <2>a. cmd[m.id] \in Procs BY <1>5, <1>7, <1>9
  <2>b. (cmd[m.id].pc \in {"run", "exit"}) \in BOOLEAN OBVIOUS
  <2>3. [cmd[m.id] EXCEPT !.stop = cmd[m.id].pc \in {"run", "exit"}] \in Procs BY <2>a, <2>b DEF Procs
  <2> QED BY <1>1, <1>3, <1>5, <1>7, <1>9, <2>2, <2>3 DEF m
<1>10. CASE m.type = "ask"
  <2>1. cmd' = cmd BY <1>4, <1>10
  <2> QED BY <1>1, <1>3, <1>5, <1>10, <2>1 DEF m
<1> QED BY <1>7, <1>8, <1>9, <1>10

\* The messages of the agent, by their type.
LEMMA ReportFields ==
    ASSUME NEW m \in Reports
    PROVE  /\ m.type \in {"reply", "output", "done"}
           /\ m.type = "output" => m \in Outputs /\ m.id \in Cmds /\ m.line \in Streams \cup {"truncated"}
           /\ m.type = "done" => m \in Dones /\ m.id \in Cmds /\ m.status \in Ended
<1>1. CASE m \in Replies BY <1>1 DEF Replies
<1>2. CASE m \in Outputs BY <1>2 DEF Outputs
<1>3. CASE m \in Dones BY <1>3 DEF Dones
<1> QED BY <1>1, <1>2, <1>3 DEF Reports

\* Every step keeps the types.
LEMMA ShapedNext == CallsInv /\ Shaped /\ [Next]_vars => Shaped'
<1> SUFFICES ASSUME CallsInv, Shaped, [Next]_vars PROVE Shaped' OBVIOUS
<1> DEFINE GS == [pc : {"idle", "send", "row"}, c : Cmds \cup {None}]
<1>0. Idle \in GS /\ Idle.pc = "idle" /\ Open \in Handlers /\ Open.pc = "open" BY DEF Idle, Open, Handlers
<1>1. CASE GuiStart \/ Send \/ DeleteRow \/ \E r \in Reqs : SendRequest(r) \/ Answered(r) \/ TimedOut(r)
  <2>1. UNCHANGED <<handler, cmd>>
    BY <1>1 DEF GuiStart, Send, DeleteRow, Create, Cancel, DeleteOutput, BeginRequest, SendRequest, Answered, TimedOut, netVars
  <2>2. stored' \in [Cmds -> Seq(Streams \cup {"truncated"})]
    <3>1. <<>> \in Seq(Streams \cup {"truncated"}) OBVIOUS
    <3> QED BY <1>1, <3>1 DEF GuiStart, Send, DeleteRow, Create, Cancel, DeleteOutput, BeginRequest, SendRequest, Answered, TimedOut, Shaped
  <2>3. gui' \in GS /\ (gui'.pc # "idle" => gui'.c \in Cmds)
    <3>1. \A c \in Cmds : \A p \in {"send", "row"} : [pc |-> p, c |-> c] \in GS /\ [pc |-> p, c |-> c].c \in Cmds OBVIOUS
    <3> QED BY <1>0, <1>1, <3>1 DEF GuiStart, Send, DeleteRow, Create, Cancel, DeleteOutput, BeginRequest, SendRequest, Answered, TimedOut, Shaped
  <2> QED BY <2>1, <2>2, <2>3 DEF Shaped
<1>2. ASSUME NEW c \in Conns, Take(c) PROVE Shaped'
  <2>1. UNCHANGED <<stored, gui, cmd>> BY <1>2 DEF Take
  <2>2. up[c] \in Seq(Reports) /\ up[c] # <<>> BY <1>2 DEF Take, CallsInv, Typed
  <2>3. Head(up[c]) \in Reports BY <2>2
  <2>4. CASE handler' = handler BY <2>1, <2>4 DEF Shaped
  <2>5. CASE Head(up[c]).type = "output" /\ handler' = [handler EXCEPT ![c] = [pc |-> "output", m |-> Head(up[c])]]
    <3>1. Head(up[c]) \in Outputs BY <2>3, <2>5, ReportFields
    <3>2. [pc |-> "output", m |-> Head(up[c])] \in Handlers BY <3>1 DEF Handlers
    <3>3. handler' \in [Conns -> Handlers] BY <2>5, <3>2 DEF Shaped
    <3>4. \A d \in Conns : handler'[d].pc = "output" => handler'[d].m \in Outputs BY <2>5, <3>1 DEF Shaped
    <3> QED BY <2>1, <3>3, <3>4 DEF Shaped
  <2> QED BY <1>2, <2>4, <2>5 DEF Take
<1>3. ASSUME NEW c \in Conns, AppendOutput(c) PROVE Shaped'
  <2>1. UNCHANGED <<gui, cmd>> /\ handler' = [handler EXCEPT ![c] = Open]
        /\ stored' = [stored EXCEPT ![handler[c].m.id] = Append(@, handler[c].m.line)]
        /\ handler[c].pc = "output"
    BY <1>3 DEF AppendOutput
  <2>2. handler[c].m \in Outputs BY <2>1 DEF Shaped
  <2>3. handler[c].m.id \in Cmds /\ handler[c].m.line \in Streams \cup {"truncated"} BY <2>2 DEF Outputs
  <2>4. stored' \in [Cmds -> Seq(Streams \cup {"truncated"})] BY <2>1, <2>3 DEF Shaped
  <2>5. handler' \in [Conns -> Handlers] /\ \A d \in Conns : handler'[d].pc = "output" => handler'[d].m \in Outputs
    BY <1>0, <2>1 DEF Shaped
  <2> QED BY <2>1, <2>4, <2>5 DEF Shaped
<1>4. ASSUME NEW c \in Conns, Leave(c) \/ Fail(c) PROVE Shaped'
  <2>1. UNCHANGED <<stored, gui, cmd>> BY <1>4 DEF Leave, Fail
  <2>2. PICK p \in {"fail", "gone"} : handler' = [handler EXCEPT ![c].pc = p] BY <1>4 DEF Leave, Fail
  <2>3. handler[c] \in Handlers BY DEF Shaped
  <2>4. [handler[c] EXCEPT !.pc = p] \in Handlers /\ [handler[c] EXCEPT !.pc = p].pc = p BY <2>3 DEF Handlers
  <2>5. handler' = [handler EXCEPT ![c] = [handler[c] EXCEPT !.pc = p]] BY <2>2 DEF Shaped
  <2>6. handler' \in [Conns -> Handlers] /\ \A d \in Conns : handler'[d].pc = "output" => handler'[d].m \in Outputs
    BY <2>4, <2>5 DEF Shaped
  <2> QED BY <2>1, <2>6 DEF Shaped
<1>5. CASE Receive
  BY <1>5, ProcReceive DEF Receive, Shaped
<1>6. ASSUME NEW r \in Reqs, Serve(r) PROVE Shaped' BY <1>6 DEF Serve, Shaped
<1>7. ASSUME NEW c \in Cmds,
             \/ StartShell(c) \/ StartFails(c) \/ Exit(c) \/ \E ok \in BOOLEAN : Done(c, ok)
             \/ \E s \in Streams : WriteLine(c, s) \/ Scan(c, s) \/ Forward(c, s)
      PROVE  Shaped'
  <2>1. CmdFrame BY <1>7 DEF StartShell, StartFails, Exit, Done, WriteLine, Scan, Forward
  <2>2. cmd' \in [Cmds -> Procs] BY <1>7, ProcNext
  <2> QED BY <2>1, <2>2 DEF CmdFrame, Shaped
<1>8. CASE Connect
  <2>1. made' \in Conns BY <1>8, RemoteCallsAssumption DEF Connect, CallsInv, Typed, Conns
  <2>2. handler' = [handler EXCEPT ![made'] = Open] /\ UNCHANGED <<stored, gui, cmd>> BY <1>8 DEF Connect
  <2>3. handler' \in [Conns -> Handlers] /\ \A d \in Conns : handler'[d].pc = "output" => handler'[d].m \in Outputs
    BY <1>0, <2>1, <2>2 DEF Shaped
  <2> QED BY <2>2, <2>3 DEF Shaped
<1>9. CASE Break BY <1>9 DEF Break, Shaped
<1>10. CASE UNCHANGED vars BY <1>10 DEF vars, netVars, Shaped
<1> QED BY <1>1, <1>2, <1>3, <1>4, <1>5, <1>6, <1>7, <1>8, <1>9, <1>10 DEF Next, ServerStep, AgentStep

-----------------------------------------------------------------------------
\* CreateCommand, run_command: a command is sent and started once.
Started ==
    /\ \A d \in Conns : d # link => down[d] = <<>>
    /\ \A d \in Conns : \A k \in 1..Len(down[d]) : down[d][k].type = "run" =>
          /\ cmd[down[d][k].id].pc = "none" /\ row[down[d][k].id] # "none"
          /\ ~(gui.pc = "send" /\ gui.c = down[d][k].id)
          /\ \A l \in 1..Len(down[d]) : down[d][l] = down[d][k] => l = k
    /\ gui.pc = "send" => cmd[gui.c].pc = "none" /\ row[gui.c] # "none"
    /\ \A c \in Cmds : row[c] = "none" => cmd[c].pc = "none"

\* A step that queues nothing new and starts nothing.
LEMMA StartedFrame ==
    ASSUME CallsInv, Started, down' = down, link' = link,
           \A c \in Cmds : (cmd'[c].pc = "none" <=> cmd[c].pc = "none") /\ (row'[c] = "none" <=> row[c] = "none"),
           gui' = gui \/ gui'.pc # "send"
    PROVE  Started'
<1>1. ASSUME NEW d \in Conns, NEW k \in 1..Len(down[d]), down[d][k].type = "run"
      PROVE  /\ cmd'[down[d][k].id].pc = "none" /\ row'[down[d][k].id] # "none"
             /\ ~(gui'.pc = "send" /\ gui'.c = down[d][k].id)
             /\ \A l \in 1..Len(down[d]) : down[d][l] = down[d][k] => l = k
  <2>1. down[d][k] \in Orders BY <1>1 DEF CallsInv, Typed
  <2>2. down[d][k].id \in Cmds BY <1>1, <2>1 DEF Orders
  <2> QED BY <1>1, <2>2 DEF Started
<1>2. gui'.pc = "send" => cmd'[gui'.c].pc = "none" /\ row'[gui'.c] # "none"
  <2>1. CASE gui' = gui BY <2>1 DEF Started, CallsInv, Typed
  <2> QED BY <2>1
<1> QED BY <1>1, <1>2 DEF Started

\* An order that is not a second run_command of its command.
LEMMA StartedQueue ==
    ASSUME CallsInv, Started, hub # 0, NEW m \in Orders, Queue(m), link' = link, cmd' = cmd, row' = row,
           gui' = gui \/ gui'.pc # "send",
           m.type = "run" => gui'.pc # "send" /\ gui.pc = "send" /\ gui.c = m.id
    PROVE  Started'
<1>1. CASE down' = down BY <1>1, StartedFrame
<1>2. CASE hub = link /\ down' = [down EXCEPT ![hub] = Append(@, m)]
  <2>1. link \in Conns BY <1>2, RemoteCallsAssumption DEF CallsInv, Typed, Conns
  <2>2. down \in [Conns -> Seq(Orders)] /\ down[link] \in Seq(Orders) BY <2>1 DEF CallsInv, Typed
  <2>3. /\ down'[link] = Append(down[link], m) /\ \A d \in Conns \ {link} : down'[d] = down[d]
    BY <1>2, <2>1, <2>2
  <2>4. /\ Len(down'[link]) = Len(down[link]) + 1 /\ Len(down[link]) \in Nat
        /\ down'[link][Len(down[link]) + 1] = m
        /\ \A k \in 1..Len(down[link]) : down'[link][k] = down[link][k]
    BY <2>2, <2>3
  <2>5. \A d \in Conns : d # link' => down'[d] = <<>> BY <2>3 DEF Started
  <2>6. m.type = "run" => cmd[m.id].pc = "none" /\ row[m.id] # "none" BY DEF Started
  <2>7. \A k \in 1..Len(down[link]) : m.type = "run" => down[link][k] # m
    BY <2>1 DEF Started
  <2>8. ASSUME NEW k \in 1..Len(down'[link]), down'[link][k].type = "run"
        PROVE  /\ cmd[down'[link][k].id].pc = "none" /\ row[down'[link][k].id] # "none"
               /\ ~(gui'.pc = "send" /\ gui'.c = down'[link][k].id)
               /\ \A l \in 1..Len(down'[link]) : down'[link][l] = down'[link][k] => l = k
    <3>1. k \in 1..Len(down[link]) \/ k = Len(down[link]) + 1 BY <2>4, <2>8
    <3>2. CASE k \in 1..Len(down[link])
      <4>1. down'[link][k] = down[link][k] BY <2>4, <3>2
      <4>2. ASSUME NEW l \in 1..Len(down'[link]), down'[link][l] = down'[link][k] PROVE l = k
        <5>1. l \in 1..Len(down[link]) \/ l = Len(down[link]) + 1 BY <2>4, <4>2
        <5>2. CASE l \in 1..Len(down[link]) BY <2>1, <2>4, <2>8, <3>2, <4>1, <4>2, <5>2 DEF Started
        <5>3. CASE l = Len(down[link]) + 1
          <6>1. m = down[link][k] BY <2>4, <4>1, <4>2, <5>3
          <6> QED BY <2>7, <2>8, <3>2, <4>1, <6>1
        <5> QED BY <5>1, <5>2, <5>3
      <4>3. ~(gui'.pc = "send" /\ gui'.c = down[link][k].id) BY <2>1, <2>8, <3>2, <4>1 DEF Started
      <4>4. cmd[down[link][k].id].pc = "none" /\ row[down[link][k].id] # "none" BY <2>1, <2>8, <3>2, <4>1 DEF Started
      <4> QED BY <4>1, <4>2, <4>3, <4>4
    <3>3. CASE k = Len(down[link]) + 1
      <4>1. down'[link][k] = m BY <2>4, <3>3
      <4>2. ASSUME NEW l \in 1..Len(down'[link]), down'[link][l] = m PROVE l = k
        <5>1. l \in 1..Len(down[link]) \/ l = Len(down[link]) + 1 BY <2>4, <4>2
        <5>2. CASE l \in 1..Len(down[link])
          <6>1. down[link][l] = m BY <2>4, <4>2, <5>2
          <6> QED BY <2>7, <2>8, <4>1, <5>2, <6>1
        <5> QED BY <3>3, <5>1, <5>2
      <4> QED BY <2>6, <2>8, <4>1, <4>2
    <3> QED BY <3>1, <3>2, <3>3
  <2>9. ASSUME NEW d \in Conns, NEW k \in 1..Len(down'[d]), down'[d][k].type = "run"
        PROVE  /\ cmd[down'[d][k].id].pc = "none" /\ row[down'[d][k].id] # "none"
               /\ ~(gui'.pc = "send" /\ gui'.c = down'[d][k].id)
               /\ \A l \in 1..Len(down'[d]) : down'[d][l] = down'[d][k] => l = k
    <3>1. CASE d = link BY <2>8, <2>9, <3>1
    <3>2. CASE d # link
      <4>1. down'[d] = <<>> BY <2>3, <3>2 DEF Started
      <4> QED BY <2>9, <4>1
    <3> QED BY <3>1, <3>2
  <2>10. gui'.pc = "send" => cmd[gui'.c].pc = "none" /\ row[gui'.c] # "none" BY DEF Started
  <2> QED BY <2>5, <2>9, <2>10 DEF Started
<1> QED BY <1>1, <1>2 DEF Queue

\* Every step keeps the orders: a command is started at most once.
LEMMA StartedNext == CallsInv /\ Shaped /\ Started /\ [Next]_vars => Started'
<1> SUFFICES ASSUME CallsInv, Shaped, Started, [Next]_vars PROVE Started' OBVIOUS
<1>0. row \in [Cmds -> {"none", "running", "deleted"} \cup Ended] /\ Idle.pc = "idle" BY DEF CallsInv, Typed, Idle
<1>u. \A c, st : Update(c, st) /\ st \in Ended => \A e \in Cmds : row'[e] = "none" <=> row[e] = "none"
  BY <1>0 DEF Update, Ended
<1>1. ASSUME NEW c \in Cmds, Create(c) PROVE Started'
  <2>1. /\ gui = Idle /\ row[c] = "none" /\ row' = [row EXCEPT ![c] = "running"] /\ gui' = [pc |-> "send", c |-> c]
        /\ UNCHANGED <<down, link, cmd>>
    BY <1>1 DEF Create, netVars
  <2>2. gui'.pc = "send" /\ gui'.c = c BY <2>1
  <2>3. cmd[c].pc = "none" /\ row'[c] # "none" BY <1>0, <2>1 DEF Started
  <2>4. ASSUME NEW d \in Conns, NEW k \in 1..Len(down[d]), down[d][k].type = "run"
        PROVE  /\ cmd[down[d][k].id].pc = "none" /\ row'[down[d][k].id] # "none" /\ down[d][k].id # c
               /\ \A l \in 1..Len(down[d]) : down[d][l] = down[d][k] => l = k
    <3>1. down[d][k] \in Orders BY <2>4 DEF CallsInv, Typed
    <3>2. down[d][k].id \in Cmds BY <2>4, <3>1 DEF Orders
    <3>3. row[down[d][k].id] # "none" BY <2>4 DEF Started
    <3>4. down[d][k].id # c BY <2>1, <3>3
    <3> QED BY <1>0, <2>1, <2>4, <3>2, <3>3, <3>4 DEF Started
  <2>5. \A e \in Cmds : row'[e] = "none" => cmd'[e].pc = "none" BY <1>0, <2>1, <2>3 DEF Started
  <2> QED BY <2>1, <2>2, <2>3, <2>4, <2>5 DEF Started
<1>2. CASE Send
  <2>1. gui.pc = "send" /\ gui' = Idle /\ UNCHANGED <<link, cmd>> BY <1>2 DEF Send
  <2>2. CASE hub # 0
    <3>1. Queue([type |-> "run", id |-> gui.c]) /\ row' = row BY <1>2, <2>2 DEF Send
    <3>2. [type |-> "run", id |-> gui.c] \in Orders BY <2>1 DEF CallsInv, Typed, Orders
    <3> QED BY <1>0, <2>1, <2>2, <3>1, <3>2, StartedQueue
  <2>3. CASE hub = 0
    <3>1. Update(gui.c, "error") /\ down' = down BY <1>2, <2>3 DEF Send
    <3> QED BY <1>0, <1>u, <2>1, <3>1, StartedFrame DEF Ended
  <2> QED BY <2>2, <2>3
<1>3. ASSUME NEW c \in Cmds, Cancel(c) PROVE Started'
  <2>1. [type |-> "cancel", id |-> c] \in Orders BY DEF Orders
  <2>2. /\ hub # 0 /\ Queue([type |-> "cancel", id |-> c]) /\ UNCHANGED <<gui, link, cmd, row>> BY <1>3 DEF Cancel
  <2> QED BY <2>1, <2>2, StartedQueue
<1>4. ASSUME NEW c \in Cmds, DeleteOutput(c) PROVE Started'
  <2>1. gui' = [pc |-> "row", c |-> c] /\ UNCHANGED <<row, down, link, cmd>> BY <1>4 DEF DeleteOutput, netVars
  <2>2. gui'.pc = "row" BY <2>1
  <2> QED BY <2>1, <2>2, StartedFrame
<1>5. CASE DeleteRow
  <2>1. /\ gui.pc = "row" /\ gui' = Idle /\ UNCHANGED <<down, link, cmd>> /\ row' = [row EXCEPT ![gui.c] = "deleted"]
    BY <1>5 DEF DeleteRow, netVars
  <2>a. gui.c \in Cmds BY <2>1 DEF Shaped
  <2>2. gui'.pc # "send" BY <1>0, <2>1
  <2>3. \A d \in Conns, k \in Nat : k \in 1..Len(down[d]) /\ down[d][k].type = "run" => down[d][k].id \in Cmds
    BY DEF CallsInv, Typed, Orders
  <2>4. \A e \in Cmds : row'[e] = "none" => row[e] = "none" BY <1>0, <2>1
  <2>5. \A e \in Cmds : row[e] # "none" => row'[e] # "none" BY <1>0, <2>1
  <2> QED BY <2>1, <2>2, <2>3, <2>4, <2>5 DEF Started
<1>6. ASSUME NEW r \in Reqs, BeginRequest(r) \/ Answered(r) \/ TimedOut(r) PROVE Started'
  BY <1>6, StartedFrame DEF BeginRequest, Answered, TimedOut, netVars
<1>7. ASSUME NEW r \in Reqs, SendRequest(r) PROVE Started'
  <2>1. [type |-> "ask", id |-> r] \in Orders BY DEF Orders
  <2>2. UNCHANGED <<row, gui, link, cmd>> BY <1>7 DEF SendRequest
  <2>3. CASE hub # 0
    <3>1. Queue([type |-> "ask", id |-> r]) BY <1>7, <2>3 DEF SendRequest
    <3> QED BY <2>1, <2>2, <2>3, <3>1, StartedQueue
  <2>4. CASE hub = 0 BY <1>7, <2>2, <2>4, StartedFrame DEF SendRequest
  <2> QED BY <2>3, <2>4
<1>8. ASSUME NEW c \in Conns, Take(c) PROVE Started'
  <2>1. UNCHANGED <<gui, down, link, cmd>> BY <1>8 DEF Take
  <2>2. up[c] \in Seq(Reports) /\ up[c] # <<>> BY <1>8 DEF Take, CallsInv, Typed
  <2>3. Head(up[c]) \in Reports BY <2>2
  <2>4. Head(up[c]).type = "done" => Head(up[c]).status \in Ended BY <2>3, ReportFields
  <2>5. \A e \in Cmds : row'[e] = "none" <=> row[e] = "none" BY <1>8, <1>u, <2>4 DEF Take
  <2> QED BY <2>1, <2>5, StartedFrame
<1>9. ASSUME NEW c \in Conns, AppendOutput(c) \/ Leave(c) \/ Fail(c) PROVE Started'
  <2>1. UNCHANGED <<gui, down, link, cmd>> BY <1>9 DEF AppendOutput, Leave, Fail
  <2>2. \A e \in Cmds : row'[e] = "none" <=> row[e] = "none" BY <1>0, <1>9 DEF AppendOutput, Leave, Fail, Failed
  <2> QED BY <2>1, <2>2, StartedFrame
<1>10. CASE Receive
  <2> DEFINE m == Head(down[link])
  <2>1. /\ link \in Conns /\ down[link] # <<>> /\ m \in Orders
        /\ m.type = "ask" => cmd' = cmd
        /\ m.type = "run" => m.id \in Cmds /\ cmd' = [cmd EXCEPT ![m.id] = [cmd[m.id] EXCEPT !.pc = "new", !.via = link]]
        /\ m.type = "cancel" => m.id \in Cmds
              /\ cmd' = [cmd EXCEPT ![m.id] = [cmd[m.id] EXCEPT !.stop = cmd[m.id].pc \in {"run", "exit"}]]
    BY <1>10, ProcReceive
  <2>2. UNCHANGED <<row, gui, link>> /\ down' = [down EXCEPT ![link] = Tail(@)] BY <1>10 DEF Receive
  <2>3. down \in [Conns -> Seq(Orders)] /\ down[link] \in Seq(Orders) BY <2>1 DEF CallsInv, Typed
  <2>4. /\ down'[link] = Tail(down[link]) /\ \A d \in Conns \ {link} : down'[d] = down[d] BY <2>1, <2>2, <2>3
  <2>5. /\ Len(down'[link]) = Len(down[link]) - 1 /\ Len(down[link]) \in Nat \ {0} /\ m = down[link][1]
        /\ \A k \in 1..Len(down'[link]) : down'[link][k] = down[link][k + 1] /\ k + 1 \in 1..Len(down[link])
    BY <2>1, <2>3, <2>4
  <2>6. m.type = "run" => /\ row[m.id] # "none" /\ ~(gui.pc = "send" /\ gui.c = m.id)
                          /\ \A l \in 1..Len(down[link]) : down[link][l] = m => l = 1
    BY <2>1, <2>5 DEF Started
  <2> HIDE DEF m
  <2>7. \A e \in Cmds : cmd[e] \in Procs BY DEF Shaped
  <2>8. \A e \in Cmds : cmd'[e].pc = cmd[e].pc \/ (m.type = "run" /\ e = m.id)
    <3>1. m.type \in {"ask", "run", "cancel"} BY <2>1 DEF Orders
    <3>2. CASE m.type = "ask" BY <2>1, <3>2
    <3>3. CASE m.type = "run" BY <2>1, <3>3 DEF Shaped
    <3>4. CASE m.type = "cancel"
      <4>1. m.id \in Cmds /\ cmd[m.id] \in Procs BY <2>1, <2>7, <3>4
      <4>2. [cmd[m.id] EXCEPT !.stop = cmd[m.id].pc \in {"run", "exit"}].pc = cmd[m.id].pc BY <4>1 DEF Procs
      <4>3. \A e \in Cmds : cmd'[e] = IF e = m.id THEN [cmd[m.id] EXCEPT !.stop = cmd[m.id].pc \in {"run", "exit"}] ELSE cmd[e] BY <2>1, <3>4, <4>1 DEF Shaped
      <4> QED BY <4>2, <4>3
    <3> QED BY <3>1, <3>2, <3>3, <3>4
  <2>9. ASSUME NEW k \in 1..Len(down'[link]), down'[link][k].type = "run"
        PROVE  /\ cmd'[down'[link][k].id].pc = "none" /\ row[down'[link][k].id] # "none"
               /\ ~(gui.pc = "send" /\ gui.c = down'[link][k].id)
               /\ \A l \in 1..Len(down'[link]) : down'[link][l] = down'[link][k] => l = k
    <3>1. down'[link][k] = down[link][k + 1] /\ k + 1 \in 1..Len(down[link]) BY <2>5, <2>9
    <3>a. down[link][k + 1] \in Orders BY <2>3, <3>1
    <3>2. down[link][k + 1].id \in Cmds /\ down[link][k + 1] = [type |-> "run", id |-> down[link][k + 1].id]
      BY <2>9, <3>1, <3>a DEF Orders
    <3>3. ASSUME m.type = "run", m.id = down[link][k + 1].id PROVE FALSE
      <4>1. m = [type |-> "run", id |-> m.id] BY <2>1, <3>3 DEF Orders
      <4>2. m = down[link][k + 1] BY <3>2, <3>3, <4>1
      <4>3. k + 1 = 1 BY <2>6, <3>1, <3>3, <4>2
      <4> QED BY <2>9, <2>5, <4>3
    <3>4. cmd'[down[link][k + 1].id].pc = cmd[down[link][k + 1].id].pc BY <2>8, <3>2, <3>3
    <3>5. ASSUME NEW l \in 1..Len(down'[link]), down'[link][l] = down'[link][k] PROVE l = k
      <4>1. down'[link][l] = down[link][l + 1] /\ l + 1 \in 1..Len(down[link]) BY <2>5, <3>5
      <4>2. down[link][l + 1] = down[link][k + 1] BY <3>1, <3>5, <4>1
      <4>3. l + 1 = k + 1 BY <2>1, <2>9, <3>1, <4>1, <4>2 DEF Started
      <4> QED BY <2>5, <2>9, <3>5, <4>3
    <3> QED BY <2>1, <2>9, <3>1, <3>4, <3>5 DEF Started
  <2>10. ASSUME NEW d \in Conns, NEW k \in 1..Len(down'[d]), down'[d][k].type = "run"
        PROVE  /\ cmd'[down'[d][k].id].pc = "none" /\ row[down'[d][k].id] # "none"
               /\ ~(gui.pc = "send" /\ gui.c = down'[d][k].id)
               /\ \A l \in 1..Len(down'[d]) : down'[d][l] = down'[d][k] => l = k
    <3>1. CASE d = link BY <2>9, <2>10, <3>1
    <3>2. CASE d # link
      <4>1. down'[d] = <<>> BY <2>4, <3>2 DEF Started
      <4> QED BY <2>10, <4>1
    <3> QED BY <3>1, <3>2
  <2>11. \A d \in Conns : d # link' => down'[d] = <<>> BY <2>2, <2>4 DEF Started
  <2>12. gui.pc = "send" => cmd'[gui.c].pc = "none" /\ row[gui.c] # "none"
    BY <2>6, <2>8 DEF Started, Shaped
  <2>13. \A c \in Cmds : row[c] = "none" => cmd'[c].pc = "none" BY <2>6, <2>8 DEF Started
  <2> QED BY <2>2, <2>10, <2>11, <2>12, <2>13 DEF Started
<1>11. ASSUME NEW r \in Reqs, Serve(r) PROVE Started' BY <1>11, StartedFrame DEF Serve
<1>12. ASSUME NEW c \in Cmds,
             \/ StartShell(c) \/ StartFails(c) \/ Exit(c) \/ \E ok \in BOOLEAN : Done(c, ok)
             \/ \E s \in Streams : WriteLine(c, s) \/ Scan(c, s) \/ Forward(c, s)
      PROVE  Started'
  <2>1. CmdFrame BY <1>12 DEF StartShell, StartFails, Exit, Done, WriteLine, Scan, Forward
  <2>2. cmd' = [cmd EXCEPT ![c] = cmd'[c]] BY <1>12, ProcNext
  <2>3. cmd[c] \in Procs /\ cmd \in [Cmds -> Procs] BY DEF Shaped
  <2>4. cmd'[c].pc = "none" <=> cmd[c].pc = "none"
    <3>1. CASE StartShell(c) BY <3>1, <2>3 DEF StartShell, Procs
    <3>2. CASE StartFails(c) BY <3>2, <2>3 DEF StartFails, Procs
    <3>3. CASE Exit(c) BY <3>3, <2>3 DEF Exit, Procs
    <3>4. CASE \E ok \in BOOLEAN : Done(c, ok) BY <3>4, <2>3 DEF Done, Procs
    <3>5. ASSUME NEW s \in Streams, WriteLine(c, s) PROVE cmd'[c].pc = cmd[c].pc BY <3>5, <2>3 DEF WriteLine, Procs
    <3>6. ASSUME NEW s \in Streams, Scan(c, s) PROVE cmd'[c].pc = cmd[c].pc BY <3>6, <2>3 DEF Scan, Procs
    <3>7. ASSUME NEW s \in Streams, Forward(c, s) PROVE cmd'[c].pc = cmd[c].pc BY <3>7, <2>3 DEF Forward, Procs
    <3> QED BY <1>12, <3>1, <3>2, <3>3, <3>4, <3>5, <3>6, <3>7
  <2>5. \A e \in Cmds : cmd'[e].pc = "none" <=> cmd[e].pc = "none" BY <2>2, <2>3, <2>4
  <2> QED BY <2>1, <2>5, StartedFrame DEF CmdFrame
<1>13. CASE Connect
  <2>1. link = 0 /\ link' = made + 1 /\ UNCHANGED <<row, gui, down, cmd>> BY <1>13 DEF Connect
  <2>2. \A d \in Conns : down[d] = <<>> BY <2>1 DEF Started, Conns
  <2> QED BY <2>1, <2>2 DEF Started
<1>14. CASE Break
  <2>1. link' = 0 /\ down' = [down EXCEPT ![link] = <<>>] /\ UNCHANGED <<row, gui, cmd>> /\ link # 0 BY <1>14 DEF Break
  <2>2. \A d \in Conns : down'[d] = <<>> BY <2>1 DEF Started, CallsInv, Typed
  <2> QED BY <2>1, <2>2 DEF Started
<1>15. CASE UNCHANGED vars BY <1>15, StartedFrame DEF vars, netVars
<1> QED
  BY <1>1, <1>2, <1>3, <1>4, <1>5, <1>6, <1>7, <1>8, <1>9, <1>10, <1>11, <1>12, <1>13, <1>14, <1>15
     DEF Next, GuiStart, ServerStep, AgentStep

-----------------------------------------------------------------------------
\* The lines of a stream that have no number yet, and all lines.
Size(q)    == Len(q)
Todo(x, s) == Size(x.pipe[s]) + Size(x.left[s])
Amount(x)  == x.n + Todo(x, "stdout") + Todo(x, "stderr")

Sound(x) ==
    /\ x.pc \in {"none", "new", "run"} \/ (x.pc = "exit" /\ ~x.stop) => Amount(x) = Total
    /\ x.pc \in {"none", "new"} => x.n = 0
    /\ x.pc = "exit" => \A s \in Streams : x.left[s] = <<>>
    /\ x.pc \in {"none", "new", "over"} => \A s \in Streams : x.at[s] = 0
    /\ \A s \in x.off : x.at[s] = 0 /\ x.pipe[s] = <<>> /\ x.pc \in {"exit", "over"}

Processes == \A c \in Cmds :
    /\ Sound(cmd[c])
    /\ IF cmd[c].pc = "none" THEN cmd[c].via = 0 ELSE cmd[c].via \in 1..made

\* The fields of a process after each step.
LEMMA StepFields ==
    ASSUME Shaped, NEW c \in Cmds
    PROVE  /\ StartShell(c) => cmd'[c] = [cmd[c] EXCEPT !.pc = "run"]
           /\ StartFails(c) \/ (\E ok \in BOOLEAN : Done(c, ok)) => cmd'[c] = [cmd[c] EXCEPT !.pc = "over"]
           /\ Exit(c) => cmd'[c] = [cmd[c] EXCEPT !.pc = "exit", !.left = [s \in Streams |-> <<>>]]
           /\ \A s \in Streams :
                /\ WriteLine(c, s) => cmd'[c] = [cmd[c] EXCEPT !.left = [cmd[c].left EXCEPT ![s] = Tail(cmd[c].left[s])],
                                    !.pipe = [cmd[c].pipe EXCEPT ![s] = Append(cmd[c].pipe[s], Head(cmd[c].left[s]))]]
                /\ Scan(c, s) => \/ /\ cmd[c].pipe[s] # <<>>
                                    /\ cmd'[c] = [cmd[c] EXCEPT !.n = cmd[c].n + 1,
                                             !.at = [cmd[c].at EXCEPT ![s] = cmd[c].n + 1],
                                             !.pipe = [cmd[c].pipe EXCEPT ![s] = Tail(cmd[c].pipe[s])]]
                                 \/ /\ cmd[c].pipe[s] = <<>> /\ cmd[c].pc = "exit"
                                    /\ cmd'[c] = [cmd[c] EXCEPT !.off = cmd[c].off \cup {s}]
                /\ Forward(c, s) => cmd'[c] = [cmd[c] EXCEPT !.at = [cmd[c].at EXCEPT ![s] = 0]]
<1>1. cmd \in [Cmds -> Procs] /\ cmd[c] \in Procs BY DEF Shaped
<1>2. StartShell(c) => cmd'[c] = [cmd[c] EXCEPT !.pc = "run"] BY <1>1 DEF StartShell, Procs
<1>3. StartFails(c) \/ (\E ok \in BOOLEAN : Done(c, ok)) => cmd'[c] = [cmd[c] EXCEPT !.pc = "over"]
  BY <1>1 DEF StartFails, Done, Procs
<1>4. Exit(c) => cmd'[c] = [cmd[c] EXCEPT !.pc = "exit", !.left = [s \in Streams |-> <<>>]]
  BY <1>1 DEF Exit, Procs
<1>5. ASSUME NEW s \in Streams, WriteLine(c, s)
      PROVE  cmd'[c] = [cmd[c] EXCEPT !.left = [cmd[c].left EXCEPT ![s] = Tail(cmd[c].left[s])],
                                    !.pipe = [cmd[c].pipe EXCEPT ![s] = Append(cmd[c].pipe[s], Head(cmd[c].left[s]))]]
  BY <1>1, <1>5 DEF WriteLine, Procs
<1>6. ASSUME NEW s \in Streams, Scan(c, s)
      PROVE  \/ /\ cmd[c].pipe[s] # <<>>
                /\ cmd'[c] = [cmd[c] EXCEPT !.n = cmd[c].n + 1,
                         !.at = [cmd[c].at EXCEPT ![s] = cmd[c].n + 1],
                         !.pipe = [cmd[c].pipe EXCEPT ![s] = Tail(cmd[c].pipe[s])]]
             \/ /\ cmd[c].pipe[s] = <<>> /\ cmd[c].pc = "exit"
                /\ cmd'[c] = [cmd[c] EXCEPT !.off = cmd[c].off \cup {s}]
  <2>1. cmd[c].pipe \in [Streams -> Seq({"line"})] BY <1>1 DEF Procs
  <2>2. cmd[c].pipe[s] # <<>> => Head(cmd[c].pipe[s]) = "line" BY <2>1
  <2>3. CASE cmd[c].pipe[s] # <<>>
    <3>1. cmd' = [cmd EXCEPT ![c].n = @ + 1, ![c].at[s] = cmd[c].n + 1, ![c].pipe[s] = Tail(@)]
      BY <1>6, <2>2, <2>3 DEF Scan
    <3> QED BY <1>1, <2>3, <3>1 DEF Procs
  <2>4. CASE cmd[c].pipe[s] = <<>>
    <3>1. cmd[c].pc = "exit" /\ cmd' = [cmd EXCEPT ![c].off = @ \cup {s}] BY <1>6, <2>4 DEF Scan
    <3> QED BY <1>1, <2>4, <3>1 DEF Procs
  <2> QED BY <2>3, <2>4
<1>7. ASSUME NEW s \in Streams, Forward(c, s) PROVE cmd'[c] = [cmd[c] EXCEPT !.at = [cmd[c].at EXCEPT ![s] = 0]]
  BY <1>1, <1>7 DEF Forward, Procs
<1> QED BY <1>2, <1>3, <1>4, <1>5, <1>6, <1>7

\* What the lengths of a stream become.
LEMMA Sizes ==
    ASSUME NEW q \in Seq({"line"})
    PROVE  /\ Size(q) \in Nat /\ (q = <<>> => Size(q) = 0)
           /\ \A e \in {"line"} : Append(q, e) \in Seq({"line"}) /\ Size(Append(q, e)) = Size(q) + 1
           /\ q # <<>> => Head(q) \in {"line"} /\ Tail(q) \in Seq({"line"}) /\ Size(Tail(q)) = Size(q) - 1
BY DEF Size

\* There are finitely many lines to come.
LEMMA TodoNat == ASSUME NEW x \in Procs, NEW s \in Streams PROVE Todo(x, s) \in Nat
<1>1. x.pipe \in [Streams -> Seq({"line"})] /\ x.left \in [Streams -> Seq({"line"})] BY DEF Procs
<1>2. x.pipe[s] \in Seq({"line"}) /\ x.left[s] \in Seq({"line"}) BY <1>1
<1>3. Size(x.pipe[s]) \in Nat /\ Size(x.left[s]) \in Nat BY <1>2, Sizes
<1> QED BY <1>3 DEF Todo

\* A line that changes its place, and one that is given a number.
LEMMA AmountStep ==
    ASSUME NEW x \in Procs, NEW y \in Procs, NEW s \in Streams, NEW i \in {0, 1},
           y.n = x.n + i, Todo(y, s) = Todo(x, s) - i,
           \A t \in Streams \ {s} : Todo(y, t) = Todo(x, t)
    PROVE  Amount(y) = Amount(x)
<1>1. x.n \in Nat /\ "stdout" \in Streams /\ "stderr" \in Streams BY DEF Procs, Streams
<1>2. Todo(x, "stdout") \in Nat /\ Todo(x, "stderr") \in Nat BY <1>1, TodoNat
<1>3. CASE s = "stdout"
  <2>1. Todo(y, "stdout") = Todo(x, "stdout") - i /\ Todo(y, "stderr") = Todo(x, "stderr") BY <1>1, <1>3
  <2> QED BY <1>1, <1>2, <2>1 DEF Amount
<1>4. CASE s = "stderr"
  <2>1. Todo(y, "stderr") = Todo(x, "stderr") - i /\ Todo(y, "stdout") = Todo(x, "stdout") BY <1>1, <1>4
  <2> QED BY <1>1, <1>2, <2>1 DEF Amount
<1> QED BY <1>3, <1>4 DEF Streams

\* Each step keeps a process sound.
LEMMA SoundStep ==
    ASSUME Shaped, NEW c \in Cmds, Sound(cmd[c]),
           \/ StartShell(c) \/ StartFails(c) \/ Exit(c) \/ \E ok \in BOOLEAN : Done(c, ok)
           \/ \E s \in Streams : WriteLine(c, s) \/ Scan(c, s) \/ Forward(c, s)
    PROVE  Sound(cmd'[c]) /\ cmd'[c].via = cmd[c].via /\ cmd'[c].pc # "none" /\ cmd[c].pc # "none"
<1> DEFINE x == cmd[c]  y == cmd'[c]
<1>1. x \in Procs /\ y \in Procs BY ProcNext DEF Shaped
<1>2. /\ x.pipe \in [Streams -> Seq({"line"})] /\ x.left \in [Streams -> Seq({"line"})]
      /\ x.at \in [Streams -> Nat] /\ x.n \in Nat /\ x.off \subseteq Streams
  BY <1>1 DEF Procs
<1>3. Streams = {"stdout", "stderr"} BY DEF Streams
<1>a. Sound(x) OBVIOUS
<1>4. CASE StartShell(c)
  <2>1. x.pc = "new" /\ y = [x EXCEPT !.pc = "run"] BY <1>4, StepFields DEF StartShell
  <2>2. y.pc = "run" /\ y.via = x.via /\ y.n = x.n /\ y.pipe = x.pipe /\ y.left = x.left /\ y.at = x.at /\ y.off = x.off
    BY <1>1, <2>1 DEF Procs
  <2> HIDE DEF x, y
  <2>3. Sound(y) BY <1>a, <2>1, <2>2 DEF Sound, Amount, Todo
  <2> QED BY <2>1, <2>2, <2>3 DEF x, y
<1>5. CASE StartFails(c)
  <2>1. x.pc = "new" /\ y = [x EXCEPT !.pc = "over"] BY <1>5, StepFields DEF StartFails
  <2>2. y.pc = "over" /\ y.via = x.via /\ y.at = x.at /\ y.off = x.off BY <1>1, <2>1 DEF Procs
  <2> HIDE DEF x, y
  <2>3. Sound(y) BY <1>a, <2>1, <2>2 DEF Sound
  <2> QED BY <2>1, <2>2, <2>3 DEF x, y
<1>6. CASE Exit(c)
  <2>1. /\ x.pc = "run" /\ (x.stop \/ \A s \in Streams : x.left[s] = <<>>)
        /\ y = [x EXCEPT !.pc = "exit", !.left = [s \in Streams |-> <<>>]]
    BY <1>6, StepFields DEF Exit
  <2>2. /\ y.pc = "exit" /\ (y.stop <=> x.stop) /\ y.via = x.via /\ y.n = x.n /\ y.pipe = x.pipe /\ y.at = x.at /\ y.off = x.off
        /\ y.left = [s \in Streams |-> <<>>]
    BY <1>1, <2>1 DEF Procs
  <2> HIDE DEF x, y
  <2>3. ASSUME ~x.stop PROVE Amount(y) = Amount(x)
    <3>1. \A s \in Streams : Todo(y, s) = Todo(x, s) BY <2>1, <2>2, <2>3 DEF Todo
    <3> QED BY <1>3, <2>2, <3>1 DEF Amount
  <2>4. Sound(y) BY <1>a, <2>1, <2>2, <2>3 DEF Sound
  <2> QED BY <2>1, <2>2, <2>4 DEF x, y
<1>7. CASE \E ok \in BOOLEAN : Done(c, ok)
  <2>1. x.pc = "exit" /\ x.off = Streams /\ y = [x EXCEPT !.pc = "over"] BY <1>7, StepFields DEF Done, Drained
  <2>2. y.pc = "over" /\ y.via = x.via /\ y.at = x.at /\ y.off = x.off /\ y.pipe = x.pipe BY <1>1, <2>1 DEF Procs
  <2> HIDE DEF x, y
  <2>3. Sound(y) BY <1>a, <2>1, <2>2 DEF Sound
  <2> QED BY <2>1, <2>2, <2>3 DEF x, y
<1>8. ASSUME NEW s \in Streams, WriteLine(c, s) PROVE Sound(y) /\ y.via = x.via /\ y.pc # "none" /\ x.pc # "none"
  <2>1. /\ x.pc = "run" /\ x.left[s] # <<>>
        /\ y = [x EXCEPT !.left = [x.left EXCEPT ![s] = Tail(x.left[s])],
                         !.pipe = [x.pipe EXCEPT ![s] = Append(x.pipe[s], Head(x.left[s]))]]
    BY <1>8, StepFields DEF WriteLine
  <2>2. /\ y.pc = "run" /\ y.via = x.via /\ y.n = x.n /\ y.at = x.at /\ y.off = x.off
        /\ y.left = [x.left EXCEPT ![s] = Tail(x.left[s])]
        /\ y.pipe = [x.pipe EXCEPT ![s] = Append(x.pipe[s], Head(x.left[s]))]
    BY <1>1, <2>1 DEF Procs
  <2> HIDE DEF x, y
  <2>4. Amount(y) = Amount(x)
    <3>1. x.left[s] \in Seq({"line"}) /\ x.pipe[s] \in Seq({"line"}) BY <1>2
    <3>2. y.left[s] = Tail(x.left[s]) /\ y.pipe[s] = Append(x.pipe[s], Head(x.left[s])) BY <1>2, <2>2
    <3>3. Size(y.left[s]) = Size(x.left[s]) - 1 /\ Size(y.pipe[s]) = Size(x.pipe[s]) + 1
      BY <2>1, <3>1, <3>2, Sizes
    <3>a. Size(x.left[s]) \in Nat /\ Size(x.pipe[s]) \in Nat BY <3>1, Sizes
    <3>4. Todo(y, s) = Todo(x, s) - 0 BY <3>3, <3>a DEF Todo
    <3>5. \A t \in Streams \ {s} : Todo(y, t) = Todo(x, t) BY <1>2, <2>2 DEF Todo
    <3>6. y.n = x.n + 0 BY <1>2, <2>2
    <3> QED BY <1>1, <3>4, <3>5, <3>6, AmountStep
  <2>5. x.off = {} BY <1>a, <2>1 DEF Sound
  <2> QED BY <1>a, <2>1, <2>2, <2>4, <2>5 DEF Sound
<1>9. ASSUME NEW s \in Streams, Scan(c, s) PROVE Sound(y) /\ y.via = x.via /\ y.pc # "none" /\ x.pc # "none"
  <2>0. x.pc \in {"run", "exit"} /\ s \notin x.off /\ x.at[s] = 0 BY <1>9 DEF Scan
  <2>1. CASE /\ x.pipe[s] # <<>>
             /\ y = [x EXCEPT !.n = x.n + 1, !.at = [x.at EXCEPT ![s] = x.n + 1],
                              !.pipe = [x.pipe EXCEPT ![s] = Tail(x.pipe[s])]]
    <3>1. /\ y.pc = x.pc /\ (y.stop <=> x.stop) /\ y.via = x.via /\ y.n = x.n + 1 /\ y.left = x.left /\ y.off = x.off
          /\ y.at = [x.at EXCEPT ![s] = x.n + 1]
          /\ y.pipe = [x.pipe EXCEPT ![s] = Tail(x.pipe[s])]
      BY <1>1, <2>1 DEF Procs
    <3> HIDE DEF x, y
    <3>3. Amount(y) = Amount(x)
      <4>1. x.left[s] \in Seq({"line"}) /\ x.pipe[s] \in Seq({"line"}) BY <1>2
      <4>2. y.left[s] = x.left[s] /\ y.pipe[s] = Tail(x.pipe[s]) BY <1>2, <3>1
      <4>3. Size(y.pipe[s]) = Size(x.pipe[s]) - 1 BY <2>1, <4>1, <4>2, Sizes
      <4>a. Size(x.left[s]) \in Nat /\ Size(x.pipe[s]) \in Nat BY <4>1, Sizes
      <4>4. Todo(y, s) = Todo(x, s) - 1 BY <4>2, <4>3, <4>a DEF Todo
      <4>5. \A t \in Streams \ {s} : Todo(y, t) = Todo(x, t) BY <1>2, <3>1 DEF Todo
      <4> QED BY <1>1, <3>1, <4>4, <4>5, AmountStep
    <3>4. \A t \in x.off : y.at[t] = x.at[t] /\ y.pipe[t] = x.pipe[t] BY <1>2, <2>0, <3>1
    <3> QED BY <1>a, <2>0, <3>1, <3>3, <3>4 DEF Sound
  <2>2. CASE x.pipe[s] = <<>> /\ x.pc = "exit" /\ y = [x EXCEPT !.off = x.off \cup {s}]
    <3>1. /\ y.pc = x.pc /\ (y.stop <=> x.stop) /\ y.via = x.via /\ y.n = x.n /\ y.left = x.left /\ y.at = x.at
          /\ y.pipe = x.pipe /\ y.off = x.off \cup {s}
      BY <1>1, <2>2 DEF Procs
    <3> HIDE DEF x, y
    <3>2. Amount(y) = Amount(x) BY <3>1 DEF Amount, Todo
    <3> QED BY <1>a, <2>0, <2>2, <3>1, <3>2 DEF Sound
  <2> QED BY <1>9, <2>1, <2>2, StepFields
<1>10. ASSUME NEW s \in Streams, Forward(c, s) PROVE Sound(y) /\ y.via = x.via /\ y.pc # "none" /\ x.pc # "none"
  <2>1. x.at[s] # 0 /\ y = [x EXCEPT !.at = [x.at EXCEPT ![s] = 0]] BY <1>10, StepFields DEF Forward
  <2>2. /\ y.pc = x.pc /\ (y.stop <=> x.stop) /\ y.via = x.via /\ y.n = x.n /\ y.left = x.left /\ y.pipe = x.pipe
        /\ y.off = x.off /\ y.at = [x.at EXCEPT ![s] = 0]
    BY <1>1, <2>1 DEF Procs
  <2> HIDE DEF x, y
  <2>3. \A t \in Streams : x.at[t] = 0 => y.at[t] = 0 BY <1>2, <2>2
  <2>4. x.pc # "none" BY <1>a, <2>1 DEF Sound
  <2>5. Amount(y) = Amount(x) BY <2>2 DEF Amount, Todo
  <2> QED BY <1>2, <1>a, <2>2, <2>3, <2>4, <2>5 DEF Sound
<1> QED BY <1>4, <1>5, <1>6, <1>7, <1>8, <1>9, <1>10

\* At the start nothing is numbered.
LEMMA ProcessesInit == Scannable /\ Init => Processes
<1> SUFFICES ASSUME Scannable, Init, NEW c \in Cmds PROVE Sound(cmd[c]) /\ cmd[c].pc = "none" /\ cmd[c].via = 0
  BY DEF Processes
<1>1. cmd[c] = Process0 BY DEF Init
<1>2. /\ cmd[c].pc = "none" /\ cmd[c].via = 0 /\ cmd[c].n = 0 /\ cmd[c].off = {} /\ cmd[c].left = Output
      /\ cmd[c].pipe = [s \in Streams |-> <<>>] /\ cmd[c].at = [s \in Streams |-> 0]
  BY <1>1 DEF Process0
<1>3. ASSUME NEW s \in Streams PROVE Todo(cmd[c], s) = Size(Output[s]) /\ Size(Output[s]) \in Nat
  <2>1. Output[s] \in Seq({"line"}) /\ <<>> \in Seq({"line"}) BY DEF Scannable
  <2>2. Size(Output[s]) \in Nat /\ Size(<<>>) = 0 BY <2>1, Sizes
  <2>3. cmd[c].pipe[s] = <<>> /\ cmd[c].left[s] = Output[s] BY <1>2
  <2> QED BY <2>2, <2>3 DEF Todo
<1>4. "stdout" \in Streams /\ "stderr" \in Streams BY DEF Streams
<1>5. Amount(cmd[c]) = Size(Output["stdout"]) + Size(Output["stderr"]) BY <1>2, <1>3, <1>4 DEF Amount
<1>6. Amount(cmd[c]) = Total BY <1>5 DEF Total, Size
<1> QED BY <1>2, <1>6 DEF Sound

\* Every step keeps the processes: a line is written, in the pipe or numbered.
LEMMA ProcessesNext == CallsInv /\ Shaped /\ Started /\ Processes /\ [Next]_vars => Processes'
<1> SUFFICES ASSUME CallsInv, Shaped, Started, Processes, [Next]_vars PROVE Processes' OBVIOUS
<1>0. made \in Nat BY DEF CallsInv, Typed
<1>1. CASE cmd' = cmd /\ made' = made BY <1>1 DEF Processes
<1>2. CASE Connect
  <2>1. made' = made + 1 /\ cmd' = cmd BY <1>2 DEF Connect
  <2>2. \A v : v \in 1..made => v \in 1..made' BY <1>0, <2>1
  <2> QED BY <2>1, <2>2 DEF Processes
<1>3. ASSUME NEW c \in Cmds,
             \/ StartShell(c) \/ StartFails(c) \/ Exit(c) \/ \E ok \in BOOLEAN : Done(c, ok)
             \/ \E s \in Streams : WriteLine(c, s) \/ Scan(c, s) \/ Forward(c, s)
      PROVE  Processes'
  <2>1. CmdFrame BY <1>3 DEF StartShell, StartFails, Exit, Done, WriteLine, Scan, Forward
  <2>2. cmd' = [cmd EXCEPT ![c] = cmd'[c]] /\ cmd \in [Cmds -> Procs] BY <1>3, ProcNext DEF Shaped
  <2>3. Sound(cmd'[c]) /\ cmd'[c].via = cmd[c].via /\ cmd'[c].pc # "none" /\ cmd[c].pc # "none"
    BY <1>3, SoundStep DEF Processes
  <2>4. \A e \in Cmds \ {c} : cmd'[e] = cmd[e] BY <2>2
  <2> QED BY <2>1, <2>3, <2>4 DEF Processes, CmdFrame
<1>4. CASE Receive
  <2> DEFINE m == Head(down[link])
  <2>1. /\ link \in Conns /\ link = made /\ down[link] # <<>> /\ m \in Orders
        /\ m.type = "ask" => cmd' = cmd
        /\ m.type = "run" => m.id \in Cmds /\ cmd' = [cmd EXCEPT ![m.id] = [cmd[m.id] EXCEPT !.pc = "new", !.via = link]]
        /\ m.type = "cancel" => m.id \in Cmds
              /\ cmd' = [cmd EXCEPT ![m.id] = [cmd[m.id] EXCEPT !.stop = cmd[m.id].pc \in {"run", "exit"}]]
    BY <1>4, ProcReceive
  <2>2. m.type \in {"ask", "run", "cancel"} /\ made' = made BY <1>4, <2>1 DEF Orders, Receive
  <2>3. m.type = "run" => cmd[m.id].pc = "none"
    <3>1. down[link] \in Seq(Orders) BY <2>1 DEF CallsInv, Typed
    <3>2. 1 \in 1..Len(down[link]) /\ m = down[link][1] BY <2>1, <3>1
    <3> HIDE DEF m
    <3> QED BY <2>1, <3>2 DEF Started
  <2> HIDE DEF m
  <2>4. CASE m.type = "run"
    <3> DEFINE x == cmd[m.id]  y == cmd'[m.id]
    <3>1. x \in Procs /\ y = [x EXCEPT !.pc = "new", !.via = link] /\ \A e \in Cmds \ {m.id} : cmd'[e] = cmd[e]
      BY <2>1, <2>4 DEF Shaped
    <3>2. /\ y.pc = "new" /\ y.via = link /\ y.n = x.n /\ y.pipe = x.pipe /\ y.left = x.left /\ y.at = x.at /\ y.off = x.off
      BY <3>1 DEF Procs
    <3>3. Sound(x) /\ x.pc = "none" BY <2>1, <2>3, <2>4 DEF Processes
    <3>4. y.via \in 1..made BY <2>1, <3>2 DEF Conns
    <3> HIDE DEF x, y
    <3>5. Sound(y) BY <3>2, <3>3 DEF Sound, Amount, Todo
    <3>6. Sound(cmd'[m.id]) /\ cmd'[m.id].pc # "none" /\ cmd'[m.id].via \in 1..made BY <3>2, <3>4, <3>5 DEF y
    <3> QED BY <2>2, <3>1, <3>6 DEF Processes
  <2>5. CASE m.type = "cancel"
    <3> DEFINE x == cmd[m.id]  y == cmd'[m.id]
    <3>1. x \in Procs /\ y = [x EXCEPT !.stop = x.pc \in {"run", "exit"}] /\ \A e \in Cmds \ {m.id} : cmd'[e] = cmd[e]
      BY <2>1, <2>5 DEF Shaped
    <3>2. /\ y.pc = x.pc /\ y.via = x.via /\ y.n = x.n /\ y.pipe = x.pipe /\ y.left = x.left /\ y.at = x.at /\ y.off = x.off
          /\ y.stop <=> x.pc \in {"run", "exit"}
      BY <3>1 DEF Procs
    <3>3. Sound(x) /\ IF x.pc = "none" THEN x.via = 0 ELSE x.via \in 1..made BY <2>1, <2>5 DEF Processes
    <3> HIDE DEF x, y
    <3>4. Amount(y) = Amount(x) BY <3>2 DEF Amount, Todo
    <3>5. Sound(y) BY <3>2, <3>3, <3>4 DEF Sound
    <3>6. Sound(cmd'[m.id]) /\ IF cmd'[m.id].pc = "none" THEN cmd'[m.id].via = 0 ELSE cmd'[m.id].via \in 1..made
      BY <3>2, <3>3, <3>5 DEF y
    <3> QED BY <2>2, <3>1, <3>6 DEF Processes
  <2> QED BY <1>1, <2>1, <2>2, <2>4, <2>5
<1>5. CASE GuiStart \/ ServerStep \/ (\E r \in Reqs : Serve(r)) \/ Break \/ UNCHANGED vars
  <2>1. cmd' = cmd /\ made' = made
    BY <1>5 DEF GuiStart, ServerStep, Send, DeleteRow, Create, Cancel, DeleteOutput, BeginRequest, SendRequest, Answered,
       TimedOut, Take, AppendOutput, Leave, Fail, Serve, Break, vars, netVars
  <2> QED BY <1>1, <2>1
<1> QED BY <1>2, <1>3, <1>4, <1>5 DEF Next, AgentStep

-----------------------------------------------------------------------------
\* A command has written and sent all its lines.
Over(c) == cmd[c].pc = "over" /\ cmd[c].n = Total

\* The agent sends what a command writes on connections from the one that the
\* command came by, and its report last.
Ordered == \A d \in Conns : \A k \in 1..Len(up[d]) :
    /\ up[d][k].type \in {"output", "done"} => d <= made /\ cmd[up[d][k].id].via \in 1..d
    /\ up[d][k].type = "done" =>
          /\ cmd[up[d][k].id].pc = "over"
          /\ up[d][k].status = "success" => Over(up[d][k].id)
          /\ \A l \in k..Len(up[d]) : up[d][l].type = "output" => up[d][l].id # up[d][k].id

Order ==
    /\ Ordered
    /\ \A d \in Conns : handler[d].pc = "output" => d <= made /\ cmd[handler[d].m.id].via \in 1..d
    /\ \A c \in Cmds : row[c] = "success" => Over(c)

\* A process keeps its connection, and is left alone when it is over.
Stable ==
    /\ \A c \in Cmds : /\ cmd[c].via # 0 => cmd'[c].via = cmd[c].via
                       /\ cmd[c].pc = "over" => cmd'[c].pc = "over" /\ cmd'[c].n = cmd[c].n
    /\ made' \in Nat /\ made <= made'

\* No step moves a process to another connection, or revives it.
LEMMA StableNext == CallsInv /\ Shaped /\ Started /\ Processes /\ [Next]_vars => Stable
<1> SUFFICES ASSUME CallsInv, Shaped, Started, Processes, [Next]_vars PROVE Stable OBVIOUS
<1>0. made \in Nat BY DEF CallsInv, Typed
<1>1. CASE cmd' = cmd /\ made' = made BY <1>0, <1>1 DEF Stable
<1>2. CASE Connect BY <1>0, <1>2 DEF Connect, Stable
<1>3. ASSUME NEW c \in Cmds,
             \/ StartShell(c) \/ StartFails(c) \/ Exit(c) \/ \E ok \in BOOLEAN : Done(c, ok)
             \/ \E s \in Streams : WriteLine(c, s) \/ Scan(c, s) \/ Forward(c, s)
      PROVE  Stable
  <2>1. CmdFrame BY <1>3 DEF StartShell, StartFails, Exit, Done, WriteLine, Scan, Forward
  <2>2. cmd' = [cmd EXCEPT ![c] = cmd'[c]] /\ cmd \in [Cmds -> Procs] /\ cmd[c] \in Procs BY <1>3, ProcNext DEF Shaped
  <2>3. cmd'[c].via = cmd[c].via BY <1>3, SoundStep DEF Processes
  <2>4. cmd[c].pc # "over"
    <3>1. \A s \in Streams : Forward(c, s) => cmd[c].at[s] # 0 BY DEF Forward
    <3>2. cmd[c].pc = "over" => \A s \in Streams : cmd[c].at[s] = 0 BY DEF Processes, Sound
    <3> QED BY <1>3, <3>1, <3>2 DEF StartShell, StartFails, Exit, Done, WriteLine, Scan
  <2>5. \A e \in Cmds \ {c} : cmd'[e] = cmd[e] BY <2>2
  <2> QED BY <1>0, <2>1, <2>3, <2>4, <2>5 DEF Stable, CmdFrame
<1>4. CASE Receive
  <2> DEFINE m == Head(down[link])
  <2>1. /\ link \in Conns /\ link = made /\ down[link] # <<>> /\ m \in Orders
        /\ m.type = "ask" => cmd' = cmd
        /\ m.type = "run" => m.id \in Cmds /\ cmd' = [cmd EXCEPT ![m.id] = [cmd[m.id] EXCEPT !.pc = "new", !.via = link]]
        /\ m.type = "cancel" => m.id \in Cmds
              /\ cmd' = [cmd EXCEPT ![m.id] = [cmd[m.id] EXCEPT !.stop = cmd[m.id].pc \in {"run", "exit"}]]
    BY <1>4, ProcReceive
  <2>2. m.type \in {"ask", "run", "cancel"} /\ made' = made BY <1>4, <2>1 DEF Orders, Receive
  <2>3. m.type = "run" => cmd[m.id].pc = "none"
    <3>1. down[link] \in Seq(Orders) BY <2>1 DEF CallsInv, Typed
    <3>2. 1 \in 1..Len(down[link]) /\ m = down[link][1] BY <2>1, <3>1
    <3> HIDE DEF m
    <3> QED BY <2>1, <3>2 DEF Started
  <2> HIDE DEF m
  <2>4. CASE m.type = "run"
    <3>1. cmd[m.id].via = 0 /\ cmd[m.id].pc # "over" BY <2>1, <2>3, <2>4 DEF Processes
    <3>2. \A e \in Cmds \ {m.id} : cmd'[e] = cmd[e] BY <2>1, <2>4 DEF Shaped
    <3> QED BY <1>0, <2>2, <3>1, <3>2 DEF Stable
  <2>5. CASE m.type = "cancel"
    <3>1. cmd[m.id] \in Procs /\ cmd'[m.id] = [cmd[m.id] EXCEPT !.stop = cmd[m.id].pc \in {"run", "exit"}]
          /\ \A e \in Cmds \ {m.id} : cmd'[e] = cmd[e]
      BY <2>1, <2>5 DEF Shaped
    <3>2. cmd'[m.id].via = cmd[m.id].via /\ cmd'[m.id].pc = cmd[m.id].pc /\ cmd'[m.id].n = cmd[m.id].n BY <3>1 DEF Procs
    <3>3. \A e \in Cmds \ {m.id} : cmd'[e].via = cmd[e].via /\ cmd'[e].pc = cmd[e].pc /\ cmd'[e].n = cmd[e].n BY <3>1
    <3>4. \A e \in Cmds : cmd'[e].via = cmd[e].via /\ cmd'[e].pc = cmd[e].pc /\ cmd'[e].n = cmd[e].n BY <3>2, <3>3
    <3> HIDE DEF m
    <3> QED BY <1>0, <2>2, <3>4 DEF Stable
  <2> QED BY <1>1, <2>1, <2>2, <2>4, <2>5
<1>5. CASE GuiStart \/ ServerStep \/ (\E r \in Reqs : Serve(r)) \/ Break \/ UNCHANGED vars
  <2>1. cmd' = cmd /\ made' = made
    BY <1>5 DEF GuiStart, ServerStep, Send, DeleteRow, Create, Cancel, DeleteOutput, BeginRequest, SendRequest, Answered,
       TimedOut, Take, AppendOutput, Leave, Fail, Serve, Break, vars, netVars
  <2> QED BY <1>1, <2>1
<1> QED BY <1>2, <1>3, <1>4, <1>5 DEF Next, AgentStep

\* The messages that are left when some at the front have gone.
LEMMA OrderedDrop ==
    ASSUME CallsInv, Ordered, Stable, NEW d \in Conns,
           NEW i \in Nat, i <= Len(up[d]), Len(up'[d]) = Len(up[d]) - i,
           \A k \in 1..Len(up'[d]) : up'[d][k] = up[d][k + i],
           NEW k \in 1..Len(up'[d])
    PROVE  /\ up'[d][k].type \in {"output", "done"} => d <= made' /\ cmd'[up'[d][k].id].via \in 1..d
           /\ up'[d][k].type = "done" =>
                 /\ cmd'[up'[d][k].id].pc = "over"
                 /\ up'[d][k].status = "success" => cmd'[up'[d][k].id].n = Total
                 /\ \A l \in k..Len(up'[d]) : up'[d][l].type = "output" => up'[d][l].id # up'[d][k].id
<1>1. up[d] \in Seq(Reports) /\ made \in Nat /\ Len(up[d]) \in Nat BY DEF CallsInv, Typed
<1>2. k + i \in 1..Len(up[d]) /\ up'[d][k] = up[d][k + i] /\ up[d][k + i] \in Reports BY <1>1
<1>3. up[d][k + i].type \in {"output", "done"} => up[d][k + i].id \in Cmds BY <1>2, ReportFields
<1>4. up[d][k + i].type \in {"output", "done"} => d <= made' /\ cmd'[up[d][k + i].id].via \in 1..d
  <2>1. up[d][k + i].type \in {"output", "done"} => d <= made /\ cmd[up[d][k + i].id].via \in 1..d BY <1>2 DEF Ordered
  <2>2. d \in Nat BY DEF Conns
  <2>3. d <= made => d <= made' BY <1>1, <2>2 DEF Stable
  <2>4. \A v \in 1..d : v # 0 BY <2>2
  <2> QED BY <1>3, <2>1, <2>3, <2>4 DEF Stable
<1>5. ASSUME up[d][k + i].type = "done"
      PROVE  /\ cmd'[up[d][k + i].id].pc = "over"
             /\ up[d][k + i].status = "success" => cmd'[up[d][k + i].id].n = Total
  BY <1>2, <1>3, <1>5 DEF Ordered, Stable, Over
<1>6. ASSUME up[d][k + i].type = "done", NEW l \in k..Len(up'[d]), up'[d][l].type = "output"
      PROVE  up'[d][l].id # up[d][k + i].id
  <2>1. l \in 1..Len(up'[d]) BY <1>1, <1>6
  <2>2. up'[d][l] = up[d][l + i] BY <2>1
  <2>3. l + i \in (k + i)..Len(up[d]) BY <1>1, <1>6
  <2>4. \A j \in (k + i)..Len(up[d]) : up[d][j].type = "output" => up[d][j].id # up[d][k + i].id
    BY <1>2, <1>6 DEF Ordered
  <2> QED BY <1>6, <2>2, <2>3, <2>4
<1> QED BY <1>2, <1>4, <1>5, <1>6

\* The messages stay in order where none comes or goes.
LEMMA OrderedKept == CallsInv /\ Ordered /\ Stable /\ up' = up => Ordered'
<1> SUFFICES ASSUME CallsInv, Ordered, Stable, up' = up, NEW d \in Conns, NEW k \in 1..Len(up'[d])
             PROVE  /\ up'[d][k].type \in {"output", "done"} => d <= made' /\ cmd'[up'[d][k].id].via \in 1..d
                    /\ up'[d][k].type = "done" =>
                          /\ cmd'[up'[d][k].id].pc = "over"
                          /\ up'[d][k].status = "success" => cmd'[up'[d][k].id].n = Total
                          /\ \A l \in k..Len(up'[d]) : up'[d][l].type = "output" => up'[d][l].id # up'[d][k].id
  BY DEF Ordered, Over
<1>1. up[d] \in Seq(Reports) /\ Len(up[d]) \in Nat BY DEF CallsInv, Typed
<1>2. 0 \in Nat /\ 0 <= Len(up[d]) /\ Len(up'[d]) = Len(up[d]) - 0 /\ \A j \in 1..Len(up'[d]) : up'[d][j] = up[d][j + 0] BY <1>1
<1> QED BY <1>2, OrderedDrop

\* A message of the agent that is none of a command that is over, or its last.
LEMMA OrderedTell ==
    ASSUME CallsInv, Ordered, Stable, NEW m \in Reports, Tell(m), made' = made,
           m.type \in {"output", "done"} => cmd[m.id].via \in 1..made,
           m.type = "output" => cmd[m.id].pc # "over",
           m.type = "done" => cmd'[m.id].pc = "over" /\ (m.status = "success" => cmd'[m.id].n = Total)
    PROVE  Ordered'
<1>1. CASE up' = up BY <1>1, OrderedKept
<1>2. CASE link # 0 /\ up' = [up EXCEPT ![link] = Append(@, m)]
  <2>1. link \in Conns /\ link = made BY <1>2, RemoteCallsAssumption DEF CallsInv, Typed, Conns
  <2>2. up \in [Conns -> Seq(Reports)] /\ up[link] \in Seq(Reports) BY <2>1 DEF CallsInv, Typed
  <2>3. up'[link] = Append(up[link], m) /\ \A d \in Conns \ {link} : up'[d] = up[d] BY <1>2, <2>1, <2>2
  <2>4. /\ Len(up'[link]) = Len(up[link]) + 1 /\ Len(up[link]) \in Nat /\ up'[link][Len(up[link]) + 1] = m
        /\ \A k \in 1..Len(up[link]) : up'[link][k] = up[link][k]
    BY <2>2, <2>3
  <2>5. \A v \in 1..made : v # 0 BY DEF CallsInv, Typed
  <2>6. m.type \in {"output", "done"} => m.id \in Cmds /\ cmd'[m.id].via \in 1..made
    BY <2>5, ReportFields DEF Stable
  <2>7. ASSUME NEW d \in Conns \ {link}, NEW k \in 1..Len(up'[d])
        PROVE  /\ up'[d][k].type \in {"output", "done"} => d <= made' /\ cmd'[up'[d][k].id].via \in 1..d
               /\ up'[d][k].type = "done" =>
                     /\ cmd'[up'[d][k].id].pc = "over"
                     /\ up'[d][k].status = "success" => cmd'[up'[d][k].id].n = Total
                     /\ \A l \in k..Len(up'[d]) : up'[d][l].type = "output" => up'[d][l].id # up'[d][k].id
    <3>1. up'[d] = up[d] /\ up[d] \in Seq(Reports) /\ Len(up[d]) \in Nat BY <2>3, <2>7 DEF CallsInv, Typed
    <3>2. 0 \in Nat /\ 0 <= Len(up[d]) /\ Len(up'[d]) = Len(up[d]) - 0 /\ \A j \in 1..Len(up'[d]) : up'[d][j] = up[d][j + 0] BY <3>1
    <3> QED BY <2>7, <3>2, OrderedDrop
  <2>8. ASSUME NEW k \in 1..Len(up'[link])
        PROVE  /\ up'[link][k].type \in {"output", "done"} => link <= made' /\ cmd'[up'[link][k].id].via \in 1..link
               /\ up'[link][k].type = "done" =>
                     /\ cmd'[up'[link][k].id].pc = "over"
                     /\ up'[link][k].status = "success" => cmd'[up'[link][k].id].n = Total
                     /\ \A l \in k..Len(up'[link]) : up'[link][l].type = "output" => up'[link][l].id # up'[link][k].id
    <3>0. link <= made' BY <2>1 DEF CallsInv, Typed
    <3>1. CASE k \in 1..Len(up[link])
      <4>1. up'[link][k] = up[link][k] /\ up[link][k] \in Reports BY <2>2, <2>4, <3>1
      <4>2. up[link][k].type \in {"output", "done"} => up[link][k].id \in Cmds BY <4>1, ReportFields
      <4>3. up[link][k].type \in {"output", "done"} => cmd[up[link][k].id].via \in 1..link BY <2>1, <3>1 DEF Ordered
      <4>4. up[link][k].type \in {"output", "done"} => cmd'[up[link][k].id].via \in 1..link
        BY <2>1, <2>5, <4>2, <4>3 DEF Stable
      <4>5. ASSUME up[link][k].type = "done"
            PROVE  /\ cmd[up[link][k].id].pc = "over" /\ cmd'[up[link][k].id].pc = "over"
                   /\ up[link][k].status = "success" => cmd'[up[link][k].id].n = Total
        BY <2>1, <3>1, <4>2, <4>5 DEF Ordered, Stable, Over
      <4>6. ASSUME up[link][k].type = "done", NEW l \in k..Len(up'[link]), up'[link][l].type = "output"
            PROVE  up'[link][l].id # up[link][k].id
        <5>1. l \in k..Len(up[link]) \/ l = Len(up[link]) + 1 BY <2>4, <3>1, <4>6
        <5>2. CASE l \in k..Len(up[link])
          <6>1. l \in 1..Len(up[link]) BY <2>4, <3>1, <5>2
          <6>2. up'[link][l] = up[link][l] BY <2>4, <6>1
          <6> QED BY <2>1, <3>1, <4>6, <5>2, <6>2 DEF Ordered
        <5>3. CASE l = Len(up[link]) + 1
          <6>1. up'[link][l] = m BY <2>4, <5>3
          <6> QED BY <4>5, <4>6, <6>1
        <5> QED BY <5>1, <5>2, <5>3
      <4> QED BY <3>0, <4>1, <4>4, <4>5, <4>6
    <3>2. CASE k = Len(up[link]) + 1
      <4>1. up'[link][k] = m BY <2>4, <3>2
      <4>2. \A l \in k..Len(up'[link]) : l = k BY <2>4, <3>2
      <4> QED BY <2>1, <2>6, <3>0, <4>1, <4>2
    <3> QED BY <2>4, <2>8, <3>1, <3>2
  <2>9. ASSUME NEW d \in Conns, NEW k \in 1..Len(up'[d])
        PROVE  /\ up'[d][k].type \in {"output", "done"} => d <= made' /\ cmd'[up'[d][k].id].via \in 1..d
               /\ up'[d][k].type = "done" =>
                     /\ cmd'[up'[d][k].id].pc = "over"
                     /\ up'[d][k].status = "success" => cmd'[up'[d][k].id].n = Total
                     /\ \A l \in k..Len(up'[d]) : up'[d][l].type = "output" => up'[d][l].id # up'[d][k].id
    <3>1. CASE d = link BY <2>8, <2>9, <3>1
    <3>2. CASE d # link BY <2>7, <2>9, <3>2
    <3> QED BY <3>1, <3>2
  <2> QED BY <2>9 DEF Ordered, Over
<1> QED BY <1>1, <1>2 DEF Tell

\* The handlers and rows follow the messages they come from.
LEMMA OrderRest ==
    ASSUME CallsInv, Shaped, Order, Stable, Ordered',
           \A c \in Cmds : row'[c] = "success" => row[c] = "success" \/ Over(c),
           \A d \in Conns : handler'[d].pc = "output" =>
               \/ handler'[d] = handler[d]
               \/ handler'[d].m.id \in Cmds /\ d <= made /\ cmd[handler'[d].m.id].via \in 1..d
    PROVE  Order'
<1>1. made \in Nat BY DEF CallsInv, Typed
<1>2. \A c \in Cmds : row'[c] = "success" => cmd'[c].pc = "over" /\ cmd'[c].n = Total BY DEF Order, Over, Stable
<1>3. ASSUME NEW d \in Conns, handler'[d].pc = "output"
      PROVE  d <= made' /\ cmd'[handler'[d].m.id].via \in 1..d
  <2>1. d \in Nat /\ \A v \in 1..d : v # 0 BY DEF Conns
  <2>2. handler'[d] = handler[d] => handler[d].m.id \in Cmds BY <1>3 DEF Shaped, Outputs
  <2>3. handler'[d].m.id \in Cmds /\ d <= made /\ cmd[handler'[d].m.id].via \in 1..d
    <3>1. CASE handler'[d] = handler[d] BY <1>3, <2>2, <3>1 DEF Order
    <3> QED BY <1>3, <3>1
  <2> QED BY <1>1, <2>1, <2>3 DEF Stable
<1> QED BY <1>2, <1>3 DEF Order, Over

\* At the start nothing is on its way.
LEMMA OrderInit == Init => Order
BY DEF Init, Order, Ordered, Open

\* Every step keeps the order: a report follows the output of its command.
LEMMA OrderNext == CallsInv /\ Shaped /\ Started /\ Processes /\ Order /\ [Next]_vars => Order'
<1> SUFFICES ASSUME CallsInv, Shaped, Started, Processes, Order, [Next]_vars PROVE Order' OBVIOUS
<1>0. Stable /\ Ordered BY StableNext DEF Order
<1>r. row \in [Cmds -> {"none", "running", "deleted"} \cup Ended] BY DEF CallsInv, Typed
<1>1. CASE up' = up /\ handler' = handler /\ \A c \in Cmds : row'[c] = "success" => row[c] = "success"
  BY <1>0, <1>1, OrderedKept, OrderRest
<1>2. CASE GuiStart \/ Send \/ DeleteRow \/ (\E r \in Reqs : SendRequest(r) \/ Answered(r) \/ TimedOut(r))
           \/ Receive \/ Break \/ UNCHANGED vars
  <2>1. up' = up /\ handler' = handler
    BY <1>2 DEF GuiStart, Send, DeleteRow, Create, Cancel, DeleteOutput, BeginRequest, SendRequest, Answered, TimedOut,
       Receive, Break, vars, netVars
  <2>2. \A c \in Cmds : row'[c] = "success" => row[c] = "success"
    <3>1. CASE row' = row BY <3>1
    <3>2. CASE Send \/ DeleteRow BY <1>r, <3>2 DEF Send, DeleteRow, Update
    <3>3. ASSUME NEW c \in Cmds, Create(c) PROVE \A e \in Cmds : row'[e] = "success" => row[e] = "success"
      BY <1>r, <3>3 DEF Create
    <3> QED BY <1>2, <3>1, <3>2, <3>3 DEF GuiStart, Cancel, DeleteOutput, BeginRequest, SendRequest, Answered, TimedOut,
       Receive, Break, vars
  <2> QED BY <1>1, <2>1, <2>2
<1>3. CASE Connect
  <2>1. up' = up /\ row' = row /\ handler' = [handler EXCEPT ![made'] = Open] BY <1>3 DEF Connect
  <2>2. \A d \in Conns : handler'[d].pc = "output" => handler'[d] = handler[d] BY <2>1 DEF Shaped, Open
  <2>3. Ordered' BY <1>0, <2>1, OrderedKept
  <2> QED BY <1>0, <2>1, <2>2, <2>3, OrderRest
<1>4. ASSUME NEW c \in Conns, AppendOutput(c) \/ Fail(c) PROVE Order'
  <2>1. up' = up BY <1>4 DEF AppendOutput, Fail
  <2>2. \A e \in Cmds : row'[e] = "success" => row[e] = "success" BY <1>r, <1>4 DEF AppendOutput, Fail, Failed
  <2>3. \A d \in Conns : handler'[d].pc = "output" => handler'[d] = handler[d]
    <3>1. CASE AppendOutput(c) BY <3>1 DEF AppendOutput, Shaped, Open
    <3>2. CASE Fail(c)
      <4>1. handler[c] \in Handlers /\ handler' = [handler EXCEPT ![c] = [handler[c] EXCEPT !.pc = "gone"]]
        BY <3>2 DEF Fail, Shaped
      <4>2. [handler[c] EXCEPT !.pc = "gone"].pc = "gone" BY <4>1 DEF Handlers
      <4> QED BY <4>1, <4>2 DEF Shaped
    <3> QED BY <1>4, <3>1, <3>2
  <2>4. Ordered' BY <1>0, <2>1, OrderedKept
  <2> QED BY <1>0, <2>2, <2>3, <2>4, OrderRest
<1>5. ASSUME NEW c \in Conns, Leave(c) PROVE Order'
  <2>1. up' = [up EXCEPT ![c] = <<>>] /\ row' = row /\ handler' = [handler EXCEPT ![c].pc = "fail"] BY <1>5 DEF Leave
  <2>2. \A d \in Conns : handler'[d].pc = "output" => handler'[d] = handler[d]
    <3>1. handler[c] \in Handlers /\ handler' = [handler EXCEPT ![c] = [handler[c] EXCEPT !.pc = "fail"]]
      BY <2>1 DEF Shaped
    <3>2. [handler[c] EXCEPT !.pc = "fail"].pc = "fail" BY <3>1 DEF Handlers
    <3> QED BY <3>1, <3>2 DEF Shaped
  <2>3. Ordered'
    <3> SUFFICES ASSUME NEW d \in Conns, NEW k \in 1..Len(up'[d])
                 PROVE  /\ up'[d][k].type \in {"output", "done"} => d <= made' /\ cmd'[up'[d][k].id].via \in 1..d
                        /\ up'[d][k].type = "done" =>
                              /\ cmd'[up'[d][k].id].pc = "over"
                              /\ up'[d][k].status = "success" => cmd'[up'[d][k].id].n = Total
                              /\ \A l \in k..Len(up'[d]) : up'[d][l].type = "output" => up'[d][l].id # up'[d][k].id
      BY DEF Ordered, Over
    <3>1. up \in [Conns -> Seq(Reports)] /\ Len(up[d]) \in Nat BY DEF CallsInv, Typed
    <3>2. d # c
      <4>1. d = c => up'[d] = <<>> BY <2>1, <3>1
      <4> QED BY <4>1
    <3>3. up'[d] = up[d] BY <2>1, <3>1, <3>2
    <3>4. 0 \in Nat /\ 0 <= Len(up[d]) /\ Len(up'[d]) = Len(up[d]) - 0 /\ \A j \in 1..Len(up'[d]) : up'[d][j] = up[d][j + 0]
      BY <3>1, <3>3
    <3> QED BY <1>0, <3>4, OrderedDrop
  <2> QED BY <1>0, <2>1, <2>2, <2>3, OrderRest
<1>6. ASSUME NEW c \in Conns, Take(c) PROVE Order'
  <2>1. up[c] \in Seq(Reports) /\ up[c] # <<>> /\ up \in [Conns -> Seq(Reports)] BY <1>6 DEF Take, CallsInv, Typed
  <2>2. /\ Head(up[c]) \in Reports /\ Head(up[c]) = up[c][1] /\ 1 \in 1..Len(up[c])
        /\ Len(Tail(up[c])) = Len(up[c]) - 1 /\ Len(up[c]) \in Nat \ {0}
        /\ \A k \in 1..Len(Tail(up[c])) : Tail(up[c])[k] = up[c][k + 1]
    BY <2>1
  <2>3. up' = [up EXCEPT ![c] = Tail(@)] BY <1>6 DEF Take
  <2>4. Ordered'
    <3> SUFFICES ASSUME NEW d \in Conns, NEW k \in 1..Len(up'[d])
                 PROVE  /\ up'[d][k].type \in {"output", "done"} => d <= made' /\ cmd'[up'[d][k].id].via \in 1..d
                        /\ up'[d][k].type = "done" =>
                              /\ cmd'[up'[d][k].id].pc = "over"
                              /\ up'[d][k].status = "success" => cmd'[up'[d][k].id].n = Total
                              /\ \A l \in k..Len(up'[d]) : up'[d][l].type = "output" => up'[d][l].id # up'[d][k].id
      BY DEF Ordered, Over
    <3>1. CASE d = c
      <4>1. up'[d] = Tail(up[c]) BY <2>1, <2>3, <3>1
      <4>2. 1 \in Nat /\ 1 <= Len(up[d]) /\ Len(up'[d]) = Len(up[d]) - 1 /\ \A j \in 1..Len(up'[d]) : up'[d][j] = up[d][j + 1]
        BY <2>2, <3>1, <4>1
      <4> QED BY <1>0, <4>2, OrderedDrop
    <3>2. CASE d # c
      <4>1. up'[d] = up[d] /\ Len(up[d]) \in Nat BY <2>1, <2>3, <3>2
      <4>2. 0 \in Nat /\ 0 <= Len(up[d]) /\ Len(up'[d]) = Len(up[d]) - 0 /\ \A j \in 1..Len(up'[d]) : up'[d][j] = up[d][j + 0]
        BY <4>1
      <4> QED BY <1>0, <4>2, OrderedDrop
    <3> QED BY <3>1, <3>2
  <2> DEFINE m == Head(up[c])
  <2>5. /\ m.type \in {"output", "done"} => m.id \in Cmds /\ c <= made /\ cmd[m.id].via \in 1..c
        /\ m.type = "done" /\ m.status = "success" => Over(m.id)
    BY <1>0, <2>2, ReportFields DEF Ordered
  <2>6. /\ IF m.type = "done" THEN Update(m.id, m.status) ELSE row' = row
        /\ handler' = IF m.type = "output" /\ row[m.id] # "deleted"
                      THEN [handler EXCEPT ![c] = [pc |-> "output", m |-> m]] ELSE handler
    BY <1>6 DEF Take
  <2> HIDE DEF m
  <2>7. \A e \in Cmds : row'[e] = "success" => row[e] = "success" \/ Over(e) BY <1>r, <2>5, <2>6 DEF Update
  <2>8. \A d \in Conns : handler'[d].pc = "output" =>
               \/ handler'[d] = handler[d]
               \/ handler'[d].m.id \in Cmds /\ d <= made /\ cmd[handler'[d].m.id].via \in 1..d
    <3>1. CASE handler' = handler BY <3>1
    <3>2. CASE m.type = "output" /\ handler' = [handler EXCEPT ![c] = [pc |-> "output", m |-> m]]
      <4>1. handler'[c].m = m /\ \A d \in Conns \ {c} : handler'[d] = handler[d] BY <3>2 DEF Shaped
      <4> QED BY <2>5, <3>2, <4>1
    <3> QED BY <2>6, <3>1, <3>2
  <2> QED BY <1>0, <2>4, <2>7, <2>8, OrderRest
<1>7. ASSUME NEW r \in Reqs, Serve(r) PROVE Order'
  <2>1. Tell([type |-> "reply", id |-> r]) /\ UNCHANGED <<row, handler, made>> BY <1>7 DEF Serve
  <2>2. [type |-> "reply", id |-> r] \in Reports BY DEF Reports, Replies
  <2>3. Ordered' BY <1>0, <2>1, <2>2, OrderedTell
  <2> QED BY <1>0, <2>1, <2>3, OrderRest
<1>8. ASSUME NEW c \in Cmds,
             \/ StartShell(c) \/ StartFails(c) \/ Exit(c) \/ \E ok \in BOOLEAN : Done(c, ok)
             \/ \E s \in Streams : WriteLine(c, s) \/ Scan(c, s) \/ Forward(c, s)
      PROVE  Order'
  <2>1. CmdFrame BY <1>8 DEF StartShell, StartFails, Exit, Done, WriteLine, Scan, Forward
  <2>2. UNCHANGED <<row, handler, made>> BY <2>1 DEF CmdFrame
  <2>3. CASE up' = up BY <1>1, <2>2, <2>3
  <2>4. cmd[c].pc # "none" => cmd[c].via \in 1..made BY DEF Processes
  <2>5. CASE StartFails(c)
    <3> DEFINE m == [type |-> "done", id |-> c, status |-> "error"]
    <3>1. m \in Reports /\ m.id = c BY DEF Reports, Dones, Ended
    <3>2. Tell(m) /\ cmd[c].pc = "new" BY <2>5 DEF StartFails
    <3>a. cmd[c] \in Procs /\ cmd'[c] = [cmd[c] EXCEPT !.pc = "over"] BY <2>5, StepFields DEF Shaped
    <3>3. cmd'[c].pc = "over" BY <3>a DEF Procs
    <3>4. m.type = "done" /\ m.status = "error" OBVIOUS
    <3> HIDE DEF m
    <3>5. Ordered' BY <1>0, <2>2, <2>4, <3>1, <3>2, <3>3, <3>4, OrderedTell
    <3> QED BY <1>0, <2>2, <3>5, OrderRest
  <2>6. ASSUME NEW ok \in BOOLEAN, Done(c, ok) PROVE Order'
    <3> DEFINE st == IF cmd[c].stop THEN "cancelled" ELSE IF ok THEN "success" ELSE "error"
               m  == [type |-> "done", id |-> c, status |-> st]
    <3>1. m \in Reports /\ m.id = c /\ m.type = "done" /\ m.status = st BY DEF Reports, Dones, Ended
    <3>2. Tell(m) /\ cmd[c].pc = "exit" /\ cmd[c].off = Streams BY <2>6 DEF Done, Drained
    <3>3. cmd[c] \in Procs /\ cmd'[c] = [cmd[c] EXCEPT !.pc = "over"] BY <2>6, StepFields DEF Shaped
    <3>4. cmd'[c].pc = "over" /\ cmd'[c].n = cmd[c].n BY <3>3 DEF Procs
    <3>5. st = "success" => ~cmd[c].stop OBVIOUS
    <3>6. ASSUME ~cmd[c].stop PROVE cmd[c].n = Total
      <4>1. /\ Amount(cmd[c]) = Total /\ \A s \in Streams : cmd[c].left[s] = <<>> /\ cmd[c].pipe[s] = <<>>
        BY <3>2, <3>6 DEF Processes, Sound
      <4>2. <<>> \in Seq({"line"}) OBVIOUS
      <4>a. Size(<<>>) = 0 BY <4>2, Sizes
      <4>3. \A s \in Streams : Todo(cmd[c], s) = 0 BY <4>1, <4>a DEF Todo
      <4>4. cmd[c].n \in Nat BY <3>3 DEF Procs
      <4> QED BY <4>1, <4>3, <4>4 DEF Amount, Streams
    <3> HIDE DEF m, st
    <3>7. Ordered' BY <1>0, <2>2, <2>4, <3>1, <3>2, <3>4, <3>5, <3>6, OrderedTell
    <3> QED BY <1>0, <2>2, <3>7, OrderRest
  <2>7. ASSUME NEW s \in Streams, Forward(c, s), up' # up PROVE Order'
    <3> DEFINE l == Forwarded(cmd[c].at[s], s)[1]
               m == [type |-> "output", id |-> c, line |-> l]
    <3>1. Forwarded(cmd[c].at[s], s) # <<>> /\ Tell(m) /\ cmd[c].at[s] # 0 BY <2>7 DEF Forward
    <3>2. l \in Streams \cup {"truncated"} BY <3>1 DEF Forwarded
    <3>3. m \in Reports /\ m.id = c /\ m.type = "output" BY <3>2 DEF Reports, Outputs
    <3>4. cmd[c].pc # "none" /\ cmd[c].pc # "over" BY <3>1 DEF Processes, Sound
    <3> HIDE DEF m, l
    <3>5. Ordered' BY <1>0, <2>2, <2>4, <3>1, <3>3, <3>4, OrderedTell
    <3> QED BY <1>0, <2>2, <3>5, OrderRest
  <2> QED BY <1>8, <2>3, <2>5, <2>6, <2>7 DEF StartShell, Exit, WriteLine, Scan
<1> QED BY <1>2, <1>3, <1>4, <1>5, <1>6, <1>7, <1>8 DEF Next, ServerStep, AgentStep

-----------------------------------------------------------------------------
\* The lines of a command, with and without the notice.
What == {Streams, {"truncated"}}

\* Of n lines, those that Forwarded lets through.
Quota(n, w) == IF w = Streams THEN (IF n < Cap THEN n ELSE Cap) ELSE IF n > Cap THEN 1 ELSE 0

Count(c, w) == Cardinality(Kept(stored[c], w)) + Cardinality(Flight(up, Line(c, w)))
               + Cardinality(Held(handler, Line(c, w))) + Cardinality(Due(cmd[c].at, w))

\* The two kinds of line.
LEMMA WhatIs == /\ Streams \in What /\ {"truncated"} \in What /\ Streams # {"truncated"}
                /\ \A w \in What : w # Streams => w = {"truncated"}
                /\ \A w \in What : w \subseteq Streams \cup {"truncated"}
<1>1. "stdout" \in Streams /\ "stdout" # "truncated" BY DEF Streams
<1> QED BY <1>1 DEF What

\* Line n is let through as a line or as the notice.
Passes(n, s, w) == Forwarded(n, s) # <<>> /\ Forwarded(n, s)[1] \in w

\* streamOutput: one more line adds to the quota what Forwarded lets through.
LEMMA QuotaNext ==
    ASSUME NEW n \in Nat, NEW s \in Streams, NEW w \in What
    PROVE  /\ Quota(n, w) \in Nat /\ Quota(0, w) = 0
           /\ Quota(n + 1, w) = Quota(n, w) + (IF Passes(n + 1, s, w) THEN 1 ELSE 0)
<1>0. Cap \in Nat \ {0} BY RemoteCallsAssumption
<1>1. "truncated" \notin Streams BY DEF Streams
<1>2. Passes(n + 1, s, w) <=> IF w = Streams THEN n + 1 <= Cap ELSE n + 1 = Cap + 1
  <2>1. CASE n + 1 <= Cap
    <3>1. Forwarded(n + 1, s) = <<s>> BY <2>1 DEF Forwarded
    <3>2. Passes(n + 1, s, w) <=> s \in w BY <3>1 DEF Passes
    <3>3. n + 1 # Cap + 1 BY <1>0, <2>1
    <3> QED BY <1>1, <2>1, <3>2, <3>3, WhatIs
  <2>2. CASE n + 1 = Cap + 1
    <3>1. Forwarded(n + 1, s) = <<"truncated">> BY <1>0, <2>2 DEF Forwarded
    <3>2. Passes(n + 1, s, w) <=> "truncated" \in w BY <3>1 DEF Passes
    <3>3. ~(n + 1 <= Cap) BY <1>0, <2>2
    <3> QED BY <1>1, <2>2, <3>2, <3>3, WhatIs
  <2>3. CASE ~(n + 1 <= Cap) /\ n + 1 # Cap + 1
    <3>1. Forwarded(n + 1, s) = <<>> BY <2>3 DEF Forwarded
    <3> QED BY <2>3, <3>1 DEF Passes
  <2> QED BY <2>1, <2>2, <2>3
<1>3. CASE w = Streams BY <1>0, <1>2, <1>3 DEF Quota
<1>4. CASE w # Streams BY <1>0, <1>2, <1>4 DEF Quota
<1> QED BY <1>3, <1>4

\* The table holds finitely many lines.
LEMMA KeptFinite == ASSUME NEW S, NEW q \in Seq(S), NEW w PROVE IsFiniteSet(Kept(q, w)) /\ Cardinality(Kept(q, w)) \in Nat
<1>1. Len(q) \in Nat BY LenProperties
<1>2. IsFiniteSet(1..Len(q)) BY <1>1, FS_Interval
<1>3. Kept(q, w) \in SUBSET (1..Len(q)) BY DEF Kept
<1> QED BY <1>2, <1>3, FS_Subset, FS_CardinalityType

\* A line that is stored is one more.
LEMMA KeptAppend ==
    ASSUME NEW S, NEW q \in Seq(S), NEW l \in S, NEW w
    PROVE  Cardinality(Kept(Append(q, l), w)) = Cardinality(Kept(q, w)) + (IF l \in w THEN 1 ELSE 0)
<1>1. /\ Len(q) \in Nat /\ Len(Append(q, l)) = Len(q) + 1 /\ Append(q, l)[Len(q) + 1] = l
      /\ \A k \in 1..Len(q) : Append(q, l)[k] = q[k]
  BY LenProperties, AppendProperties
<1>2. Kept(Append(q, l), w) = IF l \in w THEN Kept(q, w) \cup {Len(q) + 1} ELSE Kept(q, w)
  <2>1. ASSUME NEW k PROVE k \in Kept(Append(q, l), w) <=> k \in Kept(q, w) \/ (l \in w /\ k = Len(q) + 1)
    <3>1. k \in 1..(Len(q) + 1) <=> k \in 1..Len(q) \/ k = Len(q) + 1 BY <1>1
    <3>2. k \in 1..Len(q) => k # Len(q) + 1 BY <1>1
    <3> QED BY <1>1, <3>1, <3>2 DEF Kept
  <2> QED BY <2>1
<1>3. Len(q) + 1 \notin Kept(q, w) BY <1>1 DEF Kept
<1>4. IsFiniteSet(Kept(q, w)) /\ Cardinality(Kept(q, w)) \in Nat BY KeptFinite
<1>5. CASE l \in w BY <1>2, <1>3, <1>4, <1>5, FS_AddElement
<1>6. CASE l \notin w BY <1>2, <1>4, <1>6
<1> QED BY <1>5, <1>6

\* Finitely many handlers hold a line.
LEMMA HeldFinite == ASSUME NEW h, NEW L PROVE IsFiniteSet(Held(h, L)) /\ Cardinality(Held(h, L)) \in Nat
<1>1. IsFiniteSet(Conns) BY RemoteCallsAssumption, FS_Interval DEF Conns
<1>2. Held(h, L) \in SUBSET Conns BY DEF Held
<1> QED BY <1>1, <1>2, FS_Subset, FS_CardinalityType

\* A handler that takes up a line, and one that has stored it.
LEMMA HeldNext ==
    ASSUME NEW h, NEW g, NEW d \in Conns, NEW m, NEW L, h[d].pc # "output", g[d].pc = "output", g[d].m = m,
           \A e \in Conns \ {d} : g[e] = h[e]
    PROVE  Cardinality(Held(g, L)) = Cardinality(Held(h, L)) + (IF m \in L THEN 1 ELSE 0)
<1>1. Held(g, L) = IF m \in L THEN Held(h, L) \cup {d} ELSE Held(h, L) BY DEF Held
<1>2. d \notin Held(h, L) BY DEF Held
<1>3. IsFiniteSet(Held(h, L)) /\ Cardinality(Held(h, L)) \in Nat BY HeldFinite
<1>4. CASE m \in L BY <1>1, <1>2, <1>3, <1>4, FS_AddElement
<1>5. CASE m \notin L BY <1>1, <1>3, <1>5
<1> QED BY <1>4, <1>5

\* Finitely many scanners hold a line.
LEMMA DueFinite == ASSUME NEW at, NEW w PROVE IsFiniteSet(Due(at, w)) /\ Cardinality(Due(at, w)) \in Nat
<1>1. Due(at, w) \in SUBSET Streams BY DEF Due
<1>2. IsFiniteSet(Streams)
  <2>1. IsFiniteSet({"stdout"}) BY FS_Singleton
  <2>2. {"stdout"} \cup {"stderr"} = Streams BY DEF Streams
  <2> QED BY <2>1, <2>2, FS_AddElement
<1> QED BY <1>1, <1>2, FS_Subset, FS_CardinalityType

\* A scanner that has read line n of its command.
LEMMA DueNext ==
    ASSUME NEW at, NEW new, NEW s \in Streams, NEW n, NEW w, at[s] = 0, new[s] = n, n # 0,
           \A t \in Streams \ {s} : new[t] = at[t]
    PROVE  Cardinality(Due(new, w)) = Cardinality(Due(at, w)) + (IF Passes(n, s, w) THEN 1 ELSE 0)
<1>1. Due(new, w) = IF Passes(n, s, w) THEN Due(at, w) \cup {s} ELSE Due(at, w) BY DEF Due, Passes
<1>2. s \notin Due(at, w) BY DEF Due
<1>3. IsFiniteSet(Due(at, w)) /\ Cardinality(Due(at, w)) \in Nat BY DueFinite
<1>4. CASE Passes(n, s, w) BY <1>1, <1>2, <1>3, <1>4, FS_AddElement
<1>5. CASE ~Passes(n, s, w) BY <1>1, <1>3, <1>5
<1> QED BY <1>4, <1>5

-----------------------------------------------------------------------------
\* The report of a success is on the newest connection.
Succeeds(c) == \E k \in 1..Len(up[made]) :
    up[made][k].type = "done" /\ up[made][k].id = c /\ up[made][k].status = "success"

\* The command came by the newest connection and is not being deleted.
Live(c) == cmd[c].pc # "none" /\ cmd[c].via = made /\ row[c] # "deleted" /\ ~(gui.pc = "row" /\ gui.c = c)

\* Nothing of its output can have been lost.
Sure(c) == Live(c) /\ (link = made \/ Succeeds(c) \/ row[c] = "success")

\* Its success is reported.
Calm(c) == Live(c) /\ row[c] = "success"

\* No more lines than the limit allows are anywhere, no fewer where none can
\* have been lost, and all of them are stored when a success is reported.
Good(c) ==
    /\ \A w \in What : IsFiniteSet(Flight(up, Line(c, w))) /\ Count(c, w) <= Quota(cmd[c].n, w)
    /\ Sure(c) => \A w \in What : Count(c, w) = Quota(cmd[c].n, w)
    /\ Calm(c) => \A w \in What : Flight(up, Line(c, w)) = {} /\ Held(handler, Line(c, w)) = {}

Counted == \A c \in Cmds : Good(c)

\* The four places of a line can be added up.
LEMMA CountNat ==
    ASSUME Shaped, NEW c \in Cmds, NEW w, IsFiniteSet(Flight(up, Line(c, w)))
    PROVE  /\ Cardinality(Kept(stored[c], w)) \in Nat /\ Cardinality(Flight(up, Line(c, w))) \in Nat
           /\ Cardinality(Held(handler, Line(c, w))) \in Nat /\ Cardinality(Due(cmd[c].at, w)) \in Nat
           /\ Count(c, w) \in Nat
<1>1. stored[c] \in Seq(Streams \cup {"truncated"}) BY DEF Shaped
<1>2. Cardinality(Kept(stored[c], w)) \in Nat BY <1>1, KeptFinite
<1>3. Cardinality(Flight(up, Line(c, w))) \in Nat BY FS_CardinalityType
<1>4. Cardinality(Held(handler, Line(c, w))) \in Nat BY HeldFinite
<1>5. Cardinality(Due(cmd[c].at, w)) \in Nat BY DueFinite
<1> QED BY <1>2, <1>3, <1>4, <1>5 DEF Count

\* The messages that are no lines of c do not count.
LEMMA LineOf ==
    ASSUME NEW m \in Reports, NEW c \in Cmds, NEW w \in What
    PROVE  m \in Line(c, w) <=> m.type = "output" /\ m.id = c /\ m.line \in w
<1>1. CASE m \in Outputs BY <1>1 DEF Outputs, Line
<1>2. CASE m \notin Outputs
  <2>1. m.type # "output" BY <1>2, ReportFields
  <2>2. m \notin Line(c, w) BY <2>1 DEF Line
  <2> QED BY <2>1, <2>2
<1> QED BY <1>1, <1>2

\* A step that moves no line of c.
LEMMA GoodSame ==
    ASSUME NEW c \in Cmds, Good(c), cmd'[c].n = cmd[c].n, stored'[c] = stored[c], cmd'[c].at = cmd[c].at,
           \A w \in What : /\ IsFiniteSet(Flight(up', Line(c, w)))
                           /\ Cardinality(Flight(up', Line(c, w))) = Cardinality(Flight(up, Line(c, w)))
                           /\ Cardinality(Held(handler', Line(c, w))) = Cardinality(Held(handler, Line(c, w))),
           Sure(c)' => Sure(c),
           Calm(c)' => \A w \in What : Flight(up', Line(c, w)) = {} /\ Held(handler', Line(c, w)) = {}
    PROVE  Good(c)'
<1>1. \A w \in What : Count(c, w)' = Count(c, w) BY DEF Count
<1>2. \A w \in What : IsFiniteSet(Flight(up', Line(c, w))) /\ Count(c, w)' <= Quota(cmd'[c].n, w) BY <1>1 DEF Good
<1>3. Sure(c)' => \A w \in What : Count(c, w)' = Quota(cmd'[c].n, w) BY <1>1 DEF Good
<1> QED BY <1>2, <1>3 DEF Good

\* A step of the agent or the GUI that leaves the lines and the handlers alone.
LEMMA GoodFrame ==
    ASSUME NEW c \in Cmds, Good(c), cmd'[c].n = cmd[c].n, stored'[c] = stored[c], cmd'[c].at = cmd[c].at,
           up' = up, handler' = handler, Sure(c)' => Sure(c), Calm(c)' => Calm(c)
    PROVE  Good(c)'
BY GoodSame DEF Good

\* A message of the agent that is no line of c.
LEMMA GoodTell ==
    ASSUME CallsInv, NEW c \in Cmds, Good(c), cmd'[c].n = cmd[c].n, stored'[c] = stored[c], cmd'[c].at = cmd[c].at,
           NEW m \in Reports, \A w \in What : m \notin Line(c, w), Tell(m), handler' = handler,
           Sure(c)' => Sure(c), Calm(c)' => Calm(c)
    PROVE  Good(c)'
<1>1. CASE up' = up BY <1>1, GoodFrame
<1>2. CASE link # 0 /\ up' = [up EXCEPT ![link] = Append(up[link], m)]
  <2>1. link \in Conns /\ up \in [Conns -> Seq(Reports)] BY <1>2, RemoteCallsAssumption DEF CallsInv, Typed, Conns
  <2>a. Added(up, link, m, up') BY <1>2 DEF Added
  <2>2. ASSUME NEW w \in What
        PROVE  /\ IsFiniteSet(Flight(up', Line(c, w)))
               /\ Cardinality(Flight(up', Line(c, w))) = Cardinality(Flight(up, Line(c, w)))
               /\ Flight(up, Line(c, w)) = {} => Flight(up', Line(c, w)) = {}
    <3>1. m \notin Line(c, w) OBVIOUS
    <3>2. IsFiniteSet(Flight(up, Line(c, w))) BY DEF Good
    <3>3. /\ IsFiniteSet(Flight(up', Line(c, w)))
          /\ Cardinality(Flight(up', Line(c, w))) = Cardinality(Flight(up, Line(c, w))) + 0
      BY <2>1, <2>a, <3>1, <3>2, FlightAppend
    <3>4. Cardinality(Flight(up, Line(c, w))) \in Nat BY <3>2, FS_CardinalityType
    <3> QED BY <3>2, <3>3, <3>4, FS_EmptySet
  <2>3. Calm(c)' => \A w \in What : Flight(up', Line(c, w)) = {} /\ Held(handler', Line(c, w)) = {}
    BY <2>2 DEF Good
  <2> QED BY <2>2, <2>3, GoodSame
<1> QED BY <1>1, <1>2 DEF Tell

\* Where the rows and the GUI are the same, so are the commands that are live.
LEMMA LiveSame ==
    ASSUME NEW c \in Cmds, gui' = gui, row' = row, made' = made, cmd'[c].via = cmd[c].via,
           cmd'[c].pc = "none" <=> cmd[c].pc = "none"
    PROVE  Live(c)' <=> Live(c)
BY DEF Live

\* A live command came by a connection that there is.
LEMMA LiveConn ==
    ASSUME CallsInv, Processes, NEW c \in Cmds, Live(c)
    PROVE  made \in Conns /\ made # 0 /\ made \in Nat
BY RemoteCallsAssumption DEF CallsInv, Typed, Processes, Live, Conns

\* A loss of certainty takes a connection, a report or a row.
LEMMA SureSame ==
    ASSUME NEW c \in Cmds, made' = made, link' = link, up' = up \/ link = made,
           Live(c)' => Live(c), row'[c] = "success" => row[c] = "success"
    PROVE  (Sure(c)' => Sure(c)) /\ (Calm(c)' => Calm(c))
<1>1. Calm(c)' => Calm(c) BY DEF Calm
<1>2. ASSUME Sure(c)' PROVE Sure(c)
  <2>1. CASE link = made BY <1>2, <2>1 DEF Sure
  <2>2. CASE up' = up
    <3>1. Succeeds(c)' => Succeeds(c) BY <2>2 DEF Succeeds
    <3> QED BY <1>2, <3>1 DEF Sure
  <2> QED BY <2>1, <2>2
<1> QED BY <1>1, <1>2

\* handleCommandRun, handleCommandCancel, handleCommandDelete, the requests.
LEMMA CountedGui ==
    ASSUME CallsInv, Shaped, Processes, Counted, NEW e \in Cmds,
           \/ GuiStart \/ Send \/ DeleteRow \/ UNCHANGED vars
           \/ \E r \in Reqs : SendRequest(r) \/ Answered(r) \/ TimedOut(r)
    PROVE  Good(e)'
<1>0. /\ Good(e) /\ row \in [Cmds -> {"none", "running", "deleted"} \cup Ended] /\ Idle.pc = "idle"
      /\ gui.pc # "idle" => gui.c \in Cmds
  BY DEF Counted, CallsInv, Typed, Idle, Shaped
<1>1. UNCHANGED <<up, handler, cmd, link, made>>
  BY DEF GuiStart, Send, DeleteRow, Create, Cancel, DeleteOutput, BeginRequest, SendRequest, Answered, TimedOut, vars, netVars
<1>2. CASE (Live(e)' => Live(e)) /\ (row'[e] = "success" => row[e] = "success") /\ stored'[e] = stored[e]
  <2>1. (Sure(e)' => Sure(e)) /\ (Calm(e)' => Calm(e)) BY <1>1, <1>2, SureSame
  <2> QED BY <1>0, <1>1, <1>2, <2>1, GoodFrame
<1>3. CASE row' = row /\ gui' = gui /\ stored' = stored BY <1>1, <1>2, <1>3, LiveSame
<1>4. ASSUME NEW c \in Cmds, Create(c) PROVE Good(e)'
  <2>1. gui = Idle /\ row[c] = "none" /\ row' = [row EXCEPT ![c] = "running"] /\ stored' = stored BY <1>4 DEF Create
  <2> QED BY <1>0, <1>1, <1>2, <2>1 DEF Live
<1>5. CASE Send
  <2>1. gui.pc = "send" /\ stored' = stored /\ (row' = row \/ Update(gui.c, "error")) BY <1>5 DEF Send
  <2>2. (row'[e] = "success" => row[e] = "success") /\ (row'[e] # "deleted" => row[e] # "deleted")
    BY <1>0, <2>1 DEF Update, Ended
  <2> QED BY <1>1, <1>2, <2>1, <2>2 DEF Live
<1>6. CASE DeleteRow
  <2>1. gui.pc = "row" /\ stored' = stored /\ row' = [row EXCEPT ![gui.c] = "deleted"] /\ gui.c \in Cmds BY <1>0, <1>6 DEF DeleteRow
  <2>2. (row'[e] = "success" => row[e] = "success") /\ (row'[e] # "deleted" => row[e] # "deleted" /\ gui.c # e)
    BY <1>0, <2>1
  <2> QED BY <1>1, <1>2, <2>1, <2>2 DEF Live
<1>7. ASSUME NEW c \in Cmds, DeleteOutput(c) PROVE Good(e)'
  <2>1. gui = Idle /\ row' = row /\ stored' = [stored EXCEPT ![c] = <<>>] /\ gui' = [pc |-> "row", c |-> c]
    BY <1>7 DEF DeleteOutput
  <2>2. gui'.pc = "row" /\ gui'.c = c /\ gui.pc = "idle" BY <1>0, <2>1
  <2>3. CASE e # c
    <3>1. stored'[e] = stored[e] BY <2>1, <2>3 DEF Shaped
    <3> QED BY <1>1, <1>2, <2>1, <2>2, <3>1 DEF Live
  <2>4. CASE e = c
    <3>1. ~Live(e)' BY <2>2, <2>4 DEF Live
    <3>2. stored'[e] = <<>> BY <2>1, <2>4 DEF Shaped
    <3>3. ASSUME NEW w \in What PROVE IsFiniteSet(Flight(up', Line(e, w))) /\ Count(e, w)' <= Quota(cmd'[e].n, w)
      <4>1. IsFiniteSet(Flight(up, Line(e, w))) /\ Count(e, w) <= Quota(cmd[e].n, w) BY <1>0 DEF Good
      <4>2. Kept(<<>>, w) = {} BY DEF Kept
      <4>3. Cardinality(Kept(stored'[e], w)) = 0 BY <3>2, <4>2, FS_EmptySet
      <4>4. cmd[e].n \in Nat BY DEF Shaped, Procs
      <4>5. \E s \in Streams : TRUE BY DEF Streams
      <4>6. Quota(cmd[e].n, w) \in Nat BY <4>4, <4>5, QuotaNext
      <4>7. Count(e, w)' = Count(e, w) - Cardinality(Kept(stored[e], w))
        BY <1>1, <4>1, <4>3, CountNat DEF Count
      <4>8. Cardinality(Kept(stored[e], w)) \in Nat /\ Count(e, w) \in Nat BY <4>1, CountNat
      <4> QED BY <1>1, <4>1, <4>6, <4>7, <4>8
    <3> QED BY <3>1, <3>3 DEF Good, Sure, Calm
  <2> QED BY <2>3, <2>4
<1> QED BY <1>3, <1>4, <1>5, <1>6, <1>7 DEF GuiStart, Cancel, BeginRequest, SendRequest, Answered, TimedOut, vars

\* The agent loses its connection and makes another one.
LEMMA CountedLink ==
    ASSUME CallsInv, Shaped, Processes, Order, Counted, NEW e \in Cmds, Connect \/ Break
    PROVE  Good(e)'
<1>0. Good(e) /\ made \in Nat /\ link \in {0, made} BY DEF Counted, CallsInv, Typed
<1>1. CASE Break
  <2>1. UNCHANGED <<row, stored, gui, handler, up, made, cmd>> /\ link' = 0 BY <1>1 DEF Break
  <2>2. Live(e)' <=> Live(e) BY <2>1, LiveSame
  <2>3. Calm(e)' => Calm(e) BY <2>1, <2>2 DEF Calm
  <2>4. Succeeds(e)' <=> Succeeds(e) BY <2>1 DEF Succeeds
  <2>5. Sure(e)' => Sure(e) BY <2>1, <2>2, <2>4, LiveConn DEF Sure
  <2> QED BY <1>0, <2>1, <2>3, <2>5, GoodFrame
<1>2. CASE Connect
  <2>1. UNCHANGED <<row, stored, gui, up, cmd>> /\ made' = made + 1 /\ made' \in Conns /\ handler' = [handler EXCEPT ![made'] = Open]
    BY <1>0, <1>2, RemoteCallsAssumption DEF Connect, Conns
  <2>2. ~Live(e)' BY <1>0, <2>1 DEF Live, Processes
  <2>3. handler[made'].pc # "output" /\ handler'[made'].pc # "output" BY <1>0, <2>1 DEF Order, Shaped, Open
  <2>4. \A w \in What : Held(handler', Line(e, w)) = Held(handler, Line(e, w)) BY <2>1, <2>3 DEF Held, Shaped
  <2> QED BY <1>0, <2>1, <2>2, <2>4, GoodSame DEF Good, Sure, Calm
<1> QED BY <1>1, <1>2

\* What is on its way of a live command is on the connection it came by.
LEMMA LiveFlight ==
    ASSUME CallsInv, Processes, Shaped, Order, NEW e \in Cmds, Live(e)
    PROVE  /\ \A d \in Conns : \A k \in 1..Len(up[d]) :
                 up[d][k].type \in {"output", "done"} /\ up[d][k].id = e => d = made
           /\ \A d \in Conns : handler[d].pc = "output" /\ handler[d].m.id = e => d = made
<1>0. made \in Nat /\ cmd[e].via = made BY LiveConn DEF Live
<1>1. ASSUME NEW d \in Conns, d <= made, made \in 1..d PROVE d = made BY <1>0, <1>1 DEF Conns
<1> QED BY <1>0, <1>1 DEF Order, Ordered

\* A line on its way is a message of its connection.
LEMMA FlightIs ==
    ASSUME CallsInv, NEW e \in Cmds, NEW w \in What, NEW a \in Flight(up, Line(e, w))
    PROVE  /\ a[1] \in Conns /\ a[2] \in 1..Len(up[a[1]])
           /\ up[a[1]][a[2]].type = "output" /\ up[a[1]][a[2]].id = e
<1>1. a[1] \in Conns /\ a[2] \in 1..Len(up[a[1]]) /\ up[a[1]][a[2]] \in Line(e, w) BY DEF Flight
<1> QED BY <1>1 DEF Line

\* AppendCommandOutput moves a line into the table.
LEMMA CountedAppend ==
    ASSUME CallsInv, Shaped, Counted, NEW e \in Cmds, NEW c \in Conns, AppendOutput(c)
    PROVE  Good(e)'
<1> DEFINE m == handler[c].m
<1>0. Good(e) BY DEF Counted
<1>1. /\ handler[c].pc = "output" /\ stored' = [stored EXCEPT ![m.id] = Append(stored[m.id], m.line)]
      /\ handler' = [handler EXCEPT ![c] = Open] /\ UNCHANGED <<row, gui, up, link, made, cmd>>
  BY DEF AppendOutput
<1>2. m \in Outputs /\ m \in Reports BY <1>1 DEF Shaped, Reports
<1>3. m.type = "output" /\ m.id \in Cmds /\ m.line \in Streams \cup {"truncated"} BY <1>2 DEF Outputs
<1>4. handler'[c].pc # "output" /\ \A d \in Conns \ {c} : handler[d] = handler'[d] BY <1>1 DEF Shaped, Open
<1>5. (Sure(e)' => Sure(e)) /\ (Calm(e)' => Calm(e)) BY <1>1, LiveSame, SureSame
<1> DEFINE one(w) == IF m \in Line(e, w) THEN 1 ELSE 0
<1>6. ASSUME NEW w \in What PROVE Cardinality(Held(handler, Line(e, w))) = Cardinality(Held(handler', Line(e, w))) + one(w)
  <2> DEFINE g == handler
             h == handler'
             L == Line(e, w)
  <2>1. h[c].pc # "output" /\ g[c].pc = "output" /\ g[c].m = m /\ \A d \in Conns \ {c} : g[d] = h[d] BY <1>1, <1>4
  <2> HIDE DEF g, h, L, m
  <2>2. Cardinality(Held(g, L)) = Cardinality(Held(h, L)) + (IF m \in L THEN 1 ELSE 0) BY <2>1, HeldNext
  <2> QED BY <2>2 DEF g, h, L
<1>7. ASSUME NEW w \in What PROVE Cardinality(Kept(stored'[e], w)) = Cardinality(Kept(stored[e], w)) + one(w)
  <2>1. m \in Line(e, w) <=> m.id = e /\ m.line \in w BY <1>2, <1>3, LineOf
  <2>2. stored[e] \in Seq(Streams \cup {"truncated"}) BY DEF Shaped
  <2>3. Cardinality(Kept(stored[e], w)) \in Nat BY <2>2, KeptFinite
  <2>4. CASE m.id = e
    <3>1. stored'[e] = Append(stored[e], m.line) BY <1>1, <2>4 DEF Shaped
    <3> HIDE DEF m
    <3>2. Cardinality(Kept(Append(stored[e], m.line), w)) = Cardinality(Kept(stored[e], w)) + (IF m.line \in w THEN 1 ELSE 0)
      BY <1>3, <2>2, KeptAppend
    <3> QED BY <2>1, <2>4, <3>1, <3>2
  <2>5. CASE m.id # e
    <3>1. stored'[e] = stored[e] BY <1>1, <2>5 DEF Shaped
    <3> QED BY <2>1, <2>3, <2>5, <3>1
  <2> QED BY <2>4, <2>5
<1>8. \A w \in What : one(w) \in {0, 1} OBVIOUS
<1> HIDE DEF m, one
<1>9. ASSUME NEW w \in What PROVE IsFiniteSet(Flight(up', Line(e, w))) /\ Count(e, w)' = Count(e, w)
  <2>1. IsFiniteSet(Flight(up, Line(e, w))) BY <1>0 DEF Good
  <2>2. /\ Cardinality(Kept(stored[e], w)) \in Nat /\ Cardinality(Flight(up, Line(e, w))) \in Nat
        /\ Cardinality(Due(cmd[e].at, w)) \in Nat /\ Cardinality(Held(handler', Line(e, w))) \in Nat
    BY <2>1, CountNat, HeldFinite
  <2> DEFINE x == Cardinality(Kept(stored[e], w))
             y == Cardinality(Flight(up, Line(e, w)))
             z == Cardinality(Held(handler', Line(e, w)))
             t == Cardinality(Due(cmd[e].at, w))
             o == one(w)
  <2>3. Count(e, w) = x + y + (z + o) + t /\ Count(e, w)' = (x + o) + y + z + t BY <1>1, <1>6, <1>7 DEF Count
  <2>4. x \in Nat /\ y \in Nat /\ z \in Nat /\ t \in Nat /\ o \in {0, 1} BY <1>8, <2>2
  <2> HIDE DEF x, y, z, t, o
  <2> QED BY <1>1, <2>1, <2>3, <2>4
<1>10. \A w \in What : Held(handler', Line(e, w)) \subseteq Held(handler, Line(e, w)) BY <1>4 DEF Held
<1>11. Calm(e)' => \A w \in What : Flight(up', Line(e, w)) = {} /\ Held(handler', Line(e, w)) = {}
  BY <1>0, <1>1, <1>5, <1>10 DEF Good
<1>12. \A w \in What : Count(e, w)' <= Quota(cmd'[e].n, w) BY <1>0, <1>1, <1>9 DEF Good
<1>13. Sure(e)' => \A w \in What : Count(e, w)' = Quota(cmd'[e].n, w) BY <1>0, <1>1, <1>5, <1>9 DEF Good
<1> QED BY <1>9, <1>11, <1>12, <1>13 DEF Good

\* A handler leaves and fails what runs: only lines of an old connection, or
\* of one that has gone, are lost.
LEMMA CountedLeave ==
    ASSUME CallsInv, Shaped, Processes, Order, Counted, NEW e \in Cmds, NEW c \in Conns, Leave(c) \/ Fail(c)
    PROVE  Good(e)'
<1>0. Good(e) /\ handler \in [Conns -> Handlers] BY DEF Counted, Shaped
<1>1. UNCHANGED <<stored, gui, link, made, cmd>> BY DEF Leave, Fail
<1>2. \E p \in {"fail", "gone"} : handler' = [handler EXCEPT ![c] = [handler[c] EXCEPT !.pc = p]]
  BY <1>0 DEF Leave, Fail
<1>3. handler[c].pc # "output" /\ handler'[c].pc # "output" /\ \A d \in Conns \ {c} : handler'[d] = handler[d]
  <2>1. handler[c].pc # "output" BY DEF Leave, Fail, Open
  <2>2. \A p \in {"fail", "gone"} : [handler[c] EXCEPT !.pc = p].pc = p BY <1>0 DEF Handlers
  <2> QED BY <1>0, <1>2, <2>1, <2>2
<1>4. \A w \in What : Held(handler', Line(e, w)) = Held(handler, Line(e, w)) BY <1>3 DEF Held
<1>5. CASE Fail(c)
  <2>1. up' = up /\ row' = Failed BY <1>5 DEF Fail
  <2>2. (row'[e] = "success" => row[e] = "success") /\ (row'[e] # "deleted" => row[e] # "deleted") BY <2>1 DEF Failed
  <2>3. Live(e)' => Live(e) BY <1>1, <2>2 DEF Live
  <2>4. (Sure(e)' => Sure(e)) /\ (Calm(e)' => Calm(e)) BY <1>1, <2>1, <2>2, <2>3, SureSame
  <2> QED BY <1>0, <1>1, <1>4, <2>1, <2>4, GoodSame DEF Good
<1>6. CASE Leave(c)
  <2>1. row' = row /\ up' = [up EXCEPT ![c] = <<>>] /\ link # c BY <1>6 DEF Leave
  <2>2. up'[c] = <<>> /\ \A d \in Conns \ {c} : up'[d] = up[d] BY <2>1 DEF CallsInv, Typed
  <2>3. ASSUME NEW w \in What
        PROVE  Flight(up', Line(e, w)) = {a \in Flight(up, Line(e, w)) : a[1] # c}
    <3>1. ASSUME NEW a \in Conns \X Nat PROVE a \in Flight(up', Line(e, w)) <=> a \in Flight(up, Line(e, w)) /\ a[1] # c
      <4>1. CASE a[1] = c
        <5>1. Len(up'[a[1]]) = 0 BY <2>2, <4>1
        <5> QED BY <4>1, <5>1 DEF Flight
      <4>2. CASE a[1] # c BY <2>2, <3>1, <4>2 DEF Flight
      <4> QED BY <4>1, <4>2
    <3> QED BY <3>1 DEF Flight
  <2>4. ASSUME NEW w \in What
        PROVE  /\ IsFiniteSet(Flight(up', Line(e, w))) /\ Flight(up', Line(e, w)) \subseteq Flight(up, Line(e, w))
               /\ Count(e, w)' <= Quota(cmd'[e].n, w)
    <3>1. IsFiniteSet(Flight(up, Line(e, w))) /\ Count(e, w) <= Quota(cmd[e].n, w) BY <1>0 DEF Good
    <3>2. Flight(up', Line(e, w)) \in SUBSET Flight(up, Line(e, w)) BY <2>3
    <3>3. /\ IsFiniteSet(Flight(up', Line(e, w)))
          /\ Cardinality(Flight(up', Line(e, w))) <= Cardinality(Flight(up, Line(e, w)))
      BY <3>1, <3>2, FS_Subset
    <3>4. Cardinality(Flight(up', Line(e, w))) \in Nat BY <3>3, FS_CardinalityType
    <3>5. Count(e, w)' <= Count(e, w) /\ Count(e, w)' \in Nat BY <1>1, <1>4, <3>1, <3>3, <3>4, CountNat DEF Count
    <3>6. cmd[e].n \in Nat /\ \E s \in Streams : TRUE BY DEF Shaped, Procs, Streams
    <3>7. Quota(cmd[e].n, w) \in Nat BY <3>6, QuotaNext
    <3>8. Count(e, w) \in Nat BY <3>1, CountNat
    <3> QED BY <1>1, <3>1, <3>2, <3>3, <3>5, <3>7, <3>8
  <2>5. (Live(e)' <=> Live(e)) /\ (Calm(e)' <=> Calm(e)) BY <1>1, <2>1, LiveSame DEF Calm
  <2>6. Calm(e)' => \A w \in What : Flight(up', Line(e, w)) = {} /\ Held(handler', Line(e, w)) = {}
    BY <1>0, <1>4, <2>4, <2>5 DEF Good
  <2>7. ASSUME Sure(e)', NEW w \in What PROVE Count(e, w)' = Quota(cmd'[e].n, w)
    <3>1. Live(e) /\ Live(e)' /\ made \in Conns BY <2>5, <2>7, LiveConn DEF Sure
    <3>2. CASE Calm(e)
      <4>1. Flight(up', Line(e, w)) = Flight(up, Line(e, w)) BY <1>0, <2>4, <3>2 DEF Good
      <4>2. Sure(e) BY <3>2 DEF Sure, Calm
      <4> QED BY <1>0, <1>1, <1>4, <4>1, <4>2 DEF Good, Count
    <3>3. CASE ~Calm(e)
      <4>1. c # made /\ Sure(e)
        <5>1. CASE link' = made' BY <1>1, <2>1, <3>1, <5>1 DEF Sure
        <5>2. CASE Succeeds(e)'
          <6>1. Len(up'[made]) # 0 BY <1>1, <5>2 DEF Succeeds
          <6>2. c # made BY <2>2, <6>1
          <6>3. Succeeds(e) BY <1>1, <2>2, <3>1, <5>2, <6>2 DEF Succeeds
          <6> QED BY <3>1, <6>2, <6>3 DEF Sure
        <5> QED BY <2>1, <2>7, <3>1, <3>3, <5>1, <5>2 DEF Sure, Calm
      <4>2. Flight(up', Line(e, w)) = Flight(up, Line(e, w))
        <5>1. \A a \in Flight(up, Line(e, w)) : a[1] = made BY <3>1, FlightIs, LiveFlight
        <5> QED BY <2>3, <4>1, <5>1
      <4> QED BY <1>0, <1>1, <1>4, <4>1, <4>2 DEF Good, Count
    <3> QED BY <3>2, <3>3
  <2> QED BY <2>4, <2>6, <2>7 DEF Good
<1> QED BY <1>5, <1>6

\* The handler reads a message: a line moves to the handler, or is dropped
\* when its row is gone, and the report of a success finds none on its way.
LEMMA CountedTake ==
    ASSUME CallsInv, Shaped, Processes, Order, Counted, NEW e \in Cmds, NEW c \in Conns, Take(c)
    PROVE  Good(e)'
<1> DEFINE m == Head(up[c])
           one(w) == IF m \in Line(e, w) THEN 1 ELSE 0
<1>0. /\ Good(e) /\ up \in [Conns -> Seq(Reports)] /\ handler \in [Conns -> Handlers]
      /\ row \in [Cmds -> {"none", "running", "deleted"} \cup Ended]
  BY DEF Counted, CallsInv, Typed, Shaped
<1>1. /\ handler[c] = Open /\ up[c] # <<>> /\ up' = [up EXCEPT ![c] = Tail(up[c])]
      /\ UNCHANGED <<stored, gui, link, made, cmd>>
      /\ IF m.type = "done" THEN Update(m.id, m.status) ELSE row' = row
      /\ handler' = IF m.type = "output" /\ row[m.id] # "deleted"
                    THEN [handler EXCEPT ![c] = [pc |-> "output", m |-> m]] ELSE handler
  BY DEF Take
<1>2. /\ up[c] \in Seq(Reports) /\ Len(up[c]) \in Nat \ {0} /\ m \in Reports /\ m = up[c][1] /\ 1 \in 1..Len(up[c])
      /\ Len(Tail(up[c])) = Len(up[c]) - 1 /\ \A k \in 1..Len(Tail(up[c])) : Tail(up[c])[k] = up[c][k + 1]
  BY <1>0, <1>1
<1>3. Taken(up, c, up') BY <1>1 DEF Taken
<1>4. handler[c].pc # "output" BY <1>1 DEF Open
<1>5. \A w \in What : one(w) \in {0, 1} OBVIOUS
<1>6. \A w \in What : m \in Line(e, w) <=> m.type = "output" /\ m.id = e /\ m.line \in w BY <1>2, LineOf
<1>7. ASSUME NEW w \in What
      PROVE  /\ IsFiniteSet(Flight(up, Line(e, w))) /\ IsFiniteSet(Flight(up', Line(e, w)))
             /\ Cardinality(Flight(up', Line(e, w))) = Cardinality(Flight(up, Line(e, w))) - one(w)
             /\ Flight(up, Line(e, w)) = {} => one(w) = 0 /\ Flight(up', Line(e, w)) = {}
  <2>1. IsFiniteSet(Flight(up, Line(e, w))) BY <1>0 DEF Good
  <2>2. /\ IsFiniteSet(Flight(up', Line(e, w)))
        /\ Cardinality(Flight(up', Line(e, w))) = Cardinality(Flight(up, Line(e, w))) - one(w)
    BY <1>0, <1>3, <2>1, FlightTail
  <2>3. ASSUME Flight(up, Line(e, w)) = {} PROVE m \notin Line(e, w)
    <3>1. <<c, 1>> \notin Flight(up, Line(e, w)) BY <2>3
    <3>2. <<c, 1>>[1] = c /\ <<c, 1>>[2] = 1 /\ <<c, 1>> \in Conns \X Nat OBVIOUS
    <3> QED BY <1>2, <3>1, <3>2 DEF Flight
  <2>4. Cardinality(Flight(up, Line(e, w))) \in Nat BY <2>1, FS_CardinalityType
  <2>5. ASSUME Flight(up, Line(e, w)) = {} PROVE Flight(up', Line(e, w)) = {}
    <3>1. one(w) = 0 BY <2>3, <2>5
    <3>2. Cardinality(Flight(up', Line(e, w))) = 0 BY <2>2, <2>4, <2>5, <3>1, FS_EmptySet
    <3> QED BY <2>2, <3>2, FS_EmptySet
  <2> QED BY <2>1, <2>2, <2>3, <2>5
<1>8. ASSUME made \in Conns, Succeeds(e)' PROVE Succeeds(e)
  <2>1. PICK k \in 1..Len(up'[made]) : up'[made][k].type = "done" /\ up'[made][k].id = e /\ up'[made][k].status = "success"
    BY <1>1, <1>8 DEF Succeeds
  <2>2. CASE made = c
    <3>1. up'[made] = Tail(up[c]) BY <1>0, <1>1, <2>2
    <3>2. up'[made][k] = up[made][k + 1] /\ k + 1 \in 1..Len(up[made]) BY <1>2, <2>2, <3>1
    <3> QED BY <2>1, <3>2 DEF Succeeds
  <2>3. CASE made # c
    <3>1. up'[made] = up[made] BY <1>0, <1>1, <1>8, <2>3
    <3> QED BY <2>1, <3>1 DEF Succeeds
  <2> QED BY <2>2, <2>3
<1>9. Live(e)' => Live(e)
  <2>1. row[e] = "deleted" => row'[e] = "deleted" BY <1>0, <1>1 DEF Update, Ended
  <2> QED BY <1>1, <2>1 DEF Live
<1>10. ASSUME Live(e), row'[e] = "success", row[e] # "success"
       PROVE  /\ Succeeds(e) /\ \A w \in What : Flight(up, Line(e, w)) = {} /\ Held(handler, Line(e, w)) = {}
  <2>1. m.type = "done" /\ m.id = e /\ m.status = "success" BY <1>0, <1>1, <1>10 DEF Update
  <2>2. c = made BY <1>2, <1>10, <2>1, LiveFlight
  <2>3. Succeeds(e) BY <1>2, <2>1, <2>2 DEF Succeeds
  <2>4. \A l \in 1..Len(up[c]) : up[c][l].type = "output" => up[c][l].id # e BY <1>2, <2>1 DEF Order, Ordered
  <2>5. ASSUME NEW w \in What PROVE Flight(up, Line(e, w)) = {}
    <3>1. ASSUME NEW a \in Flight(up, Line(e, w)) PROVE FALSE
      <4>1. a[1] \in Conns /\ a[2] \in 1..Len(up[a[1]]) /\ up[a[1]][a[2]].type = "output" /\ up[a[1]][a[2]].id = e
        BY FlightIs
      <4>2. a[1] = c BY <1>10, <2>2, <4>1, LiveFlight
      <4> QED BY <2>4, <4>1, <4>2
    <3> QED BY <3>1
  <2>6. ASSUME NEW w \in What PROVE Held(handler, Line(e, w)) = {}
    <3>1. ASSUME NEW d \in Held(handler, Line(e, w)) PROVE FALSE
      <4>1. d \in Conns /\ handler[d].pc = "output" /\ handler[d].m.id = e BY <3>1 DEF Held, Line
      <4>2. d = c BY <1>10, <2>2, <4>1, LiveFlight
      <4> QED BY <1>4, <4>1, <4>2
    <3> QED BY <3>1
  <2> QED BY <2>3, <2>5, <2>6
<1>11. Sure(e)' => Sure(e)
  <2> SUFFICES ASSUME Sure(e)' PROVE Sure(e) OBVIOUS
  <2>1. Live(e) /\ made \in Conns BY <1>9, LiveConn DEF Sure
  <2> QED BY <1>1, <1>8, <1>10, <2>1 DEF Sure
<1>12. Calm(e)' => \A w \in What : Flight(up, Line(e, w)) = {} /\ Held(handler, Line(e, w)) = {}
  BY <1>0, <1>9, <1>10 DEF Calm, Good
<1> DEFINE F == \A w \in What : Flight(up', Line(e, w)) = {} /\ Held(handler', Line(e, w)) = {}
<1>13. CASE m.type = "output" /\ row[m.id] # "deleted"
  <2>1. /\ handler' = [handler EXCEPT ![c] = [pc |-> "output", m |-> m]] BY <1>1, <1>13
  <2>2. /\ handler'[c].pc = "output" /\ handler'[c].m = m /\ \A d \in Conns \ {c} : handler'[d] = handler[d] BY <1>0, <2>1
  <2> HIDE DEF m
  <2>3. \A w \in What : Cardinality(Held(handler', Line(e, w))) = Cardinality(Held(handler, Line(e, w))) + one(w)
    BY <1>4, <2>2, HeldNext
  <2>4. ASSUME NEW w \in What PROVE Count(e, w)' = Count(e, w)
    <3> DEFINE x == Cardinality(Kept(stored[e], w))
               y == Cardinality(Flight(up, Line(e, w)))
               z == Cardinality(Held(handler, Line(e, w)))
               t == Cardinality(Due(cmd[e].at, w))
               o == one(w)
    <3>1. Count(e, w) = x + y + z + t /\ Count(e, w)' = x + (y - o) + (z + o) + t BY <1>1, <1>7, <2>3 DEF Count
    <3>2. x \in Nat /\ y \in Nat /\ z \in Nat /\ t \in Nat /\ o \in {0, 1} BY <1>5, <1>7, CountNat
    <3> HIDE DEF x, y, z, t, o
    <3> QED BY <3>1, <3>2
  <2>5. ASSUME Calm(e)' PROVE F
    <3>1. \A w \in What : Flight(up', Line(e, w)) = {} /\ m \notin Line(e, w) BY <1>7, <1>12, <2>5
    <3>2. \A w \in What : Held(handler', Line(e, w)) = {} BY <1>12, <2>2, <2>5, <3>1 DEF Held
    <3> QED BY <3>1, <3>2
  <2>6. \A w \in What : Count(e, w)' <= Quota(cmd'[e].n, w) BY <1>0, <1>1, <2>4 DEF Good
  <2>7. Sure(e)' => \A w \in What : Count(e, w)' = Quota(cmd'[e].n, w) BY <1>0, <1>1, <1>11, <2>4 DEF Good
  <2> QED BY <1>7, <2>5, <2>6, <2>7 DEF Good
<1>14. CASE ~(m.type = "output" /\ row[m.id] # "deleted")
  <2>1. handler' = handler BY <1>1, <1>14
  <2>2. ASSUME Calm(e)' PROVE F BY <1>7, <1>12, <2>1, <2>2
  <2>3. CASE \A w \in What : m \notin Line(e, w)
    <3>1. \A w \in What : one(w) = 0 BY <2>3
    <3> HIDE DEF m, one, F
    <3>2. ASSUME NEW w \in What
          PROVE  /\ IsFiniteSet(Flight(up', Line(e, w)))
                 /\ Cardinality(Flight(up', Line(e, w))) = Cardinality(Flight(up, Line(e, w)))
      BY <1>7, <3>1, FS_CardinalityType
    <3> QED BY <1>0, <1>1, <1>11, <2>1, <2>2, <3>2, GoodSame DEF F
  <2>4. CASE m.type = "output" /\ m.id = e
    <3>1. row[e] = "deleted" /\ row'[e] = "deleted" BY <1>1, <1>14, <2>4
    <3>2. ~Live(e)' BY <3>1 DEF Live
    <3> HIDE DEF m, one
    <3>3. ASSUME NEW w \in What PROVE Count(e, w)' <= Quota(cmd'[e].n, w)
      <4> DEFINE x == Cardinality(Kept(stored[e], w))
                 y == Cardinality(Flight(up, Line(e, w)))
                 z == Cardinality(Held(handler, Line(e, w)))
                 t == Cardinality(Due(cmd[e].at, w))
                 o == one(w)
                 q == Quota(cmd[e].n, w)
      <4>1. Count(e, w) = x + y + z + t /\ Count(e, w)' = x + (y - o) + z + t BY <1>1, <1>7, <2>1 DEF Count
      <4>2. x \in Nat /\ y \in Nat /\ z \in Nat /\ t \in Nat /\ o \in {0, 1} BY <1>5, <1>7, CountNat
      <4>3. cmd[e].n \in Nat /\ \E s \in Streams : TRUE BY DEF Shaped, Procs, Streams
      <4>4. q \in Nat BY <4>3, QuotaNext
      <4>5. Count(e, w) <= q /\ Quota(cmd'[e].n, w) = q BY <1>0, <1>1 DEF Good
      <4> HIDE DEF x, y, z, t, o, q
      <4> QED BY <4>1, <4>2, <4>4, <4>5
    <3> QED BY <1>7, <3>2, <3>3 DEF Good, Sure, Calm
  <2> QED BY <1>6, <2>3, <2>4
<1> QED BY <1>13, <1>14

\* handleMessage: a command begins with nothing counted.
LEMMA CountedReceive ==
    ASSUME CallsInv, Shaped, Started, Processes, Order, Counted, NEW e \in Cmds, Receive
    PROVE  Good(e)'
<1> DEFINE m == Head(down[link])
<1>0. Good(e) /\ cmd[e] \in Procs BY DEF Counted, Shaped
<1>1. /\ link \in Conns /\ link = made /\ down[link] # <<>> /\ m \in Orders
      /\ m.type = "ask" => cmd' = cmd
      /\ m.type = "run" => m.id \in Cmds /\ cmd' = [cmd EXCEPT ![m.id] = [cmd[m.id] EXCEPT !.pc = "new", !.via = link]]
      /\ m.type = "cancel" => m.id \in Cmds
            /\ cmd' = [cmd EXCEPT ![m.id] = [cmd[m.id] EXCEPT !.stop = cmd[m.id].pc \in {"run", "exit"}]]
  BY ProcReceive
<1>2. m.type \in {"ask", "run", "cancel"} BY <1>1 DEF Orders
<1>3. UNCHANGED <<row, stored, gui, handler, up, link, made>> BY DEF Receive
<1>4. CASE cmd'[e].pc = cmd[e].pc /\ cmd'[e].via = cmd[e].via /\ cmd'[e].n = cmd[e].n /\ cmd'[e].at = cmd[e].at
  <2>1. Live(e)' <=> Live(e) BY <1>3, <1>4, LiveSame
  <2>2. (Sure(e)' => Sure(e)) /\ (Calm(e)' => Calm(e)) BY <1>3, <2>1, SureSame
  <2> QED BY <1>0, <1>3, <1>4, <2>2, GoodFrame
<1>5. m.type = "run" => cmd[m.id].pc = "none"
  <2>1. down[link] \in Seq(Orders) BY <1>1 DEF CallsInv, Typed
  <2>2. 1 \in 1..Len(down[link]) /\ m = down[link][1] BY <1>1, <2>1
  <2> HIDE DEF m
  <2> QED BY <1>1, <2>2 DEF Started
<1> HIDE DEF m
<1>6. CASE m.type = "ask" \/ m.id # e
  <2>1. cmd'[e] = cmd[e] BY <1>1, <1>2, <1>6 DEF Shaped
  <2> QED BY <1>4, <2>1
<1>7. CASE m.type = "cancel" /\ m.id = e
  <2>1. cmd'[e] = [cmd[e] EXCEPT !.stop = cmd[e].pc \in {"run", "exit"}] BY <1>1, <1>7 DEF Shaped
  <2> QED BY <1>0, <1>4, <2>1 DEF Procs
<1>8. CASE m.type = "run" /\ m.id = e
  <2>1. cmd'[e] = [cmd[e] EXCEPT !.pc = "new", !.via = link] /\ cmd[e].pc = "none" BY <1>1, <1>5, <1>8 DEF Shaped
  <2>2. cmd'[e].n = cmd[e].n /\ cmd'[e].at = cmd[e].at BY <1>0, <2>1 DEF Procs
  <2>3. cmd[e].n = 0 BY <2>1 DEF Processes, Sound
  <2>4. row[e] # "success" BY <2>1 DEF Order, Over
  <2>5. ~Calm(e)' BY <1>3, <2>4 DEF Calm
  <2>6. ASSUME NEW w \in What
        PROVE  IsFiniteSet(Flight(up', Line(e, w))) /\ Count(e, w)' = Quota(cmd'[e].n, w) /\ Count(e, w)' <= Quota(cmd'[e].n, w)
    <3>1. IsFiniteSet(Flight(up, Line(e, w))) /\ Count(e, w) <= Quota(0, w) BY <1>0, <2>3 DEF Good
    <3>2. Quota(0, w) = 0 BY QuotaNext DEF Streams
    <3>3. Count(e, w) \in Nat BY <3>1, CountNat
    <3>4. Count(e, w)' = Count(e, w) BY <1>3, <2>2 DEF Count
    <3> QED BY <1>3, <2>2, <2>3, <3>1, <3>2, <3>3, <3>4
  <2> QED BY <2>5, <2>6 DEF Good
<1> QED BY <1>2, <1>6, <1>7, <1>8

\* A step of a command that scans and forwards nothing, for every command;
\* and any step of it, for the others.
LEMMA CountedQuiet ==
    ASSUME CallsInv, Shaped, Counted, NEW e \in Cmds, UNCHANGED <<row, stored, gui, handler, link, made>>,
           cmd'[e].pc = "none" <=> cmd[e].pc = "none",
           cmd'[e].via = cmd[e].via, cmd'[e].n = cmd[e].n, cmd'[e].at = cmd[e].at,
           \/ up' = up
           \/ \E m \in Reports : Tell(m) /\ ~(m.type = "output" /\ m.id = e)
    PROVE  Good(e)'
<1>0. Good(e) /\ link \in {0, made} BY DEF Counted, CallsInv, Typed
<1>1. up' = up \/ link = made BY <1>0 DEF Tell
<1>2. Live(e)' <=> Live(e) BY LiveSame
<1>3. (Sure(e)' => Sure(e)) /\ (Calm(e)' => Calm(e)) BY <1>1, <1>2, SureSame
<1>4. CASE up' = up BY <1>0, <1>3, <1>4, GoodFrame
<1>5. ASSUME NEW m \in Reports, Tell(m), ~(m.type = "output" /\ m.id = e) PROVE Good(e)'
  <2>1. \A w \in What : m \notin Line(e, w) BY <1>5, LineOf
  <2> QED BY <1>0, <1>3, <1>5, <2>1, GoodTell
<1> QED BY <1>4, <1>5

\* streamOutput: the line that the scanner has read is one more, of a command
\* that is not over.
LEMMA CountedScan ==
    ASSUME CallsInv, Shaped, Processes, Order, Counted, NEW c \in Cmds, NEW s \in Streams, Scan(c, s),
           cmd'[c] = [cmd[c] EXCEPT !.n = cmd[c].n + 1, !.at = [cmd[c].at EXCEPT ![s] = cmd[c].n + 1],
                                    !.pipe = [cmd[c].pipe EXCEPT ![s] = Tail(cmd[c].pipe[s])]]
    PROVE  Good(c)'
<1>0. Good(c) /\ cmd[c] \in Procs /\ cmd[c].n \in Nat /\ cmd[c].at \in [Streams -> Nat] BY DEF Counted, Shaped, Procs
<1>1. UNCHANGED <<row, stored, gui, handler, link, made, up>> /\ cmd[c].at[s] = 0 /\ cmd[c].pc \in {"run", "exit"}
  BY DEF Scan, CmdFrame
<1>2. /\ cmd'[c].n = cmd[c].n + 1 /\ cmd'[c].at = [cmd[c].at EXCEPT ![s] = cmd[c].n + 1]
      /\ cmd'[c].pc = cmd[c].pc /\ cmd'[c].via = cmd[c].via
  BY <1>0 DEF Procs
<1>3. (Live(c)' <=> Live(c)) /\ row[c] # "success" BY <1>1, <1>2, LiveSame DEF Order, Over
<1>4. (Sure(c)' => Sure(c)) /\ ~Calm(c)' BY <1>1, <1>3, SureSame DEF Calm
<1>5. ASSUME NEW w \in What
      PROVE  /\ IsFiniteSet(Flight(up', Line(c, w)))
             /\ Count(c, w)' <= Quota(cmd'[c].n, w)
             /\ Count(c, w) = Quota(cmd[c].n, w) => Count(c, w)' = Quota(cmd'[c].n, w)
  <2> DEFINE x == Cardinality(Kept(stored[c], w))
             y == Cardinality(Flight(up, Line(c, w)))
             z == Cardinality(Held(handler, Line(c, w)))
             t == Cardinality(Due(cmd[c].at, w))
             o == IF Passes(cmd[c].n + 1, s, w) THEN 1 ELSE 0
             q == Quota(cmd[c].n, w)
             a == cmd[c].at
             b == cmd'[c].at
             k == cmd[c].n + 1
  <2>1. IsFiniteSet(Flight(up, Line(c, w))) /\ Count(c, w) <= q BY <1>0 DEF Good
  <2>2. a[s] = 0 /\ b[s] = k /\ k # 0 /\ \A r \in Streams \ {s} : b[r] = a[r] BY <1>0, <1>1, <1>2
  <2>3. Cardinality(Due(b, w)) = t + o
    <3> HIDE DEF a, b, k
    <3>1. Cardinality(Due(b, w)) = Cardinality(Due(a, w)) + (IF Passes(k, s, w) THEN 1 ELSE 0) BY <2>2, DueNext
    <3> QED BY <3>1 DEF a, k
  <2>4. Count(c, w) = x + y + z + t /\ Count(c, w)' = x + y + z + (t + o) BY <1>1, <2>3 DEF Count
  <2>5. Quota(cmd'[c].n, w) = q + o /\ q \in Nat BY <1>0, <1>2, QuotaNext
  <2>6. x \in Nat /\ y \in Nat /\ z \in Nat /\ t \in Nat /\ o \in {0, 1} BY <2>1, CountNat
  <2> HIDE DEF x, y, z, t, o, q
  <2>7. Count(c, w)' <= Quota(cmd'[c].n, w) BY <2>1, <2>4, <2>5, <2>6
  <2>8. Count(c, w) = q => Count(c, w)' = Quota(cmd'[c].n, w) BY <2>4, <2>5, <2>6
  <2> QED BY <1>1, <2>1, <2>7, <2>8 DEF q
<1>6. Sure(c)' => \A w \in What : Count(c, w)' = Quota(cmd'[c].n, w) BY <1>0, <1>4, <1>5 DEF Good
<1> QED BY <1>4, <1>5, <1>6 DEF Good

\* streamOutput, a.send: the line goes onto the connection, or is lost where
\* there is none.
LEMMA CountedForward ==
    ASSUME CallsInv, Shaped, Processes, Order, Counted, NEW c \in Cmds, NEW s \in Streams, Forward(c, s)
    PROVE  Good(c)'
<1> DEFINE n == cmd[c].at[s]
           m == [type |-> "output", id |-> c, line |-> Forwarded(n, s)[1]]
           one(w) == IF Passes(n, s, w) THEN 1 ELSE 0
           sent(w) == IF up' = up THEN 0 ELSE one(w)
<1>0. /\ Good(c) /\ cmd[c] \in Procs /\ cmd[c].n \in Nat /\ cmd[c].at \in [Streams -> Nat]
      /\ up \in [Conns -> Seq(Reports)] /\ link \in {0, made}
  BY DEF Counted, Shaped, Procs, CallsInv, Typed
<1>1. /\ UNCHANGED <<row, stored, gui, handler, link, made>> /\ n # 0
      /\ IF Forwarded(n, s) = <<>> THEN up' = up ELSE Tell(m)
  BY DEF Forward, CmdFrame
<1>2. cmd'[c] = [cmd[c] EXCEPT !.at = [cmd[c].at EXCEPT ![s] = 0]] BY StepFields
<1>3. /\ cmd'[c].n = cmd[c].n /\ cmd'[c].at = [cmd[c].at EXCEPT ![s] = 0]
      /\ cmd'[c].pc = cmd[c].pc /\ cmd'[c].via = cmd[c].via
  BY <1>0, <1>2 DEF Procs
<1>4. cmd[c].pc \notin {"none", "new", "over"} BY <1>1 DEF Processes, Sound
<1>5. row[c] # "success" BY <1>4 DEF Order, Over
<1>6. Live(c)' <=> Live(c) BY <1>1, <1>3, LiveSame
<1>7. ~Succeeds(c) \/ made \notin Conns BY <1>4 DEF Succeeds, Order, Ordered
<1>8. ~Calm(c)' BY <1>1, <1>5 DEF Calm
<1>9. ASSUME NEW w \in What
      PROVE  /\ IsFiniteSet(Flight(up, Line(c, w))) /\ IsFiniteSet(Flight(up', Line(c, w)))
             /\ Cardinality(Flight(up', Line(c, w))) = Cardinality(Flight(up, Line(c, w))) + sent(w)
  <2>1. IsFiniteSet(Flight(up, Line(c, w))) BY <1>0 DEF Good
  <2>2. Cardinality(Flight(up, Line(c, w))) \in Nat BY <2>1, FS_CardinalityType
  <2>3. CASE up' = up BY <2>1, <2>2, <2>3
  <2>4. CASE up' # up
    <3>1. Forwarded(n, s) # <<>> /\ Tell(m) BY <1>1, <2>4
    <3>2. Forwarded(n, s)[1] \in Streams \cup {"truncated"} BY <3>1 DEF Forwarded
    <3>3. m \in Reports /\ m.type = "output" /\ m.id = c /\ m.line = Forwarded(n, s)[1] BY <3>2 DEF Reports, Outputs
    <3>4. link # 0 /\ up' = [up EXCEPT ![link] = Append(up[link], m)] BY <2>4, <3>1 DEF Tell
    <3>5. link \in Conns BY <3>4, RemoteCallsAssumption DEF CallsInv, Typed, Conns
    <3>6. m \in Line(c, w) <=> Passes(n, s, w)
      <4> HIDE DEF m
      <4> QED BY <3>1, <3>3, LineOf DEF Passes
    <3> HIDE DEF m, n
    <3>7. Added(up, link, m, up') BY <3>4 DEF Added
    <3>8. /\ IsFiniteSet(Flight(up', Line(c, w)))
          /\ Cardinality(Flight(up', Line(c, w))) = Cardinality(Flight(up, Line(c, w))) + (IF m \in Line(c, w) THEN 1 ELSE 0)
      BY <1>0, <2>1, <3>3, <3>5, <3>7, FlightAppend
    <3> QED BY <2>1, <2>4, <3>6, <3>8
  <2> QED BY <2>3, <2>4
<1>10. ASSUME NEW w \in What PROVE Cardinality(Due(cmd[c].at, w)) = Cardinality(Due(cmd'[c].at, w)) + one(w)
  <2> DEFINE a == cmd'[c].at
             b == cmd[c].at
  <2>1. a[s] = 0 /\ b[s] = n /\ n # 0 /\ \A r \in Streams \ {s} : b[r] = a[r] BY <1>0, <1>1, <1>3
  <2> HIDE DEF a, b, n
  <2>2. Cardinality(Due(b, w)) = Cardinality(Due(a, w)) + (IF Passes(n, s, w) THEN 1 ELSE 0) BY <2>1, DueNext
  <2> QED BY <2>2 DEF a, b
<1>11. ASSUME NEW w \in What
       PROVE  /\ Count(c, w)' <= Quota(cmd'[c].n, w)
              /\ Count(c, w) = Quota(cmd[c].n, w) /\ sent(w) = one(w) => Count(c, w)' = Quota(cmd'[c].n, w)
  <2> DEFINE x == Cardinality(Kept(stored[c], w))
             y == Cardinality(Flight(up, Line(c, w)))
             z == Cardinality(Held(handler, Line(c, w)))
             t == Cardinality(Due(cmd'[c].at, w))
             o == one(w)
             p == sent(w)
             q == Quota(cmd[c].n, w)
  <2>1. x \in Nat /\ y \in Nat /\ z \in Nat /\ t \in Nat BY <1>9, CountNat, DueFinite
  <2>2. o \in {0, 1} /\ p \in {0, o} OBVIOUS
  <2>3. q \in Nat /\ Quota(cmd'[c].n, w) = q BY <1>0, <1>3, QuotaNext
  <2>4. Count(c, w) <= q BY <1>0 DEF Good
  <2> HIDE DEF n, m, one, sent
  <2>5. Count(c, w) = x + y + z + (t + o) /\ Count(c, w)' = x + (y + p) + z + t BY <1>1, <1>9, <1>10 DEF Count
  <2> HIDE DEF x, y, z, t, o, p, q
  <2>6. Count(c, w)' <= Quota(cmd'[c].n, w) BY <2>1, <2>2, <2>3, <2>4, <2>5
  <2>7. Count(c, w) = q /\ p = o => Count(c, w)' = Quota(cmd'[c].n, w) BY <2>1, <2>2, <2>3, <2>5
  <2> QED BY <2>6, <2>7 DEF o, p, q
<1>12. ASSUME Sure(c)', NEW w \in What PROVE Count(c, w)' = Quota(cmd'[c].n, w)
  <2>1. Live(c) /\ made \in Conns /\ made # 0 BY <1>6, <1>12, LiveConn DEF Sure
  <2>2. link = made
    <3>1. CASE link = 0
      <4>1. up' = up BY <1>1, <3>1 DEF Tell
      <4>2. ~Succeeds(c)' BY <1>1, <1>7, <2>1, <4>1 DEF Succeeds
      <4> QED BY <1>1, <1>5, <1>12, <4>2 DEF Sure
    <3> QED BY <1>0, <3>1
  <2>3. Sure(c) BY <2>1, <2>2 DEF Sure
  <2>4. sent(w) = one(w)
    <3>1. CASE Forwarded(n, s) = <<>> BY <3>1 DEF Passes
    <3>2. CASE Forwarded(n, s) # <<>>
      <4>1. up' = [up EXCEPT ![link] = Append(up[link], m)] BY <1>1, <2>1, <2>2, <3>2 DEF Tell
      <4>2. up'[link] = Append(up[link], m) /\ up[link] \in Seq(Reports) BY <1>0, <2>1, <2>2, <4>1
      <4>3. up'[link] # up[link]
        <5> HIDE DEF m
        <5>1. Len(up'[link]) = Len(up[link]) + 1 /\ Len(up[link]) \in Nat BY <4>2
        <5> QED BY <5>1
      <4> QED BY <4>3
    <3> QED BY <3>1, <3>2
  <2> QED BY <1>0, <1>11, <2>3, <2>4 DEF Good
<1> QED BY <1>8, <1>9, <1>11, <1>12 DEF Good

\* The steps of one command.
LEMMA CountedCommand ==
    ASSUME CallsInv, Shaped, Processes, Order, Counted, NEW e \in Cmds, NEW c \in Cmds,
           \/ StartShell(c) \/ StartFails(c) \/ Exit(c) \/ \E ok \in BOOLEAN : Done(c, ok)
           \/ \E s \in Streams : WriteLine(c, s) \/ Scan(c, s) \/ Forward(c, s)
    PROVE  Good(e)'
<1>0. cmd[c] \in Procs /\ cmd \in [Cmds -> Procs] BY DEF Shaped
<1>1. CmdFrame BY DEF StartShell, StartFails, Exit, Done, WriteLine, Scan, Forward
<1>2. UNCHANGED <<row, stored, gui, handler, link, made>> BY <1>1 DEF CmdFrame
<1>3. cmd'[c].via = cmd[c].via /\ cmd'[c].pc # "none" /\ cmd[c].pc # "none" BY SoundStep DEF Processes
<1>4. cmd' = [cmd EXCEPT ![c] = cmd'[c]] BY ProcNext
<1> DEFINE quiet == up' = up \/ \E m \in Reports : Tell(m) /\ ~(m.type = "output" /\ m.id = e)
<1>5. CASE quiet /\ cmd'[c].n = cmd[c].n /\ cmd'[c].at = cmd[c].at
  <2>1. /\ cmd'[e].via = cmd[e].via /\ (cmd'[e].pc = "none" <=> cmd[e].pc = "none")
        /\ cmd'[e].n = cmd[e].n /\ cmd'[e].at = cmd[e].at
    <3>1. CASE e = c BY <1>3, <1>5, <3>1
    <3>2. CASE e # c
      <4>1. cmd'[e] = cmd[e] BY <1>0, <1>4, <3>2
      <4> QED BY <4>1
    <3> QED BY <3>1, <3>2
  <2> QED BY <1>2, <1>5, <2>1, CountedQuiet
<1>6. CASE quiet /\ e # c
  <2>1. cmd'[e] = cmd[e] BY <1>0, <1>4, <1>6
  <2> QED BY <1>2, <1>6, <2>1, CountedQuiet
<1>7. CASE StartShell(c)
  <2>1. cmd'[c] = [cmd[c] EXCEPT !.pc = "run"] /\ up' = up BY <1>7, StepFields DEF StartShell
  <2> QED BY <1>0, <1>5, <2>1 DEF Procs
<1>8. CASE Exit(c)
  <2>1. cmd'[c] = [cmd[c] EXCEPT !.pc = "exit", !.left = [s \in Streams |-> <<>>]] /\ up' = up BY <1>8, StepFields DEF Exit
  <2> QED BY <1>0, <1>5, <2>1 DEF Procs
<1>9. CASE StartFails(c) \/ \E ok \in BOOLEAN : Done(c, ok)
  <2>1. cmd'[c] = [cmd[c] EXCEPT !.pc = "over"] BY <1>9, StepFields
  <2>2. cmd'[c].n = cmd[c].n /\ cmd'[c].at = cmd[c].at BY <1>0, <2>1 DEF Procs
  <2>3. \E st \in Ended : Tell([type |-> "done", id |-> c, status |-> st])
    <3>1. CASE StartFails(c) BY <3>1 DEF StartFails, Ended
    <3>2. ASSUME NEW ok \in BOOLEAN, Done(c, ok) PROVE \E st \in Ended : Tell([type |-> "done", id |-> c, status |-> st])
      <4> DEFINE st == IF cmd[c].stop THEN "cancelled" ELSE IF ok THEN "success" ELSE "error"
      <4>1. Tell([type |-> "done", id |-> c, status |-> st]) BY <3>2 DEF Done
      <4>2. st \in Ended BY DEF Ended
      <4> HIDE DEF st
      <4> QED BY <4>1, <4>2
    <3> QED BY <1>9, <3>1, <3>2
  <2>4. \A st \in Ended : /\ [type |-> "done", id |-> c, status |-> st] \in Reports
                          /\ [type |-> "done", id |-> c, status |-> st].type # "output"
    BY DEF Reports, Dones
  <2>5. quiet BY <2>3, <2>4
  <2> HIDE DEF quiet
  <2> QED BY <1>5, <2>2, <2>5
<1>10. ASSUME NEW s \in Streams, WriteLine(c, s) PROVE Good(e)'
  <2>1. /\ cmd'[c] = [cmd[c] EXCEPT !.left = [cmd[c].left EXCEPT ![s] = Tail(cmd[c].left[s])],
                             !.pipe = [cmd[c].pipe EXCEPT ![s] = Append(cmd[c].pipe[s], Head(cmd[c].left[s]))]]
        /\ up' = up
    BY <1>10, StepFields DEF WriteLine
  <2>2. cmd'[c].n = cmd[c].n /\ cmd'[c].at = cmd[c].at BY <1>0, <2>1 DEF Procs
  <2> QED BY <1>5, <2>1, <2>2
<1>11. ASSUME NEW s \in Streams, Scan(c, s) PROVE Good(e)'
  <2>1. up' = up BY <1>11 DEF Scan
  <2>2. CASE cmd'[c] = [cmd[c] EXCEPT !.off = cmd[c].off \cup {s}]
    <3>1. cmd'[c].n = cmd[c].n /\ cmd'[c].at = cmd[c].at BY <1>0, <2>2 DEF Procs
    <3> QED BY <1>5, <2>1, <3>1
  <2>3. CASE cmd'[c] = [cmd[c] EXCEPT !.n = cmd[c].n + 1, !.at = [cmd[c].at EXCEPT ![s] = cmd[c].n + 1],
                                    !.pipe = [cmd[c].pipe EXCEPT ![s] = Tail(cmd[c].pipe[s])]]
    <3>1. CASE e = c BY <1>11, <2>3, <3>1, CountedScan
    <3>2. CASE e # c BY <1>6, <2>1, <3>2
    <3> QED BY <3>1, <3>2
  <2> QED BY <1>11, <2>2, <2>3, StepFields
<1>12. ASSUME NEW s \in Streams, Forward(c, s) PROVE Good(e)'
  <2>1. CASE e = c BY <1>12, <2>1, CountedForward
  <2>2. CASE e # c
    <3> DEFINE l == Forwarded(cmd[c].at[s], s)[1]
               m == [type |-> "output", id |-> c, line |-> l]
    <3>1. up' = up \/ (Forwarded(cmd[c].at[s], s) # <<>> /\ Tell(m)) BY <1>12 DEF Forward
    <3>2. Forwarded(cmd[c].at[s], s) # <<>> => l \in Streams \cup {"truncated"} BY DEF Forwarded
    <3>3. l \in Streams \cup {"truncated"} => m \in Reports BY DEF Reports, Outputs
    <3>4. m.id = c OBVIOUS
    <3> HIDE DEF m, l
    <3>5. quiet BY <2>2, <3>1, <3>2, <3>3, <3>4
    <3> HIDE DEF quiet
    <3> QED BY <1>6, <2>2, <3>5
  <2> QED BY <2>1, <2>2
<1> QED BY <1>7, <1>8, <1>9, <1>10, <1>11, <1>12

\* Every step keeps the count.
LEMMA CountedNext == CallsInv /\ Shaped /\ Started /\ Processes /\ Order /\ Counted /\ [Next]_vars => Counted'
<1> SUFFICES ASSUME CallsInv, Shaped, Started, Processes, Order, Counted, [Next]_vars, NEW e \in Cmds PROVE Good(e)'
  BY DEF Counted
<1>1. CASE GuiStart \/ Send \/ DeleteRow \/ (\E r \in Reqs : SendRequest(r) \/ Answered(r) \/ TimedOut(r)) \/ UNCHANGED vars
  BY <1>1, CountedGui
<1>2. CASE Connect \/ Break BY <1>2, CountedLink
<1>3. ASSUME NEW c \in Conns, Take(c) \/ AppendOutput(c) \/ Leave(c) \/ Fail(c) PROVE Good(e)'
  BY <1>3, CountedTake, CountedAppend, CountedLeave
<1>4. CASE Receive BY <1>4, CountedReceive
<1>5. ASSUME NEW r \in Reqs, Serve(r) PROVE Good(e)'
  <2>1. Tell([type |-> "reply", id |-> r]) /\ UNCHANGED <<row, stored, gui, handler, link, made, cmd>> BY <1>5 DEF Serve
  <2>2. [type |-> "reply", id |-> r] \in Reports /\ [type |-> "reply", id |-> r].type # "output" BY DEF Reports, Replies
  <2>3. \E m \in Reports : Tell(m) /\ ~(m.type = "output" /\ m.id = e) BY <2>1, <2>2
  <2> QED BY <2>1, <2>3, CountedQuiet
<1>6. ASSUME NEW c \in Cmds,
             \/ StartShell(c) \/ StartFails(c) \/ Exit(c) \/ \E ok \in BOOLEAN : Done(c, ok)
             \/ \E s \in Streams : WriteLine(c, s) \/ Scan(c, s) \/ Forward(c, s)
      PROVE  Good(e)'
  BY <1>6, CountedCommand
<1> QED BY <1>1, <1>2, <1>3, <1>4, <1>5, <1>6 DEF Next, ServerStep, AgentStep

\* At the start no command has been sent.
LEMMA StartedInit == Init => Started
<1> SUFFICES ASSUME Init PROVE Started OBVIOUS
<1>1. \A d \in Conns : down[d] = <<>> BY DEF Init
<1>2. gui.pc = "idle" BY DEF Init, Idle
<1>3. \A c \in Cmds : cmd[c].pc = "none" BY DEF Init, Process0
<1> QED BY <1>1, <1>2, <1>3 DEF Started

\* At the start there is nothing to count.
LEMMA CountedInit == Scannable /\ Init => Counted
<1> SUFFICES ASSUME Scannable, Init, NEW c \in Cmds PROVE Good(c) BY DEF Counted
<1>1. /\ \A d \in Conns : up[d] = <<>> /\ handler[d].pc # "output"
      /\ stored[c] = <<>> /\ row[c] = "none"
  BY DEF Init, Open
<1>2. cmd[c].pc = "none" /\ cmd[c].n = 0 /\ cmd[c].at = [s \in Streams |-> 0] BY DEF Init, Process0
<1>3. ~Live(c) BY <1>2 DEF Live
<1>4. ASSUME NEW w \in What PROVE IsFiniteSet(Flight(up, Line(c, w))) /\ Count(c, w) <= Quota(cmd[c].n, w)
  <2>1. Flight(up, Line(c, w)) = {} BY <1>1 DEF Flight
  <2>2. Held(handler, Line(c, w)) = {} BY <1>1 DEF Held
  <2>3. Kept(stored[c], w) = {} BY <1>1 DEF Kept
  <2>4. Due(cmd[c].at, w) = {} BY <1>2 DEF Due
  <2>5. Quota(0, w) = 0 BY QuotaNext DEF Streams
  <2>6. IsFiniteSet({}) /\ Cardinality({}) = 0 BY FS_EmptySet
  <2>7. Count(c, w) = 0 + 0 + 0 + 0 BY <2>1, <2>2, <2>3, <2>4, <2>6 DEF Count
  <2> QED BY <1>2, <2>1, <2>5, <2>6, <2>7
<1> QED BY <1>3, <1>4 DEF Good, Sure, Calm

\* What is counted, and what the count rests on.
OutputInv == Shaped /\ Started /\ Processes /\ Order /\ Counted

\* streamOutput, AppendCommandOutput: OutputInv is inductive; what a command
\* writes is counted from the scanner to the table, on every connection.
THEOREM OutputInvariant == ASSUME Scannable PROVE Spec => []OutputInv
<1>1. Init => OutputInv BY ShapedInit, StartedInit, ProcessesInit, OrderInit, CountedInit DEF OutputInv
<1>2. CallsInv /\ OutputInv /\ [Next]_vars => OutputInv'
  BY ShapedNext, StartedNext, ProcessesNext, OrderNext, CountedNext DEF OutputInv
<1> QED BY <1>1, <1>2, CallsInvariant, PTL DEF Spec

\* A count with no line on its way is that of the table.
LEMMA Whole == CallsInv /\ OutputInv => OutputIsWhole
<1> SUFFICES ASSUME CallsInv, OutputInv, NEW c \in Cmds
             PROVE  /\ Lines(c, Streams) <= Cap /\ Lines(c, {"truncated"}) <= 1
                    /\ (row[c] = "success" /\ cmd[c].via = made /\ gui.c # c)
                          => /\ Lines(c, Streams) = IF Total < Cap THEN Total ELSE Cap
                             /\ Lines(c, {"truncated"}) = IF Total > Cap THEN 1 ELSE 0
  BY DEF OutputIsWhole
<1> USE DEF OutputInv
<1>0. Cap \in Nat \ {0} BY RemoteCallsAssumption
<1>1. Good(c) /\ cmd[c].n \in Nat BY DEF Counted, Shaped, Procs
<1>2. \A w \in What : Lines(c, w) = Cardinality(Kept(stored[c], w)) BY DEF Lines, Kept
<1>3. ASSUME NEW w \in What PROVE Lines(c, w) <= Quota(cmd[c].n, w) /\ Lines(c, w) \in Nat
  <2> DEFINE x == Cardinality(Kept(stored[c], w))
             y == Cardinality(Flight(up, Line(c, w)))
             z == Cardinality(Held(handler, Line(c, w)))
             t == Cardinality(Due(cmd[c].at, w))
             q == Quota(cmd[c].n, w)
  <2>1. IsFiniteSet(Flight(up, Line(c, w))) /\ Count(c, w) <= q BY <1>1 DEF Good
  <2>2. Count(c, w) = x + y + z + t /\ x \in Nat /\ y \in Nat /\ z \in Nat /\ t \in Nat BY <2>1, CountNat DEF Count
  <2>3. q \in Nat BY <1>1, QuotaNext DEF Streams
  <2>4. Lines(c, w) = x BY <1>2
  <2> HIDE DEF x, y, z, t, q
  <2>5. x <= q BY <2>1, <2>2, <2>3
  <2> QED BY <2>2, <2>4, <2>5 DEF q
<1>4. Streams \in What /\ {"truncated"} \in What /\ Streams # {"truncated"} BY WhatIs
<1>5. Quota(cmd[c].n, Streams) <= Cap /\ Quota(cmd[c].n, Streams) \in Nat BY <1>0, <1>1 DEF Quota
<1>6. Quota(cmd[c].n, {"truncated"}) \in {0, 1} BY <1>4 DEF Quota
<1>7. Lines(c, Streams) <= Cap
  <2>1. Lines(c, Streams) <= Quota(cmd[c].n, Streams) /\ Lines(c, Streams) \in Nat BY <1>3, <1>4
  <2> QED BY <1>0, <1>5, <2>1
<1>8. Lines(c, {"truncated"}) <= 1
  <2>1. Lines(c, {"truncated"}) <= Quota(cmd[c].n, {"truncated"}) /\ Lines(c, {"truncated"}) \in Nat BY <1>3, <1>4
  <2> QED BY <1>6, <2>1
<1>9. ASSUME row[c] = "success", cmd[c].via = made, gui.c # c
      PROVE  \A w \in What : Lines(c, w) = Quota(Total, w)
  <2>1. cmd[c].pc = "over" /\ cmd[c].n = Total BY <1>9 DEF Order, Over
  <2>2. Live(c) BY <1>9, <2>1 DEF Live
  <2>3. Sure(c) /\ Calm(c) BY <1>9, <2>2 DEF Sure, Calm
  <2>4. \A s \in Streams : cmd[c].at[s] = 0 BY <2>1 DEF Processes, Sound
  <2> SUFFICES ASSUME NEW w \in What PROVE Lines(c, w) = Quota(Total, w) OBVIOUS
  <2>5. Flight(up, Line(c, w)) = {} /\ Held(handler, Line(c, w)) = {} /\ Count(c, w) = Quota(Total, w)
    BY <1>1, <2>1, <2>3 DEF Good
  <2>6. Due(cmd[c].at, w) = {} BY <2>4 DEF Due
  <2>7. Cardinality({}) = 0 BY FS_EmptySet
  <2>8. Count(c, w) = Lines(c, w) + 0 + 0 + 0 BY <1>2, <2>5, <2>6, <2>7 DEF Count
  <2>9. Lines(c, w) \in Nat BY <1>3
  <2> QED BY <2>5, <2>8, <2>9
<1>10. Quota(Total, Streams) = IF Total < Cap THEN Total ELSE Cap BY DEF Quota
<1>11. Quota(Total, {"truncated"}) = IF Total > Cap THEN 1 ELSE 0 BY <1>4 DEF Quota
<1> QED BY <1>4, <1>7, <1>8, <1>9, <1>10, <1>11

\* execCommand, streamOutput, AppendCommandOutput: for any number of commands
\* and connections and any limit, where no line is longer than the scanner's
\* buffer, the table never holds more than the limit and one notice, and a
\* success reported over the connection the command came by means that all
\* of its output, or the part up to the limit, is in the table.
THEOREM OutputIsStored == ASSUME Scannable PROVE Spec => []OutputIsWhole
BY OutputInvariant, CallsInvariant, Whole, PTL
=============================================================================
