----------------------------- MODULE RemoteCalls -----------------------------
(***************************************************************************)
(* What the GUI asks of an online client: to run a command, whose output   *)
(* is streamed back into the database, and to answer a request (list a     *)
(* directory, the containers or the scheduled tasks, act on a task), whose *)
(* reply is handed to the waiting HTTP handler.  Both share the connection *)
(* and its handler.                                                        *)
(*                                                                         *)
(* hub.Send is one step here; RunControl and Transfers split it.  The four *)
(* kinds of request have the same control, so one stands for all.          *)
(***************************************************************************)
EXTENDS Integers, Sequences, FiniteSets

CONSTANTS
    Cmds,      \* command ids
    Reqs,      \* request ids
    Output,    \* the lines a command writes to each stream, "line" or "long"
    Cap,       \* maxCommandLines
    PipeCap,   \* lines a pipe holds (external)
    MaxConn,   \* bound on the connections the agent makes
    None

Streams == {"stdout", "stderr"}
Conns   == 1..MaxConn

ASSUME RemoteCallsAssumption ==
    /\ Output \in [Streams -> Seq({"line", "long"})] /\ None \notin Cmds \cup Reqs
    /\ Cap \in Nat \ {0} /\ PipeCap \in Nat \ {0} /\ MaxConn \in Nat \ {0}

VARIABLES
    row,       \* status of each command, "none" before CreateCommand
    stored,    \* command_output: the lines of each command, in order
    gui,       \* what the GUI's request about a command is doing
    wait,      \* the HTTP handler of each request
    pending,   \* requests registered by begin
    ch,        \* requests whose channel holds a reply
    hub, handler, up, down, link, made,  \* as in Transfers; handler also
                                         \* holds the message it is handling
    cmd,       \* runCommand and its process, per command
    asked,     \* bound: commands whose cancellation was asked for, once each
    serving,   \* requests the agent is at work on
    acted      \* history: requests the agent has carried out

callVars == <<wait, pending, ch, serving, acted>>
netVars  == <<hub, handler, up, down, link, made>>
vars == <<row, stored, gui, callVars, netVars, cmd, asked>>

Ended == {"success", "error", "cancelled"}
Idle  == [pc |-> "idle", c |-> None]
Open  == [pc |-> "open", m |-> None]

Process0 == [pc |-> "none", stop |-> FALSE, via |-> 0, left |-> Output,
             pipe |-> [s \in Streams |-> <<>>], at |-> [s \in Streams |-> 0],
             n |-> 0, off |-> {}]

\* Statements about a command whose row is gone change nothing.
Update(c, st) == row' = IF row[c] \in {"running"} \cup Ended THEN [row EXCEPT ![c] = st] ELSE row

Queue(m) == down' = IF hub = link THEN [down EXCEPT ![hub] = Append(@, m)] ELSE down

-----------------------------------------------------------------------------
(* handleCommandRun, handleCommandCancel, handleCommandDelete *)

\* The client must be online; then CreateCommand.
Create(c) ==
    /\ gui = Idle /\ row[c] = "none" /\ hub # 0
    /\ row' = [row EXCEPT ![c] = "running"]
    /\ gui' = [pc |-> "send", c |-> c]
    /\ UNCHANGED <<stored, callVars, netVars, cmd, asked>>

Send ==
    /\ gui.pc = "send"
    /\ IF hub # 0
       THEN Queue([type |-> "run", id |-> gui.c]) /\ row' = row
       ELSE Update(gui.c, "error") /\ down' = down
    /\ gui' = Idle
    /\ UNCHANGED <<stored, callVars, hub, handler, up, link, made, cmd, asked>>

Cancel(c) ==
    /\ gui = Idle /\ row[c] = "running" /\ hub # 0 /\ c \notin asked
    /\ Queue([type |-> "cancel", id |-> c])
    /\ asked' = asked \cup {c}
    /\ UNCHANGED <<row, stored, gui, callVars, hub, handler, up, link, made, cmd>>

\* DeleteCommand: the output, then the row.
DeleteOutput(c) ==
    /\ gui = Idle /\ row[c] \in {"running"} \cup Ended
    /\ stored' = [stored EXCEPT ![c] = <<>>]
    /\ gui' = [pc |-> "row", c |-> c]
    /\ UNCHANGED <<row, callVars, netVars, cmd, asked>>

DeleteRow ==
    /\ gui.pc = "row"
    /\ row' = [row EXCEPT ![gui.c] = "deleted"]
    /\ gui' = Idle
    /\ UNCHANGED <<stored, callVars, netVars, cmd, asked>>

-----------------------------------------------------------------------------
(* browseDir, discoverDocker, listSchedTasks, doSchedAction *)

\* begin registers the channel before the message is sent.
BeginRequest(r) ==
    /\ wait[r] = "none" /\ hub # 0
    /\ wait' = [wait EXCEPT ![r] = "begun"]
    /\ pending' = pending \cup {r}
    /\ UNCHANGED <<row, stored, gui, ch, serving, acted, netVars, cmd, asked>>

\* Mutant: a request that is over stays registered.
StaysPending(r) == pending

\* end, deferred.
EndRequest(r) == pending \ {r}

SendRequest(r) ==
    /\ wait[r] = "begun"
    /\ IF hub # 0
       THEN /\ Queue([type |-> "ask", id |-> r])
            /\ wait' = [wait EXCEPT ![r] = "waiting"] /\ UNCHANGED pending
       ELSE /\ wait' = [wait EXCEPT ![r] = "failed"]
            /\ pending' = EndRequest(r) /\ UNCHANGED down
    /\ UNCHANGED <<row, stored, gui, ch, serving, acted, hub, handler, up, link, made, cmd, asked>>

Answered(r) ==
    /\ wait[r] = "waiting" /\ r \in ch
    /\ wait' = [wait EXCEPT ![r] = "ok"]
    /\ pending' = EndRequest(r)
    /\ UNCHANGED <<row, stored, gui, ch, serving, acted, netVars, cmd, asked>>

\* Mutant: the handler waits for the channel alone.
NoDeadline(r) == FALSE /\ UNCHANGED vars

\* The context's deadline.
TimedOut(r) ==
    /\ wait[r] = "waiting"
    /\ wait' = [wait EXCEPT ![r] = "failed"]
    /\ pending' = EndRequest(r)
    /\ UNCHANGED <<row, stored, gui, ch, serving, acted, netVars, cmd, asked>>

-----------------------------------------------------------------------------
(* handleAgentMessage *)

\* deliver looks up the channel; a request that is not registered is dropped.
ChannelOf(r) == pending \cap {r}

\* The handler reads a message: a reply goes to the channel of its request,
\* done sets the status, and output is for a command that has a row.
Take(c) ==
    /\ handler[c] = Open /\ up[c] # <<>>
    /\ LET m == Head(up[c]) IN
       /\ ch' = IF m.type = "reply" THEN ch \cup ChannelOf(m.id) ELSE ch
       /\ IF m.type = "done" THEN Update(m.id, m.status) ELSE row' = row
       /\ handler' = IF m.type = "output" /\ row[m.id] # "deleted"
                     THEN [handler EXCEPT ![c] = [pc |-> "output", m |-> m]] ELSE handler
    /\ up' = [up EXCEPT ![c] = Tail(@)]
    /\ UNCHANGED <<stored, gui, wait, pending, serving, acted, hub, down, link, made, cmd, asked>>

\* AppendCommandOutput, also if the command was deleted after the check.
AppendOutput(c) ==
    /\ handler[c].pc = "output"
    /\ stored' = [stored EXCEPT ![handler[c].m.id] = Append(@, handler[c].m.line)]
    /\ handler' = [handler EXCEPT ![c] = Open]
    /\ UNCHANGED <<row, gui, callVars, hub, up, down, link, made, cmd, asked>>

Leave(c) ==
    /\ handler[c] = Open /\ link # c
    /\ handler' = [handler EXCEPT ![c].pc = "fail"]
    /\ hub' = IF hub = c THEN 0 ELSE hub
    /\ up' = [up EXCEPT ![c] = <<>>]
    /\ UNCHANGED <<row, stored, gui, callVars, down, link, made, cmd, asked>>

\* Mutant: running commands are left to themselves.
FailedNone == row

\* FailRunningCommands.
Failed == [c \in Cmds |-> IF row[c] = "running" THEN "error" ELSE row[c]]

Fail(c) ==
    /\ handler[c].pc = "fail"
    /\ row' = Failed
    /\ handler' = [handler EXCEPT ![c].pc = "gone"]
    /\ UNCHANGED <<stored, gui, callVars, hub, up, down, link, made, cmd, asked>>

-----------------------------------------------------------------------------
(* The agent *)

Connect ==
    /\ link = 0 /\ made < MaxConn
    /\ made' = made + 1 /\ link' = made' /\ hub' = made'
    /\ handler' = [handler EXCEPT ![made'] = Open]
    /\ UNCHANGED <<row, stored, gui, callVars, up, down, cmd, asked>>

Break ==
    /\ link # 0 /\ made < MaxConn
    /\ link' = 0 /\ down' = [down EXCEPT ![link] = <<>>]
    /\ UNCHANGED <<row, stored, gui, callVars, hub, handler, up, made, cmd, asked>>

\* a.send: without a connection the message is lost.
Tell(m) == up' = IF link = 0 THEN up ELSE [up EXCEPT ![link] = Append(@, m)]

\* handleMessage: run_command and a request start a goroutine each,
\* cancel_command cancels the context of a command that has one.
Receive ==
    /\ link # 0 /\ down[link] # <<>>
    /\ LET m == Head(down[link]) IN
       /\ serving' = IF m.type = "ask" THEN serving \cup {m.id} ELSE serving
       /\ cmd' = CASE m.type = "run"    -> [cmd EXCEPT ![m.id].pc = "new", ![m.id].via = link]
                   [] m.type = "cancel" -> [cmd EXCEPT ![m.id].stop = cmd[m.id].pc \in {"run", "exit"}]
                   [] m.type = "ask"    -> cmd
    /\ down' = [down EXCEPT ![link] = Tail(@)]
    /\ UNCHANGED <<row, stored, gui, wait, pending, ch, acted, hub, handler, up, link, made, asked>>

\* handleBrowseDir, handleDiscoverDocker, handleListSched, handleSchedAction:
\* the request is carried out, then answered.
Serve(r) ==
    /\ r \in serving
    /\ serving' = serving \ {r} /\ acted' = acted \cup {r}
    /\ Tell([type |-> "reply", id |-> r])
    /\ UNCHANGED <<row, stored, gui, wait, pending, ch, hub, handler, down, link, made, cmd, asked>>

\* What every step of a command but its messages leaves alone.
CmdFrame == UNCHANGED <<row, stored, gui, callVars, hub, handler, down, link, made, asked>>

\* execCommand starts the shell, or cannot.
StartShell(c) ==
    /\ cmd[c].pc = "new"
    /\ cmd' = [cmd EXCEPT ![c].pc = "run"] /\ up' = up /\ CmdFrame

StartFails(c) ==
    /\ cmd[c].pc = "new"
    /\ cmd' = [cmd EXCEPT ![c].pc = "over"]
    /\ Tell([type |-> "done", id |-> c, status |-> "error"]) /\ CmdFrame

\* The process (external) writes a line where there is room, ...
WriteLine(c, s) ==
    /\ cmd[c].pc = "run" /\ cmd[c].left[s] # <<>> /\ Len(cmd[c].pipe[s]) < PipeCap
    /\ cmd' = [cmd EXCEPT ![c].left[s] = Tail(@), ![c].pipe[s] = Append(@, Head(cmd[c].left[s]))]
    /\ up' = up /\ CmdFrame

\* ... and exits when it has written all, or when it is killed.
Exit(c) ==
    /\ cmd[c].pc = "run" /\ (cmd[c].stop \/ \A s \in Streams : cmd[c].left[s] = <<>>)
    /\ cmd' = [cmd EXCEPT ![c].pc = "exit", ![c].left = [s \in Streams |-> <<>>]]
    /\ up' = up /\ CmdFrame

\* streamOutput: Scan returns a line, which takes a number, or fails on a line
\* longer than the buffer, or at the end; after either the pipe is not read.
Scan(c, s) ==
    /\ cmd[c].pc \in {"run", "exit"} /\ s \notin cmd[c].off /\ cmd[c].at[s] = 0
    /\ \/ /\ cmd[c].pipe[s] # <<>> /\ Head(cmd[c].pipe[s]) = "line"
          /\ cmd' = [cmd EXCEPT ![c].n = @ + 1, ![c].at[s] = cmd[c].n + 1, ![c].pipe[s] = Tail(@)]
       \/ /\ IF cmd[c].pipe[s] = <<>> THEN cmd[c].pc = "exit" ELSE Head(cmd[c].pipe[s]) = "long"
          /\ cmd' = [cmd EXCEPT ![c].off = @ \cup {s}]
    /\ up' = up /\ CmdFrame

\* Line n of the command, read from stream s: the first line past the limit
\* brings a notice, the others nothing.
Forwarded(n, s) == IF n <= Cap THEN <<s>> ELSE IF n = Cap + 1 THEN <<"truncated">> ELSE <<>>

Forward(c, s) ==
    /\ cmd[c].at[s] # 0
    /\ LET f == Forwarded(cmd[c].at[s], s) IN
       IF f = <<>> THEN up' = up ELSE Tell([type |-> "output", id |-> c, line |-> f[1]])
    /\ cmd' = [cmd EXCEPT ![c].at[s] = 0]
    /\ CmdFrame

\* Mutant: only one of the two streams is waited for.
DrainedOne(c) == cmd[c].off # {}

\* wg.Wait: both streams have been read to their end.
Drained(c) == cmd[c].off = Streams

\* Wait, and the report: cancelled if the context is, else by the exit code.
Done(c, ok) ==
    /\ cmd[c].pc = "exit" /\ Drained(c)
    /\ cmd' = [cmd EXCEPT ![c].pc = "over"]
    /\ Tell([type |-> "done", id |-> c,
             status |-> IF cmd[c].stop THEN "cancelled" ELSE IF ok THEN "success" ELSE "error"])
    /\ CmdFrame

-----------------------------------------------------------------------------
Init ==
    /\ row = [c \in Cmds |-> "none"] /\ stored = [c \in Cmds |-> <<>>] /\ gui = Idle
    /\ wait = [r \in Reqs |-> "none"] /\ pending = {} /\ ch = {} /\ acted = {} /\ serving = {}
    /\ hub = 1 /\ link = 1 /\ made = 1
    /\ handler = [c \in Conns |-> IF c = 1 THEN Open ELSE [Open EXCEPT !.pc = "none"]]
    /\ up = [c \in Conns |-> <<>>] /\ down = [c \in Conns |-> <<>>]
    /\ cmd = [c \in Cmds |-> Process0] /\ asked = {}

GuiStart ==
    \/ \E c \in Cmds : Create(c) \/ Cancel(c) \/ DeleteOutput(c)
    \/ \E r \in Reqs : BeginRequest(r)

ServerStep ==
    \/ Send \/ DeleteRow
    \/ \E r \in Reqs : SendRequest(r) \/ Answered(r) \/ TimedOut(r)
    \/ \E c \in Conns : Take(c) \/ AppendOutput(c) \/ Leave(c) \/ Fail(c)

AgentStep ==
    \/ Receive \/ \E r \in Reqs : Serve(r)
    \/ \E c \in Cmds :
         \/ StartShell(c) \/ StartFails(c) \/ Exit(c) \/ \E ok \in BOOLEAN : Done(c, ok)
         \/ \E s \in Streams : WriteLine(c, s) \/ Scan(c, s) \/ Forward(c, s)

Next == GuiStart \/ ServerStep \/ AgentStep \/ Connect \/ Break

\* Server and agent go on, and so does a process that is not blocked.
Fairness == WF_vars(ServerStep) /\ WF_vars(AgentStep)

Spec == Init /\ [][Next]_vars /\ Fairness

-----------------------------------------------------------------------------
\* The variables stay in their types: rows, requests and connections.
TypeOK ==
    /\ row \in [Cmds -> {"none", "running", "deleted"} \cup Ended]
    /\ wait \in [Reqs -> {"none", "begun", "waiting", "ok", "failed"}]
    /\ pending \subseteq Reqs /\ ch \subseteq Reqs /\ acted \subseteq Reqs
    /\ hub \in 0..made /\ link \in {0, made} /\ made \in 0..MaxConn

Total == Len(Output["stdout"]) + Len(Output["stderr"])
Lines(c, what) == Cardinality({k \in 1..Len(stored[c]) : stored[c][k] \in what})

\* streamOutput, AppendCommandOutput: the output is never more than the limit
\* and one notice; and a command whose success was reported over the
\* connection it came by has all its output in the table, or the part up to
\* the limit and the notice.
OutputIsWhole == \A c \in Cmds :
    /\ Lines(c, Streams) <= Cap /\ Lines(c, {"truncated"}) <= 1
    /\ (row[c] = "success" /\ cmd[c].via = made /\ gui.c # c)
          => /\ Lines(c, Streams) = IF Total < Cap THEN Total ELSE Cap
             /\ Lines(c, {"truncated"}) = IF Total > Cap THEN 1 ELSE 0

\* begin, deliver, end: a request is answered only after the client has
\* carried it out, never by the reply to another one; and when it is over
\* nothing is kept for it.
RepliesMatch ==
    /\ \A r \in Reqs : wait[r] = "ok" => r \in acted
    /\ pending = {r \in Reqs : wait[r] \in {"begun", "waiting"}}

\* handleCommandRun, execCommand, FailRunningCommands: a running command ends.
CommandsEnd == \A c \in Cmds : row[c] = "running" ~> row[c] # "running"

\* The GUI is never left waiting for a client that does not answer.
RequestsEnd == \A r \in Reqs : wait[r] = "begun" ~> wait[r] \in {"ok", "failed"}
=============================================================================
