--------------------------- MODULE TransfersProofs ---------------------------
(***************************************************************************)
(* File transfers, for any set of transfers and any number of connections. *)
(* Where the GUI's requests and the goroutines of dispatchPendingTransfers *)
(* may not overlap, a transfer is one thing that moves from the server to  *)
(* the agent and back: Once says that it is in one place at a time.        *)
(***************************************************************************)
EXTENDS Transfers, TLAPS

GuiPcs  == {"idle", "online", "running", "queued", "send", "put", "stop", "putStop", "cancel", "object"}
ConnPcs == {"idle", "mark", "send", "put"}

Jobs == [pc : GuiPcs \cup ConnPcs, x : Xfers \cup {None}, todo : SUBSET Xfers, via : 0..MaxConn]
Workers == [x : Xfers, n : Nat, pc : {"new", "check", "fetch", "rename", "read", "storing"}, stop : BOOLEAN]

Orders  == [type : {"start", "cancel"}, x : Xfers]
Reports == [x : Xfers, status : Ended]

Typed ==
    /\ row \in [Xfers -> {"none", "deleted"} \cup Rowed]
    /\ objs \subseteq Xfers /\ wrote \subseteq Pushes /\ disk \in Pushes \cup {None}
    /\ proc \in [Procs -> Jobs]
    /\ made \in 0..MaxConn /\ hub \in 0..made /\ link \in {0, made}
    /\ handler \in [Conns -> {"none", "hello", "open", "fail", "gone"}]
    /\ up \in [Conns -> Seq(Reports)] /\ down \in [Conns -> Seq(Orders)]
    /\ work \subseteq Workers /\ born \in [Xfers -> Nat]
    /\ asked \subseteq Xfers /\ lost \subseteq Xfers
    /\ \A w \in work : w.n \in 1..born[w.x]

\* What each caller is doing.
Tasks ==
    /\ proc[Gui].pc \in GuiPcs /\ proc[Gui].todo = {}
    /\ \A c \in Conns : proc[c].pc \in ConnPcs
    /\ \A p \in Procs : /\ proc[p].pc = "idle" => proc[p] = Idle
                        /\ proc[p].pc \notin {"idle", "mark"} => proc[p].x \in Xfers
                        /\ proc[p].pc \in {"put", "putStop"} => proc[p].via \in 1..made
    /\ proc[Gui].pc \in {"online", "running", "queued"} => row[proc[Gui].x] = "none"
    /\ proc[Gui].pc = "object" => row[proc[Gui].x] = "deleted"

\* Which connections there are, and where messages can be.
Nets ==
    /\ \A c \in Conns : (handler[c] = "none") <=> (c > made)
    /\ link # 0 => handler[link] \in {"hello", "open"}
    /\ \A c \in Conns : down[c] # <<>> => c = link
    /\ \A c \in Conns : up[c] # <<>> => handler[c] \in {"hello", "open"}

\* A handler will fail what is running, sooner or later.
Doomed == \E c \in Conns : \/ handler[c] \in {"hello", "open"} /\ link # c
                           \/ handler[c] = "fail"

Sending(p, x)     == proc[p].x = x /\ proc[p].pc \in {"send", "put"}
Ordered(c, k, x)  == k \in 1..Len(down[c]) /\ down[c][k].x = x /\ down[c][k].type = "start"
Reported(c, k, x) == k \in 1..Len(up[c]) /\ up[c][k].x = x

\* Sent over the connection that there is, and not reported to the handler yet.
Placed(x) == \/ \E k \in 1..Len(down[link]) : Ordered(link, k, x)
             \/ \E w \in work : w.x = x
             \/ \E k \in 1..Len(up[link]) : Reported(link, k, x)

\* RunningIsAccountedFor, with what is on its way bound to the connection.
Accounted ==
    /\ \A x \in Xfers \ lost : row[x] = "running" =>
          (\E p \in Procs : Sending(p, x)) \/ Doomed \/ (link # 0 /\ Placed(x))
    /\ \A c \in Conns : handler[c] \in {"none", "hello"} => proc[c] = Idle

\* A push's payload has a row, or a request that will make one or remove it.
Payloads ==
    /\ \A x \in objs \cap Pushes :
          \/ row[x] \in Rowed
          \/ proc[Gui].x = x /\ proc[Gui].pc \in {"online", "running", "queued", "object"}
    /\ \A w \in work : /\ w.pc \in {"check", "fetch", "rename"} => w.x \in Pushes
                       /\ w.pc \in {"read", "storing"} => w.x \in Pulls

TransfersInv == Typed /\ Tasks /\ Nets /\ Accounted /\ Payloads

-----------------------------------------------------------------------------
\* One caller at a time, and what it read is still so.
Alone ==
    /\ \A p, q \in Procs : proc[p] # Idle /\ proc[q] # Idle => p = q
    /\ \A p \in Procs : \A x \in proc[p].todo : row[x] = "queued"
    /\ proc[Gui].pc = "cancel" => row[proc[Gui].x] = "queued"
    /\ \A p \in Procs : proc[p].pc \in {"send", "put"} => row[proc[p].x] \in {"running", "error"}

\* A transfer that has been sent is in one place: with a caller, in a
\* message, in a goroutine, or in a report.
Single(x) ==
    /\ \A c, d \in Conns : \A j, k \in Nat : Ordered(c, j, x) /\ Ordered(d, k, x) => c = d /\ j = k
    /\ \A c, d \in Conns : \A j, k \in Nat : Reported(c, j, x) /\ Reported(d, k, x) => c = d /\ j = k
    /\ \A v, w \in work : v.x = x /\ w.x = x => v = w
    /\ \A p \in Procs : Sending(p, x) =>
          /\ \A c \in Conns : \A k \in Nat : ~Ordered(c, k, x) /\ ~Reported(c, k, x)
          /\ \A w \in work : w.x # x
    /\ \A c \in Conns : \A k \in Nat : Ordered(c, k, x) =>
          /\ \A d \in Conns : \A j \in Nat : ~Reported(d, j, x)
          /\ \A w \in work : w.x # x
    /\ \A c \in Conns : \A k \in Nat : Reported(c, k, x) => \A w \in work : w.x # x

Once == \A x \in Xfers : Single(x)

\* It has not been reported yet.
Under(x) == \/ \E p \in Procs : Sending(p, x)
            \/ \E c \in Conns : \E k \in Nat : Ordered(c, k, x)
            \/ \E w \in work : w.x = x

\* It is in no place at all.
Away(x) == ~Under(x) /\ \A c \in Conns : \A k \in Nat : ~Reported(c, k, x)

Delivered(x) == x \in wrote \cup (objs \cap Pulls)

\* What the status, and a report, say of the file.
TruthOf(x) ==
    /\ row[x] \in {"none", "queued", "success", "cancelled"} => Away(x)
    /\ row[x] = "success" => Delivered(x)
    /\ row[x] \in {"none", "queued", "cancelled"} => x \notin wrote
    /\ Under(x) => x \notin wrote
    /\ \A c \in Conns : \A k \in Nat : Reported(c, k, x) =>
          IF up[c][k].status = "success" THEN row[x] = "deleted" \/ Delivered(x) ELSE x \notin wrote

Truth == \A x \in Xfers : TruthOf(x)

OneInv == Alone /\ Once /\ Truth

-----------------------------------------------------------------------------
(* The operators that the actions are built from *)

Base == Typed /\ Tasks /\ Nets /\ Payloads

\* Idle is a job.
LEMMA IdleIs == Idle \in Jobs /\ Idle.pc = "idle" /\ Idle.x = None /\ Idle.todo = {} /\ Idle.via = 0
BY TransfersAssumption DEF Idle, Jobs, GuiPcs

\* Return: the caller is idle, or takes its next transfer.
LEMMA ReturnIs ==
    ASSUME Typed, NEW p \in Procs
    PROVE  /\ Return(p) \in [Procs -> Jobs]
           /\ \A q \in Procs \ {p} : Return(p)[q] = proc[q]
           /\ Return(p)[p].todo = proc[p].todo /\ Return(p)[p].x = None
           /\ Return(p)[p].pc \in {"idle", "mark"}
           /\ Return(p)[p].pc = "idle" => Return(p)[p] = Idle
           /\ proc[p].todo = {} => Return(p)[p] = Idle
<1>1. proc \in [Procs -> Jobs] /\ proc[p].todo \in SUBSET Xfers BY DEF Typed, Jobs
<1> DEFINE j == [Idle EXCEPT !.pc = "mark", !.todo = proc[p].todo]
<1>2. j \in Jobs /\ j.pc = "mark" /\ j.x = None /\ j.todo = proc[p].todo 
  <2>1. j \in Jobs BY <1>1, IdleIs DEF Jobs, ConnPcs
  <2> QED BY <2>1, IdleIs DEF Jobs
<1> HIDE DEF j
<1>3. Return(p) = [proc EXCEPT ![p] = IF proc[p].todo = {} THEN Idle ELSE j] BY DEF Return, j
<1> QED BY <1>1, <1>2, <1>3, IdleIs

\* Update: nothing happens without the row.
LEMMA UpdateIs ==
    ASSUME Typed, NEW x \in Xfers, NEW st \in Rowed, Update(x, st)
    PROVE  /\ row' \in [Xfers -> {"none", "deleted"} \cup Rowed]
           /\ \A y \in Xfers : row'[y] = IF y = x /\ row[x] \in Rowed THEN st ELSE row[y]
BY DEF Typed, Update

\* Set.
LEMMA SetIs ==
    ASSUME Typed, NEW x \in Xfers, NEW st \in {"none", "deleted"} \cup Rowed, Set(x, st)
    PROVE  /\ row' \in [Xfers -> {"none", "deleted"} \cup Rowed]
           /\ \A y \in Xfers : row'[y] = IF y = x THEN st ELSE row[y]
BY DEF Typed, Set

\* Finish: the goroutine is gone, and its report is on the connection, if any.
LEMMA FinishIs ==
    ASSUME Base, NEW w \in work, NEW st \in Ended, Finish(w, st)
    PROVE  /\ work' = work \ {w}
           /\ up' \in [Conns -> Seq(Reports)]
           /\ \A c \in Conns : c # link => up'[c] = up[c]
           /\ link = 0 => up' = up
           /\ link # 0 => up'[link] = Append(up[link], [x |-> w.x, status |-> st])
           /\ UNCHANGED <<row, proc, hub, handler, down, link, made, born, asked, lost>>
<1>1. w.x \in Xfers BY DEF Base, Typed, Workers
<1>2. [x |-> w.x, status |-> st] \in Reports BY <1>1 DEF Reports
<1>3. up \in [Conns -> Seq(Reports)] /\ link \in Conns \cup {0}
  BY TransfersAssumption DEF Base, Typed, Conns
<1> QED BY <1>2, <1>3 DEF Finish

-----------------------------------------------------------------------------
(* Base: the callers *)

\* A step of a caller: what it must keep of its own state and of the rows.
LEMMA CallerBase ==
    ASSUME Base, NEW p \in Procs, proc' \in [Procs -> Jobs],
           \A q \in Procs \ {p} : proc'[q] = proc[q],
           proc'[p].pc = "idle" => proc'[p] = Idle,
           proc'[p].pc \notin {"idle", "mark"} => proc'[p].x \in Xfers,
           proc'[p].pc \in {"put", "putStop"} => proc'[p].via \in 1..made,
           p = Gui => proc'[p].pc \in GuiPcs /\ proc'[p].todo = {},
           p # Gui => proc'[p].pc \in ConnPcs,
           row' \in [Xfers -> {"none", "deleted"} \cup Rowed],
           p # Gui => \A x \in Xfers : row[x] \in {"none", "deleted"} => row'[x] = row[x],
           p = Gui /\ proc'[p].pc \in {"online", "running", "queued"} => row'[proc'[p].x] = "none",
           p = Gui /\ proc'[p].pc = "object" => row'[proc'[p].x] = "deleted",
           objs' \subseteq Xfers,
           p # Gui => objs' = objs /\ \A x \in Xfers : row[x] \in Rowed => row'[x] \in Rowed,
           p = Gui => \A x \in objs' \cap Pushes :
                         \/ row'[x] \in Rowed
                         \/ proc'[p].x = x /\ proc'[p].pc \in {"online", "running", "queued", "object"},
           asked' \subseteq Xfers, lost' \subseteq Xfers,
           down' \in [Conns -> Seq(Orders)], \A c \in Conns : down'[c] # <<>> => c = link,
           UNCHANGED <<hub, handler, up, link, made, agentVars>>
    PROVE  Base'
<1>0. Typed /\ Tasks /\ Nets /\ Payloads BY DEF Base
<1>1. Typed' BY <1>0 DEF Typed, agentVars
<1>2. Gui \in Procs /\ Gui \notin Conns /\ Conns \subseteq Procs BY DEF Gui, Procs, Conns
<1>3. Tasks'
  <2>1. CASE p = Gui BY <1>0, <1>2, <2>1 DEF Tasks
  <2>2. CASE p # Gui BY <1>0, <1>2, <2>2 DEF Tasks
  <2> QED BY <2>1, <2>2
<1>4. Nets' BY <1>0 DEF Nets
<1>5. Payloads'
  <2>1. CASE p = Gui BY <1>0, <2>1 DEF Payloads, agentVars
  <2>2. CASE p # Gui
    <3>1. proc'[Gui] = proc[Gui] BY <1>2, <2>2
    <3>2. \A x \in objs' \cap Pushes : x \in Xfers BY DEF Xfers
    <3> QED BY <1>0, <2>2, <3>1, <3>2 DEF Payloads, agentVars
  <2> QED BY <2>1, <2>2
<1> QED BY <1>1, <1>3, <1>4, <1>5 DEF Base

\* The requests of the GUI begin.
LEMMA GuiStartBase ==
    ASSUME Base, NEW x \in Xfers, StorePayload(x) \/ RequestPull(x) \/ Cancel(x) \/ DeleteRow(x)
    PROVE  Base'
<1>0. Typed /\ Tasks /\ Nets /\ Payloads BY DEF Base
<1>1. Gui \in Procs BY DEF Gui, Procs
<1>2. /\ down' \in [Conns -> Seq(Orders)] /\ \A c \in Conns : down'[c] # <<>> => c = link
      /\ UNCHANGED <<hub, handler, up, link, made, agentVars>> /\ proc[Gui] = Idle
      /\ lost' \subseteq Xfers /\ asked' \subseteq Xfers
  BY <1>0 DEF StorePayload, RequestPull, Cancel, DeleteRow, netVars, Typed, Nets
<1>3. \A y \in objs \cap Pushes : row[y] \in Rowed BY <1>0, <1>2, IdleIs DEF Payloads
<1>4. ASSUME NEW pc \in {"online", "cancel", "stop", "object"},
             proc' = [proc EXCEPT ![Gui] = [Idle EXCEPT !.pc = pc, !.x = x]]
      PROVE  /\ proc' \in [Procs -> Jobs] /\ \A q \in Procs \ {Gui} : proc'[q] = proc[q]
             /\ proc'[Gui].pc = pc /\ proc'[Gui].x = x /\ proc'[Gui].todo = {}
  <2> DEFINE j == [Idle EXCEPT !.pc = pc, !.x = x]
  <2>1. j \in Jobs BY IdleIs DEF Jobs, GuiPcs
  <2>2. j.pc = pc /\ j.x = x /\ j.todo = {} BY <2>1, IdleIs DEF Jobs
  <2> HIDE DEF j
  <2>3. proc' = [proc EXCEPT ![Gui] = j] BY <1>4 DEF j
  <2> QED BY <1>0, <1>1, <2>1, <2>2, <2>3 DEF Typed
<1>5. row \in [Xfers -> {"none", "deleted"} \cup Rowed] /\ objs \subseteq Xfers BY <1>0 DEF Typed
<1>6. CASE StorePayload(x)
  <2>1. objs' = objs \cup {x} /\ row' = row /\ row[x] = "none" BY <1>6 DEF StorePayload
  <2>2. /\ proc' \in [Procs -> Jobs] /\ \A q \in Procs \ {Gui} : proc'[q] = proc[q]
        /\ proc'[Gui].pc = "online" /\ proc'[Gui].x = x /\ proc'[Gui].todo = {}
    BY <1>4, <1>6 DEF StorePayload
  <2> QED BY <1>1, <1>2, <1>3, <1>5, <2>1, <2>2, CallerBase DEF GuiPcs
<1>7. CASE RequestPull(x)
  <2>1. objs' = objs /\ row' = row /\ row[x] = "none" BY <1>7 DEF RequestPull
  <2>2. /\ proc' \in [Procs -> Jobs] /\ \A q \in Procs \ {Gui} : proc'[q] = proc[q]
        /\ proc'[Gui].pc = "online" /\ proc'[Gui].x = x /\ proc'[Gui].todo = {}
    BY <1>4, <1>7 DEF RequestPull
  <2> QED BY <1>1, <1>2, <1>3, <1>5, <2>1, <2>2, CallerBase DEF GuiPcs
<1>8. CASE Cancel(x)
  <2>1. objs' = objs /\ row' = row BY <1>8 DEF Cancel
  <2>2. PICK pc \in {"cancel", "stop"} : proc' = [proc EXCEPT ![Gui] = [Idle EXCEPT !.pc = pc, !.x = x]]
    BY <1>8 DEF Cancel
  <2>3. /\ proc' \in [Procs -> Jobs] /\ \A q \in Procs \ {Gui} : proc'[q] = proc[q]
        /\ proc'[Gui].pc = pc /\ proc'[Gui].x = x /\ proc'[Gui].todo = {}
    BY <1>4, <2>2
  <2> QED BY <1>1, <1>2, <1>3, <1>5, <2>1, <2>3, CallerBase DEF GuiPcs
<1>9. CASE DeleteRow(x)
  <2>1. objs' = objs BY <1>9 DEF DeleteRow
  <2>2. /\ row' \in [Xfers -> {"none", "deleted"} \cup Rowed]
        /\ \A y \in Xfers : row'[y] = IF y = x THEN "deleted" ELSE row[y]
    BY <1>0, <1>9, SetIs DEF DeleteRow
  <2>3. /\ proc' \in [Procs -> Jobs] /\ \A q \in Procs \ {Gui} : proc'[q] = proc[q]
        /\ proc'[Gui].pc = "object" /\ proc'[Gui].x = x /\ proc'[Gui].todo = {}
    BY <1>4, <1>9 DEF DeleteRow
  <2>4. \A y \in objs' \cap Pushes : row'[y] \in Rowed \/ proc'[Gui].x = y
    BY <1>3, <1>5, <2>1, <2>2, <2>3
  <2> QED BY <1>1, <1>2, <1>5, <2>1, <2>2, <2>3, <2>4, CallerBase DEF GuiPcs
<1> QED BY <1>6, <1>7, <1>8, <1>9

\* A caller that returns: its rows have only been updated.
LEMMA ReturnBase ==
    ASSUME Base, NEW p \in Procs, proc' = Return(p),
           row' \in [Xfers -> {"none", "deleted"} \cup Rowed],
           \A x \in Xfers : row[x] \in {"none", "deleted"} /\ p # Gui => row'[x] = row[x],
           \A x \in Xfers : row[x] \in Rowed => row'[x] \in Rowed,
           objs' \subseteq objs,
           p # Gui => objs' = objs,
           p = Gui => \A x \in objs' \cap Pushes : row'[x] \in Rowed,
           down' \in [Conns -> Seq(Orders)], \A c \in Conns : down'[c] # <<>> => c = link,
           lost' \subseteq Xfers, UNCHANGED <<hub, handler, up, link, made, agentVars, asked>>
    PROVE  Base'
<1>0. Typed /\ Tasks BY DEF Base
<1>1. /\ proc' \in [Procs -> Jobs]
      /\ \A q \in Procs \ {p} : proc'[q] = proc[q]
      /\ proc'[p].todo = proc[p].todo /\ proc'[p].x = None
      /\ proc'[p].pc \in {"idle", "mark"}
      /\ proc'[p].pc = "idle" => proc'[p] = Idle
      /\ proc[p].todo = {} => proc'[p] = Idle
  BY <1>0, ReturnIs
<1>2. p = Gui => proc'[p].todo = {} /\ proc'[p].pc = "idle" BY <1>0, <1>1, IdleIs DEF Tasks
<1>3. objs' \subseteq Xfers /\ asked' \subseteq Xfers BY <1>0 DEF Typed
<1> QED BY <1>1, <1>2, <1>3, CallerBase DEF GuiPcs, ConnPcs

\* ReadOnline.
LEMMA ReadOnlineBase ==
    ASSUME Base, ReadOnline
    PROVE  Base'
<1>0. Typed /\ Tasks /\ Nets /\ Payloads BY DEF Base
<1>1. Gui \in Procs BY DEF Gui, Procs
<1>2. PICK pc \in {"running", "queued"} : proc' = [proc EXCEPT ![Gui].pc = pc] BY DEF ReadOnline
<1>3. /\ proc' \in [Procs -> Jobs] /\ \A q \in Procs \ {Gui} : proc'[q] = proc[q]
      /\ proc'[Gui].pc = pc /\ proc'[Gui].x = proc[Gui].x /\ proc'[Gui].todo = proc[Gui].todo
  <2>1. proc[Gui] \in Jobs BY <1>0, <1>1 DEF Typed
  <2> DEFINE j == [proc[Gui] EXCEPT !.pc = pc]
  <2>2. j \in Jobs BY <2>1 DEF Jobs, GuiPcs
  <2>3. j.pc = pc /\ j.x = proc[Gui].x /\ j.todo = proc[Gui].todo BY <2>1 DEF Jobs
  <2>4. proc' = [proc EXCEPT ![Gui] = j] BY <1>0, <1>2 DEF Typed
  <2> HIDE DEF j
  <2> QED BY <1>0, <1>1, <2>2, <2>3, <2>4 DEF Typed
<1>4. proc[Gui].pc = "online" /\ UNCHANGED <<row, objs, netVars, agentVars, asked, lost>>
  BY DEF ReadOnline
<1>5. proc[Gui].x \in Xfers /\ row[proc[Gui].x] = "none" /\ proc[Gui].todo = {} BY <1>0, <1>1, <1>4 DEF Tasks
<1>6. \A x \in objs \cap Pushes : row[x] \in Rowed \/ proc[Gui].x = x BY <1>0 DEF Payloads
<1> QED BY <1>0, <1>1, <1>3, <1>4, <1>5, <1>6, CallerBase DEF Typed, Nets, netVars, GuiPcs

\* CreateTransfer and CreateFails.
LEMMA CreateBase ==
    ASSUME Base, CreateTransfer \/ CreateFails
    PROVE  Base'
<1>0. Typed /\ Tasks /\ Nets /\ Payloads BY DEF Base
<1>1. Gui \in Procs BY DEF Gui, Procs
<1> DEFINE x == proc[Gui].x
<1>2. proc[Gui].pc \in {"running", "queued"} BY DEF CreateTransfer, CreateFails
<1>3. x \in Xfers /\ row[x] = "none" /\ proc[Gui].todo = {} BY <1>0, <1>1, <1>2 DEF Tasks
<1>4. \A y \in objs \cap Pushes : row[y] \in Rowed \/ y = x BY <1>0 DEF Payloads
<1>5. /\ down' \in [Conns -> Seq(Orders)] /\ \A c \in Conns : down'[c] # <<>> => c = link
      /\ UNCHANGED <<hub, handler, up, link, made, agentVars, asked>> /\ lost' \subseteq Xfers
      /\ asked' \subseteq Xfers
  BY <1>0 DEF CreateTransfer, CreateFails, netVars, Typed, Nets
<1>6. Pushes \subseteq Xfers /\ objs \subseteq Xfers BY <1>0 DEF Xfers, Typed
<1> HIDE DEF x
<1>7. CASE CreateTransfer
  <2>1. /\ row' \in [Xfers -> {"none", "deleted"} \cup Rowed]
        /\ \A y \in Xfers : row'[y] = IF y = x THEN proc[Gui].pc ELSE row[y]
    BY <1>0, <1>2, <1>3, <1>7, SetIs DEF CreateTransfer, Rowed, x
  <2>2. objs' = objs /\ \A y \in objs' \cap Pushes : row'[y] \in Rowed
    BY <1>2, <1>4, <1>6, <1>7, <2>1 DEF CreateTransfer, Rowed
  <2>3. CASE proc[Gui].pc = "queued"
    BY <1>0, <1>1, <1>2, <1>3, <1>5, <1>7, <2>1, <2>2, <2>3, ReturnBase DEF CreateTransfer, Rowed
  <2>4. CASE proc[Gui].pc = "running"
    <3>1. proc[Gui] \in Jobs BY <1>0, <1>1 DEF Typed
    <3> DEFINE j == [proc[Gui] EXCEPT !.pc = "send"]
    <3>2. j \in Jobs BY <3>1 DEF Jobs, GuiPcs
    <3>3. j.pc = "send" /\ j.x = x /\ j.todo = proc[Gui].todo BY <3>1 DEF Jobs, x
    <3>4. proc' = [proc EXCEPT ![Gui] = j] BY <1>0, <1>7, <2>4 DEF Typed, CreateTransfer
    <3> HIDE DEF j
    <3>5. /\ proc' \in [Procs -> Jobs] /\ \A q \in Procs \ {Gui} : proc'[q] = proc[q]
          /\ proc'[Gui].pc = "send" /\ proc'[Gui].x = x /\ proc'[Gui].todo = {}
      BY <1>0, <1>1, <1>3, <3>2, <3>3, <3>4 DEF Typed
    <3> QED BY <1>1, <1>3, <1>5, <1>6, <2>1, <2>2, <3>5, CallerBase DEF GuiPcs
  <2> QED BY <1>2, <2>3, <2>4
<1>8. CASE CreateFails
  <2>1. /\ row' \in [Xfers -> {"none", "deleted"} \cup Rowed]
        /\ \A y \in Xfers : row'[y] = IF y = x THEN "deleted" ELSE row[y]
    BY <1>0, <1>3, <1>8, SetIs DEF CreateFails, x
  <2>2. objs' = objs \ {x} /\ \A y \in objs' \cap Pushes : row'[y] \in Rowed
    BY <1>4, <1>6, <1>8, <2>1 DEF CreateFails, Removed, x
  <2>3. \A y \in Xfers : row[y] \in Rowed => row'[y] \in Rowed BY <1>3, <2>1 DEF Rowed, Ended
  <2> QED BY <1>1, <1>5, <1>8, <2>1, <2>2, <2>3, ReturnBase DEF CreateFails
<1> QED BY <1>7, <1>8

\* CancelQueued and DeleteObject.
LEMMA GuiEndBase ==
    ASSUME Base, CancelQueued \/ DeleteObject
    PROVE  Base'
<1>0. Typed /\ Tasks /\ Nets /\ Payloads BY DEF Base
<1>1. Gui \in Procs BY DEF Gui, Procs
<1>2. proc[Gui].pc \in {"cancel", "object"} /\ proc' = Return(Gui) BY DEF CancelQueued, DeleteObject
<1>3. proc[Gui].x \in Xfers BY <1>0, <1>1, <1>2 DEF Tasks
<1>4. /\ down' \in [Conns -> Seq(Orders)] /\ \A c \in Conns : down'[c] # <<>> => c = link
      /\ UNCHANGED <<hub, handler, up, link, made, agentVars, asked>> /\ lost' \subseteq Xfers
  BY <1>0 DEF CancelQueued, DeleteObject, netVars, Typed, Nets
<1>5. Pushes \subseteq Xfers BY DEF Xfers
<1>6. CASE CancelQueued
  <2>1. /\ row' \in [Xfers -> {"none", "deleted"} \cup Rowed]
        /\ \A y \in Xfers : row'[y] = IF y = proc[Gui].x /\ row[proc[Gui].x] \in Rowed THEN "cancelled" ELSE row[y]
    BY <1>0, <1>3, <1>6, UpdateIs DEF CancelQueued, Rowed, Ended
  <2>2. objs' = objs /\ \A y \in objs \cap Pushes : row[y] \in Rowed
    BY <1>0, <1>6 DEF Payloads, CancelQueued
  <2>3. "cancelled" \in Rowed BY DEF Rowed, Ended
  <2> QED BY <1>1, <1>2, <1>4, <1>5, <2>1, <2>2, <2>3, ReturnBase
<1>7. CASE DeleteObject
  <2>1. row' = row /\ objs' = objs \ {proc[Gui].x} BY <1>7 DEF DeleteObject, Removed
  <2>2. \A y \in objs \cap Pushes : row[y] \in Rowed \/ y = proc[Gui].x BY <1>0 DEF Payloads
  <2> QED BY <1>0, <1>1, <1>2, <1>4, <2>1, <2>2, ReturnBase DEF Typed
<1> QED BY <1>6, <1>7

\* hub.Send: Lookup, Put and PutFails.
LEMMA SendBase ==
    ASSUME Base, NEW p \in Procs, Lookup(p) \/ Put(p) \/ PutFails(p)
    PROVE  Base'
<1>0. Typed /\ Tasks /\ Nets /\ Payloads BY DEF Base
<1>1. Gui \in Procs /\ Conns \subseteq Procs /\ Procs = {Gui} \cup Conns BY DEF Gui, Procs
<1>2. proc[p].pc \in {"send", "stop", "put", "putStop"} BY DEF Lookup, Put, PutFails
<1>3. proc[p].x \in Xfers BY <1>0, <1>2 DEF Tasks
<1>4. Pushes \subseteq Xfers /\ objs' = objs BY DEF Xfers, Lookup, Put, PutFails
<1>5. p = Gui => \A y \in objs \cap Pushes : row[y] \in Rowed BY <1>0, <1>2 DEF Payloads
<1>6. ASSUME Unsent(proc[p].x) \/ row' = row
      PROVE  /\ row' \in [Xfers -> {"none", "deleted"} \cup Rowed]
             /\ \A y \in Xfers : row[y] \in {"none", "deleted"} => row'[y] = row[y]
             /\ \A y \in Xfers : row[y] \in Rowed => row'[y] \in Rowed
  <2>1. "error" \in Rowed BY DEF Rowed, Ended
  <2>2. CASE Unsent(proc[p].x)
    <3>1. /\ row' \in [Xfers -> {"none", "deleted"} \cup Rowed]
          /\ \A y \in Xfers : row'[y] = IF y = proc[p].x /\ row[proc[p].x] \in Rowed THEN "error" ELSE row[y]
      BY <1>0, <1>3, <2>1, <2>2, UpdateIs DEF Unsent
    <3> QED BY <2>1, <3>1 DEF Rowed, Ended
  <2>3. CASE row' = row BY <1>0, <2>3 DEF Typed
  <2> QED BY <1>6, <2>2, <2>3
<1>7. ASSUME proc' = Return(p), Unsent(proc[p].x) \/ row' = row,
             down' \in [Conns -> Seq(Orders)], \A c \in Conns : down'[c] # <<>> => c = link,
             lost' \subseteq Xfers, UNCHANGED <<hub, handler, up, link, made, agentVars, asked>>
      PROVE  Base'
  <2>1. p = Gui => \A y \in objs \cap Pushes : row'[y] \in Rowed BY <1>4, <1>5, <1>6, <1>7
  <2> QED BY <1>4, <1>6, <1>7, <2>1, ReturnBase
<1>8. down \in [Conns -> Seq(Orders)] /\ (\A c \in Conns : down[c] # <<>> => c = link) /\ lost \subseteq Xfers
  BY <1>0 DEF Typed, Nets
<1>9. CASE PutFails(p) BY <1>7, <1>8, <1>9 DEF PutFails, netVars
<1>10. CASE Put(p)
  <2>1. PICK t \in {"start", "cancel"} :
          /\ down' = IF link = proc[p].via THEN [down EXCEPT ![proc[p].via] = Append(@, [type |-> t, x |-> proc[p].x])]
                                           ELSE down
          /\ lost' = lost \/ lost' = lost \cup {proc[p].x}
    BY <1>10 DEF Put
  <2>2. proc[p].via \in 1..made /\ made \in 0..MaxConn BY <1>0, <1>10 DEF Tasks, Put, Typed
  <2>3. proc[p].via \in Conns BY <2>2, TransfersAssumption DEF Conns
  <2>4. [type |-> t, x |-> proc[p].x] \in Orders BY <1>3 DEF Orders
  <2>5. down' \in [Conns -> Seq(Orders)] /\ \A c \in Conns : down'[c] # <<>> => c = link
    BY <1>8, <2>1, <2>3, <2>4
  <2> QED BY <1>3, <1>7, <1>8, <1>10, <2>1, <2>5 DEF Put
<1>11. CASE Lookup(p)
  <2>1. CASE hub = 0 BY <1>7, <1>8, <1>11, <2>1 DEF Lookup, netVars
  <2>2. CASE hub # 0
    <3>1. proc[p] \in Jobs BY <1>0 DEF Typed
    <3> DEFINE j == [proc[p] EXCEPT !.via = hub, !.pc = IF @ = "send" THEN "put" ELSE "putStop"]
    <3>2. hub \in 1..made /\ hub \in 0..MaxConn BY <1>0, <2>2, TransfersAssumption DEF Typed
    <3>3. j \in Jobs BY <3>1, <3>2 DEF Jobs, GuiPcs
    <3>4. /\ j.via = hub /\ j.x = proc[p].x /\ j.todo = proc[p].todo
          /\ j.pc = IF proc[p].pc = "send" THEN "put" ELSE "putStop"
      BY <3>1 DEF Jobs
    <3>5. proc' = [proc EXCEPT ![p] = j] BY <1>0, <1>11, <2>2 DEF Typed, Lookup
    <3> HIDE DEF j
    <3>6. /\ proc' \in [Procs -> Jobs] /\ \A q \in Procs \ {p} : proc'[q] = proc[q]
          /\ proc'[p] = j
      BY <1>0, <3>3, <3>5 DEF Typed
    <3>7. p # Gui => proc[p].pc = "send" BY <1>0, <1>1, <1>11 DEF Tasks, ConnPcs, Lookup
    <3>8. p = Gui => proc[p].todo = {} BY <1>0 DEF Tasks
    <3>9. UNCHANGED <<row, objs, netVars, agentVars, asked, lost>> BY <1>11, <2>2 DEF Lookup
    <3>10. j.pc \in {"put", "putStop"} BY <3>4
    <3> QED BY <1>0, <1>3, <1>5, <1>8, <3>2, <3>4, <3>6, <3>7, <3>8, <3>9, <3>10, CallerBase
        DEF Typed, netVars, GuiPcs, ConnPcs
  <2> QED BY <2>1, <2>2
<1> QED BY <1>9, <1>10, <1>11

\* MarkStarted.
LEMMA MarkBase ==
    ASSUME Base, NEW c \in Conns, NEW x \in Xfers, MarkStarted(c, x)
    PROVE  Base'
<1>0. Typed /\ Tasks /\ Nets /\ Payloads BY DEF Base
<1>1. c \in Procs /\ c # Gui BY DEF Gui, Procs, Conns
<1>2. "running" \in Rowed BY DEF Rowed
<1>3. /\ row' \in [Xfers -> {"none", "deleted"} \cup Rowed]
      /\ \A y \in Xfers : row'[y] = IF y = x /\ row[x] \in Rowed THEN "running" ELSE row[y]
  BY <1>0, <1>2, UpdateIs DEF MarkStarted
<1>4. proc[c] \in Jobs BY <1>0, <1>1 DEF Typed
<1> DEFINE j == [Idle EXCEPT !.pc = "send", !.x = x, !.todo = proc[c].todo \ {x}]
<1>5. j \in Jobs BY <1>4, IdleIs DEF Jobs, GuiPcs
<1>6. j.pc = "send" /\ j.x = x BY IdleIs, <1>5 DEF Jobs
<1>7. proc' = [proc EXCEPT ![c] = j] BY DEF MarkStarted
<1> HIDE DEF j
<1>8. proc' \in [Procs -> Jobs] /\ (\A q \in Procs \ {c} : proc'[q] = proc[q]) /\ proc'[c] = j
  BY <1>0, <1>1, <1>5, <1>7 DEF Typed
<1>9. UNCHANGED <<objs, netVars, agentVars, asked, lost>> BY DEF MarkStarted
<1>10. \A y \in Xfers : row[y] \in {"none", "deleted"} => row'[y] = row[y] BY <1>3 DEF Rowed, Ended
<1>11. \A y \in Xfers : row[y] \in Rowed => row'[y] \in Rowed BY <1>2, <1>3
<1> QED BY <1>0, <1>1, <1>3, <1>6, <1>8, <1>9, <1>10, <1>11, CallerBase DEF Typed, Nets, netVars, ConnPcs

\* A step that leaves the callers alone.
LEMMA OtherBase ==
    ASSUME Base, Typed', Nets', UNCHANGED proc, made' >= made,
           \A x \in Xfers : row[x] \in {"none", "deleted"} => row'[x] = row[x],
           \A x \in Xfers : row[x] \in Rowed => row'[x] \in Rowed,
           \A x \in objs' \cap Pushes : x \in objs,
           \A w \in work' : /\ w.pc \in {"check", "fetch", "rename"} => w.x \in Pushes
                            /\ w.pc \in {"read", "storing"} => w.x \in Pulls
    PROVE  Base'
<1>0. Typed /\ Tasks /\ Nets /\ Payloads BY DEF Base
<1>1. \A p \in Procs : 1..made \subseteq 1..made'
  BY <1>0, TransfersAssumption DEF Typed
<1>2. Gui \in Procs /\ Pushes \subseteq Xfers BY DEF Gui, Procs, Xfers
<1>3. Tasks' BY <1>0, <1>1, <1>2 DEF Tasks
<1>4. Payloads' BY <1>0, <1>2 DEF Payloads
<1> QED BY <1>3, <1>4 DEF Base

\* handleAgentWS: Report, Leave and Fail.
LEMMA HandlerBase ==
    ASSUME Base, NEW c \in Conns, Report(c) \/ Leave(c) \/ Fail(c)
    PROVE  Base'
<1>0. Typed /\ Tasks /\ Nets /\ Payloads BY DEF Base
<1>1. UNCHANGED proc /\ made' = made /\ made \in Nat /\ objs' = objs /\ work' = work
  BY <1>0, TransfersAssumption DEF Report, Leave, Fail, agentVars, Typed
<1>2. CASE Report(c)
  <2>1. Head(up[c]) \in Reports /\ Tail(up[c]) \in Seq(Reports) BY <1>0, <1>2 DEF Typed, Report
  <2>2. Head(up[c]).x \in Xfers /\ Head(up[c]).status \in Rowed /\ "none" \notin Rowed /\ "deleted" \notin Rowed
    BY <2>1 DEF Reports, Rowed, Ended
  <2>3. /\ row' \in [Xfers -> {"none", "deleted"} \cup Rowed]
        /\ \A y \in Xfers : row'[y] = IF y = Head(up[c]).x /\ row[Head(up[c]).x] \in Rowed
                                      THEN Head(up[c]).status ELSE row[y]
    BY <1>0, <1>2, <2>2, UpdateIs DEF Report
  <2>4. Typed' BY <1>0, <1>2, <2>1, <2>3 DEF Typed, Report, agentVars
  <2>5. Nets' BY <1>0, <1>2 DEF Nets, Report, Typed
  <2> QED BY <1>0, <1>1, <2>2, <2>3, <2>4, <2>5, OtherBase DEF Payloads
<1>3. CASE Leave(c)
  <2>1. Typed' BY <1>0, <1>3 DEF Typed, Leave, agentVars
  <2>2. Nets' BY <1>0, <1>3 DEF Nets, Leave, Typed
  <2>3. row' = row BY <1>3 DEF Leave
  <2> QED BY <1>0, <1>1, <2>1, <2>2, <2>3, OtherBase DEF Payloads
<1>4. CASE Fail(c)
  <2>1. row' \in [Xfers -> {"none", "deleted"} \cup Rowed] /\ "error" \in Rowed
    BY <1>0, <1>4 DEF Typed, Fail, Failed, Rowed, Ended
  <2>2. Typed' BY <1>0, <1>4, <2>1 DEF Typed, Fail, agentVars
  <2>3. Nets' BY <1>0, <1>4 DEF Nets, Fail, Typed
  <2>4. \A x \in Xfers : row'[x] = IF row[x] = "running" THEN "error" ELSE row[x]
    BY <1>4 DEF Fail, Failed
  <2> QED BY <1>0, <1>1, <2>1, <2>2, <2>3, <2>4, OtherBase DEF Payloads
<1> QED BY <1>2, <1>3, <1>4

\* Hello.
LEMMA HelloBase ==
    ASSUME Base, NEW c \in Conns, Hello(c)
    PROVE  Base'
<1>0. Typed /\ Tasks /\ Nets /\ Payloads BY DEF Base
<1>1. c \in Procs /\ c # Gui /\ Gui \in Procs BY DEF Gui, Procs, Conns
<1> DEFINE j == [Idle EXCEPT !.pc = "mark", !.todo = Queued]
<1>2. j \in Jobs BY IdleIs DEF Jobs, ConnPcs, Queued
<1>3. j.pc = "mark" BY <1>2, IdleIs DEF Jobs
<1>4. PICK h \in {Idle, j} : proc' = [proc EXCEPT ![c] = h] BY DEF Hello
<1> HIDE DEF j
<1>5. proc' \in [Procs -> Jobs] /\ (\A q \in Procs \ {c} : proc'[q] = proc[q]) /\ proc'[c] \in {Idle, j}
  BY <1>0, <1>1, <1>2, <1>4, IdleIs DEF Typed
<1>6. Typed' BY <1>0, <1>5 DEF Typed, Hello, agentVars
<1>7. Tasks' BY <1>0, <1>1, <1>3, <1>5, IdleIs DEF Tasks, Hello, ConnPcs
<1>8. Nets' BY <1>0 DEF Nets, Hello, Typed
<1>9. Payloads' BY <1>0, <1>1, <1>5 DEF Payloads, Hello, agentVars
<1> QED BY <1>6, <1>7, <1>8, <1>9 DEF Base

\* Connect, Break and Restart.
LEMMA LinkBase ==
    ASSUME Base, Connect \/ Break \/ Restart
    PROVE  Base'
<1>0. Typed /\ Tasks /\ Nets /\ Payloads BY DEF Base
<1>1. made \in Nat /\ MaxConn \in Nat /\ made <= MaxConn BY <1>0, TransfersAssumption DEF Typed
<1>2. UNCHANGED <<row, proc>> BY DEF Connect, Break, Restart
<1>3. CASE Connect
  <2>1. made' = made + 1 /\ made' \in Conns /\ link' = made' /\ hub' = made' /\ link = 0
    BY <1>1, <1>3 DEF Connect, Conns
  <2>2. Typed' BY <1>0, <1>1, <1>3, <2>1 DEF Typed, Connect, agentVars
  <2>3. Nets'
    <3>1. \A c \in Conns : down[c] = <<>> BY <1>0, <2>1 DEF Nets, Conns
    <3>2. handler[made'] = "none" BY <1>0, <1>1, <2>1 DEF Nets
    <3>3. handler' = [handler EXCEPT ![made'] = "hello"] /\ up' = up /\ down' = down BY <1>3 DEF Connect
    <3>4. \A c \in Conns : c > made' <=> c > made /\ c # made' BY <1>1, <2>1 DEF Conns
    <3>5. handler \in [Conns -> {"none", "hello", "open", "fail", "gone"}] BY <1>0 DEF Typed
    <3> QED BY <1>0, <2>1, <3>1, <3>2, <3>3, <3>4, <3>5 DEF Nets
  <2>4. objs' = objs /\ work' = work BY <1>3 DEF Connect, agentVars
  <2> QED BY <1>0, <1>1, <1>2, <2>1, <2>2, <2>3, <2>4, OtherBase DEF Payloads
<1>4. CASE Break
  <2>1. made' = made /\ link \in Conns /\ link' = 0 BY <1>0, <1>1, <1>4 DEF Break, Typed, Conns
  <2>2. down' = [down EXCEPT ![link] = <<>>] /\ UNCHANGED <<handler, up>> BY <1>4 DEF Break
  <2>3. <<>> \in Seq(Orders) OBVIOUS
  <2>4. Typed' BY <1>0, <1>1, <1>4, <2>1, <2>2, <2>3 DEF Typed, Break, agentVars
  <2>5. Nets' BY <1>0, <2>1, <2>2 DEF Nets, Typed
  <2>6. objs' = objs /\ work' = work BY <1>4 DEF Break, agentVars
  <2> QED BY <1>0, <1>1, <1>2, <2>1, <2>4, <2>5, <2>6, OtherBase DEF Payloads
<1>5. CASE Restart
  <2>1. /\ made' = made /\ link' = 0 /\ down' = [c \in Conns |-> <<>>] /\ work' = {}
        /\ UNCHANGED <<handler, up>> /\ objs' \subseteq objs
    BY <1>5 DEF Restart
  <2>2. <<>> \in Seq(Orders) OBVIOUS
  <2>3. Typed' BY <1>0, <1>1, <1>5, <2>1, <2>2 DEF Typed, Restart
  <2>4. Nets' BY <1>0, <2>1 DEF Nets
  <2> QED BY <1>1, <1>2, <2>1, <2>3, <2>4, OtherBase
<1> QED BY <1>3, <1>4, <1>5

\* Receive.
LEMMA ReceiveBase ==
    ASSUME Base, Receive
    PROVE  Base'
<1>0. Typed /\ Tasks /\ Nets /\ Payloads BY DEF Base
<1>1. link \in Conns /\ made \in Nat /\ down[link] # <<>>
  BY <1>0, TransfersAssumption DEF Typed, Conns, Receive
<1> DEFINE m == Head(down[link])
<1>2. m \in Orders /\ Tail(down[link]) \in Seq(Orders) BY <1>0, <1>1 DEF Typed
<1>3. m.x \in Xfers BY <1>2 DEF Orders
<1>4. down' = [down EXCEPT ![link] = Tail(@)]
      /\ UNCHANGED <<row, objs, proc, hub, handler, up, link, made, xfers, disk, wrote, asked, lost>>
  BY DEF Receive
<1>5. Nets' BY <1>0, <1>1, <1>4 DEF Nets, Typed
<1>6. /\ work' \subseteq Workers /\ born' \in [Xfers -> Nat] /\ \A w \in work' : w.n \in 1..born'[w.x]
      /\ \A w \in work' : w.pc = "new" \/ \E v \in work : v.pc = w.pc /\ v.x = w.x
  <2>1. CASE m.type = "start"
    <3> DEFINE v == [x |-> m.x, n |-> born'[m.x], pc |-> "new", stop |-> FALSE]
    <3>1. born' = [born EXCEPT ![m.x] = @ + 1] /\ work' = work \cup {v} BY <2>1 DEF Receive
    <3>2. born' \in [Xfers -> Nat] /\ born'[m.x] = born[m.x] + 1 /\ born[m.x] \in Nat BY <1>0, <1>3, <3>1 DEF Typed
    <3>3. v \in Workers /\ v.pc = "new" /\ v.n \in 1..born'[v.x] BY <1>3, <3>2 DEF Workers
    <3> HIDE DEF v
    <3>4. \A w \in work : w.n \in 1..born'[w.x]
      <4> TAKE w \in work
      <4>1. w.x \in Xfers /\ w.n \in 1..born[w.x] /\ w.n \in Nat /\ born[w.x] \in Nat
        BY <1>0 DEF Typed, Workers
      <4>2. born'[w.x] \in Nat /\ born'[w.x] >= born[w.x] BY <1>0, <1>3, <3>1, <4>1 DEF Typed
      <4> QED BY <4>1, <4>2
    <3> QED BY <1>0, <3>1, <3>2, <3>3, <3>4 DEF Typed
  <2>2. CASE m.type # "start"
    <3>1. born' = born /\ work' = {IF w.x = m.x /\ w.n = xfers[m.x] THEN [w EXCEPT !.stop = TRUE] ELSE w : w \in work}
      BY <2>2 DEF Receive
    <3>2. \A w \in work : [w EXCEPT !.stop = TRUE] \in Workers /\ w \in Workers BY <1>0 DEF Typed, Workers
    <3>3. \A w \in work : /\ [w EXCEPT !.stop = TRUE].x = w.x /\ [w EXCEPT !.stop = TRUE].n = w.n
                          /\ [w EXCEPT !.stop = TRUE].pc = w.pc
      BY <3>2 DEF Workers
    <3>4. ASSUME NEW w \in work'
          PROVE  w \in Workers /\ \E v \in work : v.pc = w.pc /\ v.x = w.x /\ v.n = w.n
      <4>1. PICK v \in work : w = IF v.x = m.x /\ v.n = xfers[m.x] THEN [v EXCEPT !.stop = TRUE] ELSE v
        BY <3>1
      <4>2. CASE w = v BY <3>2, <4>2
      <4>3. CASE w = [v EXCEPT !.stop = TRUE] BY <3>2, <3>3, <4>3
      <4> QED BY <4>1, <4>2, <4>3
    <3> QED BY <1>0, <3>1, <3>4 DEF Typed
  <2> QED BY <2>1, <2>2
<1>7. Typed' BY <1>0, <1>2, <1>4, <1>6 DEF Typed
<1> QED BY <1>0, <1>1, <1>4, <1>5, <1>6, <1>7, OtherBase DEF Payloads

\* A goroutine of the agent goes on.
LEMMA StepBase ==
    ASSUME Base, NEW w \in work, Begin(w) \/ Fetch(w) \/ Upload(w)
           \/ (Check(w) /\ work' = Step(w, "fetch")
                 /\ UNCHANGED <<row, objs, proc, netVars, born, disk, wrote, asked, lost>>)
    PROVE  /\ Base'
           /\ \A v \in work' : \E u \in work : u.x = v.x /\ u.n = v.n
           /\ \E pc : work' = Step(w, pc)
           /\ UNCHANGED <<row, objs, proc, netVars, born, disk, wrote, asked, lost>>
<1>0. Typed /\ Tasks /\ Nets /\ Payloads BY DEF Base
<1>1. UNCHANGED <<row, objs, proc, netVars, born, disk, wrote, asked, lost>> /\ w \in Workers
  BY <1>0 DEF Begin, Fetch, Upload, Typed
<1>2. PICK pc \in {"check", "fetch", "rename", "read", "storing"} :
        /\ work' = Step(w, pc)
        /\ pc \in {"check", "fetch", "rename"} => w.x \in Pushes
        /\ pc \in {"read", "storing"} => w.x \in Pulls
  BY <1>0, <1>1 DEF Begin, Fetch, Upload, Check, Payloads, Workers, Xfers
<1> DEFINE u == [w EXCEPT !.pc = pc]
<1>3. u \in Workers BY <1>1 DEF Workers
<1>4. u.pc = pc /\ u.x = w.x /\ u.n = w.n BY <1>1, <1>3 DEF Workers
<1>5. work' = (work \ {w}) \cup {u} BY <1>2 DEF Step
<1> HIDE DEF u
<1>6. Typed' BY <1>0, <1>1, <1>3, <1>4, <1>5 DEF Typed, netVars
<1>7. Nets' BY <1>0, <1>1 DEF Nets, netVars
<1>8. \A v \in work' : /\ v.pc \in {"check", "fetch", "rename"} => v.x \in Pushes
                       /\ v.pc \in {"read", "storing"} => v.x \in Pulls
  BY <1>0, <1>2, <1>4, <1>5 DEF Payloads
<1>9. made' = made /\ made \in Nat BY <1>0, <1>1, TransfersAssumption DEF netVars, Typed
<1>10. Base' BY <1>1, <1>6, <1>7, <1>8, <1>9, OtherBase
<1> QED BY <1>1, <1>2, <1>4, <1>5, <1>10

\* ... or ends.
LEMMA EndBase ==
    ASSUME Base, NEW w \in work, NEW st \in Ended, Finish(w, st),
           objs' \subseteq objs \cup {y \in {w.x} : w.pc = "storing"}, disk' \in Pushes \cup {None},
           wrote' \subseteq Pushes
    PROVE  Base'
<1>0. Typed /\ Tasks /\ Nets /\ Payloads BY DEF Base
<1>1. /\ work' = work \ {w}
      /\ up' \in [Conns -> Seq(Reports)]
      /\ \A c \in Conns : c # link => up'[c] = up[c]
      /\ link = 0 => up' = up
      /\ link # 0 => up'[link] = Append(up[link], [x |-> w.x, status |-> st])
      /\ UNCHANGED <<row, proc, hub, handler, down, link, made, born, asked, lost>>
  BY FinishIs
<1>2. w.x \in Xfers /\ (w.pc = "storing" => w.x \in Pulls) BY <1>0 DEF Typed, Workers, Payloads
<1>3. objs' \subseteq Xfers /\ \A x \in objs' \cap Pushes : x \in objs
  BY <1>0, <1>2, TransfersAssumption DEF Typed
<1>4. Typed' BY <1>0, <1>1, <1>3 DEF Typed
<1>5. Nets' BY <1>0, <1>1 DEF Nets, Typed
<1>6. made \in Nat BY <1>0, TransfersAssumption DEF Typed
<1> QED BY <1>0, <1>1, <1>3, <1>4, <1>5, <1>6, OtherBase DEF Payloads

-----------------------------------------------------------------------------
(* Accounted *)

\* A step of a caller, where its own transfer goes on.
LEMMA CallerAccounts ==
    ASSUME Base, Accounted, NEW p \in Procs, \A q \in Procs \ {p} : proc'[q] = proc[q],
           lost \subseteq lost',
           \A x \in Xfers \ lost' : row'[x] = "running" =>
              \/ Sending(p, x)' \/ Doomed' \/ (link # 0 /\ Placed(x)')
              \/ row[x] = "running" /\ ~Sending(p, x),
           UNCHANGED <<handler, link, up, work>>,
           down' = down \/ \E m \in Orders : link \in Conns /\ down' = [down EXCEPT ![link] = Append(@, m)],
           p # Gui => handler[p] \notin {"none", "hello"}
    PROVE  Accounted'
<1>0. Typed /\ Tasks /\ Nets BY DEF Base
<1>1. Doomed => Doomed' BY DEF Doomed
<1>2. ASSUME NEW x \in Xfers, link # 0, Placed(x) PROVE Placed(x)'
  <2>1. link \in Conns BY <1>0, <1>2, TransfersAssumption DEF Typed, Conns
  <2>2. ASSUME NEW k \in 1..Len(down[link]), Ordered(link, k, x) PROVE Placed(x)'
    <3>1. k \in 1..Len(down'[link]) /\ down'[link][k] = down[link][k]
      <4>1. down[link] \in Seq(Orders) BY <1>0, <2>1 DEF Typed
      <4>2. CASE down' = down BY <4>2
      <4>3. CASE \E m \in Orders : down' = [down EXCEPT ![link] = Append(@, m)]
        <5>1. PICK m \in Orders : down' = [down EXCEPT ![link] = Append(@, m)] BY <4>3
        <5>2. down'[link] = Append(down[link], m) BY <1>0, <2>1, <5>1 DEF Typed
        <5> QED BY <2>2, <4>1, <5>2
      <4> QED BY <4>2, <4>3
    <3> QED BY <2>2, <3>1 DEF Placed, Ordered
  <2> QED BY <1>2, <2>2 DEF Placed, Reported
<1>3. ASSUME NEW x \in Xfers \ lost', row'[x] = "running"
      PROVE  (\E q \in Procs : Sending(q, x)') \/ Doomed' \/ (link' # 0 /\ Placed(x)')
  <2>1. CASE row[x] = "running" /\ ~Sending(p, x)
    <3>1. (\E q \in Procs \ {p} : Sending(q, x)) \/ Doomed \/ (link # 0 /\ Placed(x))
      BY <1>3, <2>1 DEF Accounted
    <3> QED BY <1>1, <1>2, <3>1 DEF Sending
  <2> QED BY <1>3, <2>1
<1>4. \A c \in Conns : handler'[c] \in {"none", "hello"} => proc'[c] = Idle
  BY DEF Accounted, Procs, Conns, Gui
<1> QED BY <1>3, <1>4 DEF Accounted

\* The callers.
LEMMA GuiAccounts ==
    ASSUME Base, Accounted,
           \/ \E x \in Xfers : StorePayload(x) \/ RequestPull(x) \/ Cancel(x) \/ DeleteRow(x)
           \/ ReadOnline \/ CreateTransfer \/ CreateFails \/ CancelQueued \/ DeleteObject
    PROVE  Accounted'
<1>0. Typed /\ Tasks /\ Nets BY DEF Base
<1>1. Gui \in Procs BY DEF Gui, Procs
<1>2. UNCHANGED <<handler, link, up, work, down, lost>>
  BY DEF StorePayload, RequestPull, Cancel, DeleteRow, ReadOnline, CreateTransfer, CreateFails,
         CancelQueued, DeleteObject, netVars, agentVars
<1>3. \A q \in Procs \ {Gui} : proc'[q] = proc[q]
  BY <1>0, <1>1, ReturnIs DEF StorePayload, RequestPull, Cancel, DeleteRow, ReadOnline, CreateTransfer, CreateFails,
         CancelQueued, DeleteObject, Typed
<1>4. \A x \in Xfers : ~Sending(Gui, x)
  <2>1. Idle.pc = "idle" BY IdleIs
  <2> QED BY <2>1 DEF StorePayload, RequestPull, Cancel, DeleteRow, ReadOnline, CreateTransfer, CreateFails,
         CancelQueued, DeleteObject, Sending
<1>5. ASSUME NEW x \in Xfers, row'[x] = "running" PROVE row[x] = "running" \/ Sending(Gui, x)'
  <2>1. CASE CreateTransfer
    <3>1. proc[Gui].x \in Xfers BY <1>0, <1>1, <2>1 DEF Tasks, CreateTransfer
    <3>2. \A y \in Xfers : row'[y] = IF y = proc[Gui].x THEN proc[Gui].pc ELSE row[y]
      BY <1>0, <2>1, <3>1, SetIs DEF CreateTransfer, Rowed
    <3>3. CASE x = proc[Gui].x
      <4>1. proc' = [proc EXCEPT ![Gui].pc = "send"] BY <1>5, <2>1, <3>2, <3>3 DEF CreateTransfer
      <4>2. proc[Gui] \in Jobs BY <1>0, <1>1 DEF Typed
      <4>3. proc'[Gui].pc = "send" /\ proc'[Gui].x = proc[Gui].x BY <1>0, <1>1, <4>1, <4>2 DEF Typed, Jobs
      <4> QED BY <3>3, <4>3 DEF Sending
    <3> QED BY <1>5, <3>2, <3>3
  <2>2. CASE CreateFails \/ CancelQueued \/ \E y \in Xfers : DeleteRow(y)
    <3>1. proc[Gui].pc \in {"running", "queued", "cancel"} => proc[Gui].x \in Xfers BY <1>0, <1>1 DEF Tasks
    <3> QED BY <1>0, <1>5, <2>2, <3>1 DEF CreateFails, CancelQueued, DeleteRow, Set, Update, Typed
  <2>3. CASE UNCHANGED row BY <1>5, <2>3
  <2> QED BY <2>1, <2>2, <2>3 DEF StorePayload, RequestPull, Cancel, ReadOnline, DeleteObject
<1> QED BY <1>1, <1>2, <1>3, <1>4, <1>5, CallerAccounts

\* hub.Send: what is put on a connection that is gone is lost, and a handler
\* that is still there will find its connection broken.
LEMMA SendAccounts ==
    ASSUME Base, Accounted, NEW p \in Procs, Lookup(p) \/ Put(p) \/ PutFails(p)
    PROVE  Accounted'
<1>0. Typed /\ Tasks /\ Nets BY DEF Base
<1>1. UNCHANGED <<handler, link, up, work>> BY DEF Lookup, Put, PutFails, netVars, agentVars
<1>2. proc[p].pc \in {"send", "stop", "put", "putStop"} BY DEF Lookup, Put, PutFails
<1>3. proc[p].x \in Xfers /\ proc[p] \in Jobs BY <1>0, <1>2 DEF Tasks, Typed
<1>4. p # Gui => handler[p] \notin {"none", "hello"}
  BY <1>2, IdleIs DEF Accounted, Procs
<1>5. \A q \in Procs \ {p} : proc'[q] = proc[q]
  BY <1>0, ReturnIs DEF Lookup, Put, PutFails, Typed
<1>6. ASSUME Unsent(proc[p].x), NEW x \in Xfers, row'[x] = "running"
      PROVE  row[x] = "running" /\ x # proc[p].x
  BY <1>0, <1>3, <1>6 DEF Unsent, Update, Typed, Rowed
<1>7. CASE PutFails(p) \/ (Lookup(p) /\ hub = 0)
  <2>1. ASSUME NEW x \in Xfers, row'[x] = "running" PROVE row[x] = "running" /\ ~Sending(p, x)
    <3>1. CASE proc[p].pc \in {"send", "put"}
      BY <1>6, <1>7, <2>1, <3>1 DEF PutFails, Lookup, Sending
    <3>2. CASE proc[p].pc \in {"stop", "putStop"}
      BY <1>7, <2>1, <3>2 DEF PutFails, Lookup, Sending
    <3> QED BY <1>2, <3>1, <3>2
  <2>2. UNCHANGED <<down, lost>> BY <1>7 DEF PutFails, Lookup, netVars
  <2> QED BY <1>1, <1>4, <1>5, <2>1, <2>2, CallerAccounts
<1>8. CASE Lookup(p) /\ hub # 0
  <2>1. UNCHANGED <<row, down, lost>> BY <1>8 DEF Lookup, netVars
  <2>2. ASSUME NEW x \in Xfers, Sending(p, x) PROVE Sending(p, x)'
    <3>1. proc' = [proc EXCEPT ![p].via = hub, ![p].pc = IF @ = "send" THEN "put" ELSE "putStop"]
      BY <1>8 DEF Lookup
    <3>2. proc[p].pc = "send" BY <1>8, <2>2 DEF Lookup, Sending
    <3>3. proc'[p].pc = "put" /\ proc'[p].x = proc[p].x BY <1>0, <1>3, <3>1, <3>2 DEF Typed, Jobs
    <3> QED BY <2>2, <3>3 DEF Sending
  <2> QED BY <1>1, <1>4, <1>5, <2>1, <2>2, CallerAccounts
<1>9. CASE Put(p)
  <2> DEFINE c == proc[p].via
             m == [type |-> IF proc[p].pc = "put" THEN "start" ELSE "cancel", x |-> proc[p].x]
  <2>1. /\ down' = IF link = c THEN [down EXCEPT ![c] = Append(@, m)] ELSE down
        /\ lost' = IF handler[c] = "gone" /\ m.type = "start" THEN lost \cup {m.x} ELSE lost
        /\ row' = row
    BY <1>9 DEF Put
  <2>2. m \in Orders BY <1>3 DEF Orders
  <2>3. c \in 1..made /\ c \in Conns
    <3>1. c \in 1..made /\ made \in 0..MaxConn BY <1>0, <1>9 DEF Put, Tasks, Typed
    <3> QED BY <3>1, TransfersAssumption DEF Conns
  <2>4. handler[c] # "none" /\ handler[c] \in {"none", "hello", "open", "fail", "gone"}
    BY <1>0, <2>3, TransfersAssumption DEF Nets, Typed, Conns
  <2>5. ASSUME NEW x \in Xfers \ lost', Sending(p, x) PROVE Doomed' \/ (link # 0 /\ Placed(x)')
    <3>1. proc[p].pc = "put" /\ x = proc[p].x BY <1>9, <2>5 DEF Put, Sending
    <3>2. CASE link = c
      <4>1. down'[link] = Append(down[link], m) /\ down[link] \in Seq(Orders) BY <1>0, <2>1, <2>3, <3>2 DEF Typed
      <4>2. Len(down'[link]) \in 1..Len(down'[link]) /\ down'[link][Len(down'[link])] = m BY <2>2, <4>1
      <4>3. link' = link /\ link # 0 BY <1>1, <2>3, <3>2 DEF Conns
      <4> QED BY <3>1, <4>2, <4>3 DEF Placed, Ordered
    <3>3. CASE link # c
      <4>1. handler[c] # "gone" BY <2>1, <2>5, <3>1
      <4> QED BY <1>1, <2>3, <2>4, <3>3, <4>1 DEF Doomed
    <3> QED BY <3>2, <3>3
  <2>6. lost \subseteq lost' BY <2>1
  <2>7. down' = down \/ \E n \in Orders : link \in Conns /\ down' = [down EXCEPT ![link] = Append(@, n)]
    BY <2>1, <2>2, <2>3
  <2> QED BY <1>1, <1>4, <1>5, <2>1, <2>5, <2>6, <2>7, CallerAccounts
<1> QED BY <1>7, <1>8, <1>9

\* MarkStarted.
LEMMA MarkAccounts ==
    ASSUME Base, Accounted, NEW c \in Conns, NEW x \in Xfers, MarkStarted(c, x)
    PROVE  Accounted'
<1>0. Typed /\ Tasks /\ Nets BY DEF Base
<1>1. c \in Procs /\ c # Gui BY DEF Gui, Procs, Conns
<1>2. UNCHANGED <<handler, link, up, work, down, lost>> BY DEF MarkStarted, netVars, agentVars
<1>3. handler[c] \notin {"none", "hello"} BY IdleIs DEF Accounted, MarkStarted
<1>4. \A q \in Procs \ {c} : proc'[q] = proc[q] BY <1>0 DEF MarkStarted, Typed
<1>5. \A y \in Xfers : row'[y] = IF y = x /\ row[x] \in Rowed THEN "running" ELSE row[y]
  BY <1>0, UpdateIs DEF MarkStarted, Rowed
<1>6. Sending(c, x)'
  <2>1. proc'[c] = [Idle EXCEPT !.pc = "send", !.x = x, !.todo = proc[c].todo \ {x}]
    BY <1>0, <1>1 DEF MarkStarted, Typed
  <2> QED BY <2>1 DEF Sending, Idle
<1>7. \A y \in Xfers : ~Sending(c, y) BY DEF MarkStarted, Sending
<1> QED BY <1>1, <1>2, <1>3, <1>4, <1>5, <1>6, <1>7, CallerAccounts

\* The handlers.
LEMMA HandlerAccounts ==
    ASSUME Base, Accounted, NEW c \in Conns, Hello(c) \/ Report(c) \/ Leave(c) \/ Fail(c)
    PROVE  Accounted'
<1>0. Typed /\ Tasks /\ Nets BY DEF Base
<1>1. handler \in [Conns -> {"none", "hello", "open", "fail", "gone"}] BY <1>0 DEF Typed
<1>2. CASE Hello(c)
  <2>1. UNCHANGED <<row, lost, link, down, up, work>> /\ handler' = [handler EXCEPT ![c] = "open"]
        /\ handler[c] = "hello"
    BY <1>2 DEF Hello, agentVars
  <2>2. Doomed => Doomed' BY <1>1, <2>1 DEF Doomed
  <2>3. \A x \in Xfers : Placed(x) => Placed(x)' BY <2>1 DEF Placed, Ordered, Reported
  <2>4. proc[c] = Idle BY <2>1 DEF Accounted
  <2>5. \A q \in Procs \ {c} : proc'[q] = proc[q] BY <1>0, <1>2 DEF Hello, Typed
  <2>6. \A q \in Procs, x \in Xfers : Sending(q, x) => Sending(q, x)' BY <2>4, <2>5, IdleIs DEF Sending
  <2>7. Conns \subseteq Procs BY DEF Procs
  <2> QED BY <1>1, <2>1, <2>2, <2>3, <2>5, <2>6, <2>7 DEF Accounted
<1>3. CASE Report(c)
  <2> DEFINE r == Head(up[c])
  <2>1. UNCHANGED <<proc, lost, link, down, handler, work>> /\ up' = [up EXCEPT ![c] = Tail(@)]
        /\ up[c] # <<>> /\ Update(r.x, r.status)
    BY <1>3 DEF Report, agentVars
  <2>2. r \in Reports /\ up[c] \in Seq(Reports) /\ up \in [Conns -> Seq(Reports)] BY <1>0, <2>1 DEF Typed
  <2>3. r.x \in Xfers /\ r.status \in Ended /\ r.status \in Rowed BY <2>2 DEF Reports, Rowed
  <2>4. \A y \in Xfers : row'[y] = IF y = r.x /\ row[r.x] \in Rowed THEN r.status ELSE row[y]
    BY <1>0, <2>1, <2>3, UpdateIs
  <2>5. ASSUME NEW x \in Xfers, row'[x] = "running" PROVE row[x] = "running" /\ x # r.x
    BY <2>3, <2>4, <2>5 DEF Rowed, Ended
  <2>6. ASSUME NEW x \in Xfers, x # r.x, link # 0, Placed(x) PROVE Placed(x)'
    <3>1. ASSUME NEW k \in 1..Len(up[link]), Reported(link, k, x) PROVE Placed(x)'
      <4>1. CASE link # c
        <5>1. up'[link] = up[link] BY <1>0, <2>1, <2>2, <2>6, <4>1, TransfersAssumption DEF Typed, Conns
        <5> QED BY <2>1, <3>1, <5>1 DEF Placed, Reported
      <4>2. CASE link = c
        <5>1. up'[c] = Tail(up[c]) BY <2>1, <2>2
        <5>2. k # 1 BY <2>1, <2>2, <2>6, <3>1, <4>2 DEF Reported
        <5>3. k - 1 \in 1..Len(up'[c]) /\ up'[c][k - 1] = up[c][k] BY <2>1, <2>2, <3>1, <4>2, <5>1, <5>2
        <5> QED BY <2>1, <3>1, <4>2, <5>3 DEF Placed, Reported
      <4> QED BY <4>1, <4>2
    <3> QED BY <2>1, <2>6, <3>1 DEF Placed, Ordered
  <2>7. Doomed' <=> Doomed BY <2>1 DEF Doomed
  <2>8. \A q \in Procs, x \in Xfers : Sending(q, x) => Sending(q, x)' BY <2>1 DEF Sending
  <2> QED BY <2>1, <2>5, <2>6, <2>7, <2>8 DEF Accounted
<1>4. CASE Leave(c)
  <2>1. handler'[c] = "fail" BY <1>1, <1>4 DEF Leave
  <2>2. Doomed' BY <2>1 DEF Doomed
  <2> QED BY <1>1, <1>4, <2>2 DEF Accounted, Leave
<1>5. CASE Fail(c)
  <2>1. \A x \in Xfers : row'[x] # "running" BY <1>5 DEF Fail, Failed
  <2> QED BY <1>1, <1>5, <2>1 DEF Accounted, Fail
<1> QED BY <1>2, <1>3, <1>4, <1>5

\* Connect, Break and Restart: the handler that loses its connection is left.
LEMMA LinkAccounts ==
    ASSUME Base, Accounted, Connect \/ Break \/ Restart
    PROVE  Accounted'
<1>0. Typed /\ Tasks /\ Nets BY DEF Base
<1>1. handler \in [Conns -> {"none", "hello", "open", "fail", "gone"}] BY <1>0 DEF Typed
<1>2. UNCHANGED <<row, proc, lost>> BY DEF Connect, Break, Restart
<1>3. \A q \in Procs, x \in Xfers : Sending(q, x) => Sending(q, x)' BY <1>2 DEF Sending
<1>4. made \in Nat /\ made <= MaxConn /\ MaxConn \in Nat BY <1>0, TransfersAssumption DEF Typed
<1>5. CASE Connect
  <2>1. /\ made' = made + 1 /\ link' = made' /\ made' \in Conns /\ link = 0
        /\ handler' = [handler EXCEPT ![made'] = "hello"]
    BY <1>4, <1>5 DEF Connect, Conns
  <2>2. handler[made'] = "none" BY <1>0, <1>4, <2>1 DEF Nets
  <2>3. Doomed => Doomed' BY <1>1, <2>1, <2>2 DEF Doomed
  <2> QED BY <1>1, <1>2, <1>3, <2>1, <2>2, <2>3 DEF Accounted
<1>6. CASE Break \/ Restart
  <2>1. link' = 0 /\ handler' = handler BY <1>6 DEF Break, Restart
  <2>2. link # 0 => Doomed'
    <3>1. ASSUME link # 0 PROVE link \in Conns /\ handler[link] \in {"hello", "open"}
      BY <1>0, <1>4, <3>1 DEF Typed, Nets, Conns
    <3> QED BY <2>1, <3>1 DEF Doomed
  <2>3. ASSUME Doomed PROVE Doomed'
    <3>1. \A c \in Conns : c # 0 BY DEF Conns
    <3> QED BY <2>1, <2>3, <3>1 DEF Doomed
  <2> QED BY <1>2, <1>3, <2>1, <2>2, <2>3 DEF Accounted
<1> QED BY <1>5, <1>6

\* Where a transfer that leaves nothing behind goes, Placed is kept.
LEMMA AgentAccounts ==
    ASSUME Base, Accounted, UNCHANGED <<row, proc, handler, link, lost>>,
           link # 0 => \A x \in Xfers : Placed(x) => Placed(x)'
    PROVE  Accounted'
<1>1. Doomed' <=> Doomed BY DEF Doomed
<1>2. \A q \in Procs, x \in Xfers : Sending(q, x) => Sending(q, x)' BY DEF Sending
<1> QED BY <1>1, <1>2 DEF Accounted

\* Receive.
LEMMA ReceiveAccounts ==
    ASSUME Base, Accounted, Receive
    PROVE  Accounted'
<1>0. Typed /\ Tasks /\ Nets BY DEF Base
<1>1. link \in Conns /\ down[link] # <<>> BY <1>0, TransfersAssumption DEF Typed, Conns, Receive
<1> DEFINE m == Head(down[link])
<1>2. m \in Orders /\ down[link] \in Seq(Orders) /\ down \in [Conns -> Seq(Orders)] BY <1>0, <1>1 DEF Typed
<1>3. /\ down' = [down EXCEPT ![link] = Tail(@)]
      /\ UNCHANGED <<row, objs, proc, hub, handler, up, link, made, xfers, disk, wrote, asked, lost>>
  BY DEF Receive
<1>4. ASSUME NEW x \in Xfers, Placed(x) PROVE Placed(x)'
  <2>1. ASSUME NEW w \in work, w.x = x PROVE \E v \in work' : v.x = x
    <3>1. CASE m.type = "start" BY <2>1, <3>1 DEF Receive
    <3>2. CASE m.type # "start"
      <4>1. work' = {IF v.x = m.x /\ v.n = xfers[m.x] THEN [v EXCEPT !.stop = TRUE] ELSE v : v \in work}
        BY <3>2 DEF Receive
      <4>2. w \in Workers BY <1>0 DEF Typed
      <4>3. [w EXCEPT !.stop = TRUE].x = w.x BY <4>2 DEF Workers
      <4> QED BY <2>1, <4>1, <4>3
    <3> QED BY <3>1, <3>2
  <2>2. ASSUME NEW k \in 1..Len(down[link]), Ordered(link, k, x) PROVE Placed(x)'
    <3>1. down'[link] = Tail(down[link]) BY <1>1, <1>2, <1>3
    <3>2. CASE k = 1
      <4>1. m.type = "start" /\ m.x = x BY <1>1, <1>2, <2>2, <3>2 DEF Ordered
      <4>2. [x |-> m.x, n |-> born'[m.x], pc |-> "new", stop |-> FALSE] \in work' BY <4>1 DEF Receive
      <4> QED BY <4>1, <4>2 DEF Placed
    <3>3. CASE k # 1
      <4>1. k - 1 \in 1..Len(down'[link]) /\ down'[link][k - 1] = down[link][k]
        BY <1>1, <1>2, <2>2, <3>1, <3>3
      <4> QED BY <1>3, <2>2, <4>1 DEF Placed, Ordered
    <3> QED BY <3>2, <3>3
  <2> QED BY <1>3, <1>4, <2>1, <2>2 DEF Placed, Reported
<1> QED BY <1>3, <1>4, AgentAccounts

\* The goroutines: one goes on ...
LEMMA StepAccounts ==
    ASSUME Base, Accounted, NEW w \in work, NEW pc, work' = Step(w, pc),
           UNCHANGED <<row, objs, proc, netVars, born, disk, wrote, asked, lost>>
    PROVE  Accounted'
<1>1. w \in Workers BY DEF Base, Typed
<1>2. [w EXCEPT !.pc = pc].x = w.x BY <1>1 DEF Workers
<1>3. \A x \in Xfers : Placed(x) => Placed(x)' BY <1>2 DEF Placed, Ordered, Reported, Step, netVars
<1> QED BY <1>3, AgentAccounts DEF netVars

\* ... or reports.
LEMMA EndAccounts ==
    ASSUME Base, Accounted, NEW w \in work, NEW st \in Ended, Finish(w, st)
    PROVE  Accounted'
<1>0. Typed BY DEF Base
<1>1. /\ work' = work \ {w}
      /\ \A c \in Conns : c # link => up'[c] = up[c]
      /\ link # 0 => up'[link] = Append(up[link], [x |-> w.x, status |-> st])
      /\ UNCHANGED <<row, proc, hub, handler, down, link, made, born, asked, lost>>
  BY FinishIs
<1>2. ASSUME link # 0, NEW x \in Xfers, Placed(x) PROVE Placed(x)'
  <2>1. link \in Conns BY <1>0, <1>2, TransfersAssumption DEF Typed, Conns
  <2> DEFINE r == [x |-> w.x, status |-> st]
  <2>2. r \in Reports /\ r.x = w.x BY <1>0 DEF Typed, Workers, Reports
  <2>3. up[link] \in Seq(Reports) BY <1>0, <2>1 DEF Typed
  <2> HIDE DEF r
  <2>4. up'[link] = Append(up[link], r) BY <1>1, <1>2 DEF r
  <2>5. /\ Len(up'[link]) \in 1..Len(up'[link]) /\ up'[link][Len(up'[link])] = r
        /\ \A k \in 1..Len(up[link]) : k \in 1..Len(up'[link]) /\ up'[link][k] = up[link][k]
    BY <2>2, <2>3, <2>4
  <2>6. CASE w.x = x BY <1>1, <2>2, <2>5, <2>6 DEF Placed, Reported
  <2>7. CASE w.x # x BY <1>1, <1>2, <2>5, <2>7 DEF Placed, Ordered, Reported
  <2> QED BY <2>6, <2>7
<1> QED BY <1>1, <1>2, AgentAccounts

-----------------------------------------------------------------------------
\* A step of a goroutine: it goes on, or it ends with a report.
LEMMA WorkerSteps ==
    ASSUME Base, NEW w \in work,
           \/ Begin(w) \/ Check(w) \/ Fetch(w) \/ FetchFails(w) \/ Rename(w)
           \/ ReadFails(w) \/ Upload(w) \/ Stored(w) \/ StoreFails(w)
    PROVE  \/ Begin(w) \/ Fetch(w) \/ Upload(w)
           \/ (Check(w) /\ work' = Step(w, "fetch")
                 /\ UNCHANGED <<row, objs, proc, netVars, born, disk, wrote, asked, lost>>)
           \/ \E st \in Ended :
                 /\ Finish(w, st)
                 /\ \/ st # "success" /\ objs' = objs /\ UNCHANGED <<disk, wrote>>
                    \/ st # "success" /\ w.pc = "storing" /\ objs' = objs \ {w.x} /\ UNCHANGED <<disk, wrote>>
                    \/ st = "success" /\ w.pc = "rename" /\ objs' = objs /\ disk' = w.x /\ wrote' = wrote \cup {w.x}
                    \/ st = "success" /\ w.pc = "storing" /\ objs' = objs \cup {w.x} /\ UNCHANGED <<disk, wrote>>
<1>1. Outcome(w) \in Ended /\ Outcome(w) # "success" BY DEF Outcome, Ended
<1>2. {"success", "error"} \subseteq Ended BY DEF Ended
<1>3. CASE Check(w)
  BY <1>2, <1>3 DEF Check
<1>4. CASE FetchFails(w) \/ ReadFails(w) BY <1>1, <1>4 DEF FetchFails, ReadFails
<1>5. CASE Rename(w) BY <1>2, <1>5 DEF Rename
<1>6. CASE Stored(w) BY <1>2, <1>6 DEF Stored
<1>7. CASE StoreFails(w) BY <1>1, <1>7 DEF StoreFails, Removed
<1> QED BY <1>3, <1>4, <1>5, <1>6, <1>7

\* The goroutines keep the invariant.
LEMMA WorkerInv ==
    ASSUME Base, Accounted, NEW w \in work,
           \/ Begin(w) \/ Check(w) \/ Fetch(w) \/ FetchFails(w) \/ Rename(w)
           \/ ReadFails(w) \/ Upload(w) \/ Stored(w) \/ StoreFails(w)
    PROVE  Base' /\ Accounted'
<1>1. CASE \/ Begin(w) \/ Fetch(w) \/ Upload(w)
           \/ (Check(w) /\ work' = Step(w, "fetch")
                 /\ UNCHANGED <<row, objs, proc, netVars, born, disk, wrote, asked, lost>>)
  <2>1. /\ Base' /\ \E pc : work' = Step(w, pc)
        /\ UNCHANGED <<row, objs, proc, netVars, born, disk, wrote, asked, lost>>
    BY <1>1, StepBase
  <2> QED BY <2>1, StepAccounts
<1>2. ASSUME NEW st \in Ended, Finish(w, st),
             \/ objs' = objs /\ UNCHANGED <<disk, wrote>>
             \/ w.pc = "storing" /\ objs' = objs \ {w.x} /\ UNCHANGED <<disk, wrote>>
             \/ w.pc = "rename" /\ objs' = objs /\ disk' = w.x /\ wrote' = wrote \cup {w.x}
             \/ w.pc = "storing" /\ objs' = objs \cup {w.x} /\ UNCHANGED <<disk, wrote>>
      PROVE  Base' /\ Accounted'
  <2>1. w.pc = "rename" => w.x \in Pushes BY DEF Base, Payloads
  <2>2. /\ objs' \subseteq objs \cup {y \in {w.x} : w.pc = "storing"} /\ disk' \in Pushes \cup {None}
        /\ wrote' \subseteq Pushes
    BY <1>2, <2>1 DEF Base, Typed
  <2> QED BY <1>2, <2>2, EndBase, EndAccounts
<1> QED BY <1>1, <1>2, WorkerSteps

-----------------------------------------------------------------------------
\* handleTransferCreate, dispatchPendingTransfers, handleAgentWS and the
\* agent: whatever overlaps, every caller is at a step of its own, every
\* message on a connection that there is, every payload of a push has a row or
\* a request at work on it, and TransfersInv is inductive.
THEOREM TransfersInvariant == Spec => []TransfersInv
<1>1. Init => TransfersInv
  <2> SUFFICES ASSUME Init PROVE TransfersInv OBVIOUS
  <2>1. Typed
    <3>1. made \in 0..MaxConn /\ hub \in 0..made BY TransfersAssumption DEF Init
    <3>2. row \in [Xfers -> {"none", "deleted"} \cup Rowed] /\ objs \subseteq Xfers /\ wrote \subseteq Pushes
          /\ disk \in Pushes \cup {None} /\ proc \in [Procs -> Jobs] /\ link \in {0, made}
      BY IdleIs DEF Init
    <3>3. up \in [Conns -> Seq(Reports)] /\ down \in [Conns -> Seq(Orders)]
          /\ handler \in [Conns -> {"none", "hello", "open", "fail", "gone"}]
      BY DEF Init
    <3> QED BY <3>1, <3>2, <3>3 DEF Init, Typed
  <2>2. Tasks
    <3>1. \A p \in Procs : proc[p] = Idle BY DEF Init
    <3>2. Gui \in Procs /\ Conns \subseteq Procs BY DEF Procs
    <3> QED BY <3>1, <3>2, IdleIs DEF Tasks, GuiPcs, ConnPcs
  <2>3. Nets BY TransfersAssumption DEF Init, Nets, Conns
  <2>4. Accounted BY DEF Init, Accounted, Procs
  <2>5. Payloads BY DEF Init, Payloads
  <2> QED BY <2>1, <2>2, <2>3, <2>4, <2>5 DEF TransfersInv
<1>2. TransfersInv /\ [Next]_vars => TransfersInv'
  <2> SUFFICES ASSUME TransfersInv, [Next]_vars PROVE TransfersInv' OBVIOUS
  <2>0. Base /\ Accounted BY DEF TransfersInv, Base
  <2> SUFFICES Base' /\ Accounted' BY DEF TransfersInv, Base
  <2>1. CASE GuiStart BY <2>0, <2>1, GuiStartBase, GuiAccounts DEF GuiStart
  <2>2. CASE ReadOnline BY <2>0, <2>2, ReadOnlineBase, GuiAccounts
  <2>3. CASE CreateTransfer \/ CreateFails BY <2>0, <2>3, CreateBase, GuiAccounts
  <2>4. CASE CancelQueued \/ DeleteObject BY <2>0, <2>4, GuiEndBase, GuiAccounts
  <2>5. ASSUME NEW p \in Procs, Lookup(p) \/ Put(p) \/ PutFails(p) PROVE Base' /\ Accounted'
    BY <2>0, <2>5, SendBase, SendAccounts
  <2>6. ASSUME NEW c \in Conns, Hello(c) \/ Report(c) \/ Leave(c) \/ Fail(c) PROVE Base' /\ Accounted'
    BY <2>0, <2>6, HelloBase, HandlerBase, HandlerAccounts
  <2>7. ASSUME NEW c \in Conns, NEW x \in Xfers, MarkStarted(c, x) PROVE Base' /\ Accounted'
    BY <2>0, <2>7, MarkBase, MarkAccounts
  <2>8. CASE Receive BY <2>0, <2>8, ReceiveBase, ReceiveAccounts
  <2>9. ASSUME NEW w \in work,
               \/ Begin(w) \/ Check(w) \/ Fetch(w) \/ FetchFails(w) \/ Rename(w)
               \/ ReadFails(w) \/ Upload(w) \/ Stored(w) \/ StoreFails(w)
        PROVE  Base' /\ Accounted'
    BY <2>0, <2>9, WorkerInv
  <2>10. CASE Connect \/ Break \/ Restart BY <2>0, <2>10, LinkBase, LinkAccounts
  <2>11. CASE UNCHANGED vars
    <3>1. Base'
      BY <2>0, <2>11 DEF Base, Typed, Tasks, Nets, Payloads, vars, netVars, agentVars
    <3>2. Accounted'
      BY <2>0, <2>11 DEF Accounted, Sending, Doomed, Placed, Ordered, Reported, vars, netVars, agentVars
    <3> QED BY <3>1, <3>2
  <2>12. CASE ServerStep BY <2>2, <2>3, <2>4, <2>5, <2>6, <2>7, <2>12 DEF ServerStep
  <2>13. CASE AgentStep BY <2>8, <2>9, <2>13 DEF AgentStep
  <2> QED BY <2>1, <2>10, <2>11, <2>12, <2>13 DEF Next
<1> QED BY <1>1, <1>2, PTL DEF Spec

\* The transfers stay in their types: rows, payloads, connections, goroutines.
THEOREM TransferTypes == Spec => []TypeOK
<1>1. TransfersInv => TypeOK BY DEF TransfersInv, Typed, TypeOK, Workers
<1> QED BY <1>1, TransfersInvariant, PTL

\* FailRunningTransfers: no running transfer is forgotten.  It is being sent,
\* at the agent, reported, or its connection is going to fail it; except for
\* one that was sent to a connection whose handler has already done so.
THEOREM NoTransferIsForgotten == Spec => []RunningIsAccountedFor
<1>1. TransfersInv => RunningIsAccountedFor
  <2> SUFFICES ASSUME TransfersInv, NEW x \in Xfers \ lost, row[x] = "running"
               PROVE  \/ \E p \in Procs : proc[p].x = x
                      \/ \E c \in Conns : handler[c] \in {"hello", "open"} /\ link # c
                      \/ \E c \in Conns : handler[c] = "fail"
                      \/ \E c \in Conns : \E k \in 1..Len(down[c]) : down[c][k].x = x /\ down[c][k].type = "start"
                      \/ \E c \in Conns : \E k \in 1..Len(up[c]) : up[c][k].x = x
                      \/ \E w \in work : w.x = x
    BY DEF RunningIsAccountedFor
  <2>1. (\E p \in Procs : Sending(p, x)) \/ Doomed \/ (link # 0 /\ Placed(x)) BY DEF TransfersInv, Accounted
  <2>2. link # 0 => link \in Conns BY TransfersAssumption DEF TransfersInv, Typed, Conns
  <2>3. CASE \E p \in Procs : Sending(p, x) BY <2>3 DEF Sending
  <2>4. CASE Doomed BY <2>4 DEF Doomed
  <2>5. CASE link # 0 /\ Placed(x) BY <2>2, <2>5 DEF Placed, Ordered, Reported
  <2> QED BY <2>1, <2>3, <2>4, <2>5
<1> QED BY <1>1, TransfersInvariant, PTL

\* handleTransferCreate, deleteTransfer: when no request of the GUI is at
\* work, every payload that was uploaded for a push has its row.
THEOREM PayloadsHaveRows == Spec => []NoOrphanPayload
<1>1. TransfersInv => NoOrphanPayload
  BY IdleIs DEF TransfersInv, Payloads, NoOrphanPayload
<1> QED BY <1>1, TransfersInvariant, PTL

-----------------------------------------------------------------------------
(* One caller at a time *)

\* A step that puts a transfer nowhere it was not, up to the messages that
\* have been read before it.
Shrinks(x) ==
    /\ \A p \in Procs : Sending(p, x)' => Sending(p, x)
    /\ \A c \in Conns : \E o \in Nat : \A k \in Nat : Ordered(c, k, x)' => Ordered(c, k + o, x)
    /\ \A c \in Conns : \E o \in Nat : \A k \in Nat :
          Reported(c, k, x)' => Reported(c, k + o, x) /\ up'[c][k].status = up[c][k + o].status
    /\ \A w \in work' : w.x = x => \E v \in work : v.x = x
    /\ \A v, w \in work' : v.x = x /\ w.x = x => v = w

\* What such a step may do to the row and to the file.
Settles(x) ==
    /\ x \in wrote' <=> x \in wrote
    /\ x \in objs \cap Pulls => x \in objs' \/ row'[x] = "deleted" \/ \E w \in work : w.x = x
    /\ \/ row'[x] = row[x] \/ row'[x] \in {"running", "error", "deleted"}
       \/ row'[x] \in {"queued", "cancelled"} /\ row[x] \in {"none", "queued"}
    /\ row[x] = "deleted" => row'[x] = "deleted"

\* A transfer stays in one place.
LEMMA SingleKept ==
    ASSUME NEW x \in Xfers, Single(x), Shrinks(x)
    PROVE  Single(x)'
<1>1. ASSUME NEW c \in Conns, NEW k \in Nat, Ordered(c, k, x)'
      PROVE  \E o \in Nat : Ordered(c, k + o, x) /\ k + o \in Nat
  BY <1>1 DEF Shrinks
<1>2. ASSUME NEW c \in Conns, NEW k \in Nat, Reported(c, k, x)'
      PROVE  \E o \in Nat : Reported(c, k + o, x) /\ k + o \in Nat
  BY <1>2 DEF Shrinks
<1>3. ASSUME NEW c \in Conns, NEW d \in Conns, NEW j \in Nat, NEW k \in Nat,
             Ordered(c, j, x)', Ordered(d, k, x)'
      PROVE  c = d /\ j = k
  <2>1. c = d BY <1>1, <1>3 DEF Single
  <2>2. PICK o \in Nat : Ordered(c, j + o, x) /\ Ordered(c, k + o, x) BY <1>3, <2>1 DEF Shrinks
  <2>3. j + o = k + o BY <2>2 DEF Single
  <2> QED BY <2>1, <2>3
<1>4. ASSUME NEW c \in Conns, NEW d \in Conns, NEW j \in Nat, NEW k \in Nat,
             Reported(c, j, x)', Reported(d, k, x)'
      PROVE  c = d /\ j = k
  <2>1. c = d BY <1>2, <1>4 DEF Single
  <2>2. PICK o \in Nat : Reported(c, j + o, x) /\ Reported(c, k + o, x) BY <1>4, <2>1 DEF Shrinks
  <2>3. j + o = k + o BY <2>2 DEF Single
  <2> QED BY <2>1, <2>3
<1>5. \A w \in work' : w.x = x => \E v \in work : v.x = x BY DEF Shrinks
<1>6. \A p \in Procs : Sending(p, x)' => Sending(p, x) BY DEF Shrinks
<1>7. \A v, w \in work' : v.x = x /\ w.x = x => v = w BY DEF Shrinks
<1>8. \A p \in Procs : Sending(p, x)' =>
          /\ \A c \in Conns : \A k \in Nat : ~Ordered(c, k, x)' /\ ~Reported(c, k, x)'
          /\ \A w \in work' : w.x # x
  BY <1>1, <1>2, <1>5, <1>6 DEF Single
<1>9. \A c \in Conns : \A k \in Nat : Ordered(c, k, x)' =>
          /\ \A d \in Conns : \A j \in Nat : ~Reported(d, j, x)'
          /\ \A w \in work' : w.x # x
  BY <1>1, <1>2, <1>5 DEF Single
<1>10. \A c \in Conns : \A k \in Nat : Reported(c, k, x)' => \A w \in work' : w.x # x
  BY <1>2, <1>5 DEF Single
<1> QED BY <1>3, <1>4, <1>7, <1>8, <1>9, <1>10 DEF Single

\* What was true of it stays true.
LEMMA OneKept ==
    ASSUME NEW x \in Xfers, Single(x), TruthOf(x), Shrinks(x), Settles(x)
    PROVE  Single(x)' /\ TruthOf(x)'
<1>1. Single(x)' BY SingleKept
<1>2. Under(x)' => Under(x)
  <2>1. ASSUME NEW c \in Conns, NEW k \in Nat, Ordered(c, k, x)'
        PROVE  \E j \in Nat : Ordered(c, j, x)
    <3>1. PICK o \in Nat : Ordered(c, k + o, x) BY <2>1 DEF Shrinks
    <3> QED BY <3>1
  <2> QED BY <2>1 DEF Under, Shrinks
<1>3. ASSUME NEW c \in Conns, NEW k \in Nat, Reported(c, k, x)'
      PROVE  \E j \in Nat : Reported(c, j, x) /\ up'[c][k].status = up[c][j].status
  <2>1. PICK o \in Nat : Reported(c, k + o, x) /\ up'[c][k].status = up[c][k + o].status
    BY <1>3 DEF Shrinks
  <2> QED BY <2>1
<1>4. Away(x) => Away(x)' BY <1>2, <1>3 DEF Away
<1>5. Delivered(x) => Delivered(x)' \/ row'[x] = "deleted" \/ \E w \in work : w.x = x
  BY DEF Delivered, Settles
<1>6. (\E w \in work : w.x = x) => ~Away(x) /\ \A c \in Conns : \A k \in Nat : ~Reported(c, k, x)
  BY DEF Away, Under, Single
<1>7. row'[x] \in {"none", "queued", "success", "cancelled"} => Away(x)'
  BY <1>4 DEF TruthOf, Settles
<1>8. row'[x] = "success" => Delivered(x)' BY <1>5, <1>6 DEF TruthOf, Settles
<1>9. row'[x] \in {"none", "queued", "cancelled"} => x \notin wrote' BY DEF TruthOf, Settles
<1>10. Under(x)' => x \notin wrote' BY <1>2 DEF TruthOf, Settles
<1>11. ASSUME NEW c \in Conns, NEW k \in Nat, Reported(c, k, x)'
       PROVE  IF up'[c][k].status = "success" THEN row'[x] = "deleted" \/ Delivered(x)' ELSE x \notin wrote'
  <2>1. PICK j \in Nat : Reported(c, j, x) /\ up'[c][k].status = up[c][j].status BY <1>3, <1>11
  <2>2. IF up[c][j].status = "success" THEN row[x] = "deleted" \/ Delivered(x) ELSE x \notin wrote
    BY <2>1 DEF TruthOf
  <2>3. ~ \E w \in work : w.x = x BY <1>6, <2>1
  <2> QED BY <1>5, <2>1, <2>2, <2>3 DEF Settles
<1> QED BY <1>1, <1>7, <1>8, <1>9, <1>10, <1>11 DEF TruthOf

\* A step of a caller that gives the agent nothing to do.
LEMMA CallerKeeps ==
    ASSUME OneInv, NEW p \in Procs, NEW x \in Xfers,
           \A q \in Procs \ {p} : proc'[q] = proc[q],
           Sending(p, x)' => Sending(p, x),
           UNCHANGED <<up, work>>,
           \A c \in Conns : \A k \in Nat : Ordered(c, k, x)' => Ordered(c, k, x),
           Settles(x)
    PROVE  Single(x)' /\ TruthOf(x)'
<1>1. Single(x) /\ TruthOf(x) BY DEF OneInv, Once, Truth
<1>2. \A q \in Procs : Sending(q, x)' => Sending(q, x) BY DEF Sending
<1>3. \A k \in Nat : k + 0 = k OBVIOUS
<1>4. Shrinks(x)
  <2>1. \A c \in Conns : \A k \in Nat : Ordered(c, k, x)' => Ordered(c, k + 0, x) BY <1>3
  <2>2. \A c \in Conns : \A k \in Nat :
          Reported(c, k, x)' => Reported(c, k + 0, x) /\ up'[c][k].status = up[c][k + 0].status
    BY <1>3 DEF Reported
  <2>3. \A v, w \in work' : v.x = x /\ w.x = x => v = w BY <1>1 DEF Single
  <2> QED BY <1>2, <2>1, <2>2, <2>3 DEF Shrinks
<1> QED BY <1>1, <1>4, OneKept

\* The caller at work is the only one.
LEMMA CallerAlone ==
    ASSUME NEW p \in Procs, \A q \in Procs \ {p} : proc[q] = Idle /\ proc'[q] = proc[q],
           \A x \in proc'[p].todo : row'[x] = "queued",
           p = Gui /\ proc'[p].pc = "cancel" => row'[proc'[p].x] = "queued",
           proc'[p].pc \in {"send", "put"} => row'[proc'[p].x] \in {"running", "error"}
    PROVE  Alone'
<1>1. Gui \in Procs BY DEF Procs
<1> QED BY <1>1, IdleIs DEF Alone

\* A caller that has begun is the only one.
LEMMA OthersIdle ==
    ASSUME OneInv, NEW p \in Procs, proc[p].pc # "idle"
    PROVE  \A q \in Procs \ {p} : proc[q] = Idle
BY IdleIs DEF OneInv, Alone

\* What each step of a caller, of a handler or of the agent keeps.
Final == \A x \in Xfers : row[x] = "success" => row'[x] \in {"success", "deleted"}

\* The requests of the GUI begin.
LEMMA GuiStartOne ==
    ASSUME Base, OneInv, Overlap = FALSE, NEW x \in Xfers,
           StorePayload(x) \/ RequestPull(x) \/ Cancel(x) \/ DeleteRow(x)
    PROVE  OneInv' /\ Final
<1>0. Typed /\ Tasks /\ OneInv BY DEF Base
<1>1. Gui \in Procs BY DEF Procs
<1>2. /\ \A q \in Procs \ {Gui} : proc[q] = Idle
      /\ UNCHANGED <<up, work, wrote, down>> /\ objs \subseteq objs'
  BY DEF StorePayload, RequestPull, Cancel, DeleteRow, Free, netVars, agentVars
<1>3. PICK pc \in {"online", "cancel", "stop", "object"} :
        /\ proc' = [proc EXCEPT ![Gui] = [Idle EXCEPT !.pc = pc, !.x = x]]
        /\ pc = "cancel" => row' = row /\ row[x] = "queued"
  BY DEF StorePayload, RequestPull, Cancel, DeleteRow
<1> DEFINE j == [Idle EXCEPT !.pc = pc, !.x = x]
<1>4. j \in Jobs BY IdleIs DEF Jobs, GuiPcs
<1>5. j.pc = pc /\ j.x = x /\ j.todo = {} BY <1>4, IdleIs DEF Jobs
<1>6. proc' = [proc EXCEPT ![Gui] = j] BY <1>3
<1> HIDE DEF j
<1>7. (\A q \in Procs \ {Gui} : proc'[q] = proc[q]) /\ proc'[Gui] = j BY <1>0, <1>1, <1>6 DEF Typed
<1>8. Alone' BY <1>1, <1>2, <1>3, <1>5, <1>7, CallerAlone
<1>9. \A y \in Xfers : row'[y] = row[y] \/ row'[y] = "deleted"
  <2>1. CASE row' = row BY <2>1
  <2>2. CASE DeleteRow(x) BY <1>0, <2>2, SetIs DEF DeleteRow
  <2> QED BY <2>1, <2>2 DEF StorePayload, RequestPull, Cancel
<1>10. ASSUME NEW y \in Xfers PROVE Single(y)' /\ TruthOf(y)'
  <2>1. ~Sending(Gui, y)' BY <1>5, <1>7 DEF Sending
  <2>2. \A c \in Conns : \A k \in Nat : Ordered(c, k, y)' => Ordered(c, k, y) BY <1>2 DEF Ordered
  <2>3. Settles(y) BY <1>2, <1>9 DEF Settles
  <2> QED BY <1>1, <1>2, <1>7, <2>1, <2>2, <2>3, CallerKeeps
<1> QED BY <1>8, <1>9, <1>10 DEF OneInv, Once, Truth, Final

\* A caller that returns has left its transfer.
LEMMA ReturnOne ==
    ASSUME Base, OneInv, NEW p \in Procs, proc[p].pc # "idle", proc' = Return(p),
           UNCHANGED <<up, work>>,
           \A x \in Xfers : \A c \in Conns : \A k \in Nat : Ordered(c, k, x)' => Ordered(c, k, x),
           \A x \in Xfers : Settles(x),
           \A x \in proc[p].todo : row'[x] = row[x]
    PROVE  OneInv'
<1>0. Typed /\ Alone BY DEF Base, OneInv
<1>1. /\ \A q \in Procs \ {p} : proc'[q] = proc[q]
      /\ proc'[p].todo = proc[p].todo /\ proc'[p].pc \in {"idle", "mark"}
  BY <1>0, ReturnIs
<1>2. \A q \in Procs \ {p} : proc[q] = Idle BY OthersIdle
<1>3. \A x \in proc[p].todo : row[x] = "queued" BY <1>0 DEF Alone
<1>4. Alone' BY <1>1, <1>2, <1>3, CallerAlone
<1>5. ASSUME NEW y \in Xfers PROVE Single(y)' /\ TruthOf(y)'
  <2>1. ~Sending(p, y)' BY <1>1 DEF Sending
  <2> QED BY <1>1, <2>1, CallerKeeps
<1> QED BY <1>4, <1>5 DEF OneInv, Once, Truth

\* A transfer that was nowhere is taken by the caller that sends it.
LEMMA TakenOne ==
    ASSUME OneInv, NEW p \in Procs, NEW x \in Xfers, row[x] \in {"none", "queued"}, row'[x] = "running",
           \A q \in Procs \ {p} : proc'[q] = proc[q],
           UNCHANGED <<up, down, work, wrote>>
    PROVE  Single(x)' /\ TruthOf(x)'
<1>1. Away(x) /\ x \notin wrote BY DEF OneInv, Truth, TruthOf
<1>2. \A c \in Conns : \A k \in Nat : ~Ordered(c, k, x)' /\ ~Reported(c, k, x)'
  BY <1>1 DEF Away, Under, Ordered, Reported
<1>3. \A w \in work' : w.x # x BY <1>1 DEF Away, Under
<1>4. Single(x)' BY <1>2, <1>3 DEF Single
<1>5. TruthOf(x)' BY <1>1, <1>2 DEF TruthOf
<1> QED BY <1>4, <1>5

\* ReadOnline.
LEMMA ReadOnlineOne ==
    ASSUME Base, OneInv, ReadOnline
    PROVE  OneInv' /\ Final
<1>0. Typed /\ Tasks BY DEF Base
<1>1. Gui \in Procs BY DEF Procs
<1>2. PICK pc \in {"running", "queued"} : proc' = [proc EXCEPT ![Gui].pc = pc] BY DEF ReadOnline
<1>3. /\ \A q \in Procs \ {Gui} : proc'[q] = proc[q]
      /\ proc'[Gui].pc = pc /\ proc'[Gui].todo = {}
  <2>1. proc[Gui] \in Jobs BY <1>0, <1>1 DEF Typed
  <2> QED BY <1>0, <1>1, <1>2, <2>1 DEF Typed, Jobs, Tasks
<1>4. proc[Gui].pc = "online" /\ UNCHANGED <<row, objs, up, down, work, wrote>>
  BY DEF ReadOnline, netVars, agentVars
<1>5. \A q \in Procs \ {Gui} : proc[q] = Idle BY <1>1, <1>4, OthersIdle
<1>6. Alone' BY <1>1, <1>3, <1>5, CallerAlone
<1>7. ASSUME NEW y \in Xfers PROVE Single(y)' /\ TruthOf(y)'
  <2>1. ~Sending(Gui, y)' BY <1>3 DEF Sending
  <2>2. Settles(y) BY <1>4 DEF Settles
  <2>3. \A c \in Conns : \A k \in Nat : Ordered(c, k, y)' => Ordered(c, k, y) BY <1>4 DEF Ordered
  <2> QED BY <1>1, <1>3, <1>4, <2>1, <2>2, <2>3, CallerKeeps
<1> QED BY <1>4, <1>6, <1>7 DEF OneInv, Once, Truth, Final

\* CreateTransfer and CreateFails.
LEMMA CreateOne ==
    ASSUME Base, OneInv, CreateTransfer \/ CreateFails
    PROVE  OneInv' /\ Final
<1>0. Typed /\ Tasks BY DEF Base
<1>1. Gui \in Procs BY DEF Procs
<1> DEFINE x == proc[Gui].x
<1>2. proc[Gui].pc \in {"running", "queued"} BY DEF CreateTransfer, CreateFails
<1>3. x \in Xfers /\ row[x] = "none" /\ proc[Gui].todo = {} BY <1>0, <1>1, <1>2 DEF Tasks
<1>4. UNCHANGED <<up, down, work, wrote>> BY DEF CreateTransfer, CreateFails, netVars, agentVars
<1>5. \A y \in Xfers : \A c \in Conns : \A k \in Nat : Ordered(c, k, y)' => Ordered(c, k, y)
  BY <1>4 DEF Ordered
<1> HIDE DEF x
<1>6. CASE CreateFails
  <2>1. \A y \in Xfers : row'[y] = IF y = x THEN "deleted" ELSE row[y]
    BY <1>0, <1>3, <1>6, SetIs DEF CreateFails, x
  <2>2. objs' = objs \ {x} /\ proc' = Return(Gui) BY <1>6 DEF CreateFails, Removed, x
  <2>3. \A y \in Xfers : Settles(y) BY <1>4, <2>1, <2>2 DEF Settles
  <2>4. OneInv' BY <1>1, <1>2, <1>3, <1>4, <1>5, <2>2, <2>3, ReturnOne
  <2> QED BY <2>1, <2>4 DEF Final
<1>7. CASE CreateTransfer
  <2>1. \A y \in Xfers : row'[y] = IF y = x THEN proc[Gui].pc ELSE row[y]
    BY <1>0, <1>2, <1>3, <1>7, SetIs DEF CreateTransfer, Rowed, x
  <2>2. objs' = objs BY <1>7 DEF CreateTransfer
  <2>3. \A y \in Xfers : y # x \/ proc[Gui].pc = "queued" => Settles(y) BY <1>3, <1>4, <2>1, <2>2 DEF Settles
  <2>4. Final BY <1>3, <2>1 DEF Final
  <2>5. CASE proc[Gui].pc = "queued"
    <3>1. proc' = Return(Gui) BY <1>7, <2>5 DEF CreateTransfer
    <3>2. OneInv' BY <1>1, <1>2, <1>3, <1>4, <1>5, <2>3, <2>5, <3>1, ReturnOne
    <3> QED BY <2>4, <3>2
  <2>6. CASE proc[Gui].pc = "running"
    <3>1. proc[Gui] \in Jobs BY <1>0, <1>1 DEF Typed
    <3>2. proc' = [proc EXCEPT ![Gui].pc = "send"] BY <1>7, <2>6 DEF CreateTransfer
    <3>3. /\ \A q \in Procs \ {Gui} : proc'[q] = proc[q]
          /\ proc'[Gui].pc = "send" /\ proc'[Gui].x = x /\ proc'[Gui].todo = {}
      BY <1>0, <1>1, <1>3, <3>1, <3>2 DEF Typed, Jobs, x
    <3>4. \A q \in Procs \ {Gui} : proc[q] = Idle BY <1>1, <2>6, OthersIdle
    <3>5. row'[x] = "running" BY <1>3, <2>1, <2>6
    <3>6. Alone' BY <1>1, <3>3, <3>4, <3>5, CallerAlone
    <3>7. ASSUME NEW y \in Xfers PROVE Single(y)' /\ TruthOf(y)'
      <4>1. CASE y = x BY <1>1, <1>3, <1>4, <3>3, <3>5, <4>1, TakenOne
      <4>2. CASE y # x
        <5>1. ~Sending(Gui, y)' BY <3>3, <4>2 DEF Sending
        <5> QED BY <1>1, <1>4, <1>5, <2>3, <3>3, <4>2, <5>1, CallerKeeps
      <4> QED BY <4>1, <4>2
    <3> QED BY <2>4, <3>6, <3>7 DEF OneInv, Once, Truth
  <2> QED BY <1>2, <2>5, <2>6
<1> QED BY <1>6, <1>7

\* CancelQueued and DeleteObject.
LEMMA GuiEndOne ==
    ASSUME Base, OneInv, CancelQueued \/ DeleteObject
    PROVE  OneInv' /\ Final
<1>0. Typed /\ Tasks /\ Alone BY DEF Base, OneInv
<1>1. Gui \in Procs BY DEF Procs
<1>2. proc[Gui].pc \in {"cancel", "object"} /\ proc' = Return(Gui) BY DEF CancelQueued, DeleteObject
<1>3. proc[Gui].x \in Xfers /\ proc[Gui].todo = {} BY <1>0, <1>1, <1>2 DEF Tasks
<1>4. UNCHANGED <<up, down, work, wrote>> BY DEF CancelQueued, DeleteObject, netVars, agentVars
<1>5. \A y \in Xfers : \A c \in Conns : \A k \in Nat : Ordered(c, k, y)' => Ordered(c, k, y)
  BY <1>4 DEF Ordered
<1>6. (\A y \in Xfers : Settles(y)) /\ Final
  <2>1. CASE CancelQueued
    <3>1. row[proc[Gui].x] = "queued" BY <1>0, <2>1 DEF Alone, CancelQueued
    <3>2. \A y \in Xfers : row'[y] = IF y = proc[Gui].x THEN "cancelled" ELSE row[y]
      BY <1>0, <1>3, <2>1, <3>1, UpdateIs DEF CancelQueued, Rowed, Ended
    <3> QED BY <1>4, <2>1, <3>1, <3>2 DEF Settles, Final, CancelQueued
  <2>2. CASE DeleteObject
    <3>1. row' = row /\ objs' = objs \ {proc[Gui].x} /\ row[proc[Gui].x] = "deleted"
      BY <1>0, <2>2 DEF DeleteObject, Removed, Tasks
    <3> QED BY <1>4, <3>1 DEF Settles, Final
  <2> QED BY <2>1, <2>2
<1>7. OneInv' BY <1>1, <1>2, <1>3, <1>4, <1>5, <1>6, ReturnOne
<1> QED BY <1>6, <1>7

\* hub.Send: Lookup, Put and PutFails.
LEMMA SendOne ==
    ASSUME Base, OneInv, NEW p \in Procs, Lookup(p) \/ Put(p) \/ PutFails(p)
    PROVE  OneInv' /\ Final
<1>0. Typed /\ Tasks /\ Alone BY DEF Base, OneInv
<1>1. proc[p].pc \in {"send", "stop", "put", "putStop"} BY DEF Lookup, Put, PutFails
<1>2. proc[p].x \in Xfers /\ proc[p] \in Jobs BY <1>0, <1>1 DEF Tasks, Typed
<1>x. PICK x \in Xfers : x = proc[p].x BY <1>2
<1>3. UNCHANGED <<up, work, wrote, objs>> BY DEF Lookup, Put, PutFails, netVars, agentVars
<1>4. proc[p].pc \in {"send", "put"} => row[x] \in {"running", "error"} BY <1>0, <1>x DEF Alone
<1>5. \A y \in proc[p].todo : row[y] = "queued" /\ y \in Xfers BY <1>0, <1>2 DEF Alone, Jobs
<1>6. CASE PutFails(p) \/ (Lookup(p) /\ hub = 0)
  <2>1. \/ row' = row
        \/ /\ proc[p].pc \in {"send", "put"}
           /\ \A y \in Xfers : row'[y] = IF y = x THEN "error" ELSE row[y]
    <3>1. CASE Unsent(x) /\ proc[p].pc \in {"send", "put"}
      <4>1. \A y \in Xfers : row'[y] = IF y = x /\ row[x] \in Rowed THEN "error" ELSE row[y]
        BY <1>0, <1>2, <3>1, UpdateIs DEF Unsent, Rowed, Ended
      <4>2. row[x] \in Rowed BY <1>4, <3>1 DEF Rowed, Ended
      <4> QED BY <3>1, <4>1, <4>2
    <3> QED BY <1>6, <1>x, <3>1 DEF PutFails, Lookup
  <2>2. proc' = Return(p) /\ down' = down BY <1>6 DEF PutFails, Lookup, netVars
  <2>3. \A y \in Xfers : Settles(y) BY <1>3, <1>4, <2>1 DEF Settles
  <2>4. \A y \in Xfers : \A c \in Conns : \A k \in Nat : Ordered(c, k, y)' => Ordered(c, k, y)
    BY <2>2 DEF Ordered
  <2>5. \A y \in proc[p].todo : row'[y] = row[y] BY <1>4, <1>5, <2>1
  <2>6. OneInv' BY <1>1, <1>3, <2>2, <2>3, <2>4, <2>5, ReturnOne
  <2>7. Final BY <1>4, <2>1 DEF Final
  <2> QED BY <2>6, <2>7
<1>7. CASE Lookup(p) /\ hub # 0
  <2>1. proc' = [proc EXCEPT ![p].via = hub, ![p].pc = IF @ = "send" THEN "put" ELSE "putStop"]
        /\ UNCHANGED <<row, down>>
    BY <1>7 DEF Lookup, netVars
  <2>2. /\ \A q \in Procs \ {p} : proc'[q] = proc[q]
        /\ proc'[p].todo = proc[p].todo /\ proc'[p].x = x
        /\ proc'[p].pc = IF proc[p].pc = "send" THEN "put" ELSE "putStop"
    BY <1>0, <1>2, <1>x, <2>1 DEF Typed, Jobs
  <2>3. \A q \in Procs \ {p} : proc[q] = Idle BY <1>1, OthersIdle
  <2>s. row' = row BY <2>1
  <2>4. Alone' BY <1>4, <1>5, <2>s, <2>2, <2>3, CallerAlone
  <2>5. ASSUME NEW y \in Xfers PROVE Single(y)' /\ TruthOf(y)'
    <3>1. Sending(p, y)' => Sending(p, y) BY <1>7, <1>x, <2>2 DEF Sending, Lookup
    <3>2. Settles(y) BY <1>3, <2>1 DEF Settles
    <3>3. \A c \in Conns : \A k \in Nat : Ordered(c, k, y)' => Ordered(c, k, y) BY <2>1 DEF Ordered
    <3> QED BY <1>3, <2>2, <3>1, <3>2, <3>3, CallerKeeps
  <2> QED BY <2>1, <2>4, <2>5 DEF OneInv, Once, Truth, Final
<1>8. CASE Put(p)
  <2>c. PICK c \in Conns : c = proc[p].via
    <3>1. proc[p].via \in 1..made /\ made \in 0..MaxConn BY <1>0, <1>8 DEF Put, Tasks, Typed
    <3> QED BY <3>1, TransfersAssumption DEF Conns
  <2> DEFINE m == [type |-> IF proc[p].pc = "put" THEN "start" ELSE "cancel", x |-> x]
  <2>1. /\ down' = IF link = c THEN [down EXCEPT ![c] = Append(@, m)] ELSE down
        /\ row' = row /\ proc' = Return(p)
    BY <1>8, <1>x, <2>c DEF Put
  <2>2. m \in Orders /\ m.x = x /\ (m.type = "start" <=> proc[p].pc = "put") BY <1>2 DEF Orders
  <2>3. down \in [Conns -> Seq(Orders)] BY <1>0 DEF Typed
  <2> HIDE DEF m
  <2>4. ASSUME NEW y \in Xfers, NEW d \in Conns, NEW k \in Nat, Ordered(d, k, y)', ~Ordered(d, k, y)
        PROVE  y = x /\ proc[p].pc = "put" /\ d = c /\ k = Len(down[c]) + 1
    <3>1. link = c /\ down'[c] = Append(down[c], m) /\ down[c] \in Seq(Orders) /\ d = c
      BY <2>1, <2>3, <2>4 DEF Ordered
    <3>2. k \in 1..Len(down'[c]) /\ down'[c][k].x = y /\ down'[c][k].type = "start"
      BY <2>4, <3>1 DEF Ordered
    <3>3. k \notin 1..Len(down[c]) BY <2>2, <2>4, <3>1, <3>2 DEF Ordered
    <3>4. k = Len(down[c]) + 1 /\ down'[c][k] = m BY <2>2, <3>1, <3>2, <3>3
    <3> QED BY <2>2, <3>1, <3>2, <3>4
  <2>5. \A y \in Xfers : Settles(y) BY <1>3, <2>1 DEF Settles
  <2>6. Final BY <2>1 DEF Final
  <2>7. CASE proc[p].pc # "put"
    <3>1. \A y \in Xfers : \A d \in Conns : \A k \in Nat : Ordered(d, k, y)' => Ordered(d, k, y)
      BY <2>4, <2>7
    <3>2. OneInv' BY <1>1, <1>3, <2>1, <2>5, <3>1, ReturnOne
    <3> QED BY <2>6, <3>2
  <2>8. CASE proc[p].pc = "put"
    <3>1. /\ \A q \in Procs \ {p} : proc'[q] = proc[q]
          /\ proc'[p].todo = proc[p].todo /\ proc'[p].pc \in {"idle", "mark"}
      BY <1>0, <2>1, ReturnIs
    <3>2. \A q \in Procs \ {p} : proc[q] = Idle BY <1>1, OthersIdle
    <3>3. Alone' BY <1>5, <2>1, <3>1, <3>2, CallerAlone
    <3>4. ASSUME NEW y \in Xfers, y # x PROVE Single(y)' /\ TruthOf(y)'
      <4>1. ~Sending(p, y)' BY <3>1 DEF Sending
      <4>2. \A d \in Conns : \A k \in Nat : Ordered(d, k, y)' => Ordered(d, k, y) BY <2>4, <3>4
      <4> QED BY <1>3, <2>5, <3>1, <4>1, <4>2, CallerKeeps
    <3>5. Single(x)' /\ TruthOf(x)'
      <4>1. Sending(p, x) /\ Single(x) /\ TruthOf(x) BY <1>x, <2>8 DEF Sending, OneInv, Once, Truth
      <4>2. /\ \A d \in Conns : \A k \in Nat : ~Ordered(d, k, x) /\ ~Reported(d, k, x)
            /\ \A w \in work : w.x # x
        BY <4>1 DEF Single
      <4>3. \A d \in Conns : \A k \in Nat : Ordered(d, k, x)' => d = c /\ k = Len(down[c]) + 1
        BY <1>2, <2>4, <4>2
      <4>4. \A q \in Procs : ~Sending(q, x)'
        BY <1>2, <3>1, <3>2, IdleIs, TransfersAssumption DEF Sending
      <4>5. \A d \in Conns : \A k \in Nat : ~Reported(d, k, x)' BY <1>3, <4>2 DEF Reported
      <4>6. \A w \in work' : w.x # x BY <1>3, <4>2
      <4>7. Single(x)' BY <4>3, <4>4, <4>5, <4>6 DEF Single
      <4>8. x \notin wrote' /\ row'[x] \in {"running", "error"} BY <1>3, <1>4, <2>1, <2>8, <4>1 DEF TruthOf, Under
      <4>9. TruthOf(x)' BY <4>5, <4>8 DEF TruthOf
      <4> QED BY <4>7, <4>9
    <3> QED BY <2>6, <3>3, <3>4, <3>5 DEF OneInv, Once, Truth
  <2> QED BY <2>7, <2>8
<1> QED BY <1>6, <1>7, <1>8

\* MarkStarted: the transfer it takes is still queued.
LEMMA MarkOne ==
    ASSUME Base, OneInv, NEW c \in Conns, NEW x \in Xfers, MarkStarted(c, x)
    PROVE  OneInv' /\ Final
<1>0. Typed /\ Tasks /\ Alone BY DEF Base, OneInv
<1>1. c \in Procs /\ c # Gui BY DEF Gui, Procs, Conns
<1>2. proc[c].pc = "mark" /\ x \in proc[c].todo /\ UNCHANGED <<objs, up, down, work, wrote>>
  BY DEF MarkStarted, netVars, agentVars
<1>3. \A y \in proc[c].todo : row[y] = "queued" BY <1>0, <1>1 DEF Alone
<1>4. \A y \in Xfers : row'[y] = IF y = x THEN "running" ELSE row[y]
  BY <1>0, <1>2, <1>3, UpdateIs DEF MarkStarted, Rowed
<1>5. proc[c] \in Jobs BY <1>0, <1>1 DEF Typed
<1> DEFINE j == [Idle EXCEPT !.pc = "send", !.x = x, !.todo = proc[c].todo \ {x}]
<1>6. j \in Jobs BY <1>5, IdleIs DEF Jobs, GuiPcs
<1>7. j.pc = "send" /\ j.x = x /\ j.todo = proc[c].todo \ {x} BY IdleIs, <1>6 DEF Jobs
<1>8. proc' = [proc EXCEPT ![c] = j] BY DEF MarkStarted
<1> HIDE DEF j
<1>9. (\A q \in Procs \ {c} : proc'[q] = proc[q]) /\ proc'[c] = j BY <1>0, <1>1, <1>8 DEF Typed
<1>10. \A q \in Procs \ {c} : proc[q] = Idle BY <1>1, <1>2, OthersIdle
<1>11. \A y \in j.todo : row'[y] = "queued"
  <2>1. proc[c].todo \subseteq Xfers BY <1>5 DEF Jobs
  <2> QED BY <1>3, <1>4, <1>7, <2>1
<1>12. Alone' BY <1>1, <1>4, <1>7, <1>9, <1>10, <1>11, CallerAlone
<1>13. ASSUME NEW y \in Xfers PROVE Single(y)' /\ TruthOf(y)'
  <2>1. CASE y = x BY <1>1, <1>2, <1>3, <1>4, <1>9, <2>1, TakenOne
  <2>2. CASE y # x
    <3>1. ~Sending(c, y)' BY <1>7, <1>9, <2>2 DEF Sending
    <3>2. Settles(y) BY <1>2, <1>4, <2>2 DEF Settles
    <3>3. \A d \in Conns : \A k \in Nat : Ordered(d, k, y)' => Ordered(d, k, y) BY <1>2 DEF Ordered
    <3> QED BY <1>1, <1>2, <1>9, <3>1, <3>2, <3>3, CallerKeeps
  <2> QED BY <2>1, <2>2
<1>14. Final BY <1>2, <1>3, <1>4 DEF Final
<1> QED BY <1>12, <1>13, <1>14 DEF OneInv, Once, Truth

\* Steps that are not the callers': they fail what is running, or change the
\* row of a transfer that no caller has.
LEMMA OtherAlone ==
    ASSUME OneInv, Base, UNCHANGED proc,
           \A x \in Xfers : \/ row'[x] = row[x]
                            \/ row[x] = "running" /\ row'[x] = "error"
                            \/ row[x] # "queued" /\ \A p \in Procs : ~Sending(p, x)
    PROVE  Alone'
<1>0. Typed /\ Tasks /\ Alone BY DEF Base, OneInv
<1>1. Gui \in Procs BY DEF Procs
<1>2. \A p \in Procs : \A x \in proc[p].todo : row'[x] = "queued"
  <2>1. \A p \in Procs : proc[p].todo \subseteq Xfers BY <1>0 DEF Typed, Jobs
  <2> QED BY <1>0, <2>1 DEF Alone
<1>3. proc[Gui].pc = "cancel" => row'[proc[Gui].x] = "queued"
  <2>1. proc[Gui].pc = "cancel" => proc[Gui].x \in Xfers BY <1>0, <1>1 DEF Tasks
  <2> QED BY <1>0, <2>1 DEF Alone
<1>4. ASSUME NEW p \in Procs, proc[p].pc \in {"send", "put"} PROVE row'[proc[p].x] \in {"running", "error"}
  <2>1. proc[p].x \in Xfers /\ Sending(p, proc[p].x) BY <1>0, <1>4 DEF Tasks, Sending
  <2>2. row[proc[p].x] \in {"running", "error"} BY <1>0, <1>4 DEF Alone
  <2> QED BY <2>1, <2>2
<1> QED BY <1>0, <1>2, <1>3, <1>4 DEF Alone

\* They keep what they do not deliver.
LEMMA OtherKeeps ==
    ASSUME OneInv, NEW x \in Xfers, UNCHANGED proc,
           \A c \in Conns : \E o \in Nat : \A k \in Nat : Ordered(c, k, x)' => Ordered(c, k + o, x),
           \A c \in Conns : \E o \in Nat : \A k \in Nat :
              Reported(c, k, x)' => Reported(c, k + o, x) /\ up'[c][k].status = up[c][k + o].status,
           \A w \in work' : w.x = x => \E v \in work : v.x = x,
           \A v, w \in work' : v.x = x /\ w.x = x => v = w,
           Settles(x)
    PROVE  Single(x)' /\ TruthOf(x)'
<1>1. Single(x) /\ TruthOf(x) BY DEF OneInv, Once, Truth
<1>2. \A q \in Procs : Sending(q, x)' => Sending(q, x) BY DEF Sending
<1>3. Shrinks(x) BY <1>2 DEF Shrinks
<1> QED BY <1>1, <1>3, OneKept

\* A queue that is read, emptied or left alone.
Shorter(f, c) == f' = f \/ f'[c] = <<>> \/ f'[c] = f[c] \/ (f[c] # <<>> /\ f'[c] = Tail(f[c]))

LEMMA DownShrinks ==
    ASSUME Base, NEW c \in Conns, NEW x \in Xfers, Shorter(down, c)
    PROVE  \E o \in Nat : \A k \in Nat : Ordered(c, k, x)' => Ordered(c, k + o, x)
<1>1. down[c] \in Seq(Orders) BY DEF Base, Typed
<1>2. CASE down'[c] = <<>> BY <1>2 DEF Ordered
<1>3. CASE down'[c] = down[c]
  <2>1. \A k \in Nat : Ordered(c, k, x)' => Ordered(c, k + 0, x) BY <1>1, <1>3 DEF Ordered
  <2> QED BY <2>1
<1>4. CASE down[c] # <<>> /\ down'[c] = Tail(down[c])
  <2>1. \A k \in 1..Len(down'[c]) : k + 1 \in 1..Len(down[c]) /\ down'[c][k] = down[c][k + 1] BY <1>1, <1>4
  <2>2. \A k \in Nat : Ordered(c, k, x)' => Ordered(c, k + 1, x) BY <2>1 DEF Ordered
  <2> QED BY <2>2
<1> QED BY <1>2, <1>3, <1>4 DEF Shorter

LEMMA UpShrinks ==
    ASSUME Base, NEW c \in Conns, NEW x \in Xfers, Shorter(up, c)
    PROVE  \E o \in Nat : \A k \in Nat :
              Reported(c, k, x)' => Reported(c, k + o, x) /\ up'[c][k].status = up[c][k + o].status
<1>1. up[c] \in Seq(Reports) BY DEF Base, Typed
<1>2. CASE up'[c] = <<>> BY <1>2 DEF Reported
<1>3. CASE up'[c] = up[c]
  <2>1. \A k \in Nat : Reported(c, k, x)' => Reported(c, k + 0, x) /\ up'[c][k].status = up[c][k + 0].status
    BY <1>1, <1>3 DEF Reported
  <2> QED BY <2>1
<1>4. CASE up[c] # <<>> /\ up'[c] = Tail(up[c])
  <2>1. \A k \in 1..Len(up'[c]) : k + 1 \in 1..Len(up[c]) /\ up'[c][k] = up[c][k + 1] BY <1>1, <1>4
  <2>2. \A k \in Nat : Reported(c, k, x)' => Reported(c, k + 1, x) /\ up'[c][k].status = up[c][k + 1].status
    BY <2>1 DEF Reported
  <2> QED BY <2>2
<1> QED BY <1>2, <1>3, <1>4 DEF Shorter

\* Hello.
LEMMA HelloOne ==
    ASSUME Base, Accounted, OneInv, Overlap = FALSE, NEW c \in Conns, Hello(c)
    PROVE  OneInv' /\ Final
<1>0. Typed BY DEF Base
<1>1. c \in Procs /\ c # Gui BY DEF Gui, Procs, Conns
<1>2. UNCHANGED <<row, objs, up, down, work, wrote>> /\ \A q \in Procs \ {c} : proc[q] = Idle
  BY DEF Hello, Free, agentVars
<1> DEFINE j == IF Queued = {} THEN Idle ELSE [Idle EXCEPT !.pc = "mark", !.todo = Queued]
<1>3. j \in Jobs /\ j.pc \in {"idle", "mark"} /\ j.todo = Queued
  <2>1. Queued \subseteq Xfers BY DEF Queued
  <2>2. [Idle EXCEPT !.pc = "mark", !.todo = Queued] \in Jobs BY <2>1, IdleIs DEF Jobs, ConnPcs
  <2> QED BY <2>2, IdleIs DEF Jobs
<1>4. proc' = [proc EXCEPT ![c] = j] BY DEF Hello
<1> HIDE DEF j
<1>5. (\A q \in Procs \ {c} : proc'[q] = proc[q]) /\ proc'[c] = j BY <1>0, <1>1, <1>4 DEF Typed
<1>6. \A y \in j.todo : row'[y] = "queued" BY <1>2, <1>3 DEF Queued
<1>7. Alone' BY <1>1, <1>2, <1>3, <1>5, <1>6, CallerAlone
<1>8. ASSUME NEW y \in Xfers PROVE Single(y)' /\ TruthOf(y)'
  <2>1. ~Sending(c, y)' BY <1>3, <1>5 DEF Sending
  <2>2. Settles(y) BY <1>2 DEF Settles
  <2>3. \A d \in Conns : \A k \in Nat : Ordered(d, k, y)' => Ordered(d, k, y) BY <1>2 DEF Ordered
  <2> QED BY <1>1, <1>2, <1>5, <2>1, <2>2, <2>3, CallerKeeps
<1> QED BY <1>2, <1>7, <1>8 DEF OneInv, Once, Truth, Final

\* Leave, Fail, Connect, Break and Restart move nothing.
LEMMA NetOne ==
    ASSUME Base, OneInv, (\E c \in Conns : Leave(c) \/ Fail(c)) \/ Connect \/ Break \/ Restart
    PROVE  OneInv' /\ Final
<1>0. Typed BY DEF Base
<1>1. UNCHANGED <<proc, wrote>> /\ work' \subseteq work BY DEF Leave, Fail, Connect, Break, Restart, agentVars
<1>2. \A d \in Conns : Shorter(down, d) /\ Shorter(up, d)
  BY <1>0 DEF Leave, Fail, Connect, Break, Restart, Shorter, Typed
<1>3. \A y \in Xfers : row'[y] = row[y] \/ (row[y] = "running" /\ row'[y] = "error")
  BY DEF Leave, Fail, Connect, Break, Restart, Failed
<1>4. \A y \in Xfers : y \in objs => y \in objs' \/ \E w \in work : w.x = y
  BY DEF Leave, Fail, Connect, Break, Restart
<1>5. Alone' BY <1>1, <1>3, OtherAlone
<1>6. ASSUME NEW y \in Xfers PROVE Single(y)' /\ TruthOf(y)'
  <2>1. Settles(y) BY <1>1, <1>3, <1>4 DEF Settles
  <2>2. \A v, w \in work' : v.x = y /\ w.x = y => v = w BY <1>1 DEF OneInv, Once, Single
  <2>3. \A c \in Conns : \E o \in Nat : \A k \in Nat : Ordered(c, k, y)' => Ordered(c, k + o, y)
    BY <1>2, DownShrinks
  <2>4. \A c \in Conns : \E o \in Nat : \A k \in Nat :
              Reported(c, k, y)' => Reported(c, k + o, y) /\ up'[c][k].status = up[c][k + o].status
    BY <1>2, UpShrinks
  <2> QED BY <1>1, <2>1, <2>2, <2>3, <2>4, OtherKeeps
<1> QED BY <1>3, <1>5, <1>6 DEF OneInv, Once, Truth, Final

\* Report: what the agent says is so, and the transfer is nowhere any more.
LEMMA ReportOne ==
    ASSUME Base, OneInv, NEW c \in Conns, Report(c)
    PROVE  OneInv' /\ Final
<1>0. Typed BY DEF Base
<1>1. /\ up[c] # <<>> /\ up' = [up EXCEPT ![c] = Tail(@)]
      /\ UNCHANGED <<objs, proc, down, work, wrote>>
  BY DEF Report, agentVars
<1>2. up[c] \in Seq(Reports) /\ Head(up[c]) \in Reports /\ Head(up[c]) = up[c][1] /\ 1 \in 1..Len(up[c])
  BY <1>0, <1>1 DEF Typed
<1>3. PICK r \in Reports : r = Head(up[c]) BY <1>2
<1>4. PICK x \in Xfers : x = r.x BY DEF Reports
<1>5. Reported(c, 1, x) /\ r.status \in Ended /\ r.status \in Rowed
  BY <1>2, <1>3, <1>4 DEF Reported, Reports, Rowed
<1>6. \A y \in Xfers : row'[y] = IF y = x /\ row[x] \in Rowed THEN r.status ELSE row[y]
  BY <1>0, <1>3, <1>4, <1>5, UpdateIs DEF Report
<1>7. Single(x) /\ TruthOf(x) BY DEF OneInv, Once, Truth
<1>8. /\ \A p \in Procs : ~Sending(p, x)
      /\ \A d \in Conns : \A k \in Nat : ~Ordered(d, k, x)
      /\ \A w \in work : w.x # x
      /\ \A d \in Conns : \A k \in Nat : Reported(d, k, x) => d = c /\ k = 1
  <2>1. 1 \in Nat OBVIOUS
  <2> QED BY <1>5, <1>7, <2>1 DEF Single
<1>9. row[x] \notin {"none", "queued", "success", "cancelled"} BY <1>5, <1>7 DEF TruthOf, Away
<1>10. Alone' BY <1>1, <1>6, <1>8, <1>9, OtherAlone
<1>11. \A d \in Conns : Shorter(down, d) /\ Shorter(up, d) BY <1>0, <1>1 DEF Shorter, Typed
<1>12. ASSUME NEW y \in Xfers
       PROVE  /\ \A d \in Conns : \E o \in Nat : \A k \in Nat : Ordered(d, k, y)' => Ordered(d, k + o, y)
              /\ \A d \in Conns : \E o \in Nat : \A k \in Nat :
                   Reported(d, k, y)' => Reported(d, k + o, y) /\ up'[d][k].status = up[d][k + o].status
              /\ \A v, w \in work' : v.x = y /\ w.x = y => v = w
  BY <1>1, <1>11, DownShrinks, UpShrinks DEF OneInv, Once, Single
<1>13. ASSUME NEW y \in Xfers, y # x PROVE Single(y)' /\ TruthOf(y)'
  <2>1. Settles(y) BY <1>1, <1>6, <1>13 DEF Settles
  <2> QED BY <1>1, <1>12, <2>1, OtherKeeps
<1>14. Single(x)' /\ TruthOf(x)'
  <2>1. \A p \in Procs : ~Sending(p, x)' BY <1>1, <1>8 DEF Sending
  <2>2. \A d \in Conns : \A k \in Nat : ~Ordered(d, k, x)' BY <1>1, <1>8 DEF Ordered
  <2>3. ASSUME NEW d \in Conns, NEW k \in Nat, Reported(d, k, x)' PROVE FALSE
    <3>1. CASE d # c
      <4>1. up'[d] = up[d] BY <1>0, <1>1, <3>1 DEF Typed
      <4> QED BY <1>8, <2>3, <3>1, <4>1 DEF Reported
    <3>2. CASE d = c
      <4>1. up'[c] = Tail(up[c]) BY <1>0, <1>1 DEF Typed
      <4>0. k \in 1..Len(up'[c]) BY <2>3, <3>2 DEF Reported
      <4>2. k + 1 \in 1..Len(up[c]) /\ up'[c][k] = up[c][k + 1] /\ k # 0 /\ k + 1 \in Nat
        <5>1. up[c] # <<>> /\ up[c] \in Seq(Reports) BY <1>1, <1>2
        <5>2. Len(up'[c]) = Len(up[c]) - 1 /\ Len(up[c]) \in Nat BY <4>1, <5>1
        <5>3. k + 1 \in 1..Len(up[c]) /\ k # 0 /\ k + 1 \in Nat BY <4>0, <5>2
        <5>4. up'[c][k] = up[c][k + 1] BY <4>0, <4>1, <5>1
        <5> QED BY <5>3, <5>4
      <4>3. Reported(c, k + 1, x) BY <2>3, <3>2, <4>2 DEF Reported
      <4>4. k + 1 = 1 BY <1>8, <4>2, <4>3
      <4> QED BY <4>2, <4>4
    <3> QED BY <3>1, <3>2
  <2>4. \A w \in work' : w.x # x BY <1>1, <1>8
  <2>5. Single(x)' BY <2>1, <2>2, <2>3, <2>4 DEF Single
  <2>6. Away(x)' BY <2>1, <2>2, <2>3, <2>4 DEF Away, Under
  <2>7. IF r.status = "success" THEN row[x] = "deleted" \/ Delivered(x) ELSE x \notin wrote
    <3>1. up[c][1].status = r.status BY <1>2, <1>3
    <3> QED BY <1>5, <1>7, <3>1 DEF TruthOf
  <2>8. Delivered(x)' <=> Delivered(x) BY <1>1 DEF Delivered
  <2>9. row[x] \in Rowed => row[x] # "deleted" BY DEF Rowed, Ended
  <2>10. CASE row[x] \in Rowed
    <3>1. row'[x] = r.status BY <1>6, <2>10
    <3>2. row'[x] \in Ended BY <1>5, <3>1
    <3>3. row'[x] = "success" => Delivered(x)' BY <2>7, <2>8, <2>9, <2>10, <3>1
    <3>4. row'[x] \in {"none", "queued", "cancelled"} => x \notin wrote' BY <1>1, <2>7, <3>1, <3>2 DEF Ended
    <3>5. TruthOf(x)' BY <2>3, <2>6, <3>3, <3>4 DEF TruthOf, Away
    <3> QED BY <2>5, <3>5
  <2>11. CASE row[x] \notin Rowed
    <3>1. row'[x] = row[x] BY <1>6, <2>11
    <3>2. TruthOf(x)' BY <1>9, <2>3, <2>6, <3>1 DEF TruthOf, Away
    <3> QED BY <2>5, <3>2
  <2> QED BY <2>10, <2>11
<1>15. Final BY <1>6, <1>9 DEF Final
<1> QED BY <1>10, <1>13, <1>14, <1>15 DEF OneInv, Once, Truth

\* Receive: the order that is read becomes a goroutine.
LEMMA ReceiveOne ==
    ASSUME Base, OneInv, Receive
    PROVE  OneInv' /\ Final
<1>0. Typed BY DEF Base
<1>1. PICK l \in Conns : l = link BY <1>0, TransfersAssumption DEF Typed, Conns, Receive
<1>2. down[l] # <<>> /\ down' = [down EXCEPT ![l] = Tail(@)] /\ UNCHANGED <<row, objs, proc, up, wrote, xfers>>
  BY <1>1 DEF Receive
<1>3. down[l] \in Seq(Orders) /\ Head(down[l]) \in Orders /\ Head(down[l]) = down[l][1] /\ 1 \in 1..Len(down[l])
  BY <1>0, <1>2 DEF Typed
<1>4. PICK m \in Orders : m = Head(down[l]) BY <1>3
<1>5. PICK x \in Xfers : x = m.x BY DEF Orders
<1>6. Alone' BY <1>2, OtherAlone
<1>7. \A d \in Conns : Shorter(down, d) /\ Shorter(up, d) BY <1>0, <1>2 DEF Shorter, Typed
<1>8. ASSUME NEW y \in Xfers
      PROVE  /\ \A d \in Conns : \E o \in Nat : \A k \in Nat : Ordered(d, k, y)' => Ordered(d, k + o, y)
             /\ \A d \in Conns : \E o \in Nat : \A k \in Nat :
                   Reported(d, k, y)' => Reported(d, k + o, y) /\ up'[d][k].status = up[d][k + o].status
  BY <1>7, DownShrinks, UpShrinks
<1>9. \A y \in Xfers : Settles(y) BY <1>2 DEF Settles
<1>10. Final BY <1>2 DEF Final
<1>11. CASE m.type # "start"
  <2>1. work' = {IF v.x = m.x /\ v.n = xfers[m.x] THEN [v EXCEPT !.stop = TRUE] ELSE v : v \in work}
    BY <1>1, <1>4, <1>11 DEF Receive
  <2>2. \A w \in work : [w EXCEPT !.stop = TRUE].x = w.x BY <1>0 DEF Typed, Workers
  <2>3. ASSUME NEW y \in Xfers PROVE Single(y)' /\ TruthOf(y)'
    <3>1. \A w \in work' : w.x = y => \E v \in work : v.x = y BY <2>1, <2>2
    <3>2. ASSUME NEW v \in work', NEW w \in work', v.x = y, w.x = y PROVE v = w
      <4>1. PICK a \in work : v = IF a.x = m.x /\ a.n = xfers[m.x] THEN [a EXCEPT !.stop = TRUE] ELSE a
        BY <2>1, <3>2
      <4>2. PICK b \in work : w = IF b.x = m.x /\ b.n = xfers[m.x] THEN [b EXCEPT !.stop = TRUE] ELSE b
        BY <2>1, <3>2
      <4>3. a.x = y /\ b.x = y BY <2>2, <3>2, <4>1, <4>2
      <4>4. a = b BY <4>3 DEF OneInv, Once, Single
      <4> QED BY <4>1, <4>2, <4>4
    <3> QED BY <1>2, <1>8, <1>9, <3>1, <3>2, OtherKeeps
  <2> QED BY <1>6, <1>10, <2>3 DEF OneInv, Once, Truth
<1>12. CASE m.type = "start"
  <2>1. PICK v : v.x = x /\ work' = work \cup {v}
    BY <1>1, <1>4, <1>5, <1>12 DEF Receive
  <2>2. Ordered(l, 1, x) BY <1>3, <1>4, <1>5, <1>12 DEF Ordered
  <2>3. Single(x) /\ TruthOf(x) BY DEF OneInv, Once, Truth
  <2>4. /\ \A p \in Procs : ~Sending(p, x)
        /\ \A d \in Conns : \A k \in Nat : ~Reported(d, k, x)
        /\ \A w \in work : w.x # x
        /\ \A d \in Conns : \A k \in Nat : Ordered(d, k, x) => d = l /\ k = 1
    <3>1. 1 \in Nat OBVIOUS
    <3> QED BY <2>2, <2>3, <3>1 DEF Single
  <2>5. ASSUME NEW y \in Xfers, y # x PROVE Single(y)' /\ TruthOf(y)'
    <3>1. \A w \in work' : w.x = y => w \in work BY <2>1, <2>5
    <3>2. \A u, w \in work' : u.x = y /\ w.x = y => u = w BY <3>1 DEF OneInv, Once, Single
    <3> QED BY <1>2, <1>8, <1>9, <3>1, <3>2, OtherKeeps
  <2>6. Single(x)' /\ TruthOf(x)'
    <3>1. \A p \in Procs : ~Sending(p, x)' BY <1>2, <2>4 DEF Sending
    <3>2. \A d \in Conns : \A k \in Nat : ~Reported(d, k, x)' BY <1>2, <2>4 DEF Reported
    <3>3. ASSUME NEW d \in Conns, NEW k \in Nat, Ordered(d, k, x)' PROVE FALSE
      <4>1. CASE d # l
        <5>1. down'[d] = down[d] BY <1>0, <1>2, <4>1 DEF Typed
        <5> QED BY <2>4, <3>3, <4>1, <5>1 DEF Ordered
      <4>2. CASE d = l
        <5>1. down'[l] = Tail(down[l]) BY <1>0, <1>2 DEF Typed
        <5>0. k \in 1..Len(down'[l]) BY <3>3, <4>2 DEF Ordered
        <5>2. k + 1 \in 1..Len(down[l]) /\ down'[l][k] = down[l][k + 1] /\ k # 0 /\ k + 1 \in Nat
          <6>1. down[l] # <<>> /\ down[l] \in Seq(Orders) BY <1>2, <1>3
          <6>2. Len(down'[l]) = Len(down[l]) - 1 /\ Len(down[l]) \in Nat BY <5>1, <6>1
          <6>3. k + 1 \in 1..Len(down[l]) /\ k # 0 /\ k + 1 \in Nat BY <5>0, <6>2
          <6>4. down'[l][k] = down[l][k + 1] BY <5>0, <5>1, <6>1
          <6> QED BY <6>3, <6>4
        <5>3. Ordered(l, k + 1, x) BY <3>3, <4>2, <5>2 DEF Ordered
        <5>4. k + 1 = 1 BY <2>4, <5>2, <5>3
        <5> QED BY <5>2, <5>4
      <4> QED BY <4>1, <4>2
    <3>4. \A u, w \in work' : u.x = x /\ w.x = x => u = w BY <2>1, <2>4
    <3>5. Single(x)' BY <3>1, <3>2, <3>3, <3>4 DEF Single
    <3>6. Under(x) /\ ~Away(x) /\ x \notin wrote BY <2>2, <2>3 DEF Under, Away, TruthOf
    <3>7. TruthOf(x)' BY <1>2, <2>3, <3>2, <3>6 DEF TruthOf
    <3> QED BY <3>5, <3>7
  <2> QED BY <1>6, <1>10, <2>5, <2>6 DEF OneInv, Once, Truth
<1> QED BY <1>11, <1>12

\* A goroutine goes on.
LEMMA StepOne ==
    ASSUME Base, OneInv, NEW w \in work, NEW pc, work' = Step(w, pc),
           UNCHANGED <<row, objs, proc, netVars, born, disk, wrote, asked, lost>>
    PROVE  OneInv' /\ Final
<1>0. Typed BY DEF Base
<1>1. UNCHANGED <<row, objs, proc, up, down, wrote>> BY DEF netVars
<1>2. Alone' BY <1>1, OtherAlone
<1>3. [w EXCEPT !.pc = pc].x = w.x BY <1>0 DEF Typed, Workers
<1> DEFINE u == [w EXCEPT !.pc = pc]
<1>4. work' = (work \ {w}) \cup {u} /\ u.x = w.x BY <1>3 DEF Step
<1> HIDE DEF u
<1>5. ASSUME NEW y \in Xfers PROVE Single(y)' /\ TruthOf(y)'
  <2>1. Settles(y) BY <1>1 DEF Settles
  <2>2. \A v \in work' : v.x = y => \E a \in work : a.x = y BY <1>4
  <2>3. \A a, b \in work : a.x = y /\ b.x = y => a = b BY DEF OneInv, Once, Single
  <2>4. \A a, b \in work' : a.x = y /\ b.x = y => a = b BY <1>4, <2>3
  <2>5. \A c \in Conns : Shorter(down, c) /\ Shorter(up, c) BY <1>1 DEF Shorter
  <2>6. \A c \in Conns : \E o \in Nat : \A k \in Nat : Ordered(c, k, y)' => Ordered(c, k + o, y)
    BY <2>5, DownShrinks
  <2>7. \A c \in Conns : \E o \in Nat : \A k \in Nat :
              Reported(c, k, y)' => Reported(c, k + o, y) /\ up'[c][k].status = up[c][k + o].status
    BY <2>5, UpShrinks
  <2> QED BY <1>1, <2>1, <2>2, <2>4, <2>6, <2>7, OtherKeeps
<1> QED BY <1>1, <1>2, <1>5 DEF OneInv, Once, Truth, Final

\* A goroutine ends, and what it reports is so.
LEMMA EndOne ==
    ASSUME Base, OneInv, NEW w \in work, NEW st \in Ended, Finish(w, st),
           \/ st # "success" /\ objs' = objs /\ UNCHANGED <<disk, wrote>>
           \/ st # "success" /\ w.pc = "storing" /\ objs' = objs \ {w.x} /\ UNCHANGED <<disk, wrote>>
           \/ st = "success" /\ w.pc = "rename" /\ objs' = objs /\ disk' = w.x /\ wrote' = wrote \cup {w.x}
           \/ st = "success" /\ w.pc = "storing" /\ objs' = objs \cup {w.x} /\ UNCHANGED <<disk, wrote>>
    PROVE  OneInv' /\ Final
<1>0. Typed /\ Payloads BY DEF Base
<1>1. /\ work' = work \ {w}
      /\ \A c \in Conns : c # link => up'[c] = up[c]
      /\ link = 0 => up' = up
      /\ link # 0 => up'[link] = Append(up[link], [x |-> w.x, status |-> st])
      /\ UNCHANGED <<row, proc, hub, handler, down, link, made, born, asked, lost>>
  BY FinishIs
<1>2. PICK x \in Xfers : x = w.x BY <1>0 DEF Typed, Workers
<1>3. Alone' BY <1>1, OtherAlone
<1> DEFINE r == [x |-> x, status |-> st]
<1>4. r \in Reports /\ r.x = x /\ r.status = st BY DEF Reports
<1>5. link # 0 => link \in Conns /\ up'[link] = Append(up[link], r)
  <2>1. link # 0 => link \in Conns BY <1>0, TransfersAssumption DEF Typed, Conns
  <2>2. [x |-> w.x, status |-> st] = r BY <1>2
  <2> QED BY <1>1, <2>1, <2>2
<1>6. \A c \in Conns : up[c] \in Seq(Reports) BY <1>0 DEF Typed
<1> HIDE DEF r
<1>7. ASSUME NEW y \in Xfers, NEW c \in Conns, NEW k \in Nat, Reported(c, k, y)'
      PROVE  \/ Reported(c, k, y) /\ up'[c][k].status = up[c][k].status
             \/ y = x /\ c = link /\ k = Len(up[c]) + 1 /\ up'[c][k].status = st
  <2>1. CASE up'[c] = up[c] BY <1>7, <2>1 DEF Reported
  <2>2. CASE c = link /\ up'[c] = Append(up[c], r)
    <3>1. k \in 1..Len(up'[c]) /\ up'[c][k].x = y BY <1>7 DEF Reported
    <3>2. CASE k \in 1..Len(up[c])
      <4>1. up'[c][k] = up[c][k] BY <1>4, <1>6, <2>2, <3>2
      <4> QED BY <3>1, <3>2, <4>1 DEF Reported
    <3>3. CASE k \notin 1..Len(up[c])
      <4>1. k = Len(up[c]) + 1 /\ up'[c][k] = r BY <1>4, <1>6, <2>2, <3>1, <3>3
      <4> QED BY <1>4, <2>2, <3>1, <4>1
    <3> QED BY <3>2, <3>3
  <2>3. c \in Conns /\ (c = link => link # 0) BY DEF Conns
  <2> QED BY <1>1, <1>5, <2>1, <2>2, <2>3
<1>8. ASSUME NEW y \in Xfers, y # x PROVE Single(y)' /\ TruthOf(y)'
  <2>1. Settles(y) BY <1>1, <1>2, <1>8 DEF Settles
  <2>2. \A a, b \in work' : a.x = y /\ b.x = y => a = b BY <1>1 DEF OneInv, Once, Single
  <2>3. \A c \in Conns : Shorter(down, c) BY <1>1 DEF Shorter
  <2>4. \A c \in Conns : \E o \in Nat : \A k \in Nat : Ordered(c, k, y)' => Ordered(c, k + o, y)
    BY <2>3, DownShrinks
  <2>5. ASSUME NEW c \in Conns
        PROVE  \E o \in Nat : \A k \in Nat :
                 Reported(c, k, y)' => Reported(c, k + o, y) /\ up'[c][k].status = up[c][k + o].status
    <3>1. \A k \in Nat : Reported(c, k, y)' => Reported(c, k, y) /\ up'[c][k].status = up[c][k].status
      BY <1>7, <1>8
    <3>2. \A k \in Nat : k + 0 = k OBVIOUS
    <3>3. \A k \in Nat : Reported(c, k, y)' => Reported(c, k + 0, y) /\ up'[c][k].status = up[c][k + 0].status
      BY <3>1, <3>2
    <3> QED BY <3>3
  <2> QED BY <1>1, <2>1, <2>2, <2>4, <2>5, OtherKeeps
<1>9. Single(x)' /\ TruthOf(x)'
  <2>1. Single(x) /\ TruthOf(x) /\ Under(x) BY <1>2 DEF OneInv, Once, Truth, Under
  <2>2. /\ \A p \in Procs : ~Sending(p, x)
        /\ \A c \in Conns : \A k \in Nat : ~Ordered(c, k, x) /\ ~Reported(c, k, x)
        /\ \A v \in work : v.x = x => v = w
    BY <1>2, <2>1 DEF Single
  <2>3. \A p \in Procs : ~Sending(p, x)' BY <1>1, <2>2 DEF Sending
  <2>4. \A c \in Conns : \A k \in Nat : ~Ordered(c, k, x)' BY <1>1, <2>2 DEF Ordered
  <2>5. \A v \in work' : v.x # x BY <1>1, <2>2
  <2>6. \A c \in Conns : \A k \in Nat :
           Reported(c, k, x)' => c = link /\ k = Len(up[link]) + 1 /\ up'[c][k].status = st
    BY <1>7, <2>2
  <2>7. Single(x)' BY <2>3, <2>4, <2>5, <2>6 DEF Single
  <2>8. row'[x] = row[x] /\ row[x] \notin {"none", "queued", "success", "cancelled"} /\ x \notin wrote
    BY <1>1, <2>1 DEF TruthOf, Away
  <2>9. st = "success" => Delivered(x)'
    BY <1>0, <1>2 DEF Delivered, Payloads
  <2>10. st # "success" => x \notin wrote' BY <2>8
  <2>11. ~Under(x)' BY <2>3, <2>4, <2>5 DEF Under
  <2>12. TruthOf(x)' BY <2>6, <2>8, <2>9, <2>10, <2>11 DEF TruthOf
  <2> QED BY <2>7, <2>12
<1>10. Final BY <1>1 DEF Final
<1> QED BY <1>3, <1>8, <1>9, <1>10 DEF OneInv, Once, Truth

-----------------------------------------------------------------------------
\* Where no two callers overlap, every step keeps OneInv, and leaves a
\* transfer that succeeded as it is, unless it deletes it.
LEMMA OneStep ==
    ASSUME Overlap = FALSE, TransfersInv, OneInv, Next
    PROVE  OneInv' /\ Final
<1>0. Base /\ Accounted BY DEF TransfersInv, Base
<1>1. CASE GuiStart BY <1>0, <1>1, GuiStartOne DEF GuiStart
<1>2. CASE ServerStep
  <2>1. CASE ReadOnline \/ CreateTransfer \/ CreateFails \/ CancelQueued \/ DeleteObject
    BY <1>0, <2>1, ReadOnlineOne, CreateOne, GuiEndOne
  <2>2. CASE \E p \in Procs : Lookup(p) \/ Put(p) \/ PutFails(p) BY <1>0, <2>2, SendOne
  <2>3. CASE \E c \in Conns : Hello(c) \/ Report(c) BY <1>0, <2>3, HelloOne, ReportOne
  <2>4. CASE \E c \in Conns : Leave(c) \/ Fail(c) BY <1>0, <2>4, NetOne
  <2>5. CASE \E c \in Conns, x \in Xfers : MarkStarted(c, x) BY <1>0, <2>5, MarkOne
  <2> QED BY <1>2, <2>1, <2>2, <2>3, <2>4, <2>5 DEF ServerStep
<1>3. CASE AgentStep
  <2>1. CASE Receive BY <1>0, <2>1, ReceiveOne
  <2>2. ASSUME NEW w \in work,
               \/ Begin(w) \/ Check(w) \/ Fetch(w) \/ FetchFails(w) \/ Rename(w)
               \/ ReadFails(w) \/ Upload(w) \/ Stored(w) \/ StoreFails(w)
        PROVE  OneInv' /\ Final
    <3>1. CASE \/ Begin(w) \/ Fetch(w) \/ Upload(w)
               \/ (Check(w) /\ work' = Step(w, "fetch")
                     /\ UNCHANGED <<row, objs, proc, netVars, born, disk, wrote, asked, lost>>)
      <4>1. /\ \E pc : work' = Step(w, pc)
            /\ UNCHANGED <<row, objs, proc, netVars, born, disk, wrote, asked, lost>>
        BY <1>0, <3>1, StepBase
      <4> QED BY <1>0, <4>1, StepOne
    <3> QED BY <1>0, <2>2, <3>1, WorkerSteps, EndOne
  <2> QED BY <1>3, <2>1, <2>2 DEF AgentStep
<1>4. CASE Connect \/ Break \/ Restart BY <1>0, <1>4, NetOne
<1> QED BY <1>1, <1>2, <1>3, <1>4 DEF Next

\* dispatchTransfer, runPushFile, runPullFile: where no two callers overlap,
\* a transfer is in one place at a time, and rows and reports tell the truth.
THEOREM OneInvariant == ASSUME Overlap = FALSE PROVE Spec => []OneInv
<1>1. Init => OneInv
  <2> SUFFICES ASSUME Init PROVE OneInv OBVIOUS
  <2>1. \A p \in Procs : proc[p] = Idle BY DEF Init
  <2>2. Alone BY <2>1, IdleIs DEF Alone, Procs
  <2>3. ASSUME NEW x \in Xfers
        PROVE  /\ \A p \in Procs : ~Sending(p, x)
               /\ \A c \in Conns : \A k \in Nat : ~Ordered(c, k, x) /\ ~Reported(c, k, x)
               /\ work = {} /\ wrote = {} /\ row[x] = "none"
    BY <2>1, IdleIs DEF Init, Sending, Ordered, Reported
  <2>4. ASSUME NEW x \in Xfers PROVE Single(x) /\ TruthOf(x)
    BY <2>3 DEF Single, TruthOf, Away, Under
  <2> QED BY <2>2, <2>4 DEF OneInv, Once, Truth
<1>2. TransfersInv /\ OneInv /\ [Next]_vars => OneInv'
  <2> SUFFICES ASSUME TransfersInv, OneInv, UNCHANGED vars PROVE OneInv' BY OneStep
  <2>1. Alone' BY DEF OneInv, Alone, vars
  <2>2. Once'
    BY DEF OneInv, Once, Single, Sending, Ordered, Reported, vars, netVars, agentVars
  <2>3. Truth'
    BY DEF OneInv, Truth, TruthOf, Away, Under, Delivered, Sending, Ordered, Reported, vars, netVars, agentVars
  <2> QED BY <2>1, <2>2, <2>3 DEF OneInv
<1> QED BY <1>1, <1>2, TransfersInvariant, PTL DEF Spec

\* runPushFile, handleTransferUpload, cancelTransfer: a push reported as
\* delivered was written to the client, a pull reported as delivered can be
\* downloaded, and a push that was cancelled was not written.
THEOREM StatusTellsTheTruth == ASSUME Overlap = FALSE PROVE Spec => []StatusIsTrue
<1>1. OneInv => StatusIsTrue BY DEF OneInv, Truth, TruthOf, Delivered, StatusIsTrue
<1> QED BY <1>1, OneInvariant, PTL

\* MarkTransferStarted, FinishTransfer, FailRunningTransfers: nothing but its
\* deletion changes the row of a transfer that succeeded.
THEOREM DeliveredOnce == ASSUME Overlap = FALSE PROVE Spec => SuccessIsFinal
<1>1. TransfersInv /\ OneInv /\ [Next]_vars =>
         [\A x \in Xfers : row[x] = "success" => row'[x] \in {"success", "deleted"}]_vars
  BY OneStep DEF Final
<1> QED BY <1>1, TransfersInvariant, OneInvariant, PTL DEF Spec, SuccessIsFinal
=============================================================================
