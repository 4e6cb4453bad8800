------------------------- MODULE CloudClientsProofs -------------------------
(***************************************************************************)
(* LocalFS, S3, OneDrive and Google Drive implement storage.Backend as      *)
(* ObjectStore states it, for every set of keys, objects and callers, with  *)
(* any number of attempts.  On Drive this needs what Careful says: it names *)
(* objects by an id, and two writers of a key, or a retry of an upload that *)
(* was made, leave two objects of one name.                                 *)
(***************************************************************************)
EXTENDS CloudClients, TLAPS

Ops == {"put", "get", "has", "delete"}

Results == [tag : {"done", "failed", "pending", "notfound", "found", "yes", "no"},
            val : Values \cup {Absent}]

Calls == [op : Ops, key : Keys, val : Values \cup {Absent}, res : Results,
          req : RequestKinds \cup {"begin", "none"}, tries : 0..MaxAttempts - 1,
          served : BOOLEAN, complete : BOOLEAN, fid : Ids \cup {NoId},
          dir : Ids \cup {NoId}, got : Values \cup {Absent}]

\* What the callers' records and the provider's objects look like.
CallsTyped ==
    /\ call \in [Callers -> Calls]
    /\ seen \in [Callers -> SUBSET (Values \cup {Absent})]

Shape ==
    /\ provider \in Providers
    /\ files \subseteq [id : Ids \cup {NoId}, dir : Ids \cup {NoId}, key : Keys, val : Values]
    /\ folders \subseteq Ids /\ folderID \in folders \cup {NoId}
    /\ \A d, e \in folders : d = e
    /\ ~Drive => folders = {}
    /\ \A f, g \in files : f.key = g.key => f = g
    /\ \A f, g \in files : Drive /\ f.id = g.id => f = g
    /\ \A f \in files : /\ (f.id # NoId) <=> Drive
                        /\ f.dir \in IF Drive THEN folders ELSE {NoId}

\* The requests that need the folder's id.
Past == RequestKinds \ {"find", "create"}

\* One call at a time looks for the folder, and makes one if there is none.
Folder ==
    /\ \A c, d \in Callers : call[c].req \in {"find", "create"} /\ call[d].req \in {"find", "create"} => c = d
    /\ \A c \in Callers :
          /\ call[c].req \in {"find", "create"} => Drive
          /\ call[c].req = "create" /\ ~call[c].served => folders = {}
          /\ call[c].req = "create" /\ call[c].served => call[c].dir \in folders
          /\ call[c].req = "find" /\ call[c].served /\ call[c].dir = NoId => folders = {}
          /\ call[c].dir \in folders \cup {NoId}
          /\ Drive /\ call[c].req \in Past => call[c].dir \in folders

\* Which call sends which request.
Order == \A c \in Callers :
    /\ (call[c].op = "put") <=> (call[c].val # Absent)
    /\ (call[c].req = "none") <=> ~IsPending(c)
    /\ call[c].req \in {"session", "chunk", "store"} => call[c].op = "put"
    /\ call[c].req = "query" => Drive /\ call[c].op # "put"
    /\ call[c].req = "fetch" => call[c].op = "get"
    /\ call[c].req = "stat" => call[c].op = "has" /\ ~Drive
    /\ call[c].req = "remove" => call[c].op = "delete"
    /\ call[c].served => call[c].req \in RequestKinds
    /\ call[c].fid # NoId => Drive /\ call[c].req \in {"query", "fetch", "remove"}
    /\ Drive /\ call[c].req \in {"fetch", "remove"} => call[c].fid # NoId
    /\ call[c].complete => call[c].req = "store"

\* A call has seen what its object is now, and what it was told.
Told == \A c \in Callers :
    /\ IsPending(c) => Visible(call[c].key) \in seen[c]
    /\ call[c].complete => call[c].val \in seen[c]
    /\ call[c].req = "store" /\ call[c].served => call[c].complete
    /\ call[c].req \in {"query", "fetch", "stat"} /\ call[c].served => call[c].got \in seen[c]
    /\ call[c].req = "query" /\ call[c].served /\ call[c].fid = NoId => call[c].got = Absent
    /\ call[c].req = "remove" /\ call[c].served => Absent \in seen[c]

\* A looked-up id names an object of the key, or that object went meanwhile.
Looked == \A c \in Callers : call[c].fid # NoId =>
    /\ \A f \in files : f.id = call[c].fid => f.key = call[c].key
    /\ Absent \in seen[c] \/ \E f \in files : f.id = call[c].fid

\* On Drive a key has one writer, and no object until it was made.
Writer == Drive =>
    /\ \A c, d \in Callers : (/\ IsPending(c) /\ call[c].op = "put"
                              /\ IsPending(d) /\ call[d].op = "put"
                              /\ call[c].key = call[d].key) => c = d
    /\ \A c \in Callers :
          /\ IsPending(c) /\ call[c].op = "put" /\ ~call[c].complete
                => \A f \in files : f.key # call[c].key
          /\ call[c].complete => call[c].served

CloudInv == CallsTyped /\ Shape /\ Folder /\ Order /\ Told /\ Looked /\ Writer

-----------------------------------------------------------------------------
\* Named, Home and Visible: a reader of a key gets its one object.
LEMMA VisibleIs ==
    ASSUME Shape, NEW k \in Keys
    PROVE  /\ \A f \in files : f.key = k => Visible(k) = f.val
           /\ (\A f \in files : f.key # k) => Visible(k) = Absent
<1>1. \A f \in files : f.key = k => f.dir = Home
  BY DEF Shape, Home, NoId
<1>2. ASSUME NEW f \in files, f.key = k PROVE Visible(k) = f.val
  <2>1. Named(Home, k) = {f} BY <1>1, <1>2 DEF Named, Shape
  <2> QED BY <2>1 DEF Visible
<1>3. ASSUME \A f \in files : f.key # k PROVE Visible(k) = Absent
  <2>1. Named(Home, k) = {} BY <1>3 DEF Named
  <2> QED BY <2>1 DEF Visible
<1> QED BY <1>2, <1>3

\* The same of the next state.
LEMMA VisibleIsNext ==
    ASSUME Shape', NEW k \in Keys
    PROVE  /\ \A f \in files' : f.key = k => Visible(k)' = f.val
           /\ (\A f \in files' : f.key # k) => Visible(k)' = Absent
<1>1. \A f \in files' : f.key = k => f.dir = Home'
  BY DEF Shape, Home, NoId
<1>2. ASSUME NEW f \in files', f.key = k PROVE Visible(k)' = f.val
  <2>1. Named(Home, k)' = {f} BY <1>1, <1>2 DEF Named, Shape
  <2> QED BY <2>1 DEF Visible
<1>3. ASSUME \A f \in files' : f.key # k PROVE Visible(k)' = Absent
  <2>1. Named(Home, k)' = {} BY <1>3 DEF Named
  <2> QED BY <2>1 DEF Visible
<1> QED BY <1>2, <1>3

\* Finding the folder, or forgetting it, hides and shows no object.
LEMMA SameFiles ==
    ASSUME Shape, Shape', files' = files
    PROVE  \A k \in Keys : Visible(k)' = Visible(k)
<1> TAKE k \in Keys
<1>1. CASE \E f \in files : f.key = k
  <2>1. PICK f \in files : f.key = k BY <1>1
  <2> QED BY <2>1, VisibleIs, VisibleIsNext
<1>2. CASE \A f \in files : f.key # k BY <1>2, VisibleIs, VisibleIsNext
<1> QED BY <1>1, <1>2

\* What a reader sees is an object or nothing.
LEMMA VisibleType ==
    ASSUME Shape, NEW k \in Keys PROVE Visible(k) \in Values \cup {Absent}
<1>1. CASE \E f \in files : f.key = k
  <2>1. PICK f \in files : f.key = k BY <1>1
  <2> QED BY <2>1, VisibleIs DEF Shape
<1>2. CASE \A f \in files : f.key # k BY <1>2, VisibleIs
<1> QED BY <1>1, <1>2

-----------------------------------------------------------------------------
(* The steps that change no object *)

\* Ended: a call that returns leaves nothing of it behind.
LEMMA EndKeeps ==
    ASSUME CloudInv, NEW c \in Callers, NEW r \in Results, r # Pending, call' = Ended(c, r),
           seen' = [seen EXCEPT ![c] = {}], UNCHANGED <<provider, files, folders>>,
           folderID' \in folders \cup {NoId}
    PROVE  CloudInv'
<1> DEFINE e == [call[c] EXCEPT !.res = r, !.req = "none", !.tries = 0, !.served = FALSE,
                    !.complete = FALSE, !.fid = NoId, !.dir = NoId, !.got = Absent]
<1>0. CallsTyped /\ Shape /\ Folder /\ Order /\ Told /\ Looked /\ Writer BY DEF CloudInv
<1>1. /\ e \in Calls /\ e.res = r /\ e.req = "none" /\ ~e.served /\ ~e.complete /\ e.fid = NoId
      /\ e.dir = NoId /\ e.op = call[c].op /\ e.key = call[c].key /\ e.val = call[c].val
  <2>1. call[c] \in Calls /\ 0 \in 0..MaxAttempts - 1 BY <1>0, CloudAssumption DEF CallsTyped
  <2>2. e \in Calls BY <2>1 DEF Calls
  <2> QED BY <2>1, <2>2 DEF Calls
<1>2. call' = [call EXCEPT ![c] = e]
  BY <1>0 DEF Ended, CallsTyped, Calls
<1> HIDE DEF e
<1>3. CallsTyped' BY <1>0, <1>1, <1>2 DEF CallsTyped
<1>4. Shape' BY <1>0 DEF Shape, Drive
<1>5. \A k \in Keys : Visible(k)' = Visible(k) BY <1>0, <1>4, SameFiles
<1>6. /\ \A d \in Callers \ {c} : call'[d] = call[d] /\ seen'[d] = seen[d]
      /\ call'[c] = e /\ seen'[c] = {}
  BY <1>0, <1>2 DEF CallsTyped
<1>7. \A d \in Callers : call[d].key \in Keys BY <1>0 DEF CallsTyped, Calls
<1>8. Folder' BY <1>0, <1>1, <1>6 DEF Folder, Drive, Past, RequestKinds
<1>9. Order' BY <1>0, <1>1, <1>6 DEF Order, Drive, IsPending
<1>10. Told' BY <1>0, <1>1, <1>5, <1>6, <1>7 DEF Told, IsPending
<1>11. Looked' BY <1>0, <1>1, <1>6 DEF Looked
<1>12. Writer' BY <1>0, <1>1, <1>6 DEF Writer, Drive, IsPending
<1> QED BY <1>3, <1>4, <1>8, <1>9, <1>10, <1>11, <1>12 DEF CloudInv

\* A call goes on to a request that has not been served.
LEMMA MoveKeeps ==
    ASSUME CloudInv, NEW c \in Callers, IsPending(c), NEW e \in Calls,
           call' = [call EXCEPT ![c] = e],
           e.op = call[c].op, e.key = call[c].key, e.val = call[c].val, e.res = call[c].res,
           e.complete = call[c].complete, e.fid = call[c].fid,
           ~e.served, e.req # "none", UNCHANGED <<provider, files, folders, seen>>,
           folderID' \in folders \cup {NoId},
           e.req \in {"find", "create"} =>
              Drive /\ \A d \in Callers \ {c} : call[d].req \notin {"find", "create"},
           e.req = "create" => folders = {},
           e.dir \in folders \cup {NoId}, Drive /\ e.req \in Past => e.dir \in folders,
           e.req \in {"session", "chunk", "store"} => e.op = "put",
           e.req = "query" => Drive /\ e.op # "put",
           e.req = "fetch" => e.op = "get",
           e.req = "stat" => e.op = "has" /\ ~Drive,
           e.req = "remove" => e.op = "delete",
           e.fid # NoId => e.req \in {"query", "fetch", "remove"},
           Drive /\ e.req \in {"fetch", "remove"} => e.fid # NoId,
           e.complete => e.req = "store" /\ ~Drive
    PROVE  CloudInv'
<1>0. CallsTyped /\ Shape /\ Folder /\ Order /\ Told /\ Looked /\ Writer BY DEF CloudInv
<1>3. CallsTyped' BY <1>0 DEF CallsTyped
<1>4. Shape' BY <1>0 DEF Shape, Drive
<1>5. \A k \in Keys : Visible(k)' = Visible(k) BY <1>0, <1>4, SameFiles
<1>6. /\ \A d \in Callers \ {c} : call'[d] = call[d]
      /\ call'[c] = e /\ call[c] \in Calls
  BY <1>0 DEF CallsTyped
<1>7. \A d \in Callers : call[d].key \in Keys BY <1>0 DEF CallsTyped, Calls
<1>8. Folder' BY <1>0, <1>6 DEF Folder, Drive, Past, RequestKinds
<1>9. Order' BY <1>0, <1>6 DEF Order, Drive, IsPending
<1>10. Told' BY <1>0, <1>5, <1>6, <1>7 DEF Told, IsPending
<1>11. Looked' BY <1>0, <1>6 DEF Looked
<1>12. Writer' BY <1>0, <1>6 DEF Writer, Drive, IsPending
<1> QED BY <1>3, <1>4, <1>8, <1>9, <1>10, <1>11, <1>12 DEF CloudInv

\* Begin.
LEMMA BeginKeeps ==
    ASSUME CloudInv, Careful \/ "gdrive" \notin Providers, NEW c \in Callers, Begin(c)
    PROVE  CloudInv'
<1>0. CallsTyped /\ Shape /\ Folder /\ Order /\ Told /\ Looked /\ Writer BY DEF CloudInv
<1>1. PICK op \in Ops, k \in Keys, v \in Values \cup {Absent} :
          /\ (op = "put") <=> (v # Absent)
          /\ (Careful /\ Drive /\ op = "put") =>
                /\ Named(Home, k) = {}
                /\ \A d \in Callers : ~(IsPending(d) /\ call[d].key = k /\ call[d].op = "put")
          /\ call' = [call EXCEPT ![c] = Working(op, k, v)]
          /\ seen' = [seen EXCEPT ![c] = {Visible(k)}]
  BY DEF Begin, Ops
<1> DEFINE e == Working(op, k, v)
<1>2. /\ e.op = op /\ e.key = k /\ e.val = v /\ e.res = Pending /\ e.req = "begin"
      /\ ~e.served /\ ~e.complete /\ e.fid = NoId /\ e.dir = NoId
  BY DEF Working
<1>3. e \in Calls
  <2>1. 0 \in 0..MaxAttempts - 1 BY CloudAssumption
  <2>2. Pending \in Results BY DEF Pending, Results
  <2> QED BY <2>1, <2>2 DEF Calls, Working, Ops
<1> HIDE DEF e
<1>4. UNCHANGED <<provider, files, folders, folderID>> BY DEF Begin
<1>5. Shape' BY <1>0, <1>4 DEF Shape, Drive
<1>6. \A j \in Keys : Visible(j)' = Visible(j) BY <1>0, <1>4, <1>5, SameFiles
<1>7. CallsTyped' BY <1>0, <1>1, <1>3, VisibleType DEF CallsTyped, e
<1>8. /\ \A d \in Callers \ {c} : call'[d] = call[d] /\ seen'[d] = seen[d]
      /\ call'[c] = e /\ seen'[c] = {Visible(k)}
  BY <1>0, <1>1 DEF CallsTyped, e
<1>9. \A d \in Callers : call[d].key \in Keys BY <1>0 DEF CallsTyped, Calls
<1>10. Folder' BY <1>0, <1>2, <1>4, <1>8 DEF Folder, Drive, Past, RequestKinds
<1>11. Order' BY <1>0, <1>1, <1>2, <1>4, <1>8 DEF Order, Drive, IsPending
<1>12. Told' BY <1>0, <1>2, <1>6, <1>8, <1>9 DEF Told, IsPending
<1>13. Looked' BY <1>0, <1>2, <1>4, <1>8 DEF Looked
<1>14. Writer'
  <2>1. Drive /\ op = "put" => \A f \in files : f.key # k
    <3>1. Drive => Careful BY <1>0 DEF Shape, Drive
    <3>2. \A f \in files : f.dir = Home BY <1>0 DEF Shape, Home, NoId
    <3> QED BY <1>1, <3>1, <3>2 DEF Named
  <2>2. Drive => Careful BY <1>0 DEF Shape, Drive
  <2> QED BY <1>0, <1>1, <1>2, <1>4, <1>8, <2>1, <2>2 DEF Writer, Drive, IsPending
<1> QED BY <1>5, <1>7, <1>10, <1>11, <1>12, <1>13, <1>14 DEF CloudInv

\* FirstRequest: what a call sends once the folder is known.
LEMMA FirstRequestIs ==
    ASSUME NEW op \in Ops, NEW v, (op = "put") <=> (v # Absent)
    PROVE  /\ FirstRequest(op, v) \in Past \ {"chunk"}
           /\ FirstRequest(op, v) \in {"session", "store"} => op = "put"
           /\ FirstRequest(op, v) = "query" => Drive /\ op # "put"
           /\ FirstRequest(op, v) = "fetch" => op = "get" /\ ~Drive
           /\ FirstRequest(op, v) = "stat" => op = "has" /\ ~Drive
           /\ FirstRequest(op, v) = "remove" => op = "delete" /\ ~Drive
BY DEF FirstRequest, Past, RequestKinds, Ops

\* Prepare.
LEMMA PrepareKeeps ==
    ASSUME CloudInv, NEW c \in Callers, Prepare(c)
    PROVE  CloudInv'
<1>0. CallsTyped /\ Shape /\ Folder /\ Order /\ Told /\ Looked /\ Writer BY DEF CloudInv
<1>1. call[c] \in Calls /\ call[c].req = "begin" BY <1>0 DEF CallsTyped, Prepare
<1>2. /\ IsPending(c) /\ ~call[c].complete /\ call[c].fid = NoId /\ ~call[c].served
      /\ call[c].dir \in folders \cup {NoId}
      /\ (call[c].op = "put") <=> (call[c].val # Absent)
  BY <1>0, <1>1 DEF Order, Folder, RequestKinds
<1>3. UNCHANGED <<provider, files, folders, folderID>> /\ folderID' \in folders \cup {NoId}
  BY <1>0 DEF Prepare, Shape
<1>4. ASSUME Drive, ~Locked, call' = [call EXCEPT ![c].req = "find"], UNCHANGED seen PROVE CloudInv'
  <2> DEFINE e == [call[c] EXCEPT !.req = "find"]
  <2>1. /\ e \in Calls /\ e.req = "find" /\ e.op = call[c].op /\ e.key = call[c].key
        /\ e.val = call[c].val /\ e.res = call[c].res /\ e.complete = call[c].complete
        /\ e.fid = call[c].fid /\ e.served = call[c].served /\ e.dir = call[c].dir
    BY <1>1 DEF Calls, RequestKinds
  <2>2. call' = [call EXCEPT ![c] = e] BY <1>0, <1>4 DEF CallsTyped
  <2> HIDE DEF e
  <2>3. \A d \in Callers : call[d].req \notin {"find", "create"} BY <1>4 DEF Locked
  <2> QED BY <1>2, <1>3, <1>4, <2>1, <2>2, <2>3, MoveKeeps DEF Past
<1>5. ASSUME Drive => ~Locked /\ folderID # NoId, UNCHANGED seen,
             call' = [call EXCEPT ![c].req = FirstRequest(call[c].op, call[c].val),
                                  ![c].dir = folderID]
      PROVE  CloudInv'
  <2> DEFINE q == FirstRequest(call[c].op, call[c].val)
             e == [call[c] EXCEPT !.req = q, !.dir = folderID]
  <2>1. call[c].op \in Ops BY <1>1 DEF Calls
  <2>2. /\ q \in Past \ {"chunk"}
        /\ q \in {"session", "store"} => call[c].op = "put"
        /\ q = "query" => Drive /\ call[c].op # "put"
        /\ q = "fetch" => call[c].op = "get" /\ ~Drive
        /\ q = "stat" => call[c].op = "has" /\ ~Drive
        /\ q = "remove" => call[c].op = "delete" /\ ~Drive
    BY <1>2, <2>1, FirstRequestIs
  <2>3. call' = [call EXCEPT ![c] = e] BY <1>0, <1>5 DEF CallsTyped
  <2> HIDE DEF q
  <2>4. folderID \in folders \cup {NoId} /\ folders \subseteq Ids BY <1>0 DEF Shape
  <2>5. e \in Calls BY <1>1, <2>2, <2>4 DEF Calls, Past
  <2>6. /\ e.req = q /\ e.op = call[c].op /\ e.key = call[c].key
        /\ e.val = call[c].val /\ e.res = call[c].res /\ e.complete = call[c].complete
        /\ e.fid = call[c].fid /\ e.served = call[c].served /\ e.dir = folderID
    BY <1>1 DEF Calls
  <2> HIDE DEF e
  <2> QED BY <1>2, <1>3, <1>5, <2>2, <2>3, <2>4, <2>5, <2>6, MoveKeeps DEF Past, RequestKinds
<1>6. ASSUME call' = Ended(c, FailedCall), seen' = [seen EXCEPT ![c] = {}] PROVE CloudInv'
  <2>1. FailedCall \in Results /\ FailedCall # Pending BY DEF FailedCall, Results, Pending
  <2> QED BY <1>3, <1>6, <2>1, EndKeeps
<1> QED BY <1>4, <1>5, <1>6 DEF Prepare

\* Result: what a call returns is a result, and not that it goes on.
LEMMA ResultIs ==
    ASSUME CloudInv, NEW c \in Callers
    PROVE  Result(c) \in Results /\ Result(c) # Pending
<1>1. call[c].op \in Ops /\ call[c].got \in Values \cup {Absent}
  BY DEF CloudInv, CallsTyped, Calls
<1>2. /\ Done \in Results /\ Is(call[c].got # Absent) \in Results /\ NotFound \in Results
      /\ call[c].got # Absent => Found(call[c].got) \in Results
  BY <1>1 DEF Done, Is, NotFound, Found, Results
<1>3. /\ Done # Pending /\ Is(call[c].got # Absent) # Pending /\ NotFound # Pending
      /\ Found(call[c].got) # Pending
  BY DEF Done, Is, NotFound, Found, Pending
<1> QED BY <1>1, <1>2, <1>3 DEF Result, Ops

\* AnswerOk.
LEMMA AnswerOkKeeps ==
    ASSUME CloudInv, NEW c \in Callers, AnswerOk(c)
    PROVE  CloudInv'
<1>0. CallsTyped /\ Shape /\ Folder /\ Order /\ Told /\ Looked /\ Writer BY DEF CloudInv
<1>1. call[c] \in Calls /\ call[c].served /\ call[c].req \in RequestKinds
  BY <1>0 DEF CallsTyped, AnswerOk, Order
<1>2. IsPending(c) /\ call[c].dir \in folders \cup {NoId} BY <1>0, <1>1 DEF Order, Folder, RequestKinds
<1>3. UNCHANGED <<provider, files, folders>> /\ folderID' \in folders \cup {NoId}
  BY <1>0, <1>2 DEF AnswerOk, Shape
<1>4. CASE NextRequest(c) = "none"
  BY <1>3, <1>4, ResultIs, EndKeeps DEF AnswerOk
<1>5. CASE NextRequest(c) # "none"
  <2> DEFINE q == NextRequest(c)
             e == [call[c] EXCEPT !.req = q, !.tries = 0, !.served = FALSE]
  <2>1. /\ call[c].op \in Ops /\ call[c].complete \in BOOLEAN
        /\ (call[c].op = "put") <=> (call[c].val # Absent)
    BY <1>0, <1>1 DEF Calls, Order
  <2> DEFINE p == FirstRequest(call[c].op, call[c].val)
  <2>2. /\ p \in Past \ {"chunk"}
        /\ p \in {"session", "store"} => call[c].op = "put"
        /\ p = "query" => Drive /\ call[c].op # "put"
        /\ p = "fetch" => call[c].op = "get" /\ ~Drive
        /\ p = "stat" => call[c].op = "has" /\ ~Drive
        /\ p = "remove" => call[c].op = "delete" /\ ~Drive
    BY <2>1, FirstRequestIs
  <2>3. \/ call[c].req = "find" /\ call[c].dir = NoId /\ q = "create"
        \/ /\ call[c].req = "create" \/ (call[c].req = "find" /\ call[c].dir # NoId)
           /\ q = p
        \/ call[c].req = "session" /\ q \in {"chunk", "store"}
        \/ call[c].req = "chunk" /\ q = "store"
        \/ call[c].req = "query" /\ call[c].fid # NoId /\ call[c].op = "get" /\ q = "fetch"
        \/ call[c].req = "query" /\ call[c].fid # NoId /\ call[c].op = "delete" /\ q = "remove"
    BY <1>1, <1>5 DEF NextRequest, RequestKinds
  <2> HIDE DEF p, q
  <2>4. call' = [call EXCEPT ![c] = e] BY <1>0, <1>5 DEF CallsTyped, AnswerOk, q
  <2>5. q \in RequestKinds BY <2>2, <2>3 DEF Past, RequestKinds
  <2>6. 0 \in 0..MaxAttempts - 1 BY CloudAssumption
  <2>7. e \in Calls BY <1>1, <2>5, <2>6 DEF Calls
  <2>8. /\ e.req = q /\ e.op = call[c].op /\ e.key = call[c].key
        /\ e.val = call[c].val /\ e.res = call[c].res /\ e.complete = call[c].complete
        /\ e.fid = call[c].fid /\ ~e.served /\ e.dir = call[c].dir
    BY <1>1 DEF Calls
  <2> HIDE DEF e
  <2>9. UNCHANGED seen BY <1>5 DEF AnswerOk
  <2>10. /\ q \in {"find", "create"} =>
              Drive /\ \A d \in Callers \ {c} : call[d].req \notin {"find", "create"}
         /\ q = "create" => folders = {}
         /\ Drive /\ q \in Past => call[c].dir \in folders
    BY <1>0, <1>1, <2>2, <2>3 DEF Folder, Past, RequestKinds
  <2>11. /\ q \in {"session", "chunk", "store"} => call[c].op = "put"
         /\ q = "query" => Drive /\ call[c].op # "put"
         /\ q = "fetch" => call[c].op = "get"
         /\ q = "stat" => call[c].op = "has" /\ ~Drive
         /\ q = "remove" => call[c].op = "delete"
         /\ call[c].fid # NoId => q \in {"query", "fetch", "remove"}
         /\ Drive /\ q \in {"fetch", "remove"} => call[c].fid # NoId
         /\ ~call[c].complete
    BY <1>0, <1>1, <2>2, <2>3 DEF Order, Past, RequestKinds
  <2>12. q # "none" BY <2>5 DEF RequestKinds
  <2> QED BY <1>2, <1>3, <2>4, <2>7, <2>8, <2>9, <2>10, <2>11, <2>12, MoveKeeps
<1> QED BY <1>4, <1>5

\* AnswerError, Deadline, and the last of the attempts.
LEMMA FailureKeeps ==
    ASSUME CloudInv, NEW c \in Callers, call' = Ended(c, FailedCall),
           seen' = [seen EXCEPT ![c] = {}], UNCHANGED <<provider, files, folders, folderID>>
    PROVE  CloudInv'
<1>1. FailedCall \in Results /\ FailedCall # Pending BY DEF FailedCall, Results, Pending
<1>2. folderID' \in folders \cup {NoId} BY DEF CloudInv, Shape
<1> QED BY <1>1, <1>2, EndKeeps

\* AnswerTransient.
LEMMA TransientKeeps ==
    ASSUME CloudInv, Careful \/ "gdrive" \notin Providers, NEW c \in Callers, AnswerTransient(c)
    PROVE  CloudInv'
<1>0. CallsTyped /\ Shape /\ Folder /\ Order /\ Told /\ Looked /\ Writer BY DEF CloudInv
<1>1. call[c] \in Calls /\ call[c].req \in RequestKinds
  BY <1>0 DEF CallsTyped, AnswerTransient, MayFail
<1>2. IsPending(c) /\ call[c].dir \in folders \cup {NoId} BY <1>0, <1>1 DEF Order, Folder, RequestKinds
<1>3. UNCHANGED <<provider, files, folders, folderID>> /\ folderID' \in folders \cup {NoId}
  BY <1>0 DEF AnswerTransient, Shape
<1>4. CASE call[c].tries + 1 < Attempts(call[c].req)
  <2> DEFINE e == [call[c] EXCEPT !.tries = @ + 1, !.served = FALSE]
  <2>1. call' = [call EXCEPT ![c] = e] BY <1>0, <1>4 DEF CallsTyped, AnswerTransient
  <2>2. call[c].tries + 1 \in 0..MaxAttempts - 1
    BY <1>1, <1>4, CloudAssumption DEF Calls, Attempts
  <2>3. e \in Calls BY <1>1, <2>2 DEF Calls
  <2>4. /\ e.req = call[c].req /\ e.op = call[c].op /\ e.key = call[c].key
        /\ e.val = call[c].val /\ e.res = call[c].res /\ e.complete = call[c].complete
        /\ e.fid = call[c].fid /\ ~e.served /\ e.dir = call[c].dir
    BY <1>1 DEF Calls
  <2> HIDE DEF e
  <2>5. UNCHANGED seen BY <1>4 DEF AnswerTransient
  <2>6. Drive => ~call[c].served BY <1>0 DEF AnswerTransient, MayFail, Shape, Drive
  <2>7. /\ call[c].req \in {"find", "create"} =>
             Drive /\ \A d \in Callers \ {c} : call[d].req \notin {"find", "create"}
        /\ call[c].req = "create" => folders = {}
        /\ Drive /\ call[c].req \in Past => call[c].dir \in folders
    BY <1>0, <1>1, <2>6 DEF Folder
  <2>8. /\ call[c].req \in {"session", "chunk", "store"} => call[c].op = "put"
        /\ call[c].req = "query" => Drive /\ call[c].op # "put"
        /\ call[c].req = "fetch" => call[c].op = "get"
        /\ call[c].req = "stat" => call[c].op = "has" /\ ~Drive
        /\ call[c].req = "remove" => call[c].op = "delete"
        /\ call[c].fid # NoId => call[c].req \in {"query", "fetch", "remove"}
        /\ Drive /\ call[c].req \in {"fetch", "remove"} => call[c].fid # NoId
        /\ call[c].complete => call[c].req = "store" /\ ~Drive
    BY <1>0, <2>6 DEF Order, Writer
  <2>9. call[c].req # "none" BY <1>1 DEF RequestKinds
  <2> QED BY <1>2, <1>3, <2>1, <2>3, <2>4, <2>5, <2>7, <2>8, <2>9, MoveKeeps
<1>5. CASE ~(call[c].tries + 1 < Attempts(call[c].req))
  BY <1>3, <1>5, FailureKeeps DEF AnswerTransient
<1> QED BY <1>4, <1>5

\* CloudCrash: the folder is found again, with its objects.
LEMMA CrashKeeps ==
    ASSUME CloudInv, CloudCrash
    PROVE  CloudInv'
<1>0. CallsTyped /\ Shape /\ Folder /\ Order /\ Told /\ Looked /\ Writer BY DEF CloudInv
<1>1. /\ UNCHANGED <<provider, files, folders>> /\ folderID' = NoId
      /\ seen' = [c \in Callers |-> {}]
  BY DEF CloudCrash
<1>2. ASSUME NEW c \in Callers
      PROVE  /\ call'[c] \in Calls /\ call'[c].res # Pending /\ call'[c].req = "none"
             /\ ~call'[c].served /\ ~call'[c].complete /\ call'[c].fid = NoId
             /\ call'[c].op = call[c].op /\ call'[c].val = call[c].val
             /\ call'[c].dir \in folders \cup {NoId}
  <2>1. call[c] \in Calls BY <1>0 DEF CallsTyped
  <2>2. CASE IsPending(c)
    <3> DEFINE e == [call[c] EXCEPT !.res = FailedCall, !.req = "none", !.tries = 0, !.served = FALSE,
                    !.complete = FALSE, !.fid = NoId, !.dir = NoId, !.got = Absent]
    <3>1. call'[c] = e BY <1>0, <2>2 DEF CloudCrash, Ended, CallsTyped
    <3>2. 0 \in 0..MaxAttempts - 1 BY CloudAssumption
    <3>3. FailedCall \in Results /\ FailedCall # Pending BY DEF FailedCall, Results, Pending
    <3>4. e \in Calls BY <2>1, <3>2, <3>3 DEF Calls
    <3> QED BY <2>1, <3>1, <3>3, <3>4 DEF Calls
  <2>3. CASE ~IsPending(c)
    <3>1. call'[c] = call[c] BY <2>3 DEF CloudCrash
    <3> QED BY <1>0, <2>1, <2>3, <3>1 DEF Order, Folder, IsPending, RequestKinds, Calls
  <2> QED BY <2>2, <2>3
<1>3. CallsTyped'
  <2>1. call' = [c \in Callers |-> call'[c]] BY DEF CloudCrash
  <2> QED BY <1>1, <1>2, <2>1 DEF CallsTyped
<1>4. Shape' BY <1>0, <1>1 DEF Shape, Drive
<1>5. Folder' BY <1>0, <1>1, <1>2 DEF Folder, Past, RequestKinds
<1>6. Order' BY <1>0, <1>2 DEF Order, IsPending
<1>7. Told' BY <1>2 DEF Told, IsPending
<1>8. Looked' BY <1>2 DEF Looked
<1>9. Writer' BY <1>2 DEF Writer, IsPending
<1> QED BY <1>3, <1>4, <1>5, <1>6, <1>7, <1>8, <1>9 DEF CloudInv

-----------------------------------------------------------------------------
(* The provider serves a request. *)

\* Witness: what the pending calls have seen only grows, and every one of them
\* has seen its object as it is now.
LEMMA WitnessIs ==
    ASSUME CloudInv, Shape', Witness, NEW c \in Callers, NEW e \in Calls,
           e.key = call[c].key, call' = [call EXCEPT ![c] = e]
    PROVE  /\ seen' \in [Callers -> SUBSET (Values \cup {Absent})]
           /\ \A d \in Callers : seen[d] \subseteq seen'[d]
           /\ \A d \in Callers, k \in Keys : call[d].key = k => Visible(call[d].key)' = Visible(k)'
           /\ \A d \in Callers : IsPending(d) => seen'[d] = seen[d] \cup {Visible(call[d].key)'}
           /\ \A d \in Callers : ~IsPending(d) => seen'[d] = seen[d]
<1>0. CallsTyped BY DEF CloudInv
<1>1. \A d \in Callers : call'[d].key = call[d].key /\ call[d].key \in Keys
  BY <1>0 DEF CallsTyped, Calls
<1>2. \A k \in Keys : Visible(k)' \in Values \cup {Absent}
  <2> TAKE k \in Keys
  <2>1. CASE \E f \in files' : f.key = k
    <3>1. PICK f \in files' : f.key = k BY <2>1
    <3> QED BY <3>1, VisibleIsNext DEF Shape
  <2>2. CASE \A f \in files' : f.key # k BY <2>2, VisibleIsNext
  <2> QED BY <2>1, <2>2
<1>3. seen' = [d \in Callers |-> IF IsPending(d) THEN seen[d] \cup {Visible(call[d].key)'} ELSE seen[d]]
  BY DEF Witness
<1>4. ASSUME NEW d \in Callers, NEW k \in Keys, call[d].key = k
      PROVE  Visible(call[d].key)' = Visible(k)'
  <2>1. call'[d].key = k BY <1>1, <1>4
  <2>2. \A f \in files' : f.dir = Home' BY DEF Shape, Home, NoId
  <2>3. ASSUME NEW f \in files', f.key = k PROVE Visible(call[d].key)' = f.val
    <3>1. Named(Home, call[d].key)' = {f} BY <2>1, <2>2, <2>3 DEF Named, Shape
    <3> QED BY <3>1 DEF Visible
  <2>4. ASSUME \A f \in files' : f.key # k PROVE Visible(call[d].key)' = Absent
    <3>1. Named(Home, call[d].key)' = {} BY <2>1, <2>4 DEF Named
    <3> QED BY <3>1 DEF Visible
  <2> QED BY <2>3, <2>4, VisibleIsNext
<1>5. \A d \in Callers : Visible(call[d].key)' \in Values \cup {Absent}
  BY <1>1, <1>2, <1>4
<1> QED BY <1>0, <1>1, <1>3, <1>4, <1>5 DEF CallsTyped

\* A request was served: what is left to show of the call and of the objects.
LEMMA ServedKeeps ==
    ASSUME CloudInv, Shape', Witness, NEW c \in Callers, NEW e \in Calls,
           call[c].req \in RequestKinds, ~call[c].served,
           call' = [call EXCEPT ![c] = e],
           e.op = call[c].op, e.key = call[c].key, e.val = call[c].val, e.res = call[c].res,
           e.req = call[c].req, e.served,
           UNCHANGED <<provider, folderID>>, folders \subseteq folders',
           e.req # "create" => folders' = folders,
           e.req = "create" => e.dir \in folders',
           e.req = "find" /\ e.dir = NoId => folders = {},
           e.dir \in folders' \cup {NoId}, e.req \in Past => e.dir = call[c].dir,
           e.fid # NoId => Drive /\ e.req \in {"query", "fetch", "remove"},
           Drive /\ e.req \in {"fetch", "remove"} => e.fid = call[c].fid,
           e.complete => call[c].complete \/ e.req = "store",
           e.req = "store" => e.complete,
           e.complete => e.val \in seen'[c],
           e.req \in {"query", "fetch", "stat"} => e.got \in seen'[c],
           e.req = "query" /\ e.fid = NoId => e.got = Absent,
           e.req = "remove" => Absent \in seen'[c],
           Looked', Writer'
    PROVE  CloudInv'
<1>0. CallsTyped /\ Shape /\ Folder /\ Order /\ Told /\ Looked /\ Writer BY DEF CloudInv
<1>1. /\ seen' \in [Callers -> SUBSET (Values \cup {Absent})]
      /\ \A d \in Callers : seen[d] \subseteq seen'[d]
      /\ \A d \in Callers : IsPending(d) => seen'[d] = seen[d] \cup {Visible(call[d].key)'}
  BY WitnessIs
<1>2. CallsTyped' BY <1>0, <1>1 DEF CallsTyped
<1>3. (\A d \in Callers \ {c} : call'[d] = call[d]) /\ call'[c] = e /\ call[c] \in Calls
  BY <1>0 DEF CallsTyped
<1>4. Folder'
  <2>1. \A d \in Callers : call'[d].req = call[d].req BY <1>3
  <2>2. ASSUME NEW d \in Callers
        PROVE  /\ call'[d].req \in {"find", "create"} => Drive'
               /\ call'[d].req = "create" /\ ~call'[d].served => folders' = {}
               /\ call'[d].req = "create" /\ call'[d].served => call'[d].dir \in folders'
               /\ call'[d].req = "find" /\ call'[d].served /\ call'[d].dir = NoId => folders' = {}
               /\ call'[d].dir \in folders' \cup {NoId}
               /\ Drive' /\ call'[d].req \in Past => call'[d].dir \in folders'
    <3>1. CASE d = c BY <1>0, <1>3, <3>1 DEF Folder, Drive
    <3>2. CASE d # c BY <1>0, <1>3, <3>2 DEF Folder, Drive
    <3> QED BY <3>1, <3>2
  <2> QED BY <1>0, <2>1, <2>2 DEF Folder
<1>5. Order' BY <1>0, <1>3 DEF Order, Drive, IsPending
<1>6. Told'
  <2>1. ASSUME NEW d \in Callers, IsPending(d)' PROVE Visible(call[d].key)' \in seen'[d]
    <3>1. IsPending(d) BY <1>3, <2>1 DEF IsPending
    <3> QED BY <1>1, <3>1
  <2>2. ASSUME NEW d \in Callers
        PROVE  /\ call'[d].complete => call'[d].val \in seen'[d]
               /\ call'[d].req = "store" /\ call'[d].served => call'[d].complete
               /\ call'[d].req \in {"query", "fetch", "stat"} /\ call'[d].served => call'[d].got \in seen'[d]
               /\ call'[d].req = "query" /\ call'[d].served /\ call'[d].fid = NoId => call'[d].got = Absent
               /\ call'[d].req = "remove" /\ call'[d].served => Absent \in seen'[d]
    BY <1>0, <1>1, <1>3 DEF Told
  <2> QED BY <2>1, <2>2 DEF Told
<1> QED BY <1>2, <1>4, <1>5, <1>6 DEF CloudInv

\* The requests that ask, or prepare an upload, and change nothing.
LEMMA ServeQuiet ==
    ASSUME CloudInv, Witness, NEW c \in Callers, NEW e \in Calls,
           call[c].req \in RequestKinds \ {"create", "store", "remove"}, ~call[c].served,
           call' = [call EXCEPT ![c] = e],
           e.op = call[c].op, e.key = call[c].key, e.val = call[c].val, e.res = call[c].res,
           e.req = call[c].req, e.served,
           UNCHANGED <<provider, folderID, files, folders>>,
           e.req = "find" /\ e.dir = NoId => folders = {},
           e.dir \in folders \cup {NoId}, e.req \in Past => e.dir = call[c].dir,
           e.req # "query" => e.fid = call[c].fid,
           e.req = "query" => \/ \E f \in files : f.key = e.key /\ f.id = e.fid /\ f.val = e.got
                              \/ (\A f \in files : f.key # e.key) /\ e.fid = NoId /\ e.got = Absent,
           e.complete <=> call[c].complete,
           e.req \in {"fetch", "stat"} => e.got = Visible(e.key) \/ e.got \in seen[c]
    PROVE  CloudInv'
<1>0. CallsTyped /\ Shape /\ Folder /\ Order /\ Told /\ Looked /\ Writer BY DEF CloudInv
<1>1. Shape' BY <1>0 DEF Shape, Drive
<1>2. /\ \A d \in Callers : seen[d] \subseteq seen'[d]
  BY <1>1, WitnessIs
<1>3. (\A d \in Callers \ {c} : call'[d] = call[d]) /\ call'[c] = e /\ call[c] \in Calls
  BY <1>0 DEF CallsTyped
<1>4. IsPending(c) /\ Visible(e.key) \in seen'[c] BY <1>0, <1>2 DEF Order, Told, RequestKinds
<1>5. e.key \in Keys BY DEF Calls
<1>6. e.req = "query" => e.got = Visible(e.key) BY <1>0, <1>5, VisibleIs
<1>7. Looked'
  <2>1. ASSUME NEW d \in Callers, call'[d].fid # NoId
        PROVE  /\ \A f \in files : f.id = call'[d].fid => f.key = call'[d].key
               /\ Absent \in seen'[d] \/ \E f \in files : f.id = call'[d].fid
    <3>1. CASE d # c \/ e.req # "query" BY <1>0, <1>2, <1>3, <2>1, <3>1 DEF Looked
    <3>2. CASE d = c /\ e.req = "query"
      <4>1. PICK f \in files : f.key = e.key /\ f.id = e.fid BY <1>3, <2>1, <3>2
      <4>2. Drive BY <1>0, <3>2 DEF Order
      <4> QED BY <1>0, <1>3, <3>2, <4>1, <4>2 DEF Shape
    <3> QED BY <3>1, <3>2
  <2> QED BY <2>1 DEF Looked
<1>8. Writer' BY <1>0, <1>3 DEF Writer, Drive, IsPending
<1>9. /\ e.fid # NoId => Drive /\ e.req \in {"query", "fetch", "remove"}
      /\ e.complete => e.req = "store"
      /\ e.req = "query" /\ e.fid = NoId => e.got = Absent
  <2>1. e.req = "query" => Drive BY <1>0 DEF Order
  <2> QED BY <1>0, <2>1 DEF Order, Shape
<1>10. ~e.complete /\ e.req \notin {"create", "store", "remove"} BY <1>9
<1>11. e.req \in {"query", "fetch", "stat"} => e.got \in seen'[c] BY <1>2, <1>4, <1>6
<1> QED BY <1>1, <1>7, <1>8, <1>9, <1>10, <1>11, ServedKeeps

\* ServeLookup.
LEMMA LookupKeeps ==
    ASSUME CloudInv, NEW c \in Callers, call[c].req \in RequestKinds, ~call[c].served, ServeLookup(c),
           UNCHANGED <<provider, folderID>>, Witness
    PROVE  CloudInv'
<1>0. CallsTyped /\ Shape /\ Folder /\ Order /\ Told /\ Looked /\ Writer BY DEF CloudInv
<1>1. call[c] \in Calls BY <1>0 DEF CallsTyped
<1>2. call[c].fid \in Ids \cup {NoId} /\ call[c].dir \in Ids \cup {NoId} /\ call[c].got \in Values \cup {Absent}
      /\ call[c].complete \in BOOLEAN
  BY <1>1 DEF Calls
<1>3. ASSUME call[c].req = "find", UNCHANGED <<files, folders>>, NEW d \in IF folders = {} THEN {NoId} ELSE folders,
             call' = [Served(c) EXCEPT ![c].dir = d]
      PROVE  CloudInv'
  <2> DEFINE e == [call[c] EXCEPT !.served = TRUE, !.fid = call[c].fid, !.dir = d,
                      !.got = call[c].got, !.complete = call[c].complete]
  <2>1. d \in Ids \cup {NoId} BY <1>0 DEF Shape
  <2>2. call' = [call EXCEPT ![c] = e] BY <1>0, <1>1, <1>3 DEF Served, CallsTyped, Calls
  <2>3. /\ e \in Calls /\ e.op = call[c].op /\ e.key = call[c].key /\ e.val = call[c].val
        /\ e.res = call[c].res /\ e.req = call[c].req /\ e.served
        /\ e.fid = call[c].fid /\ e.dir = d /\ e.got = call[c].got /\ (e.complete <=> call[c].complete)
    <3>1. e \in Calls BY <1>1, <1>2, <2>1 DEF Calls
    <3> QED BY <1>1, <3>1 DEF Calls
  <2> HIDE DEF e
  <2>4. d = NoId => folders = {} BY <1>0 DEF Shape, Ids, NoId
  <2> QED BY <1>3, <2>2, <2>3, <2>4, ServeQuiet DEF Past, RequestKinds
<1>4. ASSUME call[c].req = "query", UNCHANGED <<files, folders>>,
             NEW f \in IF Named(call[c].dir, call[c].key) = {}
                       THEN {File(NoId, NoId, call[c].key, Absent)}
                       ELSE Named(call[c].dir, call[c].key),
             call' = [Served(c) EXCEPT ![c].fid = f.id, ![c].got = f.val]
      PROVE  CloudInv'
  <2> DEFINE e == [call[c] EXCEPT !.served = TRUE, !.fid = f.id, !.dir = call[c].dir,
                      !.got = f.val, !.complete = call[c].complete]
  <2>1. Drive /\ call[c].dir \in folders BY <1>0, <1>4 DEF Order, Folder, Past, RequestKinds
  <2>2. \/ f \in files /\ f.key = call[c].key
        \/ (\A g \in files : g.key # call[c].key) /\ f.id = NoId /\ f.val = Absent
    <3>1. \A g \in files : g.dir = call[c].dir BY <1>0, <2>1 DEF Shape
    <3> QED BY <3>1 DEF Named, File
  <2>3. f.id \in Ids \cup {NoId} /\ f.val \in Values \cup {Absent} BY <1>0, <2>2 DEF Shape
  <2>4. call' = [call EXCEPT ![c] = e] BY <1>0, <1>1, <1>4 DEF Served, CallsTyped, Calls
  <2>5. /\ e \in Calls /\ e.op = call[c].op /\ e.key = call[c].key /\ e.val = call[c].val
        /\ e.res = call[c].res /\ e.req = call[c].req /\ e.served
        /\ e.fid = f.id /\ e.dir = call[c].dir /\ e.got = f.val /\ (e.complete <=> call[c].complete)
    <3>1. e \in Calls BY <1>1, <1>2, <2>3 DEF Calls
    <3> QED BY <1>1, <3>1 DEF Calls
  <2> HIDE DEF e
  <2> QED BY <1>4, <2>1, <2>2, <2>4, <2>5, ServeQuiet DEF Past, RequestKinds
<1>5. ASSUME call[c].req = "create", UNCHANGED files, NEW d \in FreshId, folders' = folders \cup {d},
             call' = [Served(c) EXCEPT ![c].dir = d]
      PROVE  CloudInv'
  <2> DEFINE e == [call[c] EXCEPT !.served = TRUE, !.fid = call[c].fid, !.dir = d,
                      !.got = call[c].got, !.complete = call[c].complete]
  <2>1. d \in Ids BY DEF FreshId
  <2>2. call' = [call EXCEPT ![c] = e] BY <1>0, <1>1, <1>5 DEF Served, CallsTyped, Calls
  <2>3. /\ e \in Calls /\ e.op = call[c].op /\ e.key = call[c].key /\ e.val = call[c].val
        /\ e.res = call[c].res /\ e.req = call[c].req /\ e.served
        /\ e.fid = call[c].fid /\ e.dir = d /\ e.got = call[c].got /\ (e.complete <=> call[c].complete)
    <3>1. e \in Calls BY <1>1, <1>2, <2>1 DEF Calls
    <3> QED BY <1>1, <3>1 DEF Calls
  <2> HIDE DEF e
  <2>4. Drive /\ folders = {} BY <1>0, <1>5 DEF Folder
  <2>5. files = {} BY <1>0, <2>4 DEF Shape
  <2>6. Shape' BY <1>0, <1>5, <2>1, <2>4, <2>5 DEF Shape, Drive
  <2>7. \A b \in Callers : seen[b] \subseteq seen'[b] BY <2>2, <2>3, <2>6, WitnessIs
  <2>8. (\A b \in Callers \ {c} : call'[b] = call[b]) /\ call'[c] = e BY <1>0, <2>2 DEF CallsTyped
  <2>9. \A b \in Callers :  /\ call'[b].fid = call[b].fid /\ call'[b].key = call[b].key
                            /\ call'[b].op = call[b].op /\ call'[b].res = call[b].res
                            /\ call'[b].complete <=> call[b].complete
                            /\ call[b].served => call'[b].served
    BY <2>3, <2>8
  <2>12. Looked' BY <1>0, <1>5, <2>7, <2>9 DEF Looked
  <2>10. Writer' BY <1>0, <1>5, <2>9 DEF Writer, Drive, IsPending
  <2>11. ~e.complete /\ e.fid = NoId BY <1>0, <1>5, <2>3 DEF Order
  <2> QED BY <1>5, <2>2, <2>3, <2>4, <2>6, <2>10, <2>11, <2>12, ServedKeeps DEF Past
<1> QED BY <1>3, <1>4, <1>5 DEF ServeLookup

\* ServeObject: the requests that change no object.
LEMMA ReadKeeps ==
    ASSUME CloudInv, NEW c \in Callers, call[c].req \in {"session", "chunk", "fetch", "stat"},
           ~call[c].served, ServeObject(c), UNCHANGED <<provider, folderID>>, Witness
    PROVE  CloudInv'
<1>0. CallsTyped /\ Shape /\ Folder /\ Order /\ Told /\ Looked /\ Writer BY DEF CloudInv
<1>1. call[c] \in Calls BY <1>0 DEF CallsTyped
<1>2. call[c].got \in Values \cup {Absent} /\ call[c].complete \in BOOLEAN /\ call[c].key \in Keys
      /\ call[c].dir \in folders \cup {NoId} /\ call[c].req \in RequestKinds \ {"create", "store", "remove"}
  BY <1>0, <1>1 DEF Calls, Folder, RequestKinds
<1>3. CASE call[c].req \in {"session", "chunk"}
  <2> DEFINE e == [call[c] EXCEPT !.served = TRUE, !.got = call[c].got, !.complete = call[c].complete]
  <2>1. call' = [call EXCEPT ![c] = e] /\ UNCHANGED <<files, folders>>
    BY <1>0, <1>1, <1>3 DEF ServeObject, Served, CallsTyped, Calls
  <2>2. /\ e \in Calls /\ e.op = call[c].op /\ e.key = call[c].key /\ e.val = call[c].val
        /\ e.res = call[c].res /\ e.req = call[c].req /\ e.served
        /\ e.fid = call[c].fid /\ e.dir = call[c].dir /\ (e.complete <=> call[c].complete)
    <3>1. e \in Calls BY <1>1, <1>2 DEF Calls
    <3> QED BY <1>1, <3>1 DEF Calls
  <2> HIDE DEF e
  <2> QED BY <1>2, <1>3, <2>1, <2>2, ServeQuiet
<1>4. CASE call[c].req \in {"fetch", "stat"}
  <2> DEFINE hits == IF Drive THEN {f \in files : f.id = call[c].fid} ELSE Named(NoId, call[c].key)
             g == IF hits = {} THEN Absent ELSE (CHOOSE f \in hits : TRUE).val
             e == [call[c] EXCEPT !.served = TRUE, !.got = g, !.complete = call[c].complete]
  <2>1. Drive => call[c].fid # NoId BY <1>0, <1>4 DEF Order
  <2>2. \A f \in hits : f \in files /\ f.key = call[c].key
    BY <1>0, <2>1 DEF Looked, Named
  <2>3. hits = {} => Absent \in seen[c] \/ \A f \in files : f.key # call[c].key
    BY <1>0, <2>1 DEF Looked, Named, Shape
  <2>5. g \in Values \cup {Absent} /\ (g = Visible(call[c].key) \/ g \in seen[c])
    <3>1. CASE hits = {} BY <1>0, <1>2, <2>3, <3>1, VisibleIs
    <3>2. CASE hits # {}
      <4>1. PICK f \in hits : g = f.val BY <3>2
      <4>2. f \in files /\ f.key = call[c].key BY <2>2, <4>1
      <4> QED BY <1>0, <1>2, <4>1, <4>2, VisibleIs DEF Shape
    <3> QED BY <3>1, <3>2
  <2>6. call' = [call EXCEPT ![c] = e] /\ UNCHANGED <<files, folders>>
    BY <1>0, <1>1, <1>4 DEF ServeObject, Served, CallsTyped, Calls
  <2> HIDE DEF g
  <2>7. /\ e \in Calls /\ e.op = call[c].op /\ e.key = call[c].key /\ e.val = call[c].val
        /\ e.res = call[c].res /\ e.req = call[c].req /\ e.served
        /\ e.fid = call[c].fid /\ e.dir = call[c].dir /\ e.got = g /\ (e.complete <=> call[c].complete)
    <3>1. e \in Calls BY <1>1, <1>2, <2>5 DEF Calls
    <3> QED BY <1>1, <3>1 DEF Calls
  <2> HIDE DEF e
  <2> QED BY <1>2, <1>4, <2>5, <2>6, <2>7, ServeQuiet
<1> QED BY <1>3, <1>4

\* ServeObject: an object is stored.
LEMMA StoreKeeps ==
    ASSUME CloudInv, NEW c \in Callers, call[c].req = "store", ~call[c].served,
           ServeObject(c), UNCHANGED <<provider, folderID>>, Witness
    PROVE  /\ CloudInv'
           /\ \/ files' = files
              \/ /\ \A f \in files \cup files' : f.key # call[c].key => (f \in files <=> f \in files')
                 /\ \E f \in files' : f.key = call[c].key /\ f.val = call[c].val
<1>0. CallsTyped /\ Shape /\ Folder /\ Order /\ Told /\ Looked /\ Writer BY DEF CloudInv
<1>1. call[c] \in Calls BY <1>0 DEF CallsTyped
<1>2. call[c].key \in Keys /\ call[c].got \in Values \cup {Absent} /\ IsPending(c)
      /\ call[c].dir \in folders \cup {NoId} /\ call[c].val \in Values /\ call[c].op = "put"
  BY <1>0, <1>1 DEF Calls, Order, Folder
<1> DEFINE e == [call[c] EXCEPT !.served = TRUE, !.complete = TRUE]
<1>3. call' = [call EXCEPT ![c] = e] /\ UNCHANGED folders /\ files' \in Stored(c)
  BY <1>0, <1>1 DEF ServeObject, Served, CallsTyped, Calls
<1>4. /\ e \in Calls /\ e.op = call[c].op /\ e.key = call[c].key /\ e.val = call[c].val
      /\ e.res = call[c].res /\ e.req = call[c].req /\ e.served
      /\ e.fid = call[c].fid /\ e.dir = call[c].dir /\ e.complete
  <2>1. e \in Calls BY <1>1 DEF Calls
  <2> QED BY <1>1, <2>1 DEF Calls
<1> HIDE DEF e
<1>5. (\A b \in Callers \ {c} : call'[b] = call[b]) /\ call'[c] = e BY <1>0, <1>3 DEF CallsTyped
<1>6. call[c].fid = NoId BY <1>0 DEF Order
<1> DEFINE k == call[c].key
           n(i) == File(i, call[c].dir, k, call[c].val)
           others == \A f \in files \cup files' : f.key # k => (f \in files <=> f \in files')
<1>7. /\ Shape' /\ Looked' /\ Writer'
      /\ \/ files' = files /\ call[c].complete
         \/ others /\ \E f \in files' : f.key = k /\ f.val = call[c].val
  <2>1. CASE Drive
    <3>1. ~call[c].complete BY <1>0, <2>1 DEF Writer
    <3>2. PICK i \in FreshId : files' = files \cup {n(i)} BY <1>3, <2>1, <3>1 DEF Stored
    <3>3. i \in Ids /\ i # NoId /\ i \notin InUse BY DEF FreshId, Ids, NoId
    <3>4. /\ \A f \in files : f.id # i
          /\ \A b \in Callers : call[b].fid # i
      BY <3>3 DEF InUse
    <3>5. \A f \in files : f.key # k BY <1>0, <1>2, <2>1, <3>1 DEF Writer
    <3>6. call[c].dir \in folders BY <1>0, <2>1 DEF Folder, Past, RequestKinds
    <3>7. n(i) \in [id : Ids \cup {NoId}, dir : Ids \cup {NoId}, key : Keys, val : Values]
          /\ n(i).id = i /\ n(i).dir = call[c].dir /\ n(i).key = k /\ n(i).val = call[c].val
      BY <1>0, <1>2, <3>3, <3>6 DEF File, Shape
    <3> HIDE DEF n
    <3>8. Shape' BY <1>0, <1>3, <2>1, <3>2, <3>3, <3>4, <3>5, <3>6, <3>7 DEF Shape, Drive
    <3>9. \A d \in Callers : seen[d] \subseteq seen'[d] BY <1>3, <1>4, <3>8, WitnessIs
    <3>10. Looked'
      <4>1. ASSUME NEW d \in Callers, call'[d].fid # NoId
            PROVE  /\ \A f \in files' : f.id = call'[d].fid => f.key = call'[d].key
                   /\ Absent \in seen'[d] \/ \E f \in files' : f.id = call'[d].fid
        <5>1. d # c BY <1>4, <1>5, <1>6, <4>1
        <5>2. call'[d] = call[d] BY <1>5, <5>1
        <5> QED BY <1>0, <3>2, <3>4, <3>7, <3>9, <4>1, <5>2 DEF Looked
      <4> QED BY <4>1 DEF Looked
    <3>11. Writer'
      <4>1. ASSUME NEW d \in Callers, d # c, IsPending(d), call[d].op = "put" PROVE call[d].key # k
        BY <1>0, <1>2, <2>1, <4>1 DEF Writer
      <4> QED BY <1>0, <1>4, <1>5, <3>2, <3>7, <4>1 DEF Writer, Drive, IsPending
    <3> QED BY <3>2, <3>5, <3>7, <3>8, <3>10, <3>11
  <2>2. CASE ~Drive
    <3>1. Looked' /\ Writer'
      <4>1. \A d \in Callers : call'[d].fid = NoId BY <1>0, <1>4, <1>5, <2>2 DEF Order
      <4> QED BY <2>2, <4>1 DEF Looked, Writer, Drive
    <3>2. CASE InSession(c) /\ call[c].complete
      <4>1. files' = files BY <1>3, <3>2 DEF Stored
      <4> QED BY <1>0, <1>3, <3>1, <3>2, <4>1 DEF Shape, Drive
    <3>3. CASE ~(InSession(c) /\ call[c].complete)
      <4>1. files' = (files \ Named(NoId, k)) \cup {n(NoId)} BY <1>3, <2>2, <3>3 DEF Stored
      <4>2. call[c].dir = NoId /\ folders = {} BY <1>0, <1>2, <2>2 DEF Shape
      <4>3. n(NoId) \in [id : Ids \cup {NoId}, dir : Ids \cup {NoId}, key : Keys, val : Values]
            /\ n(NoId).id = NoId /\ n(NoId).dir = NoId /\ n(NoId).key = k /\ n(NoId).val = call[c].val
        BY <1>2, <4>2 DEF File
      <4> HIDE DEF n
      <4>4. \A f \in files' : f = n(NoId) \/ (f \in files /\ f.key # k)
        BY <1>0, <2>2, <4>1 DEF Named, Shape
      <4>5. \A f \in files : f.key # k => f \in files' BY <4>1 DEF Named
      <4>6. Shape' BY <1>0, <1>3, <2>2, <4>2, <4>3, <4>4 DEF Shape, Drive
      <4> QED BY <3>1, <4>1, <4>3, <4>4, <4>5, <4>6
    <3> QED BY <3>2, <3>3
  <2> QED BY <2>1, <2>2
<1>8. \A f \in files' : f.key = k => Visible(k)' = f.val
  <2>1. PICK j \in Keys : j = k BY <1>2
  <2>2. Visible(k)' = Visible(j)' BY <1>3, <1>4, <1>7, <2>1, WitnessIs
  <2> QED BY <1>7, <2>1, <2>2, VisibleIsNext
<1>9. e.val \in seen'[c]
  <2>1. \A b \in Callers : seen[b] \subseteq seen'[b] BY <1>3, <1>4, <1>7, WitnessIs
  <2>2. CASE call[c].complete BY <1>0, <1>4, <2>1, <2>2 DEF Told
  <2>3. CASE ~call[c].complete
    <3>1. Visible(call[c].key)' \in seen'[c] BY <1>2, <1>3, <1>4, <1>7, WitnessIs
    <3> QED BY <1>2, <1>3, <1>4, <1>7, <1>8, <2>3, <3>1, WitnessIs
  <2> QED BY <2>2, <2>3
<1>10. CloudInv'
  BY <1>2, <1>3, <1>4, <1>6, <1>7, <1>9, ServedKeeps DEF RequestKinds, Past
<1> QED BY <1>7, <1>10

\* ServeObject: an object is removed, the one that was looked up.
LEMMA RemoveKeeps ==
    ASSUME CloudInv, NEW c \in Callers, call[c].req = "remove", ~call[c].served,
           ServeObject(c), UNCHANGED <<provider, folderID>>, Witness
    PROVE  /\ CloudInv'
           /\ \/ files' = files
              \/ files' = {f \in files : f.key # call[c].key}
<1>0. CallsTyped /\ Shape /\ Folder /\ Order /\ Told /\ Looked /\ Writer BY DEF CloudInv
<1>1. call[c] \in Calls BY <1>0 DEF CallsTyped
<1>2. call[c].key \in Keys /\ call[c].got \in Values \cup {Absent} /\ IsPending(c)
      /\ call[c].dir \in folders \cup {NoId} /\ call[c].op = "delete" /\ ~call[c].complete
  BY <1>0, <1>1 DEF Calls, Order, Folder
<1> DEFINE e == [call[c] EXCEPT !.served = TRUE]
<1>3. call' = [call EXCEPT ![c] = e] /\ UNCHANGED folders /\ files' = Removed(c)
  BY <1>0, <1>1 DEF ServeObject, Served, CallsTyped, Calls
<1>4. /\ e \in Calls /\ e.op = call[c].op /\ e.key = call[c].key /\ e.val = call[c].val
      /\ e.res = call[c].res /\ e.req = call[c].req /\ e.served
      /\ e.fid = call[c].fid /\ e.dir = call[c].dir /\ ~e.complete
  <2>1. e \in Calls BY <1>1 DEF Calls
  <2> QED BY <1>1, <1>2, <2>1 DEF Calls
<1> HIDE DEF e
<1>5. (\A b \in Callers \ {c} : call'[b] = call[b]) /\ call'[c] = e BY <1>0, <1>3 DEF CallsTyped
<1>6. PICK k \in Keys : k = call[c].key BY <1>2
<1>7. /\ files' = files \/ files' = {f \in files : f.key # k}
      /\ Absent \in seen[c] \/ files' = {f \in files : f.key # k}
  <2>1. CASE Drive
    <3>1. call[c].fid # NoId BY <1>0, <2>1 DEF Order
    <3>2. files' = {f \in files : f.id # call[c].fid} BY <1>3, <2>1 DEF Removed
    <3>3. CASE \E f \in files : f.id = call[c].fid
      <4>1. PICK f \in files : f.id = call[c].fid BY <3>3
      <4>2. f.key = k BY <1>0, <1>6, <3>1, <4>1 DEF Looked
      <4>3. \A g \in files : g.key = k <=> g.id = call[c].fid BY <1>0, <2>1, <4>1, <4>2 DEF Shape
      <4> QED BY <3>2, <4>3
    <3>4. CASE \A f \in files : f.id # call[c].fid
      <4>1. Absent \in seen[c] BY <1>0, <3>1, <3>4 DEF Looked
      <4> QED BY <3>2, <3>4, <4>1
    <3> QED BY <3>3, <3>4
  <2>2. CASE ~Drive
    <3>1. files' = files \ Named(NoId, k) BY <1>3, <1>6, <2>2 DEF Removed
    <3>2. \A f \in files : f.dir = NoId BY <1>0, <2>2 DEF Shape
    <3> QED BY <3>1, <3>2 DEF Named
  <2> QED BY <2>1, <2>2
<1>8. \A f \in files' : f \in files BY <1>7
<1>9. Shape' BY <1>0, <1>3, <1>8 DEF Shape, Drive
<1>10. /\ \A b \in Callers : seen[b] \subseteq seen'[b]
       /\ \A b \in Callers : IsPending(b) => seen'[b] = seen[b] \cup {Visible(call[b].key)'}
       /\ \A b \in Callers, j \in Keys : call[b].key = j => Visible(call[b].key)' = Visible(j)'
  BY <1>3, <1>4, <1>9, WitnessIs
<1>11. ASSUME NEW b \in Callers, IsPending(b), call[b].key = k, files' = {f \in files : f.key # k}
       PROVE  Absent \in seen'[b]
  <2>1. Visible(k)' = Absent BY <1>9, <1>11, VisibleIsNext
  <2> QED BY <1>10, <1>11, <2>1
<1>12. Absent \in seen'[c] BY <1>2, <1>6, <1>7, <1>10, <1>11
<1>13. Looked'
  <2>1. ASSUME NEW d \in Callers, call'[d].fid # NoId
        PROVE  /\ \A f \in files' : f.id = call'[d].fid => f.key = call'[d].key
               /\ Absent \in seen'[d] \/ \E f \in files' : f.id = call'[d].fid
    <3>1. call'[d].fid = call[d].fid /\ call'[d].key = call[d].key BY <1>4, <1>5
    <3>2. IsPending(d) BY <1>0, <2>1, <3>1 DEF Order
    <3>3. CASE \E f \in files : f.id = call[d].fid /\ f \notin files'
      <4>1. call[d].key = k /\ files' = {f \in files : f.key # k}
        BY <1>0, <1>7, <2>1, <3>1, <3>3 DEF Looked
      <4> QED BY <1>0, <1>8, <1>11, <2>1, <3>1, <3>2, <4>1 DEF Looked
    <3>4. CASE \A f \in files : f.id = call[d].fid => f \in files'
      BY <1>0, <1>8, <1>10, <2>1, <3>1, <3>4 DEF Looked
    <3> QED BY <3>3, <3>4
  <2> QED BY <2>1 DEF Looked
<1>14. Writer' BY <1>0, <1>4, <1>5, <1>2, <1>8 DEF Writer, Drive, IsPending
<1>15. e.fid # NoId => Drive BY <1>0, <1>4 DEF Order
<1>16. CloudInv'
  BY <1>2, <1>3, <1>4, <1>9, <1>12, <1>13, <1>14, <1>15, ServedKeeps DEF RequestKinds, Past
<1> QED BY <1>6, <1>7, <1>16

\* Serve.
LEMMA ServeKeeps ==
    ASSUME CloudInv, NEW c \in Callers, Serve(c)
    PROVE  CloudInv'
<1>1. call[c].req \in RequestKinds /\ ~call[c].served /\ UNCHANGED <<provider, folderID>> /\ Witness
  BY DEF Serve
<1>2. CASE ServeLookup(c) BY <1>1, <1>2, LookupKeeps
<1>3. CASE ServeObject(c)
  <2>1. call[c].req \in {"session", "chunk", "store", "remove", "fetch", "stat"}
    BY <1>3 DEF ServeObject
  <2> QED BY <1>1, <1>3, <2>1, ReadKeeps, StoreKeeps, RemoveKeeps
<1> QED BY <1>2, <1>3 DEF Serve

-----------------------------------------------------------------------------
\* What a provider and its callers look like at any time: the inductive
\* invariant, of every provider but a Drive that is not used with care.
THEOREM CloudInvariant ==
    ASSUME Careful \/ "gdrive" \notin Providers
    PROVE  CloudSpec => []CloudInv
<1>1. CloudInit => CloudInv
  <2> SUFFICES ASSUME CloudInit PROVE CloudInv OBVIOUS
  <2>1. PICK k \in Keys : call = [c \in Callers |-> [Working("has", k, Absent) EXCEPT
                                     !.res = FailedCall, !.req = "none"]]
    BY DEF CloudInit
  <2> DEFINE e == [Working("has", k, Absent) EXCEPT !.res = FailedCall, !.req = "none"]
  <2>2. e \in Calls
    <3>1. 0 \in 0..MaxAttempts - 1 BY CloudAssumption
    <3>2. FailedCall \in Results /\ Pending \in Results BY DEF FailedCall, Pending, Results
    <3>3. Working("has", k, Absent) \in Calls
      BY <3>1, <3>2 DEF Working, Calls, Ops
    <3> QED BY <3>2, <3>3 DEF Calls
  <2>3. /\ e.req = "none" /\ e.res # Pending /\ e.op = "has" /\ e.val = Absent /\ e.fid = NoId
        /\ e.dir = NoId /\ ~e.complete /\ ~e.served
    BY DEF Working, FailedCall, Pending
  <2> HIDE DEF e
  <2>4. CallsTyped BY <2>1, <2>2 DEF CloudInit, CallsTyped, e
  <2>5. \A c \in Callers : call[c] = e BY <2>1 DEF e
  <2>6. Shape BY DEF CloudInit, Shape, NoId
  <2>7. Folder BY <2>3, <2>5 DEF Folder, Past, RequestKinds
  <2>8. Order BY <2>3, <2>5 DEF Order, IsPending
  <2>9. Told BY <2>3, <2>5 DEF Told, IsPending
  <2>10. Looked /\ Writer BY <2>3, <2>5 DEF Looked, Writer, IsPending
  <2> QED BY <2>4, <2>6, <2>7, <2>8, <2>9, <2>10 DEF CloudInv
<1>2. CloudInv /\ [CloudNext]_cloudVars => CloudInv'
  <2> SUFFICES ASSUME CloudInv, [CloudNext]_cloudVars PROVE CloudInv' OBVIOUS
  <2>1. CASE CloudCrash BY <2>1, CrashKeeps
  <2>2. ASSUME NEW c \in Callers, Begin(c) PROVE CloudInv' BY <2>2, BeginKeeps
  <2>3. ASSUME NEW c \in Callers, Prepare(c) PROVE CloudInv' BY <2>3, PrepareKeeps
  <2>4. ASSUME NEW c \in Callers, Serve(c) PROVE CloudInv' BY <2>4, ServeKeeps
  <2>5. ASSUME NEW c \in Callers, AnswerOk(c) PROVE CloudInv' BY <2>5, AnswerOkKeeps
  <2>6. ASSUME NEW c \in Callers, AnswerTransient(c) PROVE CloudInv' BY <2>6, TransientKeeps
  <2>7. ASSUME NEW c \in Callers, AnswerError(c) PROVE CloudInv'
    BY <2>7, FailureKeeps DEF AnswerError
  <2>8. CASE UNCHANGED cloudVars
    BY <2>8 DEF cloudVars, CloudInv, CallsTyped, Shape, Folder, Order, Told, Looked, Writer,
       IsPending, Drive, Visible, Named, Home
  <2> QED BY <2>1, <2>2, <2>3, <2>4, <2>5, <2>6, <2>7, <2>8 DEF CloudNext, Deadline
<1> QED BY <1>1, <1>2, PTL DEF CloudSpec

\* The types that CloudTypeOK states: ids and folders are Drive's alone, and
\* retry() makes at most maxAttempts attempts.
THEOREM CloudTypes ==
    ASSUME Careful \/ "gdrive" \notin Providers
    PROVE  CloudSpec => []CloudTypeOK
<1>1. CloudInv => CloudTypeOK
  <2> SUFFICES ASSUME CloudInv PROVE CloudTypeOK OBVIOUS
  <2>0. CallsTyped /\ Shape /\ Folder /\ Order BY DEF CloudInv
  <2>1. \A c \in Callers : call[c] \in Calls BY <2>0 DEF CallsTyped
  <2>2. \A c \in Callers : /\ call[c].req \in RequestKinds \cup {"begin", "none"}
                           /\ call[c].tries \in 0..MaxAttempts - 1
    BY <2>1 DEF Calls
  <2>3. \A f \in files : /\ f.id \in Ids \cup {NoId} /\ f.dir \in folders \cup {NoId}
                         /\ f.key \in Keys /\ f.val \in Values
                         /\ (f.id # NoId) <=> Drive
    BY <2>0 DEF Shape
  <2> QED BY <2>0, <2>2, <2>3 DEF CloudTypeOK, Shape, Folder, Order
<1> QED BY <1>1, CloudInvariant, PTL

-----------------------------------------------------------------------------
(* The refinement: every step is one of the contract, or none at all. *)

\* The call as the contract knows it.
Shown(r) == [op |-> r.op, key |-> r.key, val |-> r.val, res |-> r.res]

\* A step that shows the callers nothing.
LEMMA Stutters ==
    ASSUME CloudInv, CloudInv', files' = files, UNCHANGED seen,
           \A d \in Callers : Shown(call'[d]) = Shown(call[d])
    PROVE  UNCHANGED Contract!vars
<1>1. \A k \in Keys : Visible(k)' = Visible(k) BY SameFiles DEF CloudInv
<1> QED BY <1>1 DEF Contract!vars, Shown

\* A step that ends a call with a result the contract allows.
LEMMA Returns ==
    ASSUME CloudInv, CloudInv', files' = files, NEW c \in Callers, IsPending(c),
           NEW r, call' = Ended(c, r), seen' = [seen EXCEPT ![c] = {}], r \in Contract!Truthful(c)
    PROVE  Contract!Return(c)
<1>1. \A k \in Keys : Visible(k)' = Visible(k) BY SameFiles DEF CloudInv
<1>2. call[c] \in Calls /\ call \in [Callers -> Calls] BY DEF CloudInv, CallsTyped
<1>3. Shown(call'[c]) = [Shown(call[c]) EXCEPT !.res = r]
  BY <1>2 DEF Ended, Shown, Calls
<1>4. \A d \in Callers \ {c} : call'[d] = call[d] BY <1>2 DEF Ended
<1>5. Contract!IsPending(c) BY DEF Contract!IsPending, IsPending, Contract!Pending, Pending
<1> DEFINE M == [d \in Callers |-> Shown(call[d])]
<1>6. M' = [M EXCEPT ![c].res = r]
  <2>1. M'[c] = [M[c] EXCEPT !.res = r] BY <1>3
  <2>2. \A d \in Callers \ {c} : M'[d] = M[d] BY <1>4
  <2> QED BY <2>1, <2>2
<1>7. [k \in Keys |-> Visible(k)]' = [k \in Keys |-> Visible(k)] BY <1>1
<1> QED BY <1>5, <1>6, <1>7 DEF Contract!Return, Shown

\* Result: a call reports what it has seen.
LEMMA ResultIsTruthful ==
    ASSUME CloudInv, NEW c \in Callers, call[c].served, NextRequest(c) = "none"
    PROVE  Result(c) \in Contract!Truthful(c)
<1>0. CallsTyped /\ Shape /\ Folder /\ Order /\ Told /\ Looked /\ Writer BY DEF CloudInv
<1>1. /\ call[c].req \in RequestKinds /\ call[c].op \in Ops
      /\ (call[c].op = "put") <=> (call[c].val # Absent)
  BY <1>0 DEF Order, CallsTyped, Calls
<1>2. FirstRequest(call[c].op, call[c].val) # "none"
  BY <1>1, FirstRequestIs DEF Past, RequestKinds
<1>3. \/ call[c].req \in {"store", "fetch", "stat", "remove"}
      \/ call[c].req = "query" /\ (call[c].fid = NoId \/ call[c].op \notin {"get", "delete"})
  BY <1>1, <1>2 DEF NextRequest, RequestKinds
<1>4. CASE call[c].op \in {"put", "delete"}
  <2>1. call[c].val \in seen[c] BY <1>0, <1>1, <1>3, <1>4 DEF Order, Told
  <2>2. Result(c) = Done BY <1>4 DEF Result
  <2> QED BY <1>4, <2>1, <2>2 DEF Contract!Truthful, Done, Contract!Done
<1>5. CASE call[c].op = "get"
  <2>1. call[c].got \in seen[c] BY <1>0, <1>1, <1>3, <1>5 DEF Order, Told
  <2>2. Result(c) = IF call[c].got = Absent THEN NotFound ELSE Found(call[c].got) BY <1>5 DEF Result
  <2> QED BY <1>5, <2>1, <2>2 DEF Contract!Truthful, NotFound, Contract!NotFound, Found, Contract!Found
<1>6. CASE call[c].op = "has"
  <2>1. call[c].got \in seen[c] BY <1>0, <1>1, <1>3, <1>6 DEF Order, Told
  <2>2. Result(c) = Is(call[c].got # Absent) BY <1>6 DEF Result
  <2> QED BY <1>6, <2>1, <2>2 DEF Contract!Truthful, Is, Contract!Is
<1> QED BY <1>1, <1>4, <1>5, <1>6 DEF Ops

\* A call that fails.
LEMMA FailureReturns ==
    ASSUME CloudInv, CloudInv', files' = files, NEW c \in Callers, IsPending(c),
           call' = Ended(c, FailedCall), seen' = [seen EXCEPT ![c] = {}]
    PROVE  Contract!Return(c)
<1>1. FailedCall \in Contract!Truthful(c) BY DEF FailedCall, Contract!Truthful, Contract!Failed
<1> QED BY <1>1, Returns

\* Begin.
LEMMA BeginRefines ==
    ASSUME CloudInv, CloudInv', NEW c \in Callers, Begin(c)
    PROVE  Contract!Begin(c)
<1>1. PICK op \in Ops, k \in Keys, v \in Values \cup {Absent} :
          /\ (op = "put") <=> (v # Absent)
          /\ call' = [call EXCEPT ![c] = Working(op, k, v)]
          /\ seen' = [seen EXCEPT ![c] = {Visible(k)}]
  BY DEF Begin, Ops
<1>2. \A j \in Keys : Visible(j)' = Visible(j) BY SameFiles DEF CloudInv, Begin
<1>3. call \in [Callers -> Calls] BY DEF CloudInv, CallsTyped
<1> DEFINE M == [d \in Callers |-> Shown(call[d])]
           S == [j \in Keys |-> Visible(j)]
<1>4. M' = [M EXCEPT ![c] = Contract!Call(op, k, v, Contract!Pending)]
  <2>1. Shown(call'[c]) = Contract!Call(op, k, v, Contract!Pending)
    BY <1>1, <1>3 DEF Shown, Working, Contract!Call, Contract!Pending, Pending
  <2>2. \A d \in Callers \ {c} : call'[d] = call[d] BY <1>1, <1>3
  <2> QED BY <2>1, <2>2
<1>5. S' = S BY <1>2
<1>6. S[k] = Visible(k) OBVIOUS
<1>7. ~Contract!IsPending(c) BY DEF Begin, Contract!IsPending, IsPending, Contract!Pending, Pending
<1> QED BY <1>1, <1>4, <1>5, <1>6, <1>7 DEF Contract!Begin, Contract!Ops, Ops, Shown

\* Prepare, and the answers to a request.
LEMMA QuietRefines ==
    ASSUME CloudInv, CloudInv', NEW c \in Callers,
           Prepare(c) \/ AnswerOk(c) \/ AnswerTransient(c) \/ AnswerError(c)
    PROVE  Contract!Return(c) \/ UNCHANGED Contract!vars
<1>0. CallsTyped /\ Order BY DEF CloudInv
<1>1. call \in [Callers -> Calls] BY <1>0 DEF CallsTyped
<1>2. files' = files BY DEF Prepare, AnswerOk, AnswerTransient, AnswerError
<1>3. IsPending(c)
  BY <1>0 DEF Prepare, AnswerOk, AnswerTransient, AnswerError, MayFail, Order, RequestKinds
<1>4. CASE call' = Ended(c, FailedCall) /\ seen' = [seen EXCEPT ![c] = {}]
  BY <1>2, <1>3, <1>4, FailureReturns
<1>5. CASE Prepare(c)
  <2>1. ASSUME UNCHANGED seen,
               \/ call' = [call EXCEPT ![c].req = "find"]
               \/ call' = [call EXCEPT ![c].req = FirstRequest(call[c].op, call[c].val),
                                       ![c].dir = folderID]
        PROVE  UNCHANGED Contract!vars
    <3>1. \A d \in Callers : Shown(call'[d]) = Shown(call[d]) BY <1>1, <2>1 DEF Shown, Calls
    <3> QED BY <1>2, <2>1, <3>1, Stutters
  <2> QED BY <1>4, <1>5, <2>1 DEF Prepare
<1>6. CASE AnswerOk(c)
  <2>1. CASE NextRequest(c) = "none"
    BY <1>2, <1>3, <1>6, <2>1, ResultIsTruthful, Returns DEF AnswerOk
  <2>2. CASE NextRequest(c) # "none"
    <3>1. call' = [call EXCEPT ![c].req = NextRequest(c), ![c].tries = 0, ![c].served = FALSE]
          /\ UNCHANGED seen
      BY <1>6, <2>2 DEF AnswerOk
    <3>2. \A d \in Callers : Shown(call'[d]) = Shown(call[d]) BY <1>1, <3>1 DEF Shown, Calls
    <3> QED BY <1>2, <3>1, <3>2, Stutters
  <2> QED BY <2>1, <2>2
<1>7. CASE AnswerTransient(c)
  <2>1. ASSUME call' = [call EXCEPT ![c].tries = @ + 1, ![c].served = FALSE], UNCHANGED seen
        PROVE  UNCHANGED Contract!vars
    <3>1. \A d \in Callers : Shown(call'[d]) = Shown(call[d]) BY <1>1, <2>1 DEF Shown, Calls
    <3> QED BY <1>2, <2>1, <3>1, Stutters
  <2> QED BY <1>4, <1>7, <2>1 DEF AnswerTransient
<1>8. CASE AnswerError(c) BY <1>4, <1>8 DEF AnswerError
<1> QED BY <1>5, <1>6, <1>7, <1>8

\* CloudCrash.
LEMMA CrashRefines ==
    ASSUME CloudInv, CloudInv', CloudCrash
    PROVE  Contract!Crash
<1>1. call \in [Callers -> Calls] BY DEF CloudInv, CallsTyped
<1>2. \A j \in Keys : Visible(j)' = Visible(j) BY SameFiles DEF CloudInv, CloudCrash
<1> DEFINE M == [d \in Callers |-> Shown(call[d])]
           S == [j \in Keys |-> Visible(j)]
<1>3. S' = S BY <1>2
<1>4. \A d \in Callers : Contract!IsPending(d) <=> IsPending(d)
  BY DEF Contract!IsPending, IsPending, Contract!Pending, Pending
<1>5. M' = [d \in Callers |-> IF Contract!IsPending(d) THEN [M[d] EXCEPT !.res = Contract!Failed]
                                                       ELSE M[d]]
  <2>1. ASSUME NEW d \in Callers
        PROVE  Shown(call'[d]) = IF IsPending(d) THEN [M[d] EXCEPT !.res = Contract!Failed] ELSE M[d]
    <3>1. call'[d] = IF IsPending(d) THEN Ended(d, FailedCall)[d] ELSE call[d] BY DEF CloudCrash
    <3>2. Shown(Ended(d, FailedCall)[d]) = [Shown(call[d]) EXCEPT !.res = FailedCall]
      BY <1>1 DEF Ended, Shown, Calls
    <3> QED BY <3>1, <3>2 DEF FailedCall, Contract!Failed
  <2> QED BY <1>4, <2>1
<1> QED BY <1>3, <1>5 DEF Contract!Crash, CloudCrash, Shown

\* Serve: what the callers are shown of their calls does not change.
LEMMA ServeShows ==
    ASSUME CloudInv, CloudInv', NEW c \in Callers, Serve(c)
    PROVE  \E e \in Calls : call' = [call EXCEPT ![c] = e] /\ Shown(e) = Shown(call[c]) /\ e.key = call[c].key
<1>1. call \in [Callers -> Calls] /\ call' \in [Callers -> Calls] BY DEF CloudInv, CallsTyped
<1>2. call' = [call EXCEPT ![c] = call'[c]] /\ Shown(call'[c]) = Shown(call[c]) /\ call'[c].key = call[c].key
  <2>1. CASE ServeLookup(c)
    <3>1. \/ \E d : call' = [Served(c) EXCEPT ![c].dir = d]
          \/ \E i, g : call' = [Served(c) EXCEPT ![c].fid = i, ![c].got = g]
      BY <2>1 DEF ServeLookup
    <3>2. CASE \E d : call' = [Served(c) EXCEPT ![c].dir = d]
      <4>1. PICK d : call' = [Served(c) EXCEPT ![c].dir = d] BY <3>2
      <4>2. call' = [call EXCEPT ![c] = [call[c] EXCEPT !.served = TRUE, !.dir = d]]
        BY <1>1, <4>1 DEF Served, Calls
      <4>3. call'[c] = [call[c] EXCEPT !.served = TRUE, !.dir = d] BY <1>1, <4>2
      <4> QED BY <1>1, <4>2, <4>3 DEF Shown, Calls
    <3>3. CASE \E i, g : call' = [Served(c) EXCEPT ![c].fid = i, ![c].got = g]
      <4>1. PICK i, g : call' = [Served(c) EXCEPT ![c].fid = i, ![c].got = g] BY <3>3
      <4>2. call' = [call EXCEPT ![c] = [call[c] EXCEPT !.served = TRUE, !.fid = i, !.got = g]]
        BY <1>1, <4>1 DEF Served, Calls
      <4>3. call'[c] = [call[c] EXCEPT !.served = TRUE, !.fid = i, !.got = g] BY <1>1, <4>2
      <4> QED BY <1>1, <4>2, <4>3 DEF Shown, Calls
    <3> QED BY <3>1, <3>2, <3>3
  <2>2. CASE ServeObject(c) BY <1>1, <2>2 DEF ServeObject, Served, Shown, Calls
  <2> QED BY <2>1, <2>2 DEF Serve
<1> QED BY <1>1, <1>2

\* A key now holds what the call writes, and the others what they held.
LEMMA ChangeRefines ==
    ASSUME CloudInv, CloudInv', Witness, NEW c \in Callers, IsPending(c), call[c].op \in {"put", "delete"},
           NEW e \in Calls, call' = [call EXCEPT ![c] = e], Shown(e) = Shown(call[c]), e.key = call[c].key,
           \A f \in files \cup files' : f.key # call[c].key => (f \in files <=> f \in files'),
           \/ \E f \in files' : f.key = call[c].key /\ f.val = call[c].val
           \/ (\A f \in files' : f.key # call[c].key) /\ call[c].val = Absent
    PROVE  Contract!Change(c)
<1>0. CallsTyped /\ Shape /\ Told BY DEF CloudInv
<1>1. call \in [Callers -> Calls] /\ seen \in [Callers -> SUBSET (Values \cup {Absent})]
  BY <1>0 DEF CallsTyped
<1>2. PICK k \in Keys : k = call[c].key BY <1>1 DEF Calls
<1>3. Shape' BY DEF CloudInv
<1>4. Visible(k)' = call[c].val
  BY <1>2, <1>3, VisibleIsNext
<1>5. ASSUME NEW j \in Keys, j # k PROVE Visible(j)' = Visible(j)
  <2>1. CASE \E f \in files : f.key = j
    <3>1. PICK f \in files : f.key = j BY <2>1
    <3> QED BY <1>0, <1>2, <1>3, <1>5, <3>1, VisibleIs, VisibleIsNext
  <2>2. CASE \A f \in files : f.key # j
    <3>1. \A f \in files' : f.key # j BY <1>2, <1>5, <2>2
    <3> QED BY <1>0, <1>3, <2>2, <3>1, VisibleIs, VisibleIsNext
  <2> QED BY <2>1, <2>2
<1>6. /\ seen' \in [Callers -> SUBSET (Values \cup {Absent})]
      /\ \A d \in Callers, j \in Keys : call[d].key = j => Visible(call[d].key)' = Visible(j)'
      /\ \A d \in Callers : IsPending(d) => seen'[d] = seen[d] \cup {Visible(call[d].key)'}
      /\ \A d \in Callers : ~IsPending(d) => seen'[d] = seen[d]
  BY <1>3, WitnessIs
<1> DEFINE M == [d \in Callers |-> Shown(call[d])]
           S == [j \in Keys |-> Visible(j)]
<1>7. M' = M BY <1>1
<1>8. S' = [S EXCEPT ![k] = call[c].val] BY <1>4, <1>5
<1>9. ASSUME NEW d \in Callers
      PROVE  seen'[d] = IF IsPending(d) /\ call[d].key = k THEN seen[d] \cup {call[c].val} ELSE seen[d]
  <2>1. CASE ~IsPending(d) BY <1>6, <2>1
  <2>2. CASE IsPending(d) /\ call[d].key = k BY <1>4, <1>6, <2>2
  <2>3. CASE IsPending(d) /\ call[d].key # k
    <3>1. PICK j \in Keys : j = call[d].key BY <1>1 DEF Calls
    <3>2. Visible(call[d].key)' = Visible(j) BY <1>5, <1>6, <2>3, <3>1
    <3>3. seen'[d] = seen[d] \cup {Visible(j)} BY <1>6, <2>3, <3>2
    <3>4. Visible(call[d].key) \in seen[d] BY <1>0, <2>3 DEF Told
    <3>5. Visible(j) \in seen[d] BY <3>1, <3>4, Zenon
    <3> QED BY <2>3, <3>3, <3>5
  <2> QED BY <2>1, <2>2, <2>3
<1>10. \A d \in Callers : Contract!IsPending(d) <=> IsPending(d)
  BY DEF Contract!IsPending, IsPending, Contract!Pending, Pending
<1>11. /\ M[c].key = k /\ M[c].val = call[c].val /\ M[c].op = call[c].op
       /\ \A d \in Callers : M[d].key = call[d].key
  BY <1>2 DEF Shown
<1>12. seen' = Contract!Witnessed(k, call[c].val)
  <2>1. seen' = [d \in Callers |-> seen'[d]] BY <1>6
  <2>2. Contract!Witnessed(k, call[c].val) =
          [d \in Callers |-> IF IsPending(d) /\ call[d].key = k THEN seen[d] \cup {call[c].val} ELSE seen[d]]
    BY <1>10 DEF Contract!Witnessed
  <2> QED BY <1>9, <2>1, <2>2
<1> QED BY <1>2, <1>7, <1>8, <1>10, <1>11, <1>12 DEF Contract!Change, Shown

\* Serve.
LEMMA ServeRefines ==
    ASSUME CloudInv, CloudInv', NEW c \in Callers, Serve(c)
    PROVE  Contract!Change(c) \/ UNCHANGED Contract!vars
<1>0. CallsTyped /\ Shape /\ Folder /\ Order /\ Told /\ Looked /\ Writer BY DEF CloudInv
<1>1. call[c].req \in RequestKinds /\ ~call[c].served /\ UNCHANGED <<provider, folderID>> /\ Witness
  BY DEF Serve
<1>2. PICK e \in Calls : call' = [call EXCEPT ![c] = e] /\ Shown(e) = Shown(call[c]) /\ e.key = call[c].key
  BY ServeShows
<1>3. IsPending(c) BY <1>0, <1>1 DEF Order, RequestKinds
<1>4. CASE files' = files
  <2>1. \A k \in Keys : Visible(k)' = Visible(k) BY <1>4, SameFiles DEF CloudInv
  <2>2. /\ \A d \in Callers, j \in Keys : call[d].key = j => Visible(call[d].key)' = Visible(j)'
        /\ \A d \in Callers : IsPending(d) => seen'[d] = seen[d] \cup {Visible(call[d].key)'}
        /\ \A d \in Callers : ~IsPending(d) => seen'[d] = seen[d]
        /\ seen' \in [Callers -> SUBSET (Values \cup {Absent})]
    BY <1>1, <1>2, WitnessIs DEF CloudInv
  <2>3. ASSUME NEW d \in Callers PROVE seen'[d] = seen[d]
    <3>1. CASE IsPending(d)
      <4>1. PICK j \in Keys : j = call[d].key BY <1>0 DEF CallsTyped, Calls
      <4>2. Visible(call[d].key)' = Visible(j) BY <2>1, <2>2, <4>1
      <4>3. seen'[d] = seen[d] \cup {Visible(j)} BY <2>2, <3>1, <4>2
      <4>4. Visible(call[d].key) \in seen[d] BY <1>0, <3>1 DEF Told
      <4>5. Visible(j) \in seen[d] BY <4>1, <4>4, Zenon
      <4> QED BY <4>3, <4>5
    <3>2. CASE ~IsPending(d) BY <2>2, <3>2
    <3> QED BY <3>1, <3>2
  <2>4. seen' = seen BY <1>0, <2>2, <2>3 DEF CallsTyped
  <2>5. \A d \in Callers : Shown(call'[d]) = Shown(call[d]) BY <1>0, <1>2 DEF CallsTyped
  <2> QED BY <1>4, <2>4, <2>5, Stutters
<1>5. CASE files' # files
  <2>1. ServeObject(c) /\ call[c].req \in {"store", "remove"}
    BY <1>5 DEF Serve, ServeLookup, ServeObject
  <2>2. CASE call[c].req = "store"
    <3>1. call[c].op = "put" BY <1>0, <2>2 DEF Order
    <3>2. /\ \A f \in files \cup files' : f.key # call[c].key => (f \in files <=> f \in files')
          /\ \E f \in files' : f.key = call[c].key /\ f.val = call[c].val
      BY <1>1, <1>5, <2>1, <2>2, StoreKeeps
    <3> QED BY <1>1, <1>2, <1>3, <3>1, <3>2, ChangeRefines
  <2>3. CASE call[c].req = "remove"
    <3>1. call[c].op = "delete" /\ call[c].val = Absent BY <1>0, <2>3 DEF Order
    <3>2. files' = {f \in files : f.key # call[c].key} BY <1>1, <1>5, <2>1, <2>3, RemoveKeeps
    <3> QED BY <1>1, <1>2, <1>3, <3>1, <3>2, ChangeRefines
  <2> QED BY <2>1, <2>2, <2>3
<1> QED BY <1>4, <1>5

\* Every step of LocalFS, S3, OneDrive and Drive is one that storage.Backend
\* allows: an object changes whole, only for a call under way, and what a
\* successful call reports was true of the object while the call ran.
THEOREM ClientsImplementBackend ==
    ASSUME Careful \/ "gdrive" \notin Providers
    PROVE  CloudSpec => Implements
<1>1. CloudInit => Contract!Init
  <2> SUFFICES ASSUME CloudInit PROVE Contract!Init OBVIOUS
  <2>1. PICK k \in Keys : call = [c \in Callers |-> [Working("has", k, Absent) EXCEPT
                                     !.res = FailedCall, !.req = "none"]]
    BY DEF CloudInit
  <2>2. \A j \in Keys : Visible(j) = Absent BY DEF CloudInit, Visible, Named
  <2>3. [c \in Callers |-> Shown(call[c])] = [c \in Callers |-> Contract!Call("has", k, Absent, Contract!Failed)]
    <3>1. \A c \in Callers : Shown(call[c]) = Contract!Call("has", k, Absent, Contract!Failed)
      BY <2>1 DEF Shown, Working, Contract!Call, Contract!Failed, FailedCall
    <3> QED BY <3>1
  <2> QED BY <2>2, <2>3 DEF Contract!Init, CloudInit, Shown
<1>2. CloudInv /\ CloudInv' /\ [CloudNext]_cloudVars => [Contract!Next]_(Contract!vars)
  <2> SUFFICES ASSUME CloudInv, CloudInv', [CloudNext]_cloudVars
               PROVE  Contract!Next \/ UNCHANGED Contract!vars
    OBVIOUS
  <2>1. CASE CloudCrash BY <2>1, CrashRefines DEF Contract!Next
  <2>2. ASSUME NEW c \in Callers, Begin(c) PROVE Contract!Next BY <2>2, BeginRefines DEF Contract!Next
  <2>3. ASSUME NEW c \in Callers, Prepare(c) \/ AnswerOk(c) \/ AnswerTransient(c) \/ AnswerError(c)
        PROVE  Contract!Next \/ UNCHANGED Contract!vars
    BY <2>3, QuietRefines DEF Contract!Next
  <2>4. ASSUME NEW c \in Callers, Serve(c) PROVE Contract!Next \/ UNCHANGED Contract!vars
    BY <2>4, ServeRefines DEF Contract!Next
  <2>5. CASE UNCHANGED cloudVars
    <3>1. \A k \in Keys : Visible(k)' = Visible(k) BY <2>5, SameFiles DEF cloudVars, CloudInv
    <3> QED BY <2>5, <3>1 DEF cloudVars, Contract!vars
  <2> QED BY <2>1, <2>2, <2>3, <2>4, <2>5 DEF CloudNext, Deadline
<1> QED BY <1>1, <1>2, CloudInvariant, PTL DEF CloudSpec, Implements, Contract!Spec
=============================================================================
