---------------------------- MODULE CloudClients ----------------------------
(***************************************************************************)
(* The implementations of storage.Backend: LocalFS, S3, OneDrive and Google *)
(* Drive, each call as the requests it sends, one after another, with the   *)
(* retries of retry() and the answers a provider may give.  S3, OneDrive    *)
(* and the local disk address objects by key; Drive addresses them by an id *)
(* that is looked up by name in a folder that is itself looked up by name.  *)
(* The providers are external: a request is served at most once, at an      *)
(* instant before its answer; an answer may report a failure although the   *)
(* request was served.  A request whose failure was reported is dead.       *)
(***************************************************************************)
EXTENDS Integers

CONSTANTS
    Keys, Values, Callers, Absent,
    Providers,    \* the backends to choose from: Kinds, or some of them
    Large,        \* the objects that OneDrive uploads in chunks
    MaxAttempts,  \* maxAttempts of retry(): 4 in the code
    MaxIds,       \* bound on the ids Drive has in use
    Careful       \* TRUE: on Drive a key is written by one call at a time, only
                  \* while it holds no object, and no answer to a request that
                  \* was served reports a failure

Kinds == {"local", "s3", "onedrive", "gdrive"}
Ids   == 1..MaxIds
NoId  == 0

ASSUME CloudAssumption ==
    /\ Providers \subseteq Kinds /\ Large \subseteq Values /\ Absent \notin Values
    /\ MaxAttempts \in Nat \ {0} /\ MaxIds \in Nat /\ Careful \in BOOLEAN

VARIABLES
    provider,  \* which implementation this backend is
    files,     \* the provider's objects
    folders,   \* ids of the Drive folders that have the destination's name
    folderID,  \* g.folderID, NoId until resolved
    call,      \* the call of each caller: see Working
    seen       \* history: the states of the object during the call

cloudVars == <<provider, files, folders, folderID, call, seen>>

\* The object at a path, or on Drive a file with an id in a folder.
File(i, d, k, v) == [id |-> i, dir |-> d, key |-> k, val |-> v]

Done     == [tag |-> "done", val |-> Absent]
FailedCall == [tag |-> "failed", val |-> Absent]
Pending  == [tag |-> "pending", val |-> Absent]
NotFound == [tag |-> "notfound", val |-> Absent]
Found(v) == [tag |-> "found", val |-> v]
Is(b)    == [tag |-> IF b THEN "yes" ELSE "no", val |-> Absent]

\* A call: arguments and result; the request it is at; the attempts that
\* failed; whether the request was served, and whether its upload session has
\* been completed; the ids it looked up, and what the provider told it.
Working(op, k, v) ==
    [op |-> op, key |-> k, val |-> v, res |-> Pending, req |-> "begin",
     tries |-> 0, served |-> FALSE, complete |-> FALSE, fid |-> NoId, dir |-> NoId, got |-> Absent]

Ended(c, r) == [call EXCEPT ![c].res = r, ![c].req = "none", ![c].tries = 0,
                  ![c].served = FALSE, ![c].complete = FALSE, ![c].fid = NoId,
                  ![c].dir = NoId, ![c].got = Absent]

IsPending(c) == call[c].res = Pending
Drive == provider = "gdrive"

\* The files a lookup of key k in folder d may return: on Drive any of them.
Named(d, k) == {f \in files : f.key = k /\ f.dir = d}

\* The folder this process uses, or will find, for its objects.
Home == IF folderID # NoId \/ folders = {} THEN folderID ELSE CHOOSE d \in folders : TRUE

\* The object a reader of the key gets.
Visible(k) == IF Named(Home, k) = {} THEN Absent
              ELSE (CHOOSE f \in Named(Home, k) : TRUE).val

InUse   == folders \cup {f.id : f \in files} \cup {call[c].fid : c \in Callers}
FreshId == {i \in Ids \ InUse : \A j \in Ids \ InUse : i <= j}

CloudInit ==
    /\ provider \in Providers
    /\ files = {} /\ folders = {} /\ folderID = NoId
    /\ call \in {[c \in Callers |-> [Working("has", k, Absent) EXCEPT
                     !.res = FailedCall, !.req = "none"]] : k \in Keys}
    /\ seen = [c \in Callers |-> {}]
-----------------------------------------------------------------------------
(* The requests of a call, in order. *)

\* The first request after the folder is known (gdrive) or at once (others).
FirstRequest(op, v) ==
    IF op = "put"
    THEN IF Drive \/ (provider = "onedrive" /\ v \in Large) THEN "session" ELSE "store"
    ELSE IF Drive THEN "query"
    ELSE CASE op = "get" -> "fetch" [] op = "has" -> "stat" [] op = "delete" -> "remove"

\* What retry() allows a request: the reads are not retried, nothing of S3 is
\* (the second attempt of its Put seeks in a file that the HTTP client has
\* closed), and the local disk is not asked twice.
Attempts(req) ==
    IF provider \in {"local", "s3"} \/ req \in {"fetch", "stat"} THEN 1 ELSE MaxAttempts

\* A caller enters Put, Get, Has or Delete.
Begin(c) ==
    /\ ~IsPending(c)
    /\ \E op \in {"put", "get", "has", "delete"}, k \in Keys, v \in Values \cup {Absent} :
          /\ (op = "put") <=> (v # Absent)
          /\ (Careful /\ Drive /\ op = "put") =>
                /\ Named(Home, k) = {}
                /\ \A d \in Callers : ~(IsPending(d) /\ call[d].key = k /\ call[d].op = "put")
          /\ call' = [call EXCEPT ![c] = Working(op, k, v)]
          /\ seen' = [seen EXCEPT ![c] = {Visible(k)}]
    /\ UNCHANGED <<provider, files, folders, folderID>>

\* folderMu is held by the call that looks for the folder.
Locked == \E c \in Callers : call[c].req \in {"find", "create"}

\* The spooling of a Put's data, or folder(): a cached id is used as it is.
Prepare(c) ==
    /\ call[c].req = "begin"
    /\ \/ /\ Drive /\ ~Locked /\ folderID = NoId
          /\ call' = [call EXCEPT ![c].req = "find"]
          /\ UNCHANGED seen
       \/ /\ Drive => ~Locked /\ folderID # NoId
          /\ call' = [call EXCEPT ![c].req = FirstRequest(call[c].op, call[c].val),
                                  ![c].dir = folderID]
          /\ UNCHANGED seen
       \/ /\ call[c].op = "put"   \* the data cannot be read or spooled
          /\ call' = Ended(c, FailedCall)
          /\ seen' = [seen EXCEPT ![c] = {}]
    /\ UNCHANGED <<provider, files, folders, folderID>>
-----------------------------------------------------------------------------
(* The provider serves a request. *)

RequestKinds == {"find", "create", "session", "chunk", "store", "query", "fetch", "stat", "remove"}

\* A session makes one object; repeating its last chunk makes no other.
InSession(c) == Drive \/ (provider = "onedrive" /\ call[c].val \in Large)

Stored(c) ==
    LET f(i) == File(i, call[c].dir, call[c].key, call[c].val) IN
    IF InSession(c) /\ call[c].complete THEN {files}
    ELSE IF Drive THEN {files \cup {f(i)} : i \in FreshId}
             ELSE {(files \ Named(NoId, call[c].key)) \cup {f(NoId)}}

Removed(c) ==
    IF Drive THEN {f \in files : f.id # call[c].fid}
             ELSE files \ Named(NoId, call[c].key)

Served(c) == [call EXCEPT ![c].served = TRUE]

ServeLookup(c) ==
    \/ /\ call[c].req = "find"
       /\ \E d \in IF folders = {} THEN {NoId} ELSE folders :
             call' = [Served(c) EXCEPT ![c].dir = d]
       /\ UNCHANGED <<files, folders>>
    \/ /\ call[c].req = "create"
       /\ \E d \in FreshId : /\ folders' = folders \cup {d}
                             /\ call' = [Served(c) EXCEPT ![c].dir = d]
       /\ UNCHANGED files
    \/ /\ call[c].req = "query"
       /\ \E f \in IF Named(call[c].dir, call[c].key) = {}
                   THEN {File(NoId, NoId, call[c].key, Absent)}
                   ELSE Named(call[c].dir, call[c].key) :
             call' = [Served(c) EXCEPT ![c].fid = f.id, ![c].got = f.val]
       /\ UNCHANGED <<files, folders>>

ServeObject(c) ==
    \/ /\ call[c].req \in {"session", "chunk"}
       /\ call' = Served(c)
       /\ UNCHANGED <<files, folders>>
    \/ /\ call[c].req = "store"
       /\ files' \in Stored(c)
       /\ call' = [Served(c) EXCEPT ![c].complete = TRUE]
       /\ UNCHANGED folders
    \/ /\ call[c].req = "remove"
       /\ files' = Removed(c)
       /\ call' = Served(c)
       /\ UNCHANGED folders
    \/ /\ call[c].req \in {"fetch", "stat"}
       /\ LET hits == IF Drive THEN {f \in files : f.id = call[c].fid}
                               ELSE Named(NoId, call[c].key)
          IN call' = [Served(c) EXCEPT ![c].got =
                        IF hits = {} THEN Absent ELSE (CHOOSE f \in hits : TRUE).val]
       /\ UNCHANGED <<files, folders>>

\* Every pending call sees the state its object has now.
Witness == seen' = [c \in Callers |-> IF IsPending(c) THEN seen[c] \cup {Visible(call[c].key)'}
                                                      ELSE seen[c]]

Serve(c) ==
    /\ call[c].req \in RequestKinds /\ ~call[c].served
    /\ ServeLookup(c) \/ ServeObject(c)
    /\ UNCHANGED <<provider, folderID>>
    /\ Witness
-----------------------------------------------------------------------------
(* The answer to a request. *)

\* The last request of a call was answered: what the call returns.
ResultHopeful(c) ==
    CASE call[c].op \in {"put", "delete"} -> Done
      [] call[c].op = "has" -> Is(TRUE)
      [] call[c].op = "get" -> IF call[c].got = Absent THEN NotFound ELSE Found(call[c].got)
Result(c) ==
    CASE call[c].op \in {"put", "delete"} -> Done
      [] call[c].op = "has" -> Is(call[c].got # Absent)
      [] call[c].op = "get" -> IF call[c].got = Absent THEN NotFound ELSE Found(call[c].got)

\* The request that follows an answered one, "none" if it was the last.
NextRequest(c) ==
    CASE call[c].req = "find" /\ call[c].dir = NoId -> "create"
      [] call[c].req = "find" /\ call[c].dir # NoId -> FirstRequest(call[c].op, call[c].val)
      [] call[c].req = "create" -> FirstRequest(call[c].op, call[c].val)
      [] call[c].req = "session" -> IF call[c].val \in Large THEN "chunk" ELSE "store"
      [] call[c].req = "chunk" -> "store"
      [] call[c].req = "query" /\ call[c].fid # NoId ->
            (CASE call[c].op = "get" -> "fetch" [] call[c].op = "delete" -> "remove" [] OTHER -> "none")
      [] OTHER -> "none"

AnswerOk(c) ==
    /\ call[c].served
    /\ IF NextRequest(c) = "none"
       THEN call' = Ended(c, Result(c)) /\ seen' = [seen EXCEPT ![c] = {}]
       ELSE /\ call' = [call EXCEPT ![c].req = NextRequest(c), ![c].tries = 0,
                                    ![c].served = FALSE]
            /\ UNCHANGED seen
    /\ folderID' = IF call[c].req \in {"find", "create"} THEN call[c].dir ELSE folderID
    /\ UNCHANGED <<provider, files, folders>>

\* A failure may be reported after the request was served.
MayFail(c) == call[c].req \in RequestKinds /\ ~(Careful /\ Drive /\ call[c].served)

\* retryableStatus: 429 or 5xx.  retry() tries again, up to maxAttempts.
AnswerTransient(c) ==
    /\ MayFail(c) /\ provider # "local"
    /\ IF call[c].tries + 1 < Attempts(call[c].req)
       THEN /\ call' = [call EXCEPT ![c].tries = @ + 1, ![c].served = FALSE]
            /\ UNCHANGED seen
       ELSE call' = Ended(c, FailedCall) /\ seen' = [seen EXCEPT ![c] = {}]
    /\ UNCHANGED <<provider, files, folders, folderID>>

\* Another status, no answer at all (the transport's error is not retried), no
\* access token, or a local error.
AnswerError(c) ==
    /\ MayFail(c)
    /\ call' = Ended(c, FailedCall)
    /\ seen' = [seen EXCEPT ![c] = {}]
    /\ UNCHANGED <<provider, files, folders, folderID>>

\* opCtx: a call to OneDrive or Drive has six hours.
NoDeadline == FALSE
HasDeadline == provider \in {"onedrive", "gdrive"}

Deadline(c) ==
    /\ HasDeadline
    /\ AnswerError(c)

\* The server process dies; the folder's id is forgotten.
CloudCrash ==
    /\ call' = [c \in Callers |-> IF IsPending(c) THEN Ended(c, FailedCall)[c] ELSE call[c]]
    /\ seen' = [c \in Callers |-> {}]
    /\ folderID' = NoId
    /\ UNCHANGED <<provider, files, folders>>

CloudNext ==
    \/ CloudCrash
    \/ \E c \in Callers : \/ Begin(c) \/ Prepare(c) \/ Serve(c) \/ AnswerOk(c)
                          \/ AnswerTransient(c) \/ AnswerError(c) \/ Deadline(c)

\* A call that was entered goes on; the local disk answers, and so does Drive
\* when it cannot fail; a deadline expires.
CloudFairness ==
    \A c \in Callers :
        /\ SF_cloudVars(Prepare(c))   \* a mutex of Go is starvation-free
        /\ WF_cloudVars(Deadline(c))
        /\ WF_cloudVars(provider = "local" /\ Serve(c))
        /\ WF_cloudVars((provider = "local" \/ ~MayFail(c)) /\ AnswerOk(c))

CloudSpec == CloudInit /\ [][CloudNext]_cloudVars /\ CloudFairness
-----------------------------------------------------------------------------
(* The contract that all of them implement. *)

Contract == INSTANCE ObjectStore WITH
    store <- [k \in Keys |-> Visible(k)],
    call  <- [c \in Callers |-> [op |-> call[c].op, key |-> call[c].key,
                                 val |-> call[c].val, res |-> call[c].res]]

\* Every step of LocalFS, S3, OneDrive and Drive is a step that the interface
\* allows: an object is replaced whole, only for a call under way, and what a
\* successful call reports was true of the object while the call ran.
Implements == Contract!Spec

\* The state stays in its types: ids and folders are Drive's alone, and a call
\* makes at most MaxAttempts attempts at a request.
CloudTypeOK ==
    /\ provider \in Providers /\ folders \subseteq Ids /\ folderID \in folders \cup {NoId}
    /\ \A f \in files : /\ f.id \in Ids \cup {NoId} /\ f.dir \in folders \cup {NoId}
                        /\ f.key \in Keys /\ f.val \in Values
                        /\ (f.id # NoId) <=> Drive
    /\ \A c \in Callers :
          /\ call[c].req \in RequestKinds \cup {"begin", "none"}
          /\ (call[c].req = "none") <=> ~IsPending(c)
          /\ call[c].tries \in 0..MaxAttempts - 1
          /\ call[c].dir \in folders \cup {NoId}

\* A call to OneDrive, Drive or the local disk returns, whatever the provider
\* does: retry() gives up and the context expires.  The requests of S3 carry no
\* context, and nothing ends a call that S3 never answers.
CallsEnd == provider # "s3" => \A c \in Callers : IsPending(c) ~> ~IsPending(c)
=============================================================================
