---------------------------- MODULE ObjectStore ----------------------------
(***************************************************************************)
(* What storage.Backend promises its callers (storage/storage.go): a flat   *)
(* map from keys to objects with Put, Get, Has and Delete.  Calls overlap;  *)
(* an object changes whole, and only on behalf of a call that is under way; *)
(* a call that succeeds tells the truth about an instant between its start  *)
(* and its return; a call that fails promises nothing (its change may have  *)
(* been made or not).  seen[c] collects the states the object of c's call   *)
(* has been in since the call began.                                        *)
(***************************************************************************)
CONSTANTS Keys,     \* object keys
          Values,   \* whole objects
          Callers,  \* goroutines of the server that use the backend
          Absent    \* the state of a key that holds no object

VARIABLES store,    \* [Keys -> Values \cup {Absent}]
          call,     \* the last call of each caller, with its result
          seen      \* the states of the object during the pending call

vars == <<store, call, seen>>

Ops == {"put", "get", "has", "delete"}

\* A result is a tag, and for Get the object that was read.
Done == [tag |-> "done", val |-> Absent]
Failed == [tag |-> "failed", val |-> Absent]
Pending == [tag |-> "pending", val |-> Absent]
Found(v) == [tag |-> "found", val |-> v]
Is(b) == [tag |-> IF b THEN "yes" ELSE "no", val |-> Absent]
NotFound == [tag |-> "notfound", val |-> Absent]

Call(op, k, v, r) == [op |-> op, key |-> k, val |-> v, res |-> r]

Init ==
    /\ store = [k \in Keys |-> Absent]
    /\ call \in {[c \in Callers |-> Call("has", k, Absent, Failed)] : k \in Keys}
    /\ seen = [c \in Callers |-> {}]

IsPending(c) == call[c].res = Pending

Begin(c) ==
    /\ ~IsPending(c)
    /\ \E op \in Ops, k \in Keys, v \in Values \cup {Absent} :
          /\ (op = "put") <=> (v # Absent)
          /\ call' = [call EXCEPT ![c] = Call(op, k, v, Pending)]
          /\ seen' = [seen EXCEPT ![c] = {store[k]}]
    /\ UNCHANGED store

\* The states of its object that each pending call has met, once k holds v.
Witnessed(k, v) ==
    [c \in Callers |-> IF IsPending(c) /\ call[c].key = k
                       THEN seen[c] \cup {v} ELSE seen[c]]

\* The one change a pending call may make, however often it is retried.
Change(c) ==
    /\ IsPending(c)
    /\ call[c].op \in {"put", "delete"}
    /\ store' = [store EXCEPT ![call[c].key] = call[c].val]
    /\ seen' = Witnessed(call[c].key, call[c].val)
    /\ UNCHANGED call

\* The results a call may report without lying about the object.
Truthful(c) ==
    {Failed} \cup
    (CASE call[c].op \in {"put", "delete"} ->
            {r \in {Done} : call[c].val \in seen[c]}
       [] call[c].op = "get" ->
            {IF v = Absent THEN NotFound ELSE Found(v) : v \in seen[c]}
       [] call[c].op = "has" -> {Is(v # Absent) : v \in seen[c]})

Return(c) ==
    /\ IsPending(c)
    /\ \E r \in Truthful(c) : call' = [call EXCEPT ![c].res = r]
    /\ seen' = [seen EXCEPT ![c] = {}]
    /\ UNCHANGED store

\* The process dies: no pending call ever returns.
Crash ==
    /\ call' = [c \in Callers |-> IF IsPending(c)
                                  THEN [call[c] EXCEPT !.res = Failed] ELSE call[c]]
    /\ seen' = [c \in Callers |-> {}]
    /\ UNCHANGED store

Next == Crash \/ \E c \in Callers : Begin(c) \/ Change(c) \/ Return(c)

Spec == Init /\ [][Next]_vars
=============================================================================
