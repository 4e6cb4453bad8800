------------------------------ MODULE Accounts ------------------------------
(***************************************************************************)
(* Enrollment and deletion of clients: one-time tokens, the rows of the     *)
(* agents table, what the tables and the backend hold for a client, and the *)
(* deletion of all of it, statement by statement.  Several enrollments, the *)
(* client's own connection and uploads, and the deletion run at the same    *)
(* time; no two statements are in one transaction.                          *)
(***************************************************************************)
EXTENDS Integers, Sequences, FiniteSets

CONSTANTS
    Tokens,       \* enrollment tokens
    Enrolls,      \* requests to enroll, and the id that CreateAgent gives each
    NoAgent       \* no agent: used_by of a token that is open

\* The tables that DeleteAgent empties, in its order; the agent's row is last.
\* "runs" stands for the tables of runs, jobs, commands and their output.
AgentsFirst == <<"agents", "runs", "transfers">>
Statements == <<"runs", "transfers", "agents">>
Tables == {"runs", "transfers"}

ASSUME AccountsAssumption ==
    NoAgent \notin Enrolls /\ {"none", "expired"} \cap (Enrolls \cup {NoAgent}) = {}

VARIABLES
    tokens,    \* "none", "expired", or who used it (NoAgent: nobody yet)
    agents,    \* rows of the agents table
    enroll,    \* each enrollment: where it is, and its token
    rows,      \* rows of the other tables, by agent
    snapshots, \* agents with a snapshot row (and its manifest)
    payloads,  \* agents with a transfer payload in the backend
    online,    \* agents whose connection is open
    posting,   \* agents with an authenticated request under way
    deletion,  \* handleAgentDelete
    busy,      \* history: agents that were at work while being deleted
    crashed    \* history: the server has stopped at least once

accountVars == <<tokens, agents, enroll, rows, snapshots, payloads, online, posting,
                 deletion, busy, crashed>>

NoDeletion == [pc |-> "idle", agent |-> NoAgent, at |-> 1]

AccountsInit ==
    /\ tokens = [t \in Tokens |-> "none"]
    /\ agents = {} /\ rows = {} /\ snapshots = {} /\ payloads = {}
    /\ enroll = [e \in Enrolls |-> [pc |-> "new", token |-> "none"]]
    /\ online = {} /\ posting = {}
    /\ deletion = NoDeletion /\ busy = {} /\ crashed = FALSE
-----------------------------------------------------------------------------
(* handleTokenCreate and handleEnroll *)

TokenCreate(t) ==
    /\ tokens[t] = "none"
    /\ tokens' = [tokens EXCEPT ![t] = NoAgent]
    /\ UNCHANGED <<agents, enroll, rows, snapshots, payloads, online, posting, deletion, busy, crashed>>

\* 24 hours pass; a used token stays used.
TokenExpire(t) ==
    /\ tokens[t] = NoAgent
    /\ tokens' = [tokens EXCEPT ![t] = "expired"]
    /\ UNCHANGED <<agents, enroll, rows, snapshots, payloads, online, posting, deletion, busy, crashed>>

\* CreateAgent: the row is there before the token is looked at.
CreateAgent(e) ==
    /\ enroll[e].pc = "new"
    /\ \E t \in Tokens : enroll' = [enroll EXCEPT ![e] = [pc |-> "created", token |-> t]]
    /\ agents' = agents \cup {e}
    /\ UNCHANGED <<tokens, rows, snapshots, payloads, online, posting, deletion, busy, crashed>>

\* The condition of the UPDATE.
UsableOrUsed(t) == tokens[t] \notin {"none", "expired"}
Usable(t) == tokens[t] = NoAgent

\* A refused enrollment takes its row back, with DeleteAgent.
KeptRow(e) == agents
WithoutRow(e) == agents \ {e}

ConsumeEnrollToken(e) ==
    /\ enroll[e].pc = "created"
    /\ LET t == enroll[e].token IN
       IF Usable(t)
       THEN /\ tokens' = [tokens EXCEPT ![t] = e]
            /\ enroll' = [enroll EXCEPT ![e].pc = "enrolled"]
            /\ UNCHANGED <<agents, rows>>
       ELSE /\ enroll' = [enroll EXCEPT ![e].pc = "refused"]
            /\ agents' = WithoutRow(e)
            /\ rows' = {r \in rows : r[1] # e}
            /\ UNCHANGED tokens
    /\ UNCHANGED <<snapshots, payloads, online, posting, deletion, busy, crashed>>
-----------------------------------------------------------------------------
(* A client at work *)

\* VerifyAgent: the client has its credentials, the server its row.
Verified(a) == enroll[a].pc = "enrolled" /\ a \in agents

Marked(a) == busy' = IF deletion.agent = a \/ a \notin agents THEN busy \cup {a} ELSE busy

\* handleAgentWS authenticates once.
Online(a) ==
    /\ Verified(a) /\ a \notin online
    /\ online' = online \cup {a}
    /\ Marked(a)
    /\ UNCHANGED <<tokens, agents, enroll, rows, snapshots, payloads, posting, deletion, crashed>>

Offline(a) ==
    /\ a \in online
    /\ online' = online \ {a}
    /\ UNCHANGED <<tokens, agents, enroll, rows, snapshots, payloads, posting, deletion, busy, crashed>>

\* What the connection and the GUI make for a client: jobs, runs, commands and
\* transfers, whose payload goes to the backend.
Fill(a) ==
    /\ a \in online \cup agents
    /\ \E t \in Tables : /\ rows' = rows \cup {<<a, t>>}
                         /\ payloads' = IF t = "transfers" THEN payloads \cup {a} ELSE payloads
    /\ Marked(a)
    /\ UNCHANGED <<tokens, agents, enroll, snapshots, online, posting, deletion, crashed>>

\* agentAuth, and later the commit that it let through.
Post(a) ==
    /\ Verified(a) /\ a \notin posting
    /\ posting' = posting \cup {a}
    /\ Marked(a)
    /\ UNCHANGED <<tokens, agents, enroll, rows, snapshots, payloads, online, deletion, crashed>>

Commit(a) ==
    /\ a \in posting
    /\ posting' = posting \ {a}
    /\ snapshots' = snapshots \cup {a}
    /\ Marked(a)
    /\ UNCHANGED <<tokens, agents, enroll, rows, payloads, online, deletion, crashed>>
-----------------------------------------------------------------------------
(* handleAgentDelete *)

\* The list of snapshots is read once.
DeleteBegin(a) ==
    /\ deletion = NoDeletion /\ a \in agents
    /\ deletion' = [pc |-> IF a \in snapshots THEN "snapshots" ELSE "payloads",
                    agent |-> a, at |-> 1]
    /\ busy' = IF a \in online \cup posting THEN busy \cup {a} ELSE busy
    /\ UNCHANGED <<tokens, agents, enroll, rows, snapshots, payloads, online, posting, crashed>>

\* deleteSnapshot of each.
DeleteSnapshots ==
    /\ deletion.pc = "snapshots"
    /\ snapshots' = snapshots \ {deletion.agent}
    /\ deletion' = [deletion EXCEPT !.pc = "payloads"]
    /\ UNCHANGED <<tokens, agents, enroll, rows, payloads, online, posting, busy, crashed>>

\* TransferKeysForAgent reads the keys from the rows that are there; an object
\* that cannot be deleted is passed over.
DeletePayloads ==
    /\ deletion.pc = "payloads"
    /\ \/ /\ <<deletion.agent, "transfers">> \in rows
          /\ payloads' = payloads \ {deletion.agent}
       \/ UNCHANGED payloads
    /\ deletion' = [deletion EXCEPT !.pc = "rows"]
    /\ UNCHANGED <<tokens, agents, enroll, rows, snapshots, online, posting, busy, crashed>>

\* DeleteAgent, one statement at a time.
DeleteStatement ==
    /\ deletion.pc = "rows"
    /\ LET t == Statements[deletion.at] IN
       IF t = "agents"
       THEN agents' = agents \ {deletion.agent} /\ UNCHANGED rows
       ELSE rows' = rows \ {<<deletion.agent, t>>} /\ UNCHANGED agents
    /\ deletion' = IF deletion.at = Len(Statements) THEN NoDeletion
                   ELSE [deletion EXCEPT !.at = @ + 1]
    /\ UNCHANGED <<tokens, enroll, snapshots, payloads, online, posting, busy, crashed>>

\* Any of the steps fails: the request ends where it is.
DeleteFails ==
    /\ deletion # NoDeletion
    /\ deletion' = NoDeletion
    /\ UNCHANGED <<tokens, agents, enroll, rows, snapshots, payloads, online, posting, busy, crashed>>

\* The server stops and starts: requests and connections are gone.
AccountsCrash ==
    /\ deletion' = NoDeletion /\ online' = {} /\ posting' = {} /\ crashed' = TRUE
    /\ enroll' = [e \in Enrolls |-> IF enroll[e].pc = "created"
                                    THEN [enroll[e] EXCEPT !.pc = "lost"] ELSE enroll[e]]
    /\ UNCHANGED <<tokens, agents, rows, snapshots, payloads, busy>>

AccountsNext ==
    \/ \E t \in Tokens : TokenCreate(t) \/ TokenExpire(t)
    \/ \E a \in Enrolls : \/ CreateAgent(a) \/ ConsumeEnrollToken(a) \/ Online(a) \/ Offline(a)
                          \/ Fill(a) \/ Post(a) \/ Commit(a) \/ DeleteBegin(a)
    \/ DeleteSnapshots \/ DeletePayloads \/ DeleteStatement \/ DeleteFails
    \/ AccountsCrash

AccountsSpec == AccountsInit /\ [][AccountsNext]_accountVars
-----------------------------------------------------------------------------
\* "one-time enrollment token" (api_agent.go): however many enrollments use a
\* token at once, at most one client gets credentials for it, and that is the
\* one the token's row names.
OneClientPerToken ==
    \A e \in Enrolls : enroll[e].pc = "enrolled" => tokens[enroll[e].token] = e

\* The agents table lists enrolled clients, enrollments in progress, and what a
\* stop of the server left between CreateAgent and ConsumeEnrollToken.
NoPhantomAgents ==
    \A a \in agents : enroll[a].pc \in {"created", "enrolled"} \/ (crashed /\ enroll[a].pc = "lost")

\* A client stays listed, and can be deleted again, until its snapshots and its
\* rows are gone, at whatever step a deletion failed or the server stopped;
\* except for a client that was at work while it was deleted.
NothingOutlivesItsAgent ==
    \A a \in Enrolls \ busy :
        a \in snapshots \cup {r[1] : r \in rows} => a \in agents
=============================================================================
