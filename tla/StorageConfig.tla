---------------------------- MODULE StorageConfig ----------------------------
(***************************************************************************)
(* Where backups are stored: the configuration saved in the settings table, *)
(* the backend that is active in memory, and the requests that change them: *)
(* local storage, an S3 bucket (proved by a round trip), the credentials of *)
(* an OAuth app, and the consent flow that connects a cloud account.  Each  *)
(* request is a goroutine; it reads the settings, waits for providers, and  *)
(* saves and activates in steps of its own.                                 *)
(***************************************************************************)
EXTENDS Integers

CONSTANTS
    Clouds,      \* providers with OAuth among "onedrive", "gdrive" and "box"
    Apps,        \* OAuth apps (client id and secret)
    Users,       \* accounts at the providers
    Buckets,     \* S3 endpoint, bucket and access key
    Folders,     \* destination folders and prefixes
    Requests,    \* requests that may be under way at the same time
    MaxFlows,    \* bound on the consent flows started between two restarts
    Nothing      \* an empty field

OAuthProviders == {"onedrive", "gdrive", "box"}
Links     == 1..MaxFlows
NoLink    == 0

ASSUME StorageAssumption ==
    /\ Clouds \subseteq OAuthProviders /\ MaxFlows \in Nat
    /\ Nothing \notin Apps \cup Users \cup Buckets \cup Folders

VARIABLES
    saved,    \* the setting storage.config
    active,   \* the configuration that storageActive was built from
    flow,     \* s.oauth: the state that is expected, and the pending config
    links,    \* consent URLs that were handed out, by their state
    job,      \* what each request is doing
    spent,    \* history: links that a callback was accepted for
    draft,    \* history: the settings were saved by handleStorageSetApp
    raced     \* history: two requests saved before either had activated

storageVars == <<saved, active, flow, links, job, spent, draft, raced>>

\* Config.  An app is a bucket for S3; a token is the secret for S3, and names
\* the app and the account that it was granted for otherwise.
Config(p, a, t, l, f) == [prov |-> p, app |-> a, token |-> t, label |-> l, folder |-> f]

Local    == Config("local", Nothing, Nothing, Nothing, Nothing)
Grant(p, a, u) == [prov |-> p, app |-> a, user |-> u]
Secret(b)      == Grant("s3", b, Nothing)
Typo           == Grant("s3", Nothing, Nothing)
NoToken        == Nothing

\* backendID.
BackendIdByApp(cfg) == [prov |-> cfg.prov, at |-> cfg.app, folder |-> cfg.folder]
BackendId(cfg) == [prov |-> cfg.prov,
                   at |-> IF cfg.prov = "s3" THEN cfg.app ELSE cfg.label,
                   folder |-> cfg.folder]

\* Where the objects of a built backend really are.
Destination(cfg) == [prov |-> cfg.prov,
                     at |-> CASE cfg.prov = "local" -> Nothing
                              [] cfg.prov = "s3" -> cfg.app
                              [] OTHER -> cfg.token.user,
                     folder |-> cfg.folder]

\* buildBackend and Build: Box can be connected and not be built.
Buildable(cfg) ==
    CASE cfg.prov = "local" -> TRUE
      [] cfg.prov = "s3"    -> cfg.app # Nothing /\ cfg.token # NoToken
      [] cfg.prov = "box"   -> FALSE
      [] OTHER              -> cfg.app # Nothing /\ cfg.token # NoToken

NoJob == [pc |-> "idle", cfg |-> Local, link |-> NoLink, user |-> Nothing]
NoFlow == [state |-> NoLink, pending |-> Local]
Advance(r, pc, cfg) == [job EXCEPT ![r].pc = pc, ![r].cfg = cfg]
Over(r) == [job EXCEPT ![r] = NoJob]

\* setBackend: the backend and its identifier change together.
Activate(cfg) == active' = cfg

StorageInit ==
    /\ saved = Local /\ active = Local /\ flow = NoFlow /\ links = {}
    /\ job = [r \in Requests |-> NoJob]
    /\ spent = {} /\ draft = FALSE /\ raced = FALSE
-----------------------------------------------------------------------------
UseLocal(r) ==
    /\ job[r] = NoJob
    /\ job' = Advance(r, "save", Local)
    /\ UNCHANGED <<saved, active, flow, links, spent, draft, raced>>

\* handleStorageUseS3: no secret means the stored one, if there is one.
S3Secret(t) == IF t = NoToken /\ saved.prov = "s3" THEN saved.token ELSE t

UseS3(r) ==
    /\ job[r] = NoJob
    /\ \E b \in Buckets, f \in Folders, t \in {Secret(c) : c \in Buckets} \cup {Typo, NoToken} :
          LET cfg == Config("s3", b, S3Secret(t), Nothing, f) IN
          /\ Buildable(cfg)
          /\ job' = Advance(r, "test", cfg)
    /\ UNCHANGED <<saved, active, flow, links, spent, draft, raced>>

\* storageSelfTest: the bucket refuses another secret, or cannot be reached.
TestPasses(cfg) == cfg.token = Secret(cfg.app)

SelfTest(r) ==
    /\ job[r].pc = "test"
    /\ \/ TestPasses(job[r].cfg) /\ job' = Advance(r, "save", job[r].cfg)
       \/ job' = Over(r)
    /\ UNCHANGED <<saved, active, flow, links, spent, draft, raced>>

\* handleStorageSetApp keeps the token of an unchanged app.
KeepAnyToken(p, a) == saved.prov \in OAuthProviders
KeepToken(p, a) == saved.prov = p /\ saved.app = a

SetApp(r) ==
    /\ job[r] = NoJob
    /\ \E p \in Clouds, a \in Apps, f \in Folders :
          job' = Advance(r, "saveapp", IF KeepToken(p, a)
                                    THEN Config(p, a, saved.token, saved.label, f)
                                    ELSE Config(p, a, NoToken, Nothing, f))
    /\ UNCHANGED <<saved, active, flow, links, spent, draft, raced>>

\* saveStorageConfig, without activating it; or it fails.
SaveApp(r) ==
    /\ job[r].pc = "saveapp"
    /\ \/ saved' = job[r].cfg /\ draft' = TRUE
       \/ UNCHANGED <<saved, draft>>
    /\ job' = Over(r)
    /\ UNCHANGED <<active, flow, links, spent, raced>>
-----------------------------------------------------------------------------
(* The consent flow *)

\* handleStorageConnect reads the settings ...
Connect(r) ==
    /\ job[r] = NoJob
    /\ saved.prov \in Clouds /\ saved.app # Nothing
    /\ job' = Advance(r, "flow", saved)
    /\ UNCHANGED <<saved, active, flow, links, spent, draft, raced>>

\* ... and leaves them for the callback, under a new state.
BeginFlow(r) ==
    /\ job[r].pc = "flow"
    /\ \E i \in Links :
          /\ \A l \in links : l.state < i
          /\ \A j \in Links : (\A l \in links : l.state < j) => i <= j
          /\ flow' = [state |-> i, pending |-> job[r].cfg]
          /\ links' = links \cup {[state |-> i, prov |-> job[r].cfg.prov, app |-> job[r].cfg.app]}
    /\ job' = Over(r)
    /\ UNCHANGED <<saved, active, spent, draft, raced>>

\* The browser comes back with the state of a link and the consent of a user.
\* The expected state is cleared even if it is another one.
Kept == flow
Cleared == [flow EXCEPT !.state = NoLink]

Callback(r) ==
    /\ job[r] = NoJob
    /\ \E l \in links, u \in Users :
          /\ job' = IF l.state = flow.state
                    THEN [job EXCEPT ![r] = [pc |-> "exchange", cfg |-> flow.pending,
                                             link |-> l.state, user |-> u]]
                    ELSE job
          /\ spent' = IF l.state = flow.state THEN spent \cup {l.state} ELSE spent
    /\ flow' = Cleared
    /\ UNCHANGED <<saved, active, links, draft, raced>>

\* Exchange and fetchAccountLabel, whose failure leaves the account unnamed.
\* The code is good for the app and provider that the link named.
Exchange(r) ==
    /\ job[r].pc = "exchange"
    /\ \/ \E l \in links, label \in {job[r].user, Nothing} :
             /\ l.state = job[r].link
             /\ l.prov = job[r].cfg.prov /\ l.app = job[r].cfg.app
             /\ job' = Advance(r, "save", [job[r].cfg EXCEPT
                          !.token = Grant(l.prov, l.app, job[r].user), !.label = label])
       \/ job' = Over(r)
    /\ UNCHANGED <<saved, active, flow, links, spent, draft, raced>>
-----------------------------------------------------------------------------
(* applyStorageConfig *)

SavedBefore(r) == saved
SavedNow(r) == job[r].cfg

Save(r) ==
    /\ job[r].pc = "save"
    /\ \/ /\ Buildable(job[r].cfg)
          /\ saved' = SavedNow(r) /\ draft' = FALSE
          /\ raced' = (raced \/ \E q \in Requests : job[q].pc = "set")
          /\ job' = Advance(r, "set", job[r].cfg)
       \/ job' = Over(r) /\ UNCHANGED <<saved, draft, raced>>
    /\ UNCHANGED <<active, flow, links, spent>>

SetBackend(r) ==
    /\ job[r].pc = "set"
    /\ Activate(job[r].cfg)
    /\ job' = Over(r)
    /\ UNCHANGED <<saved, flow, links, spent, draft, raced>>

\* initStorage: what cannot be built is replaced by local storage.
Chosen == IF Buildable(saved) THEN saved ELSE Local

StorageRestart ==
    /\ Activate(Chosen)
    /\ flow' = NoFlow /\ links' = {} /\ spent' = {}
    /\ job' = [r \in Requests |-> NoJob]
    /\ draft' = FALSE /\ raced' = FALSE
    /\ UNCHANGED saved

StorageNext ==
    \/ StorageRestart
    \/ \E r \in Requests :
          \/ UseLocal(r) \/ UseS3(r) \/ SelfTest(r) \/ SetApp(r) \/ SaveApp(r) \/ Connect(r)
          \/ BeginFlow(r) \/ Callback(r) \/ Exchange(r) \/ Save(r) \/ SetBackend(r)

StorageSpec == StorageInit /\ [][StorageNext]_storageVars
-----------------------------------------------------------------------------
Configs ==
    {Local}
    \cup [prov : {"s3"}, app : Buckets, token : {Secret(b) : b \in Buckets} \cup {Typo},
          label : {Nothing}, folder : Folders]
    \cup [prov : Clouds, app : Apps, folder : Folders, label : Users \cup {Nothing},
          token : {NoToken} \cup {Grant(p, a, u) : p \in Clouds, a \in Apps, u \in Users}]

\* Every variable has its type; only what a backend can be built from is active.
StorageTypeOK ==
    /\ saved \in Configs /\ active \in {c \in Configs : Buildable(c)}
    /\ flow.state \in Links \cup {NoLink} /\ flow.pending \in Configs
    /\ \A l \in links : l.state \in Links
    /\ \A r \in Requests : job[r].cfg \in Configs
    /\ draft \in BOOLEAN /\ raced \in BOOLEAN

\* "provider + account + folder distinguishes distinct destinations"
\* (storage.go): when a switch or a restart leads the backups elsewhere, the
\* index of before is not used there; except between accounts that could not
\* be named.
Unnamed(cfg) == cfg.prov \in OAuthProviders /\ cfg.label = Nothing
IdsIdentify ==
    [][BackendId(active') = BackendId(active) /\ ~Unnamed(active)
          => Destination(active') = Destination(active)]_storageVars

\* A refresh token is only ever kept with the app and the provider that it was
\* granted to, however the settings change while a consent is under way.
TokensFit ==
    \A cfg \in {saved, active} \cup {flow.pending} :
        cfg.prov \in OAuthProviders /\ cfg.token # NoToken =>
            cfg.token.prov = cfg.prov /\ cfg.token.app = cfg.app

\* With no request at work, a restart finds the backend that is active, unless
\* credentials were saved without connecting or two activations crossed.
RestartKeepsBackend ==
    (\A r \in Requests : job[r] = NoJob) /\ ~draft /\ ~raced => active = Chosen

\* "one-time" (api_storage.go): no link is accepted twice.
LinksAreOneTime ==
    [][\A r \in Requests : job'[r].pc = "exchange" /\ job[r].pc # "exchange"
          => job'[r].link \notin spent]_storageVars
=============================================================================
