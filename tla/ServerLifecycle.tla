-------------------------- MODULE ServerLifecycle ---------------------------
(***************************************************************************)
(* From the start of `specgraph serve` to its exit: cmd/specgraph/serve.go *)
(* and connector.go, internal/server/probes, internal/bootstrap.           *)
(*                                                                         *)
(* A server connects to its database, makes sure that the bootstrap        *)
(* administrator has a key, wires the application, opens its port and      *)
(* reports that it is ready.  If the database cannot be reached at first,  *)
(* it opens its port, answers 503 and does all that in the background,     *)
(* while a signal may stop it.  The database comes and goes, another       *)
(* process may be running the same bootstrap against it, and the server    *)
(* may be killed and started again.                                        *)
(***************************************************************************)
EXTENDS Naturals

CONSTANTS
    Servers,
    CredMaxRetry,  \* credMaxRetry: refused credentials in a row that are fatal
    MaxStarts      \* bound: how often each server is started

ASSUME ServersAssumption == CredMaxRetry \in Nat \ {0} /\ MaxStarts \in Nat

VARIABLES
    db,     \* is it up, are the credentials right, is there an administrator, with a key
    srv     \* each server's process

slVars == <<db, srv>>

Off == [main |-> "off", wire |-> "none", degraded |-> FALSE, ctxDone |-> FALSE, fatal |-> FALSE,
        handler |-> "503", pinger |-> FALSE, readyz |-> "nil", store |-> "none",
        cleanup |-> FALSE, down |-> "none", creds |-> 0, starts |-> 0]

SLInit ==
    /\ db \in [up : BOOLEAN, creds : BOOLEAN, admin : {FALSE}, key : {FALSE}]
    /\ srv = [v \in Servers |-> Off]

Alive(v) == srv[v].main \in {"connect", "bind", "serve"}
Exit(v) == srv' = [srv EXCEPT ![v].main = "exited", ![v].wire = "none", ![v].down = "none",
                              ![v].store = IF @ = "open" /\ ~srv[v].cleanup THEN "open" ELSE "closed"]

----------------------------------------------------------------------------
(* The environment.                                                        *)

Start(v) ==
    /\ ~Alive(v) /\ srv[v].starts < MaxStarts
    /\ srv' = [srv EXCEPT ![v] = [Off EXCEPT !.main = "connect", !.wire = "dial",
                                             !.starts = srv[v].starts + 1]]
    /\ UNCHANGED db

Kill(v) == Alive(v) /\ srv' = [srv EXCEPT ![v] = [Off EXCEPT !.starts = srv[v].starts]] /\ UNCHANGED db
Signal(v) == Alive(v) /\ ~srv[v].ctxDone /\ srv' = [srv EXCEPT ![v].ctxDone = TRUE] /\ UNCHANGED db
DatabaseFlips == db' = [db EXCEPT !.up = ~@] /\ UNCHANGED srv
CredentialsFixed == ~db.creds /\ db' = [db EXCEPT !.creds = TRUE] /\ UNCHANGED srv

\* Another server, or `specgraph init`, in the middle of its own bootstrap.
PeerCreates == ~db.admin /\ db.up /\ db' = [db EXCEPT !.admin = TRUE] /\ UNCHANGED srv
PeerMints == db.admin /\ ~db.key /\ db.up /\ db' = [db EXCEPT !.key = TRUE] /\ UNCHANGED srv

----------------------------------------------------------------------------
(* connectStore: dial, then bootstrap.Ensure.                              *)

\* The main goroutine connects first, a goroutine of its own once the port is open.
At(v, step) == srv[v].main \in {"connect", "serve"} /\ srv[v].wire = step
Wire(v, step) == srv' = [srv EXCEPT ![v].wire = step]

Dial(v) ==
    /\ At(v, "dial") /\ db.up /\ db.creds
    /\ srv' = [srv EXCEPT ![v].wire = "admin", ![v].store = "open"]
    /\ UNCHANGED db

\* Ensure: GetBootstrap.
GetBootstrap(v) ==
    /\ At(v, "admin") /\ db.up
    /\ Wire(v, IF db.admin THEN "keys" ELSE "create")
    /\ UNCHANGED db

\* The unique index keeps the administrator of the server that came first;
\* the other one reads it again.
CreateHuman(v) ==
    /\ At(v, "create") /\ db.up
    /\ Wire(v, IF db.admin THEN "keys" ELSE "mint")
    /\ db' = [db EXCEPT !.admin = TRUE]

\* Mutant: an administrator that exists is taken to have its key.
recoverIfKeylessNever(v) ==
    /\ At(v, "keys") /\ db.up
    /\ Wire(v, "connected")
    /\ UNCHANGED db

recoverIfKeyless(v) ==
    /\ At(v, "keys") /\ db.up
    /\ Wire(v, IF db.key THEN "connected" ELSE "mint")
    /\ UNCHANGED db

mintBootstrapKey(v) ==
    /\ At(v, "mint") /\ db.up
    /\ Wire(v, "connected")
    /\ db' = [db EXCEPT !.key = TRUE]

\* The first attempt is over for reasons other than the credentials: go on
\* without a database.  Later ones: try again after the backoff.
Retry(v) == [srv[v] EXCEPT !.wire = "dial", !.store = IF @ = "open" THEN "closed" ELSE @, !.creds = 0,
                           !.degraded = TRUE, !.main = IF @ = "connect" THEN "bind" ELSE @]

\* connectStore fails: its store is closed.  The background goroutine of a
\* server that is being stopped gives up; the first attempt ends the process.
ConnectFails(v) ==
    /\ \E step \in {"dial", "admin", "create", "keys", "mint"} : At(v, step)
    /\ \/ srv[v].ctxDone /\ srv[v].main = "connect"
          /\ srv' = [srv EXCEPT ![v] = [srv[v] EXCEPT !.main = "exited", !.wire = "none", !.store = "closed"]]
       \/ srv[v].ctxDone /\ srv[v].main # "connect"
          /\ srv' = [srv EXCEPT ![v] = [srv[v] EXCEPT !.wire = "none", !.store = "closed"]]
       \/ ~srv[v].ctxDone /\ ~db.up
          /\ srv' = [srv EXCEPT ![v] = Retry(v)]
       \/ ~srv[v].ctxDone /\ db.up /\ ~db.creds /\ srv[v].wire = "dial"
          /\ srv' = [srv EXCEPT ![v] =
                       IF srv[v].creds + 1 < CredMaxRetry THEN [srv[v] EXCEPT !.creds = @ + 1]
                       ELSE IF srv[v].main = "connect" THEN [srv[v] EXCEPT !.main = "exited", !.wire = "none"]
                       ELSE [srv[v] EXCEPT !.fatal = TRUE, !.wire = "none", !.creds = CredMaxRetry]]
    /\ UNCHANGED db

----------------------------------------------------------------------------
(* activate.                                                               *)

\* A connection that shutdown has overtaken is released, not wired.
Activate(v) ==
    /\ At(v, "connected")
    /\ srv' = [srv EXCEPT ![v] =
                 IF srv[v].ctxDone
                 THEN [srv[v] EXCEPT !.store = "closed", !.wire = "none", !.main = IF @ = "connect" THEN "bind" ELSE @]
                 ELSE [srv[v] EXCEPT !.wire = "build"]]
    /\ UNCHANGED db

\* buildAppHandler, which refuses a bad configuration.
buildAppHandler(v) ==
    /\ At(v, "build")
    /\ Wire(v, "swap")
    /\ UNCHANGED db

BuildFails(v) ==
    /\ At(v, "build")
    /\ srv' = [srv EXCEPT ![v] =
                 IF srv[v].main = "connect" THEN [srv[v] EXCEPT !.main = "exited", !.wire = "none", !.store = "closed"]
                 ELSE [srv[v] EXCEPT !.fatal = TRUE, !.wire = "none", !.store = "closed"]]
    /\ UNCHANGED db

SwapHandler(v) ==
    /\ At(v, "swap")
    /\ srv' = [srv EXCEPT ![v].handler = "app", ![v].wire = "publish"]
    /\ UNCHANGED db

\* Mutant: the probe loop is never told of the store.
PublishStoreForgotten(v) ==
    /\ At(v, "publish")
    /\ Wire(v, "register")
    /\ UNCHANGED db

PublishStore(v) ==
    /\ At(v, "publish")
    /\ srv' = [srv EXCEPT ![v].pinger = TRUE, ![v].wire = "register"]
    /\ UNCHANGED db

\* The sweepers are started and the teardown is left for the shutdown.
RegisterCleanup(v) ==
    /\ At(v, "register")
    /\ srv' = [srv EXCEPT ![v].cleanup = TRUE, ![v].wire = "wired",
                          ![v].main = IF @ = "connect" THEN "bind" ELSE @]
    /\ UNCHANGED db

----------------------------------------------------------------------------
(* The main goroutine, the probe loop and the shutdown goroutine.          *)

\* The port is opened, the probe loop and the shutdown goroutine are started.
Listen(v) ==
    /\ srv[v].main = "bind"
    /\ srv' = [srv EXCEPT ![v].main = "serve", ![v].down = "wait"]
    /\ UNCHANGED db

\* The port is taken: whatever was activated is torn down.
BindFails(v) == srv[v].main = "bind" /\ Exit(v) /\ UNCHANGED db

Probe(v) ==
    /\ srv[v].main = "serve" /\ ~srv[v].ctxDone
    /\ srv' = [srv EXCEPT ![v].readyz =
                 IF srv[v].pinger /\ srv[v].store = "open" /\ db.up THEN "ready" ELSE "unready"]
    /\ UNCHANGED db

\* A listener that dies, or a fatal error in the wiring, stops the server too.
ListenerDies(v) ==
    /\ srv[v].down = "wait" /\ ~srv[v].fatal
    /\ srv' = [srv EXCEPT ![v].fatal = TRUE]
    /\ UNCHANGED db

\* Mutant: only an error begins the shutdown.
BeginShutdownOnError(v) ==
    /\ srv[v].down = "wait" /\ srv[v].fatal
    /\ srv' = [srv EXCEPT ![v].down = "drain", ![v].ctxDone = TRUE]
    /\ UNCHANGED db

BeginShutdown(v) ==
    /\ srv[v].down = "wait" /\ (srv[v].ctxDone \/ srv[v].fatal)
    /\ srv' = [srv EXCEPT ![v].down = "drain", ![v].ctxDone = TRUE]
    /\ UNCHANGED db

\* Shutdown of both servers waits a bounded time for the requests they serve.
Drain(v) ==
    /\ srv[v].down = "drain"
    /\ srv' = [srv EXCEPT ![v].down = "clean"]
    /\ UNCHANGED db

\* Teardown, if there is one by now, and exit.
RunCleanup(v) == srv[v].down = "clean" /\ Exit(v) /\ UNCHANGED db

Connecting(v) ==
    \/ Dial(v) \/ GetBootstrap(v) \/ CreateHuman(v) \/ recoverIfKeyless(v) \/ mintBootstrapKey(v)
    \/ ConnectFails(v)
Activating(v) ==
    \/ Activate(v) \/ buildAppHandler(v) \/ SwapHandler(v) \/ PublishStore(v) \/ RegisterCleanup(v)
Running(v) == Listen(v) \/ BeginShutdown(v) \/ Drain(v) \/ RunCleanup(v)

SLNext ==
    \/ \E v \in Servers :
         \/ Start(v) \/ Kill(v) \/ Signal(v)
         \/ Connecting(v) \/ Activating(v) \/ BuildFails(v)
         \/ Running(v) \/ BindFails(v) \/ Probe(v) \/ ListenerDies(v)
    \/ DatabaseFlips \/ CredentialsFixed \/ PeerCreates \/ PeerMints

\* Goroutines are scheduled, timers fire and a connection attempt ends.
SLFairness ==
    \A v \in Servers :
        /\ WF_slVars(Connecting(v)) /\ WF_slVars(Activating(v) \/ BuildFails(v))
        /\ WF_slVars(Running(v) \/ BindFails(v)) /\ WF_slVars(Probe(v))

SLSpec == SLInit /\ [][SLNext]_slVars /\ SLFairness

----------------------------------------------------------------------------
\* A server that reports itself ready has the application behind its port: a
\* late activation is never announced before it is complete.
ReadyMeansServing == \A v \in Servers : srv[v].readyz = "ready" => srv[v].handler = "app"

\* A server that serves has an administrator who can log in, although servers
\* start together, die between creating the administrator and its key, and
\* lose their database in between.
ServingHasAdminKey == \A v \in Servers : srv[v].handler = "app" => db.admin /\ db.key

\* serve.go, bootstrap.go: who waits for a server to report itself ready can use
\* it then, whatever the servers and the database went through.
ReadyMeansUsable == ReadyMeansServing /\ ServingHasAdminKey

\* If the database is up for good, a server that listens gets ready, or stops.
BecomesReady ==
    \A v \in Servers :
        <>[](db.up /\ db.creds) =>
            (srv[v].main = "serve" ~> srv[v].readyz = "ready" \/ ~Alive(v))

\* A server that is told to stop does, also while it connects or is half wired.
StopsWhenTold == \A v \in Servers : srv[v].ctxDone /\ Alive(v) ~> ~Alive(v)
=============================================================================
