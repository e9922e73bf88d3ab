----------------------- MODULE ServerLifecycleProofs -----------------------
(***************************************************************************)
(* ReadyMeansUsable for any number of servers that start, connect, lose    *)
(* their database, are told to stop and are killed at the same time.       *)
(*                                                                         *)
(* The argument is about one server and the database: Good says what each  *)
(* step of the wiring has seen done before it.  It survives the steps of   *)
(* the others because no step takes the administrator or the key away.     *)
(***************************************************************************)
EXTENDS ServerLifecycle, TLAPS

Server ==
    [main : {"off", "connect", "bind", "serve", "exited"},
     wire : {"none", "dial", "admin", "create", "keys", "mint", "connected", "build", "swap",
             "publish", "register", "wired"},
     degraded : BOOLEAN, ctxDone : BOOLEAN, fatal : BOOLEAN, handler : {"503", "app"},
     pinger : BOOLEAN, readyz : {"nil", "ready", "unready"},
     store : {"none", "open", "closed"}, cleanup : BOOLEAN,
     down : {"none", "wait", "drain", "clean"}, creds : Nat, starts : Nat]

Database == [up : BOOLEAN, creds : BOOLEAN, admin : BOOLEAN, key : BOOLEAN]

\* The steps that come after the bootstrap has found or made the key, and
\* those that come after it has found or made the administrator.
AfterKey == {"connected", "build", "swap", "publish", "register", "wired"}
AfterAdmin == AfterKey \cup {"keys", "mint"}

Good(s, d) ==
    /\ s \in Server
    /\ s.wire \in AfterAdmin => d.admin
    /\ s.wire \in AfterKey => d.key
    /\ s.wire = "publish" => s.handler = "app"
    /\ s.pinger => s.handler = "app"
    /\ s.readyz = "ready" => s.handler = "app"
    /\ s.handler = "app" => d.admin /\ d.key

\* The database is only ever added to.
Richer(d, e) == (d.admin => e.admin) /\ (d.key => e.key)

SLInv ==
    /\ db \in Database
    /\ srv \in [Servers -> Server]
    /\ \A v \in Servers : Good(srv[v], db)

\* A step of one server.
LEMMA OneServer ==
    ASSUME SLInv, NEW v \in Servers, NEW s, Good(s, db'), srv' = [srv EXCEPT ![v] = s],
           db' \in Database, Richer(db, db')
    PROVE  SLInv'
<1>1. ASSUME NEW w \in Servers PROVE Good(srv'[w], db')
  BY DEF SLInv, Good, Richer
<1>2. srv' \in [Servers -> Server]
  BY DEF SLInv, Good
<1> QED BY <1>1, <1>2 DEF SLInv

\* A step of one server that leaves the database alone.
LEMMA OneServerOnly ==
    ASSUME SLInv, NEW v \in Servers, NEW s, Good(s, db), srv' = [srv EXCEPT ![v] = s],
           UNCHANGED db
    PROVE  SLInv'
BY OneServer DEF SLInv, Richer

\* A step of the database, or none.
LEMMA NoServer ==
    ASSUME SLInv, UNCHANGED srv, db' \in Database, Richer(db, db')
    PROVE  SLInv'
BY DEF SLInv, Good, Richer

\* A process that is not running.
LEMMA OffGood ==
    ASSUME NEW n \in Nat, NEW d
    PROVE  /\ Good([Off EXCEPT !.starts = n], d)
           /\ Good([Off EXCEPT !.main = "connect", !.wire = "dial", !.starts = n], d)
           /\ Good(Off, d)
BY DEF Off, Good, Server, AfterAdmin, AfterKey

\* A server whose port and probe stay as they are, and whose wiring stays,
\* stops or begins again.
LEMMA QuietGood ==
    ASSUME NEW s, NEW t \in Server, NEW d, Good(s, d),
           t.handler = s.handler, t.pinger = s.pinger, t.readyz = s.readyz,
           t.wire \in {s.wire, "none", "dial"}
    PROVE  Good(t, d)
BY DEF Good, AfterAdmin, AfterKey

\* The initial states satisfy the invariant.
LEMMA SLInitInv == SLInit => SLInv
<1>1. \A d : Good(Off, d)
  BY OffGood
<1> QED BY <1>1 DEF SLInit, SLInv, Database, Good

\* Starting, killing and signalling a server.
LEMMA EnvironmentInv ==
    ASSUME SLInv, NEW v \in Servers, Start(v) \/ Kill(v) \/ Signal(v)
    PROVE  SLInv'
<1>0. Good(srv[v], db) /\ srv[v] \in Server /\ srv \in [Servers -> Server]
  BY DEF SLInv
<1>1. CASE Start(v)
  <2>1. srv[v].starts + 1 \in Nat
    BY <1>0 DEF Server
  <2> QED BY <1>1, <2>1, OffGood, OneServerOnly DEF Start
<1>2. CASE Kill(v)
  <2>1. srv[v].starts \in Nat
    BY <1>0 DEF Server
  <2> QED BY <1>2, <2>1, OffGood, OneServerOnly DEF Kill
<1>3. CASE Signal(v)
  <2> DEFINE s == [srv[v] EXCEPT !.ctxDone = TRUE]
  <2>1. Good(s, db)
    <3>1. s \in Server
      BY <1>0 DEF Server
    <3>2. /\ s.handler = srv[v].handler /\ s.pinger = srv[v].pinger
          /\ s.readyz = srv[v].readyz /\ s.wire \in {srv[v].wire, "none"}
      BY <1>0 DEF Server
    <3> HIDE DEF s
    <3> QED BY <1>0, <3>1, <3>2, QuietGood
  <2>2. srv' = [srv EXCEPT ![v] = s] /\ UNCHANGED db
    BY <1>0, <1>3 DEF Signal
  <2> HIDE DEF s
  <2> QED BY <2>1, <2>2, OneServerOnly
<1> QED BY <1>1, <1>2, <1>3

\* The database comes and goes, and others bootstrap it.
LEMMA DatabaseInv ==
    ASSUME SLInv, DatabaseFlips \/ CredentialsFixed \/ PeerCreates \/ PeerMints
    PROVE  SLInv'
<1>0. db \in Database
  BY DEF SLInv
<1>1. UNCHANGED srv /\ db' \in Database /\ Richer(db, db')
  BY <1>0 DEF DatabaseFlips, CredentialsFixed, PeerCreates, PeerMints, Database, Richer
<1> QED BY <1>1, NoServer

\* connectStore.
LEMMA ConnectingInv ==
    ASSUME SLInv, NEW v \in Servers, Connecting(v)
    PROVE  SLInv'
<1>0. Good(srv[v], db) /\ srv[v] \in Server /\ srv \in [Servers -> Server] /\ db \in Database
  BY DEF SLInv
<1>1. CASE Dial(v)
  <2> DEFINE s == [srv[v] EXCEPT !.wire = "admin", !.store = "open"]
  <2>1. Good(s, db)
    BY <1>0 DEF Good, Server, AfterAdmin, AfterKey
  <2>2. srv' = [srv EXCEPT ![v] = s] /\ UNCHANGED db
    BY <1>0, <1>1 DEF Dial
  <2> HIDE DEF s
  <2> QED BY <2>1, <2>2, OneServerOnly
<1>2. CASE GetBootstrap(v)
  <2> DEFINE s == [srv[v] EXCEPT !.wire = IF db.admin THEN "keys" ELSE "create"]
  <2>1. Good(s, db)
    BY <1>0 DEF Good, Server, AfterAdmin, AfterKey
  <2>2. srv' = [srv EXCEPT ![v] = s] /\ UNCHANGED db
    BY <1>0, <1>2 DEF GetBootstrap, Wire
  <2> HIDE DEF s
  <2> QED BY <2>1, <2>2, OneServerOnly
<1>3. CASE CreateHuman(v)
  <2> DEFINE s == [srv[v] EXCEPT !.wire = IF db.admin THEN "keys" ELSE "mint"]
  <2>1. db' \in Database /\ Richer(db, db') /\ db'.admin /\ db'.key = db.key
    BY <1>0, <1>3 DEF CreateHuman, Database, Richer
  <2>2. Good(s, db')
    BY <1>0, <2>1 DEF Good, Server, AfterAdmin, AfterKey
  <2>3. srv' = [srv EXCEPT ![v] = s]
    BY <1>0, <1>3 DEF CreateHuman, Wire
  <2> HIDE DEF s
  <2> QED BY <2>1, <2>2, <2>3, OneServer
<1>4. CASE recoverIfKeyless(v)
  <2> DEFINE s == [srv[v] EXCEPT !.wire = IF db.key THEN "connected" ELSE "mint"]
  <2>1. srv[v].wire = "keys"
    BY <1>4 DEF recoverIfKeyless, At
  <2>2. Good(s, db)
    BY <1>0, <2>1 DEF Good, Server, AfterAdmin, AfterKey
  <2>3. srv' = [srv EXCEPT ![v] = s] /\ UNCHANGED db
    BY <1>0, <1>4 DEF recoverIfKeyless, Wire
  <2> HIDE DEF s
  <2> QED BY <2>2, <2>3, OneServerOnly
<1>5. CASE mintBootstrapKey(v)
  <2> DEFINE s == [srv[v] EXCEPT !.wire = "connected"]
  <2>1. srv[v].wire = "mint"
    BY <1>5 DEF mintBootstrapKey, At
  <2>2. db' \in Database /\ Richer(db, db') /\ db'.key /\ db'.admin = db.admin
    BY <1>0, <1>5 DEF mintBootstrapKey, Database, Richer
  <2>3. Good(s, db')
    BY <1>0, <2>1, <2>2 DEF Good, Server, AfterAdmin, AfterKey
  <2>4. srv' = [srv EXCEPT ![v] = s]
    BY <1>0, <1>5 DEF mintBootstrapKey, Wire
  <2> HIDE DEF s
  <2> QED BY <2>2, <2>3, <2>4, OneServer
<1>6. CASE ConnectFails(v)
  <2> DEFINE ended == [srv[v] EXCEPT !.main = "exited", !.wire = "none", !.store = "closed"]
             gaveUp == [srv[v] EXCEPT !.wire = "none", !.store = "closed"]
             shut == IF srv[v].store = "open" THEN "closed" ELSE srv[v].store
             on == IF srv[v].main = "connect" THEN "bind" ELSE srv[v].main
             again == [srv[v] EXCEPT !.wire = "dial", !.store = shut, !.creds = 0,
                                     !.degraded = TRUE, !.main = on]
             counted == [srv[v] EXCEPT !.creds = @ + 1]
             refused == [srv[v] EXCEPT !.main = "exited", !.wire = "none"]
             fatal == [srv[v] EXCEPT !.fatal = TRUE, !.wire = "none", !.creds = CredMaxRetry]
             picked == IF srv[v].creds + 1 < CredMaxRetry THEN counted
                       ELSE IF srv[v].main = "connect" THEN refused ELSE fatal
             next == {ended, gaveUp, again, counted, refused, fatal}
  <2>0. UNCHANGED db /\ \E s \in next : srv' = [srv EXCEPT ![v] = s]
    <3>1. again = Retry(v)
      BY DEF Retry
    <3>2. UNCHANGED db /\ \/ srv' = [srv EXCEPT ![v] = ended]
                          \/ srv' = [srv EXCEPT ![v] = gaveUp]
                          \/ srv' = [srv EXCEPT ![v] = Retry(v)]
                          \/ srv' = [srv EXCEPT ![v] = picked]
      BY <1>0, <1>6 DEF ConnectFails
    <3> HIDE DEF ended, gaveUp, again, counted, refused, fatal
    <3>3. picked \in next
      OBVIOUS
    <3> QED BY <3>1, <3>2, <3>3
  <2>1. Good(ended, db)
    <3>1. ended \in Server
      BY <1>0, ServersAssumption DEF Server
    <3>2. /\ ended.handler = srv[v].handler /\ ended.pinger = srv[v].pinger
          /\ ended.readyz = srv[v].readyz /\ ended.wire \in {srv[v].wire, "none", "dial"}
      BY <1>0 DEF Server
    <3> HIDE DEF ended
    <3> QED BY <1>0, <3>1, <3>2, QuietGood
  <2>2. Good(gaveUp, db)
    <3>1. gaveUp \in Server
      BY <1>0, ServersAssumption DEF Server
    <3>2. /\ gaveUp.handler = srv[v].handler /\ gaveUp.pinger = srv[v].pinger
          /\ gaveUp.readyz = srv[v].readyz /\ gaveUp.wire \in {srv[v].wire, "none", "dial"}
      BY <1>0 DEF Server
    <3> HIDE DEF gaveUp
    <3> QED BY <1>0, <3>1, <3>2, QuietGood
  <2>3. Good(again, db)
    <3>0. shut \in {"none", "closed"} /\ on \in {"bind", "serve", "off", "exited"}
      BY <1>0 DEF Server
    <3> HIDE DEF shut, on
    <3> DEFINE t == [srv[v] EXCEPT !.wire = "dial", !.creds = 0, !.degraded = TRUE]
    <3>9. t \in Server /\ again = [t EXCEPT !.store = shut, !.main = on]
      BY <1>0 DEF Server
    <3> HIDE DEF t
    <3>1. again \in Server
      BY <3>0, <3>9 DEF Server
    <3>2. /\ again.handler = srv[v].handler /\ again.pinger = srv[v].pinger
          /\ again.readyz = srv[v].readyz /\ again.wire \in {srv[v].wire, "none", "dial"}
      BY <1>0 DEF Server
    <3> HIDE DEF again
    <3> QED BY <1>0, <3>1, <3>2, QuietGood
  <2>4. Good(counted, db)
    <3>1. counted \in Server
      BY <1>0, ServersAssumption DEF Server
    <3>2. /\ counted.handler = srv[v].handler /\ counted.pinger = srv[v].pinger
          /\ counted.readyz = srv[v].readyz /\ counted.wire \in {srv[v].wire, "none", "dial"}
      BY <1>0 DEF Server
    <3> HIDE DEF counted
    <3> QED BY <1>0, <3>1, <3>2, QuietGood
  <2>5. Good(refused, db)
    <3>1. refused \in Server
      BY <1>0, ServersAssumption DEF Server
    <3>2. /\ refused.handler = srv[v].handler /\ refused.pinger = srv[v].pinger
          /\ refused.readyz = srv[v].readyz /\ refused.wire \in {srv[v].wire, "none", "dial"}
      BY <1>0 DEF Server
    <3> HIDE DEF refused
    <3> QED BY <1>0, <3>1, <3>2, QuietGood
  <2>6. Good(fatal, db)
    <3>1. fatal \in Server
      BY <1>0, ServersAssumption DEF Server
    <3>2. /\ fatal.handler = srv[v].handler /\ fatal.pinger = srv[v].pinger
          /\ fatal.readyz = srv[v].readyz /\ fatal.wire \in {srv[v].wire, "none", "dial"}
      BY <1>0 DEF Server
    <3> HIDE DEF fatal
    <3> QED BY <1>0, <3>1, <3>2, QuietGood
  <2> HIDE DEF ended, gaveUp, again, counted, refused, fatal
  <2>7. \A s \in next : Good(s, db)
    BY <2>1, <2>2, <2>3, <2>4, <2>5, <2>6
  <2> QED BY <2>0, <2>7, OneServerOnly
<1> QED BY <1>1, <1>2, <1>3, <1>4, <1>5, <1>6 DEF Connecting

\* activate.
LEMMA ActivatingInv ==
    ASSUME SLInv, NEW v \in Servers, Activating(v) \/ BuildFails(v)
    PROVE  SLInv'
<1>0. Good(srv[v], db) /\ srv[v] \in Server /\ srv \in [Servers -> Server] /\ db \in Database
  BY DEF SLInv
<1>1. CASE Activate(v)
  <2> DEFINE released == [srv[v] EXCEPT !.store = "closed", !.wire = "none",
                                        !.main = IF @ = "connect" THEN "bind" ELSE @]
             building == [srv[v] EXCEPT !.wire = "build"]
  <2>1. /\ srv[v].wire = "connected" /\ UNCHANGED db
        /\ \E s \in {released, building} : srv' = [srv EXCEPT ![v] = s]
    <3>1. /\ srv[v].wire = "connected" /\ UNCHANGED db
          /\ srv' = [srv EXCEPT ![v] = IF srv[v].ctxDone THEN released ELSE building]
      BY <1>1 DEF Activate, At
    <3> HIDE DEF released, building
    <3> QED BY <3>1
  <2>2. Good(released, db)
    <3>1. released \in Server
      BY <1>0, ServersAssumption DEF Server
    <3>2. /\ released.handler = srv[v].handler /\ released.pinger = srv[v].pinger
          /\ released.readyz = srv[v].readyz /\ released.wire \in {srv[v].wire, "none", "dial"}
      BY <1>0 DEF Server
    <3> HIDE DEF released
    <3> QED BY <1>0, <3>1, <3>2, QuietGood
  <2>3. Good(building, db)
    BY <1>0, <2>1 DEF Good, Server, AfterAdmin, AfterKey
  <2> HIDE DEF released, building
  <2> QED BY <2>1, <2>2, <2>3, OneServerOnly
<1>2. CASE buildAppHandler(v)
  <2> DEFINE s == [srv[v] EXCEPT !.wire = "swap"]
  <2>1. srv[v].wire = "build" /\ UNCHANGED db
    BY <1>2 DEF buildAppHandler, At
  <2>2. Good(s, db)
    BY <1>0, <2>1 DEF Good, Server, AfterAdmin, AfterKey
  <2>3. srv' = [srv EXCEPT ![v] = s]
    BY <1>0, <1>2 DEF buildAppHandler, Wire
  <2> HIDE DEF s
  <2> QED BY <2>1, <2>2, <2>3, OneServerOnly
<1>3. CASE SwapHandler(v)
  <2> DEFINE s == [srv[v] EXCEPT !.handler = "app", !.wire = "publish"]
  <2>1. srv[v].wire = "swap" /\ UNCHANGED db
    BY <1>3 DEF SwapHandler, At
  <2>2. Good(s, db)
    BY <1>0, <2>1 DEF Good, Server, AfterAdmin, AfterKey
  <2>3. srv' = [srv EXCEPT ![v] = s]
    BY <1>0, <1>3 DEF SwapHandler
  <2> HIDE DEF s
  <2> QED BY <2>1, <2>2, <2>3, OneServerOnly
<1>4. CASE PublishStore(v)
  <2> DEFINE s == [srv[v] EXCEPT !.pinger = TRUE, !.wire = "register"]
  <2>1. srv[v].wire = "publish" /\ UNCHANGED db
    BY <1>4 DEF PublishStore, At
  <2>2. Good(s, db)
    BY <1>0, <2>1 DEF Good, Server, AfterAdmin, AfterKey
  <2>3. srv' = [srv EXCEPT ![v] = s]
    BY <1>0, <1>4 DEF PublishStore
  <2> HIDE DEF s
  <2> QED BY <2>1, <2>2, <2>3, OneServerOnly
<1>5. CASE RegisterCleanup(v)
  <2> DEFINE s == [srv[v] EXCEPT !.cleanup = TRUE, !.wire = "wired",
                                 !.main = IF @ = "connect" THEN "bind" ELSE @]
  <2>1. srv[v].wire = "register" /\ UNCHANGED db
    BY <1>5 DEF RegisterCleanup, At
  <2>2. Good(s, db)
    BY <1>0, <2>1 DEF Good, Server, AfterAdmin, AfterKey
  <2>3. srv' = [srv EXCEPT ![v] = s]
    BY <1>0, <1>5 DEF RegisterCleanup
  <2> HIDE DEF s
  <2> QED BY <2>1, <2>2, <2>3, OneServerOnly
<1>6. CASE BuildFails(v)
  <2> DEFINE ended == [srv[v] EXCEPT !.main = "exited", !.wire = "none", !.store = "closed"]
             fatal == [srv[v] EXCEPT !.fatal = TRUE, !.wire = "none", !.store = "closed"]
  <2>1. UNCHANGED db /\ \E s \in {ended, fatal} : srv' = [srv EXCEPT ![v] = s]
    BY <1>0, <1>6 DEF BuildFails
  <2>2. Good(ended, db)
    <3>1. ended \in Server
      BY <1>0, ServersAssumption DEF Server
    <3>2. /\ ended.handler = srv[v].handler /\ ended.pinger = srv[v].pinger
          /\ ended.readyz = srv[v].readyz /\ ended.wire \in {srv[v].wire, "none", "dial"}
      BY <1>0 DEF Server
    <3> HIDE DEF ended
    <3> QED BY <1>0, <3>1, <3>2, QuietGood
  <2>3. Good(fatal, db)
    <3>1. fatal \in Server
      BY <1>0, ServersAssumption DEF Server
    <3>2. /\ fatal.handler = srv[v].handler /\ fatal.pinger = srv[v].pinger
          /\ fatal.readyz = srv[v].readyz /\ fatal.wire \in {srv[v].wire, "none", "dial"}
      BY <1>0 DEF Server
    <3> HIDE DEF fatal
    <3> QED BY <1>0, <3>1, <3>2, QuietGood
  <2> HIDE DEF ended, fatal
  <2> QED BY <2>1, <2>2, <2>3, OneServerOnly
<1> QED BY <1>1, <1>2, <1>3, <1>4, <1>5, <1>6 DEF Activating

\* The main goroutine, the probe loop and the shutdown goroutine.
LEMMA RunningInv ==
    ASSUME SLInv, NEW v \in Servers,
           Running(v) \/ BindFails(v) \/ Probe(v) \/ ListenerDies(v)
    PROVE  SLInv'
<1>0. Good(srv[v], db) /\ srv[v] \in Server /\ srv \in [Servers -> Server]
  BY DEF SLInv
<1>1. CASE Listen(v)
  <2> DEFINE s == [srv[v] EXCEPT !.main = "serve", !.down = "wait"]
  <2>1. Good(s, db)
    <3>1. s \in Server
      BY <1>0 DEF Server
    <3>2. /\ s.handler = srv[v].handler /\ s.pinger = srv[v].pinger
          /\ s.readyz = srv[v].readyz /\ s.wire \in {srv[v].wire, "none"}
      BY <1>0 DEF Server
    <3> HIDE DEF s
    <3> QED BY <1>0, <3>1, <3>2, QuietGood
  <2>2. srv' = [srv EXCEPT ![v] = s] /\ UNCHANGED db
    BY <1>0, <1>1 DEF Listen
  <2> HIDE DEF s
  <2> QED BY <2>1, <2>2, OneServerOnly
<1>2. CASE BeginShutdown(v)
  <2> DEFINE s == [srv[v] EXCEPT !.down = "drain", !.ctxDone = TRUE]
  <2>1. Good(s, db)
    <3>1. s \in Server
      BY <1>0 DEF Server
    <3>2. /\ s.handler = srv[v].handler /\ s.pinger = srv[v].pinger
          /\ s.readyz = srv[v].readyz /\ s.wire \in {srv[v].wire, "none"}
      BY <1>0 DEF Server
    <3> HIDE DEF s
    <3> QED BY <1>0, <3>1, <3>2, QuietGood
  <2>2. srv' = [srv EXCEPT ![v] = s] /\ UNCHANGED db
    BY <1>0, <1>2 DEF BeginShutdown
  <2> HIDE DEF s
  <2> QED BY <2>1, <2>2, OneServerOnly
<1>3. CASE Drain(v)
  <2> DEFINE s == [srv[v] EXCEPT !.down = "clean"]
  <2>1. Good(s, db)
    <3>1. s \in Server
      BY <1>0 DEF Server
    <3>2. /\ s.handler = srv[v].handler /\ s.pinger = srv[v].pinger
          /\ s.readyz = srv[v].readyz /\ s.wire \in {srv[v].wire, "none"}
      BY <1>0 DEF Server
    <3> HIDE DEF s
    <3> QED BY <1>0, <3>1, <3>2, QuietGood
  <2>2. srv' = [srv EXCEPT ![v] = s] /\ UNCHANGED db
    BY <1>0, <1>3 DEF Drain
  <2> HIDE DEF s
  <2> QED BY <2>1, <2>2, OneServerOnly
<1>4. CASE RunCleanup(v) \/ BindFails(v)
  <2> DEFINE left == IF srv[v].store = "open" /\ ~srv[v].cleanup THEN "open" ELSE "closed"
             s == [srv[v] EXCEPT !.main = "exited", !.wire = "none", !.down = "none",
                                 !.store = left]
  <2>0. left \in {"open", "closed"}
    OBVIOUS
  <2>2. srv' = [srv EXCEPT ![v] = s] /\ UNCHANGED db
    BY <1>0, <1>4 DEF RunCleanup, BindFails, Exit
  <2> HIDE DEF left
  <2>1. Good(s, db)
    <3> DEFINE t == [srv[v] EXCEPT !.main = "exited", !.wire = "none", !.down = "none"]
    <3>0. t \in Server /\ s = [t EXCEPT !.store = left]
      BY <1>0 DEF Server
    <3>1. s \in Server
      <4> HIDE DEF s, t
      <4> QED BY <2>0, <3>0 DEF Server
    <3>2. /\ s.handler = srv[v].handler /\ s.pinger = srv[v].pinger
          /\ s.readyz = srv[v].readyz /\ s.wire \in {srv[v].wire, "none"}
      BY <1>0 DEF Server
    <3> HIDE DEF s
    <3> QED BY <1>0, <3>1, <3>2, QuietGood
  <2> HIDE DEF s
  <2> QED BY <2>1, <2>2, OneServerOnly
<1>5. CASE Probe(v)
  <2> DEFINE seen == IF srv[v].pinger /\ srv[v].store = "open" /\ db.up THEN "ready" ELSE "unready"
             s == [srv[v] EXCEPT !.readyz = seen]
  <2>0. seen \in {"ready", "unready"} /\ (seen = "ready" => srv[v].pinger)
    OBVIOUS
  <2>1. srv' = [srv EXCEPT ![v] = s] /\ UNCHANGED db
    BY <1>0, <1>5 DEF Probe
  <2> HIDE DEF seen
  <2>2. Good(s, db)
    <3>1. s \in Server
      BY <1>0, <2>0 DEF Server
    <3>2. /\ s.handler = srv[v].handler /\ s.pinger = srv[v].pinger
          /\ s.wire = srv[v].wire /\ s.readyz = seen
      BY <1>0 DEF Server
    <3> HIDE DEF s
    <3> QED BY <1>0, <2>0, <3>1, <3>2 DEF Good
  <2> HIDE DEF s
  <2> QED BY <2>1, <2>2, OneServerOnly
<1>6. CASE ListenerDies(v)
  <2> DEFINE s == [srv[v] EXCEPT !.fatal = TRUE]
  <2>1. Good(s, db)
    <3>1. s \in Server
      BY <1>0 DEF Server
    <3>2. /\ s.handler = srv[v].handler /\ s.pinger = srv[v].pinger
          /\ s.readyz = srv[v].readyz /\ s.wire \in {srv[v].wire, "none"}
      BY <1>0 DEF Server
    <3> HIDE DEF s
    <3> QED BY <1>0, <3>1, <3>2, QuietGood
  <2>2. srv' = [srv EXCEPT ![v] = s] /\ UNCHANGED db
    BY <1>0, <1>6 DEF ListenerDies
  <2> HIDE DEF s
  <2> QED BY <2>1, <2>2, OneServerOnly
<1> QED BY <1>1, <1>2, <1>3, <1>4, <1>5, <1>6 DEF Running

\* Every step keeps the invariant.
LEMMA SLNextInv == SLInv /\ [SLNext]_slVars => SLInv'
<1> SUFFICES ASSUME SLInv, [SLNext]_slVars PROVE SLInv'
  OBVIOUS
<1>1. CASE UNCHANGED slVars
  BY <1>1 DEF slVars, SLInv
<1>2. CASE SLNext
  BY <1>2, EnvironmentInv, DatabaseInv, ConnectingInv, ActivatingInv, RunningInv DEF SLNext
<1> QED BY <1>1, <1>2

\* In every reachable state, a server that reports itself ready has the
\* application behind its port, and a server that serves has an administrator
\* with a key, whatever other servers bootstrap the same database and however
\* often each of them dies and loses it.
THEOREM ReadyServersUsable == SLSpec => []ReadyMeansUsable
<1>1. SLInv => ReadyMeansUsable
  BY DEF SLInv, Good, ReadyMeansUsable, ReadyMeansServing, ServingHasAdminKey
<1> QED BY <1>1, SLInitInv, SLNextInv, PTL DEF SLSpec
=============================================================================
