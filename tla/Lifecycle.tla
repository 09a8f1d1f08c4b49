------------------------------ MODULE Lifecycle ------------------------------
(***************************************************************************)
(* The process (cmd/server/main.go): configuration, the database and its   *)
(* migrations (internal/repository/sqlite.go), the seed domain, the two    *)
(* servers and the cleanup worker (internal/worker/cleanup.go) on          *)
(* goroutines of their own, and the shutdown on a signal or when a server  *)
(* fails.                                                                  *)
(*                                                                         *)
(* "main" is where run() stands.  The servers report to run() over a       *)
(* channel; connections and requests are counted.  The process may die at  *)
(* any step; what is left is the schema as far as it was created and the   *)
(* domains table.                                                          *)
(*                                                                         *)
(* The two libraries differ in one thing that matters here.  net/http asks *)
(* whether it was shut down before it listens.  go-smtp does not: its      *)
(* Shutdown closes the listeners that are registered by then, and one that *)
(* Serve registers later is open for good.                                 *)
(***************************************************************************)
EXTENDS Config, Sequences

CONSTANTS Environments,  \* environments the process may be started in
          Statements,    \* how many CREATE statements the migrations hold
          MaxActive      \* bound: connections or requests in progress per server

ASSUME LifecycleAssumption ==
    /\ Statements \in Nat \ {0}
    /\ MaxActive \in Nat

VARIABLES env,      \* the environment, until Load has read it
          cfg,      \* what run() uses of the configuration
          main,     \* where run() stands
          result,   \* what run() is about to return, or how the process ended
          step,     \* the migration statement that is next
          created,  \* the schema: the statements that have taken effect
          domains,  \* has the domains table a row
          dbOpen,   \* is the connection pool open
          server,   \* where each server's goroutine stands
          shut,     \* has Shutdown been called on the server
          active,   \* connections (SMTP) or requests (HTTP) in progress
          chan,     \* serverErr: what the servers sent and run() has not received
          got,      \* how many results the final loop has received
          ctxDone,  \* is the context of NotifyContext done
          done,     \* CleanupWorker.done: is it closed
          worker,   \* where the cleanup goroutine stands
          expired,  \* has the deadline of the shutdown passed
          failed,   \* observer: servers that reported an error
          cut,      \* observer: did a handler find the pool closed
          late      \* servers that registered their listener after Shutdown; like the
                    \* observers it is kept until the next start

disk == <<created, domains>>
startup == <<env, cfg, step, disk>>
serving == <<server, shut, active, chan, got>>
background == <<ctxDone, done, worker, expired>>
observers == <<failed, cut, late>>
vars == <<startup, main, result, dbOpen, serving, background, observers>>

Servers == {"smtp", "http"}

\* The environment plays no part once Load has accepted it; a later start in the
\* same environment loads the same configuration.
Consumed == <<>>

\* "select" waits for a signal or a server, "stopSmtp" and "stopHttp" inside
\* Shutdown, "collect" for the servers' results; "abortSmtp" and "abortHttp" are
\* shutdownServers, "close" the deferred calls.
Mains == {"load", "migrate", "seed", "routes", "select", "stopSmtp", "stopHttp", "collect",
          "abortSmtp", "abortHttp", "close", "exit"}

TypeOK ==
    /\ main \in Mains
    /\ result \in {"none", "clean", "error", "killed", "panic"}
    /\ cfg \in [seeded : BOOLEAN, cleanupInterval : Int64]
    /\ step \in 1..(Statements + 1)
    /\ created \subseteq 1..Statements
    /\ domains \in BOOLEAN /\ dbOpen \in BOOLEAN
    /\ server \in [Servers -> {"off", "starting", "serving", "returned"}]
    /\ shut \in [Servers -> BOOLEAN]
    /\ active \in [Servers -> 0..MaxActive]
    /\ chan \in Seq({"nil", "error"}) /\ Len(chan) <= 2
    /\ got \in 0..2
    /\ ctxDone \in BOOLEAN /\ done \in BOOLEAN /\ expired \in BOOLEAN
    /\ worker \in {"off", "first", "waiting", "sweeping", "ended"}
    /\ failed \subseteq Servers /\ late \subseteq Servers /\ cut \in BOOLEAN

\* A first start, or one on the database of an earlier version, which has the
\* schema and may have domains.
Init ==
    /\ env \in Environments
    /\ cfg = [seeded |-> FALSE, cleanupInterval |-> 0]
    /\ main = "load" /\ result = "none" /\ step = 1
    /\ \/ created = {} /\ domains = FALSE
       \/ created = 1..Statements /\ domains \in BOOLEAN
    /\ dbOpen = FALSE
    /\ server = [s \in Servers |-> "off"] /\ shut = [s \in Servers |-> FALSE]
    /\ active = [s \in Servers |-> 0] /\ chan = <<>> /\ got = 0
    /\ ctxDone = FALSE /\ done = FALSE /\ worker = "off" /\ expired = FALSE
    /\ failed = {} /\ cut = FALSE /\ late = {}

-----------------------------------------------------------------------------
(* Startup.                                                                *)

Goto(m) == main' = m

\* Variant: a database that has tables is taken to be complete.
FirstStatementIfNew == IF created = {} THEN 1 ELSE Statements + 1

\* Every start runs every migration.
FirstStatement == 1

\* The process ends, and every goroutine with it.
End(r) ==
    /\ Goto("exit")
    /\ result' = r
    /\ step' = FirstStatement
    /\ dbOpen' = FALSE
    /\ server' = [s \in Servers |-> "off"] /\ shut' = [s \in Servers |-> FALSE]
    /\ active' = [s \in Servers |-> 0] /\ chan' = <<>> /\ got' = 0
    /\ ctxDone' = FALSE /\ done' = FALSE /\ worker' = "off" /\ expired' = FALSE

\* config.Load; an accepted configuration is followed by opening the database.
Load ==
    /\ main = "load"
    /\ IF env = Consumed \/ LoadSucceeds(env)
       THEN /\ env' = Consumed
            /\ cfg' = IF env = Consumed THEN cfg
                      ELSE [seeded |-> Loaded(env).seeded,
                            cleanupInterval |-> Loaded(env).cleanupInterval]
            /\ Goto("migrate")
            /\ dbOpen' = TRUE
            /\ UNCHANGED <<result, step, serving, background>>
       ELSE End("error") /\ UNCHANGED <<env, cfg>>
    /\ UNCHANGED <<disk, observers>>

\* run() returns before anything was started: the deferred Close, then the exit.
StartupFails ==
    /\ main \in {"migrate", "seed", "routes"}
    /\ Goto("close")
    /\ result' = "error"
    /\ UNCHANGED <<startup, dbOpen, serving, background, observers>>

\* SQLite.init: each statement takes effect by itself, and is IF NOT EXISTS.
Migrate ==
    /\ main = "migrate" /\ step <= Statements
    /\ created' = created \union {step}
    /\ step' = step + 1
    /\ UNCHANGED <<env, cfg, domains, main, result, dbOpen, serving, background, observers>>

Migrated ==
    /\ main = "migrate" /\ step = Statements + 1
    /\ Goto("seed")
    /\ UNCHANGED <<startup, result, dbOpen, serving, background, observers>>

SeedDomain ==
    /\ main = "seed"
    /\ domains' = (domains \/ cfg.seeded)
    /\ Goto("routes")
    /\ UNCHANGED <<env, cfg, step, created, result, dbOpen, serving, background, observers>>

\* RegisterRoutes, NotifyContext and the three go statements.
Launch ==
    /\ main = "routes"
    /\ Goto("select")
    /\ server' = [s \in Servers |-> "starting"]
    /\ worker' = "first"
    /\ UNCHANGED <<startup, result, dbOpen, shut, active, chan, got, ctxDone, done, expired,
                   observers>>

-----------------------------------------------------------------------------
(* The servers' goroutines and the handlers they run.                      *)

Report(s, v) ==
    /\ Len(chan) < 2
    /\ server' = [server EXCEPT ![s] = "returned"]
    /\ chan' = Append(chan, v)
    /\ failed' = IF v = "error" THEN failed \union {s} ELSE failed
    /\ UNCHANGED <<startup, main, result, dbOpen, shut, active, got, background, cut, late>>

\* ListenAndServe: the address is bound and Accept waits.  Only net/http does not
\* come here after Shutdown.
Listen(s) ==
    /\ server[s] = "starting"
    /\ s = "smtp" \/ ~shut[s]
    /\ server' = [server EXCEPT ![s] = "serving"]
    /\ late' = IF shut[s] THEN late \union {s} ELSE late
    /\ UNCHANGED <<startup, main, result, dbOpen, shut, active, chan, got, background, failed, cut>>

\* The address is in use.
BindFails(s) ==
    /\ server[s] = "starting"
    /\ Report(s, "error")

\* Accept fails for good, which after Shutdown is taken for its doing.
AcceptFails(s) ==
    /\ server[s] = "serving"
    /\ Report(s, IF shut[s] THEN "nil" ELSE "error")

\* Shutdown closed the listener, or net/http found that it had been called.
ServeReturns(s) ==
    /\ shut[s]
    /\ \/ server[s] = "serving" /\ s \notin late
       \/ server[s] = "starting" /\ s = "http"
    /\ Report(s, "nil")

Begin(s) ==
    /\ server[s] = "serving"
    /\ ~shut[s] \/ s \in late
    /\ active[s] < MaxActive
    /\ active' = [active EXCEPT ![s] = @ + 1]
    /\ UNCHANGED <<startup, main, result, dbOpen, server, shut, chan, got, background, observers>>

\* A handler is done, or its client has gone; one that still needs the database
\* after Close gets an error.
Finish(s) ==
    /\ active[s] > 0
    /\ active' = [active EXCEPT ![s] = @ - 1]
    /\ cut' \in {cut, cut \/ ~dbOpen}
    /\ UNCHANGED <<startup, main, result, dbOpen, server, shut, chan, got, background, failed, late>>

-----------------------------------------------------------------------------
(* CleanupWorker.Start.                                                    *)

Worker(pc) ==
    /\ worker' = pc
    /\ UNCHANGED <<startup, main, result, dbOpen, serving, ctxDone, done, expired, observers>>

\* A first run, then NewTicker, which panics unless the interval is positive.
FirstRun ==
    /\ worker = "first"
    /\ cfg.cleanupInterval > 0
    /\ Worker("waiting")

TickerPanics ==
    /\ worker = "first"
    /\ ~(cfg.cleanupInterval > 0)
    /\ End("panic")
    /\ UNCHANGED <<env, cfg, disk, observers>>

TickerFires == worker = "waiting" /\ Worker("sweeping")
Swept == worker = "sweeping" /\ Worker("waiting")
WorkerEnds == worker = "waiting" /\ (ctxDone \/ done) /\ Worker("ended")

-----------------------------------------------------------------------------
(* run(), from the select on.                                              *)

CallShutdown(s) == shut' = [shut EXCEPT ![s] = TRUE]

\* SIGINT or SIGTERM, while NotifyContext listens for them.
Signal ==
    /\ main \in {"select", "stopSmtp", "stopHttp", "collect"} /\ ~ctxDone
    /\ ctxDone' = TRUE
    /\ UNCHANGED <<startup, main, result, dbOpen, serving, done, worker, expired, observers>>

SelectSignal ==
    /\ main = "select" /\ ctxDone
    /\ Goto("stopSmtp") /\ CallShutdown("smtp")
    /\ UNCHANGED <<startup, result, dbOpen, server, active, chan, got, background, observers>>

\* The result is received, and stop() ends the context.
SelectResult ==
    /\ main = "select" /\ chan # <<>>
    /\ chan' = Tail(chan)
    /\ ctxDone' = TRUE
    /\ CallShutdown("smtp")
    /\ IF Head(chan) = "error" THEN Goto("abortSmtp") /\ result' = "error"
                               ELSE Goto("stopSmtp") /\ UNCHANGED result
    /\ UNCHANGED <<startup, dbOpen, server, active, got, done, worker, expired, observers>>

\* Variant: Close instead of Shutdown, which does not wait.
DrainedAtOnce(s) == TRUE

Drained(s) == active[s] = 0

SmtpStopped ==
    /\ main = "stopSmtp" /\ Drained("smtp")
    /\ Goto("stopHttp") /\ CallShutdown("http")
    /\ UNCHANGED <<startup, result, dbOpen, server, active, chan, got, background, observers>>

HttpStopped ==
    /\ main = "stopHttp" /\ Drained("http")
    /\ Goto("collect")
    /\ done' = TRUE
    /\ UNCHANGED <<startup, result, dbOpen, serving, ctxDone, worker, expired, observers>>

\* context.WithTimeout over both Shutdowns.
Expire ==
    /\ main \in {"stopSmtp", "stopHttp", "abortSmtp", "abortHttp"} /\ ~expired
    /\ expired' = TRUE
    /\ UNCHANGED <<startup, main, result, dbOpen, serving, ctxDone, done, worker, observers>>

\* run() returns the deadline's error; what comes after is skipped.
Overdue ==
    /\ main \in {"stopSmtp", "stopHttp"} /\ expired
    /\ Goto("close")
    /\ result' = "error"
    /\ UNCHANGED <<startup, dbOpen, serving, background, observers>>

\* Variant: the last error wins.
KeptLast(v) == IF v = "error" THEN "error" ELSE "none"

Kept(v) == IF v = "error" \/ result = "error" THEN "error" ELSE "none"

\* Variant: one result for each goroutine, the worker's included.
ExpectedThree == 3

Expected == 2

Collect ==
    /\ main = "collect" /\ chan # <<>> /\ got < Expected
    /\ got' = got + 1
    /\ chan' = Tail(chan)
    /\ result' = Kept(Head(chan))
    /\ UNCHANGED <<startup, main, dbOpen, server, shut, active, background, observers>>

Collected ==
    /\ main = "collect" /\ got = Expected
    /\ Goto("close")
    /\ result' = IF result = "none" THEN "clean" ELSE result
    /\ UNCHANGED <<startup, dbOpen, serving, background, observers>>

\* shutdownServers, whose own errors are dropped.
AbortSmtp ==
    /\ main = "abortSmtp" /\ (Drained("smtp") \/ expired)
    /\ Goto("abortHttp") /\ CallShutdown("http")
    /\ UNCHANGED <<startup, result, dbOpen, server, active, chan, got, background, observers>>

AbortHttp ==
    /\ main = "abortHttp" /\ (Drained("http") \/ expired)
    /\ Goto("close")
    /\ UNCHANGED <<startup, result, dbOpen, serving, background, observers>>

\* The deferred repo.Close; then main() exits.
Close ==
    /\ main = "close" /\ dbOpen
    /\ dbOpen' = FALSE
    /\ UNCHANGED <<startup, main, result, serving, background, observers>>

Exit ==
    /\ main = "close" /\ ~dbOpen
    /\ End(result)
    /\ UNCHANGED <<env, cfg, disk, observers>>

-----------------------------------------------------------------------------
(* Around the process.                                                     *)

\* SIGKILL, a power cut, or a signal while nothing listens for it.
Crash ==
    /\ main # "exit"
    /\ End("killed")
    /\ UNCHANGED <<env, cfg, disk, observers>>

\* Started again in the same environment.
Restart ==
    /\ main = "exit"
    /\ Goto("load")
    /\ result' = "none"
    /\ failed' = {} /\ cut' = FALSE /\ late' = {}
    /\ UNCHANGED <<startup, dbOpen, serving, background>>

\* What a server's goroutine does without a client or a failing socket.
Serve(s) == Listen(s) \/ BindFails(s) \/ ServeReturns(s)

Start == Load \/ Migrate \/ Migrated \/ SeedDomain \/ Launch
Stop ==
    \/ SelectSignal \/ SelectResult \/ SmtpStopped \/ HttpStopped \/ Overdue
    \/ Collect \/ Collected \/ AbortSmtp \/ AbortHttp \/ Close \/ Exit

Next ==
    \/ Start \/ StartupFails
    \/ \E s \in Servers : Serve(s) \/ AcceptFails(s) \/ Begin(s) \/ Finish(s)
    \/ FirstRun \/ TickerPanics \/ TickerFires \/ Swept \/ WorkerEnds
    \/ Signal \/ Expire \/ Stop
    \/ Crash \/ Restart

Spec == Init /\ [][Next]_vars

\* run() and the servers' goroutines are scheduled: one that was started comes to
\* listen, or fails to, and returns when its listener is closed; and the deadline
\* comes.  Clients may keep their connections open for ever; nobody has to send a
\* signal.
Fairness ==
    /\ WF_vars(Stop)
    /\ WF_vars(Expire)
    /\ \A s \in Servers : WF_vars(Serve(s))

FairSpec == Spec /\ Fairness

-----------------------------------------------------------------------------
(* Properties.                                                             *)

\* A configuration that Load accepts can be run with, unless a product leaves the
\* int64: the ticker does not panic, a session is not born expired, and an
\* attachment that is allowed fits into a mail that is (config.go:98, 113-118).
AcceptedIsUsable ==
    main = "load" /\ env # Consumed /\ LoadSucceeds(env) /\ InRange(env) =>
        LET c == Loaded(env)
        IN  /\ c.cleanupInterval > 0 /\ c.sessionTTL > 0
            /\ c.maxAttachmentSize \in 1..c.maxEmailSize

\* Whatever starts were interrupted before, and wherever, the program serves only
\* on a complete schema, and the domain it was configured with does not leave it
\* without any (sqlite.go:57-73, main.go:48).
ServingReady ==
    \A s \in Servers : server[s] # "off" =>
        /\ created = 1..Statements
        /\ cfg.seeded => domains

\* Exit status 0 means that nobody was cut off: both servers have stopped, all
\* connections and requests were answered, and none of them met a closed database
\* (main.go:108-128).  A server that began to listen after its Shutdown is not
\* waited for, and is left out here; what it does to the exit, the others say.
CleanMeansServed ==
    result = "clean" /\ late = {} =>
        /\ ~cut
        /\ \A s \in Servers : server[s] \in {"returned", "off"} /\ active[s] = 0

\* A server's failure is never lost, not even when it comes during the shutdown or
\* is followed by the other server's success (main.go:101-105, 119-127).
FailureReported == result = "clean" => failed = {}

\* What run() and the servers can do, and the deadline.
CanStop ==
    \/ main = "select" /\ (ctxDone \/ chan # <<>>)
    \/ main \in {"stopSmtp", "abortSmtp"} /\ (Drained("smtp") \/ expired)
    \/ main \in {"stopHttp", "abortHttp"} /\ (Drained("http") \/ expired)
    \/ main = "collect" /\ (chan # <<>> \/ got = Expected)
    \/ main = "close"

CanExpire == main \in {"stopSmtp", "stopHttp", "abortSmtp", "abortHttp"} /\ ~expired

CanServe(s) ==
    /\ \/ server[s] = "starting"
       \/ server[s] = "serving" /\ shut[s] /\ s \notin late
    /\ Len(chan) < 2

\* From the signal or the failure on there is one way to get stuck: the final loop
\* waits for the result of an SMTP server that began to listen after its Shutdown.
\* In any other state run() can go on, or the deadline is still to come, or a server
\* still has to get ready or to return: no client, no worker and no other result
\* that nobody sends can hold the process (main.go:97-128).
ShutdownNeverStuck ==
    (ctxDone \/ failed # {}) /\ main # "exit" =>
        \/ CanStop \/ CanExpire \/ \E s \in Servers : CanServe(s)
        \/ main = "collect" /\ server["smtp"] = "serving" /\ late = {"smtp"}

\* A signal, or the failure of one server, ends the whole process, whatever clients
\* do and in whatever order the servers fail and return, unless the SMTP server comes
\* to listen after its Shutdown (main.go:97-128).
ShutdownEnds == (ctxDone \/ failed # {}) ~> (main = "exit" \/ "smtp" \in late)

\* plan.md:596-612: once the context is done, main() shuts the SMTP server, the HTTP
\* server and the worker down, in 30 seconds at most, closes the database and ends.
\* So a signal ends the process, at least one in which no server fails.
SignalEnds == ctxDone ~> (main = "exit" \/ failed # {})
=============================================================================
