--------------------------- MODULE LifecycleProofs ---------------------------
(***************************************************************************)
(* Proofs about Lifecycle and Config: for every set of environments, every *)
(* width of the integers, every number of migration statements and of      *)
(* connections.                                                            *)
(***************************************************************************)
EXTENDS Lifecycle, TLAPS, FiniteSetTheorems

USE ConfigAssumption, LifecycleAssumption

-----------------------------------------------------------------------------
(* Configuration.                                                          *)

LEMMA SettingsFinite == IsFiniteSet(Settings)
  <1> DEFINE S1 == {"MAX_EMAIL_SIZE_MB", "MAX_ATTACHMENT_MB", "CLEANUP_INTERVAL_MIN"}
             S2 == {"SESSION_TTL_DAYS", "SMTP_CONNECTION_LIMIT_PER_MIN"}
             S3 == {"BCRYPT_COST", "COOKIE_SECURE", "LOG_LEVEL"}
             S4 == {"DOMAIN"}
  <1>1. \A a, b, c : IsFiniteSet({a, b, c})
    <2> TAKE a, b, c
    <2>1. IsFiniteSet({}) BY FS_EmptySet
    <2>2. IsFiniteSet({} \union {a}) BY <2>1, FS_AddElement
    <2>3. IsFiniteSet(({} \union {a}) \union {b}) BY <2>2, FS_AddElement
    <2>4. IsFiniteSet((({} \union {a}) \union {b}) \union {c}) BY <2>3, FS_AddElement
    <2>5. {a, b, c} = (({} \union {a}) \union {b}) \union {c} OBVIOUS
    <2> QED BY <2>4, <2>5
  <1>2. IsFiniteSet(S1) /\ IsFiniteSet(S2) /\ IsFiniteSet(S3) /\ IsFiniteSet(S4)
    <2>1. S2 = {"SESSION_TTL_DAYS", "SESSION_TTL_DAYS", "SMTP_CONNECTION_LIMIT_PER_MIN"} OBVIOUS
    <2>2. S4 = {"DOMAIN", "DOMAIN", "DOMAIN"} OBVIOUS
    <2> QED BY <1>1, <2>1, <2>2
  <1>3. IsFiniteSet(NonNegativeInts) /\ IsFiniteSet(ListenAddrs) /\ IsFiniteSet(Paths)
    <2>1. NonNegativeInts = {"INBOX_TTL_DAYS", "INBOX_TTL_DAYS", "INBOX_CREATE_LIMIT_PER_HOUR"}
      BY DEF NonNegativeInts
    <2>2. ListenAddrs = {"SMTP_LISTEN_ADDR", "SMTP_LISTEN_ADDR", "HTTP_LISTEN_ADDR"}
      BY DEF ListenAddrs
    <2>3. Paths = {"DATABASE_PATH", "DATABASE_PATH", "MIGRATIONS_DIR"}
      BY DEF Paths
    <2> QED BY <1>1, <2>1, <2>2, <2>3
  <1>4. Settings = ((((S1 \union S2) \union NonNegativeInts) \union ListenAddrs) \union Paths)
                       \union (S3 \union S4)
    BY DEF Settings, PositiveInts
  <1> HIDE DEF S1, S2, S3, S4
  <1>5. IsFiniteSet((S1 \union S2) \union NonNegativeInts) BY <1>2, <1>3, FS_Union
  <1>6. IsFiniteSet(((S1 \union S2) \union NonNegativeInts) \union ListenAddrs)
    BY <1>3, <1>5, FS_Union
  <1>7. IsFiniteSet((((S1 \union S2) \union NonNegativeInts) \union ListenAddrs) \union Paths)
    BY <1>3, <1>6, FS_Union
  <1>8. IsFiniteSet(S3 \union S4) BY <1>2, FS_Union
  <1> QED BY <1>4, <1>7, <1>8, FS_Union

\* Load succeeds only if it rejected nothing.
LEMMA SuccessMeansAccepted ==
    ASSUME NEW e, LoadSucceeds(e)
    PROVE  ~AttachmentsOver(e) /\ \A s \in Settings : Accepted(e, s)
  <1>1. IsFiniteSet(Rejected(e))
    BY SettingsFinite, FS_Subset DEF Rejected
  <1>2. Cardinality(Rejected(e)) \in Nat
    BY <1>1, FS_CardinalityType
  <1>3. Cardinality(Rejected(e)) = 0 /\ ~AttachmentsOver(e)
    BY <1>2 DEF LoadSucceeds, Errors
  <1>4. Rejected(e) = {}
    BY <1>1, <1>3, FS_EmptySet
  <1> QED BY <1>3, <1>4 DEF Rejected

Sized == {"MAX_EMAIL_SIZE_MB", "MAX_ATTACHMENT_MB", "CLEANUP_INTERVAL_MIN", "SESSION_TTL_DAYS"}

LEMMA AcceptedNumbers ==
    ASSUME NEW e, LoadSucceeds(e), NEW s \in Sized
    PROVE  Value(e, s).n \in Int /\ Value(e, s).n > 0
  <1>1. Accepted(e, s) /\ s \in PositiveInts
    BY SuccessMeansAccepted DEF Sized, Settings, PositiveInts
  <1>2. Positive(Value(e, s))
    BY <1>1 DEF Accepted, PositiveInts, NonNegativeInts, ListenAddrs, Paths
  <1> QED BY <1>2 DEF Positive, Atoi, Int64

\* A product stays in the int64, and is exact if it fits.
LEMMA WrapType == ASSUME NEW x \in Int PROVE Wrap(x) \in Int64
  <1> DEFINE w == 2 * (MaxInt + 1)
  <1>1. w \in Nat \ {0}
    OBVIOUS
  <1>2. (x + MaxInt + 1) % w \in 0..(w - 1)
    <2> HIDE DEF w
    <2> QED BY <1>1
  <1> QED BY <1>2 DEF Wrap, Int64

LEMMA WrapExact == ASSUME NEW x \in 0..MaxInt PROVE Wrap(x) = x
  <1> DEFINE w == 2 * (MaxInt + 1)
             y == x + MaxInt + 1
  <1>1. w \in Nat \ {0} /\ y \in 0..(w - 1)
    OBVIOUS
  <1>2. y % w = y
    <2> HIDE DEF w, y
    <2> QED BY <1>1
  <1> QED BY <1>2 DEF Wrap

LEMMA LoadedType ==
    ASSUME NEW e, LoadSucceeds(e)
    PROVE  Loaded(e).seeded \in BOOLEAN /\ Loaded(e).cleanupInterval \in Int64
  <1>1. Value(e, "CLEANUP_INTERVAL_MIN").n \in Int
    BY AcceptedNumbers DEF Sized
  <1>2. Value(e, "CLEANUP_INTERVAL_MIN").n * Minute \in Int
    BY <1>1
  <1>3. Scaled(e, "CLEANUP_INTERVAL_MIN", Minute) \in Int64
    BY <1>2, WrapType DEF Scaled
  <1> QED BY <1>3 DEF Loaded

LEMMA ScaledExact ==
    ASSUME NEW e, LoadSucceeds(e), InRange(e), NEW s \in Sized
    PROVE  /\ Scaled(e, s, Unit(s)) = Value(e, s).n * Unit(s)
           /\ Scaled(e, s, Unit(s)) \in Int /\ Scaled(e, s, Unit(s)) > 0
  <1> DEFINE n == Value(e, s).n
             u == Unit(s)
  <1>1. n \in Nat \ {0}
    BY AcceptedNumbers
  <1>2. u \in Nat \ {0}
    BY DEF Sized, Unit
  <1>3. n * u <= MaxInt
    BY DEF Sized, InRange, PositiveInts
  <1>4. n * u \in Int /\ n * u > 0
    <2> HIDE DEF n, u
    <2> QED BY <1>1, <1>2
  <1>5. n * u \in 0..MaxInt
    <2> HIDE DEF n, u
    <2> QED BY <1>3, <1>4
  <1>6. Wrap(n * u) = n * u
    BY <1>5, WrapExact
  <1> QED BY <1>4, <1>6 DEF Scaled

\* Whatever environment Load accepts gives intervals, lifetimes and sizes the
\* program can run with, as long as the products fit the int64 (config.go:98-118).
THEOREM AcceptedUsable == Spec => []AcceptedIsUsable
  <1>1. AcceptedIsUsable
    <2> SUFFICES ASSUME LoadSucceeds(env), InRange(env)
                 PROVE  /\ Loaded(env).cleanupInterval > 0 /\ Loaded(env).sessionTTL > 0
                        /\ Loaded(env).maxAttachmentSize \in 1..Loaded(env).maxEmailSize
      BY DEF AcceptedIsUsable
    <2> DEFINE a == Value(env, "MAX_ATTACHMENT_MB").n
               e == Value(env, "MAX_EMAIL_SIZE_MB").n
    <2>1. Loaded(env).cleanupInterval > 0
      BY ScaledExact DEF Loaded, Sized, Unit
    <2>2. Loaded(env).sessionTTL > 0
      BY ScaledExact DEF Loaded, Sized, Unit
    <2>3. /\ Loaded(env).maxAttachmentSize = a * MB /\ Loaded(env).maxEmailSize = e * MB
          /\ a * MB \in Int /\ a * MB > 0 /\ e * MB \in Int
      BY ScaledExact DEF Loaded, Sized, Unit
    <2>4. a \in Nat /\ e \in Nat
      BY AcceptedNumbers DEF Sized
    <2>5. a <= e
      <3>1. Rejected(env) = {}
        BY SuccessMeansAccepted DEF Rejected
      <3> QED BY <2>4, <3>1, SuccessMeansAccepted DEF AttachmentsOver
    <2>6. a * MB <= e * MB
      <3> HIDE DEF a, e
      <3> QED BY <2>4, <2>5
    <2> QED BY <2>1, <2>2, <2>3, <2>6
  <1> QED BY <1>1, PTL

-----------------------------------------------------------------------------
(* Types.                                                                  *)

LEMMA EmptyChan == <<>> \in Seq({"nil", "error"}) /\ Len(<<>>) = 0
  OBVIOUS

LEMMA TypeInit == Init => TypeOK
  <1> SUFFICES ASSUME Init PROVE TypeOK
    OBVIOUS
  <1>1. cfg \in [seeded : BOOLEAN, cleanupInterval : Int64]
    <2>1. 0 \in Int64
      BY DEF Int64
    <2> QED BY <2>1 DEF Init
  <1>2. chan \in Seq({"nil", "error"}) /\ Len(chan) <= 2
    BY EmptyChan DEF Init
  <1>3. created \subseteq 1..Statements /\ domains \in BOOLEAN
    BY DEF Init
  <1>4. /\ server \in [Servers -> {"off", "starting", "serving", "returned"}]
        /\ shut \in [Servers -> BOOLEAN] /\ active \in [Servers -> 0..MaxActive]
    BY DEF Init
  <1>5. /\ main \in Mains /\ result = "none" /\ step \in 1..(Statements + 1) /\ got \in 0..2
        /\ failed \subseteq Servers /\ late \subseteq Servers
    BY DEF Init, Mains
  <1>6. /\ dbOpen \in BOOLEAN /\ ctxDone \in BOOLEAN /\ done \in BOOLEAN
        /\ expired \in BOOLEAN /\ cut \in BOOLEAN /\ worker = "off"
    BY DEF Init
  <1> QED BY <1>1, <1>2, <1>3, <1>4, <1>5, <1>6 DEF TypeOK

\* What the end of the process leaves in every variable it resets.
LEMMA EndType ==
    ASSUME NEW r, End(r)
    PROVE  /\ main' \in Mains /\ result' = r /\ dbOpen' \in BOOLEAN
           /\ step' \in 1..(Statements + 1)
           /\ server' \in [Servers -> {"off", "starting", "serving", "returned"}]
           /\ shut' \in [Servers -> BOOLEAN] /\ active' \in [Servers -> 0..MaxActive]
           /\ chan' \in Seq({"nil", "error"}) /\ Len(chan') <= 2 /\ got' \in 0..2
           /\ ctxDone' \in BOOLEAN /\ done' \in BOOLEAN /\ expired' \in BOOLEAN
           /\ worker' \in {"off", "first", "waiting", "sweeping", "ended"}
  <1>1. chan' \in Seq({"nil", "error"}) /\ Len(chan') <= 2
    BY EmptyChan DEF End
  <1>2. /\ server' \in [Servers -> {"off", "starting", "serving", "returned"}]
        /\ shut' \in [Servers -> BOOLEAN] /\ active' \in [Servers -> 0..MaxActive]
    BY DEF End
  <1>3. main' \in Mains /\ step' \in 1..(Statements + 1) /\ got' \in 0..2
    BY DEF End, Goto, FirstStatement, Mains
  <1>4. /\ dbOpen' \in BOOLEAN /\ ctxDone' \in BOOLEAN /\ done' \in BOOLEAN
        /\ expired' \in BOOLEAN /\ result' = r
        /\ worker' \in {"off", "first", "waiting", "sweeping", "ended"}
    BY DEF End
  <1> QED BY <1>1, <1>2, <1>3, <1>4

LEMMA TypeStep == TypeOK /\ [Next]_vars => TypeOK'
  <1> SUFFICES ASSUME TypeOK, [Next]_vars PROVE TypeOK'
    OBVIOUS
  <1> USE DEF TypeOK, Mains, Servers, vars, startup, disk, serving, background, observers
  <1>1. CASE Load
    <2>1. CASE env = Consumed \/ LoadSucceeds(env)
      <3>1. cfg' \in [seeded : BOOLEAN, cleanupInterval : Int64]
        BY <1>1, <2>1, LoadedType DEF Load
      <3>2. /\ main' = "migrate" /\ dbOpen' = TRUE
            /\ UNCHANGED <<step, created, domains, result, server, shut, active, chan, got>>
            /\ UNCHANGED <<ctxDone, done, worker, expired, failed, cut, late>>
        BY <1>1, <2>1 DEF Load, Goto, serving
      <3> QED BY <3>1, <3>2
    <2>2. CASE ~(env = Consumed \/ LoadSucceeds(env))
      <3>1. End("error") /\ UNCHANGED <<env, cfg, disk, observers>>
        BY <1>1, <2>2 DEF Load
      <3> QED BY <3>1, EndType
    <2> QED BY <2>1, <2>2
  <1>2. CASE StartupFails
    BY <1>2 DEF StartupFails, Goto
  <1>3. CASE Migrate
    BY <1>3 DEF Migrate
  <1>4. CASE Migrated
    BY <1>4 DEF Migrated, Goto
  <1>5. CASE SeedDomain
    BY <1>5 DEF SeedDomain, Goto
  <1>6. CASE Launch
    BY <1>6 DEF Launch, Goto
  <1>7. ASSUME NEW s \in Servers, Listen(s) PROVE TypeOK'
    BY <1>7 DEF Listen
  <1>8. ASSUME NEW s \in Servers, BindFails(s) \/ AcceptFails(s) PROVE TypeOK'
    <2>1. PICK v \in {"nil", "error"} : Report(s, v)
      BY <1>8 DEF BindFails, AcceptFails
    <2> QED BY <2>1 DEF Report
  <1>9. ASSUME NEW s \in Servers, ServeReturns(s) PROVE TypeOK'
    BY <1>9 DEF ServeReturns, Report
  <1>10. ASSUME NEW s \in Servers, Begin(s) PROVE TypeOK'
    BY <1>10 DEF Begin
  <1>11. ASSUME NEW s \in Servers, Finish(s) PROVE TypeOK'
    <2>1. cut' \in BOOLEAN
      BY <1>11, Zenon DEF Finish, TypeOK
    <2> QED BY <1>11, <2>1 DEF Finish
  <1>12. CASE FirstRun
    BY <1>12 DEF FirstRun, Worker
  <1>13. CASE TickerPanics
    BY <1>13, EndType DEF TickerPanics
  <1>14. CASE TickerFires
    BY <1>14 DEF TickerFires, Worker
  <1>15. CASE Swept
    BY <1>15 DEF Swept, Worker
  <1>16. CASE WorkerEnds
    BY <1>16 DEF WorkerEnds, Worker
  <1>17. CASE Signal
    BY <1>17 DEF Signal
  <1>18. CASE Expire
    BY <1>18 DEF Expire
  <1>19. CASE SelectSignal
    BY <1>19 DEF SelectSignal, Goto, CallShutdown
  <1>20. CASE SelectResult
    BY <1>20 DEF SelectResult, Goto, CallShutdown
  <1>21. CASE SmtpStopped
    BY <1>21 DEF SmtpStopped, Goto, CallShutdown, Drained
  <1>22. CASE HttpStopped
    BY <1>22 DEF HttpStopped, Goto, Drained
  <1>23. CASE Overdue
    BY <1>23 DEF Overdue, Goto
  <1>24. CASE Collect
    BY <1>24 DEF Collect, Kept, Expected
  <1>25. CASE Collected
    BY <1>25 DEF Collected, Goto, Expected
  <1>26. CASE AbortSmtp
    BY <1>26 DEF AbortSmtp, Goto, CallShutdown
  <1>27. CASE AbortHttp
    BY <1>27 DEF AbortHttp, Goto
  <1>28. CASE Close
    <2>1. dbOpen' \in BOOLEAN
      BY <1>28, Zenon DEF Close
    <2>2. UNCHANGED <<startup, main, result, serving, background, observers>>
      BY <1>28 DEF Close
    <2> QED BY <2>1, <2>2 DEF serving
  <1>29. CASE Exit
    BY <1>29, EndType DEF Exit
  <1>30. CASE Crash
    BY <1>30, EndType DEF Crash
  <1>31. CASE Restart
    BY <1>31 DEF Restart, Goto
  <1>32. CASE UNCHANGED vars
    BY <1>32
  <1> QED
    BY <1>1, <1>2, <1>3, <1>4, <1>5, <1>6, <1>7, <1>8, <1>9, <1>10, <1>11, <1>12,
       <1>13, <1>14, <1>15, <1>16, <1>17, <1>18, <1>19, <1>20, <1>21, <1>22, <1>23, <1>24,
       <1>25, <1>26, <1>27, <1>28, <1>29, <1>30, <1>31, <1>32 DEF Next, Serve, Start, Stop

\* Every variable keeps its type in every start (Lifecycle.tla, main.go).
THEOREM TypeCorrect == Spec => []TypeOK
  BY TypeInit, TypeStep, PTL DEF Spec

-----------------------------------------------------------------------------
(* Startup.  Until the servers are launched nothing else runs, and the     *)
(* schema is complete once the migrations are behind.                      *)

Asleep ==
    /\ \A s \in Servers : server[s] = "off" /\ ~shut[s] /\ active[s] = 0
    /\ chan = <<>> /\ got = 0 /\ ~ctxDone

StartupInv ==
    /\ main \in {"load", "migrate", "seed", "routes", "exit"} => Asleep
    /\ 1..(step - 1) \subseteq created
    /\ main \in {"seed", "routes"} => created = 1..Statements
    /\ main = "routes" => (cfg.seeded => domains)
    /\ ServingReady

LEMMA StartupInit == Init => StartupInv
  BY DEF Init, StartupInv, Asleep, ServingReady, Servers

LEMMA StartupStep == TypeOK /\ StartupInv /\ [Next]_vars => StartupInv'
  <1> SUFFICES ASSUME TypeOK, StartupInv, [Next]_vars PROVE StartupInv'
    OBVIOUS
  <1> USE DEF TypeOK, StartupInv, Asleep, ServingReady, Servers, vars, startup, disk,
              serving, background, observers
  <1>1. CASE Load
    BY <1>1 DEF Load, End, Goto, FirstStatement
  <1>2. CASE StartupFails
    BY <1>2 DEF StartupFails, Goto
  <1>3. CASE Migrate
    BY <1>3 DEF Migrate
  <1>4. CASE Migrated
    <2>1. step - 1 = Statements
      BY <1>4 DEF Migrated
    <2>2. created = 1..Statements
      BY <2>1
    <2> QED BY <1>4, <2>2 DEF Migrated, Goto
  <1>5. CASE SeedDomain
    BY <1>5 DEF SeedDomain, Goto
  <1>6. CASE Launch
    BY <1>6 DEF Launch, Goto
  <1>7. ASSUME NEW s \in Servers, Listen(s) PROVE StartupInv'
    BY <1>7 DEF Listen
  <1>8. ASSUME NEW s \in Servers, BindFails(s) \/ AcceptFails(s) PROVE StartupInv'
    BY <1>8 DEF BindFails, AcceptFails, Report
  <1>9. ASSUME NEW s \in Servers, ServeReturns(s) PROVE StartupInv'
    BY <1>9 DEF ServeReturns, Report
  <1>10. ASSUME NEW s \in Servers, Begin(s) PROVE StartupInv'
    BY <1>10 DEF Begin
  <1>11. ASSUME NEW s \in Servers, Finish(s) PROVE StartupInv'
    BY <1>11 DEF Finish
  <1>12. CASE FirstRun
    BY <1>12 DEF FirstRun, Worker
  <1>13. CASE TickerPanics
    BY <1>13 DEF TickerPanics, End, Goto, FirstStatement
  <1>14. CASE TickerFires
    BY <1>14 DEF TickerFires, Worker
  <1>15. CASE Swept
    BY <1>15 DEF Swept, Worker
  <1>16. CASE WorkerEnds
    BY <1>16 DEF WorkerEnds, Worker
  <1>17. CASE Signal
    BY <1>17 DEF Signal
  <1>18. CASE Expire
    BY <1>18 DEF Expire
  <1>19. CASE SelectSignal
    BY <1>19 DEF SelectSignal, Goto, CallShutdown
  <1>20. CASE SelectResult
    BY <1>20 DEF SelectResult, Goto, CallShutdown
  <1>21. CASE SmtpStopped
    BY <1>21 DEF SmtpStopped, Goto, CallShutdown, Drained
  <1>22. CASE HttpStopped
    BY <1>22 DEF HttpStopped, Goto, Drained
  <1>23. CASE Overdue
    BY <1>23 DEF Overdue, Goto
  <1>24. CASE Collect
    BY <1>24 DEF Collect, Kept, Expected
  <1>25. CASE Collected
    BY <1>25 DEF Collected, Goto, Expected
  <1>26. CASE AbortSmtp
    BY <1>26 DEF AbortSmtp, Goto, CallShutdown
  <1>27. CASE AbortHttp
    BY <1>27 DEF AbortHttp, Goto
  <1>28. CASE Close
    BY <1>28 DEF Close
  <1>29. CASE Exit
    BY <1>29 DEF Exit, End, Goto, FirstStatement
  <1>30. CASE Crash
    BY <1>30 DEF Crash, End, Goto, FirstStatement
  <1>31. CASE Restart
    BY <1>31 DEF Restart, Goto
  <1>32. CASE UNCHANGED vars
    BY <1>32
  <1> QED
    BY <1>1, <1>2, <1>3, <1>4, <1>5, <1>6, <1>7, <1>8, <1>9, <1>10, <1>11, <1>12,
       <1>13, <1>14, <1>15, <1>16, <1>17, <1>18, <1>19, <1>20, <1>21, <1>22, <1>23, <1>24,
       <1>25, <1>26, <1>27, <1>28, <1>29, <1>30, <1>31, <1>32 DEF Next, Serve, Start, Stop

\* The program serves on a complete schema and, if one was configured, with a
\* domain, wherever earlier starts were cut short (sqlite.go:57-73, main.go:48).
THEOREM ServesReady == Spec => []ServingReady
  <1>1. TypeOK /\ StartupInv => ServingReady
    BY DEF StartupInv
  <1> QED BY <1>1, TypeInit, TypeStep, StartupInit, StartupStep, PTL DEF Spec

-----------------------------------------------------------------------------
(* Shutdown.  What the servers sent and what run() has received add up to  *)
(* the servers that have returned; an error is never between the two.      *)

Returned ==
    (IF server["smtp"] = "returned" THEN 1 ELSE 0)
        + (IF server["http"] = "returned" THEN 1 ELSE 0)

ErrorInChan == \E i \in 1..Len(chan) : chan[i] = "error"

ResultsInv ==
    /\ main \in {"load", "migrate", "seed", "routes", "select"} => result = "none"
    /\ main \in {"select", "stopSmtp", "stopHttp", "collect"} => Len(chan) + got = Returned
    /\ main \in {"select", "stopSmtp", "stopHttp"} => got = 0
    /\ main = "select" => /\ \A s \in Servers : ~shut[s]
                          /\ \A i \in 1..Len(chan) : chan[i] = "error"
    /\ main \in {"select", "stopSmtp", "stopHttp", "collect"} /\ failed # {} =>
           result = "error" \/ ErrorInChan

DrainInv ==
    /\ late \subseteq {"smtp"}
    /\ main \in {"select", "stopSmtp", "stopHttp", "collect"} =>
           \A s \in Servers : server[s] # "off"
    /\ main \in {"stopSmtp", "stopHttp", "collect"} => shut["smtp"]
    /\ main \in {"stopHttp", "collect"} =>
           shut["http"] /\ ("smtp" \notin late => active["smtp"] = 0)
    /\ main = "collect" => active["http"] = 0

OpenInv ==
    /\ main \notin {"load", "close", "exit"} => dbOpen
    /\ main \notin {"close", "exit"} => ~cut
    /\ main \in {"load", "migrate", "seed", "routes"} => failed = {}

CleanInv ==
    result = "clean" =>
        /\ main \in {"close", "exit"}
        /\ failed = {}
        /\ \A s \in Servers : server[s] \in {"returned", "off"}
        /\ late = {} => ~cut /\ \A s \in Servers : active[s] = 0

ShutdownInv == ResultsInv /\ DrainInv /\ OpenInv /\ CleanInv

LEMMA ShutdownInit == Init => ShutdownInv
  BY DEF Init, ShutdownInv, ResultsInv, DrainInv, OpenInv, CleanInv, Servers

LEMMA DrainStep ==
    TypeOK /\ StartupInv /\ DrainInv /\ [Next]_vars => DrainInv'
  <1> SUFFICES ASSUME TypeOK, StartupInv, DrainInv, [Next]_vars PROVE DrainInv'
    OBVIOUS
  <1> USE DEF TypeOK, StartupInv, Asleep, DrainInv, Servers,
              vars, startup, disk, serving, background, observers
  <1>1. CASE Load
    BY <1>1 DEF Load, End, Goto, FirstStatement
  <1>2. CASE StartupFails
    BY <1>2 DEF StartupFails, Goto
  <1>3. CASE Migrate
    BY <1>3 DEF Migrate
  <1>4. CASE Migrated
    BY <1>4 DEF Migrated, Goto
  <1>5. CASE SeedDomain
    BY <1>5 DEF SeedDomain, Goto
  <1>6. CASE Launch
    BY <1>6 DEF Launch, Goto
  <1>7. ASSUME NEW s \in Servers, Listen(s) PROVE DrainInv'
    BY <1>7 DEF Listen
  <1>8. ASSUME NEW s \in Servers, BindFails(s) \/ AcceptFails(s) PROVE DrainInv'
    <2>1. PICK v \in {"nil", "error"} : Report(s, v)
      BY <1>8 DEF BindFails, AcceptFails
    <2> QED BY <2>1 DEF Report
  <1>9. ASSUME NEW s \in Servers, ServeReturns(s) PROVE DrainInv'
    BY <1>9 DEF ServeReturns, Report
  <1>10. ASSUME NEW s \in Servers, Begin(s) PROVE DrainInv'
    BY <1>10 DEF Begin
  <1>11. ASSUME NEW s \in Servers, Finish(s) PROVE DrainInv'
    BY <1>11 DEF Finish
  <1>12. CASE FirstRun
    BY <1>12 DEF FirstRun, Worker
  <1>13. CASE TickerPanics
    BY <1>13 DEF TickerPanics, End, Goto, FirstStatement
  <1>14. CASE TickerFires
    BY <1>14 DEF TickerFires, Worker
  <1>15. CASE Swept
    BY <1>15 DEF Swept, Worker
  <1>16. CASE WorkerEnds
    BY <1>16 DEF WorkerEnds, Worker
  <1>17. CASE Signal
    BY <1>17 DEF Signal
  <1>18. CASE Expire
    BY <1>18 DEF Expire
  <1>19. CASE SelectSignal
    BY <1>19 DEF SelectSignal, Goto, CallShutdown
  <1>20. CASE SelectResult
    BY <1>20 DEF SelectResult, Goto, CallShutdown
  <1>21. CASE SmtpStopped
    BY <1>21 DEF SmtpStopped, Goto, CallShutdown, Drained
  <1>22. CASE HttpStopped
    BY <1>22 DEF HttpStopped, Goto, Drained
  <1>23. CASE Overdue
    BY <1>23 DEF Overdue, Goto
  <1>24. CASE Collect
    BY <1>24 DEF Collect, Kept, Expected
  <1>25. CASE Collected
    BY <1>25 DEF Collected, Goto, Expected
  <1>26. CASE AbortSmtp
    BY <1>26 DEF AbortSmtp, Goto, CallShutdown
  <1>27. CASE AbortHttp
    BY <1>27 DEF AbortHttp, Goto
  <1>28. CASE Close
    BY <1>28 DEF Close
  <1>29. CASE Exit
    BY <1>29 DEF Exit, End, Goto, FirstStatement
  <1>30. CASE Crash
    BY <1>30 DEF Crash, End, Goto, FirstStatement
  <1>31. CASE Restart
    BY <1>31 DEF Restart, Goto
  <1>32. CASE UNCHANGED vars
    BY <1>32
  <1> QED
    BY <1>1, <1>2, <1>3, <1>4, <1>5, <1>6, <1>7, <1>8, <1>9, <1>10, <1>11, <1>12,
       <1>13, <1>14, <1>15, <1>16, <1>17, <1>18, <1>19, <1>20, <1>21, <1>22, <1>23, <1>24,
       <1>25, <1>26, <1>27, <1>28, <1>29, <1>30, <1>31, <1>32 DEF Next, Serve, Start, Stop

LEMMA OpenStep ==
    TypeOK /\ StartupInv /\ OpenInv /\ [Next]_vars => OpenInv'
  <1> SUFFICES ASSUME TypeOK, StartupInv, OpenInv, [Next]_vars PROVE OpenInv'
    OBVIOUS
  <1> USE DEF TypeOK, StartupInv, Asleep, OpenInv, Servers,
              vars, startup, disk, serving, background, observers
  <1>1. CASE Load
    BY <1>1 DEF Load, End, Goto, FirstStatement
  <1>2. CASE StartupFails
    BY <1>2 DEF StartupFails, Goto
  <1>3. CASE Migrate
    BY <1>3 DEF Migrate
  <1>4. CASE Migrated
    BY <1>4 DEF Migrated, Goto
  <1>5. CASE SeedDomain
    BY <1>5 DEF SeedDomain, Goto
  <1>6. CASE Launch
    <2>1. Asleep /\ failed = {}
      BY <1>6 DEF Launch
    <2>2. Len(chan) = 0 /\ got = 0
      BY <2>1, EmptyChan
    <2>3. main' = "select" /\ server' = [s \in Servers |-> "starting"]
      BY <1>6 DEF Launch, Goto
    <2> QED BY <1>6, <2>1, <2>2, <2>3 DEF Launch
  <1>7. ASSUME NEW s \in Servers, Listen(s) PROVE OpenInv'
    BY <1>7 DEF Listen
  <1>8. ASSUME NEW s \in Servers, BindFails(s) \/ AcceptFails(s) PROVE OpenInv'
    BY <1>8 DEF BindFails, AcceptFails, Report
  <1>9. ASSUME NEW s \in Servers, ServeReturns(s) PROVE OpenInv'
    BY <1>9 DEF ServeReturns, Report
  <1>10. ASSUME NEW s \in Servers, Begin(s) PROVE OpenInv'
    BY <1>10 DEF Begin
  <1>11. ASSUME NEW s \in Servers, Finish(s) PROVE OpenInv'
    <2>1. active[s] > 0 /\ cut' \in {cut, cut \/ ~dbOpen}
      BY <1>11 DEF Finish
    <2>2. main # "load"
      BY <2>1
    <2>3. dbOpen /\ ~cut => ~cut'
      BY <2>1
    <2> QED BY <1>11, <2>2, <2>3 DEF Finish
  <1>12. CASE FirstRun
    BY <1>12 DEF FirstRun, Worker
  <1>13. CASE TickerPanics
    BY <1>13 DEF TickerPanics, End, Goto, FirstStatement
  <1>14. CASE TickerFires
    BY <1>14 DEF TickerFires, Worker
  <1>15. CASE Swept
    BY <1>15 DEF Swept, Worker
  <1>16. CASE WorkerEnds
    BY <1>16 DEF WorkerEnds, Worker
  <1>17. CASE Signal
    BY <1>17 DEF Signal
  <1>18. CASE Expire
    BY <1>18 DEF Expire
  <1>19. CASE SelectSignal
    BY <1>19 DEF SelectSignal, Goto, CallShutdown
  <1>20. CASE SelectResult
    BY <1>20 DEF SelectResult, Goto, CallShutdown
  <1>21. CASE SmtpStopped
    BY <1>21 DEF SmtpStopped, Goto, CallShutdown, Drained
  <1>22. CASE HttpStopped
    BY <1>22 DEF HttpStopped, Goto, Drained
  <1>23. CASE Overdue
    BY <1>23 DEF Overdue, Goto
  <1>24. CASE Collect
    BY <1>24 DEF Collect, Kept, Expected
  <1>25. CASE Collected
    BY <1>25 DEF Collected, Goto, Expected
  <1>26. CASE AbortSmtp
    BY <1>26 DEF AbortSmtp, Goto, CallShutdown
  <1>27. CASE AbortHttp
    BY <1>27 DEF AbortHttp, Goto
  <1>28. CASE Close
    BY <1>28 DEF Close
  <1>29. CASE Exit
    BY <1>29 DEF Exit, End, Goto, FirstStatement
  <1>30. CASE Crash
    BY <1>30 DEF Crash, End, Goto, FirstStatement
  <1>31. CASE Restart
    BY <1>31 DEF Restart, Goto
  <1>32. CASE UNCHANGED vars
    BY <1>32
  <1> QED
    BY <1>1, <1>2, <1>3, <1>4, <1>5, <1>6, <1>7, <1>8, <1>9, <1>10, <1>11, <1>12,
       <1>13, <1>14, <1>15, <1>16, <1>17, <1>18, <1>19, <1>20, <1>21, <1>22, <1>23, <1>24,
       <1>25, <1>26, <1>27, <1>28, <1>29, <1>30, <1>31, <1>32 DEF Next, Serve, Start, Stop

LEMMA ResultsStep ==
    TypeOK /\ StartupInv /\ OpenInv /\ ResultsInv /\ [Next]_vars => ResultsInv'
  <1> SUFFICES ASSUME TypeOK, StartupInv, OpenInv, ResultsInv, [Next]_vars PROVE ResultsInv'
    OBVIOUS
  <1> USE DEF TypeOK, StartupInv, Asleep, ResultsInv, OpenInv, Returned, ErrorInChan, Servers,
              vars, startup, disk, serving, background, observers
  <1>1. CASE Load
    BY <1>1 DEF Load, End, Goto, FirstStatement
  <1>2. CASE StartupFails
    BY <1>2 DEF StartupFails, Goto
  <1>3. CASE Migrate
    BY <1>3 DEF Migrate
  <1>4. CASE Migrated
    BY <1>4 DEF Migrated, Goto
  <1>5. CASE SeedDomain
    BY <1>5 DEF SeedDomain, Goto
  <1>6. CASE Launch
    <2>1. Asleep /\ failed = {}
      BY <1>6 DEF Launch
    <2>2. Len(chan) = 0 /\ got = 0
      BY <2>1, EmptyChan
    <2>3. main' = "select" /\ server' = [s \in Servers |-> "starting"]
      BY <1>6 DEF Launch, Goto
    <2> QED BY <1>6, <2>1, <2>2, <2>3 DEF Launch
  <1>7. ASSUME NEW s \in Servers, Listen(s) PROVE ResultsInv'
    BY <1>7 DEF Listen
  <1>8. ASSUME NEW s \in Servers, BindFails(s) \/ AcceptFails(s) PROVE ResultsInv'
    BY <1>8, SMTT(30) DEF BindFails, AcceptFails, Report
  <1>9. ASSUME NEW s \in Servers, ServeReturns(s) PROVE ResultsInv'
    BY <1>9, SMTT(30) DEF ServeReturns, Report
  <1>10. ASSUME NEW s \in Servers, Begin(s) PROVE ResultsInv'
    BY <1>10 DEF Begin
  <1>11. ASSUME NEW s \in Servers, Finish(s) PROVE ResultsInv'
    <2>1. active[s] > 0 /\ cut' \in {cut, cut \/ ~dbOpen}
      BY <1>11 DEF Finish
    <2>2. main # "load"
      BY <2>1
    <2>3. dbOpen /\ ~cut => ~cut'
      BY <2>1
    <2> QED BY <1>11, <2>2, <2>3 DEF Finish
  <1>12. CASE FirstRun
    BY <1>12 DEF FirstRun, Worker
  <1>13. CASE TickerPanics
    BY <1>13 DEF TickerPanics, End, Goto, FirstStatement
  <1>14. CASE TickerFires
    BY <1>14 DEF TickerFires, Worker
  <1>15. CASE Swept
    BY <1>15 DEF Swept, Worker
  <1>16. CASE WorkerEnds
    BY <1>16 DEF WorkerEnds, Worker
  <1>17. CASE Signal
    BY <1>17 DEF Signal
  <1>18. CASE Expire
    BY <1>18 DEF Expire
  <1>19. CASE SelectSignal
    BY <1>19 DEF SelectSignal, Goto, CallShutdown
  <1>20. CASE SelectResult
    BY <1>20 DEF SelectResult, Goto, CallShutdown
  <1>21. CASE SmtpStopped
    BY <1>21 DEF SmtpStopped, Goto, CallShutdown, Drained
  <1>22. CASE HttpStopped
    BY <1>22 DEF HttpStopped, Goto, Drained
  <1>23. CASE Overdue
    BY <1>23 DEF Overdue, Goto
  <1>24. CASE Collect
    BY <1>24 DEF Collect, Kept, Expected
  <1>25. CASE Collected
    BY <1>25 DEF Collected, Goto, Expected
  <1>26. CASE AbortSmtp
    BY <1>26 DEF AbortSmtp, Goto, CallShutdown
  <1>27. CASE AbortHttp
    BY <1>27 DEF AbortHttp, Goto
  <1>28. CASE Close
    BY <1>28 DEF Close
  <1>29. CASE Exit
    BY <1>29 DEF Exit, End, Goto, FirstStatement
  <1>30. CASE Crash
    BY <1>30 DEF Crash, End, Goto, FirstStatement
  <1>31. CASE Restart
    BY <1>31 DEF Restart, Goto
  <1>32. CASE UNCHANGED vars
    BY <1>32
  <1> QED
    BY <1>1, <1>2, <1>3, <1>4, <1>5, <1>6, <1>7, <1>8, <1>9, <1>10, <1>11, <1>12,
       <1>13, <1>14, <1>15, <1>16, <1>17, <1>18, <1>19, <1>20, <1>21, <1>22, <1>23, <1>24,
       <1>25, <1>26, <1>27, <1>28, <1>29, <1>30, <1>31, <1>32 DEF Next, Serve, Start, Stop

LEMMA CleanStep ==
    TypeOK /\ ShutdownInv /\ [Next]_vars => CleanInv'
  <1> SUFFICES ASSUME TypeOK, ShutdownInv, [Next]_vars PROVE CleanInv'
    OBVIOUS
  <1> USE DEF TypeOK, ShutdownInv, ResultsInv, DrainInv, OpenInv, CleanInv, Returned,
              ErrorInChan, Servers,
              vars, startup, disk, serving, background, observers
  <1>1. CASE Load
    BY <1>1 DEF Load, End, Goto, FirstStatement
  <1>2. CASE StartupFails
    BY <1>2 DEF StartupFails, Goto
  <1>3. CASE Migrate
    BY <1>3 DEF Migrate
  <1>4. CASE Migrated
    BY <1>4 DEF Migrated, Goto
  <1>5. CASE SeedDomain
    BY <1>5 DEF SeedDomain, Goto
  <1>6. CASE Launch
    BY <1>6 DEF Launch, Goto
  <1>7. ASSUME NEW s \in Servers, Listen(s) PROVE CleanInv'
    BY <1>7 DEF Listen
  <1>8. ASSUME NEW s \in Servers, BindFails(s) \/ AcceptFails(s) PROVE CleanInv'
    BY <1>8 DEF BindFails, AcceptFails, Report
  <1>9. ASSUME NEW s \in Servers, ServeReturns(s) PROVE CleanInv'
    BY <1>9 DEF ServeReturns, Report
  <1>10. ASSUME NEW s \in Servers, Begin(s) PROVE CleanInv'
    BY <1>10 DEF Begin
  <1>11. ASSUME NEW s \in Servers, Finish(s) PROVE CleanInv'
    BY <1>11 DEF Finish
  <1>12. CASE FirstRun
    BY <1>12 DEF FirstRun, Worker
  <1>13. CASE TickerPanics
    BY <1>13 DEF TickerPanics, End, Goto, FirstStatement
  <1>14. CASE TickerFires
    BY <1>14 DEF TickerFires, Worker
  <1>15. CASE Swept
    BY <1>15 DEF Swept, Worker
  <1>16. CASE WorkerEnds
    BY <1>16 DEF WorkerEnds, Worker
  <1>17. CASE Signal
    BY <1>17 DEF Signal
  <1>18. CASE Expire
    BY <1>18 DEF Expire
  <1>19. CASE SelectSignal
    BY <1>19 DEF SelectSignal, Goto, CallShutdown
  <1>20. CASE SelectResult
    BY <1>20 DEF SelectResult, Goto, CallShutdown
  <1>21. CASE SmtpStopped
    BY <1>21 DEF SmtpStopped, Goto, CallShutdown, Drained
  <1>22. CASE HttpStopped
    BY <1>22 DEF HttpStopped, Goto, Drained
  <1>23. CASE Overdue
    BY <1>23 DEF Overdue, Goto
  <1>24. CASE Collect
    BY <1>24 DEF Collect, Kept, Expected
  <1>25. CASE Collected
    BY <1>25 DEF Collected, Goto, Expected
  <1>26. CASE AbortSmtp
    BY <1>26 DEF AbortSmtp, Goto, CallShutdown
  <1>27. CASE AbortHttp
    BY <1>27 DEF AbortHttp, Goto
  <1>28. CASE Close
    BY <1>28 DEF Close
  <1>29. CASE Exit
    BY <1>29 DEF Exit, End, Goto, FirstStatement
  <1>30. CASE Crash
    BY <1>30 DEF Crash, End, Goto, FirstStatement
  <1>31. CASE Restart
    BY <1>31 DEF Restart, Goto
  <1>32. CASE UNCHANGED vars
    BY <1>32
  <1> QED
    BY <1>1, <1>2, <1>3, <1>4, <1>5, <1>6, <1>7, <1>8, <1>9, <1>10, <1>11, <1>12,
       <1>13, <1>14, <1>15, <1>16, <1>17, <1>18, <1>19, <1>20, <1>21, <1>22, <1>23, <1>24,
       <1>25, <1>26, <1>27, <1>28, <1>29, <1>30, <1>31, <1>32 DEF Next, Serve, Start, Stop

\* Exit status 0 means that both servers have returned and, if neither began to
\* listen after its Shutdown, that nobody was cut off and no handler met a closed
\* database (main.go:108-128).
THEOREM CleanServed == Spec => []CleanMeansServed
  <1>1. TypeOK /\ StartupInv /\ ShutdownInv /\ [Next]_vars => ShutdownInv'
    BY DrainStep, OpenStep, ResultsStep, CleanStep DEF ShutdownInv
  <1>2. ShutdownInv => CleanMeansServed
    BY DEF ShutdownInv, CleanInv, CleanMeansServed
  <1> QED
    BY <1>1, <1>2, TypeInit, TypeStep, StartupInit, StartupStep, ShutdownInit, PTL DEF Spec

\* Exit status 0 means that no server reported an error, neither before nor during
\* the shutdown (main.go:101-105, 119-127).
THEOREM FailuresReported == Spec => []FailureReported
  <1>1. TypeOK /\ StartupInv /\ ShutdownInv /\ [Next]_vars => ShutdownInv'
    BY DrainStep, OpenStep, ResultsStep, CleanStep DEF ShutdownInv
  <1>2. ShutdownInv => FailureReported
    BY DEF ShutdownInv, CleanInv, FailureReported
  <1> QED
    BY <1>1, <1>2, TypeInit, TypeStep, StartupInit, StartupStep, ShutdownInit, PTL DEF Spec

-----------------------------------------------------------------------------
(* Progress.  In every state of the shutdown something can happen that     *)
(* nobody outside has to do, and each such step leads to a later wait.     *)

IInv == TypeOK /\ StartupInv /\ ShutdownInv

LEMMA IInvAlways == Spec => []IInv
  <1>1. Init => IInv
    BY TypeInit, StartupInit, ShutdownInit DEF IInv
  <1>2. IInv /\ [Next]_vars => IInv'
    BY TypeStep, StartupStep, DrainStep, OpenStep, ResultsStep, CleanStep
    DEF IInv, ShutdownInv
  <1> QED BY <1>1, <1>2, PTL DEF Spec

\* A failure that run() has not met yet is in the channel.
LEMMA SelectWakes == IInv /\ main = "select" /\ failed # {} => chan # <<>>
  <1> SUFFICES ASSUME IInv, main = "select", failed # {} PROVE chan # <<>>
    OBVIOUS
  <1>1. result = "none" /\ ErrorInChan
    BY DEF IInv, ShutdownInv, ResultsInv
  <1> QED BY <1>1, EmptyChan DEF ErrorInChan

\* While run() still waits for a result, some server has it to return.
LEMMA ResultToCome ==
    IInv /\ main = "collect" /\ chan = <<>> /\ got # Expected =>
        \E s \in Servers : server[s] \in {"starting", "serving"} /\ shut[s] /\ Len(chan) = 0
  <1> SUFFICES ASSUME IInv, main = "collect", chan = <<>>, got # Expected
               PROVE  \E s \in Servers :
                          server[s] \in {"starting", "serving"} /\ shut[s] /\ Len(chan) = 0
    OBVIOUS
  <1>1. Len(chan) = 0 /\ got \in 0..1
    BY EmptyChan DEF IInv, TypeOK, Expected
  <1>2. got = Returned
    BY <1>1 DEF IInv, TypeOK, ShutdownInv, ResultsInv
  <1>3. \E s \in Servers : server[s] # "returned"
    BY <1>1, <1>2 DEF Returned, Servers
  <1>4. \A s \in Servers : shut[s] /\ server[s] # "off"
    BY DEF IInv, ShutdownInv, DrainInv, Servers
  <1> QED BY <1>1, <1>3, <1>4 DEF IInv, TypeOK

\* No client and no other missing result can hold up the end of the process: in every
\* state of a shutdown run(), the deadline or a server can move, but where the final
\* loop waits for an SMTP server that began to listen too late (main.go:97-128).
THEOREM NeverStuck == Spec => []ShutdownNeverStuck
  <1>1. IInv => ShutdownNeverStuck
    <2> SUFFICES ASSUME IInv, ctxDone \/ failed # {}, main # "exit"
                 PROVE  \/ CanStop \/ CanExpire \/ \E s \in Servers : CanServe(s)
                        \/ main = "collect" /\ server["smtp"] = "serving" /\ late = {"smtp"}
      BY DEF ShutdownNeverStuck
    <2>1. main \notin {"load", "migrate", "seed", "routes"}
      BY DEF IInv, StartupInv, Asleep, ShutdownInv, OpenInv
    <2>2. CASE main = "select"
      BY <2>2, SelectWakes DEF CanStop
    <2>3. CASE main \in {"stopSmtp", "stopHttp", "abortSmtp", "abortHttp"}
      BY <2>3 DEF CanStop, CanExpire, IInv, TypeOK
    <2>4. CASE main = "collect" /\ (chan # <<>> \/ got = Expected)
      BY <2>4 DEF CanStop
    <2>5. CASE main = "collect" /\ chan = <<>> /\ got # Expected
      <3>1. PICK s \in Servers :
                server[s] \in {"starting", "serving"} /\ shut[s] /\ Len(chan) = 0
        BY <2>5, ResultToCome
      <3>2. CASE server[s] = "starting" \/ s \notin late
        BY <3>1, <3>2 DEF CanServe
      <3>3. CASE server[s] = "serving" /\ s \in late
        BY <2>5, <3>3 DEF IInv, ShutdownInv, DrainInv
      <3> QED BY <3>1, <3>2, <3>3
    <2>6. CASE main = "close"
      BY <2>6 DEF CanStop
    <2> QED BY <2>1, <2>2, <2>3, <2>4, <2>5, <2>6 DEF IInv, TypeOK, Mains
  <1> QED BY <1>1, IInvAlways, PTL

\* What the rest of the program does while run() waits.
LEMMA Meanwhile ==
    ASSUME TypeOK, [Next]_vars, ~Stop, main' # "exit",
           main \in {"select", "stopSmtp", "stopHttp", "collect", "abortSmtp", "abortHttp",
                     "close"}
    PROVE  /\ main' = main /\ got' = got /\ dbOpen' = dbOpen
           /\ ctxDone => ctxDone'
           /\ expired => expired'
           /\ chan # <<>> => chan' # <<>>
           /\ \A s \in Servers : server'[s] = server[s] \/ server'[s] = "serving" \/ chan' # <<>>
  <1> USE DEF TypeOK, vars, startup, disk, serving, background, observers
  <1>1. CASE Start \/ StartupFails \/ Restart
    BY <1>1 DEF Start, Load, Migrate, Migrated, SeedDomain, Launch, StartupFails, Restart
  <1>2. ASSUME NEW s \in Servers, BindFails(s) \/ AcceptFails(s) \/ ServeReturns(s)
        PROVE  UNCHANGED <<main, got, dbOpen, ctxDone, expired>> /\ chan' # <<>>
    <2>1. PICK v \in {"nil", "error"} : Report(s, v)
      BY <1>2 DEF BindFails, AcceptFails, ServeReturns
    <2>2. chan' = Append(chan, v)
      BY <2>1 DEF Report
    <2> QED BY <2>1, <2>2 DEF Report
  <1>3. ASSUME NEW s \in Servers, Listen(s) \/ Begin(s) \/ Finish(s)
        PROVE  /\ UNCHANGED <<main, got, dbOpen, ctxDone, expired, chan>>
               /\ \A t \in Servers : server'[t] = server[t] \/ server'[t] = "serving"
    BY <1>3 DEF Listen, Begin, Finish
  <1>4. CASE FirstRun \/ TickerFires \/ Swept \/ WorkerEnds \/ Signal \/ Expire
    BY <1>4 DEF FirstRun, TickerFires, Swept, WorkerEnds, Worker, Signal, Expire
  <1>5. CASE TickerPanics \/ Crash
    BY <1>5 DEF TickerPanics, Crash, End, Goto
  <1>6. CASE UNCHANGED vars
    BY <1>6
  <1> QED BY <1>1, <1>2, <1>3, <1>4, <1>5, <1>6 DEF Next, Serve

\* What the fairness of FairSpec comes to, with each ENABLED written out: run() does
\* not wait for ever once what it waits for has come, the deadline comes, and a server
\* that can get ready, fail or return does one of these.
Scheduling(s) == []<>~CanServe(s) \/ []<><<Serve(s)>>_vars

WaitsEnd ==
    /\ []<>~CanStop \/ []<><<Stop>>_vars
    /\ []<>~CanExpire \/ []<><<Expire>>_vars
    /\ \A s \in Servers : Scheduling(s)

\* The three parts of WaitsEnd, as facts about one wait each.
LEMMA Scheduled ==
    ASSUME WaitsEnd
    PROVE  /\ []<>~CanStop \/ []<><<Stop>>_vars
           /\ []<>~CanExpire \/ []<><<Expire>>_vars
           /\ \A s \in Servers : Scheduling(s)
  BY PTL DEF WaitsEnd

LEMMA SelectEnds ==
    Spec /\ WaitsEnd =>
        (main = "select" /\ (ctxDone \/ chan # <<>>)
             ~> main \in {"stopSmtp", "abortSmtp", "exit"})
  <1> DEFINE P == main = "select" /\ (ctxDone \/ chan # <<>>)
             Q == main \in {"stopSmtp", "abortSmtp", "exit"}
  <1>1. P => CanStop
    BY DEF CanStop
  <1>2. IInv /\ P /\ [Next]_vars /\ ~Q' => P' /\ ~Stop
    <2> SUFFICES ASSUME IInv, P, [Next]_vars, ~Q' PROVE P' /\ ~Stop
      OBVIOUS
    <2>1. ~Stop
      BY DEF Stop, SelectSignal, SelectResult, SmtpStopped, HttpStopped, Overdue, Collect,
             Collected, AbortSmtp, AbortHttp, Close, Exit, End, Goto
    <2> QED BY <2>1, Meanwhile DEF IInv
  <1> HIDE DEF P, Q
  <1>3. Spec /\ WaitsEnd => (P ~> Q)
    BY <1>1, <1>2, Scheduled, IInvAlways, PTL DEF Spec
  <1> QED BY <1>3 DEF P, Q

\* Where a Shutdown leads, whether it is over or overdue.
After(m) ==
    CASE m = "stopSmtp"  -> {"stopHttp", "close", "exit"}
      [] m = "stopHttp"  -> {"collect", "close", "exit"}
      [] m = "abortSmtp" -> {"abortHttp", "exit"}
      [] m = "abortHttp" -> {"close", "exit"}

Leaves(m) == main = m ~> main \in After(m)

\* A Shutdown ends with its clients, or with the deadline.
LEMMA ShutdownReturns ==
    ASSUME NEW m \in {"stopSmtp", "stopHttp", "abortSmtp", "abortHttp"}
    PROVE  Spec /\ WaitsEnd => Leaves(m)
  <1> DEFINE P == main = m /\ ~expired
             E == main = m /\ expired
             Q == main \in After(m)
  <1>1. (P => CanExpire) /\ (E => CanStop)
    BY DEF CanExpire, CanStop
  <1>2. IInv /\ main = m /\ [Next]_vars /\ ~Q' => main' = m /\ ~Stop /\ (expired => expired')
    <2> SUFFICES ASSUME IInv, main = m, [Next]_vars, ~Q'
                 PROVE  main' = m /\ ~Stop /\ (expired => expired')
      OBVIOUS
    <2>1. ~Stop
      BY DEF After, Stop, SelectSignal, SelectResult, SmtpStopped, HttpStopped, Overdue, Collect,
             Collected, AbortSmtp, AbortHttp, Close, Exit, End, Goto
    <2>2. main' # "exit"
      BY DEF After
    <2> QED BY <2>1, <2>2, Meanwhile DEF IInv
  <1>3. P /\ Expire => E'
    BY DEF Expire
  <1>4. (main = m <=> P \/ E)
    BY DEF IInv, TypeOK
  <1>5. (P \/ E)' <=> (main = m)'
    OBVIOUS
  <1>6. E <=> main = m /\ expired
    OBVIOUS
  <1>7. IInv /\ P /\ [Next]_vars /\ ~Q' => (P \/ E)' /\ ~Stop
    BY <1>2
  <1>8. IInv /\ E /\ [Next]_vars /\ ~Q' => E' /\ ~Stop
    BY <1>2
  <1> HIDE DEF P, E, Q
  <1>9. Spec /\ WaitsEnd => (P \/ E ~> Q)
    BY <1>1, <1>3, <1>7, <1>8, Scheduled, IInvAlways, PTL DEF Spec
  <1>10. Spec /\ WaitsEnd => (main = m ~> Q)
    BY <1>4, <1>9, PTL
  <1> QED BY <1>10 DEF Q, Leaves

\* In the final loop, after n results.
Loop(n) == main = "collect" /\ got = n

\* The end of the process, or the one thing that may keep it from ending.
Over == main = "exit" \/ "smtp" \in late

Arrives(n, s) == Loop(n) /\ server[s] # "returned" ~> Over \/ (Loop(n) /\ chan # <<>>)
Receives(n)   == Loop(n) ~> Over \/ Loop(n + 1)

\* The result of each server comes, unless it begins to listen now.
LEMMA ResultArrives ==
    ASSUME NEW n \in 0..1, NEW s \in Servers
    PROVE  Spec /\ WaitsEnd => Arrives(n, s)
  <1> DEFINE P == Loop(n) /\ server[s] # "returned" /\ chan = <<>> /\ ~Over
             C == Loop(n) /\ chan # <<>>
             X == Over
  <1>1. IInv /\ P => CanServe(s) /\ shut[s]
    <2> SUFFICES ASSUME IInv, P PROVE CanServe(s) /\ shut[s]
      OBVIOUS
    <2>1. shut[s] /\ server[s] # "off" /\ s \notin late
      BY DEF Loop, Over, IInv, ShutdownInv, DrainInv, Servers
    <2> QED BY <2>1, EmptyChan DEF IInv, TypeOK, CanServe
  <1>2. IInv /\ P /\ [Next]_vars => (P \/ C \/ X)'
    <2> SUFFICES ASSUME IInv, P, [Next]_vars, ~X', ~C' PROVE P'
      OBVIOUS
    <2>1. ~Stop
      BY DEF Loop, Expected, Stop, SelectSignal, SelectResult, SmtpStopped, HttpStopped, Overdue,
             Collect, Collected, AbortSmtp, AbortHttp, Close, Exit
    <2>2. main' = main /\ got' = got
      BY <2>1, Meanwhile DEF Loop, IInv, Over
    <2>3. server'[s] # "returned"
      BY <2>1, <2>2, Meanwhile DEF Loop, IInv, Over
    <2> QED BY <2>2, <2>3 DEF Loop
  <1>3. IInv /\ P /\ Serve(s) => (C \/ X)'
    <2> SUFFICES ASSUME IInv, P, Serve(s) PROVE (C \/ X)'
      OBVIOUS
    <2>1. ASSUME NEW v \in {"nil", "error"}, Report(s, v) PROVE C'
      <3>1. chan' = Append(chan, v) /\ UNCHANGED <<main, got>>
        BY <2>1 DEF Report
      <3> QED BY <3>1 DEF Loop, IInv, TypeOK
    <2>2. ASSUME Listen(s) PROVE X'
      BY <1>1, <2>2 DEF Listen, Over, Servers
    <2> QED BY <2>1, <2>2 DEF Serve, BindFails, ServeReturns
  <1>4. ASSUME WaitsEnd PROVE []<>~CanServe(s) \/ []<><<Serve(s)>>_vars
    BY <1>4, Scheduled DEF Scheduling
  <1>5. Loop(n) /\ server[s] # "returned" => P \/ C \/ X
    OBVIOUS
  <1> HIDE DEF P, C, X
  <1>6. Spec /\ WaitsEnd => (P ~> C \/ X)
    BY <1>1, <1>2, <1>3, <1>4, IInvAlways, PTL DEF Spec
  <1>7. Spec /\ WaitsEnd => (P \/ C \/ X ~> X \/ C)
    BY <1>6, PTL
  <1> QED BY <1>5, <1>7, PTL DEF P, C, X, Arrives

\* Each receive of the final loop ends.
LEMMA ResultReceived ==
    ASSUME NEW n \in 0..1
    PROVE  Spec /\ WaitsEnd => Receives(n)
  <1> DEFINE S == Loop(n) /\ server["smtp"] # "returned"
             H == Loop(n) /\ server["http"] # "returned"
             C == Loop(n) /\ chan # <<>>
             N == Loop(n + 1)
             X == Over
  <1>1. IInv /\ Loop(n) => S \/ H \/ C
    <2> SUFFICES ASSUME IInv, Loop(n), chan = <<>> PROVE S \/ H
      OBVIOUS
    <2> QED BY ResultToCome DEF Loop, Expected, Servers
  <1>2. C => CanStop
    BY DEF Loop, CanStop
  <1>3. IInv /\ C /\ Stop => N'
    <2> SUFFICES ASSUME IInv, C, Stop PROVE N'
      OBVIOUS
    <2>1. Collect
      BY DEF Loop, Expected, Stop, SelectSignal, SelectResult, SmtpStopped, HttpStopped, Overdue,
             Collected, AbortSmtp, AbortHttp, Close, Exit
    <2> QED BY <2>1 DEF Loop, Collect
  <1>4. IInv /\ C /\ [Next]_vars => (C \/ N \/ X)'
    <2> SUFFICES ASSUME IInv, C, [Next]_vars, ~X', ~N' PROVE C'
      OBVIOUS
    <2>1. ~Stop
      BY <1>3
    <2> QED BY <2>1, Meanwhile DEF Loop, IInv, Over
  <1>5. Spec /\ WaitsEnd => Arrives(n, "smtp") /\ Arrives(n, "http")
    BY ResultArrives DEF Servers
  <1>6. Arrives(n, "smtp") /\ Arrives(n, "http") <=> (S ~> X \/ C) /\ (H ~> X \/ C)
    BY DEF Arrives
  <1>7. Receives(n) <=> (Loop(n) ~> X \/ N)
    BY DEF Receives
  <1> HIDE DEF S, H, C, N, X
  <1>8. Spec /\ WaitsEnd => (C ~> X \/ N)
    BY <1>2, <1>3, <1>4, Scheduled, IInvAlways, PTL DEF Spec
  <1> QED BY <1>1, <1>5, <1>6, <1>7, <1>8, IInvAlways, PTL DEF Spec

LEMMA CollectEnds == Spec /\ WaitsEnd => (main = "collect" ~> main = "close" \/ Over)
  <1> DEFINE Q == main = "close" \/ Over
             L0 == Loop(0)
             L1 == Loop(1)
             L2 == Loop(2)
             X == Over
  <1>1. L2 => CanStop
    BY DEF Loop, CanStop, Expected
  <1>2. IInv /\ L2 /\ [Next]_vars /\ ~Q' => L2' /\ ~Stop
    <2> SUFFICES ASSUME IInv, L2, [Next]_vars, ~Q' PROVE L2' /\ ~Stop
      OBVIOUS
    <2>1. ~Stop
      BY DEF Loop, Expected, Stop, SelectSignal, SelectResult, SmtpStopped, HttpStopped, Overdue,
             Collect, Collected, AbortSmtp, AbortHttp, Close, Exit, End, Goto, Over
    <2> QED BY <2>1, Meanwhile DEF Loop, IInv, Over
  <1>3. Spec /\ WaitsEnd => Receives(0) /\ Receives(1)
    BY ResultReceived
  <1>4. Receives(0) /\ Receives(1) <=> (L0 ~> X \/ Loop(0 + 1)) /\ (L1 ~> X \/ Loop(1 + 1))
    BY DEF Receives
  <1>5. IInv /\ main = "collect" => L0 \/ L1 \/ L2
    BY DEF Loop, IInv, TypeOK
  <1>6. (X => Q) /\ (Loop(0 + 1) => L1) /\ (Loop(1 + 1) => L2)
    OBVIOUS
  <1> HIDE DEF L0, L1, L2, Q, X
  <1>7. Spec /\ WaitsEnd => (L2 ~> Q)
    BY <1>1, <1>2, Scheduled, IInvAlways, PTL DEF Spec
  <1>8. Spec /\ WaitsEnd => (main = "collect" ~> Q)
    BY <1>3, <1>4, <1>5, <1>6, <1>7, IInvAlways, PTL
  <1> QED BY <1>8 DEF Q

LEMMA CloseEnds == Spec /\ WaitsEnd => (main = "close" ~> main = "exit")
  <1> DEFINE O == main = "close" /\ dbOpen
             S == main = "close" /\ ~dbOpen
             X == main = "exit"
  <1>1. (O => CanStop) /\ (S => CanStop)
    BY DEF CanStop
  <1>2. IInv /\ O /\ [Next]_vars => ((O \/ S \/ X)' /\ (Stop => ~O'))
    <2> SUFFICES ASSUME IInv, O, [Next]_vars, ~X' PROVE (O \/ S)' /\ (Stop => ~O')
      OBVIOUS
    <2>1. CASE Stop
      <3>1. Close
        BY <2>1 DEF Stop, SelectSignal, SelectResult, SmtpStopped, HttpStopped, Overdue, Collect,
                    Collected, AbortSmtp, AbortHttp, Exit
      <3> QED BY <3>1 DEF Close
    <2>2. CASE ~Stop
      BY <2>2, Meanwhile DEF IInv
    <2> QED BY <2>1, <2>2
  <1>3. IInv /\ S /\ [Next]_vars /\ ~X' => S' /\ ~Stop
    <2> SUFFICES ASSUME IInv, S, [Next]_vars, ~X' PROVE S' /\ ~Stop
      OBVIOUS
    <2>1. ~Stop
      BY DEF Stop, SelectSignal, SelectResult, SmtpStopped, HttpStopped, Overdue, Collect,
             Collected, AbortSmtp, AbortHttp, Close, Exit, End, Goto
    <2> QED BY <2>1, Meanwhile DEF IInv
  <1>4. IInv /\ main = "close" => O \/ S
    BY DEF IInv, TypeOK
  <1> HIDE DEF O, S, X
  <1>5. Spec /\ WaitsEnd => (O ~> S \/ X)
    BY <1>1, <1>2, Scheduled, IInvAlways, PTL DEF Spec
  <1>6. Spec /\ WaitsEnd => (S ~> X)
    BY <1>1, <1>3, Scheduled, IInvAlways, PTL DEF Spec
  <1>7. Spec /\ WaitsEnd => (main = "close" ~> X)
    BY <1>4, <1>5, <1>6, IInvAlways, PTL
  <1> QED BY <1>7 DEF X

\* If each wait ends once what it is for has come, which FairSpec ensures, a signal or
\* the failure of a server ends the process, whatever the clients, the worker and the
\* other server do meanwhile, unless the SMTP server begins to listen after its
\* Shutdown (main.go:97-128, 180-189).
THEOREM ShutdownCompletes == Spec /\ WaitsEnd => ShutdownEnds
  <1> DEFINE At(m) == main = m
             Done == Over
             Chosen == main = "select" /\ (ctxDone \/ chan # <<>>)
  <1>1. IInv /\ (ctxDone \/ failed # {}) =>
            \/ Chosen \/ At("stopSmtp") \/ At("stopHttp") \/ At("collect")
            \/ At("abortSmtp") \/ At("abortHttp") \/ At("close") \/ At("exit")
    <2> SUFFICES ASSUME IInv, ctxDone \/ failed # {}
                 PROVE  \/ Chosen \/ At("stopSmtp") \/ At("stopHttp") \/ At("collect")
                        \/ At("abortSmtp") \/ At("abortHttp") \/ At("close") \/ At("exit")
      OBVIOUS
    <2>1. main \notin {"load", "migrate", "seed", "routes"}
      BY DEF IInv, StartupInv, Asleep, ShutdownInv, OpenInv
    <2> QED BY <2>1, SelectWakes DEF IInv, TypeOK, Mains
  <1>2. Spec /\ WaitsEnd => (Chosen ~> main \in {"stopSmtp", "abortSmtp", "exit"})
    BY SelectEnds
  <1>3. main \in {"stopSmtp", "abortSmtp", "exit"} => At("stopSmtp") \/ At("abortSmtp") \/ At("exit")
    OBVIOUS
  <1>4. Spec /\ WaitsEnd => Leaves("stopSmtp") /\ Leaves("stopHttp")
                           /\ Leaves("abortSmtp") /\ Leaves("abortHttp")
    BY ShutdownReturns
  <1>5. /\ Leaves("stopSmtp")  <=> (At("stopSmtp") ~> main \in After("stopSmtp"))
        /\ Leaves("stopHttp")  <=> (At("stopHttp") ~> main \in After("stopHttp"))
        /\ Leaves("abortSmtp") <=> (At("abortSmtp") ~> main \in After("abortSmtp"))
        /\ Leaves("abortHttp") <=> (At("abortHttp") ~> main \in After("abortHttp"))
    BY DEF Leaves
  <1>6. /\ main \in After("stopSmtp")  => At("stopHttp") \/ At("close") \/ At("exit")
        /\ main \in After("stopHttp")  => At("collect") \/ At("close") \/ At("exit")
        /\ main \in After("abortSmtp") => At("abortHttp") \/ At("exit")
        /\ main \in After("abortHttp") => At("close") \/ At("exit")
    BY DEF After
  <1>7. Spec /\ WaitsEnd => (At("collect") ~> main = "close" \/ Over)
    BY CollectEnds
  <1>8. (main = "close" \/ Over => At("close") \/ Done) /\ (At("exit") => Done)
    BY DEF Over
  <1>9. Spec /\ WaitsEnd => (At("close") ~> At("exit"))
    BY CloseEnds
  <1>10. ShutdownEnds <=> ((ctxDone \/ failed # {}) ~> Done)
    BY DEF ShutdownEnds, Over
  <1> HIDE DEF At, Chosen, Done
  <1> QED
    BY <1>1, <1>2, <1>3, <1>4, <1>5, <1>6, <1>7, <1>8, <1>9, <1>10, IInvAlways, PTL
=============================================================================
