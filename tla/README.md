# Anonymous email service: TLA+ models, checks and proofs

The service gives a visitor a mailbox `local@domain` with a generated password,
receives mail for it over SMTP, and shows it on web pages; an administrator
switches domains on and off. It is one Go process (`src/cmd/server/main.go`)
with an SMTP server, an HTTP server and a cleanup goroutine over one SQLite
database. Paths below are relative to `src/`; `internal/` is dropped where it is
obvious.

To check a run: `tlc -config <run>.cfg <module>.tla`, with the module named in
`PROJECT.json`. To check the proofs: `tlapm <module>.tla` for `DomainGateProofs`,
`RegistrationProofs`, `SmtpDeliveryProofs`, `MailboxAccessProofs`,
`AdminRealmProofs`, `SessionLifeProofs`, `RateLimiterProofs`, `LifecycleProofs`.

## 1. Inventory

| Component | State | Operations | Talks to | What is hard | What makes it correct |
|---|---|---|---|---|---|
| Domain gate (`smtp/backend.go`, `smtp/domaincache.go`) | cache: domain, enabled, expiresAt | `domainAllowed` = `get`, SQL, `set` | domains table; called by `Session.Rcpt` | no lock is held from the read to the write of the cache | a cached or returned verdict is never staler than a bound; it converges |
| SMTP session (`smtp/session.go`) | sender, captured inbox | MAIL, RCPT, DATA, RSET, logout | gate, repository | the inbox is captured at RCPT and used at DATA; the answer can be lost | stored whole, in the right inbox, 250 only if stored |
| Repository (`repository/sqlite.go`, `migrations/`) | tables inboxes, emails, attachments, domains, sessions, settings | one method per statement or transaction | all others | one connection for everybody; failures in a transaction; cascades; interrupted migrations | rows never outlive their parents; no transaction waits for itself |
| Domain administration (`web/admin.go`) | domains table | add, toggle, seed at start | gate (through the table only) | read-then-write toggle; restarts | an admin's decision survives a restart |
| Admin realm (`web/admin.go`) | settings row, in-memory sessions, cookie | setup, login, page, logout | repository, bcrypt | check-then-write setup; sliding expiry against logout | logout is final; no session without a stored password |
| Registration (`web/auth_handlers.go`, `middleware.go`, `routes.go`) | inboxes | resolve domain, default domain, insert, read back | limiter, domains, gate | four statements with other requests in between | shown credentials work; accounts land only where offered |
| Mailbox (`web/handlers.go`, `middleware.go`, `auth_handlers.go`) | sessions, cookie, emails | login, logout, auth, list, view, attachment, delete | repository | statements by id alone after a check; late responses | own mail only; logout is final; expiry follows use |
| Cleanup worker (`worker/cleanup.go`) | ticker, done channel | two deletes per run; start, stop | repository, lifecycle | the first failing skips the second; nobody waits for it | expired rows go eventually |
| Rate limiter (`ratelimit/fixed_window.go`) | map of windows | `Allow` | registration, SMTP connections | clock read before the lock; window boundaries | bounded bursts, justified refusals, a true Retry-After |
| Configuration (`config/config.go`) | none after `Load` | `Load` | lifecycle | boundaries of each number, two sizes against each other, products in 64 bits | what is accepted can be run with |
| Lifecycle (`cmd/server/main.go`) | channel of results, context, deadline, pool | start, seed, serve, shut down | all | failures and signals at any moment; crashes inside the migrations | only a complete schema is served; status 0 means nobody was cut off and nothing failed; a shutdown ends, but for finding 4 |
| Passwords and tokens, client address, HTTP hardening, templates, data types | none, or read-only | pure functions | - | - | covered by the unit tests; not modelled (section 8) |

The hazards, each at its line with the properties aimed at it, are in
`PROJECT.json`.

## 2. Modules

One module per component, one action per handler step, where a step ends at
every SQL statement, lock or wait at which another goroutine can run. An `MC*`
module instantiates each for TLC, a `*Proofs` module holds its theorems.
`\* Variant:` definitions are plausible mistakes in the definition that follows
them; they are not part of the model and serve to show that a property notices.

- **DomainGate**: `LookupHit`/`LookupMiss` are `domainCache.get`, `Query` the
  statement, `Store` is `domainCache.set`, `Return` hands the verdict to
  `Session.Rcpt`. `AddDomain`, `ToggleRead`, `ToggleWrite` are the admin
  handlers, `Start` runs `seedDomain`, `Stop` loses the cache and all calls in
  progress. Time is relative: an entry has `left` units, a lookup in flight
  holds an answer of some `age`; the observer `since` is the time since a row
  last changed. `Latency` bounds how long a goroutine is between the statement
  and `set`; without such a bound the code bounds nothing.
- **SmtpDelivery**: `sess` is the `Session` of each connection, `tx` who holds
  the one database connection and what it has written. MAIL, RCPT (gate verdict,
  then `GetInboxByAddress`), DATA (parse, then `SaveInboundMessage` statement by
  statement), the answer, `Reset`. Beside it `CreateInbox`, `DeleteEmail`,
  `DeleteExpiredInboxes`, `Disconnect`, `Crash`, `Restart`. A sender retries
  until it is told 250 or 5xx; observers record which copies were told, lost or
  removed.
- **MailStore**: the abstract promise: messages appear whole, in an inbox with
  the address named, are accepted only after they have appeared, and go only by
  deletion or expiry. `SmtpDelivery!ImplementsMailStore` is the refinement.
- **Registration** extends DomainGate with `HandleRegister`, `createInbox` and
  the RCPT command, so that accounts and mail see the same domains and cache.
  Observers record which domains were enabled while a request ran (`offered`, `bare`),
  whose account was created while its domain was (`lawful`), and what a RCPT found
  when it began (`before`).
- **AccountBook**: the abstract promise of registration: an address is claimed by
  one visitor, for ever; a password is shown only to who holds an account, a
  refusal told only to who does not, and nobody gets an account after an answer.
  `Registration!ImplementsAccountBook` is the refinement: the accounts are the
  inboxes table, the answers the outcomes of the requests.
- **SessionLife**: the abstract promise of a session store: a token is drawn
  once, is live for one owner, and once ended is worth nothing for ever; logging
  out ends it. `ImplementsSessionLife` of AdminRealm (the map in memory) and of
  MailboxAccess (the table) are the two refinements.
- **AdminRealm**: setup and login read the hash, then bcrypt, then write or start
  a session; `validate`, `delete`, cookies with a Max-Age, restarts that lose
  the sessions. A password is named by who chose it.
- **MailboxAccess**: a request is a program counter over its statements
  (`auth`, `touch`, `handle`, `found`, `parts`, `reply`); what a response shows is
  recorded with whose inbox it came from, attachments included; inbound mail, the
  worker, lost responses and restarts run beside it.
- **RateLimiter**: `Allow` reads the clock, then `Admit` or `Refuse` under the
  lock with a time up to `Latency` old.
- **Config**: `Load` as functions of an environment, which maps each setting to
  unset, blank, a number or a kind of text: `Value` (the default or the text),
  `Accepted` (the parser of each setting), `Errors`, `LoadSucceeds`, `Loaded`.
  Products are taken in a two's complement range `-MaxInt-1..MaxInt`, which is a
  constant: with 127 in place of 2^63-1 small numbers overflow.
- **Lifecycle** extends Config with `run()`: `Load`, the migrations statement by
  statement, `SeedDomain`, `Launch`; the two servers' goroutines (`Listen`;
  `BindFails`, `AcceptFails` and `ServeReturns` send to `chan`, which is `serverErr`);
  `late` holds the server that began to listen after its `Shutdown`; connections
  and requests as counts, the worker and its ticker; `SelectSignal` and
  `SelectResult`, the two `Shutdown`s under one deadline, `Collect`, the abort path
  of `shutdownServers`, the deferred `Close`. `Crash` is possible at every step and
  `Restart` begins again on the disk that is left.

Mapping to lines: `PROJECT.json`, `map`.

## 3. Assumptions about what is not under `src/`

- go-smtp calls `Reset` after every DATA, runs one handler per connection, and
  does not cancel a running handler when the client goes away (the handlers use
  `context.Background()`).
- `Shutdown` of both servers closes the listeners it finds, waits until no connection or
  request is in progress and returns early only with the error of its context.
- The two differ when `Shutdown` comes first. net/http then returns from
  `ListenAndServe` at once with `ErrServerClosed`. go-smtp (v0.24.0) does not ask: its
  `Shutdown` closes the listeners that `Serve` has registered by then, and a `Serve`
  that comes later registers its listener and waits in `Accept` for good. `Listen` has
  this difference in its guard, and `late` what comes of it.
- A failed COMMIT leaves nothing behind and the connection free; SQLite's
  recovery rolls an open transaction back; AUTOINCREMENT never gives an id twice.
- `PRAGMA foreign_keys` holds on the one pooled connection for the process's life.
- `created_at` grows with the row id, so "oldest domain" is the smallest id.
- Tokens and generated passwords are never drawn twice; bcrypt compares exactly.
- The mailbox cookie's own Max-Age is left out of MailboxAccess: it is set on
  every response together with the row's expiry, and a browser that drops a
  cookie early only visits as nobody.

## 4. Runs

Each passing run also reports deadlock, except `RateLimiter`, whose clock stops at
`MaxClock`, a bound of the model and not of the code.

| Run | Question | Bounds, and why they are enough |
|---|---|---|
| SmtpDelivery | Stored whole, in the right inbox, accounted for; refines MailStore; does the one connection always come back; is every DATA answered? | 2 connections, 2 mails to one address (one with 2 attachments, one with none), 2 addresses, ids 1..3 so that an inbox can expire and its address be given anew with another id while a DATA is in flight; the sender of the mail with attachments may try twice, so that a duplicate can arise and be told from a single copy. 263,854 states |
| RegistrationAccounts | Does registration keep the AccountBook? Do shown accounts stand, on domains that were offered? Does a restart undo an admin? | 2 visitors, 1 local part so that they collide, 2 domains (the seed and another) so that a request can fall back onto another's, 1 admin; no SMTP. 282,205 states |
| RegistrationMail | Can mail reach a new account? Is any verdict staler than TTL + Latency? Does the cache converge? | 1 visitor, 1 domain, 2 RCPTs (one may overwrite the other's newer entry), 1 admin, TTL 2, Latency 1: an entry ages before it expires, and an answer before it is stored. The domains do not touch each other in the cache, so one is enough. 977,461 states |
| AdminRealmSafety | Logout, grants, setup | 2 operators, 2 concurrent requests, 2 tokens, TTL 2 (slide and expiry differ) |
| MailboxSessions | SessionLife, expiry, sweep | 1 account, 2 requests, 2 tokens, TTL 2. 477,336 states |
| MailboxMail | Own mail only, no dangling rows | 1 browser with 2 requests, 2 inboxes of which 1 expires, 2 emails and 1 attachment (the smallest in which an id can be reused or belong to another). 2,147,628 states |
| RateLimiter | Bursts, refusals, Retry-After | 2 clients, 2 goroutines, limit 2, window 2, clock to 4: three windows, admissions on both sides of each boundary, clock readings one unit late |
| Lifecycle | Is what `Load` accepts usable? Is only a complete schema served? What does status 0 mean? Can a shutdown always go on, and does it end? | every environment in which at most two settings deviate from unset (so that the two sizes that are compared both can), with 9 raw values each around every boundary; `MaxInt` 127, `Minute` 2, `Day` 3, `MB` 4: 64 days overflow and 20 do not; 3 migration statements, so that a start can die before, between and after; 2 connections per server. 149,881 states |
| RegistrationDisabled, RegistrationFallback, AdminRealmSetup, LifecycleSignal | what a document says and the code does not do: section 6 | smallest that reach it |

Symmetry is used only where values are interchangeable (connections, requests,
tokens, visitors, admins, limiter keys and callers, emails) and never in a run
with a liveness property.

A constant named as a bound: `MaxTries` (transactions started for each mail), `Ids`
(row ids; when they run out the INSERT fails, as a full disk would make it),
`MaxClock`, `MaxActive`, `Tokens`, `Emails`, `Parts` (used up, no more are created),
`Legacy` (inboxes that still carry an expiry from earlier versions of the program).

## 5. Liveness and fairness

- `EventuallyAgrees` (DomainGate, checked in Registration): time passes, and a goroutine that holds an
  answer comes to `set` (weak fairness; the Go scheduler is fair and the mutex is
  held for a map access only). Lookups and admins are owed nothing.
- `DataAnswered` (SmtpDelivery): a running handler takes its next step (weak);
  waiting for the connection is strongly fair, as `database/sql` queues the
  waiters and hands a returned connection to one of them. Clients, crashes and
  failures are owed nothing, so a statement may fail but need not.
- `ExpiredSwept` (MailboxAccess): the ticker fires (weak); the two DELETEs are
  strongly fair: they may fail, even often, but not every time they are tried.
- `ShutdownEnds` and, violated, `SignalEnds` (Lifecycle): `run()` takes its next step
  when it can, the deadline of `context.WithTimeout` passes, and a server's goroutine is
  scheduled: one that was started comes to listen or fails to, and one whose listener
  was closed returns (all weak; `Serve`). Nothing makes a server return that began to
  listen after its `Shutdown`, and `ShutdownEnds` leaves that case out by name; it is
  finding 4. Clients are owed nothing: they may stay connected for ever. Nobody owes a
  signal, so a process without one may run for ever.

## 6. Findings

1. `RegistrationDisabled`: README.md:61 says that existing inboxes of a disabled
   domain keep receiving. In the run an account is created while its domain is enabled,
   the domain is disabled, and `Session.Rcpt` refuses the account's mail
   (smtp/session.go:46).
2. `AdminRealmSetup`: admin.go:248-250 says a second concurrent setup is bounced.
   The check and the upsert are separate statements; two overlapping setups both
   succeed and the later one's password stays. What does hold is `SetupCloses`:
   only setups under way when the first password was stored can replace it.
3. `RegistrationFallback`: README.md:61 says that disabling a domain stops new inboxes
   from being created on it. When no domain is enabled, `defaultDomain`
   (web/routes.go:122) returns the DOMAIN setting whatever its row says, and the account
   lands on the disabled domain, where it receives nothing. (The comment at
   middleware.go:99-100, that `errNoDomainAvailable` is returned when no domain is
   enabled, is wrong for the same reason.) `CreatedWhereOffered` states what does hold.
4. `LifecycleSignal`: plan.md:596-612 shuts down SMTP, HTTP, the worker and the database
   in this order after a signal and ends. `run()` can call `smtpServer.Shutdown` before
   the goroutine of main.go:88-96 has registered its listener; then SMTP begins to serve
   afterwards, sends no result, and the loop at main.go:120 waits for ever, without a
   deadline and with SIGTERM still caught. `ShutdownNeverStuck` and `ShutdownEnds` say
   that this is the only way to get stuck.

Smaller divergences met while modelling, which the models follow the code on:

- README.md:70 calls admin sessions sliding. The store slides (admin.go:79), but the
  cookie keeps the Max-Age of the login (admin.go:129, 303), so the browser drops the
  cookie of a live session an hour after it, however busy the operator was. AdminRealm
  has both (`Valid`, `Sent`).
- The comment domaincache.go:12-13 says a change takes effect "within the TTL";
  `set` dates the entry from when it is stored, so the bound is TTL plus the time
  an answer was held, which is what `StalenessBounded` states and the proof shows.
- INBOX_TTL_DAYS (README.md:22, 34, 61) is checked by `Load` and used by nothing:
  inboxes are created without an expiry.
- README.md:27 says that an invalid setting stops the start; one that is blank
  falls back to its default silently (config.go:265-280), except for a path.
- README.md:50 gives `true` and `false` for COOKIE_SECURE; `ParseBool` also takes
  `1`, `t`, `F` and so on.
- README.md:83 describes the Origin rule; security.go:70-75 looks at
  `Sec-Fetch-Site` first.
- config.go:113-118 multiplies unchecked: a number of days or minutes that is
  accepted can leave the int64, and `NewTicker` then panics. `AcceptedIsUsable`
  holds for the products that stay in range.
- plan.md:608 gives one order of shutdown; an overdue SMTP `Shutdown` returns from
  `run()` at main.go:111-113 without the HTTP server having been asked.
- `CleanupWorker.Stop` does not wait for a sweep that is under way.

## 7. Proofs

Theorems of the specifications, for every value of the constants that satisfies
the named assumption of the module (`DomainGateAssumption`,
`RegistrationAssumption`: finitely many domains, `SmtpDeliveryAssumption`,
`AdminRealmAssumption`, `MailboxAccessAssumption`, `RateLimiterAssumption`,
`ConfigAssumption`, `LifecycleAssumption`); the theorems about liveness state what
they suppose of the scheduling. Every invariant, every action property and every
refinement that a passing run checks is proved.

**DomainGateProofs.** `TypeCorrect`; `AnswersDated`, `EntriesDated`;
`CacheStalenessBounded` (`[]StalenessBounded`); `VerdictsFresh`;
`RestartsKeepTable`. `StalenessBounded` is not inductive: an entry that is fresh
and wrong must be traced to the lookup that stored it. The inductive invariant is
`TypeOK /\ StaleAnswer /\ StaleEntry`: an answer in flight that contradicts the
table is at least as old as the row's last change; `MayWait` bounds that age by
`Latency`; when it is stored, `since + left` is at most `TTL + Latency`, and a tick
moves one unit from `left` to `since`. A hit needs `left > 0`, hence
`since < TTL + Latency`. `RestartsKeepTable` needs that a process that is down has
no request in progress (`DownIsIdle`). `CacheConverges`: `Spec /\ RowsAge =>
EventuallyAgrees`, since a row that is old stays old while it is left alone
(`OldStaysOld`) and an old row has no entry that contradicts it.

**RegistrationProofs.** `ImplementsGate`: every step is a step of DomainGate or
leaves it alone, so the theorems above hold of the composition. `RowsInv` says that
exactly the present rows have an id, a number; so `Oldest` of a set that is not
empty is one of its domains (a least number exists, by well-founded induction), and
`AccountsTypeCorrect` rests on it. `ShownAccountsNeverLost` and `OnlyErrorsLeaveAccounts` follow from `OwnInv`:
addresses are unique, and the accounts of a visitor are the one that its own
request inserted. `CreatedOnlyWhereOffered` follows from `OfferInv`, which ties the
domain a request holds to what was enabled while it ran. `AccountsReachable`
follows from `RcptInv`: an account that was known stays, and a verdict "relay" is
either as new as the RCPT or, by the staleness bound of DomainGate, contradicts the
table only while the domain is unsettled. `RegistrationIsAccountBook`
(`ImplementsAccountBook`) needs the types and `OwnInv`: the INSERT is `Claim`, since
only a visitor that has no row is about to insert; an answer is `Show`, `Refuse` or
`Fail` by what `OwnInv` says of the visitor's row; a stop fails all requests that
run; statements in between, admins, RCPTs and the clock stutter.

**SmtpDeliveryProofs.** `TypeCorrect`; `OrphansNever` (`NoOrphans`); `StoredWhole`
(`MessagesComplete`); `NeverMisdelivered` (`DeliveredAsAddressed`);
`EveryCopyAccounted` (`CopiesAccounted`); `ConnectionAlwaysReturned`
(`ConnectionReturned`); `StoreImplemented` (`ImplementsMailStore`). The inductive invariant adds to the types that a working
session has a submission (`SessionShape`); that an inbox id a session captured, if
the row is still there, has the address the submission names, and that ids are
below the sequence so that none is given twice (`CaptureInv`, the reason why a stale
captured id can only fail); that the row a transaction holds is for a present inbox
(`TxInv`); that the tables are well formed (`StoreInv`); that the sender of a mail is
on one live connection and comes back only until it is answered (`TalkInv`); that the
transaction is that of the one handler between its BEGIN and its end (`HeldInv`); and
that each copy not answered for is in the hands of the one handler that stored it
(`CopiesInv`). The refinement then needs no more: `Commit` is `Deliver`, a 250 that
arrives is `Accept`, the handlers' other steps and crashes stutter.

**AdminRealmProofs.** `TypeCorrect`; `SessionsImplementLife`, from `TokensInv` (a
token that a request, a cookie or the store knows was drawn); `GrantsEarned`
(`SessionsEarned`), from `EarnedInv`; `SetupIsClosed` (`SetupCloses`), from
`RacersInv`: a setup under way while a password is set was under way when it was.
`LogoutIsFinal`: see SessionLifeProofs.

**MailboxAccessProofs.** `TypeCorrect` and `NothingEverDangles` are one induction,
because a page shows an attachment through its email's inbox. `OnlyOwnMail` and
`OnlyOwnMailChanges` rest on `MailInv`: a token handed to a browser belongs to an
inbox that browser knows, and what each request has been told stays right because
tokens and ids are never given twice (`Lasting`: `HandedOut` and `RequestOK` survive
every step). `ExpiryAtMostTTLAfterUse` (`ExpiryFollowsUse`) rests on `AgeInv`, which dates
the requests that are about to touch their session; it is an upper bound, since the
UPDATE that slides may fail. `SessionsImplementLife`: the table refines
SessionLife. `ExpiredSessionsGo`: `Spec /\ WorkerGoesOn => ExpiredSwept`, since the worker
cannot be kept from its second DELETE for ever, which leaves no expired session; one may
also be renewed by a request that had read it before.

**SessionLifeProofs.** `TypeCorrect`, and `LogoutIsFinal`: in the abstract store a token
that was logged out stays ended. AdminRealmProofs and MailboxAccessProofs instantiate
this module under their refinement mappings, so the theorem becomes one about their own
state, `LogoutIsFinal` in each: no late cookie, UPDATE, login or restart brings a
session back.

**RateLimiterProofs.** `TypeCorrect`; `BurstsBounded`; `RefusalsJustified`;
`RetryAfterIsExact`. The limiter forgets all but one window, so the bounds rest on
`WindowsInv`, which relates the whole log of admissions to the entry that is left:
which of them are in its window, which in the one before, which older.

**LifecycleProofs.** `TypeCorrect`; `AcceptedUsable`, from lemmas about the parsers
and about `Wrap` (exact within the range); `ServesReady`, from `StartupInv` (the
statements before `step` have taken effect); `CleanServed` and `FailuresReported`,
from `ShutdownInv`: what is in the channel, what was received and which servers have
returned add up (`ResultsInv`), so that two results received are the two servers' own
and an error is in the channel until it is kept; and no connection is left once
`Shutdown` has returned, unless SMTP is `late` (`DrainInv`; only SMTP can be). `NeverStuck` (`ShutdownNeverStuck`): by
`ResultsInv` the results `Collect` still waits for are in the channel or those of
servers that have still to return, and the channel has room for them; the one way out
is a `late` SMTP server, which the property names.
`ShutdownCompletes`: `Spec /\ WaitsEnd => ShutdownEnds`, where `WaitsEnd` is the
hypothesis on the scheduling (below). The select wakes up, each
`Shutdown` is left when it has drained or the deadline has passed, and `Collect`
receives its two results one by one (`ResultToCome`: while one is missing, it is in
the channel, its server is about to return, or SMTP is `late`); then the process closes
and exits.

**Liveness.** tlapm cannot reason about ENABLED, so a theorem cannot start from WF or
SF. Where the argument is worth a proof, the theorem starts from the fairness with
each ENABLED written as the guard of its step: `WaitsEnd` (LifecycleProofs) and `WorkerGoesOn`
(MailboxAccessProofs); or, where counting ticks would be needed, from what it comes to:
`RowsAge` (DomainGateProofs), a row left alone for ever grows TTL + Latency old. From
there the proof goes through for all values of the constants. These are hypotheses of
the theorems and no properties of the program. For `WaitsEnd` the guards are `CanStop`,
`CanExpire` and `CanServe`; what the theorem concludes, `ShutdownEnds`, is checked from
`FairSpec` itself by `Lifecycle`. For `WorkerGoesOn` the guards are `worker = "waiting"`, `"inboxes"` and
`"sessions"`, the only conditions of the three steps (a DELETE may find nothing), and
each step changes `worker`; what the theorem concludes, `ExpiredSwept`, is checked from
`FairSpec` itself by `MailboxSessions`, and `EventuallyAgrees` by `RegistrationMail`.

Only model-checked: the step from fairness to these formulas, and `DataAnswered`. The
latter, like `RowsAge` from fairness, is an induction on a number (the attachments still
to insert, the ticks until the row is old) over temporal formulas, and the library's
induction theorems take the formula as an operator parameter, which the installed
provers cannot instantiate. The safety half of `DataAnswered` is proved:
`ConnectionAlwaysReturned` says that no finished handler keeps the connection the others
wait for.

## 8. Not modelled

Bcrypt and token generation, the client address, HTTP headers and origin checks,
templates and plain data types keep no state across requests and interact with
nobody; their unit tests cover them, and the models take what they promise as given
(section 3). Domain-name validation appears in Config as blank, malformed or
accepted; its lower-casing and trimming are string functions with a unit test.
MIME parsing is reduced to its outcome and the number of attachments; rendering
and HTML sanitizing are left out. `SaveEmail`, `SaveAttachment`,
`GetInboxByToken` are called by tests only, `UpdateLastAccessed` writes a column
nothing reads. The limiter's admission is a nondeterministic choice in
Registration; RateLimiter says when it is made. Two toggles at once, a failed COMMIT
that leaves the transaction open, and a pool that replaces its connection are listed
as hazards without a property, with the reason.

## 9. Plan

Order of work, the most important behaviour first; all items are done.

1. DomainGate with its proofs (the gate decides whether any mail arrives).
2. SmtpDelivery, MailStore and the refinement, with the first proofs.
3. Registration over DomainGate (composition of web and SMTP).
4. AdminRealm. 5. MailboxAccess with the cleanup worker. 6. RateLimiter.
7. Config and Lifecycle: what is accepted, startup, the shutdown order of
   main.go:98-128.
8. SessionLife and the refinements of both session stores; AccountBook and its
   refinement by Registration.
9. Proofs of every safety property and refinement; of `ShutdownEnds`,
   `ExpiredSwept` and `EventuallyAgrees` from what their fairness gives.

What could be added: `domainutil` and `security.go` as pure operators checked
against a reference definition, and the part tree of `parseParts` (limits on parts
and sizes). Both are stateless, and the unit tests reach their cases; they come
after everything that has interleavings.
