----------------------------- MODULE AdminRealm -----------------------------
(***************************************************************************)
(* The admin realm (internal/web/admin.go): one password hash in the       *)
(* settings table, chosen by a first-run setup; sessions in the memory of  *)
(* the process, with a sliding expiry; and the cookie each operator's      *)
(* browser holds.                                                          *)
(*                                                                         *)
(* Every request runs on its own goroutine.  A setup or a login reads the  *)
(* hash, spends a while in bcrypt, then writes the hash or takes the       *)
(* store's mutex; other requests run in between.  A password is named by   *)
(* the operator who chose it.  Time is relative: what an entry or a cookie *)
(* has left; Tick lets one unit pass.                                      *)
(***************************************************************************)
EXTENDS Naturals

CONSTANTS Operators,  \* the people with a browser at /admin, each with a password
          NoHash,     \* no row in settings
          Requests,   \* HTTP requests that may be in progress at once
          Tokens,     \* session tokens; random, never drawn twice
          NoToken,
          TTL         \* adminSessionTTL

ASSUME AdminRealmAssumption ==
    /\ NoHash \notin Operators
    /\ NoToken \notin Tokens
    /\ TTL \in Nat \ {0}

VARIABLES up,        \* is the server process running
          hash,      \* settings[admin_password_hash]
          sessions,  \* adminSessionStore.sessions
          cookie,    \* the admin cookie of each operator's browser
          req,       \* the requests in progress
          issued,    \* tokens drawn so far
          out,       \* observer: tokens their holder has logged out
          chosen,    \* observer: passwords that have ever been stored
          earned,    \* observer: the password each token was given for
          racers     \* observer: setups under way when the password was set

observers == <<out, chosen, earned, racers>>
vars == <<up, hash, sessions, cookie, req, issued, observers>>

\* An entry with left = 0 has expired but is still in the map.
NoEntry == [found |-> FALSE, left |-> 0]
Entry   == [found : {TRUE}, left : 0..TTL]

\* The browser sends its cookie while Max-Age has not run out.
NoCookie == [token |-> NoToken, left |-> 0]
Cookie   == {NoCookie} \union [token : Tokens, left : 0..TTL]

\* "setup" and "login" have read the hash, "grant" is about to start a session,
\* "page" is past the hash check, "reply" is the response on its way back: with
\* a new cookie, or (NoToken) one that clears it.
Idle == [pc |-> "idle"]
Request == {Idle}
    \union [pc : {"setup"}, who : Operators]
    \union [pc : {"login"}, who : Operators, password : Operators, hash : Operators]
    \union [pc : {"grant"}, who : Operators, password : Operators]
    \union [pc : {"page", "logout"}, who : Operators, token : Tokens \union {NoToken}]
    \union [pc : {"reply"}, who : Operators, token : Tokens \union {NoToken}]

TypeOK ==
    /\ up \in BOOLEAN
    /\ hash \in Operators \union {NoHash}
    /\ sessions \in [Tokens -> Entry \union {NoEntry}]
    /\ cookie \in [Operators -> Cookie]
    /\ req \in [Requests -> Request]
    /\ issued \subseteq Tokens
    /\ out \subseteq Tokens
    /\ chosen \subseteq Operators
    /\ earned \in [Tokens -> Operators \union {NoHash}]
    /\ racers \subseteq Requests

Init ==
    /\ up = TRUE
    /\ hash = NoHash
    /\ sessions = [t \in Tokens |-> NoEntry]
    /\ cookie = [o \in Operators |-> NoCookie]
    /\ req = [q \in Requests |-> Idle]
    /\ issued = {}
    /\ out = {}
    /\ chosen = {}
    /\ earned = [t \in Tokens |-> NoHash]
    /\ racers = {}

-----------------------------------------------------------------------------
Begin(q, r) ==
    /\ up
    /\ req[q] = Idle
    /\ req' = [req EXCEPT ![q] = r]

\* The cookie as the browser sends it.
Sent(o) == IF cookie[o].left > 0 THEN cookie[o].token ELSE NoToken

(* First-run setup.                                                        *)

\* Variant: the check is left to the form.
SetupAlwaysOpen == TRUE

\* HandleAdminSetup is open while no hash is stored.
SetupOpen == hash = NoHash

Setup(q, o) ==
    /\ SetupOpen
    /\ Begin(q, [pc |-> "setup", who |-> o])
    /\ UNCHANGED <<up, hash, sessions, cookie, issued, observers>>

\* SetSetting is an upsert: it replaces a hash stored since the check.
SetupWrite(q) ==
    /\ req[q].pc = "setup"
    /\ hash' = req[q].who
    /\ req' = [req EXCEPT ![q] = [pc |-> "grant", who |-> req[q].who, password |-> req[q].who]]
    /\ chosen' = chosen \union {req[q].who}
    /\ racers' = (IF hash = NoHash THEN {p \in Requests : req[p].pc = "setup"} ELSE racers) \ {q}
    /\ UNCHANGED <<up, sessions, cookie, issued, out, earned>>

\* Variant: the operator is logged in although the write failed.
AfterFailureGranted(q) == [pc |-> "grant", who |-> req[q].who, password |-> req[q].who]

\* After a failed write nothing is granted.
AfterFailure(q) == Idle

SetupFails(q) ==
    /\ req[q].pc = "setup"
    /\ req' = [req EXCEPT ![q] = AfterFailure(q)]
    /\ racers' = racers \ {q}
    /\ UNCHANGED <<up, hash, sessions, cookie, issued, out, chosen, earned>>

(* Login.  The password is verified against the hash that was read.        *)

Login(q, o, p) ==
    /\ hash # NoHash
    /\ Begin(q, [pc |-> "login", who |-> o, password |-> p, hash |-> hash])
    /\ UNCHANGED <<up, hash, sessions, cookie, issued, observers>>

Verifies(r) == r.password = r.hash

LoginVerified(q) ==
    /\ req[q].pc = "login"
    /\ req' = [req EXCEPT ![q] = IF Verifies(req[q])
                                 THEN [pc |-> "grant", who |-> req[q].who,
                                       password |-> req[q].password]
                                 ELSE Idle]
    /\ UNCHANGED <<up, hash, sessions, cookie, issued, observers>>

\* startAdminSession.
NewToken(t) == t \notin issued

StartAdminSession(q, t) ==
    /\ req[q].pc = "grant"
    /\ NewToken(t)
    /\ issued' = issued \union {t}
    /\ sessions' = [sessions EXCEPT ![t] = [found |-> TRUE, left |-> TTL]]
    /\ earned' = [earned EXCEPT ![t] = req[q].password]
    /\ req' = [req EXCEPT ![q] = [pc |-> "reply", who |-> req[q].who, token |-> t]]
    /\ UNCHANGED <<up, hash, cookie, out, chosen, racers>>

\* The browser receives the response and its cookie.
Reply(q) ==
    /\ req[q].pc = "reply"
    /\ cookie' = [cookie EXCEPT ![req[q].who] =
                      IF req[q].token = NoToken THEN NoCookie
                      ELSE [token |-> req[q].token, left |-> TTL]]
    /\ req' = [req EXCEPT ![q] = Idle]
    /\ UNCHANGED <<up, hash, sessions, issued, observers>>

\* The response never arrives: the session is there, the browser knows nothing.
ReplyLost(q) ==
    /\ req[q].pc = "reply"
    /\ req' = [req EXCEPT ![q] = Idle]
    /\ UNCHANGED <<up, hash, sessions, cookie, issued, observers>>

(* The management pages, behind adminAuthMiddleware.                       *)

Page(q, o) ==
    /\ hash # NoHash
    /\ Begin(q, [pc |-> "page", who |-> o, token |-> Sent(o)])
    /\ UNCHANGED <<up, hash, sessions, cookie, issued, observers>>

Valid(t) == t # NoToken /\ sessions[t].found /\ sessions[t].left > 0

\* adminSessionStore.validate slides the expiry of a live session and deletes an
\* expired one; the cookie is not set again.
PageAllowed(q) ==
    /\ req[q].pc = "page"
    /\ Valid(req[q].token)
    /\ sessions' = [sessions EXCEPT ![req[q].token].left = TTL]
    /\ req' = [req EXCEPT ![q] = Idle]
    /\ UNCHANGED <<up, hash, cookie, issued, observers>>

\* Variant: only the cookie goes.
WithoutKept(t) == sessions

Without(t) == IF t = NoToken THEN sessions ELSE [sessions EXCEPT ![t] = NoEntry]

PageDenied(q) ==
    /\ req[q].pc = "page"
    /\ ~Valid(req[q].token)
    /\ sessions' = Without(req[q].token)
    /\ req' = [req EXCEPT ![q] = Idle]
    /\ UNCHANGED <<up, hash, cookie, issued, observers>>

Logout(q, o) ==
    /\ Begin(q, [pc |-> "logout", who |-> o, token |-> Sent(o)])
    /\ UNCHANGED <<up, hash, sessions, cookie, issued, observers>>

LogoutDelete(q) ==
    /\ req[q].pc = "logout"
    /\ sessions' = Without(req[q].token)
    /\ out' = out \union ({req[q].token} \ {NoToken})
    /\ req' = [req EXCEPT ![q] = [pc |-> "reply", who |-> req[q].who, token |-> NoToken]]
    /\ UNCHANGED <<up, hash, cookie, issued, chosen, earned, racers>>

(* Around the handlers.                                                    *)

\* External: the operator deletes the settings row, which re-opens the setup.
ResetPassword ==
    /\ hash # NoHash
    /\ hash' = NoHash
    /\ UNCHANGED <<up, sessions, cookie, req, issued, observers>>

\* A restart loses the sessions and the requests, not the settings table.
Stop ==
    /\ up
    /\ up' = FALSE
    /\ sessions' = [t \in Tokens |-> NoEntry]
    /\ req' = [q \in Requests |-> Idle]
    /\ racers' = {}
    /\ UNCHANGED <<hash, cookie, issued, out, chosen, earned>>

Start ==
    /\ ~up
    /\ up' = TRUE
    /\ UNCHANGED <<hash, sessions, cookie, req, issued, observers>>

\* Variant: an expired entry goes on counting.
FadedPast(e) == [e EXCEPT !.left = @ - 1]

Faded(e) == IF e.left = 0 THEN e ELSE [e EXCEPT !.left = @ - 1]

Tick ==
    /\ sessions' = [t \in Tokens |-> Faded(sessions[t])]
    /\ cookie' = [o \in Operators |-> Faded(cookie[o])]
    /\ UNCHANGED <<up, hash, req, issued, observers>>

Next ==
    \/ \E q \in Requests, o \in Operators : Setup(q, o) \/ Page(q, o) \/ Logout(q, o)
    \/ \E q \in Requests, o, p \in Operators : Login(q, o, p)
    \/ \E q \in Requests : \/ SetupWrite(q) \/ SetupFails(q) \/ LoginVerified(q)
                           \/ Reply(q) \/ ReplyLost(q)
                           \/ PageAllowed(q) \/ PageDenied(q) \/ LogoutDelete(q)
    \/ \E q \in Requests, t \in Tokens : StartAdminSession(q, t)
    \/ ResetPassword \/ Stop \/ Start \/ Tick

Spec == Init /\ [][Next]_vars

-----------------------------------------------------------------------------
(* Properties.                                                             *)

\* What the store holds of a token, as SessionLife names it.
LifeOf(t) ==
    IF sessions[t].found THEN [state |-> "live", owner |-> earned[t]]
    ELSE IF t \in issued THEN [state |-> "ended"] ELSE [state |-> "new"]

(* The store keeps SessionLife: whatever setups, logins, pages, logouts    *)
(* and restarts overlap, a token stands for the one password it was given  *)
(* for, and never comes back once it was logged out, has expired, or was   *)
(* lost in a restart.                                                      *)
Life == INSTANCE SessionLife
            WITH Owners <- Operators, life <- [t \in Tokens |-> LifeOf(t)], loggedOut <- out
ImplementsSessionLife == Life!Spec

(* Every session was given for a password that was stored at some time:    *)
(* not for one whose SetSetting failed, and not for a mistaken one, however *)
(* setups, logins and resets are interleaved.                              *)
SessionsEarned == \A t \in Tokens : sessions[t].found => earned[t] \in chosen

(* The setup closes: once a password is set, only a setup that was already *)
(* under way then can replace it, and no setup that begins later, until    *)
(* the operator deletes the row.                                           *)
SetupCloses ==
    [][hash # NoHash /\ hash' \notin {hash, NoHash} =>
          \E q \in racers : req[q].pc = "setup" /\ hash' = req[q].who]_vars

(* admin.go:248-250: HandleAdminSetup re-checks, and a second concurrent   *)
(* setup gets bounced to login.  So a stored password is never replaced.   *)
SetupOnce == [][hash # NoHash => hash' \in {hash, NoHash}]_vars
=============================================================================
