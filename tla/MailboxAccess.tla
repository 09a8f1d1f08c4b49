--------------------------- MODULE MailboxAccess ----------------------------
(***************************************************************************)
(* The mailbox pages: login and logout (internal/web/auth_handlers.go),    *)
(* MailboxAuthMiddleware (middleware.go), the handlers under /app          *)
(* (handlers.go), the statements they run (internal/repository/sqlite.go)  *)
(* and the cleanup worker (internal/worker/cleanup.go).                    *)
(*                                                                         *)
(* A request is a goroutine that runs one SQL statement after another; the *)
(* statements of other requests, of inbound mail and of the worker come in *)
(* between.  A response reaches the browser some time after its last       *)
(* statement, or never.  Time is relative: a session row carries the time  *)
(* it has left, "used" (an observer) the time since the session last       *)
(* authenticated a request, saturated at TTL.                              *)
(***************************************************************************)
EXTENDS Naturals

CONSTANTS Browsers,
          Knows,     \* set of <<browser, inbox>>: whose password is known where
          Requests,  \* HTTP requests that may be in progress at once
          Inboxes,   \* ids of the inboxes table
          Legacy,    \* inboxes that may still have an expiry from earlier versions
          Tokens,    \* session tokens; random, never drawn twice
          NoToken,
          Emails,    \* ids of the emails table; AUTOINCREMENT, never given twice
          Parts,     \* ids of the attachments table; likewise
          None,      \* no row
          TTL        \* Options.SessionTTL

ASSUME MailboxAccessAssumption ==
    /\ Knows \subseteq Browsers \X Inboxes
    /\ Legacy \subseteq Inboxes
    /\ NoToken \notin Tokens
    /\ None \notin Emails
    /\ TTL \in Nat \ {0}

VARIABLES inboxes,   \* the inboxes table: does the row expire, or None
          sessions,  \* the sessions table
          emails,    \* the emails table
          parts,     \* the attachments table: the email of each, or None
          usedIds,   \* email and attachment ids given so far
          issued,    \* tokens drawn so far
          cookie,    \* the session cookie of each browser
          req,       \* the requests in progress
          worker,    \* the statement the cleanup worker is at
          out,       \* observer: tokens that were logged out
          used,      \* observer: time since each token last authenticated
          shown      \* observer: <<b, i>> if content of inbox i was sent to b

tables == <<inboxes, sessions, emails, parts, usedIds>>
observers == <<out, used, shown>>
vars == <<tables, issued, cookie, req, worker, observers>>

NoSession == [found |-> FALSE, left |-> 0]
Session   == [found : {TRUE}, inbox : Inboxes, left : 0..TTL]
NoEmail   == [found |-> FALSE]
Email     == [found : {TRUE}, inbox : Inboxes, read : BOOLEAN]

\* What a request under /app asks for.
Op == [kind : {"list"}] \union [kind : {"view", "delete"}, email : Emails]
    \union [kind : {"part"}, email : Emails, part : Parts]

\* "auth" is before GetSession, "touch" between it and TouchSession, "handle"
\* before the handler's first statement, "found" after GetEmailByID, "parts"
\* before the attachments of a view are read, "reply" on the way to the browser
\* with a cookie, NoToken for one that clears it.
Idle == [pc |-> "idle"]
Request == {Idle}
    \union [pc : {"verify", "grant"}, who : Browsers, inbox : Inboxes]
    \union [pc : {"logout"}, who : Browsers, token : Tokens \union {NoToken}]
    \union [pc : {"auth"}, who : Browsers, token : Tokens \union {NoToken}, op : Op]
    \union [pc : {"touch"}, who : Browsers, token : Tokens, inbox : Inboxes, op : Op,
            age : 0..TTL]
    \union [pc : {"handle", "found", "parts"}, who : Browsers, token : Tokens,
            inbox : Inboxes, op : Op]
    \union [pc : {"reply"}, who : Browsers, token : Tokens \union {NoToken}]

TypeOK ==
    /\ inboxes \in [Inboxes -> BOOLEAN \union {None}]
    /\ sessions \in [Tokens -> Session \union {NoSession}]
    /\ emails \in [Emails -> Email \union {NoEmail}]
    /\ parts \in [Parts -> Emails \union {None}]
    /\ usedIds \subseteq Emails \union Parts
    /\ issued \subseteq Tokens
    /\ cookie \in [Browsers -> Tokens \union {NoToken}]
    /\ req \in [Requests -> Request]
    /\ worker \in {"waiting", "inboxes", "sessions"}
    /\ out \subseteq Tokens
    /\ used \in [Tokens -> 0..TTL]
    /\ shown \subseteq Browsers \X Inboxes

\* Accounts have no expiry; a row that has one is left from earlier versions.
Init ==
    /\ inboxes \in {f \in [Inboxes -> BOOLEAN] : \A i \in Inboxes : f[i] => i \in Legacy}
    /\ sessions = [t \in Tokens |-> NoSession]
    /\ emails = [e \in Emails |-> NoEmail]
    /\ parts = [p \in Parts |-> None]
    /\ usedIds = {} /\ issued = {}
    /\ cookie = [b \in Browsers |-> NoToken]
    /\ req = [r \in Requests |-> Idle]
    /\ worker = "inboxes"
    /\ out = {} /\ shown = {}
    /\ used = [t \in Tokens |-> TTL]

-----------------------------------------------------------------------------
Become(r, state) == req' = [req EXCEPT ![r] = state]
Begin(r, state) == req[r] = Idle /\ Become(r, state)
Proceed(r, pc) == Become(r, [pc |-> pc, who |-> req[r].who, token |-> req[r].token,
                             inbox |-> req[r].inbox, op |-> req[r].op])
ReplyWith(r, t) == Become(r, [pc |-> "reply", who |-> req[r].who, token |-> t])

(* POST /login.                                                            *)

\* GetInboxByAddress; for an unknown address the answer is 401.
Login(r, b, i) ==
    /\ inboxes[i] # None
    /\ Begin(r, [pc |-> "verify", who |-> b, inbox |-> i])
    /\ UNCHANGED <<tables, issued, cookie, worker, observers>>

VerifyPassword(b, i) == <<b, i>> \in Knows

Verified(r) ==
    /\ req[r].pc = "verify"
    /\ Become(r, IF VerifyPassword(req[r].who, req[r].inbox)
                 THEN [pc |-> "grant", who |-> req[r].who, inbox |-> req[r].inbox]
                 ELSE Idle)
    /\ UNCHANGED <<tables, issued, cookie, worker, observers>>

\* startSession: the foreign key refuses a session for an inbox that has gone.  The
\* SELECT that completes CreateSession may fail or find the row gone again: the login
\* has failed, and nobody has the token of the row that may be left.
HasInbox(i) == inboxes[i] # None

CreateSession(r, t) ==
    /\ req[r].pc = "grant"
    /\ t \notin issued
    /\ issued' = issued \union {t}
    /\ IF HasInbox(req[r].inbox)
       THEN /\ sessions' = [sessions EXCEPT ![t] = [found |-> TRUE, inbox |-> req[r].inbox,
                                                    left |-> TTL]]
            /\ used' = [used EXCEPT ![t] = 0]
            /\ ReplyWith(r, t) \/ Become(r, Idle)
       ELSE /\ Become(r, Idle)
            /\ UNCHANGED <<sessions, used>>
    /\ UNCHANGED <<inboxes, emails, parts, usedIds, cookie, worker, out, shown>>

(* POST /logout.  A failed DELETE is logged, and the cookie cleared.       *)

Logout(r, b) ==
    /\ Begin(r, [pc |-> "logout", who |-> b, token |-> cookie[b]])
    /\ UNCHANGED <<tables, issued, cookie, worker, observers>>

Dropped(S) == [t \in Tokens |-> IF t \in S THEN NoSession ELSE sessions[t]]

DeleteSession(r) ==
    /\ req[r].pc = "logout"
    /\ sessions' = Dropped({req[r].token})
    /\ out' = out \union ({req[r].token} \ {NoToken})
    /\ ReplyWith(r, NoToken)
    /\ UNCHANGED <<inboxes, emails, parts, usedIds, issued, cookie, worker, used, shown>>

DeleteSessionFails(r) ==
    /\ req[r].pc = "logout"
    /\ ReplyWith(r, NoToken)
    /\ UNCHANGED <<tables, issued, cookie, worker, observers>>

(* MailboxAuthMiddleware.                                                  *)

Visit(r, b, op) ==
    /\ Begin(r, [pc |-> "auth", who |-> b, token |-> cookie[b], op |-> op])
    /\ UNCHANGED <<tables, issued, cookie, worker, observers>>

Live(t) == t # NoToken /\ sessions[t].found /\ sessions[t].left > 0

GetSession(r) ==
    /\ req[r].pc = "auth"
    /\ Live(req[r].token)
    /\ Become(r, [pc |-> "touch", who |-> req[r].who, token |-> req[r].token,
                  inbox |-> sessions[req[r].token].inbox, op |-> req[r].op, age |-> 0])
    /\ used' = [used EXCEPT ![req[r].token] = 0]
    /\ UNCHANGED <<tables, issued, cookie, worker, out, shown>>

\* No such session, or the statement fails: the cookie is cleared either way.  A
\* request that came without a cookie is answered without one.
NotAuthenticated(r) ==
    /\ req[r].pc = "auth"
    /\ IF req[r].token = NoToken THEN Become(r, Idle) ELSE ReplyWith(r, NoToken)
    /\ UNCHANGED <<tables, issued, cookie, worker, observers>>

\* Variant: the TTL counts from the UPDATE.
NewLeftFromWrite(age) == TTL

\* Variant: the TTL is added to what is left.
NewLeftAdded(age) == (TTL + TTL) - age

\* The new expiry was computed when GetSession returned; the UPDATE finds no row
\* if the session has been deleted since.
NewLeft(age) == TTL - age

\* Variant: the UPDATE is an upsert.
TouchSessionUpserts(r) ==
    /\ req[r].pc = "touch"
    /\ sessions' = [sessions EXCEPT ![req[r].token] =
                        [found |-> TRUE, inbox |-> req[r].inbox, left |-> NewLeft(req[r].age)]]
    /\ Proceed(r, "handle")
    /\ UNCHANGED <<inboxes, emails, parts, usedIds, issued, cookie, worker, observers>>

TouchSession(r) ==
    /\ req[r].pc = "touch"
    /\ LET t == req[r].token
       IN  sessions' = IF sessions[t].found
                       THEN [sessions EXCEPT ![t].left = NewLeft(req[r].age)] ELSE sessions
    /\ Proceed(r, "handle")
    /\ UNCHANGED <<inboxes, emails, parts, usedIds, issued, cookie, worker, observers>>

\* A failed UPDATE is logged; the request goes on.
TouchSessionFails(r) ==
    /\ req[r].pc = "touch"
    /\ Proceed(r, "handle")
    /\ UNCHANGED <<tables, issued, cookie, worker, observers>>

-----------------------------------------------------------------------------
(* The handlers.  The response carries the session's cookie again.         *)

At(r, kind, pc) == req[r].pc = pc /\ req[r].op.kind = kind
Answer(r) == ReplyWith(r, req[r].token)
Show(r, I) == shown' = shown \union ({req[r].who} \X I)

\* HandleIndex and HandleAPIEmails.
InboxOf(e, i) == emails[e].found /\ emails[e].inbox = i

List(r) ==
    /\ At(r, "list", "handle")
    /\ IF \E e \in Emails : InboxOf(e, req[r].inbox) THEN Show(r, {req[r].inbox})
                                                     ELSE UNCHANGED shown
    /\ Answer(r)
    /\ UNCHANGED <<tables, issued, cookie, worker, out, used>>

\* GetEmailByID, for a view or an attachment.
GetEmail(r) ==
    /\ At(r, "view", "handle") \/ At(r, "part", "handle")
    /\ InboxOf(req[r].op.email, req[r].inbox)
    /\ Proceed(r, "found")
    /\ UNCHANGED <<tables, issued, cookie, worker, observers>>

\* Not in this inbox, whether for a view, an attachment or a DELETE: 404.
EmailNotFound(r) ==
    /\ req[r].pc = "handle" /\ req[r].op.kind # "list"
    /\ ~InboxOf(req[r].op.email, req[r].inbox)
    /\ Answer(r)
    /\ UNCHANGED <<tables, issued, cookie, worker, observers>>

\* MarkEmailAsRead names the email by its id alone; it is skipped if the email
\* was read already, and finding no row is not an error.
MarkEmailAsRead(r) ==
    /\ At(r, "view", "found")
    /\ LET e == req[r].op.email
       IN  emails' = IF emails[e].found THEN [emails EXCEPT ![e].read = TRUE] ELSE emails
    /\ Proceed(r, "parts")
    /\ UNCHANGED <<inboxes, sessions, parts, usedIds, issued, cookie, worker, observers>>

\* Variant: the attachments of every email.
AttachedToAny(e) == {p \in Parts : parts[p] # None}

Attached(e) == {p \in Parts : parts[p] = e}

\* GetAttachmentsByEmailID, then the page with the email as it was read and the
\* attachments that are there by now.
View(r) ==
    /\ At(r, "view", "parts")
    /\ Show(r, {req[r].inbox} \union {emails[parts[p]].inbox : p \in Attached(req[r].op.email)})
    /\ Answer(r)
    /\ UNCHANGED <<tables, issued, cookie, worker, out, used>>

\* Variant: any attachment will do.
MayServeAny(r, e) == TRUE

\* GetAttachment names the attachment by its id alone; what it returns must
\* belong to the email that was found in this inbox.
MayServe(r, e) == e = req[r].op.email

GetAttachment(r) ==
    /\ At(r, "part", "found")
    /\ LET e == parts[req[r].op.part]
       IN  IF e # None /\ MayServe(r, e) THEN Show(r, {emails[e].inbox}) ELSE UNCHANGED shown
    /\ Answer(r)
    /\ UNCHANGED <<tables, issued, cookie, worker, out, used>>

\* ON DELETE CASCADE from emails to attachments.
RemoveEmails(D) ==
    /\ emails' = [e \in Emails |-> IF e \in D THEN NoEmail ELSE emails[e]]
    /\ parts' = [p \in Parts |-> IF parts[p] \in D THEN None ELSE parts[p]]

DeleteEmail(r) ==
    /\ At(r, "delete", "handle")
    /\ InboxOf(req[r].op.email, req[r].inbox)
    /\ RemoveEmails({req[r].op.email})
    /\ Answer(r)
    /\ UNCHANGED <<inboxes, sessions, usedIds, issued, cookie, worker, observers>>

\* A statement of a login or a handler fails: 500, and nothing more is done.
Fails(r) ==
    /\ req[r].pc \in {"verify", "grant", "handle", "found", "parts"}
    /\ IF req[r].pc \in {"verify", "grant"} THEN Become(r, Idle) ELSE Answer(r)
    /\ UNCHANGED <<tables, issued, cookie, worker, observers>>

Reply(r) ==
    /\ req[r].pc = "reply"
    /\ cookie' = [cookie EXCEPT ![req[r].who] = req[r].token]
    /\ Become(r, Idle)
    /\ UNCHANGED <<tables, issued, worker, observers>>

ReplyLost(r) ==
    /\ req[r].pc = "reply"
    /\ Become(r, Idle)
    /\ UNCHANGED <<tables, issued, cookie, worker, observers>>

-----------------------------------------------------------------------------
(* Inbound mail, the cleanup worker, restarts, time.                       *)

\* Variant: the id of a deleted email is given again.
ReceiveReusingIds(e, i, P) ==
    /\ HasInbox(i)
    /\ ~emails[e].found /\ P \intersect usedIds = {}
    /\ usedIds' = usedIds \union {e} \union P
    /\ emails' = [emails EXCEPT ![e] = [found |-> TRUE, inbox |-> i, read |-> FALSE]]
    /\ parts' = [p \in Parts |-> IF p \in P THEN e ELSE parts[p]]
    /\ UNCHANGED <<inboxes, sessions, issued, cookie, req, worker, observers>>

\* SaveInboundMessage, which SmtpDelivery is about: one transaction.
Receive(e, i, P) ==
    /\ HasInbox(i)
    /\ {e} \union P \subseteq (Emails \union Parts) \ usedIds
    /\ usedIds' = usedIds \union {e} \union P
    /\ emails' = [emails EXCEPT ![e] = [found |-> TRUE, inbox |-> i, read |-> FALSE]]
    /\ parts' = [p \in Parts |-> IF p \in P THEN e ELSE parts[p]]
    /\ UNCHANGED <<inboxes, sessions, issued, cookie, req, worker, observers>>

\* The ticker of CleanupWorker.Start.
WakeUp ==
    /\ worker = "waiting"
    /\ worker' = "inboxes"
    /\ UNCHANGED <<tables, issued, cookie, req, observers>>

\* Variant: no foreign key on sessions.
SessionsOfNone(S) == {}

SessionsOf(S) == {t \in Tokens : sessions[t].found /\ sessions[t].inbox \in S}

\* Variant: the run ends when no inbox was deleted.
DeleteExpiredInboxesOnly(S) ==
    /\ worker = "inboxes"
    /\ \A i \in S : inboxes[i] = TRUE
    /\ inboxes' = [i \in Inboxes |-> IF i \in S THEN None ELSE inboxes[i]]
    /\ RemoveEmails({e \in Emails : emails[e].found /\ emails[e].inbox \in S})
    /\ sessions' = Dropped(SessionsOf(S))
    /\ worker' = IF S = {} THEN "waiting" ELSE "sessions"
    /\ UNCHANGED <<usedIds, issued, cookie, req, observers>>

\* S are the rows whose expires_at has come; they go with all that is theirs.
DeleteExpiredInboxes(S) ==
    /\ worker = "inboxes"
    /\ \A i \in S : inboxes[i] = TRUE
    /\ inboxes' = [i \in Inboxes |-> IF i \in S THEN None ELSE inboxes[i]]
    /\ RemoveEmails({e \in Emails : emails[e].found /\ emails[e].inbox \in S})
    /\ sessions' = Dropped(SessionsOf(S))
    /\ worker' = "sessions"
    /\ UNCHANGED <<usedIds, issued, cookie, req, observers>>

Expired == {t \in Tokens : sessions[t].found /\ sessions[t].left = 0}

DeleteExpiredSessions ==
    /\ worker = "sessions"
    /\ sessions' = Dropped(Expired)
    /\ worker' = "waiting"
    /\ UNCHANGED <<inboxes, emails, parts, usedIds, issued, cookie, req, observers>>

\* A failed statement ends the run of the worker until the next tick.
CleanupFails ==
    /\ worker # "waiting"
    /\ worker' = "waiting"
    /\ UNCHANGED <<tables, issued, cookie, req, observers>>

\* The process stops and starts again: requests are lost, the worker begins
\* with a cleanup.
Restart ==
    /\ req' = [r \in Requests |-> Idle]
    /\ worker' = "inboxes"
    /\ UNCHANGED <<tables, issued, cookie, observers>>

Tick ==
    /\ sessions' = [t \in Tokens |-> IF sessions[t].left = 0 THEN sessions[t]
                                     ELSE [sessions[t] EXCEPT !.left = @ - 1]]
    /\ req' = [r \in Requests |-> IF req[r].pc = "touch" /\ req[r].age < TTL
                                  THEN [req[r] EXCEPT !.age = @ + 1] ELSE req[r]]
    /\ used' = [t \in Tokens |-> IF used[t] = TTL THEN TTL ELSE used[t] + 1]
    /\ UNCHANGED <<inboxes, emails, parts, usedIds, issued, cookie, worker, out, shown>>

Next ==
    \/ \E r \in Requests, b \in Browsers : \/ Logout(r, b)
                                           \/ \E i \in Inboxes : Login(r, b, i)
                                           \/ \E op \in Op : Visit(r, b, op)
    \/ \E r \in Requests, t \in Tokens : CreateSession(r, t)
    \/ \E r \in Requests : \/ Verified(r) \/ DeleteSession(r) \/ DeleteSessionFails(r)
                           \/ GetSession(r) \/ NotAuthenticated(r)
                           \/ TouchSession(r) \/ TouchSessionFails(r)
                           \/ List(r) \/ GetEmail(r) \/ EmailNotFound(r) \/ MarkEmailAsRead(r)
                           \/ View(r) \/ GetAttachment(r) \/ DeleteEmail(r) \/ Fails(r)
                           \/ Reply(r) \/ ReplyLost(r)
    \/ \E e \in Emails, i \in Inboxes, P \in SUBSET Parts : Receive(e, i, P)
    \/ \E S \in SUBSET Inboxes : DeleteExpiredInboxes(S)
    \/ WakeUp \/ DeleteExpiredSessions \/ CleanupFails \/ Restart \/ Tick

Spec == Init /\ [][Next]_vars

\* The ticker fires; time passes; a statement of the worker that is tried again
\* and again does not fail every time.
Fairness ==
    /\ WF_vars(Tick)
    /\ WF_vars(WakeUp)
    /\ SF_vars(\E S \in SUBSET Inboxes : DeleteExpiredInboxes(S))
    /\ SF_vars(DeleteExpiredSessions)

FairSpec == Spec /\ Fairness

-----------------------------------------------------------------------------
(* Properties.                                                             *)

(* A browser is shown only mail of inboxes whose password is known there,  *)
(* though emails are marked and attachments are read by id alone, cookies  *)
(* arrive late and out of order, and emails come and go between the        *)
(* statements of a request.                                                *)
OwnMailOnly == shown \subseteq Knows

(* An email is marked or deleted only by a request of a browser that knows *)
(* its inbox, or goes with its inbox: no request that looked it up before  *)
(* it was deleted changes another email in its place.                      *)
OwnMailChanged ==
    [][\A e \in Emails :
          emails[e].found /\ emails'[e] # emails[e] =>
              \/ inboxes'[emails[e].inbox] = None
              \/ \E r \in Requests : /\ req'[r] # req[r]
                                     /\ <<req[r].who, emails[e].inbox>> \in Knows]_vars

\* What the table holds of a token, as SessionLife names it.
LifeOf(t) ==
    IF sessions[t].found THEN [state |-> "live", owner |-> sessions[t].inbox]
    ELSE IF t \in issued THEN [state |-> "ended"] ELSE [state |-> "new"]

(* The table keeps SessionLife: no TouchSession of a request that was      *)
(* authenticated before, no late cookie and no login brings back a session *)
(* that was logged out, swept, or went with its inbox, nor moves one to    *)
(* another inbox.                                                          *)
Life == INSTANCE SessionLife
            WITH Owners <- Inboxes, life <- [t \in Tokens |-> LifeOf(t)], loggedOut <- out
ImplementsSessionLife == Life!Spec

(* Only use moves the expiry, and not too far: a session is good for at    *)
(* most TTL from the last request it authenticated, in whatever order the  *)
(* UPDATEs of concurrent requests arrive and however late.                 *)
ExpiryFollowsUse == \A t \in Tokens : Live(t) => used[t] + sessions[t].left <= TTL

(* Sessions, emails and attachments never outlive what they belong to,     *)
(* also when an inbox expires while its owner is logging in.               *)
NothingDangles ==
    /\ \A t \in Tokens : sessions[t].found => HasInbox(sessions[t].inbox)
    /\ \A e \in Emails : emails[e].found => HasInbox(emails[e].inbox)
    /\ \A p \in Parts : parts[p] # None => emails[parts[p]].found

(* An expired session does not stay in the table for ever, though a failed *)
(* DeleteExpiredInboxes skips the sessions.                                *)
ExpiredSwept == \A t \in Tokens : t \in Expired ~> t \notin Expired
=============================================================================
