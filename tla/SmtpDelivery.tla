---------------------------- MODULE SmtpDelivery ----------------------------
(***************************************************************************)
(* Inbound mail, from MAIL FROM to the committed rows: the SMTP session    *)
(* handlers (internal/smtp/session.go), the transaction that stores a      *)
(* message and its attachments and the statements that run beside it       *)
(* (internal/repository/sqlite.go), over the schema of migrations/001.     *)
(*                                                                         *)
(* Each connection is served on a goroutine of its own.  The database pool *)
(* has one connection (SetMaxOpenConns(1)), so a transaction keeps every   *)
(* other statement waiting until it commits or rolls back.  Handlers use   *)
(* context.Background(): a client that goes away does not stop them.  The  *)
(* process may crash between any two steps; what was committed survives.   *)
(*                                                                         *)
(* A "mail" is one submission of a sender.  The sender retries until it is *)
(* told 250 or 5xx, on one live connection at a time.                      *)
(***************************************************************************)
EXTENDS Naturals

CONSTANTS Conns,      \* SMTP connections
          NoConn,
          Addresses,  \* recipient addresses, case folded
          Mails,      \* submissions
          NoMail,
          To,         \* the recipient each submission names
          Parts,      \* how many attachments each submission has
          Ids,        \* the row ids SQLite can give
          MaxTries    \* bound: how often a sender starts a transaction for a mail

ASSUME SmtpDeliveryAssumption ==
    /\ NoMail \notin Mails
    /\ NoConn \notin Conns
    /\ To \in [Mails -> Addresses]
    /\ Parts \in [Mails -> Nat]
    /\ Ids \subseteq Nat \ {0} /\ 1 \in Ids
    /\ MaxTries \in [Mails -> Nat]

VARIABLES up,           \* is the server process running
          inboxes,      \* committed rows of inboxes: set of [id, address, expires]
          emails,       \* committed rows of emails: set of [id, inbox, mail]
          attachments,  \* committed rows of attachments: set of [email, part]
          lastInbox,    \* sqlite_sequence of inboxes: the highest id ever given
          lastEmail,    \* sqlite_sequence of emails
          tx,           \* the transaction that holds the database connection
          sess,         \* the session of each SMTP connection
          client,       \* what the sender of each mail believes
          tries,        \* bound: transactions started for each mail
          told,         \* observer: copies whose sender was told 250
          lost,         \* observer: copies stored whose 250 never arrived
          removed       \* observer: copies deleted by the owner or by expiry

database == <<inboxes, emails, attachments, lastInbox, lastEmail>>
observers == <<told, lost, removed>>
vars == <<up, database, tx, sess, client, tries, observers>>

-----------------------------------------------------------------------------
(* State.                                                                  *)

Inbox      == [id : Ids, address : Addresses, expires : BOOLEAN]
Email      == [id : Ids, inbox : Ids, mail : Mails]
Attachment == [email : Ids, part : Nat]

\* "conn" is the holder of the one database connection; "email" and "parts" are
\* the emails row (if inserted) and the attachments it has written so far.
NoTx == [conn |-> NoConn, email |-> {}, parts |-> 0]
Tx   == [conn : Conns \union {NoConn}, email : SUBSET Email, parts : Nat]

\* Where the handler of a connection stands:
\*   closed    no session            save     parsed, waiting for BeginTx
\*   ready     EHLO done, or reset   insert   about to insert the emails row
\*   mail      MAIL accepted         attach   about to insert a part or commit
\*   resolve   domain allowed        stored   SaveInboundMessage returned nil
\*   rcpt      RCPT accepted         failed   to answer 4xx, refused: 5xx
\* "inbox" is Session.inbox (0 for nil), "stored" the copy that DATA committed and
\* has not answered for, "wire" says the client is still there.
Pcs == {"closed", "ready", "mail", "resolve", "rcpt", "save", "insert", "attach",
        "stored", "failed", "refused"}
NoSession == [pc |-> "closed", mail |-> NoMail, inbox |-> 0, stored |-> {}, wire |-> FALSE]
Session   == [pc : Pcs, mail : Mails \union {NoMail}, inbox : Ids \union {0},
              stored : SUBSET Email, wire : BOOLEAN]

TypeOK ==
    /\ up \in BOOLEAN
    /\ inboxes \in SUBSET Inbox
    /\ emails \in SUBSET Email
    /\ attachments \in SUBSET Attachment
    /\ lastInbox \in Nat /\ lastEmail \in Nat
    /\ tx \in Tx
    /\ sess \in [Conns -> Session]
    /\ client \in [Mails -> {"todo", "accepted", "bounced"}]
    /\ tries \in [Mails -> Nat]
    /\ told \in SUBSET Email /\ lost \in SUBSET Email /\ removed \in SUBSET Email

\* A fresh database, or one kept from when inboxes were created with an expiry.
Init ==
    /\ up = TRUE
    /\ \/ inboxes = {} /\ lastInbox = 0
       \/ \E a \in Addresses : /\ inboxes = {[id |-> 1, address |-> a, expires |-> TRUE]}
                               /\ lastInbox = 1
    /\ emails = {} /\ attachments = {} /\ lastEmail = 0
    /\ tx = NoTx
    /\ sess = [c \in Conns |-> NoSession]
    /\ client = [m \in Mails |-> "todo"]
    /\ tries = [m \in Mails |-> 0]
    /\ told = {} /\ lost = {} /\ removed = {}

-----------------------------------------------------------------------------
(* The session handlers.                                                   *)

DbFree == tx.conn = NoConn
Holds(c) == tx.conn = c

Goto(c, pc) == sess' = [sess EXCEPT ![c].pc = pc]

\* Session.Reset, which go-smtp calls on RSET and after every DATA; once the
\* client is gone the connection is closed instead.
ReadySession == [NoSession EXCEPT !.pc = "ready", !.wire = TRUE]
Cleared(s) == IF s.wire THEN ReadySession ELSE NoSession

\* A 5xx answer reaches the sender only over a live connection.
Bounce(c) == client' = IF sess[c].wire THEN [client EXCEPT ![sess[c].mail] = "bounced"]
                                       ELSE client

NewSession(c) ==
    /\ up
    /\ sess[c] = NoSession
    /\ sess' = [sess EXCEPT ![c] = ReadySession]
    /\ UNCHANGED <<up, database, tx, client, tries, observers>>

Mail(c, m) ==
    /\ sess[c].pc = "ready" /\ sess[c].wire
    /\ client[m] = "todo"
    /\ \A k \in Conns : sess[k].wire => sess[k].mail # m
    /\ tries[m] < MaxTries[m]
    /\ tries' = [tries EXCEPT ![m] = @ + 1]
    /\ sess' = [sess EXCEPT ![c].pc = "mail", ![c].mail = m]
    /\ UNCHANGED <<up, database, tx, client, observers>>

\* Rcpt up to domainAllowed, whose verdict DomainGate is about: refused is
\* 550 5.7.1; an error is 451 and changes nothing.
RcptAllowed(c) ==
    /\ sess[c].pc = "mail" /\ sess[c].wire
    /\ client[sess[c].mail] = "todo"
    /\ Goto(c, "resolve")
    /\ UNCHANGED <<up, database, tx, client, tries, observers>>

RcptRefused(c) ==
    /\ sess[c].pc = "mail" /\ sess[c].wire
    /\ client[sess[c].mail] = "todo"
    /\ Bounce(c)
    /\ UNCHANGED <<up, database, tx, sess, tries, observers>>

\* GetInboxByAddress, a statement of its own: the row may have changed since
\* the domain was checked.  It does not look at expires_at.
InboxesAt(a) == {i \in inboxes : i.address = a}

RcptAccepted(c) ==
    /\ sess[c].pc = "resolve" /\ DbFree
    /\ \E i \in InboxesAt(To[sess[c].mail]) :
           sess' = [sess EXCEPT ![c].pc = "rcpt", ![c].inbox = i.id]
    /\ UNCHANGED <<up, database, tx, client, tries, observers>>

RcptUnknown(c) ==
    /\ sess[c].pc = "resolve" /\ DbFree
    /\ InboxesAt(To[sess[c].mail]) = {}
    /\ Goto(c, "mail")
    /\ Bounce(c)
    /\ UNCHANGED <<up, database, tx, tries, observers>>

\* A failed lookup is 451: the sender may repeat the RCPT.
RcptFails(c) ==
    /\ sess[c].pc = "resolve"
    /\ Goto(c, "mail")
    /\ UNCHANGED <<up, database, tx, client, tries, observers>>

\* Data reads the whole message and parses it before it touches the database.
DataParsed(c) ==
    /\ sess[c].pc = "rcpt" /\ sess[c].wire
    /\ sess[c].inbox # 0
    /\ Goto(c, "save")
    /\ UNCHANGED <<up, database, tx, client, tries, observers>>

\* Too large, unparsable or no recipient: 552 or 554.  A read error: 451.
DataRefused(c) ==
    /\ sess[c].pc = "rcpt" /\ sess[c].wire
    /\ \E pc \in {"refused", "failed"} : Goto(c, pc)
    /\ UNCHANGED <<up, database, tx, client, tries, observers>>

-----------------------------------------------------------------------------
(* SQLite.SaveInboundMessage.                                              *)

BeginTx(c) ==
    /\ sess[c].pc = "save" /\ DbFree
    /\ tx' = [NoTx EXCEPT !.conn = c]
    /\ Goto(c, "insert")
    /\ UNCHANGED <<up, database, client, tries, observers>>

BeginFails(c) ==
    /\ sess[c].pc = "save"
    /\ Goto(c, "failed")
    /\ UNCHANGED <<up, database, tx, client, tries, observers>>

\* Variant: no AUTOINCREMENT, the id of a deleted last row is given again.
FreshIdReused(last) ==
    IF last = 0 \/ last \in {i.id : i \in inboxes} \union {e.id : e \in emails}
    THEN last + 1 ELSE last

\* AUTOINCREMENT: an id above every id the table ever held.
FreshId(last) == last + 1

\* The foreign key: the inbox the session captured at RCPT is still there.
InboxPresent(id) == \E i \in inboxes : i.id = id

MayInsert(c) == InboxPresent(sess[c].inbox) /\ FreshId(lastEmail) \in Ids

\* Variant: the row does not take over the inbox found at RCPT.
EmailRowUnowned(c) == [id |-> FreshId(lastEmail), inbox |-> 0, mail |-> sess[c].mail]

EmailRow(c) == [id |-> FreshId(lastEmail), inbox |-> sess[c].inbox, mail |-> sess[c].mail]

InsertEmail(c) ==
    /\ sess[c].pc = "insert" /\ Holds(c)
    /\ MayInsert(c)
    /\ tx' = [tx EXCEPT !.email = {EmailRow(c)}]
    /\ Goto(c, "attach")
    /\ UNCHANGED <<up, database, client, tries, observers>>

\* Variant: the attachment is inserted through the pool, not the transaction.
InsertAttachmentOutside(c) ==
    /\ sess[c].pc = "attach" /\ DbFree
    /\ tx.parts < Parts[sess[c].mail]
    /\ tx' = [tx EXCEPT !.parts = @ + 1]
    /\ UNCHANGED <<up, database, sess, client, tries, observers>>

InsertAttachment(c) ==
    /\ sess[c].pc = "attach" /\ Holds(c)
    /\ tx.parts < Parts[sess[c].mail]
    /\ tx' = [tx EXCEPT !.parts = @ + 1]
    /\ UNCHANGED <<up, database, sess, client, tries, observers>>

\* Variant: the last attachment is dropped.
AttachmentRowsShort(rows, n) == [email : {e.id : e \in rows}, part : 1..(n - 1)]

\* The attachments of a row, numbered in the order they are inserted.
AttachmentRows(rows, n) == [email : {e.id : e \in rows}, part : 1..n]

Commit(c) ==
    /\ sess[c].pc = "attach" /\ Holds(c)
    /\ tx.parts = Parts[sess[c].mail]
    /\ emails' = emails \union tx.email
    /\ attachments' = attachments \union AttachmentRows(tx.email, tx.parts)
    /\ lastEmail' = FreshId(lastEmail)
    /\ tx' = NoTx
    /\ sess' = [sess EXCEPT ![c].pc = "stored", ![c].stored = tx.email]
    /\ UNCHANGED <<up, inboxes, lastInbox, client, tries, observers>>

\* Variant: a failure commits what was written so far.
RollbackForgotten(c) ==
    /\ Holds(c)
    /\ tx' = NoTx
    /\ emails' = emails \union tx.email
    /\ Goto(c, "failed")
    /\ UNCHANGED <<up, inboxes, attachments, lastInbox, lastEmail, client, tries, observers>>

\* Variant: an error returns without the deferred Rollback.
RollbackSkipped(c) ==
    /\ Holds(c)
    /\ Goto(c, "failed")
    /\ UNCHANGED <<up, database, tx, client, tries, observers>>

\* A statement or the commit fails: the deferred Rollback undoes everything and
\* the connection is free again.
Rollback(c) ==
    /\ Holds(c)
    /\ tx' = NoTx
    /\ Goto(c, "failed")
    /\ UNCHANGED <<up, database, client, tries, observers>>

\* The inbox has gone since RCPT (the foreign key), or the ids are used up.
InsertRefused(c) ==
    /\ sess[c].pc = "insert"
    /\ ~MayInsert(c)
    /\ Rollback(c)

\* The disk, at any statement of the transaction.
StatementFails(c) ==
    /\ sess[c].pc \in {"insert", "attach"}
    /\ Rollback(c)

-----------------------------------------------------------------------------
(* The answer to DATA, then Session.Reset.                                 *)

ReplyStored(c) ==
    /\ sess[c].pc = "stored"
    /\ \/ /\ sess[c].wire
          /\ client' = [client EXCEPT ![sess[c].mail] = "accepted"]
          /\ told' = told \union sess[c].stored
          /\ UNCHANGED lost
       \/ /\ ~sess[c].wire
          /\ lost' = lost \union sess[c].stored
          /\ UNCHANGED <<client, told>>
    /\ sess' = [sess EXCEPT ![c] = Cleared(@)]
    /\ UNCHANGED <<up, database, tx, tries, removed>>

ReplyRefused(c) ==
    /\ sess[c].pc = "refused"
    /\ Bounce(c)
    /\ sess' = [sess EXCEPT ![c] = Cleared(@)]
    /\ UNCHANGED <<up, database, tx, tries, observers>>

\* Variant: the error of SaveInboundMessage is swallowed.
ReplyFailedAccepted(c) ==
    /\ sess[c].pc = "failed"
    /\ client' = IF sess[c].wire THEN [client EXCEPT ![sess[c].mail] = "accepted"] ELSE client
    /\ sess' = [sess EXCEPT ![c] = Cleared(@)]
    /\ UNCHANGED <<up, database, tx, tries, observers>>

ReplyFailed(c) ==
    /\ sess[c].pc = "failed"
    /\ sess' = [sess EXCEPT ![c] = Cleared(@)]
    /\ UNCHANGED <<up, database, tx, client, tries, observers>>

\* RSET, or a second EHLO.
Reset(c) ==
    /\ sess[c].pc \in {"mail", "rcpt"} /\ sess[c].wire
    /\ sess' = [sess EXCEPT ![c] = Cleared(@)]
    /\ UNCHANGED <<up, database, tx, client, tries, observers>>

\* The client quits, times out or is cut off.  A handler that is running goes
\* on without it; an idle session is closed.
Running(c) == sess[c].pc \notin {"ready", "mail", "rcpt"}

Disconnect(c) ==
    /\ sess[c].wire
    /\ sess' = [sess EXCEPT ![c] = IF Running(c) THEN [@ EXCEPT !.wire = FALSE]
                                                 ELSE NoSession]
    /\ UNCHANGED <<up, database, tx, client, tries, observers>>

\* An idle session found closed after its handler returned.
Abandon(c) ==
    /\ sess[c].pc \in {"mail", "rcpt"} /\ ~sess[c].wire
    /\ sess' = [sess EXCEPT ![c] = NoSession]
    /\ UNCHANGED <<up, database, tx, client, tries, observers>>

-----------------------------------------------------------------------------
(* What the rest of the program does to the same tables.                   *)

\* SQLite.CreateInbox: addresses are UNIQUE, accounts never expire.
CreateInbox(a) ==
    /\ up /\ DbFree
    /\ InboxesAt(a) = {}
    /\ FreshId(lastInbox) \in Ids
    /\ inboxes' = inboxes \union
           {[id |-> FreshId(lastInbox), address |-> a, expires |-> FALSE]}
    /\ lastInbox' = FreshId(lastInbox)
    /\ UNCHANGED <<up, emails, attachments, lastEmail, tx, sess, client, tries, observers>>

\* Variant: foreign keys are off for attachments.
CascadeEmailsOnly(gone) ==
    /\ emails' = emails \ gone
    /\ removed' = removed \union gone
    /\ UNCHANGED attachments

\* ON DELETE CASCADE.
Cascade(gone) ==
    /\ emails' = emails \ gone
    /\ attachments' = {a \in attachments : a.email \notin {e.id : e \in gone}}
    /\ removed' = removed \union gone

DeleteEmail(e) ==
    /\ up /\ DbFree
    /\ Cascade({e})
    /\ UNCHANGED <<up, inboxes, lastInbox, lastEmail, tx, sess, client, tries, told, lost>>

\* DeleteExpiredInboxes, run by the cleanup worker: those of the rows with an
\* expiry whose time has come.
DeleteExpiredInboxes(S) ==
    /\ up /\ DbFree
    /\ S # {} /\ \A i \in S : i.expires
    /\ inboxes' = inboxes \ S
    /\ Cascade({e \in emails : e.inbox \in {i.id : i \in S}})
    /\ UNCHANGED <<up, lastInbox, lastEmail, tx, sess, client, tries, told, lost>>

\* The process dies: an open transaction is rolled back by SQLite's recovery,
\* and a copy that was committed but not yet answered is a lost answer.
Unanswered == UNION {sess[c].stored : c \in Conns}

Crash ==
    /\ up
    /\ up' = FALSE
    /\ tx' = NoTx
    /\ lost' = lost \union Unanswered
    /\ sess' = [c \in Conns |-> NoSession]
    /\ UNCHANGED <<database, client, tries, told, removed>>

Restart ==
    /\ ~up
    /\ up' = TRUE
    /\ UNCHANGED <<database, tx, sess, client, tries, observers>>

Save(c) ==
    \/ BeginTx(c) \/ BeginFails(c) \/ InsertEmail(c) \/ InsertRefused(c)
    \/ InsertAttachment(c) \/ Commit(c) \/ StatementFails(c)

Answer(c) == ReplyStored(c) \/ ReplyRefused(c) \/ ReplyFailed(c)

Rcpt(c) ==
    \/ RcptAllowed(c) \/ RcptRefused(c) \/ RcptAccepted(c) \/ RcptUnknown(c) \/ RcptFails(c)

Next ==
    \/ \E c \in Conns, m \in Mails : Mail(c, m)
    \/ \E c \in Conns : \/ NewSession(c) \/ Rcpt(c) \/ DataParsed(c) \/ DataRefused(c)
                        \/ Save(c) \/ Answer(c)
                        \/ Reset(c) \/ Disconnect(c) \/ Abandon(c)
    \/ \E a \in Addresses : CreateInbox(a)
    \/ \E e \in emails : DeleteEmail(e)
    \/ \E S \in SUBSET inboxes : DeleteExpiredInboxes(S)
    \/ Crash \/ Restart

Spec == Init /\ [][Next]_vars

\* A running handler takes its next step.  Waiting for the one connection is
\* strongly fair: database/sql hands it to some waiter whenever it is returned,
\* and no waiter is passed over for ever.  No client, crash or failing
\* statement is owed anything.
Fairness ==
    \A c \in Conns :
        /\ SF_vars(BeginTx(c))
        /\ WF_vars(InsertEmail(c) \/ InsertRefused(c))
        /\ WF_vars(InsertAttachment(c) \/ Commit(c))
        /\ WF_vars(Answer(c))

FairSpec == Spec /\ Fairness

-----------------------------------------------------------------------------
(* Properties.                                                             *)

PartsOf(e) == {a.part : a \in {b \in attachments : b.email = e.id}}

(* No row outlives its parent: a message is in an inbox that exists and an *)
(* attachment belongs to a message that exists, whatever deletions and     *)
(* expiries ran while it was being received.                               *)
NoOrphans ==
    /\ \A e \in emails : \E i \in inboxes : i.id = e.inbox
    /\ \A a \in attachments : \E e \in emails : e.id = a.email

(* A stored message has exactly the attachments it was sent with: the      *)
(* transaction of SaveInboundMessage leaves no message cut short.          *)
MessagesComplete == \A e \in emails : PartsOf(e) = 1..Parts[e.mail]

(* A message lies in the inbox of the address its sender named, though the *)
(* inbox was looked up at RCPT, used at DATA, and may have been deleted    *)
(* and its address registered anew in between.                             *)
DeliveredAsAddressed ==
    \A e \in emails, i \in inboxes : e.inbox = i.id => i.address = To[e.mail]

(* Every copy that was ever stored is accounted for: either its sender was *)
(* told 250, or the 250 is about to be sent, or it was lost with the       *)
(* connection or the process.  So 250 means stored once, any other answer  *)
(* means not stored, and only a lost 250 makes a duplicate.                *)
CopiesAccounted ==
    /\ emails \union removed = told \union lost \union Unanswered
    /\ told \intersect lost = {}
    /\ Unanswered \intersect (told \union lost) = {}
    /\ \A e, f \in told : e.mail = f.mail => e = f
    /\ \A m \in Mails : client[m] = "accepted" <=> \E e \in told : e.mail = m

(* The one database connection is never leaked and never waited for in     *)
(* vain: who has it is inside a transaction with a statement left that     *)
(* needs nobody else, and who is inside a transaction has it.  So no       *)
(* failure, crash or lost client leaves the pool empty for good.           *)
ConnectionReturned ==
    /\ ~DbFree => \E c \in Conns : Holds(c) /\ sess[c].pc \in {"insert", "attach"}
    /\ \A c \in Conns : sess[c].pc \in {"insert", "attach"} =>
           /\ Holds(c)
           /\ sess[c].pc = "attach" => tx.parts <= Parts[sess[c].mail]

(* Every DATA that reached the database is answered or its connection is   *)
(* gone: the transaction never waits for the connection it holds itself,   *)
(* and no two handlers wait for each other.                                *)
DataAnswered ==
    \A c \in Conns :
        sess[c].pc \in {"save", "insert", "attach"} ~> sess[c].pc \in {"ready", "closed"}

(* The sessions, the transaction and the crashes implement MailStore:      *)
(* messages appear whole and atomically at Commit, and a sender is told    *)
(* 250 only for a message that has appeared.                               *)
Store == INSTANCE MailStore
    WITH messages  <- {[id |-> e.id, inbox |-> e.inbox, mail |-> e.mail,
                        parts |-> PartsOf(e)] : e \in emails},
         delivered <- {e.mail : e \in emails \union removed},
         accepted  <- {m \in Mails : client[m] = "accepted"}

ImplementsMailStore == Store!Spec
=============================================================================
