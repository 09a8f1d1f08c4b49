------------------------- MODULE SmtpDeliveryProofs -------------------------
(***************************************************************************)
(* Proofs about SmtpDelivery, for any sets of connections, addresses,      *)
(* submissions and row ids.  What a handler holds (the inbox captured at   *)
(* RCPT, the open transaction, the copy not answered for yet) is related   *)
(* to the tables one invariant at a time; each has a lemma for the steps   *)
(* of the session it is about and one for everybody else's.                *)
(***************************************************************************)
EXTENDS SmtpDelivery, TLAPS

USE SmtpDeliveryAssumption

LEMMA IdsAreNat == \A n \in Ids \union {0} : n \in Nat
  <1> TAKE n \in Ids \union {0}
  <1>1. CASE n \in Ids
    <2>1. n \in Nat \ {0}
      BY <1>1
    <2> QED BY <2>1
  <1>2. CASE n = 0
    BY <1>2
  <1> QED BY <1>1, <1>2

-----------------------------------------------------------------------------
(* Types.                                                                  *)

\* Between MAIL and the reset, a session is about one submission.
Working(c) == sess[c].pc \notin {"closed", "ready"}
SessionShape == \A c \in Conns : Working(c) => sess[c].mail \in Mails

LEMMA TypeInit == Init => TypeOK
  <1> SUFFICES ASSUME Init PROVE TypeOK
    OBVIOUS
  <1>1. inboxes \in SUBSET Inbox /\ lastInbox \in Nat
    <2>1. CASE inboxes = {}
      BY <2>1 DEF Init
    <2>2. ASSUME NEW a \in Addresses,
                 inboxes = {[id |-> 1, address |-> a, expires |-> TRUE]}
          PROVE  inboxes \in SUBSET Inbox
      <3>1. [id |-> 1, address |-> a, expires |-> TRUE] \in Inbox
        BY DEF Inbox
      <3> QED BY <2>2, <3>1
    <2> QED BY <2>1, <2>2 DEF Init
  <1>2. tx \in Tx
    BY DEF Init, NoTx, Tx
  <1>3. sess \in [Conns -> Session]
    BY DEF Init, NoSession, Session, Pcs
  <1> QED BY <1>1, <1>2, <1>3 DEF Init, TypeOK

\* A handler that only moves to another place keeps the session's type.
LEMMA GotoType ==
    ASSUME TypeOK, NEW c \in Conns, NEW pc \in Pcs, Goto(c, pc)
    PROVE  sess' \in [Conns -> Session]
  BY DEF TypeOK, Goto, Session

\* What RCPT, COMMIT and a broken wire write into a session record.
LEMMA SessionUpdates ==
    ASSUME NEW s \in Session
    PROVE  /\ \A n \in Ids : [s EXCEPT !.pc = "rcpt", !.inbox = n] \in Session
           /\ \A rows \in SUBSET Email :
                  [s EXCEPT !.pc = "stored", !.stored = rows] \in Session
           /\ [s EXCEPT !.wire = FALSE] \in Session
  BY DEF Session, Pcs

LEMMA ClearedType == ASSUME NEW s \in Session PROVE Cleared(s) \in Session
  BY DEF Cleared, ReadySession, NoSession, Session, Pcs

LEMMA TypeStep == TypeOK /\ SessionShape /\ [Next]_vars => TypeOK'
  <1> SUFFICES ASSUME TypeOK, SessionShape, [Next]_vars PROVE TypeOK'
    OBVIOUS
  <1> USE DEF database, observers
  <1>1. ASSUME NEW c \in Conns, NEW m \in Mails, Mail(c, m) PROVE TypeOK'
    BY <1>1 DEF TypeOK, Mail, Session, Pcs
  <1>2. ASSUME NEW c \in Conns, NewSession(c) PROVE TypeOK'
    <2>1. ReadySession \in Session
      BY DEF ReadySession, NoSession, Session, Pcs
    <2> QED BY <1>2, <2>1 DEF TypeOK, NewSession
  <1>3. ASSUME NEW c \in Conns, Rcpt(c) PROVE TypeOK'
    <2>1. CASE RcptAllowed(c)
      BY <2>1, GotoType DEF TypeOK, RcptAllowed, Pcs
    <2>2. CASE RcptRefused(c)
      BY <2>2 DEF TypeOK, RcptRefused, Bounce
    <2>3. CASE RcptAccepted(c)
      <3>1. PICK i \in InboxesAt(To[sess[c].mail]) :
                   sess' = [sess EXCEPT ![c].pc = "rcpt", ![c].inbox = i.id]
        BY <2>3 DEF RcptAccepted
      <3>2. i.id \in Ids
        BY <3>1 DEF TypeOK, InboxesAt, Inbox
      <3>3. [sess[c] EXCEPT !.pc = "rcpt", !.inbox = i.id] \in Session
        BY <3>2, SessionUpdates DEF TypeOK
      <3> QED BY <2>3, <3>1, <3>3 DEF TypeOK, RcptAccepted
    <2>4. CASE RcptUnknown(c)
      BY <2>4, GotoType DEF TypeOK, RcptUnknown, Bounce, Pcs
    <2>5. CASE RcptFails(c)
      BY <2>5, GotoType DEF TypeOK, RcptFails, Pcs
    <2> QED BY <1>3, <2>1, <2>2, <2>3, <2>4, <2>5 DEF Rcpt
  <1>4. ASSUME NEW c \in Conns, DataParsed(c) \/ DataRefused(c) PROVE TypeOK'
    BY <1>4, GotoType DEF TypeOK, DataParsed, DataRefused, Pcs
  <1>5. ASSUME NEW c \in Conns, Save(c) PROVE TypeOK'
    <2>1. CASE BeginTx(c)
      BY <2>1, GotoType DEF TypeOK, BeginTx, NoTx, Tx, Pcs
    <2>2. CASE BeginFails(c)
      BY <2>2, GotoType DEF TypeOK, BeginFails, Pcs
    <2>3. CASE InsertEmail(c)
      <3>1. EmailRow(c) \in Email
        <4>1. sess[c].inbox \in Ids /\ FreshId(lastEmail) \in Ids
          BY <2>3 DEF TypeOK, InsertEmail, MayInsert, InboxPresent, Inbox
        <4>2. sess[c].mail \in Mails
          BY <2>3 DEF InsertEmail, SessionShape, Working
        <4> QED BY <4>1, <4>2 DEF EmailRow, Email
      <3> QED BY <2>3, <3>1, GotoType DEF TypeOK, InsertEmail, Tx, Pcs
    <2>4. CASE InsertRefused(c) \/ StatementFails(c)
      <3>1. NoTx \in Tx
        BY DEF NoTx, Tx
      <3> QED BY <2>4, <3>1, GotoType DEF TypeOK, InsertRefused, StatementFails, Rollback, Pcs
    <2>5. CASE InsertAttachment(c)
      BY <2>5 DEF TypeOK, InsertAttachment, Tx
    <2>6. CASE Commit(c)
      <3>1. tx.email \in SUBSET Email /\ tx.parts \in Nat /\ NoTx \in Tx
        BY DEF TypeOK, Tx, NoTx
      <3>2. AttachmentRows(tx.email, tx.parts) \in SUBSET Attachment
        BY <3>1 DEF AttachmentRows, Attachment, Email
      <3>3. sess' \in [Conns -> Session]
        <4>1. [sess[c] EXCEPT !.pc = "stored", !.stored = tx.email] \in Session
          BY <3>1, SessionUpdates DEF TypeOK
        <4> QED BY <2>6, <4>1 DEF TypeOK, Commit
      <3> QED BY <2>6, <3>1, <3>2, <3>3 DEF TypeOK, Commit, FreshId
    <2> QED BY <1>5, <2>1, <2>2, <2>3, <2>4, <2>5, <2>6 DEF Save
  <1>6. ASSUME NEW c \in Conns, Answer(c) PROVE TypeOK'
    <2>1. sess' \in [Conns -> Session]
      BY <1>6, ClearedType DEF TypeOK, Answer, ReplyStored, ReplyRefused, ReplyFailed
    <2>2. sess[c].stored \in SUBSET Email
      BY DEF TypeOK, Session
    <2> QED
      BY <1>6, <2>1, <2>2 DEF TypeOK, Answer, ReplyStored, ReplyRefused, ReplyFailed, Bounce
  <1>7. ASSUME NEW c \in Conns, Reset(c) PROVE TypeOK'
    BY <1>7, ClearedType DEF TypeOK, Reset
  <1>8. ASSUME NEW c \in Conns, Disconnect(c) \/ Abandon(c) PROVE TypeOK'
    <2>1. NoSession \in Session
      BY DEF NoSession, Session, Pcs
    <2>2. [sess[c] EXCEPT !.wire = FALSE] \in Session
      BY SessionUpdates DEF TypeOK
    <2>3. sess' \in [Conns -> Session]
      BY <1>8, <2>1, <2>2 DEF TypeOK, Disconnect, Abandon
    <2> QED BY <1>8, <2>3 DEF TypeOK, Disconnect, Abandon
  <1>9. ASSUME NEW a \in Addresses, CreateInbox(a) PROVE TypeOK'
    <2>1. [id |-> FreshId(lastInbox), address |-> a, expires |-> FALSE] \in Inbox
      BY <1>9 DEF CreateInbox, Inbox
    <2> QED BY <1>9, <2>1 DEF TypeOK, CreateInbox, FreshId
  <1>10. ASSUME NEW e \in emails, DeleteEmail(e) PROVE TypeOK'
    BY <1>10 DEF TypeOK, DeleteEmail, Cascade
  <1>11. ASSUME NEW S \in SUBSET inboxes, DeleteExpiredInboxes(S) PROVE TypeOK'
    BY <1>11 DEF TypeOK, DeleteExpiredInboxes, Cascade
  <1>12. CASE Crash
    <2>1. NoSession \in Session /\ NoTx \in Tx
      BY DEF NoSession, Session, Pcs, NoTx, Tx
    <2>2. Unanswered \in SUBSET Email
      BY DEF TypeOK, Unanswered, Session
    <2> QED BY <1>12, <2>1, <2>2 DEF TypeOK, Crash
  <1>13. CASE Restart
    BY <1>13 DEF TypeOK, Restart
  <1>14. CASE UNCHANGED vars
    BY <1>14 DEF TypeOK, vars
  <1> QED BY <1>1, <1>2, <1>3, <1>4, <1>5, <1>6, <1>7, <1>8, <1>9, <1>10,
             <1>11, <1>12, <1>13, <1>14 DEF Next

\* What one step does to one session: nothing, its own handler's step, or the
\* end of the process.
StepOf(c) ==
    \/ \E m \in Mails : Mail(c, m)
    \/ NewSession(c) \/ Rcpt(c) \/ DataParsed(c) \/ DataRefused(c) \/ Save(c) \/ Answer(c)
    \/ Reset(c) \/ Disconnect(c) \/ Abandon(c)

LEMMA OnlyItsOwn ==
    ASSUME TypeOK, NEW k \in Conns, StepOf(k)
    PROVE  \A c \in Conns \ {k} : sess'[c] = sess[c]
  <1> DEFINE Only == \E s : sess' = [sess EXCEPT ![k] = s]
  <1> USE DEF Goto
  <1>1. ASSUME Only PROVE \A c \in Conns \ {k} : sess'[c] = sess[c]
    BY <1>1 DEF TypeOK
  <1>2. CASE (\E m \in Mails : Mail(k, m)) \/ NewSession(k) \/ DataParsed(k) \/ DataRefused(k)
    BY <1>1, <1>2 DEF TypeOK, Mail, NewSession, DataParsed, DataRefused
  <1>3. CASE Rcpt(k)
    BY <1>1, <1>3
    DEF TypeOK, Rcpt, RcptAllowed, RcptRefused, RcptAccepted, RcptUnknown, RcptFails
  <1>4. CASE Save(k)
    BY <1>1, <1>4 DEF TypeOK, Save, BeginTx, BeginFails, InsertEmail, InsertRefused,
                      InsertAttachment, Commit, StatementFails, Rollback
  <1>5. CASE Answer(k) \/ Reset(k) \/ Disconnect(k) \/ Abandon(k)
    BY <1>1, <1>5 DEF Answer, ReplyStored, ReplyRefused, ReplyFailed, Reset, Disconnect, Abandon
  <1> QED BY <1>2, <1>3, <1>4, <1>5 DEF StepOf

LEMMA OneSession ==
    ASSUME TypeOK, [Next]_vars, NEW c \in Conns
    PROVE  sess'[c] = sess[c] \/ StepOf(c) \/ Crash
  <1>1. CASE \E k \in Conns : StepOf(k)
    BY <1>1, OnlyItsOwn
  <1>2. CASE \/ \E a \in Addresses : CreateInbox(a)
             \/ \E e \in emails : DeleteEmail(e)
             \/ \E S \in SUBSET inboxes : DeleteExpiredInboxes(S)
             \/ Restart \/ UNCHANGED vars
    BY <1>2 DEF CreateInbox, DeleteEmail, DeleteExpiredInboxes, Restart, vars
  <1> QED BY <1>1, <1>2 DEF Next, StepOf

LEMMA ShapeStep == TypeOK /\ SessionShape /\ [Next]_vars => SessionShape'
  <1> SUFFICES ASSUME TypeOK, SessionShape, [Next]_vars, NEW c \in Conns, Working(c)'
               PROVE  sess'[c].mail \in Mails
    BY DEF SessionShape
  <1> USE DEF Working, SessionShape
  <1>1. CASE sess'[c] = sess[c]
    BY <1>1
  <1>2. ASSUME NEW m \in Mails, Mail(c, m) PROVE sess'[c].mail \in Mails
    BY <1>2 DEF TypeOK, Session, Mail
  <1>3. ASSUME NEW pc, Goto(c, pc), Working(c) PROVE sess'[c].mail \in Mails
    BY <1>3 DEF TypeOK, Session, Goto
  <1>4. CASE Rcpt(c)
    BY <1>1, <1>3, <1>4
    DEF TypeOK, Session, Rcpt, RcptAllowed, RcptRefused, RcptAccepted, RcptUnknown, RcptFails
  <1>5. CASE DataParsed(c) \/ DataRefused(c)
    BY <1>3, <1>5 DEF DataParsed, DataRefused
  <1>6. CASE Save(c)
    BY <1>1, <1>3, <1>6
    DEF TypeOK, Session, Save, BeginTx, BeginFails, InsertEmail, InsertRefused,
        InsertAttachment, Commit, StatementFails, Rollback
  <1>7. CASE NewSession(c) \/ Answer(c) \/ Reset(c) \/ Abandon(c)
    <2>1. sess'[c] \in {Cleared(sess[c]), ReadySession, NoSession}
      BY <1>7 DEF TypeOK, NewSession, Answer, ReplyStored, ReplyRefused, ReplyFailed,
                  Reset, Abandon
    <2>2. ReadySession.pc = "ready" /\ NoSession.pc = "closed"
      BY DEF ReadySession, NoSession
    <2> QED BY <2>1, <2>2 DEF Cleared
  <1>8. CASE Disconnect(c)
    <2>1. sess'[c] = [sess[c] EXCEPT !.wire = FALSE] \/ sess'[c] = NoSession
      BY <1>8 DEF TypeOK, Disconnect
    <2> QED BY <2>1 DEF TypeOK, Session, NoSession
  <1>9. CASE Crash
    BY <1>9 DEF Crash, NoSession
  <1> QED BY OneSession, <1>1, <1>2, <1>4, <1>5, <1>6, <1>7, <1>8, <1>9 DEF StepOf

(* Every variable of the delivery path keeps its type, for any constants.  *)
THEOREM TypeCorrect == Spec => []TypeOK
  <1>1. Init => SessionShape
    BY DEF Init, SessionShape, Working, NoSession
  <1> QED BY <1>1, TypeInit, TypeStep, ShapeStep, PTL DEF Spec

-----------------------------------------------------------------------------
(* The inbox a session captured at RCPT.  Ids are never given twice, so    *)
(* whatever becomes of the row, the captured id can only ever denote an    *)
(* inbox with the address the sender named.                                *)

Early == {"closed", "ready", "mail", "resolve"}

CapturedBy(s) ==
    /\ s.inbox <= lastInbox
    /\ s.pc \in Early => s.inbox = 0
    /\ \A i \in inboxes : i.id = s.inbox => i.address = To[s.mail]

InboxIds ==
    /\ \A i \in inboxes : i.id <= lastInbox
    /\ \A i, j \in inboxes : i.id = j.id => i = j

CaptureInv == InboxIds /\ \A c \in Conns : CapturedBy(sess[c])

LEMMA CaptureInit == Init => CaptureInv
  <1> SUFFICES ASSUME Init PROVE CaptureInv
    OBVIOUS
  <1>1. InboxIds
    <2>1. CASE inboxes = {}
      BY <2>1 DEF InboxIds
    <2>2. ASSUME NEW a \in Addresses, lastInbox = 1,
                 inboxes = {[id |-> 1, address |-> a, expires |-> TRUE]}
          PROVE  InboxIds
      BY <2>2 DEF InboxIds
    <2> QED BY <2>1, <2>2 DEF Init
  <1>2. \A i \in inboxes : i.id = 1
    BY DEF Init
  <1>3. 0 <= lastInbox
    BY DEF Init
  <1>4. NoSession.inbox = 0
    BY DEF NoSession
  <1> QED BY <1>1, <1>2, <1>3, <1>4 DEF Init, CaptureInv, CapturedBy

\* A step of a session's handler leaves the table of inboxes alone.
LEMMA StepKeepsInboxes ==
    ASSUME NEW c \in Conns, StepOf(c)
    PROVE  UNCHANGED <<inboxes, lastInbox>>
  <1> USE DEF database
  <1>1. CASE Rcpt(c)
    BY <1>1 DEF Rcpt, RcptAllowed, RcptRefused, RcptAccepted, RcptUnknown, RcptFails
  <1>2. CASE Save(c)
    BY <1>2 DEF Save, BeginTx, BeginFails, InsertEmail, InsertRefused,
                InsertAttachment, Commit, StatementFails, Rollback
  <1>3. CASE Answer(c)
    BY <1>3 DEF Answer, ReplyStored, ReplyRefused, ReplyFailed
  <1> QED
    BY <1>1, <1>2, <1>3
    DEF StepOf, Mail, NewSession, DataParsed, DataRefused, Reset, Disconnect, Abandon

\* Nor does it end the process.
LEMMA StepKeepsUp == ASSUME NEW c \in Conns, StepOf(c) PROVE up' = up
  <1>1. CASE Rcpt(c)
    BY <1>1 DEF Rcpt, RcptAllowed, RcptRefused, RcptAccepted, RcptUnknown, RcptFails
  <1>2. CASE Save(c)
    BY <1>2 DEF Save, BeginTx, BeginFails, InsertEmail, InsertRefused,
                InsertAttachment, Commit, StatementFails, Rollback
  <1>3. CASE Answer(c)
    BY <1>3 DEF Answer, ReplyStored, ReplyRefused, ReplyFailed
  <1> QED
    BY <1>1, <1>2, <1>3
    DEF StepOf, Mail, NewSession, DataParsed, DataRefused, Reset, Disconnect, Abandon

LEMMA CaptureBySession ==
    ASSUME TypeOK, CaptureInv, NEW c \in Conns, StepOf(c)
    PROVE  CapturedBy(sess[c])'
  <1>0. UNCHANGED <<inboxes, lastInbox>>
    BY StepKeepsInboxes
  <1>1. sess[c] \in Session /\ CapturedBy(sess[c]) /\ lastInbox \in Nat
    BY DEF TypeOK, CaptureInv
  <1>2. \A i \in inboxes : i.id \in Nat /\ i.id # 0
    BY DEF TypeOK, Inbox
  <1>3. ASSUME sess'[c].inbox = 0 PROVE CapturedBy(sess[c])'
    BY <1>0, <1>1, <1>2, <1>3 DEF CapturedBy
  <1>4. ASSUME sess'[c].inbox = sess[c].inbox, sess'[c].mail = sess[c].mail,
               sess'[c].pc \notin Early \/ sess[c].pc \in Early
        PROVE  CapturedBy(sess[c])'
    BY <1>0, <1>1, <1>2, <1>4 DEF CapturedBy
  <1>5. ASSUME NEW pc, Goto(c, pc), pc \notin Early \/ sess[c].pc \in Early
        PROVE  CapturedBy(sess[c])'
    BY <1>4, <1>5 DEF TypeOK, Session, Goto
  <1>6. ASSUME NEW m \in Mails, Mail(c, m) PROVE CapturedBy(sess[c])'
    <2>1. sess[c].inbox = 0
      BY <1>1, <1>6 DEF Mail, CapturedBy, Early
    <2> QED BY <1>1, <1>3, <1>6, <2>1 DEF TypeOK, Session, Mail
  <1>7. CASE NewSession(c) \/ Answer(c) \/ Reset(c) \/ Abandon(c)
    <2>1. sess'[c] \in {Cleared(sess[c]), ReadySession, NoSession}
      BY <1>7 DEF TypeOK, NewSession, Answer, ReplyStored, ReplyRefused, ReplyFailed,
                  Reset, Abandon
    <2>2. ReadySession.inbox = 0 /\ NoSession.inbox = 0
      BY DEF ReadySession, NoSession
    <2> QED BY <1>3, <2>1, <2>2 DEF Cleared
  <1>8. CASE Disconnect(c)
    <2>1. sess'[c] = [sess[c] EXCEPT !.wire = FALSE] \/ sess'[c] = NoSession
      BY <1>8 DEF TypeOK, Disconnect
    <2>2. NoSession.inbox = 0
      BY DEF NoSession
    <2> QED BY <1>1, <1>3, <1>4, <2>1, <2>2 DEF Session
  <1>9. CASE RcptAccepted(c)
    <2>1. PICK i \in InboxesAt(To[sess[c].mail]) :
                 sess' = [sess EXCEPT ![c].pc = "rcpt", ![c].inbox = i.id]
      BY <1>9 DEF RcptAccepted
    <2>2. /\ sess'[c].inbox = i.id
          /\ sess'[c].mail = sess[c].mail
          /\ sess'[c].pc = "rcpt"
      BY <1>1, <2>1 DEF TypeOK, Session
    <2>3. i \in inboxes /\ i.address = To[sess[c].mail]
      BY DEF InboxesAt
    <2> QED BY <1>0, <2>2, <2>3 DEF CapturedBy, CaptureInv, InboxIds, Early
  <1>10. CASE RcptAllowed(c) \/ RcptRefused(c) \/ RcptUnknown(c) \/ RcptFails(c)
    BY <1>1, <1>4, <1>5, <1>10 DEF RcptAllowed, RcptRefused, RcptUnknown, RcptFails, Early
  <1>11. CASE DataParsed(c) \/ DataRefused(c)
    BY <1>5, <1>11 DEF DataParsed, DataRefused, Early
  <1>12. CASE Commit(c)
    BY <1>1, <1>4, <1>12 DEF TypeOK, Commit, Session, Early
  <1>13. CASE Save(c) /\ ~Commit(c)
    BY <1>1, <1>4, <1>5, <1>13
    DEF Save, BeginTx, BeginFails, InsertEmail, InsertRefused, InsertAttachment,
        StatementFails, Rollback, Early
  <1> QED BY <1>6, <1>7, <1>8, <1>9, <1>10, <1>11, <1>12, <1>13 DEF StepOf, Rcpt

LEMMA CaptureStep == TypeOK /\ CaptureInv /\ [Next]_vars => CaptureInv'
  <1> SUFFICES ASSUME TypeOK, CaptureInv, [Next]_vars PROVE CaptureInv'
    OBVIOUS
  <1> USE DEF database
  <1>1. CASE \E c \in Conns : StepOf(c)
    <2>1. UNCHANGED <<inboxes, lastInbox>>
      BY <1>1, StepKeepsInboxes
    <2>2. ~Crash
      BY <1>1, StepKeepsUp DEF Crash
    <2>3. \A c \in Conns : CapturedBy(sess[c])'
      BY <2>1, <2>2, OneSession, CaptureBySession DEF CaptureInv, CapturedBy
    <2> QED BY <2>1, <2>3 DEF CaptureInv, InboxIds
  <1>2. ASSUME NEW a \in Addresses, CreateInbox(a) PROVE CaptureInv'
    <2>1. \A i \in inboxes : i.id \in Nat
      BY DEF TypeOK, Inbox
    <2>2. \A c \in Conns : sess[c].inbox \in Nat
      <3>1. \A c \in Conns : sess[c].inbox \in Ids \union {0}
        BY DEF TypeOK, Session
      <3> QED BY <3>1, IdsAreNat
    <2> DEFINE new == [id |-> FreshId(lastInbox), address |-> a, expires |-> FALSE]
    <2>3. new.id = lastInbox + 1 /\ inboxes' = inboxes \union {new} /\ lastInbox' = lastInbox + 1
      BY <1>2 DEF CreateInbox, FreshId
    <2>4. \A i \in inboxes : i.id < new.id
      BY <2>1, <2>3 DEF TypeOK, CaptureInv, InboxIds
    <2> HIDE DEF new
    <2>5. InboxIds'
      BY <2>1, <2>3, <2>4 DEF TypeOK, CaptureInv, InboxIds
    <2>6. \A c \in Conns : CapturedBy(sess[c])'
      <3> SUFFICES ASSUME NEW c \in Conns PROVE CapturedBy(sess[c])'
        OBVIOUS
      <3>1. CapturedBy(sess[c]) /\ sess' = sess
        BY <1>2 DEF CreateInbox, CaptureInv
      <3>2. sess[c].inbox < new.id
        BY <2>2, <2>3, <3>1 DEF TypeOK, CapturedBy
      <3> QED BY <2>2, <2>3, <3>1, <3>2 DEF TypeOK, CapturedBy
    <2> QED BY <2>5, <2>6 DEF CaptureInv
  <1>3. CASE \/ \E e \in emails : DeleteEmail(e)
             \/ \E S \in SUBSET inboxes : DeleteExpiredInboxes(S)
             \/ Restart \/ UNCHANGED vars
    BY <1>3 DEF DeleteEmail, DeleteExpiredInboxes, Cascade, Restart, vars, CaptureInv,
                InboxIds, CapturedBy
  <1>4. CASE Crash
    <2>1. NoSession.inbox = 0 /\ \A i \in inboxes : i.id # 0
      BY DEF NoSession, TypeOK, Inbox
    <2> QED BY <1>4, <2>1 DEF TypeOK, Crash, CaptureInv, InboxIds, CapturedBy
  <1> QED BY <1>1, <1>2, <1>3, <1>4 DEF Next, StepOf

-----------------------------------------------------------------------------
(* The transaction.  Its holder is a handler inside SaveInboundMessage,    *)
(* and what it has written is the row of that session.  The foreign key    *)
(* checked at the insert still holds at the commit: nobody else can touch  *)
(* the tables in between.                                                  *)

TxBy(c) ==
    tx.conn = c =>
        \/ sess[c].pc = "insert" /\ tx.email = {} /\ tx.parts = 0
        \/ sess[c].pc = "attach" /\ tx.email = {EmailRow(c)} /\ EmailRow(c) \in Email
                                /\ InboxPresent(sess[c].inbox)

TxInv == \A c \in Conns : TxBy(c)

\* Only the holder, or a handler that finds the connection free, touches it.
LEMMA TxFrame ==
    ASSUME NEW k \in Conns, StepOf(k), TypeOK
    PROVE  \/ UNCHANGED <<tx, lastEmail>>
           \/ tx.conn \in {k, NoConn} /\ tx'.conn \in {k, NoConn}
  <1> USE DEF database
  <1>1. CASE Rcpt(k)
    BY <1>1 DEF Rcpt, RcptAllowed, RcptRefused, RcptAccepted, RcptUnknown, RcptFails
  <1>2. CASE Save(k)
    <2>1. CASE BeginTx(k)
      BY <2>1 DEF BeginTx, DbFree, NoTx
    <2>2. CASE InsertEmail(k) \/ InsertAttachment(k)
      BY <2>2 DEF InsertEmail, InsertAttachment, Holds, TypeOK, Tx
    <2>3. CASE InsertRefused(k) \/ StatementFails(k) \/ Commit(k)
      BY <2>3 DEF InsertRefused, StatementFails, Commit, Rollback, Holds, NoTx
    <2>4. CASE BeginFails(k)
      BY <2>4 DEF BeginFails
    <2> QED BY <1>2, <2>1, <2>2, <2>3, <2>4 DEF Save
  <1>3. CASE Answer(k)
    BY <1>3 DEF Answer, ReplyStored, ReplyRefused, ReplyFailed
  <1> QED
    BY <1>1, <1>2, <1>3
    DEF StepOf, Mail, NewSession, DataParsed, DataRefused, Reset, Disconnect, Abandon

\* The holder's own step.
LEMMA TxBySession ==
    ASSUME TypeOK, SessionShape, NEW c \in Conns, TxBy(c), StepOf(c)
    PROVE  TxBy(c)'
  <1> SUFFICES ASSUME tx'.conn = c PROVE TxBy(c)'
    BY DEF TxBy
  <1>1. c # NoConn /\ sess[c] \in Session /\ tx \in Tx
    BY DEF TypeOK
  <1>2. CASE BeginTx(c)
    <2>1. tx'.email = {} /\ tx'.parts = 0
      BY <1>2 DEF BeginTx, NoTx
    <2>2. sess'[c].pc = "insert"
      BY <1>1, <1>2 DEF BeginTx, Goto, TypeOK, Session
    <2> QED BY <2>1, <2>2 DEF TxBy
  <1>3. CASE InsertEmail(c)
    <2>1. /\ sess'[c].pc = "attach" /\ sess'[c].inbox = sess[c].inbox
          /\ sess'[c].mail = sess[c].mail
      BY <1>1, <1>3 DEF InsertEmail, Goto, TypeOK, Session
    <2>2. lastEmail' = lastEmail /\ inboxes' = inboxes /\ tx'.email = {EmailRow(c)}
      BY <1>1, <1>3 DEF InsertEmail, database, Tx
    <2>3. EmailRow(c)' = EmailRow(c) /\ InboxPresent(sess[c].inbox)'
      BY <1>3, <2>1, <2>2 DEF EmailRow, FreshId, InboxPresent, InsertEmail, MayInsert
    <2>4. EmailRow(c) \in Email
      <3>1. sess[c].inbox \in Ids /\ FreshId(lastEmail) \in Ids
        BY <1>3 DEF TypeOK, InsertEmail, MayInsert, InboxPresent, Inbox
      <3>2. sess[c].mail \in Mails
        BY <1>3 DEF InsertEmail, SessionShape, Working
      <3> QED BY <3>1, <3>2 DEF EmailRow, Email
    <2> QED BY <2>1, <2>2, <2>3, <2>4 DEF TxBy
  <1>4. CASE InsertAttachment(c)
    BY <1>1, <1>4 DEF InsertAttachment, database, Tx, TxBy, Holds, EmailRow, InboxPresent
  <1>5. CASE Commit(c) \/ InsertRefused(c) \/ StatementFails(c)
    BY <1>1, <1>5 DEF Commit, InsertRefused, StatementFails, Rollback, NoTx
  <1>6. CASE Disconnect(c)
    <2>1. tx' = tx /\ lastEmail' = lastEmail /\ inboxes' = inboxes
      BY <1>6 DEF Disconnect, database
    <2>2. sess[c].pc \in {"insert", "attach"}
      BY <2>1 DEF TxBy
    <2>3. sess'[c] = [sess[c] EXCEPT !.wire = FALSE]
      BY <1>6, <2>2 DEF TypeOK, Disconnect, Running
    <2>4. /\ sess'[c].pc = sess[c].pc /\ sess'[c].inbox = sess[c].inbox
          /\ sess'[c].mail = sess[c].mail
      BY <1>1, <2>3 DEF Session
    <2> QED BY <2>1, <2>4 DEF TxBy, EmailRow, InboxPresent
  <1>7. ASSUME ~Disconnect(c), ~BeginTx(c), ~InsertEmail(c), ~InsertAttachment(c), ~Commit(c),
               ~InsertRefused(c), ~StatementFails(c)
        PROVE  FALSE
    <2>1. tx' = tx /\ sess[c].pc \notin {"insert", "attach"}
      BY <1>7 DEF StepOf, Mail, NewSession, Rcpt, RcptAllowed, RcptRefused, RcptAccepted,
                  RcptUnknown, RcptFails, DataParsed, DataRefused, Save, BeginFails,
                  Answer, ReplyStored, ReplyRefused, ReplyFailed, Reset, Abandon, NoSession
    <2> QED BY <2>1 DEF TxBy
  <1> QED BY <1>2, <1>3, <1>4, <1>5, <1>6, <1>7

LEMMA TxStep == TypeOK /\ SessionShape /\ TxInv /\ [Next]_vars => TxInv'
  <1> SUFFICES ASSUME TypeOK, SessionShape, TxInv, [Next]_vars, NEW c \in Conns PROVE TxBy(c)'
    BY DEF TxInv
  <1>0. TxBy(c) /\ c # NoConn
    BY DEF TxInv
  <1> USE DEF database
  <1>1. CASE StepOf(c)
    BY <1>0, <1>1, TxBySession
  <1>2. ASSUME NEW k \in Conns, StepOf(k), ~StepOf(c), ~Crash PROVE TxBy(c)'
    <2>1. sess'[c] = sess[c] /\ k # c
      BY <1>2, OneSession
    <2>2. UNCHANGED <<inboxes, lastInbox>>
      BY <1>2, StepKeepsInboxes
    <2>3. CASE UNCHANGED <<tx, lastEmail>>
      BY <1>0, <2>1, <2>2, <2>3 DEF TxBy, EmailRow, InboxPresent
    <2>4. CASE tx.conn \in {k, NoConn} /\ tx'.conn \in {k, NoConn}
      BY <1>0, <2>1, <2>4 DEF TxBy
    <2> QED BY <1>2, <2>3, <2>4, TxFrame
  <1>3. CASE \/ \E a \in Addresses : CreateInbox(a)
             \/ \E e \in emails : DeleteEmail(e)
             \/ \E S \in SUBSET inboxes : DeleteExpiredInboxes(S)
    BY <1>0, <1>3 DEF CreateInbox, DeleteEmail, DeleteExpiredInboxes, DbFree, TxBy
  <1>4. CASE Restart \/ UNCHANGED vars
    BY <1>0, <1>4 DEF Restart, vars, TxBy, EmailRow, InboxPresent
  <1>5. CASE Crash
    BY <1>0, <1>5 DEF Crash, NoTx, TxBy
  <1> QED BY <1>1, <1>2, <1>3, <1>4, <1>5 DEF Next, StepOf

-----------------------------------------------------------------------------
(* The connection.  Only a handler inside its transaction has it, and it   *)
(* never has more attachments written than its message has.                *)

HeldBy(c) ==
    sess[c].pc \in {"insert", "attach"} =>
        /\ Holds(c)
        /\ sess[c].pc = "attach" => tx.parts <= Parts[sess[c].mail]

HeldInv == \A c \in Conns : HeldBy(c)

\* The handler's own step.
LEMMA HeldBySession ==
    ASSUME TypeOK, SessionShape, NEW c \in Conns, TxBy(c), HeldBy(c), StepOf(c)
    PROVE  HeldBy(c)'
  <1>1. sess[c] \in Session /\ tx \in Tx
    BY DEF TypeOK
  <1>2. CASE BeginTx(c)
    BY <1>1, <1>2 DEF BeginTx, NoTx, Goto, TypeOK, Session, HeldBy, Holds
  <1>3. CASE InsertEmail(c)
    <2>1. tx'.parts = 0 /\ tx'.conn = c
      BY <1>1, <1>3 DEF InsertEmail, Holds, Tx, TxBy
    <2>2. sess'[c].mail \in Mails
      BY <1>1, <1>3 DEF InsertEmail, Goto, TypeOK, Session, SessionShape, Working
    <2> QED BY <2>1, <2>2 DEF HeldBy, Holds
  <1>4. CASE InsertAttachment(c)
    <2>1. tx'.conn = c /\ tx'.parts = tx.parts + 1 /\ sess'[c] = sess[c]
      BY <1>1, <1>4 DEF InsertAttachment, Holds, Tx
    <2>2. sess[c].mail \in Mails /\ tx.parts \in Nat
      BY <1>1, <1>4 DEF InsertAttachment, SessionShape, Working, Tx
    <2> QED BY <1>4, <2>1, <2>2 DEF InsertAttachment, HeldBy, Holds
  <1>5. CASE Disconnect(c)
    <2>1. sess'[c] = [sess[c] EXCEPT !.wire = FALSE] \/ sess'[c] = NoSession
      BY <1>5 DEF TypeOK, Disconnect
    <2> QED BY <1>1, <1>5, <2>1 DEF Disconnect, Session, NoSession, HeldBy, Holds
  <1>6. CASE NewSession(c) \/ Answer(c) \/ Reset(c) \/ Abandon(c)
    <2>1. sess'[c] \in {Cleared(sess[c]), ReadySession, NoSession}
      BY <1>6 DEF TypeOK, NewSession, Answer, ReplyStored, ReplyRefused, ReplyFailed,
                  Reset, Abandon
    <2>2. ReadySession.pc = "ready" /\ NoSession.pc = "closed"
      BY DEF ReadySession, NoSession
    <2> QED BY <2>1, <2>2 DEF Cleared, HeldBy
  <1>7. CASE Rcpt(c) \/ DataParsed(c) \/ DataRefused(c)
    BY <1>1, <1>7
    DEF Rcpt, RcptAllowed, RcptRefused, RcptAccepted, RcptUnknown, RcptFails, DataParsed,
        DataRefused, Goto, TypeOK, Session, HeldBy, Holds
  <1>8. CASE BeginFails(c) \/ Commit(c) \/ InsertRefused(c) \/ StatementFails(c)
    BY <1>1, <1>8
    DEF BeginFails, Commit, InsertRefused, StatementFails, Rollback, Goto, TypeOK, Session, HeldBy
  <1>9. ASSUME NEW m \in Mails, Mail(c, m) PROVE HeldBy(c)'
    BY <1>1, <1>9 DEF Mail, TypeOK, Session, HeldBy
  <1> QED BY <1>2, <1>3, <1>4, <1>5, <1>6, <1>7, <1>8, <1>9 DEF StepOf, Save

LEMMA HeldStep == TypeOK /\ SessionShape /\ TxInv /\ HeldInv /\ [Next]_vars => HeldInv'
  <1> SUFFICES ASSUME TypeOK, SessionShape, TxInv, HeldInv, [Next]_vars, NEW c \in Conns
               PROVE  HeldBy(c)'
    BY DEF HeldInv
  <1>0. TxBy(c) /\ HeldBy(c) /\ c # NoConn
    BY DEF TxInv, HeldInv
  <1>1. CASE StepOf(c)
    BY <1>0, <1>1, HeldBySession
  <1>2. ASSUME NEW k \in Conns, StepOf(k), ~StepOf(c), ~Crash PROVE HeldBy(c)'
    <2>1. sess'[c] = sess[c] /\ k # c
      BY <1>2, OneSession
    <2>2. tx' = tx \/ ~Holds(c)
      BY <1>0, <1>2, <2>1, TxFrame DEF Holds
    <2> QED BY <1>0, <2>1, <2>2 DEF HeldBy, Holds
  <1>3. CASE \/ \E a \in Addresses : CreateInbox(a)
             \/ \E e \in emails : DeleteEmail(e)
             \/ \E S \in SUBSET inboxes : DeleteExpiredInboxes(S)
             \/ Restart \/ UNCHANGED vars
    BY <1>0, <1>3 DEF CreateInbox, DeleteEmail, DeleteExpiredInboxes, Restart, vars, HeldBy, Holds
  <1>4. CASE Crash
    BY <1>4 DEF Crash, NoSession, HeldBy
  <1> QED BY <1>1, <1>2, <1>3, <1>4 DEF Next, StepOf

-----------------------------------------------------------------------------
(* The committed rows.                                                     *)

EmailIds ==
    /\ \A e \in emails : e.id <= lastEmail
    /\ \A e, f \in emails : e.id = f.id => e = f

StoreInv == EmailIds /\ NoOrphans /\ MessagesComplete /\ DeliveredAsAddressed

LEMMA StoreInit == Init => StoreInv
  BY DEF Init, StoreInv, EmailIds, NoOrphans, MessagesComplete, DeliveredAsAddressed

\* The cascade takes a message's attachments with it and no other's.
LEMMA CascadeKeeps ==
    ASSUME TypeOK, StoreInv, NEW gone \in SUBSET emails, Cascade(gone)
    PROVE  /\ \A a \in attachments' : \E e \in emails' : e.id = a.email
           /\ MessagesComplete'
  <1>1. \A a \in attachments' : a \in attachments /\ a.email \notin {e.id : e \in gone}
    BY DEF Cascade
  <1>2. ASSUME NEW a \in attachments' PROVE \E e \in emails' : e.id = a.email
    BY <1>1 DEF Cascade, StoreInv, NoOrphans
  <1>3. ASSUME NEW e \in emails' PROVE PartsOf(e)' = 1..Parts[e.mail]
    <2>1. e \in emails /\ e.id \notin {f.id : f \in gone}
      BY DEF Cascade, StoreInv, EmailIds
    <2>2. {b \in attachments' : b.email = e.id} = {b \in attachments : b.email = e.id}
      BY <2>1 DEF Cascade
    <2> QED BY <2>1, <2>2 DEF PartsOf, StoreInv, MessagesComplete
  <1> QED BY <1>2, <1>3 DEF MessagesComplete

LEMMA StoreCommit ==
    ASSUME TypeOK, SessionShape, CaptureInv, TxInv, StoreInv, NEW c \in Conns, Commit(c)
    PROVE  StoreInv'
  <1>1. PICK new \in Email :
            /\ new = EmailRow(c) /\ tx.email = {new} /\ InboxPresent(sess[c].inbox)
            /\ tx.parts = Parts[sess[c].mail]
    BY DEF Commit, Holds, TxInv, TxBy
  <1>2. new.id = lastEmail + 1 /\ new.inbox = sess[c].inbox /\ new.mail = sess[c].mail
    BY <1>1 DEF EmailRow, FreshId
  <1>3. /\ emails' = emails \union {new}
        /\ attachments' = attachments \union [email : {new.id}, part : 1..Parts[new.mail]]
        /\ lastEmail' = lastEmail + 1
        /\ inboxes' = inboxes
    <2>1. {e.id : e \in tx.email} = {new.id}
      BY <1>1
    <2>2. AttachmentRows(tx.email, tx.parts) = [email : {new.id}, part : 1..Parts[new.mail]]
      BY <1>1, <1>2, <2>1 DEF AttachmentRows
    <2> QED BY <1>1, <2>2 DEF Commit, FreshId
  <1>4. \A e \in emails : e.id \in Nat /\ e.id < new.id
    <2>1. \A e \in emails : e.id \in Ids
      BY DEF TypeOK, Email
    <2>2. \A e \in emails : e.id \in Nat
      BY <2>1, IdsAreNat
    <2>3. \A e \in emails : e.id <= lastEmail
      BY DEF StoreInv, EmailIds
    <2>4. lastEmail \in Nat
      BY DEF TypeOK
    <2> QED BY <1>2, <2>2, <2>3, <2>4
  <1>5. EmailIds'
    BY <1>2, <1>3, <1>4 DEF TypeOK, StoreInv, EmailIds
  <1>6. NoOrphans'
    <2>1. \A e \in emails' : \E i \in inboxes' : i.id = e.inbox
      BY <1>1, <1>2, <1>3 DEF StoreInv, NoOrphans, InboxPresent
    <2>2. \A a \in attachments' : \E e \in emails' : e.id = a.email
      BY <1>3 DEF StoreInv, NoOrphans
    <2> QED BY <2>1, <2>2 DEF NoOrphans
  <1>7. MessagesComplete'
    <2>1. \A a \in attachments : a.email # new.id
      BY <1>4 DEF StoreInv, NoOrphans
    <2>2. ASSUME NEW e \in emails PROVE PartsOf(e)' = 1..Parts[e.mail]
      <3>1. {b \in attachments' : b.email = e.id} = {b \in attachments : b.email = e.id}
        BY <1>3, <1>4
      <3> QED BY <3>1 DEF PartsOf, StoreInv, MessagesComplete
    <2>3. PartsOf(new)' = 1..Parts[new.mail]
      <3> DEFINE rows == [email : {new.id}, part : 1..Parts[new.mail]]
      <3>1. {b \in attachments' : b.email = new.id} = rows
        BY <1>3, <2>1
      <3>2. ASSUME NEW x \in 1..Parts[new.mail] PROVE x \in {a.part : a \in rows}
        <4>1. [email |-> new.id, part |-> x] \in rows
          OBVIOUS
        <4>2. [email |-> new.id, part |-> x].part = x
          OBVIOUS
        <4> QED BY <4>1, <4>2, Zenon
      <3>3. ASSUME NEW a \in rows PROVE a.part \in 1..Parts[new.mail]
        OBVIOUS
      <3>4. {a.part : a \in rows} = 1..Parts[new.mail]
        BY <3>2, <3>3, Zenon
      <3> QED BY <3>1, <3>4 DEF PartsOf
    <2> QED BY <1>3, <2>2, <2>3 DEF MessagesComplete
  <1>8. DeliveredAsAddressed'
    BY <1>2, <1>3 DEF StoreInv, DeliveredAsAddressed, CaptureInv, CapturedBy
  <1> QED BY <1>5, <1>6, <1>7, <1>8 DEF StoreInv

\* Every other step of a handler leaves the rows of messages alone.
LEMMA StepKeepsEmails ==
    ASSUME NEW c \in Conns, StepOf(c), ~Commit(c)
    PROVE  UNCHANGED <<emails, attachments, lastEmail, removed>>
  <1> USE DEF database, observers
  <1>1. CASE Rcpt(c)
    BY <1>1 DEF Rcpt, RcptAllowed, RcptRefused, RcptAccepted, RcptUnknown, RcptFails
  <1>2. CASE Save(c)
    BY <1>2 DEF Save, BeginTx, BeginFails, InsertEmail, InsertRefused,
                InsertAttachment, StatementFails, Rollback
  <1>3. CASE Answer(c)
    BY <1>3 DEF Answer, ReplyStored, ReplyRefused, ReplyFailed
  <1> QED
    BY <1>1, <1>2, <1>3
    DEF StepOf, Mail, NewSession, DataParsed, DataRefused, Reset, Disconnect, Abandon

LEMMA StoreStep ==
    TypeOK /\ SessionShape /\ CaptureInv /\ TxInv /\ StoreInv /\ [Next]_vars => StoreInv'
  <1> SUFFICES ASSUME TypeOK, SessionShape, CaptureInv, TxInv, StoreInv, [Next]_vars
               PROVE  StoreInv'
    OBVIOUS
  <1> USE DEF database
  <1>1. ASSUME NEW c \in Conns, StepOf(c) PROVE StoreInv'
    <2>1. CASE Commit(c)
      BY <2>1, StoreCommit
    <2>2. CASE ~Commit(c)
      BY <1>1, <2>2, StepKeepsEmails, StepKeepsInboxes
      DEF StoreInv, EmailIds, NoOrphans, MessagesComplete, PartsOf, DeliveredAsAddressed
    <2> QED BY <2>1, <2>2
  <1>2. ASSUME NEW a \in Addresses, CreateInbox(a) PROVE StoreInv'
    <2> DEFINE new == [id |-> FreshId(lastInbox), address |-> a, expires |-> FALSE]
    <2>1. new.id = lastInbox + 1 /\ inboxes' = inboxes \union {new}
      BY <1>2 DEF CreateInbox, FreshId
    <2>2. UNCHANGED <<emails, attachments, lastEmail>>
      BY <1>2 DEF CreateInbox
    <2>3. lastInbox \in Nat /\ \A i \in inboxes : i.id \in Nat /\ i.id <= lastInbox
      BY DEF TypeOK, Inbox, CaptureInv, InboxIds
    <2> HIDE DEF new
    <2>4. \A e \in emails : e.inbox # new.id
      BY <2>1, <2>3 DEF StoreInv, NoOrphans
    <2>5. DeliveredAsAddressed'
      BY <2>1, <2>2, <2>4 DEF StoreInv, DeliveredAsAddressed
    <2>6. NoOrphans'
      BY <2>1, <2>2 DEF StoreInv, NoOrphans
    <2> QED BY <2>2, <2>5, <2>6 DEF StoreInv, EmailIds, MessagesComplete, PartsOf
  <1>3. ASSUME NEW e \in emails, DeleteEmail(e) PROVE StoreInv'
    <2>1. /\ \A a \in attachments' : \E f \in emails' : f.id = a.email
          /\ MessagesComplete'
      BY <1>3, CascadeKeeps DEF DeleteEmail
    <2>2. emails' \subseteq emails /\ inboxes' = inboxes /\ lastEmail' = lastEmail
      BY <1>3 DEF DeleteEmail, Cascade
    <2> QED BY <2>1, <2>2 DEF StoreInv, EmailIds, NoOrphans, DeliveredAsAddressed
  <1>4. ASSUME NEW S \in SUBSET inboxes, DeleteExpiredInboxes(S) PROVE StoreInv'
    <2> DEFINE gone == {e \in emails : e.inbox \in {i.id : i \in S}}
    <2>1. /\ \A a \in attachments' : \E f \in emails' : f.id = a.email
          /\ MessagesComplete'
      BY <1>4, CascadeKeeps DEF DeleteExpiredInboxes
    <2>2. emails' = emails \ gone /\ inboxes' = inboxes \ S /\ lastEmail' = lastEmail
      BY <1>4 DEF DeleteExpiredInboxes, Cascade
    <2>3. \A e \in emails' : \E i \in inboxes' : i.id = e.inbox
      BY <2>2 DEF StoreInv, NoOrphans
    <2> QED BY <2>1, <2>2, <2>3 DEF StoreInv, EmailIds, NoOrphans, DeliveredAsAddressed
  <1>5. CASE Crash \/ Restart \/ UNCHANGED vars
    BY <1>5 DEF Crash, Restart, vars, StoreInv, EmailIds, NoOrphans, MessagesComplete, PartsOf,
                DeliveredAsAddressed
  <1> QED BY <1>1, <1>2, <1>3, <1>4, <1>5 DEF Next, StepOf

-----------------------------------------------------------------------------
(* Copies and answers.  The sender of a mail is on one live connection at  *)
(* a time and comes back only while it has not been answered, so a 250 is  *)
(* the first for its mail (TalkInv).  A committed row is in the hands of   *)
(* the one handler that stored it until it is answered for (CopiesInv).    *)

TalkInv ==
    /\ \A c \in Conns :
           sess[c].wire /\ sess[c].mail \in Mails => client[sess[c].mail] # "accepted"
    /\ \A c, k \in Conns :
           sess[c].wire /\ sess[k].wire /\ sess[c].mail = sess[k].mail /\ sess[c].mail \in Mails
           => c = k

\* The mail that a live connection is about is the one it was about before, or
\* one whose sender is on no other.
LEMMA Heard ==
    ASSUME TypeOK, NEW c \in Conns, StepOf(c), sess'[c].wire, sess'[c].mail \in Mails
    PROVE  LET m == sess'[c].mail
           IN  \/ sess[c].wire /\ m = sess[c].mail
               \/ /\ UNCHANGED client /\ client[m] = "todo"
                  /\ \A k \in Conns : sess[k].wire => sess[k].mail # m
  <1>0. sess[c] \in Session /\ sess \in [Conns -> Session]
    BY DEF TypeOK
  <1>1. ASSUME NEW m \in Mails, Mail(c, m) PROVE sess'[c].mail = m
    BY <1>0, <1>1 DEF Mail, Session
  <1>2. CASE NewSession(c) \/ Answer(c) \/ Reset(c) \/ Abandon(c)
    <2>1. ReadySession.mail = NoMail /\ NoSession.mail = NoMail
      BY DEF ReadySession, NoSession
    <2>2. sess'[c] \in {ReadySession, NoSession}
      BY <1>0, <1>2 DEF NewSession, Answer, ReplyStored, ReplyRefused, ReplyFailed, Reset, Abandon,
                        Cleared
    <2> QED BY <2>1, <2>2
  <1>3. CASE Disconnect(c)
    <2>1. [sess[c] EXCEPT !.wire = FALSE].wire = FALSE /\ NoSession.wire = FALSE
      BY <1>0 DEF NoSession, Session
    <2> QED BY <1>0, <1>3, <2>1 DEF Disconnect
  <1>4. CASE Rcpt(c)
    BY <1>0, <1>4 DEF Rcpt, RcptAllowed, RcptRefused, RcptAccepted, RcptUnknown, RcptFails, Goto,
                      Session
  <1>5. CASE DataParsed(c) \/ DataRefused(c)
    BY <1>0, <1>5 DEF DataParsed, DataRefused, Goto, Session
  <1>6. CASE Save(c)
    BY <1>0, <1>6 DEF Save, BeginTx, BeginFails, InsertEmail, InsertRefused, InsertAttachment,
                      Commit, StatementFails, Rollback, Goto, Session
  <1> QED BY <1>1, <1>2, <1>3, <1>4, <1>5, <1>6 DEF StepOf, Mail

\* What a step tells a sender: nothing, that its mail is refused, or 250.
LEMMA Told ==
    ASSUME TypeOK, SessionShape, NEW c \in Conns, StepOf(c)
    PROVE  \/ UNCHANGED client
           \/ /\ ~ReplyStored(c) /\ sess[c].wire /\ sess[c].mail \in Mails
              /\ client' = [client EXCEPT ![sess[c].mail] = "bounced"]
           \/ /\ ReplyStored(c) /\ sess[c].wire /\ sess[c].mail \in Mails
              /\ client' = [client EXCEPT ![sess[c].mail] = "accepted"]
              /\ sess'[c].mail \notin Mails
  <1>1. CASE Rcpt(c)
    BY <1>1 DEF Rcpt, RcptAllowed, RcptRefused, RcptAccepted, RcptUnknown, RcptFails, Bounce,
                ReplyStored, SessionShape, Working
  <1>2. CASE Save(c)
    BY <1>2 DEF Save, BeginTx, BeginFails, InsertEmail, InsertRefused, InsertAttachment, Commit,
                StatementFails, Rollback
  <1>3. CASE ReplyStored(c)
    <2>1. sess'[c] = Cleared(sess[c])
      BY <1>3 DEF ReplyStored, TypeOK
    <2>2. Cleared(sess[c]).mail = NoMail
      BY DEF Cleared, ReadySession, NoSession
    <2> QED BY <1>3, <2>1, <2>2 DEF ReplyStored, SessionShape, Working
  <1>4. CASE ReplyRefused(c) \/ ReplyFailed(c)
    BY <1>4 DEF ReplyRefused, ReplyFailed, Bounce, ReplyStored, SessionShape, Working
  <1> QED
    BY <1>1, <1>2, <1>3, <1>4
    DEF StepOf, Answer, Mail, NewSession, DataParsed, DataRefused, Reset, Disconnect, Abandon

LEMMA TalkStep == TypeOK /\ SessionShape /\ TalkInv /\ [Next]_vars => TalkInv'
  <1> SUFFICES ASSUME TypeOK, SessionShape, TalkInv, [Next]_vars PROVE TalkInv'
    OBVIOUS
  <1>1. ASSUME NEW c \in Conns, StepOf(c) PROVE TalkInv'
    <2>1. \A k \in Conns \ {c} : sess'[k] = sess[k]
      BY <1>1, OnlyItsOwn
    <2>2. ASSUME NEW k \in Conns, sess'[k].wire, sess'[k].mail \in Mails
          PROVE  client'[sess'[k].mail] # "accepted"
      <3>1. CASE k = c
        BY <1>1, <2>2, <3>1, Heard, Told DEF TalkInv, TypeOK
      <3>2. CASE k # c
        BY <1>1, <2>1, <2>2, <3>2, Told DEF TalkInv, TypeOK
      <3> QED BY <3>1, <3>2
    <2>3. ASSUME NEW k \in Conns \ {c}, sess'[c].wire, sess'[k].wire,
                 sess'[c].mail = sess'[k].mail, sess'[c].mail \in Mails
          PROVE  FALSE
      BY <1>1, <2>1, <2>3, Heard DEF TalkInv
    <2>4. ASSUME NEW k \in Conns, NEW d \in Conns, sess'[d].wire, sess'[k].wire,
                 sess'[d].mail = sess'[k].mail, sess'[d].mail \in Mails
          PROVE  d = k
      BY <2>1, <2>3, <2>4 DEF TalkInv
    <2> QED BY <2>2, <2>4 DEF TalkInv
  <1>2. CASE \/ \E a \in Addresses : CreateInbox(a)
             \/ \E e \in emails : DeleteEmail(e)
             \/ \E S \in SUBSET inboxes : DeleteExpiredInboxes(S)
             \/ Restart \/ UNCHANGED vars
    BY <1>2 DEF CreateInbox, DeleteEmail, DeleteExpiredInboxes, Restart, vars, TalkInv
  <1>3. CASE Crash
    BY <1>3 DEF Crash, NoSession, TalkInv
  <1> QED BY <1>1, <1>2, <1>3 DEF Next, StepOf

StoredBy(s) ==
    IF s.pc = "stored" THEN \E e \in Email : s.stored = {e} /\ e.mail = s.mail ELSE s.stored = {}

CopiesInv ==
    /\ \A c \in Conns : StoredBy(sess[c])
    /\ \A c, k \in Conns : sess[c].stored \intersect sess[k].stored # {} => c = k
    /\ \A e \in emails \union removed : e \in Email /\ e.id <= lastEmail
    /\ CopiesAccounted

\* A step that neither commits nor answers for a copy.
LEMMA Quiet ==
    ASSUME TypeOK, NEW c \in Conns, StoredBy(sess[c]), StepOf(c), ~Commit(c), ~ReplyStored(c)
    PROVE  /\ UNCHANGED <<emails, lastEmail, removed, told, lost>>
           /\ StoredBy(sess'[c]) /\ sess'[c].stored = sess[c].stored
  <1>0. sess[c] \in Session /\ sess \in [Conns -> Session]
    BY DEF TypeOK
  <1> USE DEF database, observers
  <1>a. ASSUME NEW pc \in Pcs, pc # "stored", sess[c].pc # "stored", Goto(c, pc)
        PROVE  StoredBy(sess'[c]) /\ sess'[c].stored = sess[c].stored
    BY <1>0, <1>a DEF Goto, Session, StoredBy
  <1>b. ASSUME sess[c].pc # "stored", sess'[c] \in {ReadySession, NoSession}
        PROVE  StoredBy(sess'[c]) /\ sess'[c].stored = sess[c].stored
    <2>1. NoSession.pc = "closed" /\ NoSession.stored = {}
      BY DEF NoSession
    <2>2. ReadySession.pc = "ready" /\ ReadySession.stored = {}
      BY DEF ReadySession, NoSession
    <2> QED BY <1>b, <2>1, <2>2 DEF StoredBy
  <1>1. ASSUME NEW m \in Mails, Mail(c, m)
        PROVE  /\ UNCHANGED <<emails, lastEmail, removed, told, lost>>
               /\ StoredBy(sess'[c]) /\ sess'[c].stored = sess[c].stored
    BY <1>0, <1>1 DEF Mail, Session, StoredBy
  <1>2. CASE NewSession(c)
    BY <1>0, <1>2, <1>b DEF NewSession, NoSession
  <1>3. CASE ReplyRefused(c) \/ ReplyFailed(c) \/ Reset(c) \/ Abandon(c)
    BY <1>0, <1>3, <1>b DEF ReplyRefused, ReplyFailed, Reset, Abandon, Cleared
  <1>4. CASE Disconnect(c)
    <2>1. UNCHANGED <<emails, lastEmail, removed, told, lost>>
      BY <1>4 DEF Disconnect
    <2>2. CASE Running(c)
      BY <1>0, <1>4, <2>1, <2>2 DEF Disconnect, Session, StoredBy
    <2>3. CASE ~Running(c)
      BY <1>0, <1>4, <1>b, <2>1, <2>3 DEF Disconnect, Running
    <2> QED BY <2>2, <2>3
  <1>5. CASE Rcpt(c)
    <2>1. CASE RcptAccepted(c)
      BY <1>0, <2>1 DEF RcptAccepted, Session, StoredBy
    <2>2. CASE RcptAllowed(c) \/ RcptUnknown(c) \/ RcptFails(c)
      BY <1>a, <2>2 DEF RcptAllowed, RcptUnknown, RcptFails, Pcs
    <2>3. CASE RcptRefused(c)
      BY <2>3 DEF RcptRefused
    <2> QED BY <1>5, <2>1, <2>2, <2>3 DEF Rcpt
  <1>6. CASE DataParsed(c) \/ DataRefused(c)
    BY <1>a, <1>6 DEF DataParsed, DataRefused, Pcs
  <1>7. CASE Save(c)
    <2>1. CASE BeginTx(c) \/ BeginFails(c) \/ InsertEmail(c)
      BY <1>a, <2>1 DEF BeginTx, BeginFails, InsertEmail, Pcs
    <2>2. CASE InsertRefused(c) \/ StatementFails(c)
      BY <1>a, <2>2 DEF InsertRefused, StatementFails, Rollback, Pcs
    <2>3. CASE InsertAttachment(c)
      BY <2>3 DEF InsertAttachment
    <2> QED BY <1>7, <2>1, <2>2, <2>3 DEF Save
  <1> QED BY <1>1, <1>2, <1>3, <1>4, <1>5, <1>6, <1>7 DEF StepOf, Answer

LEMMA UnansweredIs ==
    /\ \A e : e \in Unanswered <=> \E c \in Conns : e \in sess[c].stored
    /\ \A e : e \in Unanswered' <=> \E c \in Conns : e \in sess'[c].stored
  BY DEF Unanswered

LEMMA CopiesCommit ==
    ASSUME TypeOK, TxInv, CopiesInv, NEW c \in Conns, Commit(c)
    PROVE  CopiesInv'
  <1>1. PICK new \in Email : /\ new.id = lastEmail + 1 /\ new.mail = sess[c].mail
                             /\ tx.email = {new}
    BY DEF Commit, Holds, TxInv, TxBy, EmailRow, FreshId
  <1>2. /\ emails' = emails \union {new} /\ lastEmail' = lastEmail + 1
        /\ UNCHANGED <<client, told, lost, removed>>
    BY <1>1 DEF Commit, FreshId, observers
  <1>3. sess'[c].pc = "stored" /\ sess'[c].stored = {new} /\ sess'[c].mail = sess[c].mail
        /\ \A k \in Conns \ {c} : sess'[k] = sess[k]
    BY <1>1 DEF Commit, TypeOK, Session
  <1>4. sess[c].stored = {}
    BY DEF Commit, CopiesInv, StoredBy
  <1>5. \A e \in emails \union removed : e \in Email /\ e.id <= lastEmail /\ e # new
    <2>1. \A e \in emails \union removed : e.id <= lastEmail
      BY DEF CopiesInv
    <2>2. lastEmail \in Nat
      BY DEF TypeOK
    <2> QED BY <1>1, <2>1, <2>2 DEF CopiesInv
  <1>6. /\ \A e : e \in Unanswered' <=> e \in Unanswered \/ e = new
        /\ new \notin told \union lost \union Unanswered
    BY <1>3, <1>4, <1>5, UnansweredIs DEF CopiesInv, CopiesAccounted
  <1>7. CopiesAccounted'
    BY <1>2, <1>6 DEF CopiesInv, CopiesAccounted
  <1>8. \A k \in Conns : StoredBy(sess[k])'
    BY <1>1, <1>3 DEF CopiesInv, StoredBy
  <1>9. ASSUME NEW k \in Conns, NEW d \in Conns, NEW e \in sess'[k].stored, e \in sess'[d].stored
        PROVE  k = d
    BY <1>3, <1>6, <1>9, UnansweredIs DEF CopiesInv
  <1>10. \A e \in (emails \union removed)' : e \in Email /\ e.id <= lastEmail'
    <2>1. \A e \in emails \union removed : e.id \in Nat
      BY <1>5, IdsAreNat DEF Email
    <2> QED BY <1>1, <1>2, <1>5, <2>1 DEF TypeOK
  <1> QED BY <1>7, <1>8, <1>9, <1>10 DEF CopiesInv

LEMMA CopiesReply ==
    ASSUME TypeOK, SessionShape, TalkInv, CopiesInv, NEW c \in Conns, ReplyStored(c)
    PROVE  CopiesInv'
  <1>1. PICK old \in Email : sess[c].stored = {old} /\ old.mail = sess[c].mail
    BY DEF ReplyStored, CopiesInv, StoredBy
  <1>2. UNCHANGED <<emails, lastEmail, removed>>
    BY DEF ReplyStored, database
  <1>3. sess'[c].pc # "stored" /\ sess'[c].stored = {} /\ \A k \in Conns \ {c} : sess'[k] = sess[k]
    BY DEF ReplyStored, TypeOK, Cleared, ReadySession, NoSession
  <1>4. /\ \A e : e \in Unanswered' <=> e \in Unanswered /\ e # old
        /\ old \in Unanswered
    BY <1>1, <1>3, UnansweredIs DEF CopiesInv
  <1>5. CopiesAccounted'
    <2>1. CASE /\ sess[c].wire /\ UNCHANGED lost
               /\ client' = [client EXCEPT ![sess[c].mail] = "accepted"]
               /\ told' = told \union {old}
      <3>1. sess[c].mail \in Mails /\ client[sess[c].mail] # "accepted"
        BY <2>1 DEF ReplyStored, SessionShape, Working, TalkInv
      <3>2. \A e \in told : e.mail # old.mail
        BY <1>1, <3>1 DEF CopiesInv, CopiesAccounted
      <3>3. ASSUME NEW m \in Mails PROVE client'[m] = "accepted" <=> \E e \in told' : e.mail = m
        BY <1>1, <2>1, <3>1 DEF TypeOK, CopiesInv, CopiesAccounted
      <3>4. /\ \A e, f \in told' : e.mail = f.mail => e = f
            /\ told' \intersect lost' = {}
        BY <1>4, <2>1, <3>2 DEF CopiesInv, CopiesAccounted
      <3>5. /\ (emails \union removed)' = (told \union lost \union Unanswered)'
            /\ Unanswered' \intersect (told \union lost)' = {}
        BY <1>2, <1>4, <2>1 DEF CopiesInv, CopiesAccounted
      <3> QED BY <3>3, <3>4, <3>5 DEF CopiesAccounted
    <2>2. CASE ~sess[c].wire /\ lost' = lost \union {old} /\ UNCHANGED <<client, told>>
      BY <1>2, <1>4, <2>2 DEF CopiesInv, CopiesAccounted
    <2> QED BY <1>1, <2>1, <2>2 DEF ReplyStored
  <1>6. \A k \in Conns : StoredBy(sess[k])'
    BY <1>3 DEF CopiesInv, StoredBy
  <1>7. \A k, d \in Conns : sess'[k].stored \intersect sess'[d].stored # {} => k = d
    BY <1>3 DEF CopiesInv
  <1> QED BY <1>2, <1>5, <1>6, <1>7 DEF CopiesInv

LEMMA CopiesStep ==
    TypeOK /\ SessionShape /\ TxInv /\ TalkInv /\ CopiesInv /\ [Next]_vars => CopiesInv'
  <1> SUFFICES ASSUME TypeOK, SessionShape, TxInv, TalkInv, CopiesInv, [Next]_vars
               PROVE  CopiesInv'
    OBVIOUS
  <1>0. ASSUME \A k \in Conns : StoredBy(sess'[k]) /\ sess'[k].stored = sess[k].stored,
               (emails \union removed)' = emails \union removed,
               UNCHANGED <<lastEmail, told, lost>>,
               \A m \in Mails : client'[m] = "accepted" <=> client[m] = "accepted"
        PROVE  CopiesInv'
    <2>1. Unanswered' = Unanswered
      BY <1>0, UnansweredIs
    <2> QED BY <1>0, <2>1 DEF CopiesInv, CopiesAccounted
  <1>1. ASSUME NEW c \in Conns, StepOf(c) PROVE CopiesInv'
    <2>1. CASE Commit(c)
      BY <2>1, CopiesCommit
    <2>2. CASE ReplyStored(c)
      BY <2>2, CopiesReply
    <2>3. CASE ~Commit(c) /\ ~ReplyStored(c)
      <3>1. \A k \in Conns : StoredBy(sess'[k]) /\ sess'[k].stored = sess[k].stored
        BY <1>1, <2>3, OnlyItsOwn, Quiet DEF CopiesInv
      <3>2. UNCHANGED <<emails, lastEmail, removed, told, lost>>
        BY <1>1, <2>3, Quiet DEF CopiesInv
      <3>3. \A m \in Mails : client'[m] = "accepted" <=> client[m] = "accepted"
        BY <1>1, <2>3, Told DEF TalkInv, TypeOK
      <3> QED BY <1>0, <3>1, <3>2, <3>3
    <2> QED BY <2>1, <2>2, <2>3
  <1>2. CASE \/ \E e \in emails : DeleteEmail(e)
             \/ \E S \in SUBSET inboxes : DeleteExpiredInboxes(S)
    <2>1. /\ UNCHANGED <<lastEmail, told, lost, sess, client>>
          /\ (emails \union removed)' = emails \union removed
      BY <1>2 DEF DeleteEmail, DeleteExpiredInboxes, Cascade
    <2> QED BY <1>0, <2>1 DEF CopiesInv
  <1>3. CASE (\E a \in Addresses : CreateInbox(a)) \/ Restart \/ UNCHANGED vars
    BY <1>0, <1>3 DEF CreateInbox, Restart, vars, database, observers, CopiesInv
  <1>4. CASE Crash
    <2>1. \A k \in Conns : sess'[k].pc # "stored" /\ sess'[k].stored = {}
      BY <1>4 DEF Crash, NoSession
    <2>2. Unanswered' = {}
      BY <2>1, UnansweredIs
    <2>3. UNCHANGED <<emails, lastEmail, removed, told, client>> /\ lost' = lost \union Unanswered
      BY <1>4 DEF Crash, database
    <2>4. CopiesAccounted'
      BY <2>2, <2>3 DEF CopiesInv, CopiesAccounted
    <2> QED BY <2>1, <2>3, <2>4 DEF CopiesInv, StoredBy
  <1> QED BY <1>1, <1>2, <1>3, <1>4 DEF Next, StepOf

-----------------------------------------------------------------------------
IInv == TypeOK /\ SessionShape /\ CaptureInv /\ TxInv /\ HeldInv /\ StoreInv

LEMMA IInvAlways == Spec => []IInv
  <1>1. Init => IInv
    <2>1. Init => SessionShape
      BY DEF Init, SessionShape, Working, NoSession
    <2>2. Init => TxInv
      BY DEF Init, TxInv, TxBy, NoTx
    <2>3. Init => HeldInv
      BY DEF Init, HeldInv, HeldBy, NoSession
    <2> QED BY <2>1, <2>2, <2>3, TypeInit, CaptureInit, StoreInit DEF IInv
  <1>2. IInv /\ [Next]_vars => IInv'
    BY TypeStep, ShapeStep, CaptureStep, TxStep, HeldStep, StoreStep DEF IInv
  <1> QED BY <1>1, <1>2, PTL DEF Spec

(* The rows of messages and attachments never lack their parent, though    *)
(* inboxes are deleted between RCPT and DATA and messages while others are *)
(* being stored.                                                           *)
THEOREM OrphansNever == Spec => []NoOrphans
  BY IInvAlways, PTL DEF IInv, StoreInv

(* A message that can be read has all its attachments: a failure or crash  *)
(* anywhere in SaveInboundMessage leaves nothing of it.                    *)
THEOREM StoredWhole == Spec => []MessagesComplete
  BY IInvAlways, PTL DEF IInv, StoreInv

(* Mail never ends up in an inbox of another address.                      *)
THEOREM NeverMisdelivered == Spec => []DeliveredAsAddressed
  BY IInvAlways, PTL DEF IInv, StoreInv

(* The one connection is never leaked: whatever fails, crashes or goes     *)
(* away, who has it can write its next statement, commit or roll back      *)
(* (sqlite.go:186-213).                                                    *)
THEOREM ConnectionAlwaysReturned == Spec => []ConnectionReturned
  <1>1. IInv => ConnectionReturned
    <2> SUFFICES ASSUME IInv PROVE ConnectionReturned
      OBVIOUS
    <2>1. ASSUME ~DbFree
          PROVE  \E c \in Conns : Holds(c) /\ sess[c].pc \in {"insert", "attach"}
      <3>1. tx.conn \in Conns
        BY <2>1 DEF IInv, TypeOK, Tx, DbFree
      <3> QED BY <3>1 DEF IInv, TxInv, TxBy, Holds
    <2> QED BY <2>1 DEF IInv, HeldInv, HeldBy, ConnectionReturned
  <1> QED BY <1>1, IInvAlways, PTL

LEMMA CopiesAlways == Spec => [](IInv /\ TalkInv /\ CopiesInv)
  <1>1. Init => TalkInv /\ CopiesInv
    <2>1. Init => Unanswered = {}
      BY UnansweredIs DEF Init, NoSession
    <2> QED BY <2>1 DEF Init, NoSession, TalkInv, CopiesInv, StoredBy, CopiesAccounted
  <1>2. IInv /\ TalkInv /\ CopiesInv /\ [Next]_vars => (TalkInv /\ CopiesInv)'
    BY TalkStep, CopiesStep DEF IInv
  <1> QED BY <1>1, <1>2, IInvAlways, PTL DEF Spec

(* 250 means stored once and for all; any other answer means not stored;   *)
(* only a 250 that was lost makes a duplicate (session.go:63-92,           *)
(* sqlite.go:186-213).                                                     *)
THEOREM EveryCopyAccounted == Spec => []CopiesAccounted
  BY CopiesAlways, PTL DEF CopiesInv

-----------------------------------------------------------------------------
(* The refinement of MailStore.  A message appears at Commit; nothing else *)
(* a handler does is visible but the 250, and what the rest of the program *)
(* does to the tables is visible as it is.                                 *)

\* The three state functions MailStore is instantiated with.  A message that
\* can be read shows all its parts.
Messages == {[id |-> e.id, inbox |-> e.inbox, mail |-> e.mail, parts |-> PartsOf(e)] : e \in emails}
Delivered == {e.mail : e \in emails \union removed}
Accepted == {m \in Mails : client[m] = "accepted"}

Seen(e) == [id |-> e.id, inbox |-> e.inbox, mail |-> e.mail, parts |-> 1..Parts[e.mail]]

LEMMA MessagesAre ==
    /\ StoreInv => Messages = {Seen(e) : e \in emails}
    /\ StoreInv' => Messages' = {Seen(e) : e \in emails'}
  BY DEF Messages, Seen, StoreInv, MessagesComplete

\* What MailStore sees stays when the rows do and nobody is newly accepted.
LEMMA Unseen ==
    ASSUME UNCHANGED <<inboxes, emails, attachments, removed>>, Accepted' = Accepted
    PROVE  UNCHANGED Store!vars
  <1>1. Messages' = Messages /\ Delivered' = Delivered
    BY DEF Messages, PartsOf, Delivered
  <1> QED BY <1>1 DEF Store!vars, Messages, Delivered, Accepted

\* The row that Commit makes visible.
LEMMA CommitDelivers ==
    ASSUME IInv, StoreInv', NEW c \in Conns, Commit(c)
    PROVE  Store!Next
  <1>1. PICK new \in Email :
            /\ new.id = lastEmail + 1 /\ new.inbox = sess[c].inbox /\ new.mail = sess[c].mail
            /\ tx.email = {new} /\ InboxPresent(sess[c].inbox)
    BY DEF IInv, Commit, Holds, TxInv, TxBy, EmailRow, FreshId
  <1>2. PICK i \in inboxes : i.id = new.inbox
    BY <1>1 DEF InboxPresent
  <1>3. /\ new.id \in Ids /\ new.mail \in Mails /\ i.address = To[new.mail]
        /\ emails' = emails \union {new} /\ UNCHANGED <<inboxes, client, removed>>
    BY <1>1, <1>2 DEF Email, Commit, observers, IInv, CaptureInv, CapturedBy
  <1>4. Messages' = Messages \union {Seen(new)}
    <2>1. Messages = {Seen(e) : e \in emails} /\ Messages' = {Seen(e) : e \in emails'}
      BY MessagesAre DEF IInv
    <2> QED BY <1>3, <2>1
  <1>5. \A x \in Messages : x.id # new.id
    <2>1. \A e \in emails : e.id <= lastEmail /\ e.id \in Nat
      BY IdsAreNat DEF IInv, TypeOK, Email, StoreInv, EmailIds
    <2>2. lastEmail \in Nat
      BY DEF IInv, TypeOK
    <2> QED BY <1>1, <2>1, <2>2 DEF Messages
  <1>6. Delivered' = Delivered \union {new.mail} /\ Accepted' = Accepted
    BY <1>3 DEF Delivered, Accepted
  <1>7. Store!Deliver(new.mail, i, new.id)
    BY <1>2, <1>3, <1>4, <1>5, <1>6 DEF Store!Deliver, Messages, Delivered, Accepted, Seen
  <1> QED BY <1>3, <1>7 DEF Store!Next

\* 250 that arrives.
LEMMA ReplyAccepts ==
    ASSUME IInv, CopiesInv, NEW c \in Conns, ReplyStored(c)
    PROVE  Store!Next \/ UNCHANGED Store!vars
  <1>1. UNCHANGED <<inboxes, emails, attachments, removed>>
    BY DEF ReplyStored, database
  <1>2. CASE UNCHANGED client
    BY <1>1, <1>2, Unseen DEF Accepted
  <1>3. CASE client' = [client EXCEPT ![sess[c].mail] = "accepted"]
    <2>1. PICK old \in Email : sess[c].stored = {old} /\ old.mail = sess[c].mail
      BY DEF ReplyStored, CopiesInv, StoredBy
    <2>2. old \in emails \union removed /\ old.mail \in Mails
      BY <2>1, UnansweredIs DEF CopiesInv, CopiesAccounted, Email
    <2>3. Accepted' = Accepted \union {old.mail} /\ old.mail \in Delivered
      BY <1>3, <2>1, <2>2 DEF Accepted, Delivered, IInv, TypeOK
    <2>4. Messages' = Messages /\ Delivered' = Delivered
      BY <1>1 DEF Messages, PartsOf, Delivered
    <2>5. Store!Accept(old.mail)
      BY <1>1, <2>3, <2>4 DEF Store!Accept, Messages, Delivered, Accepted
    <2> QED BY <2>2, <2>5 DEF Store!Next
  <1> QED BY <1>2, <1>3 DEF ReplyStored

\* Deletions take whole messages, which stay delivered.
LEMMA CascadeSeen ==
    ASSUME IInv, StoreInv', NEW gone \in SUBSET emails, Cascade(gone), UNCHANGED client
    PROVE  /\ Messages' = Messages \ {Seen(e) : e \in gone}
           /\ Messages = {Seen(e) : e \in emails}
           /\ Delivered' = Delivered /\ Accepted' = Accepted
  <1>1. Messages = {Seen(e) : e \in emails} /\ Messages' = {Seen(e) : e \in emails'}
    BY MessagesAre DEF IInv
  <1>2. \A e, f \in emails : Seen(e) = Seen(f) => e = f
    BY DEF Seen, IInv, StoreInv, EmailIds
  <1>3. emails' = emails \ gone /\ removed' = removed \union gone
    BY DEF Cascade
  <1>4. Messages' = Messages \ {Seen(e) : e \in gone}
    <2> HIDE DEF Seen
    <2> QED BY <1>1, <1>2, <1>3
  <1>5. Delivered' = Delivered /\ Accepted' = Accepted
    BY <1>3 DEF Delivered, Accepted
  <1> QED BY <1>1, <1>4, <1>5

LEMMA MailStoreStep ==
    ASSUME IInv, TalkInv, CopiesInv, StoreInv', [Next]_vars
    PROVE  Store!Next \/ UNCHANGED Store!vars
  <1>1. ASSUME NEW c \in Conns, StepOf(c) PROVE Store!Next \/ UNCHANGED Store!vars
    <2>1. CASE Commit(c)
      BY <2>1, CommitDelivers
    <2>2. CASE ReplyStored(c)
      BY <2>2, ReplyAccepts
    <2>3. CASE ~Commit(c) /\ ~ReplyStored(c)
      <3>1. UNCHANGED <<inboxes, emails, attachments, removed>>
        BY <1>1, <2>3, StepKeepsEmails, StepKeepsInboxes
      <3>2. Accepted' = Accepted
        BY <1>1, <2>3, Told DEF Accepted, IInv, TypeOK, TalkInv
      <3> QED BY <3>1, <3>2, Unseen
    <2> QED BY <2>1, <2>2, <2>3
  <1>2. ASSUME NEW a \in Addresses, CreateInbox(a) PROVE Store!Next
    <2> DEFINE n == FreshId(lastInbox)
    <2>1. /\ n \in Ids /\ \A i \in inboxes : i.address # a
          /\ inboxes' = inboxes \union {[id |-> n, address |-> a, expires |-> FALSE]}
          /\ UNCHANGED <<emails, attachments, client, removed>>
      BY <1>2 DEF CreateInbox, InboxesAt, observers
    <2>2. \A i \in inboxes : i.id # n
      <3>1. \A i \in inboxes : i.id \in Nat /\ i.id <= lastInbox
        BY IdsAreNat DEF IInv, TypeOK, Inbox, CaptureInv, InboxIds
      <3> QED BY <3>1 DEF FreshId, IInv, TypeOK
    <2>3. Messages' = Messages /\ Delivered' = Delivered /\ Accepted' = Accepted
      BY <2>1 DEF Messages, PartsOf, Delivered, Accepted
    <2> HIDE DEF n
    <2>4. Store!Register(a, n)
      BY <2>1, <2>2, <2>3 DEF Store!Register, Messages, Delivered, Accepted
    <2> QED BY <2>1, <2>4 DEF Store!Next
  <1>3. ASSUME NEW e \in emails, DeleteEmail(e) PROVE Store!Next
    <2>1. Cascade({e}) /\ UNCHANGED <<inboxes, client>>
      BY <1>3 DEF DeleteEmail
    <2>2. /\ Messages' = Messages \ {Seen(e)} /\ Seen(e) \in Messages
          /\ Delivered' = Delivered /\ Accepted' = Accepted
      BY <2>1, CascadeSeen
    <2>3. Store!Delete(Seen(e))
      BY <2>1, <2>2 DEF Store!Delete, Messages, Delivered, Accepted
    <2> QED BY <2>2, <2>3 DEF Store!Next, Messages
  <1>4. ASSUME NEW S \in SUBSET inboxes, DeleteExpiredInboxes(S) PROVE Store!Next
    <2> DEFINE gone == {e \in emails : e.inbox \in {i.id : i \in S}}
    <2>1. /\ Cascade(gone) /\ inboxes' = inboxes \ S /\ UNCHANGED client
          /\ \A i \in S : i.expires
      BY <1>4 DEF DeleteExpiredInboxes
    <2>2. /\ Messages' = Messages \ {Seen(e) : e \in gone}
          /\ Messages = {Seen(e) : e \in emails}
          /\ Delivered' = Delivered /\ Accepted' = Accepted
      BY <2>1, CascadeSeen
    <2>3. \A e : Seen(e).inbox = e.inbox
      BY DEF Seen
    <2>4. Messages' = {x \in Messages : x.inbox \notin {i.id : i \in S}}
      BY <2>2, <2>3
    <2>5. Store!Expire(S)
      BY <2>1, <2>2, <2>4 DEF Store!Expire, Messages, Delivered, Accepted
    <2> QED BY <2>5 DEF Store!Next
  <1>5. CASE Crash \/ Restart \/ UNCHANGED vars
    BY <1>5, Unseen DEF Crash, Restart, vars, database, observers, Accepted
  <1> QED BY <1>1, <1>2, <1>3, <1>4, <1>5 DEF Next, StepOf

(* The delivery path, with its sessions, its one transaction at a time,    *)
(* its lost answers and crashes, implements the abstract store: messages   *)
(* appear whole and are accepted only after they have appeared.            *)
THEOREM StoreImplemented == Spec => ImplementsMailStore
  <1>1. Init => Store!Init
    <2>1. ASSUME Init PROVE \A i, j \in inboxes : i.id = j.id \/ i.address = j.address => i = j
      <3>1. CASE inboxes = {}
        BY <3>1
      <3>2. ASSUME NEW a \in Addresses,
                   inboxes = {[id |-> 1, address |-> a, expires |-> TRUE]}
            PROVE  \A i, j \in inboxes : i.id = j.id \/ i.address = j.address => i = j
        BY <3>2
      <3> QED BY <2>1, <3>1, <3>2 DEF Init
    <2> QED BY <2>1 DEF Init, Store!Init
  <1>2. IInv' => StoreInv'
    BY DEF IInv
  <1> QED BY <1>1, <1>2, MailStoreStep, CopiesAlways, PTL DEF Spec, ImplementsMailStore, Store!Spec
=============================================================================
