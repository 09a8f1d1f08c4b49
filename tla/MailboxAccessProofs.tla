-------------------------- MODULE MailboxAccessProofs ------------------------
(***************************************************************************)
(* Proofs about MailboxAccess, for any browsers, requests, inboxes, tokens *)
(* and ids and any TTL.  Types and foreign keys are one induction: a page  *)
(* shows an attachment through its email's inbox, which is there because   *)
(* nothing dangles.  Whose mail is whose rests on MailInv: what a cookie   *)
(* or a request was given stays right because tokens and ids are never     *)
(* given twice (Lasting).  The expiry rests on AgeInv, which dates the     *)
(* requests that are about to touch their session.                         *)
(***************************************************************************)
EXTENDS MailboxAccess, TLAPS

USE MailboxAccessAssumption

-----------------------------------------------------------------------------
(* Types.                                                                  *)

LEMMA Zero == TTL \in Nat /\ 0 \in 0..TTL
  OBVIOUS

\* What the place of a request says about its fields.
LEMMA RequestFields ==
    ASSUME NEW x \in Request
    PROVE  /\ x.pc \in {"idle", "verify", "grant", "logout", "auth", "touch", "handle", "found",
                        "parts", "reply"}
           /\ x.pc # "idle" => x.who \in Browsers
           /\ x.pc \in {"verify", "grant"} => x.inbox \in Inboxes
           /\ x.pc \in {"logout", "auth", "reply"} => x.token \in Tokens \union {NoToken}
           /\ x.pc = "auth" => x.op \in Op
           /\ x.pc \in {"touch", "handle", "found", "parts"} =>
                  x.token \in Tokens /\ x.inbox \in Inboxes /\ x.op \in Op
           /\ x.pc = "touch" => x.age \in 0..TTL
  BY DEF Request, Idle

LEMMA OpFields ==
    ASSUME NEW op \in Op
    PROVE  /\ op.kind \in {"list", "view", "delete", "part"}
           /\ op.kind # "list" => op.email \in Emails
           /\ op.kind = "part" => op.part \in Parts
  BY DEF Op

LEMMA RequestForms ==
    /\ Idle \in Request
    /\ \A b \in Browsers, i \in Inboxes :
           /\ [pc |-> "verify", who |-> b, inbox |-> i] \in Request
           /\ [pc |-> "grant", who |-> b, inbox |-> i] \in Request
    /\ \A b \in Browsers, t \in Tokens \union {NoToken} :
           /\ [pc |-> "logout", who |-> b, token |-> t] \in Request
           /\ [pc |-> "reply", who |-> b, token |-> t] \in Request
           /\ \A op \in Op : [pc |-> "auth", who |-> b, token |-> t, op |-> op] \in Request
    /\ \A b \in Browsers, t \in Tokens, i \in Inboxes, op \in Op :
           /\ \A a \in 0..TTL : [pc |-> "touch", who |-> b, token |-> t, inbox |-> i, op |-> op,
                                 age |-> a] \in Request
           /\ \A p \in {"handle", "found", "parts"} :
                  [pc |-> p, who |-> b, token |-> t, inbox |-> i, op |-> op] \in Request
  BY DEF Request, Idle

Slot == Session \union {NoSession}

\* What writing the life it has left makes of a row.
LEMMA SlotForms ==
    /\ NoSession \in Slot
    /\ \A i \in Inboxes : [found |-> TRUE, inbox |-> i, left |-> TTL] \in Slot
    /\ \A s \in Slot : s.left \in 0..TTL /\ s.found \in BOOLEAN
                       /\ (s.found => s \in Session /\ s.inbox \in Inboxes)
                       /\ (~s.found => s = NoSession)
    /\ \A s \in Slot, n \in 0..TTL : s.found =>
           /\ [s EXCEPT !.left = n] \in Slot
           /\ [s EXCEPT !.left = n].found /\ [s EXCEPT !.left = n].inbox = s.inbox
           /\ [s EXCEPT !.left = n].left = n
  <1>1. NoSession \in Slot
    BY DEF Slot
  <1>2. \A i \in Inboxes : [found |-> TRUE, inbox |-> i, left |-> TTL] \in Slot
    BY DEF Slot, Session
  <1>3. \A s \in Session : s.found = TRUE /\ s.inbox \in Inboxes /\ s.left \in 0..TTL
    BY DEF Session
  <1>4. NoSession.found = FALSE /\ NoSession.left = 0
    BY DEF NoSession
  <1>5. ASSUME NEW s \in Session, NEW n \in 0..TTL
        PROVE  /\ [s EXCEPT !.left = n] \in Session
               /\ [s EXCEPT !.left = n].inbox = s.inbox
               /\ [s EXCEPT !.left = n].left = n
    <2>1. [s EXCEPT !.left = n] \in Session
      BY Zenon DEF Session
    <2>2. [s EXCEPT !.left = n].inbox = s.inbox /\ [s EXCEPT !.left = n].left = n
      BY DEF Session
    <2> QED BY <2>1, <2>2
  <1>6. ASSUME NEW s \in Slot
        PROVE  s.left \in 0..TTL /\ s.found \in BOOLEAN
                       /\ (s.found => s \in Session /\ s.inbox \in Inboxes)
                       /\ (~s.found => s = NoSession)
    <2>1. CASE s \in Session
      <3>1. s.found = TRUE /\ s.inbox \in Inboxes /\ s.left \in 0..TTL
        BY <1>3, <2>1
      <3> QED BY <2>1, <3>1
    <2>2. CASE s = NoSession
      <3>1. s.found = FALSE /\ s.left = 0
        BY <1>4, <2>2
      <3>2. s.left \in 0..TTL
        BY <3>1, Zero
      <3>3. s.found \in BOOLEAN /\ ~s.found
        BY <3>1
      <3> QED BY <2>2, <3>2, <3>3
    <2> QED BY <2>1, <2>2 DEF Slot
  <1>7. ASSUME NEW s \in Slot, NEW n \in 0..TTL, s.found
        PROVE  /\ [s EXCEPT !.left = n] \in Slot
               /\ [s EXCEPT !.left = n].found /\ [s EXCEPT !.left = n].inbox = s.inbox
               /\ [s EXCEPT !.left = n].left = n
    <2>1. s \in Session
      BY <1>6, <1>7
    <2>2. [s EXCEPT !.left = n] \in Session
      BY <1>5, <2>1
    <2>3. [s EXCEPT !.left = n].found = TRUE
      BY <1>3, <2>2
    <2> QED BY <1>5, <2>1, <2>2, <2>3 DEF Slot
  <1> QED BY <1>1, <1>2, <1>6, <1>7

Letter == Email \union {NoEmail}

LEMMA LetterForms ==
    /\ NoEmail \in Letter /\ NoEmail.found = FALSE
    /\ \A i \in Inboxes : [found |-> TRUE, inbox |-> i, read |-> FALSE] \in Letter
    /\ \A e \in Letter : e.found \in BOOLEAN /\ (e.found => e.inbox \in Inboxes)
    /\ \A e \in Letter : e.found =>
           /\ [e EXCEPT !.read = TRUE] \in Letter
           /\ [e EXCEPT !.read = TRUE].found /\ [e EXCEPT !.read = TRUE].inbox = e.inbox
  <1>1. NoEmail \in Letter /\ NoEmail.found = FALSE
    BY DEF NoEmail, Letter
  <1>2. \A i \in Inboxes : [found |-> TRUE, inbox |-> i, read |-> FALSE] \in Letter
    BY DEF Letter, Email
  <1>3. \A e \in Email : e.found = TRUE /\ e.inbox \in Inboxes
    BY DEF Email
  <1>4. ASSUME NEW e \in Email
        PROVE  [e EXCEPT !.read = TRUE] \in Email /\ [e EXCEPT !.read = TRUE].inbox = e.inbox
    <2>1. [e EXCEPT !.read = TRUE] \in Email
      BY Zenon DEF Email
    <2>2. [e EXCEPT !.read = TRUE].inbox = e.inbox
      BY DEF Email
    <2> QED BY <2>1, <2>2
  <1>5. ASSUME NEW e \in Letter, e.found
        PROVE  /\ [e EXCEPT !.read = TRUE] \in Letter
               /\ [e EXCEPT !.read = TRUE].found /\ [e EXCEPT !.read = TRUE].inbox = e.inbox
    <2>1. e \in Email
      BY <1>1, <1>5 DEF Letter
    <2> QED BY <1>3, <1>4, <2>1 DEF Letter
  <1> QED BY <1>1, <1>2, <1>3, <1>5 DEF Letter

\* Where a request goes next.
LEMMA BecomeType ==
    ASSUME TypeOK, NEW r \in Requests, NEW x \in Request, Become(r, x)
    PROVE  req' \in [Requests -> Request]
  BY DEF TypeOK, Become

LEMMA ReplyType ==
    ASSUME TypeOK, NEW r \in Requests, req[r].pc # "idle", NEW t \in Tokens \union {NoToken},
           ReplyWith(r, t)
    PROVE  req' \in [Requests -> Request]
  <1>1. req[r].who \in Browsers
    BY RequestFields DEF TypeOK
  <1> DEFINE x == [pc |-> "reply", who |-> req[r].who, token |-> t]
  <1>2. x \in Request
    BY <1>1, RequestForms
  <1>3. Become(r, x)
    BY DEF ReplyWith
  <1> HIDE DEF x
  <1> QED BY <1>2, <1>3, BecomeType

Handling == {"handle", "found", "parts"}

LEMMA ProceedType ==
    ASSUME TypeOK, NEW r \in Requests, req[r].pc \in {"touch"} \union Handling,
           NEW pc \in Handling, Proceed(r, pc)
    PROVE  req' \in [Requests -> Request]
  <1>1. /\ req[r].who \in Browsers /\ req[r].token \in Tokens
        /\ req[r].inbox \in Inboxes /\ req[r].op \in Op
    BY RequestFields DEF TypeOK, Handling
  <1> DEFINE x == [pc |-> pc, who |-> req[r].who, token |-> req[r].token,
                   inbox |-> req[r].inbox, op |-> req[r].op]
  <1>2. x \in Request
    BY <1>1, RequestForms DEF Handling
  <1>3. Become(r, x)
    BY DEF Proceed
  <1> HIDE DEF x
  <1> QED BY <1>2, <1>3, BecomeType

LEMMA AnswerType ==
    ASSUME TypeOK, NEW r \in Requests, req[r].pc \in Handling, Answer(r)
    PROVE  req' \in [Requests -> Request]
  <1>1. req[r].token \in Tokens
    BY RequestFields DEF TypeOK, Handling
  <1> QED BY <1>1, ReplyType DEF Answer, Handling

\* A request that waits to touch its session, later.
LEMMA AgedRequest ==
    ASSUME NEW x \in Request, x.pc = "touch", NEW n \in 0..TTL
    PROVE  /\ [x EXCEPT !.age = n] \in Request
           /\ [x EXCEPT !.age = n].pc = "touch" /\ [x EXCEPT !.age = n].age = n
           /\ [x EXCEPT !.age = n].who = x.who /\ [x EXCEPT !.age = n].token = x.token
           /\ [x EXCEPT !.age = n].inbox = x.inbox /\ [x EXCEPT !.age = n].op = x.op
  <1> DEFINE T == [pc : {"touch"}, who : Browsers, token : Tokens, inbox : Inboxes, op : Op,
                   age : 0..TTL]
  <1>1. x \in T
    BY DEF Request, Idle
  <1>2. [x EXCEPT !.age = n] \in T
    BY <1>1, Zenon
  <1>3. T \subseteq Request
    BY DEF Request
  <1>4. [x EXCEPT !.age = n].pc = "touch"
    BY <1>2
  <1>5. /\ [x EXCEPT !.age = n].age = n
        /\ [x EXCEPT !.age = n].who = x.who /\ [x EXCEPT !.age = n].token = x.token
        /\ [x EXCEPT !.age = n].inbox = x.inbox /\ [x EXCEPT !.age = n].op = x.op
    BY <1>1
  <1> QED BY <1>2, <1>3, <1>4, <1>5

LEMMA TypeInit == Init => TypeOK
  BY RequestForms, SlotForms, LetterForms DEF Init, TypeOK, Slot, Letter

LEMMA TypeStep == TypeOK /\ NothingDangles /\ [Next]_vars => TypeOK'
  <1> SUFFICES ASSUME TypeOK, NothingDangles, [Next]_vars PROVE TypeOK'
    OBVIOUS
  <1>0. /\ \A r \in Requests : req[r] \in Request
        /\ \A t \in Tokens : sessions[t] \in Slot
        /\ \A e \in Emails : emails[e] \in Letter
    BY DEF TypeOK, Slot, Letter
  <1>1. ASSUME NEW r \in Requests, NEW b \in Browsers, NEW i \in Inboxes, Login(r, b, i) PROVE TypeOK'
    <2>1. req' \in [Requests -> Request]
      BY <1>1, BecomeType, RequestForms DEF Login, Begin
    <2> QED BY <1>1, <2>1 DEF Login, TypeOK, tables, observers
  <1>2. ASSUME NEW r \in Requests, NEW b \in Browsers, Logout(r, b) PROVE TypeOK'
    <2> DEFINE x == [pc |-> "logout", who |-> b, token |-> cookie[b]]
    <2>1. x \in Request /\ Become(r, x)
      BY <1>2, RequestForms DEF Logout, Begin, TypeOK
    <2> HIDE DEF x
    <2>2. req' \in [Requests -> Request]
      BY <2>1, BecomeType
    <2> QED BY <1>2, <2>2 DEF Logout, TypeOK, tables, observers
  <1>3. ASSUME NEW r \in Requests, NEW b \in Browsers, NEW op \in Op, Visit(r, b, op) PROVE TypeOK'
    <2> DEFINE x == [pc |-> "auth", who |-> b, token |-> cookie[b], op |-> op]
    <2>1. x \in Request /\ Become(r, x)
      BY <1>3, RequestForms DEF Visit, Begin, TypeOK
    <2> HIDE DEF x
    <2>2. req' \in [Requests -> Request]
      BY <2>1, BecomeType
    <2> QED BY <1>3, <2>2 DEF Visit, TypeOK, tables, observers
  <1>4. ASSUME NEW r \in Requests, Verified(r) PROVE TypeOK'
    <2> DEFINE x == [pc |-> "grant", who |-> req[r].who, inbox |-> req[r].inbox]
    <2>1. x \in Request /\ Idle \in Request
      BY <1>0, <1>4, RequestFields, RequestForms DEF Verified
    <2>2. Become(r, x) \/ Become(r, Idle)
      BY <1>4 DEF Verified
    <2> HIDE DEF x
    <2>3. req' \in [Requests -> Request]
      BY <2>1, <2>2, BecomeType
    <2> QED BY <1>4, <2>3 DEF Verified, TypeOK, tables, observers
  <1>5. ASSUME NEW r \in Requests, NEW t \in Tokens, CreateSession(r, t) PROVE TypeOK'
    <2> DEFINE s == [found |-> TRUE, inbox |-> req[r].inbox, left |-> TTL]
    <2>1. s \in Slot
      BY <1>0, <1>5, RequestFields, SlotForms DEF CreateSession
    <2>2. req' \in [Requests -> Request]
      BY <1>5, BecomeType, ReplyType, RequestForms DEF CreateSession
    <2>3. sessions' \in [Tokens -> Session \union {NoSession}] /\ used' \in [Tokens -> 0..TTL]
      <3>1. CASE HasInbox(req[r].inbox)
        <4>1. sessions' = [sessions EXCEPT ![t] = s] /\ used' = [used EXCEPT ![t] = 0]
          BY <1>5, <3>1 DEF CreateSession
        <4> HIDE DEF s
        <4> QED BY <2>1, <4>1 DEF TypeOK, Slot
      <3>2. CASE ~HasInbox(req[r].inbox)
        BY <1>5, <3>2 DEF CreateSession, TypeOK
      <3> QED BY <3>1, <3>2
    <2> QED BY <1>5, <2>2, <2>3 DEF CreateSession, TypeOK
  <1>6. ASSUME NEW r \in Requests, DeleteSession(r) PROVE TypeOK'
    <2>1. req[r].token \in Tokens \union {NoToken}
      BY <1>0, <1>6, RequestFields DEF DeleteSession
    <2>2. req' \in [Requests -> Request]
      BY <1>6, ReplyType DEF DeleteSession
    <2> QED BY <1>6, <2>1, <2>2 DEF DeleteSession, Dropped, TypeOK
  <1>7. ASSUME NEW r \in Requests, DeleteSessionFails(r) PROVE TypeOK'
    <2>1. req' \in [Requests -> Request]
      BY <1>7, ReplyType DEF DeleteSessionFails
    <2> QED BY <1>7, <2>1 DEF DeleteSessionFails, TypeOK, tables, observers
  <1>8. ASSUME NEW r \in Requests, GetSession(r) PROVE TypeOK'
    <2> DEFINE x == [pc |-> "touch", who |-> req[r].who, token |-> req[r].token,
                     inbox |-> sessions[req[r].token].inbox, op |-> req[r].op, age |-> 0]
    <2>1. /\ req[r].who \in Browsers /\ req[r].op \in Op /\ req[r].token \in Tokens
      BY <1>0, <1>8, RequestFields DEF GetSession, Live
    <2>2. sessions[req[r].token].inbox \in Inboxes
      BY <1>0, <1>8, <2>1, SlotForms DEF GetSession, Live
    <2>3. x \in Request /\ Become(r, x)
      BY <1>8, <2>1, <2>2, Zero, RequestForms DEF GetSession
    <2> HIDE DEF x
    <2>4. req' \in [Requests -> Request]
      BY <2>3, BecomeType
    <2> QED BY <1>8, <2>1, <2>4, Zero DEF GetSession, TypeOK, tables
  <1>9. ASSUME NEW r \in Requests, NotAuthenticated(r) PROVE TypeOK'
    <2>1. req' \in [Requests -> Request]
      BY <1>9, ReplyType, BecomeType, RequestForms DEF NotAuthenticated
    <2> QED BY <1>9, <2>1 DEF NotAuthenticated, TypeOK, tables, observers
  <1>10. ASSUME NEW r \in Requests, TouchSession(r) PROVE TypeOK'
    <2> DEFINE t == req[r].token
               n == TTL - req[r].age
    <2>1. t \in Tokens /\ n \in 0..TTL
      BY <1>0, <1>10, RequestFields DEF TouchSession
    <2>2. req' \in [Requests -> Request]
      BY <1>10, ProceedType DEF TouchSession, Handling
    <2>3. \/ UNCHANGED sessions
          \/ sessions[t].found /\ sessions' = [sessions EXCEPT ![t] = [sessions[t] EXCEPT !.left = n]]
      BY <1>10 DEF TouchSession, NewLeft
    <2> HIDE DEF t, n
    <2>4. sessions[t].found => [sessions[t] EXCEPT !.left = n] \in Slot
      BY <1>0, <2>1, SlotForms
    <2>5. sessions' \in [Tokens -> Session \union {NoSession}]
      BY <2>1, <2>3, <2>4 DEF TypeOK, Slot
    <2> QED BY <1>10, <2>2, <2>5 DEF TouchSession, TypeOK, observers
  <1>11. ASSUME NEW r \in Requests, TouchSessionFails(r) PROVE TypeOK'
    <2>1. req' \in [Requests -> Request]
      BY <1>11, ProceedType DEF TouchSessionFails, Handling
    <2> QED BY <1>11, <2>1 DEF TouchSessionFails, TypeOK, tables, observers
  <1>12. ASSUME NEW r \in Requests, List(r) PROVE TypeOK'
    <2>1. req[r].who \in Browsers /\ req[r].inbox \in Inboxes
      BY <1>0, <1>12, RequestFields DEF List, At
    <2>2. req' \in [Requests -> Request]
      BY <1>12, AnswerType DEF List, At, Handling
    <2> QED BY <1>12, <2>1, <2>2 DEF List, Show, TypeOK, tables
  <1>13. ASSUME NEW r \in Requests, GetEmail(r) PROVE TypeOK'
    <2>1. req' \in [Requests -> Request]
      BY <1>13, ProceedType DEF GetEmail, At, Handling
    <2> QED BY <1>13, <2>1 DEF GetEmail, TypeOK, tables, observers
  <1>14. ASSUME NEW r \in Requests, EmailNotFound(r) PROVE TypeOK'
    <2>1. req' \in [Requests -> Request]
      BY <1>14, AnswerType DEF EmailNotFound, Handling
    <2> QED BY <1>14, <2>1 DEF EmailNotFound, TypeOK, tables, observers
  <1>15. ASSUME NEW r \in Requests, MarkEmailAsRead(r) PROVE TypeOK'
    <2> DEFINE e == req[r].op.email
    <2>1. e \in Emails
      BY <1>0, <1>15, RequestFields, OpFields DEF MarkEmailAsRead, At
    <2>2. req' \in [Requests -> Request]
      BY <1>15, ProceedType DEF MarkEmailAsRead, At, Handling
    <2>3. \/ UNCHANGED emails
          \/ emails[e].found /\ emails' = [emails EXCEPT ![e] = [emails[e] EXCEPT !.read = TRUE]]
      BY <1>15 DEF MarkEmailAsRead
    <2> HIDE DEF e
    <2>4. emails[e].found => [emails[e] EXCEPT !.read = TRUE] \in Letter
      BY <1>0, <2>1, LetterForms
    <2>5. emails' \in [Emails -> Email \union {NoEmail}]
      BY <2>1, <2>3, <2>4 DEF TypeOK, Letter
    <2> QED BY <1>15, <2>2, <2>5 DEF MarkEmailAsRead, TypeOK, observers
  <1>16. ASSUME NEW r \in Requests, View(r) PROVE TypeOK'
    <2>1. req[r].who \in Browsers /\ req[r].inbox \in Inboxes /\ req[r].op.email \in Emails
      BY <1>0, <1>16, RequestFields, OpFields DEF View, At
    <2>2. req' \in [Requests -> Request]
      BY <1>16, AnswerType DEF View, At, Handling
    <2> DEFINE I == {req[r].inbox} \union {emails[parts[p]].inbox : p \in Attached(req[r].op.email)}
    <2>3. I \subseteq Inboxes
      <3> SUFFICES ASSUME NEW p \in Parts, parts[p] = req[r].op.email
                   PROVE  emails[parts[p]].inbox \in Inboxes
        BY <2>1 DEF Attached
      <3>1. parts[p] \in Emails /\ emails[parts[p]].found
        BY <1>0, <2>1 DEF NothingDangles
      <3> QED BY <1>0, <3>1, LetterForms
    <2>4. Show(r, I)
      BY <1>16 DEF View
    <2> HIDE DEF I
    <2>5. shown' \subseteq Browsers \X Inboxes
      BY <2>1, <2>3, <2>4 DEF Show, TypeOK
    <2> QED BY <1>16, <2>2, <2>5 DEF View, TypeOK, tables
  <1>17. ASSUME NEW r \in Requests, GetAttachment(r) PROVE TypeOK'
    <2> DEFINE e == parts[req[r].op.part]
    <2>1. req[r].who \in Browsers /\ e \in Emails \union {None}
      BY <1>0, <1>17, RequestFields, OpFields DEF GetAttachment, At, TypeOK
    <2>2. req' \in [Requests -> Request]
      BY <1>17, AnswerType DEF GetAttachment, At, Handling
    <2>3. shown' \subseteq Browsers \X Inboxes
      <3>1. UNCHANGED shown \/ (e # None /\ Show(r, {emails[e].inbox}))
        BY <1>17 DEF GetAttachment
      <3>2. ASSUME e # None, emails[e].found PROVE emails[e].inbox \in Inboxes
        BY <1>0, <2>1, <3>2, LetterForms
      <3>3. e # None => emails[e].found
        BY <1>0, <1>17, RequestFields, OpFields DEF GetAttachment, At, NothingDangles
      <3> HIDE DEF e
      <3> QED BY <2>1, <3>1, <3>2, <3>3 DEF Show, TypeOK
    <2> QED BY <1>17, <2>2, <2>3 DEF GetAttachment, TypeOK, tables
  <1>18. ASSUME NEW r \in Requests, DeleteEmail(r) PROVE TypeOK'
    <2>1. req' \in [Requests -> Request]
      BY <1>18, AnswerType DEF DeleteEmail, At, Handling
    <2>2. /\ emails' \in [Emails -> Email \union {NoEmail}]
          /\ parts' \in [Parts -> Emails \union {None}]
      BY <1>18 DEF DeleteEmail, RemoveEmails, TypeOK
    <2> QED BY <1>18, <2>1, <2>2 DEF DeleteEmail, TypeOK, observers
  <1>19. ASSUME NEW r \in Requests, Fails(r) PROVE TypeOK'
    <2>1. req' \in [Requests -> Request]
      BY <1>19, AnswerType, BecomeType, RequestForms DEF Fails, Handling
    <2> QED BY <1>19, <2>1 DEF Fails, TypeOK, tables, observers
  <1>20. ASSUME NEW r \in Requests, Reply(r) PROVE TypeOK'
    <2>1. req[r].token \in Tokens \union {NoToken}
      BY <1>0, <1>20, RequestFields DEF Reply
    <2>2. req' \in [Requests -> Request]
      BY <1>20, BecomeType, RequestForms DEF Reply
    <2> QED BY <1>20, <2>1, <2>2 DEF Reply, TypeOK, tables, observers
  <1>21. ASSUME NEW r \in Requests, ReplyLost(r) PROVE TypeOK'
    <2>1. req' \in [Requests -> Request]
      BY <1>21, BecomeType, RequestForms DEF ReplyLost
    <2> QED BY <1>21, <2>1 DEF ReplyLost, TypeOK, tables, observers
  <1>22. ASSUME NEW e \in Emails, NEW i \in Inboxes, NEW P \in SUBSET Parts, Receive(e, i, P) PROVE TypeOK'
    <2> DEFINE l == [found |-> TRUE, inbox |-> i, read |-> FALSE]
    <2>1. l \in Letter
      BY LetterForms
    <2>2. emails' = [emails EXCEPT ![e] = l]
      BY <1>22 DEF Receive
    <2> HIDE DEF l
    <2>3. emails' \in [Emails -> Email \union {NoEmail}]
      BY <2>1, <2>2 DEF TypeOK, Letter
    <2>4. /\ parts' \in [Parts -> Emails \union {None}]
          /\ usedIds' \subseteq Emails \union Parts
      BY <1>22 DEF Receive, TypeOK
    <2> QED BY <1>22, <2>3, <2>4 DEF Receive, TypeOK, observers
  <1>23. ASSUME NEW S \in SUBSET Inboxes, DeleteExpiredInboxes(S) PROVE TypeOK'
    <2>1. inboxes' \in [Inboxes -> BOOLEAN \union {None}]
      BY <1>23, Zenon DEF DeleteExpiredInboxes, TypeOK
    <2>2. /\ emails' \in [Emails -> Email \union {NoEmail}]
          /\ parts' \in [Parts -> Emails \union {None}]
      BY <1>23 DEF DeleteExpiredInboxes, RemoveEmails, TypeOK
    <2>3. sessions' \in [Tokens -> Session \union {NoSession}]
      BY <1>23 DEF DeleteExpiredInboxes, Dropped, TypeOK
    <2> QED BY <1>23, <2>1, <2>2, <2>3 DEF DeleteExpiredInboxes, TypeOK, observers
  <1>24. CASE WakeUp
    BY <1>24 DEF WakeUp, TypeOK, tables, observers
  <1>25. CASE DeleteExpiredSessions
    <2>1. sessions' \in [Tokens -> Session \union {NoSession}]
      BY <1>25 DEF DeleteExpiredSessions, Dropped, TypeOK
    <2> QED BY <1>25, <2>1 DEF DeleteExpiredSessions, TypeOK, observers
  <1>26. CASE CleanupFails
    BY <1>26 DEF CleanupFails, TypeOK, tables, observers
  <1>27. CASE Restart
    BY <1>27, RequestForms DEF Restart, TypeOK, tables, observers
  <1>28. CASE Tick
    <2>1. ASSUME NEW t \in Tokens PROVE sessions'[t] \in Slot
      <3>1. CASE sessions[t].left = 0
        BY <1>0, <1>28, <3>1 DEF Tick
      <3>2. CASE sessions[t].left # 0
        <4>1. sessions'[t] = [sessions[t] EXCEPT !.left = sessions[t].left - 1]
          BY <1>28, <3>2 DEF Tick
        <4>2. sessions[t].found /\ sessions[t].left - 1 \in 0..TTL
          BY <1>0, <3>2, SlotForms DEF NoSession
        <4> QED BY <1>0, <4>1, <4>2, SlotForms
      <3> QED BY <3>1, <3>2
    <2>2. sessions' \in [Tokens -> Session \union {NoSession}]
      BY <1>28, <2>1 DEF Tick, Slot
    <2>3. ASSUME NEW r \in Requests PROVE req'[r] \in Request
      <3>1. CASE req[r].pc = "touch" /\ req[r].age < TTL
        <4>1. req'[r] = [req[r] EXCEPT !.age = req[r].age + 1] /\ req[r].age + 1 \in 0..TTL
          BY <1>0, <1>28, <3>1, RequestFields DEF Tick
        <4> QED BY <1>0, <3>1, <4>1, AgedRequest
      <3>2. CASE ~(req[r].pc = "touch" /\ req[r].age < TTL)
        BY <1>0, <1>28, <3>2 DEF Tick
      <3> QED BY <3>1, <3>2
    <2>4. req' \in [Requests -> Request]
      BY <1>28, <2>3 DEF Tick
    <2>5. used' \in [Tokens -> 0..TTL]
      <3>1. ASSUME NEW t \in Tokens
            PROVE  (IF used[t] = TTL THEN TTL ELSE used[t] + 1) \in 0..TTL
        <4>1. used[t] \in 0..TTL
          BY DEF TypeOK
        <4> QED BY <4>1
      <3> QED BY <1>28, <3>1 DEF Tick
    <2> QED BY <1>28, <2>2, <2>4, <2>5 DEF Tick, TypeOK
  <1>29. CASE UNCHANGED vars
    BY <1>29 DEF vars, TypeOK, tables, observers
  <1> QED
    BY <1>1, <1>2, <1>3, <1>4, <1>5, <1>6, <1>7, <1>8, <1>9, <1>10, <1>11, <1>12, <1>13, <1>14, <1>15,
       <1>16, <1>17, <1>18, <1>19, <1>20, <1>21, <1>22, <1>23, <1>24, <1>25, <1>26, <1>27, <1>28, <1>29 DEF Next

-----------------------------------------------------------------------------
(* What the two UPDATEs and the passing of time leave of a row.            *)

LEMMA TouchKeeps ==
    ASSUME TypeOK, NEW r \in Requests, TouchSession(r)
    PROVE  \A t \in Tokens : /\ sessions'[t].found = sessions[t].found
                             /\ sessions[t].found => sessions'[t].inbox = sessions[t].inbox
                             /\ sessions'[t].found =>
                                    \/ sessions'[t] = sessions[t]
                                    \/ t = req[r].token /\ sessions'[t].left = TTL - req[r].age
  <1> DEFINE t == req[r].token
             n == TTL - req[r].age
  <1>1. t \in Tokens /\ n \in 0..TTL
    BY RequestFields DEF TouchSession, TypeOK
  <1>2. \/ UNCHANGED sessions
        \/ sessions[t].found /\ sessions' = [sessions EXCEPT ![t] = [sessions[t] EXCEPT !.left = n]]
    BY DEF TouchSession, NewLeft
  <1> HIDE DEF t, n
  <1>3. sessions[t].found =>
            /\ [sessions[t] EXCEPT !.left = n].found = sessions[t].found
            /\ [sessions[t] EXCEPT !.left = n].inbox = sessions[t].inbox
            /\ [sessions[t] EXCEPT !.left = n].left = n
    <2>1. sessions[t] \in Slot
      BY <1>1 DEF TypeOK, Slot
    <2> DEFINE s == [sessions[t] EXCEPT !.left = n]
    <2>2. ASSUME sessions[t].found
          PROVE  s \in Slot /\ s.found /\ s.inbox = sessions[t].inbox /\ s.left = n
      BY <1>1, <2>1, <2>2, SlotForms
    <2> HIDE DEF s
    <2>3. ASSUME NEW x \in Slot, NEW y \in Slot, x.found, y.found PROVE x.found = y.found
      BY <2>3, SlotForms
    <2>4. ASSUME sessions[t].found
          PROVE  s.found = sessions[t].found /\ s.inbox = sessions[t].inbox /\ s.left = n
      BY <2>1, <2>2, <2>3, <2>4
    <2> QED BY <2>4 DEF s
  <1>4. \A u \in Tokens \ {t} : sessions'[u] = sessions[u]
    BY <1>2 DEF TypeOK
  <1>5. CASE UNCHANGED sessions
    BY <1>5
  <1>6. CASE sessions[t].found /\ sessions'[t] = [sessions[t] EXCEPT !.left = n]
    BY <1>3, <1>4, <1>6 DEF t, n
  <1> QED BY <1>1, <1>2, <1>5, <1>6 DEF TypeOK

LEMMA MarkKeeps ==
    ASSUME TypeOK, NEW r \in Requests, MarkEmailAsRead(r)
    PROVE  \A e \in Emails : /\ emails'[e].found = emails[e].found
                             /\ emails[e].found => emails'[e].inbox = emails[e].inbox
                             /\ e # req[r].op.email => emails'[e] = emails[e]
  <1> DEFINE e == req[r].op.email
  <1>1. e \in Emails
    BY RequestFields, OpFields DEF MarkEmailAsRead, At, TypeOK
  <1>2. \/ UNCHANGED emails
        \/ emails[e].found /\ emails' = [emails EXCEPT ![e] = [emails[e] EXCEPT !.read = TRUE]]
    BY DEF MarkEmailAsRead
  <1>3. emails[e] \in Letter
    BY <1>1 DEF TypeOK, Letter
  <1>4. ASSUME emails[e].found
        PROVE  /\ [emails[e] EXCEPT !.read = TRUE].found = emails[e].found
               /\ [emails[e] EXCEPT !.read = TRUE].inbox = emails[e].inbox
    <2>1. [emails[e] EXCEPT !.read = TRUE] \in Letter
      BY <1>3, <1>4, LetterForms
    <2>2. ASSUME NEW x \in Letter, NEW y \in Letter, x.found, y.found PROVE x.found = y.found
      BY <2>2, LetterForms
    <2> QED BY <1>3, <1>4, <2>1, <2>2, LetterForms
  <1>5. \A d \in Emails \ {e} : emails'[d] = emails[d]
    BY <1>2 DEF TypeOK
  <1>6. CASE UNCHANGED emails
    BY <1>6
  <1>7. CASE emails[e].found /\ emails'[e] = [emails[e] EXCEPT !.read = TRUE]
    BY <1>4, <1>5, <1>7
  <1> QED BY <1>1, <1>2, <1>6, <1>7 DEF TypeOK

LEMMA TickKeeps ==
    ASSUME TypeOK, Tick
    PROVE  \A t \in Tokens :
               /\ sessions'[t].found = sessions[t].found
               /\ sessions[t].found => sessions'[t].inbox = sessions[t].inbox
               /\ sessions[t].left = 0 => sessions'[t].left = 0
               /\ sessions[t].left # 0 => sessions'[t].left = sessions[t].left - 1
  <1> SUFFICES ASSUME NEW t \in Tokens
               PROVE  /\ sessions'[t].found = sessions[t].found
                      /\ sessions[t].found => sessions'[t].inbox = sessions[t].inbox
                      /\ sessions[t].left = 0 => sessions'[t].left = 0
                      /\ sessions[t].left # 0 => sessions'[t].left = sessions[t].left - 1
    OBVIOUS
  <1>1. CASE sessions[t].left = 0
    BY <1>1 DEF Tick
  <1>2. CASE sessions[t].left # 0
    <2> DEFINE n == sessions[t].left - 1
    <2>1. sessions'[t] = [sessions[t] EXCEPT !.left = n]
      BY <1>2 DEF Tick
    <2>2. sessions[t] \in Slot
      BY DEF TypeOK, Slot
    <2>3. sessions[t].found /\ n \in 0..TTL
      BY <1>2, <2>2, SlotForms DEF NoSession
    <2> HIDE DEF n
    <2>4. /\ sessions'[t] \in Slot /\ sessions'[t].found
          /\ sessions'[t].inbox = sessions[t].inbox /\ sessions'[t].left = n
      BY <2>1, <2>2, <2>3, SlotForms
    <2>5. ASSUME NEW x \in Slot, NEW y \in Slot, x.found, y.found PROVE x.found = y.found
      BY <2>5, SlotForms
    <2> QED BY <1>2, <2>2, <2>3, <2>4, <2>5 DEF n
  <1> QED BY <1>1, <1>2

-----------------------------------------------------------------------------
(* Foreign keys.                                                           *)

LEMMA DangleStep == TypeOK /\ NothingDangles /\ [Next]_vars => NothingDangles'
  <1> SUFFICES ASSUME TypeOK, NothingDangles, [Next]_vars PROVE NothingDangles'
    OBVIOUS
  <1>0. UNCHANGED <<inboxes, sessions, emails, parts>> => NothingDangles'
    BY DEF NothingDangles, HasInbox
  <1>1. ASSUME NEW r \in Requests, NEW b \in Browsers, NEW i \in Inboxes, Login(r, b, i) PROVE NothingDangles'
    BY <1>0, <1>1 DEF Login, tables
  <1>2. ASSUME NEW r \in Requests, NEW b \in Browsers, Logout(r, b) PROVE NothingDangles'
    BY <1>0, <1>2 DEF Logout, tables
  <1>3. ASSUME NEW r \in Requests, NEW b \in Browsers, NEW op \in Op, Visit(r, b, op) PROVE NothingDangles'
    BY <1>0, <1>3 DEF Visit, tables
  <1>4. ASSUME NEW r \in Requests, Verified(r) PROVE NothingDangles'
    BY <1>0, <1>4 DEF Verified, tables
  <1>5. ASSUME NEW r \in Requests, NEW t \in Tokens, CreateSession(r, t) PROVE NothingDangles'
    <2>1. CASE HasInbox(req[r].inbox)
      <3>1. /\ sessions' = [sessions EXCEPT ![t] = [found |-> TRUE, inbox |-> req[r].inbox,
                                                    left |-> TTL]]
            /\ UNCHANGED <<inboxes, emails, parts>>
        BY <1>5, <2>1 DEF CreateSession
      <3> QED BY <2>1, <3>1 DEF NothingDangles, HasInbox, TypeOK
    <2>2. CASE ~HasInbox(req[r].inbox)
      BY <1>0, <1>5, <2>2 DEF CreateSession
    <2> QED BY <2>1, <2>2
  <1>6. ASSUME NEW r \in Requests, DeleteSession(r) PROVE NothingDangles'
    BY <1>6 DEF DeleteSession, Dropped, NothingDangles, HasInbox, NoSession
  <1>7. ASSUME NEW r \in Requests, DeleteSessionFails(r) PROVE NothingDangles'
    BY <1>0, <1>7 DEF DeleteSessionFails, tables
  <1>8. ASSUME NEW r \in Requests, GetSession(r) PROVE NothingDangles'
    BY <1>0, <1>8 DEF GetSession, tables
  <1>9. ASSUME NEW r \in Requests, NotAuthenticated(r) PROVE NothingDangles'
    BY <1>0, <1>9 DEF NotAuthenticated, tables
  <1>10. ASSUME NEW r \in Requests, TouchSession(r) PROVE NothingDangles'
    <2>1. /\ UNCHANGED <<inboxes, emails, parts>>
          /\ \A t \in Tokens : /\ sessions'[t].found = sessions[t].found
                               /\ sessions[t].found => sessions'[t].inbox = sessions[t].inbox
      BY <1>10, TouchKeeps DEF TouchSession
    <2> QED BY <2>1 DEF NothingDangles, HasInbox
  <1>11. ASSUME NEW r \in Requests, TouchSessionFails(r) PROVE NothingDangles'
    BY <1>0, <1>11 DEF TouchSessionFails, tables
  <1>12. ASSUME NEW r \in Requests, List(r) PROVE NothingDangles'
    BY <1>0, <1>12 DEF List, tables
  <1>13. ASSUME NEW r \in Requests, GetEmail(r) PROVE NothingDangles'
    BY <1>0, <1>13 DEF GetEmail, tables
  <1>14. ASSUME NEW r \in Requests, EmailNotFound(r) PROVE NothingDangles'
    BY <1>0, <1>14 DEF EmailNotFound, tables
  <1>15. ASSUME NEW r \in Requests, MarkEmailAsRead(r) PROVE NothingDangles'
    <2>1. /\ UNCHANGED <<inboxes, sessions, parts>>
          /\ \A e \in Emails : /\ emails'[e].found = emails[e].found
                               /\ emails[e].found => emails'[e].inbox = emails[e].inbox
      BY <1>15, MarkKeeps DEF MarkEmailAsRead
    <2>2. \A p \in Parts : parts[p] # None => parts[p] \in Emails
      BY DEF TypeOK
    <2> QED BY <2>1, <2>2 DEF NothingDangles, HasInbox
  <1>16. ASSUME NEW r \in Requests, View(r) PROVE NothingDangles'
    BY <1>0, <1>16 DEF View, tables
  <1>17. ASSUME NEW r \in Requests, GetAttachment(r) PROVE NothingDangles'
    BY <1>0, <1>17 DEF GetAttachment, tables
  <1>18. ASSUME NEW r \in Requests, DeleteEmail(r) PROVE NothingDangles'
    BY <1>18 DEF DeleteEmail, RemoveEmails, NothingDangles, HasInbox, NoEmail, TypeOK
  <1>19. ASSUME NEW r \in Requests, Fails(r) PROVE NothingDangles'
    BY <1>0, <1>19 DEF Fails, tables
  <1>20. ASSUME NEW r \in Requests, Reply(r) PROVE NothingDangles'
    BY <1>0, <1>20 DEF Reply, tables
  <1>21. ASSUME NEW r \in Requests, ReplyLost(r) PROVE NothingDangles'
    BY <1>0, <1>21 DEF ReplyLost, tables
  <1>22. ASSUME NEW e \in Emails, NEW i \in Inboxes, NEW P \in SUBSET Parts, Receive(e, i, P) PROVE NothingDangles'
    BY <1>22 DEF Receive, NothingDangles, HasInbox, TypeOK
  <1>23. ASSUME NEW S \in SUBSET Inboxes, DeleteExpiredInboxes(S) PROVE NothingDangles'
    <2>1. \A t \in Tokens : sessions'[t].found => sessions'[t] = sessions[t] /\ sessions[t].inbox \notin S
      BY <1>23 DEF DeleteExpiredInboxes, Dropped, SessionsOf, NoSession
    <2>2. \A e \in Emails : emails'[e].found => emails'[e] = emails[e] /\ emails[e].inbox \notin S
      BY <1>23 DEF DeleteExpiredInboxes, RemoveEmails, NoEmail
    <2>3. \A i \in Inboxes \ S : inboxes'[i] = inboxes[i]
      BY <1>23 DEF DeleteExpiredInboxes
    <2>4. \A t \in Tokens : sessions[t].found => sessions[t].inbox \in Inboxes
      BY SlotForms DEF TypeOK, Slot
    <2>5. \A e \in Emails : emails[e].found => emails[e].inbox \in Inboxes
      BY LetterForms DEF TypeOK, Letter
    <2>6. \A p \in Parts : parts'[p] # None => emails'[parts'[p]].found
      <3> DEFINE D == {e \in Emails : emails[e].found /\ emails[e].inbox \in S}
      <3>1. RemoveEmails(D)
        BY <1>23 DEF DeleteExpiredInboxes
      <3> HIDE DEF D
      <3> QED BY <3>1 DEF RemoveEmails, NothingDangles, TypeOK
    <2> QED BY <2>1, <2>2, <2>3, <2>4, <2>5, <2>6 DEF NothingDangles, HasInbox
  <1>24. CASE WakeUp
    BY <1>0, <1>24 DEF WakeUp, tables
  <1>25. CASE DeleteExpiredSessions
    BY <1>25 DEF DeleteExpiredSessions, Dropped, NothingDangles, HasInbox, NoSession
  <1>26. CASE CleanupFails
    BY <1>0, <1>26 DEF CleanupFails, tables
  <1>27. CASE Restart
    BY <1>0, <1>27 DEF Restart, tables
  <1>28. CASE Tick
    <2>1. /\ UNCHANGED <<inboxes, emails, parts>>
          /\ \A t \in Tokens : /\ sessions'[t].found = sessions[t].found
                               /\ sessions[t].found => sessions'[t].inbox = sessions[t].inbox
      BY <1>28, TickKeeps DEF Tick
    <2> QED BY <2>1 DEF NothingDangles, HasInbox
  <1>29. CASE UNCHANGED vars
    BY <1>0, <1>29 DEF vars, tables
  <1> QED
    BY <1>1, <1>2, <1>3, <1>4, <1>5, <1>6, <1>7, <1>8, <1>9, <1>10, <1>11, <1>12, <1>13, <1>14, <1>15,
       <1>16, <1>17, <1>18, <1>19, <1>20, <1>21, <1>22, <1>23, <1>24, <1>25, <1>26, <1>27, <1>28, <1>29 DEF Next

LEMMA TypesAlways == Spec => [](TypeOK /\ NothingDangles)
  <1>1. Init => NothingDangles
    BY DEF Init, NothingDangles, NoSession, NoEmail
  <1> QED BY <1>1, TypeInit, TypeStep, DangleStep, PTL DEF Spec

\* Every row, request and cookie is what the code can make of it (sqlite.go:132-548,
\* middleware.go:40-75, auth_handlers.go:61-203, handlers.go:58-259).
THEOREM TypeCorrect == Spec => []TypeOK
  BY TypesAlways, PTL

\* No session, email or attachment outlives what it belongs to (001_initial.sql,
\* 003_sessions.sql).
THEOREM NothingEverDangles == Spec => []NothingDangles
  BY TypesAlways, PTL

-----------------------------------------------------------------------------
(* Who may see and change what.  A token stands for the inbox of its row   *)
(* as long as the row is there, and once it has gone for none, since no    *)
(* token is drawn twice; the id of an email likewise.  So what a cookie or *)
(* a request was given when its password or token was checked stays right  *)
(* whatever the other requests, the worker and the mail do in between.     *)

Owned(b, t) == t \in Tokens /\ sessions[t].found => <<b, sessions[t].inbox>> \in Knows
HandedOut(b, t) == t \in issued \union {NoToken} /\ Owned(b, t)

RequestOK(x) ==
    /\ x.pc \in {"logout", "auth", "touch", "reply"} \union Handling => HandedOut(x.who, x.token)
    /\ x.pc \in {"grant", "touch"} \union Handling => <<x.who, x.inbox>> \in Knows
    /\ x.pc \in {"found", "parts"} /\ x.op.kind # "list" =>
           x.op.email \in usedIds
           /\ (emails[x.op.email].found => emails[x.op.email].inbox = x.inbox)

MailInv ==
    /\ \A t \in Tokens : sessions[t].found => t \in issued
    /\ \A e \in Emails : emails[e].found => e \in usedIds
    /\ \A b \in Browsers : HandedOut(b, cookie[b])
    /\ \A r \in Requests : RequestOK(req[r])
    /\ OwnMailOnly

\* What no step does: bring back a row under an id or a token that was given
\* before, or hand one to another inbox.
Lasting ==
    /\ issued \subseteq issued' /\ usedIds \subseteq usedIds'
    /\ \A t \in issued : sessions'[t].found =>
           sessions[t].found /\ sessions'[t].inbox = sessions[t].inbox
    /\ \A e \in Emails \intersect usedIds : emails'[e].found =>
           emails[e].found /\ emails'[e].inbox = emails[e].inbox
    /\ \A t \in Tokens : sessions'[t].found => t \in issued'
    /\ \A e \in Emails : emails'[e].found => e \in usedIds'

LEMMA LastingStep == TypeOK /\ MailInv /\ [Next]_vars => Lasting
  <1> SUFFICES ASSUME TypeOK, MailInv, [Next]_vars PROVE Lasting
    OBVIOUS
  <1>0. UNCHANGED <<sessions, emails, usedIds, issued>> => Lasting
    BY DEF Lasting, MailInv
  <1>a. issued \subseteq Tokens
    BY DEF TypeOK
  <1>1. ASSUME NEW r \in Requests, NEW b \in Browsers, NEW i \in Inboxes, Login(r, b, i) PROVE Lasting
    BY <1>0, <1>1 DEF Login, tables
  <1>2. ASSUME NEW r \in Requests, NEW b \in Browsers, Logout(r, b) PROVE Lasting
    BY <1>0, <1>2 DEF Logout, tables
  <1>3. ASSUME NEW r \in Requests, NEW b \in Browsers, NEW op \in Op, Visit(r, b, op) PROVE Lasting
    BY <1>0, <1>3 DEF Visit, tables
  <1>4. ASSUME NEW r \in Requests, Verified(r) PROVE Lasting
    BY <1>0, <1>4 DEF Verified, tables
  <1>5. ASSUME NEW r \in Requests, NEW t \in Tokens, CreateSession(r, t) PROVE Lasting
    <2>1. /\ \A u \in Tokens \ {t} : sessions'[u] = sessions[u]
          /\ t \notin issued /\ issued' = issued \union {t} /\ UNCHANGED <<emails, usedIds>>
      BY <1>5 DEF CreateSession, TypeOK
    <2> QED BY <1>a, <2>1 DEF Lasting, MailInv
  <1>6. ASSUME NEW r \in Requests, DeleteSession(r) PROVE Lasting
    BY <1>a, <1>6 DEF DeleteSession, Dropped, Lasting, MailInv, NoSession
  <1>7. ASSUME NEW r \in Requests, DeleteSessionFails(r) PROVE Lasting
    BY <1>0, <1>7 DEF DeleteSessionFails, tables
  <1>8. ASSUME NEW r \in Requests, GetSession(r) PROVE Lasting
    BY <1>0, <1>8 DEF GetSession, tables
  <1>9. ASSUME NEW r \in Requests, NotAuthenticated(r) PROVE Lasting
    BY <1>0, <1>9 DEF NotAuthenticated, tables
  <1>10. ASSUME NEW r \in Requests, TouchSession(r) PROVE Lasting
    <2>1. /\ UNCHANGED <<emails, usedIds, issued>>
          /\ \A t \in Tokens : /\ sessions'[t].found = sessions[t].found
                               /\ sessions[t].found => sessions'[t].inbox = sessions[t].inbox
      BY <1>10, TouchKeeps DEF TouchSession
    <2> QED BY <1>a, <2>1 DEF Lasting, MailInv
  <1>11. ASSUME NEW r \in Requests, TouchSessionFails(r) PROVE Lasting
    BY <1>0, <1>11 DEF TouchSessionFails, tables
  <1>12. ASSUME NEW r \in Requests, List(r) PROVE Lasting
    BY <1>0, <1>12 DEF List, tables
  <1>13. ASSUME NEW r \in Requests, GetEmail(r) PROVE Lasting
    BY <1>0, <1>13 DEF GetEmail, tables
  <1>14. ASSUME NEW r \in Requests, EmailNotFound(r) PROVE Lasting
    BY <1>0, <1>14 DEF EmailNotFound, tables
  <1>15. ASSUME NEW r \in Requests, MarkEmailAsRead(r) PROVE Lasting
    <2>1. /\ UNCHANGED <<sessions, usedIds, issued>>
          /\ \A e \in Emails : /\ emails'[e].found = emails[e].found
                               /\ emails[e].found => emails'[e].inbox = emails[e].inbox
      BY <1>15, MarkKeeps DEF MarkEmailAsRead
    <2> QED BY <2>1 DEF Lasting, MailInv
  <1>16. ASSUME NEW r \in Requests, View(r) PROVE Lasting
    BY <1>0, <1>16 DEF View, tables
  <1>17. ASSUME NEW r \in Requests, GetAttachment(r) PROVE Lasting
    BY <1>0, <1>17 DEF GetAttachment, tables
  <1>18. ASSUME NEW r \in Requests, DeleteEmail(r) PROVE Lasting
    BY <1>18 DEF DeleteEmail, RemoveEmails, Lasting, MailInv, NoEmail
  <1>19. ASSUME NEW r \in Requests, Fails(r) PROVE Lasting
    BY <1>0, <1>19 DEF Fails, tables
  <1>20. ASSUME NEW r \in Requests, Reply(r) PROVE Lasting
    BY <1>0, <1>20 DEF Reply, tables
  <1>21. ASSUME NEW r \in Requests, ReplyLost(r) PROVE Lasting
    BY <1>0, <1>21 DEF ReplyLost, tables
  <1>22. ASSUME NEW e \in Emails, NEW i \in Inboxes, NEW P \in SUBSET Parts, Receive(e, i, P) PROVE Lasting
    <2>1. /\ \A d \in Emails \ {e} : emails'[d] = emails[d]
          /\ e \notin usedIds /\ usedIds' = usedIds \union {e} \union P
          /\ UNCHANGED <<sessions, issued>>
      BY <1>22 DEF Receive, TypeOK
    <2> QED BY <2>1 DEF Lasting, MailInv
  <1>23. ASSUME NEW S \in SUBSET Inboxes, DeleteExpiredInboxes(S) PROVE Lasting
    BY <1>a, <1>23 DEF DeleteExpiredInboxes, RemoveEmails, Dropped, Lasting, MailInv, NoEmail, NoSession
  <1>24. CASE WakeUp
    BY <1>0, <1>24 DEF WakeUp, tables
  <1>25. CASE DeleteExpiredSessions
    BY <1>a, <1>25 DEF DeleteExpiredSessions, Dropped, Lasting, MailInv, NoSession
  <1>26. CASE CleanupFails
    BY <1>0, <1>26 DEF CleanupFails, tables
  <1>27. CASE Restart
    BY <1>0, <1>27 DEF Restart, tables
  <1>28. CASE Tick
    <2>1. /\ UNCHANGED <<emails, usedIds, issued>>
          /\ \A t \in Tokens : /\ sessions'[t].found = sessions[t].found
                               /\ sessions[t].found => sessions'[t].inbox = sessions[t].inbox
      BY <1>28, TickKeeps DEF Tick
    <2> QED BY <1>a, <2>1 DEF Lasting, MailInv
  <1>29. CASE UNCHANGED vars
    BY <1>0, <1>29 DEF vars, tables
  <1> QED
    BY <1>1, <1>2, <1>3, <1>4, <1>5, <1>6, <1>7, <1>8, <1>9, <1>10, <1>11, <1>12, <1>13, <1>14, <1>15,
       <1>16, <1>17, <1>18, <1>19, <1>20, <1>21, <1>22, <1>23, <1>24, <1>25, <1>26, <1>27, <1>28, <1>29 DEF Next

\* What was right stays right.
LEMMA HandedOutStays ==
    ASSUME TypeOK, Lasting, NEW b, NEW t, HandedOut(b, t)
    PROVE  HandedOut(b, t)'
  <1>1. NoToken \notin Tokens /\ issued \subseteq Tokens
    BY DEF TypeOK
  <1> QED BY <1>1 DEF Lasting, HandedOut, Owned

LEMMA RequestOKStays ==
    ASSUME TypeOK, Lasting, NEW x \in Request, RequestOK(x)
    PROVE  RequestOK(x)'
  <1>1. x.pc \in {"logout", "auth", "touch", "reply"} \union Handling => HandedOut(x.who, x.token)'
    BY HandedOutStays DEF RequestOK
  <1>2. x.pc \in {"found", "parts"} => x.op \in Op
    BY RequestFields
  <1>3. x.pc \in {"found", "parts"} /\ x.op.kind # "list" => x.op.email \in Emails
    BY <1>2, OpFields
  <1>4. x.pc \in {"found", "parts"} /\ x.op.kind # "list" =>
           x.op.email \in usedIds'
           /\ (emails'[x.op.email].found => emails'[x.op.email].inbox = x.inbox)
    BY <1>3 DEF RequestOK, Lasting
  <1> QED BY <1>1, <1>4 DEF RequestOK

LEMMA BecomeOK ==
    ASSUME TypeOK, MailInv, Lasting, NEW r \in Requests, NEW x \in Request, RequestOK(x),
           Become(r, x)
    PROVE  \A q \in Requests : RequestOK(req[q])'
  <1> SUFFICES ASSUME NEW q \in Requests PROVE RequestOK(req[q])'
    OBVIOUS
  <1>1. req'[q] = x \/ req'[q] = req[q]
    BY DEF Become, TypeOK
  <1>2. PICK y \in Request : y = req'[q] /\ RequestOK(y)
    BY <1>1 DEF MailInv, TypeOK
  <1>3. RequestOK(y)'
    BY <1>2, RequestOKStays
  <1> QED BY <1>2, <1>3 DEF RequestOK, HandedOut, Owned

LEMMA IdleOK == Idle \in Request /\ RequestOK(Idle)
  BY RequestForms DEF Idle, RequestOK, Handling

LEMMA ReplyOK ==
    ASSUME TypeOK, MailInv, Lasting, NEW r \in Requests, req[r].pc # "idle",
           NEW t \in Tokens \union {NoToken}, HandedOut(req[r].who, t), ReplyWith(r, t)
    PROVE  \A q \in Requests : RequestOK(req[q])'
  <1> DEFINE x == [pc |-> "reply", who |-> req[r].who, token |-> t]
  <1>1. x \in Request
    BY RequestFields, RequestForms DEF TypeOK
  <1>2. RequestOK(x)
    BY DEF RequestOK, Handling
  <1>3. Become(r, x)
    BY DEF ReplyWith
  <1> HIDE DEF x
  <1> QED BY <1>1, <1>2, <1>3, BecomeOK

LEMMA NothingOwned == \A b : HandedOut(b, NoToken)
  BY DEF HandedOut, Owned

LEMMA AnswerOK ==
    ASSUME TypeOK, MailInv, Lasting, NEW r \in Requests, req[r].pc \in Handling, Answer(r)
    PROVE  \A q \in Requests : RequestOK(req[q])'
  <1>1. req[r].token \in Tokens /\ HandedOut(req[r].who, req[r].token)
    BY RequestFields DEF TypeOK, MailInv, RequestOK, Handling
  <1> QED BY <1>1, ReplyOK DEF Answer, Handling

LEMMA ProceedOK ==
    ASSUME TypeOK, MailInv, Lasting, NEW r \in Requests, req[r].pc \in {"touch"} \union Handling,
           NEW pc \in Handling, Proceed(r, pc),
           pc = "handle" \/ (/\ req[r].op.email \in usedIds
                             /\ emails[req[r].op.email].found =>
                                    emails[req[r].op.email].inbox = req[r].inbox)
    PROVE  \A q \in Requests : RequestOK(req[q])'
  <1> DEFINE x == [pc |-> pc, who |-> req[r].who, token |-> req[r].token,
                   inbox |-> req[r].inbox, op |-> req[r].op]
  <1>1. /\ req[r].who \in Browsers /\ req[r].token \in Tokens
        /\ req[r].inbox \in Inboxes /\ req[r].op \in Op
    BY RequestFields DEF TypeOK, Handling
  <1>2. x \in Request
    BY <1>1, RequestForms DEF Handling
  <1>3. HandedOut(req[r].who, req[r].token) /\ <<req[r].who, req[r].inbox>> \in Knows
    BY DEF MailInv, RequestOK
  <1>4. RequestOK(x)
    BY <1>3 DEF RequestOK, Handling
  <1>5. Become(r, x)
    BY DEF Proceed
  <1> HIDE DEF x
  <1> QED BY <1>2, <1>4, <1>5, BecomeOK

\* The requests after a step.
LEMMA RequestsStep ==
    TypeOK /\ MailInv /\ Lasting /\ [Next]_vars => \A q \in Requests : RequestOK(req[q])'
  <1> DEFINE Goal == \A q \in Requests : RequestOK(req[q])'
  <1> SUFFICES ASSUME TypeOK, MailInv, Lasting, [Next]_vars PROVE Goal
    OBVIOUS
  <1>0. UNCHANGED req => Goal
    <2> SUFFICES ASSUME UNCHANGED req, NEW q \in Requests PROVE RequestOK(req[q])'
      OBVIOUS
    <2>1. PICK y \in Request : y = req'[q] /\ RequestOK(y)
      BY DEF MailInv, TypeOK
    <2>2. RequestOK(y)'
      BY <2>1, RequestOKStays
    <2> QED BY <2>1, <2>2 DEF RequestOK, HandedOut, Owned
  <1> HIDE DEF Goal
  <1>1. ASSUME NEW r \in Requests, NEW b \in Browsers, NEW i \in Inboxes, Login(r, b, i) PROVE Goal
    <2> DEFINE x == [pc |-> "verify", who |-> b, inbox |-> i]
    <2>1. x \in Request /\ RequestOK(x)
      BY RequestForms DEF RequestOK, Handling
    <2> HIDE DEF x
    <2> QED BY <1>1, <2>1, BecomeOK DEF Login, Begin, x, Goal
  <1>2. ASSUME NEW r \in Requests, NEW b \in Browsers, Logout(r, b) PROVE Goal
    <2> DEFINE x == [pc |-> "logout", who |-> b, token |-> cookie[b]]
    <2>1. x \in Request
      BY RequestForms DEF TypeOK
    <2>2. RequestOK(x)
      BY DEF RequestOK, Handling, MailInv
    <2>3. Become(r, x)
      BY <1>2 DEF Logout, Begin
    <2> HIDE DEF x
    <2> QED BY <2>1, <2>2, <2>3, BecomeOK DEF Goal
  <1>3. ASSUME NEW r \in Requests, NEW b \in Browsers, NEW op \in Op, Visit(r, b, op) PROVE Goal
    <2> DEFINE x == [pc |-> "auth", who |-> b, token |-> cookie[b], op |-> op]
    <2>1. x \in Request
      BY RequestForms DEF TypeOK
    <2>2. RequestOK(x)
      BY DEF RequestOK, Handling, MailInv
    <2>3. Become(r, x)
      BY <1>3 DEF Visit, Begin
    <2> HIDE DEF x
    <2> QED BY <2>1, <2>2, <2>3, BecomeOK DEF Goal
  <1>4. ASSUME NEW r \in Requests, Verified(r) PROVE Goal
    <2> DEFINE x == [pc |-> "grant", who |-> req[r].who, inbox |-> req[r].inbox]
    <2>1. x \in Request
      BY <1>4, RequestFields, RequestForms DEF Verified, TypeOK
    <2>2. CASE VerifyPassword(req[r].who, req[r].inbox)
      <3>1. RequestOK(x)
        BY <2>2 DEF RequestOK, Handling, VerifyPassword
      <3>2. Become(r, x)
        BY <1>4, <2>2 DEF Verified
      <3> HIDE DEF x
      <3> QED BY <2>1, <3>1, <3>2, BecomeOK DEF Goal
    <2>3. CASE ~VerifyPassword(req[r].who, req[r].inbox)
      BY <1>4, <2>3, IdleOK, BecomeOK DEF Verified, Goal
    <2> QED BY <2>2, <2>3
  <1>5. ASSUME NEW r \in Requests, NEW t \in Tokens, CreateSession(r, t) PROVE Goal
    <2>1. CASE HasInbox(req[r].inbox) /\ ReplyWith(r, t)
      <3>1. /\ req' = [req EXCEPT ![r] = [pc |-> "reply", who |-> req[r].who, token |-> t]]
            /\ sessions'[t].inbox = req[r].inbox /\ t \in issued'
        BY <1>5, <2>1 DEF CreateSession, ReplyWith, Become, TypeOK
      <3>2. <<req[r].who, req[r].inbox>> \in Knows
        BY <1>5 DEF CreateSession, MailInv, RequestOK
      <3>3. HandedOut(req[r].who, t)'
        <4> DEFINE b == req[r].who
        <4>1. req'[r].who = b
          BY <3>1 DEF TypeOK
        <4> QED BY <3>1, <3>2, <4>1 DEF HandedOut, Owned
      <3>4. RequestOK(req[r])'
        <4>1. /\ req'[r].pc = "reply" /\ req'[r].who = req[r].who /\ req'[r].token = t
          BY <3>1 DEF TypeOK
        <4> QED BY <3>3, <4>1 DEF RequestOK, Handling, HandedOut, Owned
      <3>5. ASSUME NEW q \in Requests \ {r} PROVE RequestOK(req[q])'
        <4>1. PICK y \in Request : y = req'[q] /\ RequestOK(y)
          BY <3>1 DEF MailInv, TypeOK
        <4>2. RequestOK(y)'
          BY <4>1, RequestOKStays
        <4> QED BY <4>1, <4>2 DEF RequestOK, HandedOut, Owned
      <3> QED BY <3>4, <3>5 DEF Goal
    <2>2. CASE Become(r, Idle)
      BY <1>5, <2>2, IdleOK, BecomeOK DEF CreateSession, Goal
    <2> QED BY <1>5, <2>1, <2>2 DEF CreateSession
  <1>6. ASSUME NEW r \in Requests, DeleteSession(r) PROVE Goal
    BY <1>6, ReplyOK, NothingOwned DEF DeleteSession, Goal
  <1>7. ASSUME NEW r \in Requests, DeleteSessionFails(r) PROVE Goal
    BY <1>7, ReplyOK, NothingOwned DEF DeleteSessionFails, Goal
  <1>8. ASSUME NEW r \in Requests, GetSession(r) PROVE Goal
    <2> DEFINE i == sessions[req[r].token].inbox
               x == [pc |-> "touch", who |-> req[r].who, token |-> req[r].token,
                     inbox |-> i, op |-> req[r].op, age |-> 0]
    <2>1. /\ req[r].who \in Browsers /\ req[r].op \in Op /\ req[r].token \in Tokens
          /\ sessions[req[r].token].found
      BY <1>8, RequestFields DEF GetSession, Live, TypeOK
    <2>2. i \in Inboxes
      BY <2>1, SlotForms DEF TypeOK, Slot
    <2>3. x \in Request
      BY <2>1, <2>2, Zero, RequestForms
    <2>4. HandedOut(req[r].who, req[r].token)
      BY <1>8 DEF GetSession, MailInv, RequestOK
    <2>5. <<req[r].who, i>> \in Knows
      BY <2>1, <2>4 DEF HandedOut, Owned
    <2>6. RequestOK(x)
      BY <2>4, <2>5 DEF RequestOK, Handling
    <2>7. Become(r, x)
      BY <1>8 DEF GetSession
    <2> HIDE DEF x
    <2> QED BY <2>3, <2>6, <2>7, BecomeOK DEF Goal
  <1>9. ASSUME NEW r \in Requests, NotAuthenticated(r) PROVE Goal
    BY <1>9, IdleOK, BecomeOK, ReplyOK, NothingOwned DEF NotAuthenticated, Goal
  <1>10. ASSUME NEW r \in Requests, TouchSession(r) PROVE Goal
    BY <1>10, ProceedOK DEF TouchSession, Handling, Goal
  <1>11. ASSUME NEW r \in Requests, TouchSessionFails(r) PROVE Goal
    BY <1>11, ProceedOK DEF TouchSessionFails, Handling, Goal
  <1>12. ASSUME NEW r \in Requests, List(r) PROVE Goal
    BY <1>12, AnswerOK DEF List, At, Handling, Goal
  <1>13. ASSUME NEW r \in Requests, GetEmail(r) PROVE Goal
    <2>1. /\ req[r].op.email \in Emails
          /\ emails[req[r].op.email].found /\ emails[req[r].op.email].inbox = req[r].inbox
      BY <1>13, RequestFields, OpFields DEF GetEmail, At, InboxOf, TypeOK
    <2>2. req[r].op.email \in usedIds
      BY <2>1 DEF MailInv
    <2> QED BY <1>13, <2>1, <2>2, ProceedOK DEF GetEmail, At, Handling, Goal
  <1>14. ASSUME NEW r \in Requests, EmailNotFound(r) PROVE Goal
    BY <1>14, AnswerOK DEF EmailNotFound, Handling, Goal
  <1>15. ASSUME NEW r \in Requests, MarkEmailAsRead(r) PROVE Goal
    BY <1>15, ProceedOK DEF MarkEmailAsRead, At, Handling, Goal, MailInv, RequestOK
  <1>16. ASSUME NEW r \in Requests, View(r) PROVE Goal
    BY <1>16, AnswerOK DEF View, At, Handling, Goal
  <1>17. ASSUME NEW r \in Requests, GetAttachment(r) PROVE Goal
    BY <1>17, AnswerOK DEF GetAttachment, At, Handling, Goal
  <1>18. ASSUME NEW r \in Requests, DeleteEmail(r) PROVE Goal
    BY <1>18, AnswerOK DEF DeleteEmail, At, Handling, Goal
  <1>19. ASSUME NEW r \in Requests, Fails(r) PROVE Goal
    BY <1>19, AnswerOK, IdleOK, BecomeOK DEF Fails, Handling, Goal
  <1>20. ASSUME NEW r \in Requests, Reply(r) PROVE Goal
    BY <1>20, IdleOK, BecomeOK DEF Reply, Goal
  <1>21. ASSUME NEW r \in Requests, ReplyLost(r) PROVE Goal
    BY <1>21, IdleOK, BecomeOK DEF ReplyLost, Goal
  <1>22. ASSUME NEW e \in Emails, NEW i \in Inboxes, NEW P \in SUBSET Parts, Receive(e, i, P) PROVE Goal
    BY <1>0, <1>22 DEF Receive
  <1>23. ASSUME NEW S \in SUBSET Inboxes, DeleteExpiredInboxes(S) PROVE Goal
    BY <1>0, <1>23 DEF DeleteExpiredInboxes
  <1>24. CASE WakeUp
    BY <1>0, <1>24 DEF WakeUp
  <1>25. CASE DeleteExpiredSessions
    BY <1>0, <1>25 DEF DeleteExpiredSessions
  <1>26. CASE CleanupFails
    BY <1>0, <1>26 DEF CleanupFails
  <1>27. CASE Restart
    BY <1>27 DEF Restart, Goal, Idle, RequestOK, Handling
  <1>28. CASE Tick
    <2> SUFFICES ASSUME NEW q \in Requests PROVE RequestOK(req[q])'
      BY DEF Goal
    <2>1. PICK y \in Request : y = req'[q] /\ RequestOK(y)
      <3>1. req[q] \in Request /\ RequestOK(req[q])
        BY DEF TypeOK, MailInv
      <3>2. CASE req[q].pc = "touch" /\ req[q].age < TTL
        <4>1. req'[q] = [req[q] EXCEPT !.age = req[q].age + 1] /\ req[q].age + 1 \in 0..TTL
          BY <1>28, <3>1, <3>2, RequestFields DEF Tick
        <4>2. /\ req'[q] \in Request /\ req'[q].pc = "touch" /\ req'[q].who = req[q].who
              /\ req'[q].token = req[q].token /\ req'[q].inbox = req[q].inbox
          BY <3>1, <3>2, <4>1, AgedRequest
        <4>3. \A y \in Request : /\ y.pc = "touch" /\ y.who = req[q].who
                                 /\ y.token = req[q].token /\ y.inbox = req[q].inbox
                                 => RequestOK(y)
          BY <3>1, <3>2 DEF RequestOK, Handling
        <4> QED BY <4>2, <4>3
      <3>3. CASE ~(req[q].pc = "touch" /\ req[q].age < TTL)
        BY <1>28, <3>1, <3>3 DEF Tick
      <3> QED BY <3>2, <3>3
    <2>2. RequestOK(y)'
      BY <2>1, RequestOKStays
    <2> QED BY <2>1, <2>2 DEF RequestOK, HandedOut, Owned
  <1>29. CASE UNCHANGED vars
    BY <1>0, <1>29 DEF vars
  <1> QED
    BY <1>1, <1>2, <1>3, <1>4, <1>5, <1>6, <1>7, <1>8, <1>9, <1>10, <1>11, <1>12, <1>13, <1>14, <1>15,
       <1>16, <1>17, <1>18, <1>19, <1>20, <1>21, <1>22, <1>23, <1>24, <1>25, <1>26, <1>27, <1>28, <1>29 DEF Next

LEMMA CookiesStep ==
    TypeOK /\ MailInv /\ Lasting /\ [Next]_vars => \A b \in Browsers : HandedOut(b, cookie[b])'
  <1> SUFFICES ASSUME TypeOK, MailInv, Lasting, [Next]_vars, NEW b \in Browsers
               PROVE  HandedOut(b, cookie[b])'
    OBVIOUS
  <1>1. \/ cookie'[b] = cookie[b]
        \/ \E r \in Requests : req[r].pc = "reply" /\ req[r].who = b /\ cookie'[b] = req[r].token
    BY DEF TypeOK, Next, Login, Logout, Visit, Verified, CreateSession, DeleteSession,
           DeleteSessionFails, GetSession, NotAuthenticated, TouchSession, TouchSessionFails,
           List, GetEmail, EmailNotFound, MarkEmailAsRead, View, GetAttachment, DeleteEmail,
           Fails, Reply, ReplyLost, Receive, DeleteExpiredInboxes, WakeUp,
           DeleteExpiredSessions, CleanupFails, Restart, Tick, vars
  <1>2. PICK t \in Tokens \union {NoToken} : t = cookie'[b] /\ HandedOut(b, t)
    BY <1>1, RequestFields DEF TypeOK, MailInv, RequestOK
  <1>3. HandedOut(b, t)'
    BY <1>2, HandedOutStays
  <1> QED BY <1>2, <1>3 DEF HandedOut, Owned

LEMMA ShownStep == TypeOK /\ NothingDangles /\ MailInv /\ [Next]_vars => OwnMailOnly'
  <1> SUFFICES ASSUME TypeOK, NothingDangles, MailInv, [Next]_vars PROVE OwnMailOnly'
    OBVIOUS
  <1>0. UNCHANGED shown => OwnMailOnly'
    BY DEF OwnMailOnly, MailInv
  <1>a. \A r \in Requests : req[r].pc \in Handling => <<req[r].who, req[r].inbox>> \in Knows
    BY DEF MailInv, RequestOK
  <1>1. ASSUME NEW r \in Requests, NEW b \in Browsers, NEW i \in Inboxes, Login(r, b, i) PROVE OwnMailOnly'
    BY <1>0, <1>1 DEF Login, observers
  <1>2. ASSUME NEW r \in Requests, NEW b \in Browsers, Logout(r, b) PROVE OwnMailOnly'
    BY <1>0, <1>2 DEF Logout, observers
  <1>3. ASSUME NEW r \in Requests, NEW b \in Browsers, NEW op \in Op, Visit(r, b, op) PROVE OwnMailOnly'
    BY <1>0, <1>3 DEF Visit, observers
  <1>4. ASSUME NEW r \in Requests, Verified(r) PROVE OwnMailOnly'
    BY <1>0, <1>4 DEF Verified, observers
  <1>5. ASSUME NEW r \in Requests, NEW t \in Tokens, CreateSession(r, t) PROVE OwnMailOnly'
    BY <1>0, <1>5 DEF CreateSession, observers
  <1>6. ASSUME NEW r \in Requests, DeleteSession(r) PROVE OwnMailOnly'
    BY <1>0, <1>6 DEF DeleteSession, observers
  <1>7. ASSUME NEW r \in Requests, DeleteSessionFails(r) PROVE OwnMailOnly'
    BY <1>0, <1>7 DEF DeleteSessionFails, observers
  <1>8. ASSUME NEW r \in Requests, GetSession(r) PROVE OwnMailOnly'
    BY <1>0, <1>8 DEF GetSession, observers
  <1>9. ASSUME NEW r \in Requests, NotAuthenticated(r) PROVE OwnMailOnly'
    BY <1>0, <1>9 DEF NotAuthenticated, observers
  <1>10. ASSUME NEW r \in Requests, TouchSession(r) PROVE OwnMailOnly'
    BY <1>0, <1>10 DEF TouchSession, observers
  <1>11. ASSUME NEW r \in Requests, TouchSessionFails(r) PROVE OwnMailOnly'
    BY <1>0, <1>11 DEF TouchSessionFails, observers
  <1>12. ASSUME NEW r \in Requests, List(r) PROVE OwnMailOnly'
    BY <1>a, <1>12 DEF List, At, Show, Handling, MailInv, OwnMailOnly
  <1>13. ASSUME NEW r \in Requests, GetEmail(r) PROVE OwnMailOnly'
    BY <1>0, <1>13 DEF GetEmail, observers
  <1>14. ASSUME NEW r \in Requests, EmailNotFound(r) PROVE OwnMailOnly'
    BY <1>0, <1>14 DEF EmailNotFound, observers
  <1>15. ASSUME NEW r \in Requests, MarkEmailAsRead(r) PROVE OwnMailOnly'
    BY <1>0, <1>15 DEF MarkEmailAsRead, observers
  <1>16. ASSUME NEW r \in Requests, View(r) PROVE OwnMailOnly'
    <2> DEFINE I == {req[r].inbox} \union {emails[parts[p]].inbox : p \in Attached(req[r].op.email)}
    <2>1. <<req[r].who, req[r].inbox>> \in Knows /\ req[r].op.email \in Emails
      BY <1>a, <1>16, RequestFields, OpFields DEF View, At, Handling, TypeOK
    <2>2. ASSUME NEW p \in Parts, parts[p] = req[r].op.email
          PROVE  emails[parts[p]].inbox = req[r].inbox
      <3>1. emails[parts[p]].found
        BY <2>1, <2>2 DEF NothingDangles
      <3> QED BY <1>16, <2>2, <3>1 DEF View, At, MailInv, RequestOK
    <2>3. I \subseteq {req[r].inbox}
      BY <2>2 DEF Attached
    <2>4. Show(r, I)
      BY <1>16 DEF View
    <2> HIDE DEF I
    <2> QED BY <2>1, <2>3, <2>4 DEF Show, MailInv, OwnMailOnly
  <1>17. ASSUME NEW r \in Requests, GetAttachment(r) PROVE OwnMailOnly'
    <2> DEFINE e == parts[req[r].op.part]
    <2>1. e \in Emails \union {None}
      BY <1>17, RequestFields, OpFields DEF GetAttachment, At, TypeOK
    <2>2. ASSUME e # None, e = req[r].op.email PROVE emails[e].inbox = req[r].inbox
      <3>1. emails[e].found
        BY <1>17, <2>2, RequestFields, OpFields DEF GetAttachment, At, TypeOK, NothingDangles
      <3> QED BY <1>17, <2>2, <3>1 DEF GetAttachment, At, MailInv, RequestOK
    <2>3. UNCHANGED shown \/ (e # None /\ e = req[r].op.email /\ Show(r, {emails[e].inbox}))
      BY <1>17 DEF GetAttachment, MayServe
    <2>4. <<req[r].who, req[r].inbox>> \in Knows
      BY <1>a, <1>17 DEF GetAttachment, At, Handling
    <2> HIDE DEF e
    <2> QED BY <1>0, <2>2, <2>3, <2>4 DEF Show, MailInv, OwnMailOnly
  <1>18. ASSUME NEW r \in Requests, DeleteEmail(r) PROVE OwnMailOnly'
    BY <1>0, <1>18 DEF DeleteEmail, observers
  <1>19. ASSUME NEW r \in Requests, Fails(r) PROVE OwnMailOnly'
    BY <1>0, <1>19 DEF Fails, observers
  <1>20. ASSUME NEW r \in Requests, Reply(r) PROVE OwnMailOnly'
    BY <1>0, <1>20 DEF Reply, observers
  <1>21. ASSUME NEW r \in Requests, ReplyLost(r) PROVE OwnMailOnly'
    BY <1>0, <1>21 DEF ReplyLost, observers
  <1>22. ASSUME NEW e \in Emails, NEW i \in Inboxes, NEW P \in SUBSET Parts, Receive(e, i, P) PROVE OwnMailOnly'
    BY <1>0, <1>22 DEF Receive, observers
  <1>23. ASSUME NEW S \in SUBSET Inboxes, DeleteExpiredInboxes(S) PROVE OwnMailOnly'
    BY <1>0, <1>23 DEF DeleteExpiredInboxes, observers
  <1>24. CASE WakeUp
    BY <1>0, <1>24 DEF WakeUp, observers
  <1>25. CASE DeleteExpiredSessions
    BY <1>0, <1>25 DEF DeleteExpiredSessions, observers
  <1>26. CASE CleanupFails
    BY <1>0, <1>26 DEF CleanupFails, observers
  <1>27. CASE Restart
    BY <1>0, <1>27 DEF Restart, observers
  <1>28. CASE Tick
    BY <1>0, <1>28 DEF Tick, observers
  <1>29. CASE UNCHANGED vars
    BY <1>0, <1>29 DEF vars, observers
  <1> QED
    BY <1>1, <1>2, <1>3, <1>4, <1>5, <1>6, <1>7, <1>8, <1>9, <1>10, <1>11, <1>12, <1>13, <1>14, <1>15,
       <1>16, <1>17, <1>18, <1>19, <1>20, <1>21, <1>22, <1>23, <1>24, <1>25, <1>26, <1>27, <1>28, <1>29 DEF Next

LEMMA MailStep == TypeOK /\ NothingDangles /\ MailInv /\ [Next]_vars => MailInv'
  <1> SUFFICES ASSUME TypeOK, NothingDangles, MailInv, [Next]_vars PROVE MailInv'
    OBVIOUS
  <1>1. Lasting
    BY LastingStep
  <1>2. \A q \in Requests : RequestOK(req[q])'
    BY <1>1, RequestsStep
  <1>3. \A b \in Browsers : HandedOut(b, cookie[b])'
    BY <1>1, CookiesStep
  <1>4. OwnMailOnly'
    BY ShownStep
  <1> QED BY <1>1, <1>2, <1>3, <1>4 DEF MailInv, Lasting, RequestOK, HandedOut, Owned

LEMMA MailAlways == Spec => [](TypeOK /\ NothingDangles /\ MailInv)
  <1>1. Init => MailInv
    BY DEF Init, MailInv, OwnMailOnly, HandedOut, Owned, RequestOK, Handling, Idle, NoSession,
           NoEmail
  <1> QED BY <1>1, MailStep, TypesAlways, PTL DEF Spec

\* A browser is shown only mail of inboxes whose password is known there
\* (middleware.go:40-75, handlers.go:58-259).
THEOREM OnlyOwnMail == Spec => []OwnMailOnly
  <1>1. MailInv => OwnMailOnly
    BY DEF MailInv
  <1> QED BY <1>1, MailAlways, PTL

\* An email is marked or deleted only by who knows its inbox, or goes with its
\* inbox, though MarkEmailAsRead names it by its id alone (handlers.go:89-133,
\* 191-213, sqlite.go:270-307).
THEOREM OnlyOwnMailChanges == Spec => OwnMailChanged
  <1> DEFINE Changed(e) ==
                 \/ inboxes'[emails[e].inbox] = None
                 \/ \E r \in Requests : /\ req'[r] # req[r]
                                        /\ <<req[r].who, emails[e].inbox>> \in Knows
             Goal == \A e \in Emails : emails[e].found /\ emails'[e] # emails[e] => Changed(e)
  <1>1. TypeOK /\ NothingDangles /\ MailInv /\ [Next]_vars => Goal
    <2> SUFFICES ASSUME TypeOK, NothingDangles, MailInv, [Next]_vars, NEW e \in Emails,
                        emails[e].found, emails'[e] # emails[e]
                 PROVE  Changed(e)
      OBVIOUS
    <2>1. \/ \E r \in Requests : MarkEmailAsRead(r) \/ DeleteEmail(r)
          \/ \E d \in Emails, i \in Inboxes, P \in SUBSET Parts : Receive(d, i, P)
          \/ \E S \in SUBSET Inboxes : DeleteExpiredInboxes(S)
      BY DEF Next, Login, Logout, Visit, Verified, CreateSession, DeleteSession,
             DeleteSessionFails, GetSession, NotAuthenticated, TouchSession, TouchSessionFails,
             List, GetEmail, EmailNotFound, View, GetAttachment, Fails, Reply, ReplyLost,
             WakeUp, DeleteExpiredSessions, CleanupFails, Restart, Tick, vars, tables
    <2>2. ASSUME NEW r \in Requests, MarkEmailAsRead(r) PROVE Changed(e)
      <3>1. e = req[r].op.email
        BY <2>2, MarkKeeps
      <3>2. emails[e].inbox = req[r].inbox /\ <<req[r].who, req[r].inbox>> \in Knows
        BY <2>2, <3>1 DEF MarkEmailAsRead, At, MailInv, RequestOK, Handling
      <3>3. req'[r].pc = "parts" /\ req[r].pc = "found"
        BY <2>2 DEF MarkEmailAsRead, At, Proceed, Become, TypeOK
      <3> QED BY <3>2, <3>3
    <2>3. ASSUME NEW r \in Requests, DeleteEmail(r) PROVE Changed(e)
      <3>1. e = req[r].op.email /\ emails[e].inbox = req[r].inbox
        BY <2>3 DEF DeleteEmail, RemoveEmails, InboxOf
      <3>2. <<req[r].who, req[r].inbox>> \in Knows
        BY <2>3 DEF DeleteEmail, At, MailInv, RequestOK, Handling
      <3>3. req'[r].pc = "reply" /\ req[r].pc = "handle"
        BY <2>3 DEF DeleteEmail, At, Answer, ReplyWith, Become, TypeOK
      <3> QED BY <3>1, <3>2, <3>3
    <2>4. ASSUME NEW d \in Emails, NEW i \in Inboxes, NEW P \in SUBSET Parts, Receive(d, i, P)
          PROVE  Changed(e)
      BY <2>4 DEF Receive, MailInv, TypeOK
    <2>5. ASSUME NEW S \in SUBSET Inboxes, DeleteExpiredInboxes(S) PROVE Changed(e)
      <3>1. emails[e].inbox \in S
        BY <2>5 DEF DeleteExpiredInboxes, RemoveEmails
      <3> QED BY <2>5, <3>1 DEF DeleteExpiredInboxes
    <2> QED BY <2>1, <2>2, <2>3, <2>4, <2>5
  <1> QED BY <1>1, MailAlways, PTL DEF Spec, OwnMailChanged

-----------------------------------------------------------------------------
(* The expiry.  A request that is about to touch its session has waited at *)
(* least as long as the session was last used ago.                         *)

AgeInv ==
    /\ \A t \in Tokens : sessions[t].found => used[t] + sessions[t].left <= TTL
    /\ \A r \in Requests : req[r].pc = "touch" => used[req[r].token] <= req[r].age

LEMMA AgeStep == TypeOK /\ AgeInv /\ [Next]_vars => AgeInv'
  <1> SUFFICES ASSUME TypeOK, AgeInv, [Next]_vars PROVE AgeInv'
    OBVIOUS
  <1>a. req \in [Requests -> Request]
    BY DEF TypeOK
  <1>b. ASSUME UNCHANGED used, \A t \in Tokens : sessions'[t].found => sessions'[t] = sessions[t],
               \A q \in Requests : req'[q].pc = "touch" => req'[q] = req[q]
        PROVE  AgeInv'
    BY <1>b DEF AgeInv
  <1>0. ASSUME UNCHANGED used, \A t \in Tokens : sessions'[t].found => sessions'[t] = sessions[t],
               \/ UNCHANGED req
               \/ \E r \in Requests : \E x : x.pc # "touch" /\ Become(r, x)
        PROVE  AgeInv'
    BY <1>a, <1>b, <1>0 DEF Become
  <1>1. ASSUME NEW r \in Requests, NEW b \in Browsers, NEW i \in Inboxes, Login(r, b, i) PROVE AgeInv'
    <2>1. UNCHANGED <<used, sessions>> /\ \E x : x.pc # "touch" /\ Become(r, x)
      BY <1>1 DEF Login, Begin, tables, observers
    <2> QED BY <1>0, <2>1
  <1>2. ASSUME NEW r \in Requests, NEW b \in Browsers, Logout(r, b) PROVE AgeInv'
    <2>1. UNCHANGED <<used, sessions>> /\ \E x : x.pc # "touch" /\ Become(r, x)
      BY <1>2 DEF Logout, Begin, tables, observers
    <2> QED BY <1>0, <2>1
  <1>3. ASSUME NEW r \in Requests, NEW b \in Browsers, NEW op \in Op, Visit(r, b, op) PROVE AgeInv'
    <2>1. UNCHANGED <<used, sessions>> /\ \E x : x.pc # "touch" /\ Become(r, x)
      BY <1>3 DEF Visit, Begin, tables, observers
    <2> QED BY <1>0, <2>1
  <1>4. ASSUME NEW r \in Requests, Verified(r) PROVE AgeInv'
    <2>1. UNCHANGED <<used, sessions>> /\ \E x : x.pc # "touch" /\ Become(r, x)
      BY <1>4 DEF Verified, Idle, tables, observers
    <2> QED BY <1>0, <2>1
  <1>5. ASSUME NEW r \in Requests, NEW t \in Tokens, CreateSession(r, t) PROVE AgeInv'
    <2>1. PICK x : x.pc # "touch" /\ Become(r, x)
      BY <1>5 DEF CreateSession, ReplyWith, Idle
    <2>2. \/ UNCHANGED <<sessions, used>>
          \/ /\ sessions' = [sessions EXCEPT ![t] = [found |-> TRUE, inbox |-> req[r].inbox,
                                                     left |-> TTL]]
             /\ used' = [used EXCEPT ![t] = 0]
      BY <1>5 DEF CreateSession
    <2>3. \A q \in Requests : req'[q].pc = "touch" => req'[q] = req[q]
      BY <1>a, <2>1 DEF Become
    <2>4. \A u \in Tokens : used'[u] <= used[u]
      BY <2>2 DEF TypeOK
    <2>5. ASSUME NEW u \in Tokens, sessions'[u].found PROVE used'[u] + sessions'[u].left <= TTL
      BY <2>2, <2>5 DEF TypeOK, AgeInv
    <2>6. ASSUME NEW q \in Requests, req'[q].pc = "touch" PROVE used'[req'[q].token] <= req'[q].age
      <3>1. req[q].token \in Tokens /\ req[q].age \in 0..TTL /\ used[req[q].token] <= req[q].age
        BY <1>a, <2>3, <2>6, RequestFields DEF AgeInv
      <3>2. used'[req[q].token] \in 0..TTL
        BY <2>2, <3>1, Zero DEF TypeOK
      <3> QED BY <2>3, <2>4, <2>6, <3>1, <3>2 DEF TypeOK
    <2> QED BY <2>5, <2>6 DEF AgeInv
  <1>6. ASSUME NEW r \in Requests, DeleteSession(r) PROVE AgeInv'
    <2>1. UNCHANGED used /\ \A t \in Tokens : sessions'[t].found => sessions'[t] = sessions[t]
      BY <1>6 DEF DeleteSession, Dropped, NoSession
    <2>2. \E x : x.pc # "touch" /\ Become(r, x)
      BY <1>6 DEF DeleteSession, ReplyWith
    <2> QED BY <1>0, <2>1, <2>2
  <1>7. ASSUME NEW r \in Requests, DeleteSessionFails(r) PROVE AgeInv'
    <2>1. UNCHANGED <<used, sessions>> /\ \E x : x.pc # "touch" /\ Become(r, x)
      BY <1>7 DEF DeleteSessionFails, ReplyWith, tables, observers
    <2> QED BY <1>0, <2>1
  <1>8. ASSUME NEW r \in Requests, GetSession(r) PROVE AgeInv'
    <2> DEFINE t == req[r].token
    <2>1. t \in Tokens
      BY <1>a, <1>8, RequestFields DEF GetSession, Live
    <2>2. /\ UNCHANGED sessions /\ used' = [used EXCEPT ![t] = 0]
          /\ \E x : x.pc = "touch" /\ x.token = t /\ x.age = 0 /\ Become(r, x)
      BY <1>8 DEF GetSession, tables
    <2>3. \A u \in Tokens : used'[u] <= used[u] /\ used'[u] \in 0..TTL
      BY <2>1, <2>2, Zero DEF TypeOK
    <2>4. ASSUME NEW u \in Tokens, sessions'[u].found PROVE used'[u] + sessions'[u].left <= TTL
      <3>1. sessions[u].left \in 0..TTL
        BY SlotForms DEF TypeOK, Slot
      <3> QED BY <2>2, <2>3, <2>4, <3>1 DEF TypeOK, AgeInv
    <2>5. ASSUME NEW q \in Requests, req'[q].pc = "touch" PROVE used'[req'[q].token] <= req'[q].age
      <3>1. CASE q = r
        <4>1. req'[q].token = t /\ req'[q].age = 0
          BY <1>a, <2>2, <3>1 DEF Become
        <4>2. used'[t] = 0
          BY <2>1, <2>2 DEF TypeOK
        <4> QED BY <4>1, <4>2
      <3>2. CASE q # r
        <4>1. req'[q] = req[q]
          BY <1>a, <2>2, <3>2 DEF Become
        <4>2. req[q].token \in Tokens /\ req[q].age \in 0..TTL /\ used[req[q].token] <= req[q].age
          BY <1>a, <2>5, <4>1, RequestFields DEF AgeInv
        <4> QED BY <2>3, <4>1, <4>2 DEF TypeOK
      <3> QED BY <3>1, <3>2
    <2> QED BY <2>4, <2>5 DEF AgeInv
  <1>9. ASSUME NEW r \in Requests, NotAuthenticated(r) PROVE AgeInv'
    <2>1. UNCHANGED <<used, sessions>> /\ \E x : x.pc # "touch" /\ Become(r, x)
      BY <1>9 DEF NotAuthenticated, ReplyWith, Idle, tables, observers
    <2> QED BY <1>0, <2>1
  <1>10. ASSUME NEW r \in Requests, TouchSession(r) PROVE AgeInv'
    <2>1. UNCHANGED used /\ \E x : x.pc # "touch" /\ Become(r, x)
      BY <1>10 DEF TouchSession, Proceed, observers
    <2>2. \A q \in Requests : req'[q].pc = "touch" => req'[q] = req[q]
      BY <1>a, <2>1 DEF Become
    <2>3. ASSUME NEW t \in Tokens, sessions'[t].found PROVE used[t] + sessions'[t].left <= TTL
      <3>1. sessions[t].found /\ (\/ sessions'[t] = sessions[t]
                                  \/ t = req[r].token /\ sessions'[t].left = TTL - req[r].age)
        BY <1>10, <2>3, TouchKeeps
      <3>2. req[r].age \in 0..TTL /\ used[req[r].token] <= req[r].age
        BY <1>a, <1>10, RequestFields DEF TouchSession, AgeInv
      <3> QED BY <3>1, <3>2 DEF AgeInv, TypeOK
    <2> QED BY <2>1, <2>2, <2>3 DEF AgeInv
  <1>11. ASSUME NEW r \in Requests, TouchSessionFails(r) PROVE AgeInv'
    <2>1. UNCHANGED <<used, sessions>> /\ \E x : x.pc # "touch" /\ Become(r, x)
      BY <1>11 DEF TouchSessionFails, Proceed, tables, observers
    <2> QED BY <1>0, <2>1
  <1>12. ASSUME NEW r \in Requests, List(r) PROVE AgeInv'
    <2>1. UNCHANGED <<used, sessions>> /\ \E x : x.pc # "touch" /\ Become(r, x)
      BY <1>12 DEF List, Answer, ReplyWith, tables, observers
    <2> QED BY <1>0, <2>1
  <1>13. ASSUME NEW r \in Requests, GetEmail(r) PROVE AgeInv'
    <2>1. UNCHANGED <<used, sessions>> /\ \E x : x.pc # "touch" /\ Become(r, x)
      BY <1>13 DEF GetEmail, Proceed, tables, observers
    <2> QED BY <1>0, <2>1
  <1>14. ASSUME NEW r \in Requests, EmailNotFound(r) PROVE AgeInv'
    <2>1. UNCHANGED <<used, sessions>> /\ \E x : x.pc # "touch" /\ Become(r, x)
      BY <1>14 DEF EmailNotFound, Answer, ReplyWith, tables, observers
    <2> QED BY <1>0, <2>1
  <1>15. ASSUME NEW r \in Requests, MarkEmailAsRead(r) PROVE AgeInv'
    <2>1. UNCHANGED <<used, sessions>> /\ \E x : x.pc # "touch" /\ Become(r, x)
      BY <1>15 DEF MarkEmailAsRead, Proceed, tables, observers
    <2> QED BY <1>0, <2>1
  <1>16. ASSUME NEW r \in Requests, View(r) PROVE AgeInv'
    <2>1. UNCHANGED <<used, sessions>> /\ \E x : x.pc # "touch" /\ Become(r, x)
      BY <1>16 DEF View, Answer, ReplyWith, tables, observers
    <2> QED BY <1>0, <2>1
  <1>17. ASSUME NEW r \in Requests, GetAttachment(r) PROVE AgeInv'
    <2>1. UNCHANGED <<used, sessions>> /\ \E x : x.pc # "touch" /\ Become(r, x)
      BY <1>17 DEF GetAttachment, Answer, ReplyWith, tables, observers
    <2> QED BY <1>0, <2>1
  <1>18. ASSUME NEW r \in Requests, DeleteEmail(r) PROVE AgeInv'
    <2>1. UNCHANGED <<used, sessions>> /\ \E x : x.pc # "touch" /\ Become(r, x)
      BY <1>18 DEF DeleteEmail, Answer, ReplyWith, tables, observers
    <2> QED BY <1>0, <2>1
  <1>19. ASSUME NEW r \in Requests, Fails(r) PROVE AgeInv'
    <2>1. UNCHANGED <<used, sessions>> /\ \E x : x.pc # "touch" /\ Become(r, x)
      BY <1>19 DEF Fails, Answer, ReplyWith, Idle, tables, observers
    <2> QED BY <1>0, <2>1
  <1>20. ASSUME NEW r \in Requests, Reply(r) PROVE AgeInv'
    <2>1. UNCHANGED <<used, sessions>> /\ \E x : x.pc # "touch" /\ Become(r, x)
      BY <1>20 DEF Reply, Idle, tables, observers
    <2> QED BY <1>0, <2>1
  <1>21. ASSUME NEW r \in Requests, ReplyLost(r) PROVE AgeInv'
    <2>1. UNCHANGED <<used, sessions>> /\ \E x : x.pc # "touch" /\ Become(r, x)
      BY <1>21 DEF ReplyLost, Idle, tables, observers
    <2> QED BY <1>0, <2>1
  <1>22. ASSUME NEW e \in Emails, NEW i \in Inboxes, NEW P \in SUBSET Parts, Receive(e, i, P) PROVE AgeInv'
    BY <1>0, <1>22 DEF Receive, observers
  <1>23. ASSUME NEW S \in SUBSET Inboxes, DeleteExpiredInboxes(S) PROVE AgeInv'
    <2>1. UNCHANGED used /\ \A t \in Tokens : sessions'[t].found => sessions'[t] = sessions[t]
      BY <1>23 DEF DeleteExpiredInboxes, Dropped, NoSession, observers
    <2>2. UNCHANGED req
      BY <1>23 DEF DeleteExpiredInboxes
    <2> QED BY <1>0, <2>1, <2>2
  <1>24. CASE WakeUp
    BY <1>0, <1>24 DEF WakeUp, tables, observers
  <1>25. CASE DeleteExpiredSessions
    <2>1. UNCHANGED used /\ \A t \in Tokens : sessions'[t].found => sessions'[t] = sessions[t]
      BY <1>25 DEF DeleteExpiredSessions, Dropped, NoSession, observers
    <2>2. UNCHANGED req
      BY <1>25 DEF DeleteExpiredSessions
    <2> QED BY <1>0, <2>1, <2>2
  <1>26. CASE CleanupFails
    BY <1>0, <1>26 DEF CleanupFails, tables, observers
  <1>27. CASE Restart
    BY <1>b, <1>27 DEF Restart, Idle, tables, observers
  <1>28. CASE Tick
    <2>1. \A t \in Tokens : used'[t] = IF used[t] = TTL THEN TTL ELSE used[t] + 1
      BY <1>28 DEF Tick
    <2>2. ASSUME NEW t \in Tokens, sessions'[t].found PROVE used'[t] + sessions'[t].left <= TTL
      <3>1. sessions[t].found /\ sessions[t].left \in 0..TTL /\ used[t] \in 0..TTL
        BY <1>28, <2>2, TickKeeps, SlotForms DEF TypeOK, Slot
      <3>2. used[t] + sessions[t].left <= TTL
        BY <3>1 DEF AgeInv
      <3>3. IF sessions[t].left = 0 THEN sessions'[t].left = 0
                                    ELSE sessions'[t].left = sessions[t].left - 1
        BY <1>28, TickKeeps
      <3> QED BY <2>1, <3>1, <3>2, <3>3
    <2>3. ASSUME NEW q \in Requests, req'[q].pc = "touch" PROVE used'[req'[q].token] <= req'[q].age
      <3>1. req'[q] = IF req[q].pc = "touch" /\ req[q].age < TTL
                      THEN [req[q] EXCEPT !.age = req[q].age + 1] ELSE req[q]
        BY <1>28 DEF Tick
      <3>2. CASE req[q].pc = "touch" /\ req[q].age < TTL
        <4>1. req[q].age \in 0..TTL /\ req[q].token \in Tokens
          BY <1>a, <3>2, RequestFields
        <4> DEFINE n == req[q].age + 1
        <4>2. n \in 0..TTL
          BY <3>2, <4>1
        <4>3. req'[q] = [req[q] EXCEPT !.age = n]
          BY <3>1, <3>2
        <4>4. n = req[q].age + 1
          OBVIOUS
        <4> HIDE DEF n
        <4>5. req'[q].age = n /\ req'[q].token = req[q].token
          BY <1>a, <3>2, <4>2, <4>3, AgedRequest
        <4>6. used[req[q].token] <= req[q].age /\ used[req[q].token] \in 0..TTL
          BY <3>2, <4>1 DEF AgeInv, TypeOK
        <4> QED BY <2>1, <3>2, <4>1, <4>4, <4>5, <4>6
      <3>3. CASE ~(req[q].pc = "touch" /\ req[q].age < TTL)
        <4>1. req'[q] = req[q] /\ req[q].pc = "touch" /\ ~(req[q].age < TTL)
          BY <2>3, <3>1, <3>3
        <4>2. req[q].age \in 0..TTL /\ req[q].token \in Tokens
          BY <1>a, <4>1, RequestFields
        <4> QED BY <2>1, <4>1, <4>2 DEF TypeOK
      <3> QED BY <3>2, <3>3
    <2> QED BY <2>2, <2>3 DEF AgeInv
  <1>29. CASE UNCHANGED vars
    BY <1>0, <1>29 DEF vars, tables, observers
  <1> QED
    BY <1>1, <1>2, <1>3, <1>4, <1>5, <1>6, <1>7, <1>8, <1>9, <1>10, <1>11, <1>12, <1>13, <1>14, <1>15,
       <1>16, <1>17, <1>18, <1>19, <1>20, <1>21, <1>22, <1>23, <1>24, <1>25, <1>26, <1>27, <1>28, <1>29 DEF Next

\* A session is good for at most TTL from the last request it authenticated, however
\* late and in whatever order the UPDATEs of its requests arrive (middleware.go:49-64).
\* It may be good for less: an UPDATE may fail.
THEOREM ExpiryAtMostTTLAfterUse == Spec => []ExpiryFollowsUse
  <1>1. Init => AgeInv
    BY DEF Init, AgeInv, NoSession, Idle
  <1>2. AgeInv => ExpiryFollowsUse
    BY DEF AgeInv, ExpiryFollowsUse, Live
  <1> QED BY <1>1, <1>2, AgeStep, TypesAlways, PTL DEF Spec

-----------------------------------------------------------------------------
(* The sessions table keeps SessionLife.                                   *)

L == [t \in Tokens |-> LifeOf(t)]

\* A step that takes away the live sessions S, if any, and nothing else.
LEMMA Ends ==
    ASSUME TypeOK, MailInv, NEW S, S \subseteq Tokens, \A t \in S : sessions[t].found,
           \A t \in Tokens : sessions'[t] = IF t \in S THEN NoSession ELSE sessions[t],
           UNCHANGED <<issued, out>>
    PROVE  Life!End(S)
  <1>1. \A t \in S : Life!IsLive(t)
    BY SlotForms DEF TypeOK, Slot, LifeOf, Life!IsLive, Life!Live
  <1>2. L' = Life!With(S, Life!Ended)
    BY DEF L, Life!With, Life!Ended, LifeOf, MailInv, NoSession
  <1> QED BY <1>1, <1>2 DEF L, Life!End

LEMMA LifeStep == TypeOK /\ MailInv /\ [Next]_vars => Life!Next \/ UNCHANGED Life!vars
  <1> SUFFICES ASSUME TypeOK, MailInv, [Next]_vars PROVE Life!Next \/ UNCHANGED Life!vars
    OBVIOUS
  <1>a. ASSUME UNCHANGED <<issued, out>>,
               \A t \in Tokens : /\ sessions'[t].found = sessions[t].found
                                 /\ sessions[t].found => sessions'[t].inbox = sessions[t].inbox
        PROVE  UNCHANGED Life!vars
    BY <1>a DEF Life!vars, LifeOf
  <1>0. ASSUME UNCHANGED <<sessions, issued, out>> PROVE UNCHANGED Life!vars
    BY <1>0, <1>a
  <1>1. ASSUME NEW r \in Requests, NEW b \in Browsers, NEW i \in Inboxes, Login(r, b, i) PROVE Life!Next \/ UNCHANGED Life!vars
    BY <1>0, <1>1 DEF Login, tables, observers
  <1>2. ASSUME NEW r \in Requests, NEW b \in Browsers, Logout(r, b) PROVE Life!Next \/ UNCHANGED Life!vars
    BY <1>0, <1>2 DEF Logout, tables, observers
  <1>3. ASSUME NEW r \in Requests, NEW b \in Browsers, NEW op \in Op, Visit(r, b, op) PROVE Life!Next \/ UNCHANGED Life!vars
    BY <1>0, <1>3 DEF Visit, tables, observers
  <1>4. ASSUME NEW r \in Requests, Verified(r) PROVE Life!Next \/ UNCHANGED Life!vars
    BY <1>0, <1>4 DEF Verified, tables, observers
  <1>5. ASSUME NEW r \in Requests, NEW t \in Tokens, CreateSession(r, t) PROVE Life!Next \/ UNCHANGED Life!vars
    <2> DEFINE i == req[r].inbox
    <2>1. /\ t \notin issued /\ issued' = issued \union {t} /\ UNCHANGED out
          /\ i \in Inboxes /\ ~sessions[t].found
      BY <1>5, RequestFields DEF CreateSession, TypeOK, MailInv
    <2>2. L[t] = Life!New
      BY <2>1 DEF L, LifeOf, Life!New
    <2>3. CASE UNCHANGED sessions
      <3>1. L' = Life!With({t}, Life!Ended)
        BY <2>1, <2>3 DEF L, Life!With, Life!Ended, LifeOf
      <3>2. Life!Discard(t)
        BY <2>1, <2>2, <3>1 DEF L, Life!Discard
      <3> QED BY <3>2 DEF Life!Next
    <2>4. CASE sessions' = [sessions EXCEPT ![t] = [found |-> TRUE, inbox |-> i, left |-> TTL]]
      <3>1. L' = Life!With({t}, Life!Live(i))
        BY <2>1, <2>4 DEF L, Life!With, Life!Live, LifeOf, TypeOK
      <3>2. Life!Begin(t, i)
        BY <2>1, <2>2, <3>1 DEF L, Life!Begin
      <3> QED BY <2>1, <3>2 DEF Life!Next
    <2> QED BY <1>5, <2>3, <2>4 DEF CreateSession
  <1>6. ASSUME NEW r \in Requests, DeleteSession(r) PROVE Life!Next \/ UNCHANGED Life!vars
    <2> DEFINE t == req[r].token
    <2>1. /\ t \in Tokens \union {NoToken} /\ t \in issued \union {NoToken} /\ UNCHANGED issued
          /\ sessions' = [u \in Tokens |-> IF u = t THEN NoSession ELSE sessions[u]]
          /\ out' = out \union ({t} \ {NoToken})
      BY <1>6, RequestFields DEF DeleteSession, Dropped, TypeOK, MailInv, RequestOK, HandedOut
    <2> HIDE DEF t
    <2>2. CASE t = NoToken
      <3>1. sessions' = sessions /\ out' = out
        BY <2>1, <2>2 DEF TypeOK
      <3> QED BY <1>0, <2>1, <3>1
    <2>3. CASE t \in Tokens
      <3>1. t \in issued /\ out' = out \union {t}
        BY <2>1, <2>3
      <3>2. L[t] # Life!New
        BY <2>3, <3>1 DEF L, LifeOf, Life!New
      <3>3. L' = Life!With({t}, Life!Ended)
        BY <2>1, <2>3, <3>1 DEF L, Life!With, Life!Ended, LifeOf, NoSession
      <3>4. Life!LogOut(t)
        BY <3>1, <3>2, <3>3 DEF L, Life!LogOut
      <3> QED BY <2>3, <3>4 DEF Life!Next
    <2> QED BY <2>1, <2>2, <2>3
  <1>7. ASSUME NEW r \in Requests, DeleteSessionFails(r) PROVE Life!Next \/ UNCHANGED Life!vars
    BY <1>0, <1>7 DEF DeleteSessionFails, tables, observers
  <1>8. ASSUME NEW r \in Requests, GetSession(r) PROVE Life!Next \/ UNCHANGED Life!vars
    BY <1>0, <1>8 DEF GetSession, tables, observers
  <1>9. ASSUME NEW r \in Requests, NotAuthenticated(r) PROVE Life!Next \/ UNCHANGED Life!vars
    BY <1>0, <1>9 DEF NotAuthenticated, tables, observers
  <1>10. ASSUME NEW r \in Requests, TouchSession(r) PROVE Life!Next \/ UNCHANGED Life!vars
    <2>1. UNCHANGED <<issued, out>>
      BY <1>10 DEF TouchSession, observers
    <2> QED BY <1>a, <1>10, <2>1, TouchKeeps
  <1>11. ASSUME NEW r \in Requests, TouchSessionFails(r) PROVE Life!Next \/ UNCHANGED Life!vars
    BY <1>0, <1>11 DEF TouchSessionFails, tables, observers
  <1>12. ASSUME NEW r \in Requests, List(r) PROVE Life!Next \/ UNCHANGED Life!vars
    BY <1>0, <1>12 DEF List, tables, observers
  <1>13. ASSUME NEW r \in Requests, GetEmail(r) PROVE Life!Next \/ UNCHANGED Life!vars
    BY <1>0, <1>13 DEF GetEmail, tables, observers
  <1>14. ASSUME NEW r \in Requests, EmailNotFound(r) PROVE Life!Next \/ UNCHANGED Life!vars
    BY <1>0, <1>14 DEF EmailNotFound, tables, observers
  <1>15. ASSUME NEW r \in Requests, MarkEmailAsRead(r) PROVE Life!Next \/ UNCHANGED Life!vars
    BY <1>0, <1>15 DEF MarkEmailAsRead, tables, observers
  <1>16. ASSUME NEW r \in Requests, View(r) PROVE Life!Next \/ UNCHANGED Life!vars
    BY <1>0, <1>16 DEF View, tables, observers
  <1>17. ASSUME NEW r \in Requests, GetAttachment(r) PROVE Life!Next \/ UNCHANGED Life!vars
    BY <1>0, <1>17 DEF GetAttachment, tables, observers
  <1>18. ASSUME NEW r \in Requests, DeleteEmail(r) PROVE Life!Next \/ UNCHANGED Life!vars
    BY <1>0, <1>18 DEF DeleteEmail, tables, observers
  <1>19. ASSUME NEW r \in Requests, Fails(r) PROVE Life!Next \/ UNCHANGED Life!vars
    BY <1>0, <1>19 DEF Fails, tables, observers
  <1>20. ASSUME NEW r \in Requests, Reply(r) PROVE Life!Next \/ UNCHANGED Life!vars
    BY <1>0, <1>20 DEF Reply, tables, observers
  <1>21. ASSUME NEW r \in Requests, ReplyLost(r) PROVE Life!Next \/ UNCHANGED Life!vars
    BY <1>0, <1>21 DEF ReplyLost, tables, observers
  <1>22. ASSUME NEW e \in Emails, NEW i \in Inboxes, NEW P \in SUBSET Parts, Receive(e, i, P) PROVE Life!Next \/ UNCHANGED Life!vars
    BY <1>0, <1>22 DEF Receive, tables, observers
  <1>23. ASSUME NEW S \in SUBSET Inboxes, DeleteExpiredInboxes(S) PROVE Life!Next \/ UNCHANGED Life!vars
    <2>1. Life!End(SessionsOf(S))
      BY <1>23, Ends DEF DeleteExpiredInboxes, SessionsOf, Dropped, observers
    <2> QED BY <2>1 DEF Life!Next, SessionsOf
  <1>24. CASE WakeUp
    BY <1>0, <1>24 DEF WakeUp, tables, observers
  <1>25. CASE DeleteExpiredSessions
    <2>1. Life!End(Expired)
      BY <1>25, Ends DEF DeleteExpiredSessions, Expired, Dropped, observers
    <2> QED BY <2>1 DEF Life!Next, Expired
  <1>26. CASE CleanupFails
    BY <1>0, <1>26 DEF CleanupFails, tables, observers
  <1>27. CASE Restart
    BY <1>0, <1>27 DEF Restart, tables, observers
  <1>28. CASE Tick
    <2>1. UNCHANGED <<issued, out>>
      BY <1>28 DEF Tick
    <2> QED BY <1>a, <1>28, <2>1, TickKeeps
  <1>29. CASE UNCHANGED vars
    BY <1>0, <1>29 DEF vars, tables, observers
  <1> QED
    BY <1>1, <1>2, <1>3, <1>4, <1>5, <1>6, <1>7, <1>8, <1>9, <1>10, <1>11, <1>12, <1>13, <1>14, <1>15,
       <1>16, <1>17, <1>18, <1>19, <1>20, <1>21, <1>22, <1>23, <1>24, <1>25, <1>26, <1>27, <1>28, <1>29 DEF Next

\* The sessions table keeps SessionLife, so that logging out of a mailbox is final: no
\* UPDATE or cookie that arrives later brings the session back (sqlite.go:444-532).
THEOREM SessionsImplementLife == Spec => ImplementsSessionLife
  <1>1. Init => Life!Init
    BY DEF Init, Life!Init, LifeOf, Life!New, NoSession
  <1> QED
    BY <1>1, MailAlways, LifeStep, PTL DEF Spec, ImplementsSessionLife, Life!Spec

LifeProofs == INSTANCE SessionLifeProofs
    WITH Owners <- Inboxes, life <- [t \in Tokens |-> LifeOf(t)], loggedOut <- out

\* Logging out of a mailbox is final: whatever overlaps, there is no row for a token
\* that was logged out, so GetSession finds none, at once and for ever
\* (auth_handlers.go:97-105, sqlite.go:444-532).
THEOREM LogoutIsFinal == Spec => [](\A t \in out : ~sessions[t].found)
  <1>1. Life!Spec => LifeProofs!Spec
    <2>1. Life!Init => LifeProofs!Init
      BY DEF Life!Init, LifeProofs!Init, Life!New, LifeProofs!New
    <2>2. [Life!Next]_(Life!vars) => [LifeProofs!Next]_(LifeProofs!vars)
      BY DEF Life!vars, LifeProofs!vars, Life!Next, LifeProofs!Next,
             Life!Begin, LifeProofs!Begin, Life!Discard, LifeProofs!Discard,
             Life!LogOut, LifeProofs!LogOut, Life!End, LifeProofs!End,
             Life!With, LifeProofs!With, Life!IsLive, LifeProofs!IsLive,
             Life!Live, LifeProofs!Live, Life!New, LifeProofs!New,
             Life!Ended, LifeProofs!Ended
    <2> QED BY <2>1, <2>2, PTL DEF Life!Spec, LifeProofs!Spec
  <1>2. LifeProofs!Spec => []LifeProofs!LogoutFinal
    BY LifeProofs!LogoutIsFinal DEF LifeProofs!LogoutIsFinal
  <1>3. TypeOK /\ LifeProofs!LogoutFinal => \A t \in out : ~sessions[t].found
    <2> SUFFICES ASSUME TypeOK, LifeProofs!LogoutFinal, NEW t \in out, sessions[t].found
                 PROVE  FALSE
      OBVIOUS
    <2>1. LifeOf(t) = LifeProofs!Ended
      BY DEF LifeProofs!LogoutFinal, TypeOK
    <2> QED BY <2>1 DEF LifeOf, LifeProofs!Ended
  <1> QED
    BY <1>1, <1>2, <1>3, SessionsImplementLife, TypeCorrect, PTL DEF ImplementsSessionLife

-----------------------------------------------------------------------------
(* The sweep.  A run of the worker that gets to its second statement ends  *)
(* with no expired session in the table; a run that fails before it is     *)
(* followed by another.                                                    *)

\* Fairness of the worker with each ENABLED written as the guard of its step (every
\* one of them changes "worker"): it leaves every wait, and a statement that is tried
\* over and over is run in the end, whether or not it finds anything to delete.
WorkerGoesOn ==
    /\ []<>(worker # "waiting") \/ []<><<WakeUp>>_vars
    /\ <>[](worker # "inboxes")
           \/ []<><<\E S \in SUBSET Inboxes : DeleteExpiredInboxes(S)>>_vars
    /\ <>[](worker # "sessions") \/ []<><<DeleteExpiredSessions>>_vars

SweptInTheEnd(t) == t \in Expired ~> t \notin Expired

\* If the worker never comes to a standstill, which FairSpec ensures, every expired
\* session is deleted or renewed in the end, though any run may fail at either
\* statement and a failure of the first skips the second (cleanup.go:27-80).
THEOREM ExpiredSessionsGo == Spec /\ WorkerGoesOn => ExpiredSwept
  <1>1. ASSUME NEW t \in Tokens PROVE Spec /\ WorkerGoesOn => SweptInTheEnd(t)
    <2> DEFINE D == \E S \in SUBSET Inboxes : DeleteExpiredInboxes(S)
               X == t \in Expired
               Y == t \notin Expired
               W == worker # "waiting"
               I == worker # "inboxes"
               S == worker # "sessions"
    <2>1. TypeOK => ~(W /\ I /\ S)
      BY DEF TypeOK
    <2>2. D => ~S'
      BY DEF DeleteExpiredInboxes
    <2>3. DeleteExpiredSessions => Y'
      BY DEF DeleteExpiredSessions, Expired, Dropped, NoSession
    <2>4. Y <=> ~X
      OBVIOUS
    <2>5. WorkerGoesOn <=> /\ []<>W \/ []<><<WakeUp>>_vars
                           /\ <>[]I \/ []<><<D>>_vars
                           /\ <>[]S \/ []<><<DeleteExpiredSessions>>_vars
      BY DEF WorkerGoesOn
    <2>6. WakeUp => ~I'
      BY DEF WakeUp
    <2> HIDE DEF D, X, Y, W, I, S
    <2>7. Spec /\ WorkerGoesOn => (X ~> Y)
      BY <2>1, <2>2, <2>3, <2>4, <2>5, <2>6, TypeCorrect, PTL DEF Spec
    <2> QED BY <2>7 DEF X, Y, SweptInTheEnd
  <1>2. Spec /\ WorkerGoesOn => \A t \in Tokens : SweptInTheEnd(t)
    BY <1>1
  <1> QED BY <1>2 DEF ExpiredSwept, SweptInTheEnd
=============================================================================
