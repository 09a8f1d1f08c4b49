-------------------------- MODULE AdminRealmProofs --------------------------
(***************************************************************************)
(* Proofs about AdminRealm, for any sets of operators, requests and tokens *)
(* and any TTL.  The store implements SessionLife because a token is known *)
(* outside the store only once it was drawn (TokensInv); every grant is    *)
(* for a password that was stored (EarnedInv); a setup that is under way   *)
(* while a password is set was under way when it was set (RacersInv).      *)
(***************************************************************************)
EXTENDS AdminRealm, TLAPS

USE AdminRealmAssumption

-----------------------------------------------------------------------------
(* Types.                                                                  *)

\* What the place of a request says about its fields.
LEMMA RequestFields ==
    ASSUME NEW r \in Request
    PROVE  /\ r.pc \in {"setup", "login", "grant", "page", "logout", "reply"} =>
                  r.who \in Operators
           /\ r.pc = "login" => r.password \in Operators /\ r.hash \in Operators
           /\ r.pc = "grant" => r.password \in Operators
           /\ r.pc \in {"page", "logout", "reply"} => r.token \in Tokens \union {NoToken}
           /\ r.pc \in {"idle", "setup", "login", "grant", "page", "logout", "reply"}
  BY DEF Request, Idle

LEMMA RequestForms ==
    /\ Idle \in Request
    /\ \A o \in Operators : [pc |-> "setup", who |-> o] \in Request
    /\ \A o, p, h \in Operators :
           [pc |-> "login", who |-> o, password |-> p, hash |-> h] \in Request
    /\ \A o, p \in Operators : [pc |-> "grant", who |-> o, password |-> p] \in Request
    /\ \A o \in Operators, t \in Tokens \union {NoToken} :
           /\ [pc |-> "page", who |-> o, token |-> t] \in Request
           /\ [pc |-> "logout", who |-> o, token |-> t] \in Request
           /\ [pc |-> "reply", who |-> o, token |-> t] \in Request
  BY DEF Request, Idle

LEMMA EntryForms ==
    /\ NoEntry \in Entry \union {NoEntry}
    /\ [found |-> TRUE, left |-> TTL] \in Entry \union {NoEntry}
    /\ \A e \in Entry \union {NoEntry} :
           /\ Faded(e) \in Entry \union {NoEntry} /\ Faded(e).found = e.found
           /\ e.found => [e EXCEPT !.left = TTL] \in Entry \union {NoEntry}
  <1>1. NoEntry \in Entry \union {NoEntry}
    OBVIOUS
  <1>2. [found |-> TRUE, left |-> TTL] \in Entry \union {NoEntry}
    BY DEF Entry
  <1>3. ASSUME NEW e \in Entry \union {NoEntry}
        PROVE  /\ Faded(e) \in Entry \union {NoEntry} /\ Faded(e).found = e.found
               /\ e.found => [e EXCEPT !.left = TTL] \in Entry \union {NoEntry}
    <2>1. CASE e = NoEntry
      <3>1. Faded(e) = e /\ ~e.found
        BY <2>1 DEF NoEntry, Faded
      <3> QED BY <2>1, <3>1
    <2>2. CASE e \in Entry
      <3>1. e.left \in 0..TTL /\ e.found
        BY <2>2 DEF Entry
      <3>2. ASSUME NEW n \in 0..TTL
            PROVE  [e EXCEPT !.left = n] \in Entry
        BY <2>2, Zenon DEF Entry
      <3>3. \A f \in Entry : f.found = TRUE
        BY DEF Entry
      <3>4. [e EXCEPT !.left = TTL] \in Entry
        BY <3>2
      <3>5. CASE e.left = 0
        <4>1. Faded(e) = e
          BY <3>5 DEF Faded
        <4> QED BY <2>2, <3>4, <4>1
      <3>6. CASE e.left # 0
        <4>1. e.left - 1 \in 0..TTL
          BY <3>1, <3>6
        <4>2. [e EXCEPT !.left = e.left - 1] \in Entry
          BY <3>2, <4>1
        <4>3. Faded(e) \in Entry
          BY <3>6, <4>2 DEF Faded
        <4> QED BY <2>2, <3>3, <3>4, <4>3
      <3> QED BY <3>5, <3>6
    <2> QED BY <2>1, <2>2
  <1> QED BY <1>1, <1>2, <1>3

LEMMA CookieForms ==
    /\ NoCookie \in Cookie
    /\ \A t \in Tokens : [token |-> t, left |-> TTL] \in Cookie
    /\ \A k \in Cookie : Faded(k) \in Cookie /\ Faded(k).token = k.token
  BY DEF Cookie, NoCookie, Faded

LEMMA SentType == ASSUME TypeOK, NEW o \in Operators PROVE Sent(o) \in Tokens \union {NoToken}
  <1>1. cookie[o] \in Cookie
    BY DEF TypeOK
  <1>2. cookie[o].token \in Tokens \union {NoToken}
    BY <1>1 DEF Cookie, NoCookie
  <1> QED BY <1>2 DEF Sent

LEMMA TypeInit == Init => TypeOK
  BY RequestForms, EntryForms, CookieForms DEF Init, TypeOK

LEMMA TypeStep == TypeOK /\ [Next]_vars => TypeOK'
  <1> SUFFICES ASSUME TypeOK, [Next]_vars PROVE TypeOK'
    OBVIOUS
  <1> USE DEF TypeOK, observers
  <1>1. ASSUME NEW q \in Requests, NEW o \in Operators, Setup(q, o)
        PROVE  TypeOK'
    BY <1>1, RequestForms, RequestFields DEF Setup, SetupOpen, Begin
  <1>2. ASSUME NEW q \in Requests, NEW o \in Operators, Page(q, o)
        PROVE  TypeOK'
    BY <1>2, RequestForms, RequestFields, SentType DEF Page, Begin
  <1>3. ASSUME NEW q \in Requests, NEW o \in Operators, Logout(q, o)
        PROVE  TypeOK'
    BY <1>3, RequestForms, RequestFields, SentType DEF Logout, Begin
  <1>4. ASSUME NEW q \in Requests, NEW o \in Operators, NEW p \in Operators, Login(q, o, p)
        PROVE  TypeOK'
    BY <1>4, RequestForms, RequestFields DEF Login, Begin
  <1>5. ASSUME NEW q \in Requests, SetupWrite(q)
        PROVE  TypeOK'
    BY <1>5, RequestForms, RequestFields DEF SetupWrite
  <1>6. ASSUME NEW q \in Requests, SetupFails(q)
        PROVE  TypeOK'
    BY <1>6, RequestForms, RequestFields DEF SetupFails, AfterFailure
  <1>7. ASSUME NEW q \in Requests, LoginVerified(q)
        PROVE  TypeOK'
    BY <1>7, RequestForms, RequestFields DEF LoginVerified
  <1>8. ASSUME NEW q \in Requests, Reply(q)
        PROVE  TypeOK'
    BY <1>8, RequestForms, RequestFields, CookieForms DEF Reply
  <1>9. ASSUME NEW q \in Requests, ReplyLost(q)
        PROVE  TypeOK'
    BY <1>9, RequestForms, RequestFields DEF ReplyLost
  <1>10. ASSUME NEW q \in Requests, PageAllowed(q)
        PROVE  TypeOK'
    BY <1>10, RequestForms, RequestFields, EntryForms DEF PageAllowed, Valid
  <1>11. ASSUME NEW q \in Requests, PageDenied(q)
        PROVE  TypeOK'
    BY <1>11, RequestForms, RequestFields, EntryForms DEF PageDenied, Without
  <1>12. ASSUME NEW q \in Requests, LogoutDelete(q)
        PROVE  TypeOK'
    BY <1>12, RequestForms, RequestFields, EntryForms DEF LogoutDelete, Without
  <1>13. ASSUME NEW q \in Requests, NEW t \in Tokens, StartAdminSession(q, t)
        PROVE  TypeOK'
    BY <1>13, RequestForms, RequestFields, EntryForms DEF StartAdminSession, NewToken
  <1>14. CASE ResetPassword
    BY <1>14, RequestForms, RequestFields DEF ResetPassword
  <1>15. CASE Stop
    BY <1>15, RequestForms, RequestFields, EntryForms DEF Stop
  <1>16. CASE Start
    BY <1>16, RequestForms, RequestFields DEF Start
  <1>17. CASE Tick
    BY <1>17, RequestForms, RequestFields, EntryForms, CookieForms DEF Tick, Faded
  <1>18. CASE UNCHANGED vars
    BY <1>18 DEF vars
  <1> QED
    BY <1>1, <1>2, <1>3, <1>4, <1>5, <1>6, <1>7, <1>8, <1>9, <1>10, <1>11, <1>12,
       <1>13, <1>14, <1>15, <1>16, <1>17, <1>18 DEF Next

\* Every variable keeps its type (admin.go).
THEOREM TypeCorrect == Spec => []TypeOK
  BY TypeInit, TypeStep, PTL DEF Spec

-----------------------------------------------------------------------------
(* Tokens.  Whoever holds a token holds one that was drawn; a live session *)
(* has an owner.                                                           *)

TokensInv ==
    /\ \A t \in Tokens : sessions[t].found => t \in issued /\ earned[t] \in Operators
    /\ \A o \in Operators : cookie[o].token \in issued \union {NoToken}
    /\ \A q \in Requests : req[q].pc \in {"page", "logout", "reply"} =>
                               req[q].token \in issued \union {NoToken}

LEMMA TokensInit == Init => TokensInv
  BY DEF Init, TokensInv, NoEntry, NoCookie, Idle

LEMMA TokensStep == TypeOK /\ TokensInv /\ [Next]_vars => TokensInv'
  <1> SUFFICES ASSUME TypeOK, TokensInv, [Next]_vars PROVE TokensInv'
    OBVIOUS
  <1> USE DEF TypeOK, TokensInv, observers
  <1>1. ASSUME NEW q \in Requests, NEW o \in Operators, Setup(q, o)
        PROVE  TokensInv'
    BY <1>1 DEF Setup, SetupOpen, Begin
  <1>2. ASSUME NEW q \in Requests, NEW o \in Operators, Page(q, o)
        PROVE  TokensInv'
    BY <1>2 DEF Page, Begin, Sent
  <1>3. ASSUME NEW q \in Requests, NEW o \in Operators, Logout(q, o)
        PROVE  TokensInv'
    BY <1>3 DEF Logout, Begin, Sent
  <1>4. ASSUME NEW q \in Requests, NEW o \in Operators, NEW p \in Operators, Login(q, o, p)
        PROVE  TokensInv'
    BY <1>4 DEF Login, Begin
  <1>5. ASSUME NEW q \in Requests, SetupWrite(q)
        PROVE  TokensInv'
    BY <1>5 DEF SetupWrite
  <1>6. ASSUME NEW q \in Requests, SetupFails(q)
        PROVE  TokensInv'
    BY <1>6 DEF SetupFails, AfterFailure, Idle
  <1>7. ASSUME NEW q \in Requests, LoginVerified(q)
        PROVE  TokensInv'
    BY <1>7 DEF LoginVerified, Idle
  <1>8. ASSUME NEW q \in Requests, Reply(q)
        PROVE  TokensInv'
    BY <1>8 DEF Reply, Idle, NoCookie
  <1>9. ASSUME NEW q \in Requests, ReplyLost(q)
        PROVE  TokensInv'
    BY <1>9 DEF ReplyLost, Idle
  <1>10. ASSUME NEW q \in Requests, PageAllowed(q)
        PROVE  TokensInv'
    BY <1>10 DEF PageAllowed, Valid, Idle
  <1>11. ASSUME NEW q \in Requests, PageDenied(q)
        PROVE  TokensInv'
    BY <1>11 DEF PageDenied, Without, Idle, NoEntry
  <1>12. ASSUME NEW q \in Requests, LogoutDelete(q)
        PROVE  TokensInv'
    BY <1>12 DEF LogoutDelete, Without, NoEntry
  <1>13. ASSUME NEW q \in Requests, NEW t \in Tokens, StartAdminSession(q, t)
        PROVE  TokensInv'
    BY <1>13, RequestFields DEF StartAdminSession, NewToken
  <1>14. CASE ResetPassword
    BY <1>14 DEF ResetPassword
  <1>15. CASE Stop
    BY <1>15 DEF Stop, Idle, NoEntry
  <1>16. CASE Start
    BY <1>16 DEF Start
  <1>17. CASE Tick
    BY <1>17, EntryForms, CookieForms DEF Tick, Faded
  <1>18. CASE UNCHANGED vars
    BY <1>18 DEF vars
  <1> QED
    BY <1>1, <1>2, <1>3, <1>4, <1>5, <1>6, <1>7, <1>8, <1>9, <1>10, <1>11, <1>12,
       <1>13, <1>14, <1>15, <1>16, <1>17, <1>18 DEF Next

\* A step of the store is a step of SessionLife, or changes nothing it shows.
LEMMA LifeStep ==
    TypeOK /\ TokensInv /\ TokensInv' /\ [Next]_vars => [Life!Next]_(Life!vars)
  <1> SUFFICES ASSUME TypeOK, TokensInv, TokensInv', [Next]_vars
               PROVE  Life!Next \/ UNCHANGED Life!vars
    OBVIOUS
  <1> DEFINE L == [t \in Tokens |-> LifeOf(t)]
  <1>0. ASSUME UNCHANGED <<sessions, issued, out, earned>> PROVE UNCHANGED Life!vars
    BY <1>0 DEF Life!vars, LifeOf
  <1>1. ASSUME NEW q \in Requests, NEW o \in Operators, Setup(q, o)
        PROVE  Life!Next \/ UNCHANGED Life!vars
    BY <1>0, <1>1 DEF Setup, SetupOpen, Begin, observers
  <1>2. ASSUME NEW q \in Requests, NEW o \in Operators, Page(q, o)
        PROVE  Life!Next \/ UNCHANGED Life!vars
    BY <1>0, <1>2 DEF Page, Begin, observers
  <1>3. ASSUME NEW q \in Requests, NEW o \in Operators, Logout(q, o)
        PROVE  Life!Next \/ UNCHANGED Life!vars
    BY <1>0, <1>3 DEF Logout, Begin, observers
  <1>4. ASSUME NEW q \in Requests, NEW o \in Operators, NEW p \in Operators, Login(q, o, p)
        PROVE  Life!Next \/ UNCHANGED Life!vars
    BY <1>0, <1>4 DEF Login, Begin, observers
  <1>5. ASSUME NEW q \in Requests, SetupWrite(q)
        PROVE  Life!Next \/ UNCHANGED Life!vars
    BY <1>0, <1>5 DEF SetupWrite, observers
  <1>6. ASSUME NEW q \in Requests, SetupFails(q)
        PROVE  Life!Next \/ UNCHANGED Life!vars
    BY <1>0, <1>6 DEF SetupFails, AfterFailure, observers
  <1>7. ASSUME NEW q \in Requests, LoginVerified(q)
        PROVE  Life!Next \/ UNCHANGED Life!vars
    BY <1>0, <1>7 DEF LoginVerified, observers
  <1>8. ASSUME NEW q \in Requests, Reply(q)
        PROVE  Life!Next \/ UNCHANGED Life!vars
    BY <1>0, <1>8 DEF Reply, observers
  <1>9. ASSUME NEW q \in Requests, ReplyLost(q)
        PROVE  Life!Next \/ UNCHANGED Life!vars
    BY <1>0, <1>9 DEF ReplyLost, observers
  <1>10. ASSUME NEW q \in Requests, PageAllowed(q)
        PROVE  Life!Next \/ UNCHANGED Life!vars
    <2>1. \A t \in Tokens : sessions'[t].found = sessions[t].found
      BY <1>10 DEF PageAllowed, TypeOK, Entry, NoEntry
    <2>2. UNCHANGED <<issued, out, earned>>
      BY <1>10 DEF PageAllowed, observers
    <2> QED BY <2>1, <2>2 DEF Life!vars, LifeOf
  <1>11. ASSUME NEW q \in Requests, PageDenied(q)
        PROVE  Life!Next \/ UNCHANGED Life!vars
    <2> DEFINE t == req[q].token
    <2>1. UNCHANGED <<issued, out, earned>>
      BY <1>11 DEF PageDenied, observers
    <2>2. CASE t \in Tokens /\ sessions[t].found
      <3>1. t \in issued /\ earned[t] \in Operators
        BY <2>2 DEF TokensInv
      <3>2. L[t] = Life!Live(earned[t])
        BY <2>2 DEF LifeOf, Life!Live
      <3>3. \A u \in {t} : Life!IsLive(u)
        BY <3>1, <3>2 DEF Life!IsLive
      <3>4. sessions' = [sessions EXCEPT ![t] = NoEntry]
        BY <1>11, <2>2 DEF PageDenied, Without
      <3>5. L' = Life!With({t}, Life!Ended)
        BY <2>1, <2>2, <3>1, <3>4 DEF Life!With, Life!Ended, LifeOf, TypeOK, NoEntry
      <3>6. Life!End({t})
        BY <2>1, <3>3, <3>5 DEF Life!End
      <3> QED BY <2>2, <3>6 DEF Life!Next
    <2>3. CASE ~(t \in Tokens /\ sessions[t].found)
      <3>1. \A u \in Tokens : sessions'[u].found = sessions[u].found
        BY <1>11, <2>3 DEF PageDenied, Without, TypeOK, Entry, NoEntry
      <3> QED BY <2>1, <3>1 DEF Life!vars, LifeOf
    <2> QED BY <2>2, <2>3
  <1>12. ASSUME NEW q \in Requests, LogoutDelete(q)
        PROVE  Life!Next \/ UNCHANGED Life!vars
    <2> DEFINE t == req[q].token
    <2>1. t \in Tokens \union {NoToken} /\ UNCHANGED <<issued, earned>>
      BY <1>12, RequestFields DEF LogoutDelete, TypeOK
    <2>2. CASE t = NoToken
      BY <1>12, <2>1, <2>2 DEF LogoutDelete, Without, Life!vars, LifeOf
    <2>3. CASE t \in Tokens
      <3>1. t \in issued
        BY <1>12, <2>3 DEF LogoutDelete, TokensInv
      <3>2. sessions' = [sessions EXCEPT ![t] = NoEntry] /\ out' = out \union {t}
        BY <1>12, <2>3 DEF LogoutDelete, Without
      <3>3. L[t] # Life!New
        BY <2>3, <3>1 DEF LifeOf, Life!New
      <3>4. L' = Life!With({t}, Life!Ended)
        BY <2>1, <2>3, <3>1, <3>2 DEF Life!With, Life!Ended, LifeOf, TypeOK, NoEntry
      <3>5. Life!LogOut(t)
        BY <3>2, <3>3, <3>4 DEF Life!LogOut
      <3> QED BY <2>3, <3>5 DEF Life!Next
    <2> QED BY <2>1, <2>2, <2>3
  <1>13. ASSUME NEW q \in Requests, NEW t \in Tokens, StartAdminSession(q, t)
        PROVE  Life!Next \/ UNCHANGED Life!vars
    <2> DEFINE p == req[q].password
    <2>1. p \in Operators
      BY <1>13, RequestFields DEF StartAdminSession, TypeOK
    <2>2. /\ t \notin issued /\ issued' = issued \union {t} /\ UNCHANGED out
          /\ sessions' = [sessions EXCEPT ![t] = [found |-> TRUE, left |-> TTL]]
          /\ earned' = [earned EXCEPT ![t] = p]
      BY <1>13 DEF StartAdminSession, NewToken
    <2>3. L[t] = Life!New
      BY <2>2 DEF LifeOf, Life!New, TokensInv
    <2>4. L' = Life!With({t}, Life!Live(p))
      BY <2>2 DEF Life!With, Life!Live, LifeOf, TypeOK
    <2>5. Life!Begin(t, p)
      BY <2>2, <2>3, <2>4 DEF Life!Begin
    <2> QED BY <2>1, <2>5 DEF Life!Next
  <1>14. CASE ResetPassword
    BY <1>0, <1>14 DEF ResetPassword, observers
  <1>15. CASE Stop
    <2> DEFINE S == {t \in Tokens : sessions[t].found}
    <2>1. UNCHANGED <<issued, out, earned>> /\ sessions' = [t \in Tokens |-> NoEntry]
      BY <1>15 DEF Stop
    <2>2. \A t \in S : Life!IsLive(t)
      BY DEF TokensInv, LifeOf, Life!IsLive, Life!Live
    <2>3. L' = Life!With(S, Life!Ended)
      BY <2>1 DEF Life!With, Life!Ended, LifeOf, TokensInv, NoEntry
    <2>4. Life!End(S)
      BY <2>1, <2>2, <2>3 DEF Life!End
    <2> QED BY <2>4 DEF Life!Next
  <1>16. CASE Start
    BY <1>0, <1>16 DEF Start, observers
  <1>17. CASE Tick
    <2>1. \A t \in Tokens : sessions'[t].found = sessions[t].found
      BY <1>17, EntryForms DEF Tick, TypeOK
    <2>2. UNCHANGED <<issued, out, earned>>
      BY <1>17 DEF Tick, observers
    <2> QED BY <2>1, <2>2 DEF Life!vars, LifeOf
  <1>18. CASE UNCHANGED vars
    BY <1>0, <1>18 DEF vars, observers
  <1> QED
    BY <1>1, <1>2, <1>3, <1>4, <1>5, <1>6, <1>7, <1>8, <1>9, <1>10, <1>11, <1>12,
       <1>13, <1>14, <1>15, <1>16, <1>17, <1>18 DEF Next

\* The admin sessions keep SessionLife: a token never comes back, and logging out
\* is final (admin.go:60-87, 306-312).
THEOREM SessionsImplementLife == Spec => ImplementsSessionLife
  <1>1. Init => Life!Init
    BY DEF Init, Life!Init, LifeOf, Life!New, NoEntry
  <1>2. TypeOK /\ TokensInv /\ [Next]_vars => TokensInv'
    BY TokensStep
  <1> QED
    BY <1>1, <1>2, TypeInit, TypeStep, TokensInit, LifeStep, PTL
    DEF Spec, ImplementsSessionLife, Life!Spec

LifeProofs == INSTANCE SessionLifeProofs
    WITH Owners <- Operators, life <- [t \in Tokens |-> LifeOf(t)], loggedOut <- out

\* Logging out of the admin area is final: whatever overlaps, the token of a session
\* that was logged out is in the store no more, so validate refuses it, at once and
\* for ever (admin.go:60-87, 306-312).
THEOREM LogoutIsFinal == Spec => [](\A t \in out : ~sessions[t].found)
  <1>1. Life!Spec => LifeProofs!Spec
    <2>1. Life!Init => LifeProofs!Init
      BY DEF Life!Init, LifeProofs!Init, Life!New, LifeProofs!New
    <2>2. [Life!Next]_(Life!vars) => [LifeProofs!Next]_(LifeProofs!vars)
      BY DEF Life!vars, LifeProofs!vars, Life!Next, LifeProofs!Next,
             Life!Begin, LifeProofs!Begin, Life!Discard, LifeProofs!Discard,
             Life!LogOut, LifeProofs!LogOut, Life!End, LifeProofs!End,
             Life!With, LifeProofs!With, Life!IsLive, LifeProofs!IsLive,
             Life!Live, LifeProofs!Live, Life!New, LifeProofs!New,
             Life!Ended, LifeProofs!Ended
    <2> QED BY <2>1, <2>2, PTL DEF Life!Spec, LifeProofs!Spec
  <1>2. LifeProofs!Spec => []LifeProofs!LogoutFinal
    BY LifeProofs!LogoutIsFinal DEF LifeProofs!LogoutIsFinal
  <1>3. TypeOK /\ LifeProofs!LogoutFinal => \A t \in out : ~sessions[t].found
    <2> SUFFICES ASSUME TypeOK, LifeProofs!LogoutFinal, NEW t \in out, sessions[t].found
                 PROVE  FALSE
      OBVIOUS
    <2>1. LifeOf(t) = LifeProofs!Ended
      BY DEF LifeProofs!LogoutFinal, TypeOK
    <2> QED BY <2>1 DEF LifeOf, LifeProofs!Ended
  <1> QED
    BY <1>1, <1>2, <1>3, SessionsImplementLife, TypeCorrect, PTL DEF ImplementsSessionLife

-----------------------------------------------------------------------------
(* Passwords.                                                              *)

EarnedInv ==
    /\ hash \in chosen \union {NoHash}
    /\ \A q \in Requests : /\ req[q].pc = "login" => req[q].hash \in chosen
                           /\ req[q].pc = "grant" => req[q].password \in chosen
    /\ SessionsEarned

LEMMA EarnedInit == Init => EarnedInv
  BY DEF Init, EarnedInv, SessionsEarned, NoEntry, Idle

LEMMA EarnedStep == TypeOK /\ EarnedInv /\ [Next]_vars => EarnedInv'
  <1> SUFFICES ASSUME TypeOK, EarnedInv, [Next]_vars PROVE EarnedInv'
    OBVIOUS
  <1> USE DEF TypeOK, EarnedInv, SessionsEarned, observers
  <1>1. ASSUME NEW q \in Requests, NEW o \in Operators, Setup(q, o)
        PROVE  EarnedInv'
    BY <1>1 DEF Setup, SetupOpen, Begin
  <1>2. ASSUME NEW q \in Requests, NEW o \in Operators, Page(q, o)
        PROVE  EarnedInv'
    BY <1>2 DEF Page, Begin
  <1>3. ASSUME NEW q \in Requests, NEW o \in Operators, Logout(q, o)
        PROVE  EarnedInv'
    BY <1>3 DEF Logout, Begin
  <1>4. ASSUME NEW q \in Requests, NEW o \in Operators, NEW p \in Operators, Login(q, o, p)
        PROVE  EarnedInv'
    BY <1>4 DEF Login, Begin
  <1>5. ASSUME NEW q \in Requests, SetupWrite(q)
        PROVE  EarnedInv'
    BY <1>5 DEF SetupWrite
  <1>6. ASSUME NEW q \in Requests, SetupFails(q)
        PROVE  EarnedInv'
    BY <1>6 DEF SetupFails, AfterFailure, Idle
  <1>7. ASSUME NEW q \in Requests, LoginVerified(q)
        PROVE  EarnedInv'
    BY <1>7 DEF LoginVerified, Idle, Verifies
  <1>8. ASSUME NEW q \in Requests, Reply(q)
        PROVE  EarnedInv'
    BY <1>8 DEF Reply, Idle
  <1>9. ASSUME NEW q \in Requests, ReplyLost(q)
        PROVE  EarnedInv'
    BY <1>9 DEF ReplyLost, Idle
  <1>10. ASSUME NEW q \in Requests, PageAllowed(q)
        PROVE  EarnedInv'
    BY <1>10 DEF PageAllowed, Valid, Idle, Entry, NoEntry
  <1>11. ASSUME NEW q \in Requests, PageDenied(q)
        PROVE  EarnedInv'
    BY <1>11 DEF PageDenied, Without, Idle, NoEntry
  <1>12. ASSUME NEW q \in Requests, LogoutDelete(q)
        PROVE  EarnedInv'
    BY <1>12 DEF LogoutDelete, Without, NoEntry
  <1>13. ASSUME NEW q \in Requests, NEW t \in Tokens, StartAdminSession(q, t)
        PROVE  EarnedInv'
    BY <1>13 DEF StartAdminSession, NewToken
  <1>14. CASE ResetPassword
    BY <1>14 DEF ResetPassword
  <1>15. CASE Stop
    BY <1>15 DEF Stop, Idle, NoEntry
  <1>16. CASE Start
    BY <1>16 DEF Start
  <1>17. CASE Tick
    BY <1>17, EntryForms DEF Tick, Faded
  <1>18. CASE UNCHANGED vars
    BY <1>18 DEF vars
  <1> QED
    BY <1>1, <1>2, <1>3, <1>4, <1>5, <1>6, <1>7, <1>8, <1>9, <1>10, <1>11, <1>12,
       <1>13, <1>14, <1>15, <1>16, <1>17, <1>18 DEF Next

\* Every admin session was given for a password that was stored at some time
\* (admin.go:192-224, 251-304).
THEOREM GrantsEarned == Spec => []SessionsEarned
  <1>1. TypeOK /\ EarnedInv => SessionsEarned
    BY DEF EarnedInv
  <1> QED BY <1>1, TypeInit, TypeStep, EarnedInit, EarnedStep, PTL DEF Spec

\* While a password is set, the setups under way are those that were when it was.
RacersInv == hash # NoHash => \A q \in Requests : req[q].pc = "setup" => q \in racers

LEMMA RacersInit == Init => RacersInv
  BY DEF Init, RacersInv

LEMMA RacersStep == TypeOK /\ RacersInv /\ [Next]_vars => RacersInv'
  <1> SUFFICES ASSUME TypeOK, RacersInv, [Next]_vars PROVE RacersInv'
    OBVIOUS
  <1> USE DEF TypeOK, RacersInv, observers
  <1>1. ASSUME NEW q \in Requests, NEW o \in Operators, Setup(q, o)
        PROVE  RacersInv'
    BY <1>1 DEF Setup, SetupOpen, Begin
  <1>2. ASSUME NEW q \in Requests, NEW o \in Operators, Page(q, o)
        PROVE  RacersInv'
    BY <1>2 DEF Page, Begin
  <1>3. ASSUME NEW q \in Requests, NEW o \in Operators, Logout(q, o)
        PROVE  RacersInv'
    BY <1>3 DEF Logout, Begin
  <1>4. ASSUME NEW q \in Requests, NEW o \in Operators, NEW p \in Operators, Login(q, o, p)
        PROVE  RacersInv'
    BY <1>4 DEF Login, Begin
  <1>5. ASSUME NEW q \in Requests, SetupWrite(q)
        PROVE  RacersInv'
    BY <1>5 DEF SetupWrite
  <1>6. ASSUME NEW q \in Requests, SetupFails(q)
        PROVE  RacersInv'
    BY <1>6 DEF SetupFails, AfterFailure, Idle
  <1>7. ASSUME NEW q \in Requests, LoginVerified(q)
        PROVE  RacersInv'
    BY <1>7 DEF LoginVerified, Idle
  <1>8. ASSUME NEW q \in Requests, Reply(q)
        PROVE  RacersInv'
    BY <1>8 DEF Reply, Idle
  <1>9. ASSUME NEW q \in Requests, ReplyLost(q)
        PROVE  RacersInv'
    BY <1>9 DEF ReplyLost, Idle
  <1>10. ASSUME NEW q \in Requests, PageAllowed(q)
        PROVE  RacersInv'
    BY <1>10 DEF PageAllowed, Valid, Idle
  <1>11. ASSUME NEW q \in Requests, PageDenied(q)
        PROVE  RacersInv'
    BY <1>11 DEF PageDenied, Without, Idle
  <1>12. ASSUME NEW q \in Requests, LogoutDelete(q)
        PROVE  RacersInv'
    BY <1>12 DEF LogoutDelete, Without
  <1>13. ASSUME NEW q \in Requests, NEW t \in Tokens, StartAdminSession(q, t)
        PROVE  RacersInv'
    BY <1>13 DEF StartAdminSession, NewToken
  <1>14. CASE ResetPassword
    BY <1>14 DEF ResetPassword
  <1>15. CASE Stop
    BY <1>15 DEF Stop, Idle
  <1>16. CASE Start
    BY <1>16 DEF Start
  <1>17. CASE Tick
    BY <1>17 DEF Tick, Faded
  <1>18. CASE UNCHANGED vars
    BY <1>18 DEF vars
  <1> QED
    BY <1>1, <1>2, <1>3, <1>4, <1>5, <1>6, <1>7, <1>8, <1>9, <1>10, <1>11, <1>12,
       <1>13, <1>14, <1>15, <1>16, <1>17, <1>18 DEF Next

\* Once a password is set, only a setup that was under way then replaces it
\* (admin.go:251-292).
THEOREM SetupIsClosed == Spec => SetupCloses
  <1> DEFINE Closes == hash # NoHash /\ hash' \notin {hash, NoHash} =>
                           \E q \in racers : req[q].pc = "setup" /\ hash' = req[q].who
  <1>1. TypeOK /\ RacersInv /\ [Next]_vars => Closes
    <2> SUFFICES ASSUME RacersInv, [Next]_vars, hash # NoHash, hash' \notin {hash, NoHash}
                 PROVE  \E q \in racers : req[q].pc = "setup" /\ hash' = req[q].who
      OBVIOUS
    <2>1. \E q \in Requests : SetupWrite(q)
      BY DEF Next, vars, Setup, Page, Logout, Login, SetupFails, LoginVerified, Reply, ReplyLost,
             PageAllowed, PageDenied, LogoutDelete, StartAdminSession, ResetPassword, Stop, Start,
             Tick
    <2>2. PICK q \in Requests : SetupWrite(q)
      BY <2>1
    <2> QED BY <2>2 DEF SetupWrite, RacersInv
  <1> HIDE DEF Closes
  <1>2. TypeOK /\ RacersInv /\ [Next]_vars => [Closes]_vars
    BY <1>1
  <1>3. Spec => [][Closes]_vars
    BY <1>2, TypeInit, TypeStep, RacersInit, RacersStep, PTL DEF Spec
  <1> QED BY <1>3 DEF SetupCloses, Closes
=============================================================================
