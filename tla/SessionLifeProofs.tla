-------------------------- MODULE SessionLifeProofs --------------------------
(***************************************************************************)
(* What SessionLife promises follows from it, for any tokens and owners:   *)
(* with the proof that a store implements SessionLife, logging out is      *)
(* final in that store.                                                    *)
(***************************************************************************)
EXTENDS SessionLife, TLAPS

LEMMA WithType ==
    ASSUME TypeOK, NEW S, NEW l \in {New, Ended} \union {Live(o) : o \in Owners}
    PROVE  With(S, l) \in [Tokens -> {New, Ended} \union {Live(o) : o \in Owners}]
  BY DEF TypeOK, With

\* A token is unused, live for one owner, or ended (admin.go:51-87, sqlite.go:444-532).
THEOREM TypeCorrect == Spec => []TypeOK
  <1>1. Init => TypeOK
    BY DEF Init, TypeOK
  <1>2. TypeOK /\ [Next]_vars => TypeOK'
    <2> SUFFICES ASSUME TypeOK, [Next]_vars PROVE TypeOK'
      OBVIOUS
    <2>1. ASSUME NEW t \in Tokens, NEW o \in Owners, Begin(t, o) PROVE TypeOK'
      BY <2>1, WithType DEF Begin, TypeOK
    <2>2. ASSUME NEW t \in Tokens, Discard(t) PROVE TypeOK'
      BY <2>2, WithType DEF Discard, TypeOK
    <2>3. ASSUME NEW S \in SUBSET Tokens, End(S) PROVE TypeOK'
      BY <2>3, WithType DEF End, TypeOK
    <2>4. ASSUME NEW t \in Tokens, LogOut(t) PROVE TypeOK'
      BY <2>4, WithType DEF LogOut, TypeOK
    <2>5. CASE UNCHANGED vars
      BY <2>5 DEF vars, TypeOK
    <2> QED BY <2>1, <2>2, <2>3, <2>4, <2>5 DEF Next
  <1> QED BY <1>1, <1>2, PTL DEF Spec

\* Logging out is final: a token whose holder has logged out is worth nothing for
\* ever after (admin.go:306-312, auth_handlers.go:97-105).
THEOREM LogoutIsFinal == Spec => []LogoutFinal
  <1>1. Init => LogoutFinal
    BY DEF Init, LogoutFinal
  <1>2. TypeOK /\ LogoutFinal /\ [Next]_vars => LogoutFinal'
    <2> SUFFICES ASSUME TypeOK, LogoutFinal, [Next]_vars PROVE LogoutFinal'
      OBVIOUS
    <2> USE DEF LogoutFinal, With
    <2>1. ASSUME NEW t \in Tokens, NEW o \in Owners, Begin(t, o) PROVE LogoutFinal'
      BY <2>1 DEF Begin, TypeOK, New, Ended
    <2>2. ASSUME NEW t \in Tokens, Discard(t) PROVE LogoutFinal'
      BY <2>2 DEF Discard, TypeOK
    <2>3. ASSUME NEW S \in SUBSET Tokens, End(S) PROVE LogoutFinal'
      BY <2>3 DEF End, TypeOK
    <2>4. ASSUME NEW t \in Tokens, LogOut(t) PROVE LogoutFinal'
      BY <2>4 DEF LogOut, TypeOK
    <2>5. CASE UNCHANGED vars
      BY <2>5 DEF vars
    <2> QED BY <2>1, <2>2, <2>3, <2>4, <2>5 DEF Next
  <1> QED BY <1>1, <1>2, TypeCorrect, PTL DEF Spec
=============================================================================
