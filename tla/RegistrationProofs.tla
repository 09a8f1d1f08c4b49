-------------------------- MODULE RegistrationProofs --------------------------
(***************************************************************************)
(* Proofs about Registration, for any visitors, local parts, connections,  *)
(* admins and any finite set of domains.  Its steps are steps of           *)
(* DomainGate or leave it alone, so the bounds proved there hold here; the *)
(* rest is about the inboxes table, to which rows are only added, and      *)
(* about what each request and RCPT has seen.                              *)
(***************************************************************************)
EXTENDS Registration, DomainGateProofs, FiniteSetTheorems, WellFoundedInduction

USE DomainGateAssumption, RegistrationAssumption

-----------------------------------------------------------------------------
(* The steps, sorted by what they touch.                                   *)

RegisterStep(v) ==
    \/ \E l \in Locals, d \in Domains \union {NoDomain} : Register(v, l, d)
    \/ \E l \in Locals, d \in Domains \union {NoDomain} : RegisterLimited(v, l, d)
    \/ ResolveRequested(v) \/ ResolveDefault(v)
    \/ Insert(v) \/ InsertConflict(v) \/ ReadBack(v) \/ RegisterFails(v)

RcptStep(c) ==
    \/ \E l \in Locals, d \in Domains : StartRcpt(c, l, d)
    \/ TakeVerdict(c) \/ ResolveInbox(c) \/ ResolveInboxFails(c) \/ EndRcpt(c)

GateOnly == GateStep /\ UNCHANGED accounts /\ NumberRows /\ Observe

LEMMA Steps ==
    [AccountsNext]_allVars <=>
        \/ \E v \in Visitors : RegisterStep(v)
        \/ \E c \in Conns : RcptStep(c)
        \/ GateOnly \/ StopAll \/ UNCHANGED allVars
  BY DEF AccountsNext, RegisterStep, RcptStep, GateOnly

LEMMA RegisterFrame ==
    ASSUME NEW v \in Visitors, RegisterStep(v)
    PROVE  UNCHANGED <<vars, rowId, rcpt, shaky>>
  BY DEF RegisterStep, Register, RegisterLimited, ResolveRequested, ResolveDefault, Insert,
         InsertConflict, ReadBack, RegisterFails, observers

LEMMA RcptFrame ==
    ASSUME NEW c \in Conns, RcptStep(c)
    PROVE  UNCHANGED <<rowId, inboxes, reg, offered, bare, lawful, domains, since>>
  BY DEF RcptStep, StartRcpt, TakeVerdict, ResolveInbox, ResolveInboxFails, EndRcpt, LookupHit,
         LookupMiss, Return, observers, vars

\* A step of Registration is a step of DomainGate, or one that DomainGate does not
\* notice.
LEMMA GateOfStep == [AccountsNext]_allVars => [Next]_vars
  <1> SUFFICES ASSUME [AccountsNext]_allVars PROVE [Next]_vars
    OBVIOUS
  <1>1. ASSUME NEW v \in Visitors, RegisterStep(v) PROVE [Next]_vars
    BY <1>1, RegisterFrame
  <1>2. ASSUME NEW c \in Conns, RcptStep(c) PROVE [Next]_vars
    BY <1>2 DEF RcptStep, StartRcpt, TakeVerdict, ResolveInbox, ResolveInboxFails, EndRcpt, Next
  <1>3. CASE GateOnly
    BY <1>3 DEF GateOnly, GateStep, Next
  <1>4. CASE StopAll
    BY <1>4 DEF StopAll, Next
  <1>5. CASE UNCHANGED allVars
    BY <1>5 DEF allVars
  <1> QED BY <1>1, <1>2, <1>3, <1>4, <1>5, Steps

\* The domains and the cache behave as DomainGate says, whatever registrations and
\* RCPTs run: all that is proved about them there holds here (backend.go:36-48).
THEOREM ImplementsGate == AccountsSpec => Spec
  <1>1. AccountsInit => Init
    BY DEF AccountsInit
  <1> QED BY <1>1, GateOfStep, PTL DEF AccountsSpec, Spec

LEMMA GateAlways == AccountsSpec => []IInv
  BY ImplementsGate, IInvAlways, PTL

-----------------------------------------------------------------------------
(* Types.                                                                  *)

\* The rows are numbered from 1, without a number for what is not there.
RowsInv ==
    /\ rowId \in [Domains -> 0..Cardinality(Domains)]
    /\ \A d \in Domains : rowId[d] = 0 <=> domains[d] = "absent"

AccountsInv ==
    /\ inboxes \in SUBSET Inbox
    /\ reg \in [Visitors -> Reg]
    /\ rcpt \in [Conns -> Rcpt]
    /\ offered \in [Visitors -> SUBSET Domains]
    /\ bare \in [Visitors -> BOOLEAN]
    /\ shaky \in [Conns -> BOOLEAN]
    /\ lawful \subseteq Visitors

LEMMA PresentFinite ==
    /\ IsFiniteSet(Present) /\ Cardinality(Present) \in 0..Cardinality(Domains)
    /\ \A d \in Domains \ Present : Cardinality(Present) + 1 \in 1..Cardinality(Domains)
  <1>1. IsFiniteSet(Domains) /\ Present \subseteq Domains
    BY DEF Present
  <1>2. IsFiniteSet(Present) /\ Cardinality(Present) <= Cardinality(Domains)
    BY <1>1, FS_Subset
  <1>3. Cardinality(Present) \in Nat /\ Cardinality(Domains) \in Nat
    BY <1>1, <1>2, FS_CardinalityType
  <1>4. ASSUME NEW d \in Domains \ Present PROVE Cardinality(Present) # Cardinality(Domains)
    BY <1>1, <1>4, FS_Subset
  <1> QED BY <1>2, <1>3, <1>4

LEMMA RowsInit == AccountsInit => RowsInv
  <1> SUFFICES ASSUME AccountsInit PROVE RowsInv
    OBVIOUS
  <1>1. ASSUME NEW d \in Present PROVE rowId[d] # 0
    <2>1. rowId[d] \in 1..Cardinality(Present)
      BY <1>1 DEF AccountsInit
    <2> QED BY <2>1
  <1> QED BY <1>1 DEF AccountsInit, RowsInv, Present

\* No row is ever deleted.
LEMMA RowsStay ==
    ASSUME TypeOK, [Next]_vars, NEW d \in Domains, domains[d] # "absent"
    PROVE  domains'[d] # "absent"
  BY DEF Next, vars, LookupHit, LookupMiss, Query, QueryFails, Store, Return, AddDomain,
         ToggleRead, ToggleWrite, ToggleFails, Start, Stop, Tick, WriteRow, RowFor, TypeOK,
         RowState

LEMMA RowsStep == TypeOK /\ TypeOK' /\ RowsInv /\ [AccountsNext]_allVars => RowsInv'
  <1> SUFFICES ASSUME TypeOK, TypeOK', RowsInv, [AccountsNext]_allVars PROVE RowsInv'
    OBVIOUS
  <1>1. ASSUME NEW v \in Visitors, RegisterStep(v) PROVE RowsInv'
    BY <1>1, RegisterFrame DEF RowsInv, vars
  <1>2. ASSUME NEW c \in Conns, RcptStep(c) PROVE RowsInv'
    BY <1>2, RcptFrame DEF RowsInv
  <1>3. CASE GateOnly
    <2>1. rowId' = [d \in Domains |-> IF rowId[d] = 0 /\ domains'[d] # "absent"
                                      THEN Cardinality(Present) + 1 ELSE rowId[d]]
      BY <1>3 DEF GateOnly, NumberRows
    <2>2. ASSUME NEW d \in Domains
          PROVE  /\ rowId'[d] \in 0..Cardinality(Domains)
                 /\ rowId'[d] = 0 <=> domains'[d] = "absent"
      <3>1. CASE rowId[d] = 0
        <4>1. d \in Domains \ Present
          BY <3>1 DEF RowsInv, Present
        <4>2. Cardinality(Present) + 1 \in 1..Cardinality(Domains)
          BY <4>1, PresentFinite
        <4>3. CASE domains'[d] = "absent"
          BY <2>1, <3>1, <4>3 DEF RowsInv
        <4>4. CASE domains'[d] # "absent"
          <5>1. rowId'[d] = Cardinality(Present) + 1
            BY <2>1, <3>1, <4>4
          <5> QED BY <4>2, <4>4, <5>1
        <4> QED BY <4>3, <4>4
      <3>2. CASE rowId[d] # 0
        <4>1. domains[d] # "absent"
          BY <3>2 DEF RowsInv
        <4>2. domains'[d] # "absent"
          BY <4>1, RowsStay, GateOfStep
        <4> QED BY <2>1, <3>2, <4>2 DEF RowsInv
      <3> QED BY <3>1, <3>2
    <2> QED BY <2>1, <2>2 DEF RowsInv
  <1>4. CASE StopAll
    BY <1>4 DEF StopAll, Stop, RowsInv
  <1>5. CASE UNCHANGED allVars
    BY <1>5 DEF allVars, vars, RowsInv
  <1> QED BY <1>1, <1>2, <1>3, <1>4, <1>5, Steps

\* The oldest domain of a set is in it.
LEMMA OldestIn ==
    ASSUME RowsInv, NEW D \in SUBSET Domains, D # {}
    PROVE  Oldest(D) \in D
  <1> DEFINE R == OpToRel(<, Nat)
             T == {rowId[d] : d \in D}
  <1>1. IsWellFoundedOn(R, Nat)
    BY NatLessThanWellFounded
  <1>2. T \subseteq Nat /\ T # {}
    <2>1. Cardinality(Domains) \in Nat
      BY FS_CardinalityType
    <2> QED BY <2>1 DEF RowsInv
  <1>3. PICK n \in T : \A k \in T : ~(<<k, n>> \in R)
    <2> HIDE DEF R, T
    <2> QED BY <1>1, <1>2, WFMin
  <1>4. PICK d \in D : rowId[d] = n
    OBVIOUS
  <1>5. ASSUME NEW e \in D PROVE rowId[d] <= rowId[e]
    <2>1. rowId[e] \in T /\ rowId[e] \in Nat /\ n \in Nat
      BY <1>2
    <2>2. ASSUME rowId[e] < n PROVE FALSE
      <3>1. <<rowId[e], n>> \in R
        BY <2>1, <2>2 DEF OpToRel
      <3> QED BY <1>3, <2>1, <3>1
    <2> QED BY <1>4, <2>1, <2>2
  <1> QED BY <1>5 DEF Oldest

LEMMA DefaultType == RowsInv => DefaultDomain \in Domains \union {NoDomain}
  <1> SUFFICES ASSUME RowsInv PROVE DefaultDomain \in Domains \union {NoDomain}
    OBVIOUS
  <1>1. Enabled \in SUBSET Domains
    BY DEF Enabled
  <1> QED BY <1>1, OldestIn DEF DefaultDomain

Asked == {"asked", "fallback", "inserting", "reading"}

\* What a request is made of while it runs.
LEMMA RunningReg ==
    ASSUME NEW r \in Reg
    PROVE  /\ r.pc \in {"new", "done"} \union Asked
           /\ r.pc # "new" => r.local \in Locals /\ r.domain \in Domains \union {NoDomain}
           /\ r.pc \in {"inserting", "reading"} => r.domain \in Domains
           /\ r.pc = "new" <=> r = NoReg
  BY DEF Reg, NoReg, Asked

LEMMA RegForms ==
    ASSUME NEW l \in Locals, NEW d \in Domains \union {NoDomain}
    PROVE  /\ [pc |-> "asked", local |-> l, domain |-> d] \in Reg
           /\ [pc |-> "fallback", local |-> l, domain |-> d] \in Reg
           /\ d \in Domains => [pc |-> "inserting", local |-> l, domain |-> d] \in Reg
           /\ d \in Domains => [pc |-> "reading", local |-> l, domain |-> d] \in Reg
           /\ \A o \in Outcomes : [pc |-> "done", outcome |-> o, local |-> l, domain |-> d] \in Reg
  BY DEF Reg

\* The three kinds of steps of a request: one that leaves it without an account,
\* the INSERT, and the end of the read-back.
Proceeds(v, r) ==
    /\ reg[v].pc \notin {"reading", "done"}
    /\ r.pc \in {"asked", "fallback", "inserting"} \/ (r.pc = "done" /\ r.outcome # "created")
    /\ inboxes' = inboxes

Inserts(v, r) ==
    /\ reg[v].pc = "inserting"
    /\ ~Taken(Address(reg[v].local, reg[v].domain))
    /\ r = [pc |-> "reading", local |-> reg[v].local, domain |-> reg[v].domain]
    /\ inboxes' = inboxes \union {[local |-> reg[v].local, domain |-> reg[v].domain,
                                   password |-> v]}

Ends(v, r) ==
    /\ reg[v].pc = "reading"
    /\ r.pc = "done" /\ r.outcome \in {"created", "error"}
    /\ r.local = reg[v].local /\ r.domain = reg[v].domain
    /\ inboxes' = inboxes

\* The domain under which a request goes on is one it found enabled, or the seed.
Backed(v, r) ==
    r.pc = "inserting" =>
        r.domain \in Enabled \/ (r.domain = Seed /\ Enabled = {})

LEMMA RegisterEffect ==
    ASSUME RowsInv, reg \in [Visitors -> Reg], NEW v \in Visitors, RegisterStep(v)
    PROVE  \E r \in Reg :
               /\ reg' = [reg EXCEPT ![v] = r]
               /\ Proceeds(v, r) \/ Inserts(v, r) \/ Ends(v, r)
               /\ r.pc \in Asked => reg[v].pc \in Asked \/ reg[v] = NoReg
               /\ Backed(v, r)
               /\ \/ reg[v] = NoReg /\ r.pc = "done" /\ UNCHANGED <<offered, bare>>
                  \/ /\ reg[v] = NoReg
                     /\ offered' = [offered EXCEPT ![v] = Enabled]
                     /\ bare' = [bare EXCEPT ![v] = (Enabled = {})]
                  \/ reg[v].pc \in Asked /\ UNCHANGED <<offered, bare>>
  <1> DEFINE Effect(r) ==
               /\ reg' = [reg EXCEPT ![v] = r]
               /\ Proceeds(v, r) \/ Inserts(v, r) \/ Ends(v, r)
               /\ r.pc \in Asked => reg[v].pc \in Asked \/ reg[v] = NoReg
               /\ Backed(v, r)
               /\ \/ reg[v] = NoReg /\ r.pc = "done" /\ UNCHANGED <<offered, bare>>
                  \/ /\ reg[v] = NoReg
                     /\ offered' = [offered EXCEPT ![v] = Enabled]
                     /\ bare' = [bare EXCEPT ![v] = (Enabled = {})]
                  \/ reg[v].pc \in Asked /\ UNCHANGED <<offered, bare>>
  <1> SUFFICES \E r \in Reg : Effect(r)
    OBVIOUS
  <1>0. /\ reg[v] \in Reg
        /\ reg[v].pc # "new" =>
               reg[v].local \in Locals /\ reg[v].domain \in Domains \union {NoDomain}
        /\ reg[v].pc \in {"inserting", "reading"} => reg[v].domain \in Domains
    BY RunningReg
  <1>1. ASSUME NEW l \in Locals, NEW d \in Domains \union {NoDomain}, Register(v, l, d)
        PROVE  \E r \in Reg : Effect(r)
    <2> DEFINE r == [pc |-> "asked", local |-> l, domain |-> d]
    <2>1. r \in Reg
      BY RegForms
    <2>2. Effect(r)
      BY <1>1 DEF Register, Proceeds, Backed, NoReg
    <2> QED BY <2>1, <2>2
  <1>2. ASSUME NEW l \in Locals, NEW d \in Domains \union {NoDomain}, RegisterLimited(v, l, d)
        PROVE  \E r \in Reg : Effect(r)
    <2> DEFINE r == [pc |-> "done", outcome |-> "limited", local |-> l, domain |-> d]
    <2>1. r \in Reg
      BY RegForms DEF Outcomes
    <2>2. Effect(r)
      BY <1>2 DEF RegisterLimited, Finish, Proceeds, Backed, NoReg, observers, Asked
    <2> QED BY <2>1, <2>2
  <1>3. CASE ResolveRequested(v)
    <2> DEFINE ok == reg[v].domain # NoDomain /\ IsDomainEnabled(reg[v].domain)
               r == [pc |-> IF ok THEN "inserting" ELSE "fallback",
                     local |-> reg[v].local, domain |-> reg[v].domain]
    <2>1. reg[v].pc = "asked"
      BY <1>3 DEF ResolveRequested
    <2>3. reg' = [reg EXCEPT ![v] = r]
      BY <1>3 DEF ResolveRequested, Proceed
    <2>4. ok => reg[v].domain \in Enabled
      BY <1>0, <2>1 DEF Enabled
    <2>5. r \in Reg
      BY <1>0, <2>1, RegForms
    <2>6. Effect(r)
      BY <1>3, <2>1, <2>3, <2>4 DEF ResolveRequested, Proceeds, Backed, observers, Asked
    <2> QED BY <2>5, <2>6
  <1>4. CASE ResolveDefault(v)
    <2>1. reg[v].pc = "fallback"
      BY <1>4 DEF ResolveDefault
    <2>3. CASE DefaultDomain = NoDomain
      <3> DEFINE r == [pc |-> "done", outcome |-> "unavailable", local |-> reg[v].local,
                       domain |-> NoDomain]
      <3>1. r \in Reg
        BY <1>0, <2>1, RegForms DEF Outcomes
      <3>2. Effect(r)
        BY <1>4, <2>1, <2>3 DEF ResolveDefault, Finish, Proceeds, Backed, observers, Asked
      <3> QED BY <3>1, <3>2
    <2>4. CASE DefaultDomain # NoDomain
      <3> DEFINE D == DefaultDomain
                 r == [pc |-> "inserting", local |-> reg[v].local, domain |-> D]
      <3>1. DefaultDomain \in Domains
        BY <2>4, DefaultType
      <3>2. DefaultDomain \in Enabled \/ (DefaultDomain = Seed /\ Enabled = {})
        <4>1. Enabled \in SUBSET Domains
          BY DEF Enabled
        <4> QED BY <4>1, OldestIn DEF DefaultDomain
      <3> HIDE DEF D
      <3>4. r \in Reg
        BY <1>0, <2>1, <3>1, RegForms DEF D
      <3>5. reg' = [reg EXCEPT ![v] = r]
        BY <1>4, <2>4 DEF ResolveDefault, Proceed, D
      <3>6. Backed(v, r)
        BY <3>2 DEF Backed, D
      <3>7. Effect(r)
        BY <1>4, <2>1, <3>5, <3>6 DEF ResolveDefault, Proceeds, observers, Asked
      <3> QED BY <3>4, <3>7
    <2> QED BY <2>3, <2>4
  <1>5. CASE Insert(v)
    <2> DEFINE r == [pc |-> "reading", local |-> reg[v].local, domain |-> reg[v].domain]
    <2>1. reg[v].pc = "inserting"
      BY <1>5 DEF Insert
    <2>3. reg' = [reg EXCEPT ![v] = r]
      BY <1>5 DEF Insert, Proceed
    <2>4. r \in Reg
      BY <1>0, <2>1, RegForms
    <2>5. Effect(r)
      BY <1>5, <2>1, <2>3 DEF Insert, Inserts, Backed, observers, Asked
    <2> QED BY <2>4, <2>5
  <1>6. CASE InsertConflict(v)
    <2> DEFINE r == [pc |-> "done", outcome |-> "taken", local |-> reg[v].local,
                     domain |-> reg[v].domain]
    <2>1. r \in Reg
      BY <1>0, <1>6, RegForms DEF InsertConflict, Outcomes
    <2>2. Effect(r)
      BY <1>6 DEF InsertConflict, Finish, Proceeds, Backed, observers, Asked
    <2> QED BY <2>1, <2>2
  <1>7. CASE ReadBack(v)
    <2> DEFINE r == [pc |-> "done", outcome |-> "created", local |-> reg[v].local,
                     domain |-> reg[v].domain]
    <2>1. r \in Reg
      BY <1>0, <1>7, RegForms DEF ReadBack, Outcomes
    <2>2. Effect(r)
      BY <1>7 DEF ReadBack, Finish, Ends, Backed, observers, Asked
    <2> QED BY <2>1, <2>2
  <1>8. CASE RegisterFails(v)
    <2> DEFINE r == [pc |-> "done", outcome |-> "error", local |-> reg[v].local,
                     domain |-> reg[v].domain]
    <2>1. r \in Reg
      BY <1>0, <1>8, RegForms DEF RegisterFails, Outcomes
    <2>2. Effect(r)
      BY <1>8 DEF RegisterFails, Finish, Proceeds, Ends, Backed, observers, Asked
    <2> QED BY <2>1, <2>2
  <1> HIDE DEF Effect
  <1> QED BY <1>1, <1>2, <1>3, <1>4, <1>5, <1>6, <1>7, <1>8 DEF RegisterStep

\* What a RCPT is made of.
LEMMA RcptForms ==
    ASSUME NEW l \in Locals, NEW d \in Domains, NEW b \in Befores
    PROVE  /\ [pc |-> "gate", local |-> l, domain |-> d, before |-> b] \in Rcpt
           /\ [pc |-> "resolve", local |-> l, domain |-> d, before |-> b] \in Rcpt
           /\ \A a \in Answers :
                  [pc |-> "answered", local |-> l, domain |-> d, before |-> b, answer |-> a] \in Rcpt
  BY DEF Rcpt

\* The RCPT of c does not touch the accounts, nor another RCPT.
LEMMA RcptEffect ==
    ASSUME rcpt \in [Conns -> Rcpt], shaky \in [Conns -> BOOLEAN], NEW c \in Conns, RcptStep(c)
    PROVE  /\ \E r \in Rcpt : rcpt' = [rcpt EXCEPT ![c] = r]
           /\ shaky' \in [Conns -> BOOLEAN]
           /\ \A e \in Conns \ {c} : shaky'[e] = shaky[e]
  <1>0. /\ rcpt[c] \in Rcpt
        /\ rcpt[c].pc # "idle" =>
               rcpt[c].local \in Locals /\ rcpt[c].domain \in Domains /\ rcpt[c].before \in Befores
    BY DEF Rcpt, NoRcpt
  <1>1. ASSUME NEW a \in Answers, rcpt[c].pc # "idle", AnswerRcpt(c, a)
        PROVE  \E r \in Rcpt : rcpt' = [rcpt EXCEPT ![c] = r]
    BY <1>0, <1>1, RcptForms DEF AnswerRcpt
  <1>2. ASSUME NEW l \in Locals, NEW d \in Domains, StartRcpt(c, l, d)
        PROVE  /\ \E r \in Rcpt : rcpt' = [rcpt EXCEPT ![c] = r]
               /\ shaky' \in [Conns -> BOOLEAN]
               /\ \A e \in Conns \ {c} : shaky'[e] = shaky[e]
    <2>1. Before(l, d) \in Befores
      BY DEF Before, Befores
    <2> DEFINE b == d \in Unsettled
    <2>2. b \in BOOLEAN
      OBVIOUS
    <2>3. shaky' = [shaky EXCEPT ![c] = b]
      BY <1>2, Zenon DEF StartRcpt
    <2> HIDE DEF b
    <2> QED BY <1>2, <2>1, <2>2, <2>3, RcptForms DEF StartRcpt
  <1>3. CASE TakeVerdict(c)
    <2>1. rcpt[c].pc = "gate" /\ UNCHANGED shaky
      BY <1>3 DEF TakeVerdict, observers
    <2>2. CASE lookup[c].verdict = "allowed" /\
               rcpt' = [rcpt EXCEPT ![c] = [pc |-> "resolve", local |-> @.local,
                                            domain |-> @.domain, before |-> @.before]]
      BY <1>0, <2>1, <2>2, RcptForms
    <2>3. CASE AnswerRcpt(c, "relay") \/ AnswerRcpt(c, "tempfail")
      BY <1>1, <2>1, <2>3 DEF Answers
    <2> QED BY <1>3, <2>1, <2>2, <2>3 DEF TakeVerdict
  <1>4. CASE ResolveInbox(c) \/ ResolveInboxFails(c)
    <2>1. rcpt[c].pc = "resolve" /\ UNCHANGED shaky
      BY <1>4 DEF ResolveInbox, ResolveInboxFails, observers
    <2>2. AnswerRcpt(c, "ok") \/ AnswerRcpt(c, "unknown") \/ AnswerRcpt(c, "tempfail")
      BY <1>4 DEF ResolveInbox, ResolveInboxFails
    <2> QED BY <1>1, <2>1, <2>2 DEF Answers
  <1>5. CASE EndRcpt(c)
    BY <1>5 DEF EndRcpt, observers, Rcpt
  <1> QED BY <1>2, <1>3, <1>4, <1>5 DEF RcptStep

\* Rows are only added, by the step of the request they belong to.
LEMMA RegisterAdds ==
    ASSUME AccountsInv, RowsInv, NEW v \in Visitors, RegisterStep(v)
    PROVE  inboxes' \in SUBSET Inbox /\ inboxes \subseteq inboxes'
  <1>1. PICK r \in Reg : Proceeds(v, r) \/ Inserts(v, r) \/ Ends(v, r)
    BY RegisterEffect DEF AccountsInv
  <1>2. CASE Inserts(v, r)
    <2>1. reg[v].local \in Locals /\ reg[v].domain \in Domains
      BY <1>2, RunningReg DEF Inserts, AccountsInv
    <2>2. [local |-> reg[v].local, domain |-> reg[v].domain, password |-> v] \in Inbox
      BY <2>1 DEF Inbox
    <2> QED BY <1>2, <2>2 DEF Inserts, AccountsInv
  <1> QED BY <1>1, <1>2 DEF Proceeds, Ends, AccountsInv

LEMMA AccountsStep == RowsInv /\ AccountsInv /\ [AccountsNext]_allVars => AccountsInv'
  <1> SUFFICES ASSUME RowsInv, AccountsInv, [AccountsNext]_allVars PROVE AccountsInv'
    OBVIOUS
  <1>1. ASSUME NEW v \in Visitors, RegisterStep(v) PROVE AccountsInv'
    <2>1. inboxes' \in SUBSET Inbox
      BY <1>1, RegisterAdds
    <2>2. UNCHANGED <<rcpt, shaky>>
      BY <1>1, RegisterFrame
    <2>3. reg' \in [Visitors -> Reg]
      BY <1>1, RegisterEffect DEF AccountsInv
    <2>4. offered' \in [Visitors -> SUBSET Domains] /\ bare' \in [Visitors -> BOOLEAN]
      <3>1. Enabled \in SUBSET Domains /\ (Enabled = {}) \in BOOLEAN
        BY DEF Enabled
      <3>2. \/ UNCHANGED <<offered, bare>>
            \/ /\ offered' = [offered EXCEPT ![v] = Enabled]
               /\ bare' = [bare EXCEPT ![v] = (Enabled = {})]
        BY <1>1, RegisterEffect DEF AccountsInv
      <3> QED BY <3>1, <3>2 DEF AccountsInv
    <2>5. lawful' \subseteq Visitors
      <3>1. lawful' \subseteq lawful \union {v}
        BY <1>1, Zenon DEF RegisterStep, Register, RegisterLimited, ResolveRequested, ResolveDefault,
                    Insert, InsertConflict, ReadBack, RegisterFails, observers
      <3> QED BY <3>1 DEF AccountsInv
    <2> QED BY <2>1, <2>2, <2>3, <2>4, <2>5 DEF AccountsInv
  <1>2. ASSUME NEW c \in Conns, RcptStep(c) PROVE AccountsInv'
    BY <1>2, RcptFrame, RcptEffect DEF AccountsInv
  <1>3. CASE GateOnly
    <2>1. UNCHANGED <<inboxes, reg, rcpt>>
      BY <1>3 DEF GateOnly, accounts
    <2>2. offered' \in [Visitors -> SUBSET Domains]
      <3>1. Enabled' \in SUBSET Domains
        BY DEF Enabled
      <3> QED BY <1>3, <3>1 DEF GateOnly, Observe, AccountsInv
    <2>3. bare' \in [Visitors -> BOOLEAN] /\ shaky' \in [Conns -> BOOLEAN]
      BY <1>3, Zenon DEF GateOnly, Observe
    <2>4. UNCHANGED lawful
      BY <1>3 DEF GateOnly, Observe
    <2> QED BY <2>1, <2>2, <2>3, <2>4 DEF AccountsInv
  <1>4. CASE StopAll
    <2>1. \A r \in Reg : Cut(r) \in Reg
      <3> SUFFICES ASSUME NEW r \in Reg PROVE Cut(r) \in Reg
        OBVIOUS
      <3>1. CASE r.pc \in {"new", "done"}
        BY <3>1 DEF Cut
      <3>2. CASE r.pc \notin {"new", "done"}
        BY <3>2, RunningReg, RegForms DEF Cut, Outcomes
      <3> QED BY <3>1, <3>2
    <2> QED BY <1>4, <2>1 DEF StopAll, observers, AccountsInv, Rcpt
  <1>5. CASE UNCHANGED allVars
    BY <1>5 DEF allVars, accounts, observers, AccountsInv
  <1> QED BY <1>1, <1>2, <1>3, <1>4, <1>5, Steps

LEMMA AccountsInitially == AccountsInit => AccountsInv
  BY DEF AccountsInit, AccountsInv, Reg, Rcpt

LEMMA TypesAlways == AccountsSpec => [](IInv /\ RowsInv /\ AccountsInv)
  <1>1. AccountsInit => RowsInv /\ AccountsInv
    BY RowsInit, AccountsInitially
  <1>2. IInv /\ IInv' /\ RowsInv /\ AccountsInv /\ [AccountsNext]_allVars
            => RowsInv' /\ AccountsInv'
    BY RowsStep, AccountsStep DEF IInv
  <1> QED BY <1>1, <1>2, GateAlways, PTL DEF AccountsSpec

\* Every table row, request and RCPT is what the code can make of it
\* (sqlite.go:101-130, auth_handlers.go:115-174, session.go:31-61).
THEOREM AccountsTypeCorrect == AccountsSpec => []AccountsTypeOK
  <1>1. IInv /\ RowsInv /\ AccountsInv => AccountsTypeOK
    BY DEF IInv, RowsInv, AccountsInv, AccountsTypeOK
  <1> QED BY <1>1, TypesAlways, PTL

-----------------------------------------------------------------------------
(* Who owns what.  An address has one row; the request that inserted it is *)
(* at its read-back or has ended with success or an error; a request that  *)
(* is at its read-back, or has shown a password, has its row.              *)

RowOf(v) == [local |-> reg[v].local, domain |-> reg[v].domain, password |-> v]

HasRow(v) ==
    reg[v].pc = "reading" \/ (reg[v].pc = "done" /\ reg[v].outcome = "created")

MayHaveRow(v) ==
    reg[v].pc = "reading" \/ (reg[v].pc = "done" /\ reg[v].outcome \in {"created", "error"})

OwnInv ==
    /\ \A i, j \in inboxes : AddressOf(i) = AddressOf(j) => i = j
    /\ \A v \in Visitors : HasRow(v) => RowOf(v) \in inboxes
    /\ \A i \in inboxes : MayHaveRow(i.password) /\ i = RowOf(i.password)

LEMMA OwnStep == RowsInv /\ AccountsInv /\ OwnInv /\ [AccountsNext]_allVars => OwnInv'
  <1> SUFFICES ASSUME RowsInv, AccountsInv, OwnInv, [AccountsNext]_allVars PROVE OwnInv'
    OBVIOUS
  <1>0. \A i \in inboxes : i.password \in Visitors
    BY DEF AccountsInv, Inbox
  <1>1. ASSUME NEW v \in Visitors, RegisterStep(v) PROVE OwnInv'
    <2>1. PICK r \in Reg : /\ reg' = [reg EXCEPT ![v] = r]
                           /\ Proceeds(v, r) \/ Inserts(v, r) \/ Ends(v, r)
      BY <1>1, RegisterEffect DEF AccountsInv
    <2>2. reg'[v] = r /\ \A w \in Visitors \ {v} : reg'[w] = reg[w]
      BY <2>1 DEF AccountsInv
    <2>3. CASE Proceeds(v, r)
      <3>1. ~HasRow(v)' /\ ~MayHaveRow(v)
        BY <2>2, <2>3 DEF Proceeds, HasRow, MayHaveRow
      <3>2. \A i \in inboxes : i.password \in Visitors \ {v}
        BY <1>0, <3>1 DEF OwnInv
      <3> QED BY <2>2, <2>3, <3>1, <3>2
              DEF OwnInv, Proceeds, HasRow, MayHaveRow, RowOf, AddressOf, Address
    <2>4. CASE Inserts(v, r)
      <3> DEFINE row == [local |-> reg[v].local, domain |-> reg[v].domain, password |-> v]
      <3>1. inboxes' = inboxes \union {row} /\ \A i \in inboxes : AddressOf(i) # AddressOf(row)
        BY <2>4 DEF Inserts, Taken, AddressOf
      <3>2. ~MayHaveRow(v) /\ HasRow(v)' /\ MayHaveRow(v)' /\ RowOf(v)' = row
        BY <2>2, <2>4 DEF Inserts, HasRow, MayHaveRow, RowOf
      <3>3. \A i \in inboxes : i.password \in Visitors \ {v}
        BY <1>0, <3>2 DEF OwnInv
      <3>4. row.password = v
        OBVIOUS
      <3> HIDE DEF row
      <3>5. \A i, j \in inboxes' : AddressOf(i) = AddressOf(j) => i = j
        BY <3>1 DEF OwnInv
      <3>6. \A w \in Visitors : HasRow(w)' => RowOf(w)' \in inboxes'
        BY <2>2, <3>1, <3>2 DEF OwnInv, HasRow, RowOf
      <3>7. \A i \in inboxes' : MayHaveRow(i.password)' /\ i = RowOf(i.password)'
        BY <2>2, <3>1, <3>2, <3>3, <3>4 DEF OwnInv, MayHaveRow, RowOf
      <3> QED BY <3>5, <3>6, <3>7 DEF OwnInv, AddressOf, Address
    <2>5. CASE Ends(v, r)
      <3>1. MayHaveRow(v)' /\ RowOf(v)' = RowOf(v) /\ HasRow(v)
        BY <2>2, <2>5 DEF Ends, HasRow, MayHaveRow, RowOf
      <3> QED BY <1>0, <2>2, <2>5, <3>1
              DEF OwnInv, Ends, HasRow, MayHaveRow, RowOf, AddressOf, Address
    <2> QED BY <2>1, <2>3, <2>4, <2>5
  <1>2. ASSUME UNCHANGED <<inboxes, reg>> PROVE OwnInv'
    BY <1>2 DEF OwnInv, HasRow, MayHaveRow, RowOf, AddressOf, Address
  <1>3. CASE StopAll
    <2>1. UNCHANGED inboxes /\ reg' = [v \in Visitors |-> Cut(reg[v])]
      BY <1>3 DEF StopAll
    <2>2. ASSUME NEW v \in Visitors, HasRow(v)' PROVE HasRow(v) /\ RowOf(v)' = RowOf(v)
      BY <2>1, <2>2 DEF Cut, HasRow, RowOf
    <2>3. ASSUME NEW v \in Visitors, MayHaveRow(v)
          PROVE  MayHaveRow(v)' /\ RowOf(v)' = RowOf(v)
      BY <2>1, <2>3 DEF Cut, MayHaveRow, RowOf
    <2> QED BY <1>0, <2>1, <2>2, <2>3 DEF OwnInv, AddressOf, Address
  <1>4. ASSUME NEW c \in Conns, RcptStep(c) PROVE UNCHANGED <<inboxes, reg>>
    BY <1>4, RcptFrame
  <1>5. CASE GateOnly
    BY <1>2, <1>5 DEF GateOnly, accounts
  <1>6. CASE UNCHANGED allVars
    BY <1>2, <1>6 DEF allVars, accounts
  <1> QED BY <1>1, <1>2, <1>3, <1>4, <1>5, <1>6, Steps

LEMMA OwnAlways == AccountsSpec => []OwnInv
  <1>1. AccountsInit => OwnInv
    BY DEF AccountsInit, OwnInv, HasRow, NoReg
  <1>2. /\ IInv /\ RowsInv /\ AccountsInv /\ OwnInv /\ [AccountsNext]_allVars
        => OwnInv'
    BY OwnStep
  <1> QED BY <1>1, <1>2, TypesAlways, PTL DEF AccountsSpec

\* A password that was shown works for ever: the address has one row, the one the
\* visitor's own request inserted (auth_handlers.go:115-174, sqlite.go:101-130).
THEOREM ShownAccountsNeverLost == AccountsSpec => []ShownAccountsStand
  <1>1. OwnInv => ShownAccountsStand
    <2> SUFFICES ASSUME OwnInv, NEW v \in Visitors, reg[v].pc = "done",
                        reg[v].outcome = "created"
                 PROVE  {i \in inboxes : AddressOf(i) = Address(reg[v].local, reg[v].domain)}
                            = {RowOf(v)}
      BY DEF ShownAccountsStand, RowOf
    <2>1. RowOf(v) \in inboxes
      BY DEF OwnInv, HasRow
    <2>2. AddressOf(RowOf(v)) = Address(reg[v].local, reg[v].domain)
      BY DEF AddressOf, RowOf
    <2> QED BY <2>1, <2>2 DEF OwnInv
  <1> QED BY <1>1, OwnAlways, PTL

\* Only a request that is at its read-back, succeeded or ended in an error has
\* left an account, and at most one (sqlite.go:101-130).
THEOREM OnlyErrorsLeaveAccounts == AccountsSpec => []UnshownAccountsErred
  <1>1. OwnInv => UnshownAccountsErred
    <2> SUFFICES ASSUME OwnInv, NEW v \in Visitors, NEW i \in inboxes, i.password = v
                 PROVE  /\ {j \in inboxes : j.password = v} = {i}
                        /\ AddressOf(i) = Address(reg[v].local, reg[v].domain)
                        /\ MayHaveRow(v)
      BY DEF UnshownAccountsErred, MayHaveRow
    <2>1. \A j \in inboxes : j.password = v => j = RowOf(v) /\ MayHaveRow(v)
      BY DEF OwnInv
    <2> QED BY <2>1 DEF AddressOf, RowOf
  <1> QED BY <1>1, OwnAlways, PTL

-----------------------------------------------------------------------------
(* The requests keep the promises of AccountBook: the INSERT claims an     *)
(* address, an answer tells, a stop fails all requests that run.           *)

books == {BookEntry(i) : i \in inboxes}
words == [v \in Visitors |-> Told(v)]

LEMMA HoldsRow ==
    ASSUME OwnInv, AccountsInv, NEW v \in Visitors
    PROVE  /\ HasRow(v) => Book!Holds(v)
           /\ Book!Holds(v) => MayHaveRow(v)
  <1>1. ASSUME HasRow(v) PROVE Book!Holds(v)
    <2>1. RowOf(v) \in inboxes /\ BookEntry(RowOf(v)).owner = v
      BY <1>1 DEF OwnInv, RowOf, BookEntry
    <2> QED BY <2>1 DEF Book!Holds
  <1>2. ASSUME Book!Holds(v) PROVE MayHaveRow(v)
    <2>1. PICK i \in inboxes : BookEntry(i).owner = v
      BY <1>2 DEF Book!Holds
    <2>2. i.password = v
      BY <2>1 DEF BookEntry
    <2> QED BY <2>1, <2>2 DEF OwnInv
  <1> QED BY <1>1, <1>2

LEMMA FreeAddress ==
    ASSUME NEW a, ~Taken(a) PROVE Book!IsFree(a)
  BY DEF Taken, Book!IsFree, BookEntry

\* Any set of running requests that is told the same.
LEMMA Telling ==
    ASSUME NEW S \in SUBSET Visitors, NEW w,
           \A v \in S : Told(v) = "nothing" /\ Told(v)' = w,
           \A v \in Visitors \ S : Told(v)' = Told(v),
           UNCHANGED inboxes
    PROVE  Book!Tell(S, w)
  <1>1. \A v \in S : words[v] = "nothing"
    BY DEF words
  <1>2. words' = [v \in Visitors |-> IF v \in S THEN w ELSE words[v]]
    BY DEF words
  <1>3. books' = books
    BY DEF books, BookEntry, AddressOf, Address
  <1> QED BY <1>1, <1>2, <1>3 DEF Book!Tell, words, books

LEMMA BookStep ==
    RowsInv /\ AccountsInv /\ OwnInv /\ [AccountsNext]_allVars
        => [Book!Next]_Book!bookVars
  <1> SUFFICES ASSUME RowsInv, AccountsInv, OwnInv, [AccountsNext]_allVars
               PROVE  [Book!Next]_Book!bookVars
    OBVIOUS
  <1>1. ASSUME NEW v \in Visitors, RegisterStep(v) PROVE [Book!Next]_Book!bookVars
    <2>1. PICK r \in Reg : /\ reg' = [reg EXCEPT ![v] = r]
                           /\ Proceeds(v, r) \/ Inserts(v, r) \/ Ends(v, r)
      BY <1>1, RegisterEffect DEF AccountsInv
    <2>2. reg'[v] = r /\ \A w \in Visitors \ {v} : reg'[w] = reg[w]
      BY <2>1 DEF AccountsInv
    <2>3. \A w \in Visitors \ {v} : Told(w)' = Told(w)
      BY <2>2 DEF Told
    <2>4. reg[v].pc # "done" => Told(v) = "nothing"
      BY DEF Told
    <2>5. r.pc # "done" => Told(v)' = "nothing"
      BY <2>2 DEF Told
    <2>6. CASE Inserts(v, r)
      <3> DEFINE row == [local |-> reg[v].local, domain |-> reg[v].domain, password |-> v]
                 a == Address(reg[v].local, reg[v].domain)
      <3>1. reg[v].local \in Locals /\ reg[v].domain \in Domains
        BY <2>6, RunningReg DEF Inserts, AccountsInv
      <3>2. a \in [local : Locals, domain : Domains]
        BY <3>1 DEF Address
      <3>3. BookEntry(row) = [address |-> a, owner |-> v]
        BY DEF BookEntry, AddressOf
      <3>4. books' = books \union {[address |-> a, owner |-> v]}
        <4>1. inboxes' = inboxes \union {row}
          BY <2>6 DEF Inserts
        <4> HIDE DEF row
        <4> QED BY <3>3, <4>1 DEF books, BookEntry, AddressOf, Address
      <3>5. words' = words /\ words[v] = "nothing"
        BY <2>3, <2>4, <2>5, <2>6 DEF words, Inserts
      <3>6. ~Book!Holds(v)
        BY <2>6, HoldsRow DEF Inserts, MayHaveRow
      <3>7. Book!IsFree(a)
        BY <2>6, FreeAddress DEF Inserts
      <3>8. Book!Claim(v, a)
        BY <3>4, <3>5, <3>6, <3>7 DEF Book!Claim, books, words
      <3> QED BY <3>2, <3>8 DEF Book!Next
    <2>7. CASE r.pc # "done" /\ ~Inserts(v, r)
      <3>1. UNCHANGED inboxes /\ reg[v].pc # "done"
        BY <2>1, <2>7 DEF Proceeds, Ends
      <3>2. words' = words
        BY <2>3, <2>4, <2>5, <2>7, <3>1 DEF words
      <3>3. books' = books
        BY <3>1 DEF books, BookEntry, AddressOf, Address
      <3> QED BY <3>2, <3>3 DEF Book!bookVars, books, words
    <2>8. CASE r.pc = "done"
      <3>1. UNCHANGED inboxes /\ reg[v].pc # "done"
        BY <2>1, <2>8 DEF Proceeds, Inserts, Ends
      <3>2. ASSUME NEW w, Told(v)' = w PROVE Book!Tell({v}, w)
        BY <2>3, <2>4, <3>1, <3>2, Telling
      <3>3. CASE r.outcome = "created"
        <4>1. Told(v)' = "shown"
          BY <2>2, <2>8, <3>3 DEF Told
        <4>2. Book!Holds(v)
          BY <2>1, <2>8, <3>3, HoldsRow DEF Proceeds, Inserts, Ends, HasRow
        <4> QED BY <3>2, <4>1, <4>2 DEF Book!Next, Book!Show
      <3>4. CASE r.outcome = "error"
        <4>1. Told(v)' = "error"
          BY <2>2, <2>8, <3>4 DEF Told
        <4> QED BY <3>2, <4>1 DEF Book!Next, Book!Fail
      <3>5. CASE r.outcome \notin {"created", "error"}
        <4>1. Told(v)' = "refused"
          BY <2>2, <2>8, <3>5 DEF Told
        <4>2. ~Book!Holds(v)
          BY <2>1, <2>8, <3>1, <3>5, HoldsRow DEF Proceeds, Inserts, Ends, MayHaveRow
        <4> QED BY <3>2, <4>1, <4>2 DEF Book!Next, Book!Refuse
      <3> QED BY <3>3, <3>4, <3>5
    <2> QED BY <2>6, <2>7, <2>8
  <1>2. ASSUME UNCHANGED <<inboxes, reg>> PROVE [Book!Next]_Book!bookVars
    <2>1. books' = books /\ words' = words
      BY <1>2 DEF books, words, BookEntry, AddressOf, Address, Told
    <2> QED BY <2>1 DEF Book!bookVars, books, words
  <1>3. CASE StopAll
    <2> DEFINE S == {v \in Visitors : reg[v].pc \notin {"new", "done"}}
    <2>1. UNCHANGED inboxes /\ reg' = [v \in Visitors |-> Cut(reg[v])]
      BY <1>3 DEF StopAll
    <2>2. \A v \in S : Told(v) = "nothing" /\ Told(v)' = "error"
      BY <2>1 DEF Told, Cut
    <2>3. \A v \in Visitors \ S : Told(v)' = Told(v)
      BY <2>1 DEF Told, Cut
    <2>4. Book!Tell(S, "error")
      <3> HIDE DEF S
      <3>1. S \in SUBSET Visitors
        BY DEF S
      <3> QED BY <2>1, <2>2, <2>3, <3>1, Telling
    <2> QED BY <2>4 DEF Book!Next, Book!Fail
  <1>4. ASSUME NEW c \in Conns, RcptStep(c) PROVE [Book!Next]_Book!bookVars
    BY <1>2, <1>4, RcptFrame
  <1>5. CASE GateOnly
    BY <1>2, <1>5 DEF GateOnly, accounts
  <1>6. CASE UNCHANGED allVars
    BY <1>2, <1>6 DEF allVars, accounts
  <1> QED BY <1>1, <1>3, <1>4, <1>5, <1>6, Steps

\* Registration is an account book: of requests for the same address one gets it,
\* for ever, and each visitor is told the truth, but for an error, whatever domains
\* are added or disabled in between and wherever the process stops
\* (auth_handlers.go:115-174, sqlite.go:101-130).
THEOREM RegistrationIsAccountBook == AccountsSpec => ImplementsAccountBook
  <1>1. AccountsInit => Book!Init
    BY DEF AccountsInit, Book!Init, Told, NoReg
  <1> QED BY <1>1, BookStep, TypesAlways, OwnAlways, PTL
          DEF AccountsSpec, ImplementsAccountBook, Book!Spec

-----------------------------------------------------------------------------
(* Where accounts are created.  While a request runs, its observers know   *)
(* at least the domains that are enabled now; the domain it is about to    *)
(* insert under is one of those they know.                                 *)

Known(v, d) == d \in offered[v] \/ (d = Seed /\ bare[v])

OfferInv ==
    /\ \A v \in Visitors : reg[v].pc \in Asked =>
           Enabled \subseteq offered[v] /\ (Enabled = {} => bare[v])
    /\ \A v \in Visitors : reg[v].pc = "inserting" => Known(v, reg[v].domain)
    /\ CreatedWhereOffered

LEMMA OfferStep ==
    RowsInv /\ AccountsInv /\ OwnInv /\ OfferInv /\ [AccountsNext]_allVars => OfferInv'
  <1> SUFFICES ASSUME RowsInv, AccountsInv, OwnInv, OfferInv, [AccountsNext]_allVars
               PROVE  OfferInv'
    OBVIOUS
  <1>0. \A i \in inboxes : i.password \in Visitors
    BY DEF AccountsInv, Inbox
  <1>1. ASSUME NEW v \in Visitors, RegisterStep(v) PROVE OfferInv'
    <2>1. PICK r \in Reg :
               /\ reg' = [reg EXCEPT ![v] = r]
               /\ Proceeds(v, r) \/ Inserts(v, r) \/ Ends(v, r)
               /\ r.pc \in Asked => reg[v].pc \in Asked \/ reg[v] = NoReg
               /\ Backed(v, r)
               /\ \/ reg[v] = NoReg /\ r.pc = "done" /\ UNCHANGED <<offered, bare>>
                  \/ /\ reg[v] = NoReg
                     /\ offered' = [offered EXCEPT ![v] = Enabled]
                     /\ bare' = [bare EXCEPT ![v] = (Enabled = {})]
                  \/ reg[v].pc \in Asked /\ UNCHANGED <<offered, bare>>
      BY <1>1, RegisterEffect DEF AccountsInv
    <2>2. reg'[v] = r /\ \A w \in Visitors \ {v} : reg'[w] = reg[w]
      BY <2>1 DEF AccountsInv
    <2>3. Enabled' = Enabled
      BY <1>1, RegisterFrame DEF Enabled, IsDomainEnabled, vars
    <2>4. \A w \in Visitors \ {v} : offered'[w] = offered[w] /\ bare'[w] = bare[w]
      BY <2>1 DEF AccountsInv
    <2>5. r.pc \in Asked => Enabled \subseteq offered'[v] /\ (Enabled = {} => bare'[v])
      BY <2>1 DEF AccountsInv, OfferInv, Asked
    <2>6. r.pc = "inserting" => Known(v, r.domain)'
      BY <2>1, <2>5 DEF Backed, Known, Asked
    <2>7. reg[v] = NoReg => \A i \in inboxes : i.password # v
      BY DEF OwnInv, MayHaveRow, NoReg
    <2>8. ASSUME NEW i \in inboxes PROVE Known(i.password, i.domain)'
      <3>1. Known(i.password, i.domain)
        BY DEF OfferInv, CreatedWhereOffered, Known
      <3>2. CASE i.password = v
        BY <2>1, <2>7, <3>1, <3>2 DEF Known
      <3>3. CASE i.password # v
        BY <1>0, <2>4, <3>1, <3>3 DEF Known
      <3> QED BY <3>2, <3>3
    <2>9. ASSUME NEW i \in inboxes', i \notin inboxes PROVE Known(i.password, i.domain)'
      <3>1. Inserts(v, r)
        BY <2>1, <2>9 DEF Proceeds, Ends
      <3>2. i = RowOf(v) /\ reg[v].pc = "inserting"
        BY <2>9, <3>1 DEF Inserts, RowOf
      <3>3. i.password = v /\ i.domain = reg[v].domain
        BY <3>2 DEF RowOf
      <3>4. Known(v, reg[v].domain)
        BY <3>2 DEF OfferInv
      <3>5. UNCHANGED <<offered, bare>>
        BY <2>1, <3>2 DEF NoReg
      <3> QED BY <3>3, <3>4, <3>5 DEF Known
    <2>10. CreatedWhereOffered'
      BY <2>8, <2>9 DEF CreatedWhereOffered, Known
    <2>11. ASSUME NEW w \in Visitors
           PROVE  /\ reg'[w].pc \in Asked =>
                         Enabled' \subseteq offered'[w] /\ (Enabled' = {} => bare'[w])
                  /\ reg'[w].pc = "inserting" => Known(w, reg[w].domain)'
      <3>1. CASE w = v
        BY <2>2, <2>3, <2>5, <2>6, <3>1 DEF Known
      <3>2. CASE w # v
        BY <2>2, <2>3, <2>4, <3>2 DEF OfferInv, Known
      <3> QED BY <3>1, <3>2
    <2> QED BY <2>10, <2>11 DEF OfferInv
  <1>2. CASE GateOnly
    <2>1. UNCHANGED <<inboxes, reg>>
      BY <1>2 DEF GateOnly, accounts
    <2>2. ASSUME NEW v \in Visitors
          PROVE  offered[v] \subseteq offered'[v] /\ (bare[v] => bare'[v])
      BY <1>2 DEF GateOnly, Observe
    <2>3. ASSUME NEW v \in Visitors, reg[v].pc \in Asked
          PROVE  Enabled' \subseteq offered'[v] /\ (Enabled' = {} => bare'[v])
      <3>1. reg[v] # NoReg
        BY <2>3 DEF NoReg, Asked
      <3> QED BY <1>2, <3>1 DEF GateOnly, Observe
    <2>4. ASSUME NEW v \in Visitors, NEW d, Known(v, d) PROVE Known(v, d)'
      BY <2>2, <2>4 DEF Known
    <2>5. CreatedWhereOffered'
      BY <1>0, <2>1, <2>4 DEF OfferInv, CreatedWhereOffered, Known
    <2> QED BY <2>1, <2>3, <2>4, <2>5 DEF OfferInv
  <1>3. CASE StopAll
    <2>1. UNCHANGED <<inboxes, offered, bare>>
      BY <1>3 DEF StopAll, observers
    <2>2. ASSUME NEW v \in Visitors PROVE reg'[v].pc \in {"new", "done"}
      BY <1>3 DEF StopAll, Cut
    <2>3. CreatedWhereOffered'
      BY <2>1 DEF OfferInv, CreatedWhereOffered
    <2> QED BY <2>2, <2>3 DEF OfferInv, Asked
  <1>4. ASSUME UNCHANGED <<inboxes, reg, offered, bare, domains>> PROVE OfferInv'
    BY <1>4 DEF OfferInv, CreatedWhereOffered, Known, Enabled, IsDomainEnabled
  <1>5. ASSUME NEW c \in Conns, RcptStep(c) PROVE OfferInv'
    BY <1>4, <1>5, RcptFrame
  <1>6. CASE UNCHANGED allVars
    BY <1>4, <1>6 DEF allVars, accounts, observers, vars
  <1> QED BY <1>1, <1>2, <1>3, <1>5, <1>6, Steps

\* No account is created on a domain that was disabled all through its request,
\* the DOMAIN setting apart (middleware.go:133-145, routes.go:114-123).
THEOREM CreatedOnlyWhereOffered == AccountsSpec => []CreatedWhereOffered
  <1>1. AccountsInit => OfferInv
    BY DEF AccountsInit, OfferInv, CreatedWhereOffered, NoReg, Asked
  <1>2. /\ IInv /\ RowsInv /\ AccountsInv /\ OwnInv /\ OfferInv /\ [AccountsNext]_allVars
        => OfferInv'
    BY OfferStep
  <1>3. OfferInv => CreatedWhereOffered
    BY DEF OfferInv
  <1> QED BY <1>1, <1>2, <1>3, TypesAlways, OwnAlways, PTL DEF AccountsSpec

-----------------------------------------------------------------------------
(* Whether mail finds its account.  A RCPT that was not shaken has seen    *)
(* its domain enabled and settled all along, and so have its query and,    *)
(* by the staleness bound, the cache entry that answered it.               *)

RcptTaken(c) == Taken(Address(rcpt[c].local, rcpt[c].domain))

\* The lookup of a RCPT is about its domain; unshaken, it is on the way to "allowed".
Gated(c) ==
    /\ lookup[c].pc # "idle" /\ lookup[c].domain = rcpt[c].domain
    /\ ~shaky[c] => /\ rcpt[c].domain \notin Unsettled
                    /\ lookup[c].pc = "answered" => lookup[c].enabled
                    /\ lookup[c].pc = "decided" => lookup[c].verdict # "refused"

Answer(c) ==
    /\ rcpt[c].before # "nobody" => rcpt[c].answer # "unknown"
    /\ rcpt[c].answer = "relay" => shaky[c]

RcptInv ==
    \A c \in Conns :
        /\ rcpt[c].pc # "idle" /\ rcpt[c].before # "nobody" => RcptTaken(c)
        /\ rcpt[c].pc = "gate" => Gated(c)
        /\ rcpt[c].pc = "answered" => Answer(c)

\* A fresh cache entry of a settled domain says "enabled".
LEMMA SettledHit ==
    ASSUME IInv, NEW d \in Domains, d \notin Unsettled, CacheHit(d)
    PROVE  cache[d].enabled
  <1>1. since[d] = Horizon /\ IsDomainEnabled(d)
    BY DEF Unsettled
  <1>2. cache[d] \in Entry /\ cache[d].left > 0
    BY DEF IInv, TypeOK, CacheHit, NoEntry
  <1>3. cache[d].left \in Nat /\ cache[d].enabled \in BOOLEAN
    <2>1. cache[d].left \in Nat
      BY EntryLeft DEF IInv
    <2>2. cache[d].enabled \in BOOLEAN
      BY <1>2, Zenon DEF Entry
    <2> QED BY <2>1, <2>2
  <1>4. ~(Horizon + cache[d].left <= Horizon)
    BY <1>2, <1>3 DEF Horizon
  <1>5. ~Disagrees(d, cache[d].enabled)
    BY <1>1, <1>4 DEF IInv, StaleEntry
  <1> QED BY <1>1, <1>3, <1>5 DEF Disagrees

\* The steps of the domain gate that a RCPT sees while it waits for its verdict.
LEMMA GateKeeps ==
    ASSUME IInv, AccountsInv, NEW c \in Conns, GateStep, rcpt[c].pc = "gate", Gated(c),
           UNCHANGED rcpt, Observe
    PROVE  Gated(c)'
  <1>0. rcpt[c].domain \in Domains /\ lookup[c] \in Lookup
    BY DEF AccountsInv, Rcpt, NoRcpt, IInv, TypeOK
  <1>1. /\ shaky[c] => shaky'[c]
        /\ ~shaky'[c] => rcpt[c].domain \notin Unsettled'
    BY Zenon DEF Observe
  <1> SUFFICES ASSUME TRUE
               PROVE  /\ lookup'[c].pc # "idle" /\ lookup'[c].domain = lookup[c].domain
                      /\ ~shaky[c] /\ rcpt[c].domain \notin Unsettled =>
                             /\ lookup'[c].pc = "answered" => lookup'[c].enabled
                             /\ lookup'[c].pc = "decided" => lookup'[c].verdict # "refused"
    BY <1>1, Zenon DEF Gated
  <1>2. CASE UNCHANGED lookup
    BY <1>2 DEF Gated
  <1>3. ASSUME NEW e \in Conns, Query(e) PROVE e # c \/ 
             lookup'[c] = Answered(rcpt[c].domain, IsDomainEnabled(rcpt[c].domain))
    BY <1>3 DEF Query, Gated, IInv, TypeOK
  <1>4. rcpt[c].domain \notin Unsettled => IsDomainEnabled(rcpt[c].domain)
    BY <1>0 DEF Unsettled
  <1>5. ASSUME NEW e \in Conns, Query(e)
        PROVE  /\ lookup'[c].pc # "idle" /\ lookup'[c].domain = lookup[c].domain
               /\ ~shaky[c] /\ rcpt[c].domain \notin Unsettled =>
                      /\ lookup'[c].pc = "answered" => lookup'[c].enabled
                      /\ lookup'[c].pc = "decided" => lookup'[c].verdict # "refused"
    <2>1. CASE e = c
      BY <1>3, <1>4, <1>5, <2>1 DEF Answered, Gated
    <2>2. CASE e # c
      BY <1>5, <2>2 DEF Query, Gated, IInv, TypeOK
    <2> QED BY <2>1, <2>2
  <1>6. ASSUME NEW e \in Conns, QueryFails(e)
        PROVE  /\ lookup'[c].pc # "idle" /\ lookup'[c].domain = lookup[c].domain
               /\ ~shaky[c] /\ rcpt[c].domain \notin Unsettled =>
                      /\ lookup'[c].pc = "answered" => lookup'[c].enabled
                      /\ lookup'[c].pc = "decided" => lookup'[c].verdict # "refused"
    BY <1>6 DEF QueryFails, Decided, Gated, IInv, TypeOK
  <1>7. ASSUME NEW e \in Conns, Store(e)
        PROVE  /\ lookup'[c].pc # "idle" /\ lookup'[c].domain = lookup[c].domain
               /\ ~shaky[c] /\ rcpt[c].domain \notin Unsettled =>
                      /\ lookup'[c].pc = "answered" => lookup'[c].enabled
                      /\ lookup'[c].pc = "decided" => lookup'[c].verdict # "refused"
    BY <1>7 DEF Store, Decided, Verdict, Gated, IInv, TypeOK
  <1>8. CASE Tick
    <2>1. lookup'[c] = Aged(lookup[c])
      BY <1>8 DEF Tick
    <2>2. /\ lookup'[c].pc = lookup[c].pc /\ lookup'[c].domain = lookup[c].domain
          /\ lookup[c].pc = "answered" => lookup'[c].enabled = lookup[c].enabled
          /\ lookup[c].pc # "answered" => lookup'[c] = lookup[c]
      BY <1>0, <2>1 DEF Aged, Lookup, NoLookup
    <2> QED BY <2>2 DEF Gated
  <1> QED BY <1>2, <1>5, <1>6, <1>7, <1>8
          DEF GateStep, AddDomain, ToggleRead, ToggleWrite, ToggleFails, Start

LEMMA RcptInvStep ==
    IInv /\ RowsInv /\ AccountsInv /\ RcptInv /\ [AccountsNext]_allVars => RcptInv'
  <1> SUFFICES ASSUME IInv, RowsInv, AccountsInv, RcptInv, [AccountsNext]_allVars,
                      NEW c \in Conns
               PROVE  /\ rcpt'[c].pc # "idle" /\ rcpt'[c].before # "nobody" => RcptTaken(c)'
                      /\ rcpt'[c].pc = "gate" => Gated(c)'
                      /\ rcpt'[c].pc = "answered" => Answer(c)'
    BY DEF RcptInv
  <1> DEFINE Goal == /\ rcpt'[c].pc # "idle" /\ rcpt'[c].before # "nobody" => RcptTaken(c)'
                     /\ rcpt'[c].pc = "gate" => Gated(c)'
                     /\ rcpt'[c].pc = "answered" => Answer(c)'
  <1>1. ASSUME NEW v \in Visitors, RegisterStep(v) PROVE Goal
    <2>1. UNCHANGED <<rcpt, shaky, lookup, domains, since>> /\ inboxes \subseteq inboxes'
      BY <1>1, RegisterFrame, RegisterAdds DEF vars
    <2>2. Unsettled' = Unsettled
      BY <2>1 DEF Unsettled, IsDomainEnabled
    <2>3. RcptTaken(c) => RcptTaken(c)'
      BY <2>1 DEF RcptTaken, Taken
    <2> QED BY <2>1, <2>2, <2>3 DEF RcptInv, Gated, Answer
  <1>2. ASSUME NEW e \in Conns \ {c}, RcptStep(e) PROVE Goal
    <2>1. rcpt'[c] = rcpt[c] /\ shaky'[c] = shaky[c]
      BY <1>2, RcptEffect DEF AccountsInv
    <2>2. lookup'[c] = lookup[c]
      BY <1>2 DEF RcptStep, StartRcpt, TakeVerdict, ResolveInbox, ResolveInboxFails, EndRcpt,
                  LookupHit, LookupMiss, Return, vars, IInv, TypeOK
    <2>3. UNCHANGED <<inboxes, domains, since>>
      BY <1>2, RcptFrame
    <2>4. Unsettled' = Unsettled
      BY <2>3 DEF Unsettled, IsDomainEnabled
    <2>5. RcptTaken(c)' = RcptTaken(c)
      BY <2>1, <2>3 DEF RcptTaken, Taken
    <2> QED BY <2>1, <2>2, <2>4, <2>5 DEF RcptInv, Gated, Answer
  <1>3. ASSUME NEW l \in Locals, NEW d \in Domains, StartRcpt(c, l, d) PROVE Goal
    <2> DEFINE k == Before(l, d)
               b == d \in Unsettled
    <2>1. rcpt'[c] = [pc |-> "gate", local |-> l, domain |-> d, before |-> k]
      BY <1>3 DEF StartRcpt, AccountsInv
    <2>2. shaky'[c] = b /\ UNCHANGED inboxes
      BY <1>3, Zenon DEF StartRcpt, AccountsInv
    <2>3. Unsettled' = Unsettled
      BY <1>3 DEF StartRcpt, LookupHit, LookupMiss, Unsettled, IsDomainEnabled
    <2>4. k # "nobody" => RcptTaken(c)'
      BY <2>1, <2>2 DEF Before, RcptTaken, Taken
    <2>5. \/ CacheHit(d) /\ lookup'[c] = Decided(d, Verdict(cache[d].enabled))
          \/ lookup'[c] = Querying(d)
      BY <1>3 DEF StartRcpt, LookupHit, LookupMiss, IInv, TypeOK
    <2>6. /\ lookup'[c].pc # "idle" /\ lookup'[c].domain = d /\ lookup'[c].pc # "answered"
          /\ d \notin Unsettled /\ lookup'[c].pc = "decided" => lookup'[c].verdict # "refused"
      BY <2>5, SettledHit DEF Decided, Querying, Verdict
    <2> HIDE DEF k, b
    <2>7. rcpt'[c].pc = "gate" /\ rcpt'[c].domain = d /\ rcpt'[c].before = k
      BY <2>1
    <2>8. Gated(c)'
      BY <2>2, <2>3, <2>6, <2>7, Zenon DEF Gated, b
    <2> QED BY <2>4, <2>7, <2>8
  <1>4. ASSUME NEW a \in Answers, rcpt[c].pc # "idle", AnswerRcpt(c, a), UNCHANGED <<inboxes, shaky>>,
               rcpt[c].before # "nobody" => a # "unknown", a = "relay" => shaky[c]
        PROVE  Goal
    <2>1. rcpt'[c] = [pc |-> "answered", local |-> rcpt[c].local, domain |-> rcpt[c].domain,
                      before |-> rcpt[c].before, answer |-> a]
      BY <1>4 DEF AnswerRcpt, AccountsInv
    <2>2. RcptTaken(c)' = RcptTaken(c)
      BY <1>4, <2>1 DEF RcptTaken, Taken
    <2> QED BY <1>4, <2>1, <2>2 DEF RcptInv, Answer
  <1>5. CASE TakeVerdict(c)
    <2>1. rcpt[c].pc = "gate" /\ lookup[c].pc = "decided" /\ UNCHANGED <<inboxes, shaky>>
      BY <1>5 DEF TakeVerdict, Return, observers
    <2>2. CASE /\ lookup[c].verdict = "allowed"
               /\ rcpt' = [rcpt EXCEPT ![c] = [pc |-> "resolve", local |-> @.local,
                                               domain |-> @.domain, before |-> @.before]]
      <3>1. rcpt'[c] = [pc |-> "resolve", local |-> rcpt[c].local, domain |-> rcpt[c].domain,
                        before |-> rcpt[c].before]
        BY <2>2 DEF AccountsInv
      <3>2. RcptTaken(c)' = RcptTaken(c)
        BY <2>1, <3>1 DEF RcptTaken, Taken
      <3> QED BY <2>1, <3>1, <3>2 DEF RcptInv
    <2>3. CASE lookup[c].verdict = "refused" /\ AnswerRcpt(c, "relay")
      <3>1. shaky[c]
        BY <2>1, <2>3 DEF RcptInv, Gated
      <3> QED BY <1>4, <2>1, <2>3, <3>1 DEF Answers
    <2>4. CASE AnswerRcpt(c, "tempfail")
      BY <1>4, <2>1, <2>4 DEF Answers
    <2> QED BY <1>5, <2>2, <2>3, <2>4 DEF TakeVerdict
  <1>6. CASE ResolveInbox(c)
    <2>1. rcpt[c].pc = "resolve" /\ UNCHANGED <<inboxes, shaky>>
      BY <1>6 DEF ResolveInbox, observers
    <2>2. CASE RcptTaken(c) /\ AnswerRcpt(c, "ok")
      BY <1>4, <2>1, <2>2 DEF Answers
    <2>3. CASE ~RcptTaken(c) /\ AnswerRcpt(c, "unknown")
      BY <1>4, <2>1, <2>3 DEF Answers, RcptInv
    <2> QED BY <1>6, <2>2, <2>3 DEF ResolveInbox, RcptTaken
  <1>7. CASE ResolveInboxFails(c)
    BY <1>4, <1>7 DEF ResolveInboxFails, observers, Answers
  <1>8. CASE EndRcpt(c)
    BY <1>8 DEF EndRcpt, AccountsInv, NoRcpt
  <1>9. CASE GateOnly
    <2>1. UNCHANGED <<inboxes, rcpt>> /\ (shaky[c] => shaky'[c])
      BY <1>9 DEF GateOnly, accounts, Observe
    <2>2. rcpt[c].pc = "gate" => Gated(c)'
      BY <1>9, <2>1, GateKeeps DEF GateOnly, RcptInv
    <2>3. RcptTaken(c)' = RcptTaken(c)
      BY <2>1 DEF RcptTaken, Taken
    <2> QED BY <2>1, <2>2, <2>3 DEF RcptInv, Answer
  <1>10. CASE StopAll
    BY <1>10 DEF StopAll, NoRcpt
  <1>11. CASE UNCHANGED allVars
    <2>1. UNCHANGED <<inboxes, rcpt, shaky, lookup, domains, since>>
      BY <1>11 DEF allVars, vars, accounts, observers
    <2>2. Unsettled' = Unsettled /\ RcptTaken(c)' = RcptTaken(c)
      BY <2>1 DEF Unsettled, IsDomainEnabled, RcptTaken, Taken
    <2> QED BY <2>1, <2>2 DEF RcptInv, Gated, Answer
  <1>12. ASSUME RcptStep(c) PROVE Goal
    BY <1>3, <1>5, <1>6, <1>7, <1>8, <1>12 DEF RcptStep
  <1> QED BY <1>1, <1>2, <1>9, <1>10, <1>11, <1>12, Steps

\* Mail to an account that was there when its RCPT began is not refused, unless
\* its domain was disabled or had just changed (session.go:31-61, backend.go:36-48).
THEOREM AccountsReachable == AccountsSpec => []AccountReachable
  <1>1. AccountsInit => RcptInv
    BY DEF AccountsInit, RcptInv, NoRcpt
  <1>2. /\ IInv /\ RowsInv /\ AccountsInv /\ RcptInv /\ [AccountsNext]_allVars
        => RcptInv'
    BY RcptInvStep
  <1>3. RcptInv => AccountReachable
    BY DEF RcptInv, AccountReachable, Answer
  <1> QED BY <1>1, <1>2, <1>3, TypesAlways, PTL DEF AccountsSpec
=============================================================================
