---------------------------- MODULE Registration ----------------------------
(***************************************************************************)
(* Mailbox registration (internal/web/auth_handlers.go, middleware.go,     *)
(* routes.go) and the RCPT command (internal/smtp/session.go) over the     *)
(* domains of DomainGate: which domain a new account lands on, who owns    *)
(* its address, and whether mail to it is let in.                          *)
(*                                                                         *)
(* A registration is up to four SQL statements: is the requested domain    *)
(* enabled, which is the oldest enabled one, the INSERT, and a SELECT that *)
(* reads the new row back.  Other requests, admins and RCPTs run between   *)
(* them; a cancelled request stops at any of them.                         *)
(***************************************************************************)
EXTENDS DomainGate, FiniteSets

CONSTANTS Visitors,  \* POST /register requests, each with a password of its own
          Locals     \* local parts, validated and lowercased

\* A table has finitely many rows.
ASSUME RegistrationAssumption == IsFiniteSet(Domains)

VARIABLES rowId,    \* ids of the domains table, 0 for no row
          inboxes,  \* the inboxes table: set of [local, domain, password]
          reg,      \* the request of each visitor
          rcpt,     \* the RCPT command of each connection
          offered,  \* observer: domains found enabled at any time in a request
          bare,     \* observer: was no domain enabled at some time in a request
          shaky,    \* observer: did a RCPT run while its domain was not settled
          lawful    \* observer: visitors whose account was created on a domain that
                    \* was enabled at that moment

accounts == <<inboxes, reg, rcpt>>
observers == <<offered, bare, shaky, lawful>>
allVars == <<vars, rowId, accounts, observers>>

Address(l, d) == [local |-> l, domain |-> d]
Inbox == [local : Locals, domain : Domains, password : Visitors]

\* "domain" is the requested domain, NoDomain for none, then the effective one.
\* The outcome "created" shows the visitor its address and password.
Outcomes == {"created", "limited", "taken", "unavailable", "error"}
NoReg == [pc |-> "new"]
Reg == {NoReg}
    \union [pc : {"asked", "fallback"}, local : Locals, domain : Domains \union {NoDomain}]
    \union [pc : {"inserting", "reading"}, local : Locals, domain : Domains]
    \union [pc : {"done"}, outcome : Outcomes, local : Locals,
            domain : Domains \union {NoDomain}]

Answers == {"ok", "relay", "unknown", "tempfail"}
\* "before" is an observer: what was there when the RCPT began.  "disabled" is an
\* account that was created while its domain was enabled, which it is no more.
Befores == {"nobody", "account", "disabled"}
NoRcpt == [pc |-> "idle"]
Rcpt == {NoRcpt}
    \union [pc : {"gate", "resolve"}, local : Locals, domain : Domains, before : Befores]
    \union [pc : {"answered"}, local : Locals, domain : Domains, before : Befores,
            answer : Answers]

AccountsTypeOK ==
    /\ TypeOK
    /\ rowId \in [Domains -> 0..Cardinality(Domains)]
    /\ \A d \in Domains : rowId[d] = 0 <=> domains[d] = "absent"
    /\ inboxes \in SUBSET Inbox
    /\ reg \in [Visitors -> Reg]
    /\ rcpt \in [Conns -> Rcpt]
    /\ offered \in [Visitors -> SUBSET Domains]
    /\ bare \in [Visitors -> BOOLEAN]
    /\ shaky \in [Conns -> BOOLEAN]
    /\ lawful \subseteq Visitors

Present == {d \in Domains : domains[d] # "absent"}
Enabled == {d \in Domains : IsDomainEnabled(d)}

\* The rows that earlier runs left were created in some order.
AccountsInit ==
    /\ Init
    /\ rowId \in [Domains -> 0..Cardinality(Domains)]
    /\ {rowId[d] : d \in Present} = 1..Cardinality(Present)
    /\ \A d \in Domains \ Present : rowId[d] = 0
    /\ inboxes = {}
    /\ reg = [v \in Visitors |-> NoReg]
    /\ rcpt = [c \in Conns |-> NoRcpt]
    /\ offered = [v \in Visitors |-> {}]
    /\ bare = [v \in Visitors |-> FALSE]
    /\ shaky = [c \in Conns |-> FALSE]
    /\ lawful = {}

-----------------------------------------------------------------------------
(* POST /register.                                                         *)

Finish(v, outcome, l, d) ==
    reg' = [reg EXCEPT ![v] = [pc |-> "done", outcome |-> outcome, local |-> l, domain |-> d]]

\* The request goes on, for the domain d.
Proceed(v, pc, d) ==
    reg' = [reg EXCEPT ![v] = [pc |-> pc, local |-> reg[v].local, domain |-> d]]

\* HandleRegister: the limiter lets the request through; the domain field may
\* be empty or name a domain that is not enabled, or not there, any more.
Register(v, l, d) ==
    /\ up
    /\ reg[v] = NoReg
    /\ reg' = [reg EXCEPT ![v] = [pc |-> "asked", local |-> l, domain |-> d]]
    /\ offered' = [offered EXCEPT ![v] = Enabled]
    /\ bare' = [bare EXCEPT ![v] = (Enabled = {})]
    /\ UNCHANGED <<vars, rowId, inboxes, rcpt, shaky, lawful>>

RegisterLimited(v, l, d) ==
    /\ up
    /\ reg[v] = NoReg
    /\ Finish(v, "limited", l, d)
    /\ UNCHANGED <<vars, rowId, inboxes, rcpt, observers>>

\* Variant: the requested domain is taken as it is.
ResolveUnchecked(v) ==
    /\ reg[v].pc = "asked"
    /\ reg' = [reg EXCEPT ![v].pc = "inserting"]
    /\ UNCHANGED <<vars, rowId, inboxes, rcpt, observers>>

\* resolveCreateDomain: the requested domain if it is enabled.
ResolveRequested(v) ==
    /\ reg[v].pc = "asked"
    /\ LET enabled == reg[v].domain # NoDomain /\ IsDomainEnabled(reg[v].domain)
       IN  Proceed(v, IF enabled THEN "inserting" ELSE "fallback", reg[v].domain)
    /\ UNCHANGED <<vars, rowId, inboxes, rcpt, observers>>

\* ListDomains(enabled only), ordered by creation; defaultDomain takes the first
\* and, when there is none, the DOMAIN setting whatever its row says.
Oldest(D) == CHOOSE d \in D : \A e \in D : rowId[d] <= rowId[e]

\* Variant: the oldest domain, enabled or not.
DefaultOfAll == IF Present # {} THEN Oldest(Present) ELSE Seed

DefaultDomain == IF Enabled # {} THEN Oldest(Enabled) ELSE Seed

ResolveDefault(v) ==
    /\ reg[v].pc = "fallback"
    /\ IF DefaultDomain = NoDomain
       THEN Finish(v, "unavailable", reg[v].local, NoDomain)
       ELSE Proceed(v, "inserting", DefaultDomain)
    /\ UNCHANGED <<vars, rowId, inboxes, rcpt, observers>>

AddressOf(i) == Address(i.local, i.domain)

\* Variant: the address is not UNIQUE.
TakenNever(a) == FALSE

Taken(a) == \E i \in inboxes : AddressOf(i) = a

\* SQLite.CreateInbox, the INSERT.  The UNIQUE address is the only protection.
Insert(v) ==
    /\ reg[v].pc = "inserting"
    /\ ~Taken(Address(reg[v].local, reg[v].domain))
    /\ inboxes' = inboxes \union {[local |-> reg[v].local, domain |-> reg[v].domain,
                                   password |-> v]}
    /\ Proceed(v, "reading", reg[v].domain)
    /\ lawful' = IF reg[v].domain \in Enabled THEN lawful \union {v} ELSE lawful
    /\ UNCHANGED <<vars, rowId, rcpt, offered, bare, shaky>>

InsertConflict(v) ==
    /\ reg[v].pc = "inserting"
    /\ Taken(Address(reg[v].local, reg[v].domain))
    /\ Finish(v, "taken", reg[v].local, reg[v].domain)
    /\ UNCHANGED <<vars, rowId, inboxes, rcpt, observers>>

\* Variant: a row that cannot be read back is inserted again.
ReadBackAgain(v) ==
    /\ reg[v].pc = "reading"
    /\ reg' = [reg EXCEPT ![v].pc = "inserting"]
    /\ UNCHANGED <<vars, rowId, inboxes, rcpt, observers>>

\* The SELECT that completes CreateInbox, then the page with the password.
ReadBack(v) ==
    /\ reg[v].pc = "reading"
    /\ Finish(v, "created", reg[v].local, reg[v].domain)
    /\ UNCHANGED <<vars, rowId, inboxes, rcpt, observers>>

\* A statement fails or the request is cancelled.  After the INSERT this leaves
\* an account whose password nobody has seen.
RegisterFails(v) ==
    /\ reg[v].pc \in {"asked", "fallback", "inserting", "reading"}
    /\ Finish(v, "error", reg[v].local, reg[v].domain)
    /\ UNCHANGED <<vars, rowId, inboxes, rcpt, observers>>

-----------------------------------------------------------------------------
(* RCPT TO, with domainAllowed as DomainGate has it.                       *)

\* A domain that is disabled, or was until less than TTL + Latency ago.
Unsettled == {d \in Domains : ~(IsDomainEnabled(d) /\ since[d] = Horizon)}

Before(l, d) ==
    IF ~Taken(Address(l, d)) THEN "nobody"
    ELSE IF ~IsDomainEnabled(d)
            /\ \E i \in inboxes : AddressOf(i) = Address(l, d) /\ i.password \in lawful
         THEN "disabled"
    ELSE "account"

StartRcpt(c, l, d) ==
    /\ rcpt[c] = NoRcpt
    /\ LookupHit(c, d) \/ LookupMiss(c, d)
    /\ rcpt' = [rcpt EXCEPT ![c] = [pc |-> "gate", local |-> l, domain |-> d,
                                    before |-> Before(l, d)]]
    /\ shaky' = [shaky EXCEPT ![c] = d \in Unsettled]
    /\ UNCHANGED <<rowId, inboxes, reg, offered, bare, lawful>>

AnswerRcpt(c, answer) ==
    rcpt' = [rcpt EXCEPT ![c] = [pc |-> "answered", local |-> @.local, domain |-> @.domain,
                                 before |-> @.before, answer |-> answer]]

TakeVerdict(c) ==
    /\ rcpt[c].pc = "gate"
    /\ Return(c)
    /\ \/ /\ lookup[c].verdict = "allowed"
          /\ rcpt' = [rcpt EXCEPT ![c] = [pc |-> "resolve", local |-> @.local,
                                          domain |-> @.domain, before |-> @.before]]
       \/ lookup[c].verdict = "refused" /\ AnswerRcpt(c, "relay")
       \/ lookup[c].verdict = "error" /\ AnswerRcpt(c, "tempfail")
    /\ UNCHANGED <<rowId, inboxes, reg, observers>>

\* GetInboxByAddress.
ResolveInbox(c) ==
    /\ rcpt[c].pc = "resolve"
    /\ AnswerRcpt(c, IF Taken(Address(rcpt[c].local, rcpt[c].domain)) THEN "ok" ELSE "unknown")
    /\ UNCHANGED <<vars, rowId, inboxes, reg, observers>>

ResolveInboxFails(c) ==
    /\ rcpt[c].pc = "resolve"
    /\ AnswerRcpt(c, "tempfail")
    /\ UNCHANGED <<vars, rowId, inboxes, reg, observers>>

EndRcpt(c) ==
    /\ rcpt[c].pc = "answered"
    /\ rcpt' = [rcpt EXCEPT ![c] = NoRcpt]
    /\ UNCHANGED <<vars, rowId, inboxes, reg, observers>>

-----------------------------------------------------------------------------
(* The other steps of DomainGate: new rows take the next id, and the       *)
(* observers see what has become of the domains.                           *)

NumberRows ==
    rowId' = [d \in Domains |-> IF rowId[d] = 0 /\ domains'[d] # "absent"
                                THEN Cardinality(Present) + 1 ELSE rowId[d]]

Observe ==
    /\ offered' = [v \in Visitors |-> offered[v] \union IF reg[v] = NoReg THEN {} ELSE Enabled']
    /\ bare' = [v \in Visitors |-> bare[v] \/ (reg[v] # NoReg /\ Enabled' = {})]
    /\ shaky' = [c \in Conns |-> shaky[c] \/ (rcpt[c].pc = "gate" /\ rcpt[c].domain \in Unsettled')]
    /\ UNCHANGED lawful

GateStep ==
    \/ \E c \in Conns : Query(c) \/ QueryFails(c) \/ Store(c)
    \/ \E d \in Domains : AddDomain(d)
    \/ \E a \in Admins, d \in Domains : ToggleRead(a, d)
    \/ \E a \in Admins : ToggleWrite(a) \/ ToggleFails(a)
    \/ Start
    \/ Tick

\* A stop or crash ends every request and RCPT; the tables stay.
Cut(r) == IF r.pc \in {"new", "done"} THEN r
          ELSE [pc |-> "done", outcome |-> "error", local |-> r.local, domain |-> r.domain]

StopAll ==
    /\ Stop
    /\ reg' = [v \in Visitors |-> Cut(reg[v])]
    /\ rcpt' = [c \in Conns |-> NoRcpt]
    /\ UNCHANGED <<rowId, inboxes, observers>>

AccountsNext ==
    \/ \E v \in Visitors, l \in Locals, d \in Domains \union {NoDomain} :
           Register(v, l, d) \/ RegisterLimited(v, l, d)
    \/ \E v \in Visitors : \/ ResolveRequested(v) \/ ResolveDefault(v)
                           \/ Insert(v) \/ InsertConflict(v) \/ ReadBack(v) \/ RegisterFails(v)
    \/ \E c \in Conns, l \in Locals, d \in Domains : StartRcpt(c, l, d)
    \/ \E c \in Conns : \/ TakeVerdict(c) \/ ResolveInbox(c) \/ ResolveInboxFails(c)
                        \/ EndRcpt(c)
    \/ GateStep /\ UNCHANGED accounts /\ NumberRows /\ Observe
    \/ StopAll

AccountsSpec == AccountsInit /\ [][AccountsNext]_allVars

\* The fairness of DomainGate; a visitor may give up at any step.
FairAccountsSpec == AccountsSpec /\ Fairness

-----------------------------------------------------------------------------
(* Properties.                                                             *)

(* A password that was shown works: no later or concurrent registration of *)
(* the same address, directly or by falling back to the same default       *)
(* domain, and no restart takes the account from the visitor it was        *)
(* created for.                                                            *)
ShownAccountsStand ==
    \A v \in Visitors :
        reg[v].pc = "done" /\ reg[v].outcome = "created" =>
            {i \in inboxes : AddressOf(i) = Address(reg[v].local, reg[v].domain)}
                = {[local |-> reg[v].local, domain |-> reg[v].domain, password |-> v]}

(* An account is created only on a domain that was enabled at some time    *)
(* while its request ran, or on the DOMAIN setting if at some time no      *)
(* domain was enabled: however late the INSERT, it uses no domain that was *)
(* disabled before the visitor asked.                                      *)
CreatedWhereOffered ==
    \A i \in inboxes :
        i.domain \in offered[i.password] \/ (i.domain = Seed /\ bare[i.password])

(* A failure leaves behind at most what the visitor can be told of: an     *)
(* account whose password was not shown belongs to a request that has the  *)
(* read-back still before it or ended in an error.  Nobody who was told    *)
(* that the address is taken, that no domain is available or to come back  *)
(* later has one, and nobody has two (sqlite.go:101-130).                  *)
UnshownAccountsErred ==
    \A v \in Visitors :
        LET own == {i \in inboxes : i.password = v}
        IN  own # {} =>
                /\ \E i \in own : own = {i} /\ AddressOf(i) = Address(reg[v].local, reg[v].domain)
                /\ reg[v].pc = "reading"
                   \/ (reg[v].pc = "done" /\ reg[v].outcome \in {"created", "error"})

(* What a visitor has been told, and the accounts, as AccountBook has them. *)
Told(v) == IF reg[v].pc # "done" THEN "nothing"
           ELSE CASE reg[v].outcome = "created" -> "shown"
                  [] reg[v].outcome = "error"   -> "error"
                  [] OTHER                      -> "refused"

BookEntry(i) == [address |-> AddressOf(i), owner |-> i.password]

Book == INSTANCE AccountBook
            WITH People <- Visitors,
                 Addresses <- [local : Locals, domain : Domains],
                 book <- {BookEntry(i) : i \in inboxes},
                 told <- [v \in Visitors |-> Told(v)]

(* Seen from outside, whatever runs in between: every account was claimed  *)
(* by the visitor it belongs to, once and under a free address, and stays; *)
(* a password is shown only to its holder, a refusal only to a visitor     *)
(* without one, and nobody gets an account after the answer (AccountBook,  *)
(* auth_handlers.go:115-174).                                              *)
ImplementsAccountBook == Book!Spec

(* Mail finds the account: a RCPT that begins after the account was        *)
(* created is never told that there is no such user, and is told "relay    *)
(* not permitted" only if its domain was disabled, or had changed within   *)
(* the last TTL + Latency, at some time while the RCPT ran.                *)
AccountReachable ==
    \A c \in Conns :
        rcpt[c].pc = "answered" /\ rcpt[c].before # "nobody" =>
            /\ rcpt[c].answer # "unknown"
            /\ rcpt[c].answer = "relay" => shaky[c]

(* README.md:61: disabling a domain stops new inboxes from being created   *)
(* on it.  So an account lands only on a domain that was enabled at some   *)
(* time while its request ran.                                             *)
CreatedWhereEnabled == \A i \in inboxes : i.domain \in offered[i.password]

(* README.md:61: existing inboxes on a domain that is disabled keep        *)
(* receiving mail.  So a RCPT for an account that was created while its    *)
(* domain was enabled is not refused because the domain had been disabled  *)
(* when the RCPT began, and still is.                                      *)
ExistingInboxesReceive ==
    \A c \in Conns :
        /\ rcpt[c].pc = "answered" /\ rcpt[c].before = "disabled"
        /\ ~IsDomainEnabled(rcpt[c].domain)
        => rcpt[c].answer # "relay"
=============================================================================
