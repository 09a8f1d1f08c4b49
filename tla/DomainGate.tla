----------------------------- MODULE DomainGate -----------------------------
(***************************************************************************)
(* The recipient-domain check of the SMTP server and everything that feeds *)
(* it: the domains table (internal/repository/sqlite.go), the in-process   *)
(* cache of the SMTP backend (internal/smtp/domaincache.go, backend.go),   *)
(* the two admin handlers that change the table (internal/web/admin.go)    *)
(* and the seeding at start-up (cmd/server/main.go).                       *)
(*                                                                         *)
(* go-smtp serves every connection on a goroutine of its own, so several   *)
(* calls of domainAllowed run at once; each is a cache read, then (on a    *)
(* miss) one SQL statement, then a cache write, with the cache's lock      *)
(* released in between.  Each admin request runs on its own goroutine too. *)
(*                                                                         *)
(* Time is relative: a cache entry carries the time it has left to live, a *)
(* lookup in flight the time since its answer was read, and "since" (an    *)
(* observer, read by no action) the time since the row of a domain last    *)
(* changed, saturated at TTL + Latency.  Tick lets one unit pass.          *)
(***************************************************************************)
EXTENDS Naturals

CONSTANTS Domains,   \* domain names, lowercased
          Conns,     \* SMTP connections, each with at most one RCPT in progress
          Admins,    \* admin requests that may be in progress at once
          Seed,      \* the DOMAIN setting: a domain, or NoDomain when empty
          NoDomain,
          TTL,       \* domainCacheTTL
          Latency    \* the longest a lookup holds its answer before storing it

ASSUME DomainGateAssumption ==
    /\ NoDomain \notin Domains
    /\ Seed \in Domains \union {NoDomain}
    /\ TTL \in Nat \ {0}
    /\ Latency \in Nat

VARIABLES up,       \* is the server process running
          domains,  \* the domains table: the row of each name
          cache,    \* domainCache.entries
          lookup,   \* the domainAllowed call of each connection
          toggle,   \* the HandleAdminToggleDomain call of each admin request
          since     \* observer: time since a domain's row last changed

vars == <<up, domains, cache, lookup, toggle, since>>

Horizon == TTL + Latency

RowState == {"absent", "enabled", "disabled"}

\* "left" is expiresAt - now; an entry with left = 0 has expired.  An expired
\* entry stays in the map until it is overwritten, as in the code.
NoEntry == [found |-> FALSE, enabled |-> FALSE, left |-> 0]
Entry   == [found : {TRUE}, enabled : BOOLEAN, left : 0..TTL]

\* A lookup is "querying" between its cache miss and its SQL statement,
\* "answered" between the statement and set, "decided" once domainAllowed has
\* returned.  "age" is the time since the statement ran.
Verdicts   == {"allowed", "refused", "error"}
NoLookup   == [pc |-> "idle"]
Querying(d)    == [pc |-> "querying", domain |-> d]
\* Variant: the statement asks only whether there is a row.
AnsweredByPresence(d, b) == [pc |-> "answered", domain |-> d, enabled |-> TRUE, age |-> 0]

Answered(d, b) == [pc |-> "answered", domain |-> d, enabled |-> b, age |-> 0]
Decided(d, v)  == [pc |-> "decided", domain |-> d, verdict |-> v]

Lookup == {NoLookup}
    \union [pc : {"querying"}, domain : Domains]
    \union [pc : {"answered"}, domain : Domains, enabled : BOOLEAN, age : 0..Latency]
    \union [pc : {"decided"}, domain : Domains, verdict : Verdicts]

NoToggle == [pc |-> "idle"]
Toggle   == {NoToggle} \union [pc : {"writing"}, domain : Domains, enabled : BOOLEAN]

TypeOK ==
    /\ up \in BOOLEAN
    /\ domains \in [Domains -> RowState]
    /\ cache \in [Domains -> Entry \union {NoEntry}]
    /\ lookup \in [Conns -> Lookup]
    /\ toggle \in [Admins -> Toggle]
    /\ since \in [Domains -> 0..Horizon]

-----------------------------------------------------------------------------
(* The table and the cache as the handlers see them.                       *)

IsDomainEnabled(d) == domains[d] = "enabled"

\* Variant: the expiry is never looked at.
CacheHitForever(d) == cache[d].found

\* domainCache.get finds an entry only strictly before expiresAt.
CacheHit(d) == cache[d].found /\ cache[d].left > 0

\* The row that INSERT and UPDATE leave behind.
RowFor(enabled) == IF enabled THEN "enabled" ELSE "disabled"
WriteRow(d, row) ==
    /\ domains' = [domains EXCEPT ![d] = row]
    /\ since' = IF domains[d] = row THEN since ELSE [since EXCEPT ![d] = 0]

Verdict(enabled) == IF enabled THEN "allowed" ELSE "refused"

\* SetDomainEnabled writes the negation of what GetDomain returned.
Negation(enabled) == ~enabled

\* Variant: the entry lives for two TTLs.
CacheEntryLong(enabled) == [found |-> TRUE, enabled |-> enabled, left |-> TTL + TTL]

CacheEntry(enabled) == [found |-> TRUE, enabled |-> enabled, left |-> TTL]

\* Earlier runs, perhaps with another DOMAIN, may have left rows in the table.
Init ==
    /\ up = FALSE
    /\ domains \in [Domains -> RowState]
    /\ cache = [d \in Domains |-> NoEntry]
    /\ lookup = [c \in Conns |-> NoLookup]
    /\ toggle = [a \in Admins |-> NoToggle]
    /\ since = [d \in Domains |-> Horizon]

-----------------------------------------------------------------------------
(* Backend.domainAllowed                                                   *)

\* The cache answers: no statement runs.
LookupHit(c, d) ==
    /\ up
    /\ lookup[c] = NoLookup
    /\ CacheHit(d)
    /\ lookup' = [lookup EXCEPT ![c] = Decided(d, Verdict(cache[d].enabled))]
    /\ UNCHANGED <<up, domains, cache, toggle, since>>

\* No entry, or an expired one: the database must be asked.
LookupMiss(c, d) ==
    /\ up
    /\ lookup[c] = NoLookup
    /\ ~CacheHit(d)
    /\ lookup' = [lookup EXCEPT ![c] = Querying(d)]
    /\ UNCHANGED <<up, domains, cache, toggle, since>>

Query(c) ==
    /\ lookup[c].pc = "querying"
    /\ lookup' = [lookup EXCEPT ![c] = Answered(lookup[c].domain,
                                                IsDomainEnabled(lookup[c].domain))]
    /\ UNCHANGED <<up, domains, cache, toggle, since>>

\* A failed statement is returned as an error and never cached.
QueryFails(c) ==
    /\ lookup[c].pc = "querying"
    /\ lookup' = [lookup EXCEPT ![c] = Decided(lookup[c].domain, "error")]
    /\ UNCHANGED <<up, domains, cache, toggle, since>>

\* domainCache.set overwrites whatever is there and dates the entry from now,
\* not from the moment the answer was read.
Store(c) ==
    /\ lookup[c].pc = "answered"
    /\ cache' = [cache EXCEPT ![lookup[c].domain] = CacheEntry(lookup[c].enabled)]
    /\ lookup' = [lookup EXCEPT ![c] = Decided(lookup[c].domain, Verdict(lookup[c].enabled))]
    /\ UNCHANGED <<up, domains, toggle, since>>

\* The caller, Session.Rcpt, takes the verdict.
Return(c) ==
    /\ lookup[c].pc = "decided"
    /\ lookup' = [lookup EXCEPT ![c] = NoLookup]
    /\ UNCHANGED <<up, domains, cache, toggle, since>>

-----------------------------------------------------------------------------
(* The admin handlers.  Neither tells the cache of the SMTP backend.       *)

\* CreateDomain inserts an enabled row; the UNIQUE name makes a second insert
\* a conflict, which changes nothing.
AddDomain(d) ==
    /\ up
    /\ domains[d] = "absent"
    /\ WriteRow(d, "enabled")
    /\ UNCHANGED <<up, cache, lookup, toggle>>

ToggleRead(a, d) ==
    /\ up
    /\ toggle[a] = NoToggle
    /\ domains[d] # "absent"
    /\ toggle' = [toggle EXCEPT ![a] = [pc |-> "writing", domain |-> d,
                                        enabled |-> IsDomainEnabled(d)]]
    /\ UNCHANGED <<up, domains, cache, lookup, since>>

ToggleWrite(a) ==
    /\ toggle[a].pc = "writing"
    /\ WriteRow(toggle[a].domain, RowFor(Negation(toggle[a].enabled)))
    /\ toggle' = [toggle EXCEPT ![a] = NoToggle]
    /\ UNCHANGED <<up, cache, lookup>>

\* The write fails, or the request is cancelled before it.
ToggleFails(a) ==
    /\ toggle[a].pc = "writing"
    /\ toggle' = [toggle EXCEPT ![a] = NoToggle]
    /\ UNCHANGED <<up, domains, cache, lookup, since>>

-----------------------------------------------------------------------------
(* The process: start-up seeds the table, a stop or crash loses the cache  *)
(* and every call in progress but not the table.                           *)

\* Variant: the seed is looked for among the enabled domains only.
SeedIfDisabled == Seed # NoDomain /\ ~IsDomainEnabled(Seed)

SeedNeeded == Seed # NoDomain /\ \A d \in Domains : domains[d] = "absent"

Start ==
    /\ ~up
    /\ up' = TRUE
    /\ IF SeedNeeded THEN WriteRow(Seed, "enabled") ELSE UNCHANGED <<domains, since>>
    /\ UNCHANGED <<cache, lookup, toggle>>

Stop ==
    /\ up
    /\ up' = FALSE
    /\ cache' = [d \in Domains |-> NoEntry]
    /\ lookup' = [c \in Conns |-> NoLookup]
    /\ toggle' = [a \in Admins |-> NoToggle]
    /\ UNCHANGED <<domains, since>>

\* A lookup that holds an answer stores it within Latency.
MayWait(c) == lookup[c].pc = "answered" => lookup[c].age < Latency

Aged(l) == IF l.pc = "answered" THEN [l EXCEPT !.age = @ + 1] ELSE l

\* Variant: an entry stays as it is.
FadedNever(e) == e

Faded(e) == IF e.left = 0 THEN e ELSE [e EXCEPT !.left = @ - 1]

Tick ==
    /\ \A c \in Conns : MayWait(c)
    /\ cache' = [d \in Domains |-> Faded(cache[d])]
    /\ lookup' = [c \in Conns |-> Aged(lookup[c])]
    /\ since' = [d \in Domains |-> IF since[d] = Horizon THEN Horizon ELSE since[d] + 1]
    /\ UNCHANGED <<up, domains, toggle>>

Next ==
    \/ \E c \in Conns, d \in Domains : LookupHit(c, d) \/ LookupMiss(c, d)
    \/ \E c \in Conns : Query(c) \/ QueryFails(c) \/ Store(c) \/ Return(c)
    \/ \E d \in Domains : AddDomain(d)
    \/ \E a \in Admins, d \in Domains : ToggleRead(a, d)
    \/ \E a \in Admins : ToggleWrite(a) \/ ToggleFails(a)
    \/ Start \/ Stop \/ Tick

Spec == Init /\ [][Next]_vars

\* Time passes, and a goroutine that holds an answer comes to store it: the Go
\* scheduler is fair and nothing keeps the cache's lock across a call.
Fairness == WF_vars(Tick) /\ \A c \in Conns : WF_vars(Store(c))

FairSpec == Spec /\ Fairness

-----------------------------------------------------------------------------
(* Properties.                                                             *)

Disagrees(d, enabled) == enabled # IsDomainEnabled(d)

(* The cache never vouches for a domain's old state longer than one TTL    *)
(* plus the time an answer can be held before domainCache.set: whatever    *)
(* the interleaving of lookups, admin requests and restarts, an unexpired  *)
(* entry that contradicts the table means the row changed less than        *)
(* TTL + Latency ago.                                                      *)
StalenessBounded ==
    \A d \in Domains :
        CacheHit(d) /\ Disagrees(d, cache[d].enabled) => since[d] < Horizon

(* What the staleness bound rests on.  An answer in flight contradicts the *)
(* table only if the row changed after it was read, and what a stored      *)
(* answer has lived plus what its lookup held it bounds the age of that    *)
(* change.                                                                 *)
StaleAnswer ==
    \A c \in Conns :
        lookup[c].pc = "answered" /\ Disagrees(lookup[c].domain, lookup[c].enabled)
            => since[lookup[c].domain] <= lookup[c].age

StaleEntry ==
    \A d \in Domains :
        CacheHit(d) /\ Disagrees(d, cache[d].enabled)
            => since[d] + cache[d].left <= Horizon

(* A sender is told "allowed" or "refused" against the table's state only  *)
(* if the row changed less than TTL + Latency before the verdict: what     *)
(* domainAllowed returns is as fresh as what it caches, on the hit path    *)
(* and on the query path.                                                  *)
VerdictFresh ==
    [][\A c \in Conns :
          lookup[c].pc # "decided" /\ lookup'[c].pc = "decided" =>
              LET d == lookup'[c].domain
              IN  \/ lookup'[c].verdict \in {"error", Verdict(IsDomainEnabled(d))}
                  \/ since[d] < Horizon]_vars

(* A restart never undoes an admin's decision: seedDomain touches the      *)
(* table only while it is empty, so a disabled or foreign domain that was  *)
(* there when the process stopped is there, unchanged, when it serves.     *)
RestartKeepsTable ==
    [][~up /\ (\E d \in Domains : domains[d] # "absent") => domains' = domains]_vars

(* Once the admins leave a domain alone, the cache comes to agree with the *)
(* table and stays so, however the lookups in flight were interleaved with *)
(* the last change: no stale answer is stored for ever.                    *)
EventuallyAgrees ==
    \A d \in Domains, row \in RowState :
        <>[](domains[d] = row) =>
            <>[](CacheHit(d) => cache[d].enabled = (row = "enabled"))
=============================================================================
