-------------------------- MODULE DomainGateProofs --------------------------
(***************************************************************************)
(* Proofs about DomainGate, for any sets of domains, connections and admin *)
(* requests and any TTL and Latency.                                       *)
(*                                                                         *)
(* StalenessBounded is not inductive.  What is: an answer in flight that   *)
(* contradicts the table is at least as old as the last change of the row  *)
(* (StaleAnswer), hence, when it is stored, the change is at most Latency  *)
(* old, and from then on the life the entry has left pays for the age of   *)
(* the change (StaleEntry).                                                *)
(***************************************************************************)
EXTENDS DomainGate, TLAPS

IInv == TypeOK /\ StaleAnswer /\ StaleEntry

USE DomainGateAssumption

-----------------------------------------------------------------------------
(* What the write of a row leaves behind: a domain whose row changed has   *)
(* since = 0, every other domain keeps its row and its age.                *)
LEMMA WriteRowFacts ==
    ASSUME TypeOK, NEW d \in Domains, NEW row \in RowState, WriteRow(d, row)
    PROVE  /\ domains' \in [Domains -> RowState]
           /\ since' \in [Domains -> 0..Horizon]
           /\ \A e \in Domains : \/ domains'[e] = domains[e] /\ since'[e] = since[e]
                                 \/ since'[e] = 0
  BY DEF TypeOK, WriteRow, Horizon

(* Every variable keeps its type at every step of the server.              *)
LEMMA TypeInit == Init => TypeOK
  <1> SUFFICES ASSUME Init PROVE TypeOK
    OBVIOUS
  <1>1. domains \in [Domains -> RowState] /\ cache \in [Domains -> Entry \union {NoEntry}]
    BY DEF Init, RowState
  <1>2. lookup \in [Conns -> Lookup] /\ toggle \in [Admins -> Toggle]
    BY DEF Init, Lookup, Toggle
  <1>3. since \in [Domains -> 0..Horizon]
    BY DEF Init, Horizon
  <1> QED BY <1>1, <1>2, <1>3 DEF Init, TypeOK

LEMMA TypeStep == TypeOK /\ [Next]_vars => TypeOK'
  <1> SUFFICES ASSUME TypeOK, [Next]_vars PROVE TypeOK'
    OBVIOUS
  <1>1. ASSUME NEW c \in Conns, NEW d \in Domains, LookupHit(c, d) PROVE TypeOK'
    BY <1>1 DEF TypeOK, LookupHit, Lookup, Decided, Verdict, Verdicts
  <1>2. ASSUME NEW c \in Conns, NEW d \in Domains, LookupMiss(c, d) PROVE TypeOK'
    BY <1>2 DEF TypeOK, LookupMiss, Lookup, Querying
  <1>3. ASSUME NEW c \in Conns, Query(c) PROVE TypeOK'
    BY <1>3 DEF TypeOK, Query, Lookup, NoLookup, Answered, IsDomainEnabled
  <1>4. ASSUME NEW c \in Conns, QueryFails(c) PROVE TypeOK'
    BY <1>4 DEF TypeOK, QueryFails, Lookup, NoLookup, Decided, Verdicts
  <1>5. ASSUME NEW c \in Conns, Store(c) PROVE TypeOK'
    <2>1. lookup[c].domain \in Domains /\ lookup[c].enabled \in BOOLEAN
      BY <1>5 DEF TypeOK, Store, Lookup, NoLookup
    <2>2. CacheEntry(lookup[c].enabled) \in Entry
      BY <2>1 DEF CacheEntry, Entry
    <2>3. Decided(lookup[c].domain, Verdict(lookup[c].enabled)) \in Lookup
      BY <2>1 DEF Decided, Verdict, Verdicts, Lookup
    <2> QED BY <1>5, <2>1, <2>2, <2>3 DEF TypeOK, Store
  <1>6. ASSUME NEW c \in Conns, Return(c) PROVE TypeOK'
    BY <1>6 DEF TypeOK, Return, Lookup
  <1>7. ASSUME NEW d \in Domains, AddDomain(d) PROVE TypeOK'
    BY <1>7, WriteRowFacts DEF TypeOK, AddDomain, RowState
  <1>8. ASSUME NEW a \in Admins, NEW d \in Domains, ToggleRead(a, d) PROVE TypeOK'
    BY <1>8 DEF TypeOK, ToggleRead, Toggle, IsDomainEnabled
  <1>9. ASSUME NEW a \in Admins, ToggleWrite(a) PROVE TypeOK'
    <2>1. toggle[a].domain \in Domains
      BY <1>9 DEF TypeOK, ToggleWrite, Toggle, NoToggle
    <2>2. RowFor(Negation(toggle[a].enabled)) \in RowState
      BY DEF RowFor, RowState
    <2> QED BY <1>9, <2>1, <2>2, WriteRowFacts DEF TypeOK, ToggleWrite, Toggle
  <1>10. ASSUME NEW a \in Admins, ToggleFails(a) PROVE TypeOK'
    BY <1>10 DEF TypeOK, ToggleFails, Toggle
  <1>11. CASE Start
    <2>1. CASE SeedNeeded
      BY <1>11, <2>1, WriteRowFacts DEF TypeOK, Start, SeedNeeded, RowState
    <2>2. CASE ~SeedNeeded
      BY <1>11, <2>2 DEF TypeOK, Start
    <2> QED BY <2>1, <2>2
  <1>12. CASE Stop
    BY <1>12 DEF TypeOK, Stop, Lookup, Toggle
  <1>13. CASE Tick
    <2>1. cache' \in [Domains -> Entry \union {NoEntry}]
      <3>1. \A e \in Entry \union {NoEntry} : Faded(e) \in Entry \union {NoEntry}
        <4>1. ASSUME NEW e \in Entry PROVE Faded(e) \in Entry
          <5>1. CASE e.left = 0
            BY <5>1 DEF Faded
          <5>2. CASE e.left # 0
            <6>1. e.left - 1 \in 0..TTL
              BY <5>2 DEF Entry
            <6>2. [e EXCEPT !.left = @ - 1] \in Entry
              BY <6>1 DEF Entry
            <6> QED BY <5>2, <6>2 DEF Faded
          <5> QED BY <5>1, <5>2
        <4>2. Faded(NoEntry) = NoEntry
          <5>1. NoEntry.left = 0
            BY DEF NoEntry
          <5> QED BY <5>1 DEF Faded
        <4> QED BY <4>1, <4>2
      <3> QED BY <1>13, <3>1 DEF TypeOK, Tick
    <2>2. \A c \in Conns : Aged(lookup[c]) \in Lookup
      <3> SUFFICES ASSUME NEW c \in Conns PROVE Aged(lookup[c]) \in Lookup
        OBVIOUS
      <3>1. lookup[c] \in Lookup /\ MayWait(c)
        BY <1>13 DEF TypeOK, Tick
      <3>2. CASE lookup[c].pc = "answered"
        BY <3>1, <3>2 DEF MayWait, Aged, Lookup, NoLookup
      <3>3. CASE lookup[c].pc # "answered"
        BY <3>1, <3>3 DEF Aged
      <3> QED BY <3>2, <3>3
    <2>3. since' \in [Domains -> 0..Horizon]
      BY <1>13 DEF TypeOK, Tick, Horizon
    <2> QED BY <1>13, <2>1, <2>2, <2>3 DEF TypeOK, Tick
  <1>14. CASE UNCHANGED vars
    BY <1>14 DEF TypeOK, vars
  <1> QED BY <1>1, <1>2, <1>3, <1>4, <1>5, <1>6, <1>7, <1>8, <1>9, <1>10,
             <1>11, <1>12, <1>13, <1>14 DEF Next

(* TypeOK holds in every reachable state, for any constants.               *)
THEOREM TypeCorrect == Spec => []TypeOK
  BY TypeInit, TypeStep, PTL DEF Spec

-----------------------------------------------------------------------------
(* The life a cache slot has left, and what a unit of time makes of it.    *)
LEMMA EntryLeft ==
    ASSUME TypeOK, NEW d \in Domains
    PROVE  /\ cache[d].left \in 0..TTL
           /\ Faded(cache[d]).found = cache[d].found
           /\ Faded(cache[d]).enabled = cache[d].enabled
           /\ cache[d].left = 0 => Faded(cache[d]).left = 0
           /\ cache[d].left # 0 => Faded(cache[d]).left = cache[d].left - 1
  <1>1. CASE cache[d] \in Entry
    <2>1. cache[d].left \in 0..TTL
      BY <1>1 DEF Entry
    <2>2. CASE cache[d].left = 0
      BY <2>1, <2>2 DEF Faded
    <2>3. CASE cache[d].left # 0
      BY <1>1, <2>1, <2>3 DEF Faded, Entry
    <2> QED BY <2>1, <2>2, <2>3
  <1>2. CASE cache[d] = NoEntry
    <2>1. cache[d].left = 0
      BY <1>2 DEF NoEntry
    <2> QED BY <2>1 DEF Faded
  <1> QED BY <1>1, <1>2 DEF TypeOK

LEMMA StaleInit == Init => StaleAnswer /\ StaleEntry
  BY DEF Init, StaleAnswer, StaleEntry, NoLookup, NoEntry, CacheHit

(* A row write keeps both bounds: the written domain starts a new age of   *)
(* 0, which no answer's age and no entry's life can undercut, and every    *)
(* other domain keeps its row.                                             *)
LEMMA WriteKeepsBounds ==
    ASSUME IInv, NEW d \in Domains, NEW row \in RowState, WriteRow(d, row),
           cache' = cache,
           \A c \in Conns : lookup'[c] = lookup[c]
    PROVE  StaleAnswer' /\ StaleEntry'
  <1>1. \A e \in Domains : \/ domains'[e] = domains[e] /\ since'[e] = since[e]
                           \/ since'[e] = 0
    BY WriteRowFacts DEF IInv
  <1>2. StaleAnswer'
    <2> SUFFICES ASSUME NEW c \in Conns, lookup[c].pc = "answered",
                        lookup[c].enabled # (domains'[lookup[c].domain] = "enabled")
                 PROVE  since'[lookup[c].domain] <= lookup[c].age
      BY DEF StaleAnswer, Disagrees, IsDomainEnabled
    <2>1. lookup[c].domain \in Domains /\ lookup[c].age \in Nat
      BY DEF IInv, TypeOK, Lookup, NoLookup
    <2> QED BY <1>1, <2>1 DEF IInv, StaleAnswer, Disagrees, IsDomainEnabled
  <1>3. StaleEntry'
    <2> SUFFICES ASSUME NEW e \in Domains, CacheHit(e),
                        cache[e].enabled # (domains'[e] = "enabled")
                 PROVE  since'[e] + cache[e].left <= Horizon
      BY DEF StaleEntry, Disagrees, IsDomainEnabled, CacheHit
    <2>1. cache[e].left \in 0..TTL
      BY EntryLeft DEF IInv
    <2> QED BY <1>1, <2>1 DEF IInv, StaleEntry, Disagrees, IsDomainEnabled, Horizon
  <1> QED BY <1>2, <1>3

(* Every step keeps the two bounds.                                        *)
LEMMA StaleStep == IInv /\ [Next]_vars => StaleAnswer' /\ StaleEntry'
  <1> SUFFICES ASSUME IInv, [Next]_vars PROVE StaleAnswer' /\ StaleEntry'
    OBVIOUS
  <1> USE DEF IInv
  \* A step that only moves lookups, none of them to "answered".
  <1>a. ASSUME NEW c \in Conns, NEW l, l.pc # "answered",
               lookup' = [lookup EXCEPT ![c] = l],
               UNCHANGED <<domains, cache, since>>
        PROVE  StaleAnswer' /\ StaleEntry'
    BY <1>a DEF TypeOK, StaleAnswer, StaleEntry, Disagrees, IsDomainEnabled, CacheHit
  <1>1. ASSUME NEW c \in Conns, NEW d \in Domains, LookupHit(c, d)
        PROVE  StaleAnswer' /\ StaleEntry'
    BY <1>1, <1>a DEF LookupHit, Decided
  <1>2. ASSUME NEW c \in Conns, NEW d \in Domains, LookupMiss(c, d)
        PROVE  StaleAnswer' /\ StaleEntry'
    BY <1>2, <1>a DEF LookupMiss, Querying
  <1>3. ASSUME NEW c \in Conns, Query(c) PROVE StaleAnswer' /\ StaleEntry'
    BY <1>3 DEF TypeOK, Query, Answered, StaleAnswer, StaleEntry, Disagrees,
                IsDomainEnabled, CacheHit
  <1>4. ASSUME NEW c \in Conns, QueryFails(c) PROVE StaleAnswer' /\ StaleEntry'
    BY <1>4, <1>a DEF QueryFails, Decided
  <1>5. ASSUME NEW c \in Conns, Store(c) PROVE StaleAnswer' /\ StaleEntry'
    <2>1. StaleAnswer'
      BY <1>5 DEF TypeOK, Store, Decided, StaleAnswer, Disagrees, IsDomainEnabled
    <2>2. StaleEntry'
      <3> DEFINE d == lookup[c].domain
      <3>1. d \in Domains /\ lookup[c].age \in 0..Latency /\ since[d] \in Nat
        BY <1>5 DEF TypeOK, Store, Lookup, NoLookup
      <3>2. Disagrees(d, lookup[c].enabled) => since[d] + TTL <= Horizon
        BY <1>5, <3>1 DEF Store, StaleAnswer, Horizon
      <3>3. cache'[d] = CacheEntry(lookup[c].enabled)
        BY <1>5, <3>1 DEF TypeOK, Store
      <3>4. \A e \in Domains \ {d} : cache'[e] = cache[e]
        BY <1>5 DEF TypeOK, Store
      <3> QED
        BY <1>5, <3>2, <3>3, <3>4
        DEF Store, StaleEntry, Disagrees, IsDomainEnabled, CacheHit, CacheEntry
    <2> QED BY <2>1, <2>2
  <1>6. ASSUME NEW c \in Conns, Return(c) PROVE StaleAnswer' /\ StaleEntry'
    BY <1>6, <1>a DEF Return, NoLookup
  <1>7. ASSUME NEW d \in Domains, AddDomain(d) PROVE StaleAnswer' /\ StaleEntry'
    BY <1>7, WriteKeepsBounds DEF AddDomain, RowState
  <1>8. ASSUME NEW a \in Admins, NEW d \in Domains, ToggleRead(a, d)
        PROVE  StaleAnswer' /\ StaleEntry'
    BY <1>8 DEF ToggleRead, StaleAnswer, StaleEntry, Disagrees, IsDomainEnabled, CacheHit
  <1>9. ASSUME NEW a \in Admins, ToggleWrite(a) PROVE StaleAnswer' /\ StaleEntry'
    <2>1. toggle[a].domain \in Domains
      BY <1>9 DEF TypeOK, ToggleWrite, Toggle, NoToggle
    <2>2. RowFor(Negation(toggle[a].enabled)) \in RowState
      BY DEF RowFor, RowState
    <2> QED BY <1>9, <2>1, <2>2, WriteKeepsBounds DEF ToggleWrite
  <1>10. ASSUME NEW a \in Admins, ToggleFails(a) PROVE StaleAnswer' /\ StaleEntry'
    BY <1>10 DEF ToggleFails, StaleAnswer, StaleEntry, Disagrees, IsDomainEnabled, CacheHit
  <1>11. CASE Start
    <2>1. CASE SeedNeeded
      BY <1>11, <2>1, WriteKeepsBounds DEF Start, SeedNeeded, RowState
    <2>2. CASE ~SeedNeeded
      BY <1>11, <2>2 DEF Start, StaleAnswer, StaleEntry, Disagrees, IsDomainEnabled, CacheHit
    <2> QED BY <2>1, <2>2
  <1>12. CASE Stop
    BY <1>12 DEF Stop, NoLookup, NoEntry, StaleAnswer, StaleEntry, CacheHit
  <1>13. CASE Tick
    <2>1. ASSUME NEW d \in Domains
          PROVE  since[d] \in Nat /\ since'[d] \in Nat /\ since'[d] <= since[d] + 1
      BY <1>13, <2>1 DEF TypeOK, Tick, Horizon
    <2>2. StaleAnswer'
      <3> SUFFICES ASSUME NEW c \in Conns, Aged(lookup[c]).pc = "answered",
                          Disagrees(Aged(lookup[c]).domain, Aged(lookup[c]).enabled)
                   PROVE  since'[Aged(lookup[c]).domain] <= Aged(lookup[c]).age
        BY <1>13 DEF Tick, StaleAnswer, Disagrees, IsDomainEnabled
      <3>1. lookup[c].pc = "answered"
        BY DEF Aged
      <3>2. lookup[c].domain \in Domains /\ lookup[c].age \in Nat
        BY <3>1 DEF TypeOK, Lookup, NoLookup
      <3>3. /\ Aged(lookup[c]).domain = lookup[c].domain
            /\ Aged(lookup[c]).enabled = lookup[c].enabled
            /\ Aged(lookup[c]).age = lookup[c].age + 1
        BY <3>1 DEF Aged, TypeOK, Lookup, NoLookup
      <3> QED BY <2>1, <3>1, <3>2, <3>3 DEF StaleAnswer
    <2>3. StaleEntry'
      <3> SUFFICES ASSUME NEW d \in Domains, CacheHit(d)', Disagrees(d, cache'[d].enabled)
                   PROVE  since'[d] + cache'[d].left <= Horizon
        BY <1>13 DEF Tick, StaleEntry, Disagrees, IsDomainEnabled
      <3>1. cache'[d] = Faded(cache[d]) /\ cache'[d].found /\ cache'[d].left > 0
        BY <1>13 DEF Tick, CacheHit
      <3>2. cache[d].left \in 0..TTL /\ cache[d].left # 0
        BY <3>1, EntryLeft
      <3>3. /\ cache'[d].left = cache[d].left - 1
            /\ cache'[d].enabled = cache[d].enabled
            /\ cache'[d].found = cache[d].found
        BY <3>1, <3>2, EntryLeft
      <3>4. CacheHit(d)
        BY <3>1, <3>2, <3>3 DEF CacheHit
      <3>5. since[d] + cache[d].left <= Horizon /\ Horizon \in Nat
        BY <3>3, <3>4 DEF StaleEntry, Horizon
      <3> QED BY <2>1, <3>2, <3>3, <3>5
    <2> QED BY <2>2, <2>3
  <1>14. CASE UNCHANGED vars
    BY <1>14 DEF vars, StaleAnswer, StaleEntry, Disagrees, IsDomainEnabled, CacheHit
  <1> QED BY <1>1, <1>2, <1>3, <1>4, <1>5, <1>6, <1>7, <1>8, <1>9, <1>10,
             <1>11, <1>12, <1>13, <1>14 DEF Next

LEMMA IInvAlways == Spec => []IInv
  <1>1. Init => IInv
    BY TypeInit, StaleInit DEF IInv
  <1>2. IInv /\ [Next]_vars => IInv'
    BY TypeStep, StaleStep DEF IInv
  <1> QED BY <1>1, <1>2, PTL DEF Spec

(* However lookups, admin requests and restarts interleave, the domain     *)
(* cache contradicts the table only for less than TTL + Latency after a    *)
(* change of the row.                                                      *)
THEOREM CacheStalenessBounded == Spec => []StalenessBounded
  <1>1. IInv => StalenessBounded
    <2> SUFFICES ASSUME IInv, NEW d \in Domains, CacheHit(d), Disagrees(d, cache[d].enabled)
                 PROVE  since[d] < Horizon
      BY DEF StalenessBounded
    <2>1. cache[d].left \in 1..TTL /\ since[d] \in Nat /\ Horizon \in Nat
      BY EntryLeft DEF IInv, TypeOK, CacheHit, Horizon
    <2>2. since[d] + cache[d].left <= Horizon
      BY DEF IInv, StaleEntry
    <2> QED BY <2>1, <2>2
  <1> QED BY <1>1, IInvAlways, PTL

\* An answer in flight and a stored one are dated: they contradict the table only
\* as long as the row's last change allows (backend.go:42-46, domaincache.go:49-57).
THEOREM AnswersDated == Spec => []StaleAnswer
  BY IInvAlways, PTL DEF IInv

THEOREM EntriesDated == Spec => []StaleEntry
  BY IInvAlways, PTL DEF IInv

(* What domainAllowed returns is either the table's answer at that moment, *)
(* an error, or less than TTL + Latency out of date.                       *)
THEOREM VerdictsFresh == Spec => VerdictFresh
  <1> DEFINE Fresh(c) ==
        lookup[c].pc # "decided" /\ lookup'[c].pc = "decided" =>
            \/ lookup'[c].verdict \in {"error", Verdict(IsDomainEnabled(lookup'[c].domain))}
            \/ since[lookup'[c].domain] < Horizon
  <1>1. IInv /\ StalenessBounded /\ [Next]_vars => \A c \in Conns : Fresh(c)
    <2> SUFFICES ASSUME IInv, StalenessBounded, [Next]_vars, NEW c \in Conns,
                        lookup[c].pc # "decided", lookup'[c].pc = "decided"
                 PROVE  \/ lookup'[c].verdict
                             \in {"error", Verdict(IsDomainEnabled(lookup'[c].domain))}
                        \/ since[lookup'[c].domain] < Horizon
      OBVIOUS
    <2> USE DEF IInv
    <2>1. ASSUME NEW b \in Conns, b # c, NEW l, lookup' = [lookup EXCEPT ![b] = l]
          PROVE  FALSE
      BY <2>1 DEF TypeOK
    <2>2. ASSUME UNCHANGED lookup PROVE FALSE
      BY <2>2
    <2>3. \A l : lookup' = [lookup EXCEPT ![c] = l] => lookup'[c] = l
      BY DEF TypeOK
    <2>4. ASSUME NEW d \in Domains, LookupHit(c, d)
          PROVE  \/ lookup'[c].verdict
                      \in {"error", Verdict(IsDomainEnabled(lookup'[c].domain))}
                 \/ since[lookup'[c].domain] < Horizon
      <3>1. lookup'[c] = Decided(d, Verdict(cache[d].enabled)) /\ CacheHit(d)
        BY <2>3, <2>4 DEF LookupHit
      <3> QED BY <3>1 DEF Decided, StalenessBounded, Disagrees
    <2>5. ASSUME Store(c)
          PROVE  \/ lookup'[c].verdict
                      \in {"error", Verdict(IsDomainEnabled(lookup'[c].domain))}
                 \/ since[lookup'[c].domain] < Horizon
      <3>1. /\ lookup[c].pc = "answered"
            /\ lookup'[c] = Decided(lookup[c].domain, Verdict(lookup[c].enabled))
        BY <2>3, <2>5 DEF Store
      <3>2. lookup[c].domain \in Domains /\ lookup[c].age \in 0..Latency
        BY <3>1 DEF TypeOK, Lookup, NoLookup
      <3>3. since[lookup[c].domain] \in Nat
        BY <3>2 DEF TypeOK, Horizon
      <3>4. Disagrees(lookup[c].domain, lookup[c].enabled)
                => since[lookup[c].domain] < Horizon
        BY <3>1, <3>2, <3>3 DEF StaleAnswer, Horizon
      <3> QED BY <3>1, <3>4 DEF Decided, Disagrees
    <2>6. ASSUME QueryFails(c) PROVE lookup'[c].verdict = "error"
      BY <2>3, <2>6 DEF QueryFails, Decided
    <2>7. ASSUME NEW b \in Conns, NEW d \in Domains, LookupHit(b, d) PROVE b = c
      BY <2>1, <2>7 DEF LookupHit
    <2>8. ASSUME NEW b \in Conns, NEW d \in Domains, LookupMiss(b, d) PROVE FALSE
      BY <2>1, <2>3, <2>8 DEF LookupMiss, Querying
    <2>9. ASSUME NEW b \in Conns, Query(b) PROVE FALSE
      BY <2>1, <2>3, <2>9 DEF Query, Answered
    <2>10. ASSUME NEW b \in Conns, Store(b) \/ QueryFails(b) PROVE b = c
      BY <2>1, <2>10 DEF Store, QueryFails
    <2>11. ASSUME NEW b \in Conns, Return(b) PROVE FALSE
      BY <2>1, <2>3, <2>11 DEF Return, NoLookup
    <2>12. ASSUME \/ \E d \in Domains : AddDomain(d)
                  \/ \E a \in Admins, d \in Domains : ToggleRead(a, d)
                  \/ \E a \in Admins : ToggleWrite(a) \/ ToggleFails(a)
                  \/ Start \/ UNCHANGED vars
           PROVE  FALSE
      BY <2>2, <2>12 DEF AddDomain, ToggleRead, ToggleWrite, ToggleFails, Start, vars
    <2>13. ASSUME Stop PROVE FALSE
      BY <2>13 DEF Stop, NoLookup
    <2>14. ASSUME Tick PROVE FALSE
      <3>1. lookup'[c] = Aged(lookup[c])
        BY <2>14 DEF Tick
      <3> QED BY <3>1 DEF Aged, TypeOK, Lookup, NoLookup
    <2> QED BY <2>4, <2>5, <2>6, <2>7, <2>8, <2>9, <2>10, <2>11, <2>12, <2>13, <2>14 DEF Next
  <1> QED BY <1>1, IInvAlways, CacheStalenessBounded, PTL DEF Spec, VerdictFresh

(* Nothing is in progress while the process is down.                       *)
DownIsIdle == ~up => \A a \in Admins : toggle[a] = NoToggle

LEMMA DownIsIdleAlways == Spec => []DownIsIdle
  <1>1. Init => DownIsIdle
    BY DEF Init, DownIsIdle
  <1>2. TypeOK /\ DownIsIdle /\ [Next]_vars => DownIsIdle'
    BY DEF TypeOK, DownIsIdle, Next, vars, LookupHit, LookupMiss, Query, QueryFails, Store,
           Return, AddDomain, ToggleRead, ToggleWrite, ToggleFails, Start, Stop, Tick
  <1> QED BY <1>1, <1>2, TypeCorrect, PTL DEF Spec

(* seedDomain changes the table only while it is empty.                    *)
THEOREM RestartsKeepTable == Spec => RestartKeepsTable
  <1>1. DownIsIdle /\ [Next]_vars =>
            (~up /\ (\E d \in Domains : domains[d] # "absent") => domains' = domains)
    BY DEF DownIsIdle, Next, vars, LookupHit, LookupMiss, Query, QueryFails, Store,
           Return, AddDomain, ToggleRead, ToggleWrite, ToggleFails, Start, SeedNeeded,
           Stop, Tick, NoToggle
  <1> QED BY <1>1, DownIsIdleAlways, PTL DEF Spec, RestartKeepsTable
-----------------------------------------------------------------------------
(* Convergence.  That time passes is stated without ENABLED and without    *)
(* counting ticks: a row that is left alone for ever grows TTL + Latency   *)
(* old.  Fairness of Tick and of Store is what lets it.                    *)

RowsAge ==
    \A d \in Domains, row \in RowState :
        <>[](domains[d] = row) => []<>(since[d] = Horizon)

Ages(d, row) == <>[](domains[d] = row) => []<>(since[d] = Horizon)

Agrees(d, row) ==
    <>[](domains[d] = row) => <>[](CacheHit(d) => cache[d].enabled = (row = "enabled"))

\* Only a change of the row makes it young again.
LEMMA OldStaysOld ==
    ASSUME TypeOK, [Next]_vars, NEW d \in Domains, since[d] = Horizon,
           domains'[d] = domains[d]
    PROVE  since'[d] = Horizon
  <1>1. ASSUME NEW e \in Domains, NEW row \in RowState, WriteRow(e, row)
        PROVE  since'[d] = Horizon
    BY <1>1 DEF WriteRow, TypeOK
  <1>2. ASSUME UNCHANGED since PROVE since'[d] = Horizon
    BY <1>2
  <1>3. ASSUME NEW e \in Domains, AddDomain(e) PROVE since'[d] = Horizon
    BY <1>1, <1>3 DEF AddDomain, RowState
  <1>4. ASSUME NEW a \in Admins, ToggleWrite(a) PROVE since'[d] = Horizon
    <2>1. toggle[a].domain \in Domains
      BY <1>4 DEF ToggleWrite, TypeOK, Toggle, NoToggle
    <2> QED BY <1>1, <1>4, <2>1 DEF ToggleWrite, RowFor, RowState
  <1>5. CASE Start
    <2>1. SeedNeeded => Seed \in Domains
      BY DEF SeedNeeded
    <2> QED BY <1>1, <1>2, <1>5, <2>1 DEF Start, RowState
  <1>6. CASE Tick
    BY <1>6 DEF Tick
  <1> QED
    BY <1>2, <1>3, <1>4, <1>5, <1>6
       DEF Next, vars, LookupHit, LookupMiss, Query, QueryFails, Store, Return, ToggleRead,
           ToggleFails, Stop

(* Once a domain is left alone the cache comes to agree with the table for *)
(* good: the entries that do not are gone when the row is old enough, and  *)
(* no lookup can bring one back (backend.go:36-48, domaincache.go:35-57).  *)
THEOREM CacheConverges == Spec /\ RowsAge => EventuallyAgrees
  <1>1. ASSUME NEW d \in Domains, NEW row \in RowState
        PROVE  Spec /\ Ages(d, row) => Agrees(d, row)
    <2> DEFINE P == domains[d] = row
               H == since[d] = Horizon
               A == CacheHit(d) => cache[d].enabled = (row = "enabled")
    <2>1. TypeOK /\ [Next]_vars /\ P /\ P' /\ H => H'
      BY OldStaysOld
    <2>2. StalenessBounded /\ P /\ H => A
      BY DEF StalenessBounded, Disagrees, IsDomainEnabled, Horizon
    <2>3. Ages(d, row) <=> (<>[]P => []<>H)
      BY DEF Ages
    <2>4. Agrees(d, row) <=> (<>[]P => <>[]A)
      BY DEF Agrees
    <2> HIDE DEF P, H, A
    <2> QED BY <2>1, <2>2, <2>3, <2>4, TypeCorrect, CacheStalenessBounded, PTL DEF Spec
  <1>2. RowsAge <=> \A d \in Domains, row \in RowState : Ages(d, row)
    BY DEF RowsAge, Ages
  <1>3. Spec /\ RowsAge => \A d \in Domains, row \in RowState : Agrees(d, row)
    BY <1>1, <1>2
  <1> QED BY <1>3 DEF EventuallyAgrees, Agrees
=============================================================================
