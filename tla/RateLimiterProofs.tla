--------------------------- MODULE RateLimiterProofs --------------------------
(***************************************************************************)
(* Proofs about RateLimiter, for any clients, callers, limit, window and   *)
(* lock wait.  The limiter forgets all but the current window, so the      *)
(* bound over two windows rests on WindowsInv, which relates the whole log *)
(* of admissions to the one entry that is left of it: what was admitted in *)
(* the entry's window, before it, and before the window before.            *)
(***************************************************************************)
EXTENDS RateLimiter, TLAPS

USE RateLimiterAssumption

LEMMA CallFields ==
    ASSUME NEW x \in Call
    PROVE  /\ x.pc \in {"idle", "locking", "admitted", "refused"}
           /\ x.pc # "idle" => x.key \in Keys /\ x.now \in Nat
           /\ x.pc = "refused" => x.retryAfter \in Nat
  BY DEF Call, Idle

LEMMA EntryFields ==
    ASSUME NEW e \in Entry \union {NoEntry}
    PROVE  e.found \in BOOLEAN /\ e.windowStart \in Nat /\ e.count \in Nat
  <1>1. CASE e \in Entry
    BY <1>1 DEF Entry
  <1>2. CASE e = NoEntry
    BY <1>2 DEF NoEntry
  <1> QED BY <1>1, <1>2

\* The entry an admission leaves: one more in the window it was decided in.
Counted(e, f) == f.windowStart = e.windowStart /\ f.count = e.count + 1

LEMMA CurrentIsEntry ==
    ASSUME TypeOK, NEW k \in Keys, NEW now \in Nat
    PROVE  /\ Current(k, now) \in Entry
           /\ \/ /\ entries[k].found /\ ~WindowOver(entries[k], now)
                 /\ Current(k, now) = entries[k]
              \/ /\ WindowOver(entries[k], now)
                 /\ Current(k, now).windowStart = now /\ Current(k, now).count = 0
  <1>1. CASE WindowOver(entries[k], now)
    <2> DEFINE e == [found |-> TRUE, windowStart |-> now, count |-> 0]
    <2>1. Current(k, now) = e
      BY <1>1 DEF Current
    <2>2. e \in Entry
      BY DEF Entry
    <2>3. e.windowStart = now /\ e.count = 0
      OBVIOUS
    <2> QED BY <1>1, <2>1, <2>2, <2>3
  <1>2. CASE ~WindowOver(entries[k], now)
    <2>1. Current(k, now) = entries[k] /\ entries[k].found
      BY <1>2 DEF Current, WindowOver
    <2>2. entries[k] \in Entry \union {NoEntry} /\ ~NoEntry.found
      BY DEF TypeOK, NoEntry
    <2>3. entries[k] \in Entry
      BY <2>1, <2>2
    <2> QED BY <1>2, <2>1, <2>3
  <1> QED BY <1>1, <1>2

LEMMA CountedForm ==
    ASSUME NEW e \in Entry
    PROVE  LET f == [e EXCEPT !.count = @ + 1] IN f \in Entry /\ f.found /\ Counted(e, f)
  <1> DEFINE n == e.count + 1
             f == [e EXCEPT !.count = n]
  <1>1. n \in Nat
    BY DEF Entry
  <1> HIDE DEF n
  <1>2. f \in Entry
    BY <1>1, Zenon DEF Entry
  <1>3. f.windowStart = e.windowStart /\ f.count = n
    BY DEF Entry
  <1>4. f.found
    BY <1>2 DEF Entry
  <1> QED BY <1>2, <1>3, <1>4 DEF n, Counted

\* What an admission and a refusal do, in terms of the entry they decided by.
LEMMA Admission ==
    ASSUME TypeOK, NEW c \in Callers, Admit(c)
    PROVE  \E k \in Keys, f \in Entry :
               LET now == call[c].now
                   e   == Current(k, now)
               IN  /\ k = call[c].key /\ now \in Nat
                   /\ e \in Entry /\ e.count < Limit /\ f.found /\ Counted(e, f)
                   /\ entries' = [entries EXCEPT ![k] = f]
                   /\ log' = [log EXCEPT ![k] = Append(log[k], clock)]
                   /\ UNCHANGED clock
                   /\ \E x \in Call : x.pc = "admitted" /\ call' = [call EXCEPT ![c] = x]
  <1> DEFINE k == call[c].key
             now == call[c].now
             e == Current(k, now)
             f == [e EXCEPT !.count = @ + 1]
             x == [pc |-> "admitted", key |-> k, now |-> now, remaining |-> Limit - (e.count + 1)]
  <1>1. k \in Keys /\ now \in Nat
    BY CallFields DEF Admit, TypeOK
  <1>2. e \in Entry
    BY <1>1, CurrentIsEntry
  <1>3. e.count < Limit
    BY DEF Admit, Room
  <1>4. Limit - (e.count + 1) \in Nat
    BY <1>2, <1>3 DEF Entry
  <1>5. x \in Call
    BY <1>1, <1>4 DEF Call
  <1>6. f \in Entry /\ f.found /\ Counted(e, f)
    BY <1>2, CountedForm
  <1>7. /\ entries' = [entries EXCEPT ![k] = f]
        /\ log' = [log EXCEPT ![k] = Append(log[k], clock)]
        /\ UNCHANGED clock
        /\ call' = [call EXCEPT ![c] = x]
    BY DEF Admit
  <1>8. x.pc = "admitted"
    OBVIOUS
  <1> HIDE DEF x, f, e
  <1>9. \E y \in Call : y.pc = "admitted" /\ call' = [call EXCEPT ![c] = y]
    BY <1>5, <1>7, <1>8
  <1> QED BY <1>1, <1>2, <1>3, <1>6, <1>7, <1>9 DEF e

LEMMA Refusal ==
    ASSUME TypeOK, NEW c \in Callers, Refuse(c)
    PROVE  \E k \in Keys :
               LET now == call[c].now
                   e   == Current(k, now)
               IN  /\ k = call[c].key /\ now \in Nat
                   /\ e \in Entry /\ e.count >= Limit
                   /\ UNCHANGED <<clock, entries, log>>
                   /\ \E x \in Call : /\ x.pc = "refused" /\ x.key = k /\ x.now = now
                                      /\ x.retryAfter = RetryAfter(e, now)
                                      /\ call' = [call EXCEPT ![c] = x]
  <1> DEFINE k == call[c].key
             now == call[c].now
             e == Current(k, now)
             x == [pc |-> "refused", key |-> k, now |-> now, retryAfter |-> RetryAfter(e, now)]
  <1>1. k \in Keys /\ now \in Nat
    BY CallFields DEF Refuse, TypeOK
  <1>2. e \in Entry
    BY <1>1, CurrentIsEntry
  <1>3. RetryAfter(e, now) \in Nat
    BY <1>1, <1>2 DEF RetryAfter, Entry
  <1>4. x \in Call
    BY <1>1, <1>3 DEF Call
  <1>5. e.count >= Limit /\ UNCHANGED <<clock, entries, log>> /\ call' = [call EXCEPT ![c] = x]
    BY <1>2 DEF Refuse, Room, AfterRefusal, Entry
  <1>6. x.pc = "refused" /\ x.key = k /\ x.now = now /\ x.retryAfter = RetryAfter(e, now)
    OBVIOUS
  <1> HIDE DEF x
  <1>7. \E y \in Call : /\ y.pc = "refused" /\ y.key = k /\ y.now = now
                        /\ y.retryAfter = RetryAfter(e, now)
                        /\ call' = [call EXCEPT ![c] = y]
    BY <1>4, <1>5, <1>6
  <1> HIDE DEF e
  <1> QED BY <1>1, <1>2, <1>5, <1>7 DEF e

-----------------------------------------------------------------------------
(* Types.                                                                  *)

LEMMA TypeStep == TypeOK /\ [Next]_vars => TypeOK'
  <1> SUFFICES ASSUME TypeOK, [Next]_vars PROVE TypeOK'
    OBVIOUS
  <1>1. ASSUME NEW c \in Callers, NEW k \in Keys, Allow(c, k) PROVE TypeOK'
    BY <1>1 DEF Allow, TypeOK, Call
  <1>2. ASSUME NEW c \in Callers, Admit(c) PROVE TypeOK'
    <2>1. PICK k \in Keys, f \in Entry, x \in Call :
              /\ entries' = [entries EXCEPT ![k] = f]
              /\ log' = [log EXCEPT ![k] = Append(log[k], clock)]
              /\ UNCHANGED clock
              /\ call' = [call EXCEPT ![c] = x]
      BY <1>2, Admission
    <2>2. Append(log[k], clock) \in Seq(Nat)
      BY DEF TypeOK
    <2> QED BY <2>1, <2>2 DEF TypeOK
  <1>3. ASSUME NEW c \in Callers, Refuse(c) PROVE TypeOK'
    BY <1>3, Refusal DEF TypeOK
  <1>4. ASSUME NEW c \in Callers, Return(c) PROVE TypeOK'
    BY <1>4 DEF Return, TypeOK, Call
  <1>5. CASE Tick
    BY <1>5 DEF Tick, TypeOK
  <1>6. CASE UNCHANGED vars
    BY <1>6 DEF vars, TypeOK
  <1> QED BY <1>1, <1>2, <1>3, <1>4, <1>5, <1>6 DEF Next

\* Entries, calls and counts are natural numbers however callers interleave
\* (fixed_window.go:28-74).
THEOREM TypeCorrect == Spec => []TypeOK
  <1>1. Init => TypeOK
    BY DEF Init, TypeOK, Call
  <1> QED BY <1>1, TypeStep, PTL DEF Spec

-----------------------------------------------------------------------------
(* Windows.                                                                *)

\* A caller that waits for the lock read the clock at most Latency ago.
CallsInv ==
    \A c \in Callers :
        call[c].pc = "locking" =>
            /\ Limit > 0 /\ Window > 0
            /\ call[c].now <= clock /\ clock <= call[c].now + Latency

\* The entry e counts the last e.count admissions of the log l; what came before
\* was admitted when its window had hardly begun, and what came a whole limit
\* before that, when the window before had.
WindowOK(e, l) ==
    /\ ~e.found => l = <<>>
    /\ e.found =>
           /\ e.count <= Limit /\ e.count <= Len(l) /\ e.windowStart <= clock
           /\ \A j \in 1..Len(l) :
                  /\ j + e.count > Len(l) => l[j] >= e.windowStart
                  /\ j + e.count <= Len(l) => l[j] <= e.windowStart + Latency
                  /\ j + e.count + Limit <= Len(l) => l[j] + Window <= e.windowStart + Latency

WindowsInv == \A k \in Keys : WindowOK(entries[k], log[k])

Past(l) == \A j \in 1..Len(l) : l[j] <= clock

Spread(l) ==
    \A i \in 1..Len(l) :
        i + 2 * Limit <= Len(l) => l[i + 2 * Limit] + Latency >= l[i] + Window

\* One admission more.
LEMMA AdmissionKeepsWindow ==
    ASSUME NEW l \in Seq(Nat), NEW e \in Entry \union {NoEntry}, NEW f \in Entry,
           NEW now \in Nat, clock \in Nat, now <= clock, clock <= now + Latency, f.found,
           WindowOK(e, l), Past(l), Spread(l),
           \/ /\ e.found /\ e.count < Limit
              /\ f.windowStart = e.windowStart /\ f.count = e.count + 1
           \/ /\ WindowOver(e, now) /\ 0 < Limit
              /\ f.windowStart = now /\ f.count = 1
    PROVE  LET m == Append(l, clock) IN WindowOK(f, m) /\ Past(m) /\ Spread(m)
  <1> DEFINE m == Append(l, clock)
             n == Len(l)
  <1>1. n \in Nat /\ Len(m) = n + 1 /\ m[n + 1] = clock
        /\ \A j \in 1..n : m[j] = l[j] /\ l[j] \in Nat
    OBVIOUS
  <1>2. f.windowStart \in Nat /\ f.count \in Nat /\ e.windowStart \in Nat /\ e.count \in Nat
    BY EntryFields
  <1> HIDE DEF m, n
  <1>3. Past(m)
    BY <1>1 DEF Past, n
  <1>4. WindowOK(f, m)
    <2>1. CASE /\ e.found /\ e.count < Limit
               /\ f.windowStart = e.windowStart /\ f.count = e.count + 1
      <3>1. f.count <= Limit /\ f.count <= Len(m) /\ f.windowStart <= clock
        BY <1>1, <1>2, <2>1 DEF WindowOK, n
      <3>2. ASSUME NEW j \in 1..Len(m)
            PROVE  /\ j + f.count > Len(m) => m[j] >= f.windowStart
                   /\ j + f.count <= Len(m) => m[j] <= f.windowStart + Latency
                   /\ j + f.count + Limit <= Len(m) => m[j] + Window <= f.windowStart + Latency
        <4>1. CASE j = n + 1
          BY <1>1, <1>2, <2>1, <3>1, <4>1
        <4>2. CASE j \in 1..n
          <5>1. /\ j + e.count > n => l[j] >= e.windowStart
                /\ j + e.count <= n => l[j] <= e.windowStart + Latency
                /\ j + e.count + Limit <= n => l[j] + Window <= e.windowStart + Latency
            BY <2>1, <4>2 DEF WindowOK, n
          <5>2. m[j] = l[j] /\ l[j] \in Nat /\ j \in Nat
            BY <1>1, <4>2
          <5> QED BY <1>1, <1>2, <2>1, <5>1, <5>2, SMTT(30)
        <4> QED BY <1>1, <4>1, <4>2
      <3> QED BY <3>1, <3>2 DEF WindowOK
    <2>2. CASE WindowOver(e, now) /\ 0 < Limit /\ f.windowStart = now /\ f.count = 1
      <3>1. f.count <= Limit /\ f.count <= Len(m) /\ f.windowStart <= clock
        BY <1>1, <2>2
      <3>2. ASSUME NEW j \in 1..Len(m)
            PROVE  /\ j + f.count > Len(m) => m[j] >= f.windowStart
                   /\ j + f.count <= Len(m) => m[j] <= f.windowStart + Latency
                   /\ j + f.count + Limit <= Len(m) => m[j] + Window <= f.windowStart + Latency
        <4>1. CASE j = n + 1
          BY <1>1, <2>2, <4>1
        <4>2. CASE j \in 1..n
          <5>1. m[j] = l[j] /\ l[j] <= clock /\ l[j] \in Nat /\ j + f.count <= Len(m)
            BY <1>1, <2>2, <4>2 DEF Past, n
          <5>2. e.found /\ e.windowStart + Window <= now
            BY <1>1, <1>2, <2>2, <4>2 DEF WindowOK, WindowOver, n
          <5>3. j + f.count + Limit <= Len(m) => l[j] <= e.windowStart + Latency
            BY <1>1, <1>2, <2>2, <4>2, <5>2 DEF WindowOK, n
          <5> QED BY <1>1, <1>2, <2>2, <5>1, <5>2, <5>3, SMTT(30)
        <4> QED BY <1>1, <4>1, <4>2
      <3> QED BY <3>1, <3>2 DEF WindowOK
    <2> QED BY <2>1, <2>2
  <1>5. Spread(m)
    <2> SUFFICES ASSUME NEW i \in 1..Len(m), i + 2 * Limit <= Len(m)
                 PROVE  m[i + 2 * Limit] + Latency >= m[i] + Window
      BY DEF Spread
    <2>0. Limit > 0 /\ f.count <= Limit /\ f.windowStart <= clock
      BY <1>2, <1>4 DEF WindowOK
    <2>1. CASE i + 2 * Limit = Len(m)
      <3>1. m[i] + Window <= f.windowStart + Latency
        BY <1>1, <1>2, <1>4, <2>0, <2>1 DEF WindowOK
      <3>2. m[i + 2 * Limit] = clock /\ m[i] \in Nat
        BY <1>1, <2>0, <2>1
      <3> QED BY <1>2, <2>0, <3>1, <3>2
    <2>2. CASE i + 2 * Limit <= n
      BY <1>1, <2>0, <2>2, SMTT(30) DEF Spread, n
    <2> QED BY <1>1, <2>1, <2>2
  <1> QED BY <1>3, <1>4, <1>5 DEF m

LimiterInv ==
    /\ CallsInv /\ WindowsInv
    /\ \A k \in Keys : Past(log[k]) /\ Spread(log[k])

LEMMA LimiterStep == TypeOK /\ LimiterInv /\ [Next]_vars => LimiterInv'
  <1> SUFFICES ASSUME TypeOK, LimiterInv, [Next]_vars PROVE LimiterInv'
    OBVIOUS
  <1>0. ASSUME UNCHANGED <<clock, entries, log>>, CallsInv' PROVE LimiterInv'
    BY <1>0 DEF LimiterInv, WindowsInv, WindowOK, Past, Spread
  <1>1. ASSUME NEW c \in Callers, NEW k \in Keys, Allow(c, k) PROVE LimiterInv'
    <2>1. CallsInv'
      BY <1>1 DEF Allow, Disabled, CallsInv, LimiterInv, TypeOK
    <2> QED BY <1>0, <1>1, <2>1 DEF Allow
  <1>2. ASSUME NEW c \in Callers, Admit(c) PROVE LimiterInv'
    <2> DEFINE now == call[c].now
    <2>1. PICK k \in Keys, f \in Entry, x \in Call :
              /\ k = call[c].key /\ now \in Nat
              /\ Current(k, now) \in Entry /\ Current(k, now).count < Limit
              /\ f.found /\ Counted(Current(k, now), f)
              /\ entries' = [entries EXCEPT ![k] = f]
              /\ log' = [log EXCEPT ![k] = Append(log[k], clock)]
              /\ UNCHANGED clock
              /\ x.pc = "admitted" /\ call' = [call EXCEPT ![c] = x]
      BY <1>2, Admission
    <2>2. now <= clock /\ clock <= now + Latency
      BY <1>2 DEF Admit, LimiterInv, CallsInv
    <2>3. CallsInv'
      BY <2>1 DEF CallsInv, LimiterInv, TypeOK
    <2> HIDE DEF now
    <2>4. \/ /\ entries[k].found /\ entries[k].count < Limit
             /\ f.windowStart = entries[k].windowStart /\ f.count = entries[k].count + 1
          \/ /\ WindowOver(entries[k], now) /\ 0 < Limit
             /\ f.windowStart = now /\ f.count = 1
      BY <2>1, CurrentIsEntry DEF Counted
    <2>5. LET m == Append(log[k], clock) IN WindowOK(f, m) /\ Past(m) /\ Spread(m)
      BY <2>1, <2>2, <2>4, AdmissionKeepsWindow DEF LimiterInv, WindowsInv, TypeOK
    <2>6. ASSUME NEW u \in Keys PROVE (WindowOK(entries[u], log[u]) /\ Past(log[u]) /\ Spread(log[u]))'
      <3>1. CASE u = k
        <4>1. entries'[u] = f /\ log'[u] = Append(log[k], clock) /\ clock' = clock
          BY <2>1, <3>1 DEF TypeOK
        <4> QED BY <2>5, <4>1 DEF WindowOK, Past, Spread
      <3>2. CASE u # k
        <4>1. entries'[u] = entries[u] /\ log'[u] = log[u] /\ clock' = clock
          BY <2>1, <3>2 DEF TypeOK
        <4> QED BY <4>1 DEF LimiterInv, WindowsInv, WindowOK, Past, Spread
      <3> QED BY <3>1, <3>2
    <2> QED BY <2>3, <2>6 DEF LimiterInv, WindowsInv
  <1>3. ASSUME NEW c \in Callers, Refuse(c) PROVE LimiterInv'
    <2>1. PICK x : x.pc = "refused" /\ call' = [call EXCEPT ![c] = x]
                   /\ UNCHANGED <<clock, entries, log>>
      BY <1>3, Refusal
    <2>2. CallsInv'
      BY <2>1 DEF CallsInv, LimiterInv, TypeOK
    <2> QED BY <1>0, <2>1, <2>2
  <1>4. ASSUME NEW c \in Callers, Return(c) PROVE LimiterInv'
    <2>1. CallsInv'
      BY <1>4 DEF Return, Idle, CallsInv, LimiterInv, TypeOK
    <2> QED BY <1>0, <1>4, <2>1 DEF Return
  <1>5. CASE Tick
    <2>1. clock' = clock + 1 /\ UNCHANGED <<entries, call, log>>
      BY <1>5 DEF Tick
    <2>2. CallsInv'
      <3> SUFFICES ASSUME NEW c \in Callers, call[c].pc = "locking"
                   PROVE  /\ Limit > 0 /\ Window > 0
                          /\ call[c].now <= clock' /\ clock' <= call[c].now + Latency
        BY <2>1 DEF CallsInv
      <3>1. call[c].now \in Nat /\ clock < call[c].now + Latency
        BY <1>5, CallFields DEF Tick, TypeOK
      <3> QED BY <2>1, <3>1 DEF LimiterInv, CallsInv, TypeOK
    <2>3. ASSUME NEW k \in Keys PROVE (WindowOK(entries[k], log[k]) /\ Past(log[k]) /\ Spread(log[k]))'
      <3>1. log[k] \in Seq(Nat) /\ entries[k].windowStart \in Nat /\ clock \in Nat
        BY EntryFields DEF TypeOK
      <3>2. Past(log[k])'
        <4>1. \A j \in 1..Len(log[k]) : log[k][j] \in Nat
          BY <3>1
        <4>2. \A j \in 1..Len(log[k]) : log[k][j] <= clock
          BY DEF LimiterInv, Past
        <4>a. \A n, c \in Nat : n <= c => n <= c + 1
          OBVIOUS
        <4>b. clock \in Nat
          BY DEF TypeOK
        <4>3. ASSUME NEW j \in 1..Len(log[k]) PROVE log[k][j] <= clock + 1
          <5>1. log[k][j] \in Nat /\ log[k][j] <= clock
            BY <4>1, <4>2
          <5> QED BY <4>a, <4>b, <5>1, Zenon
        <4> QED BY <2>1, <4>3 DEF Past
      <3>3. WindowOK(entries[k], log[k])'
        BY <2>1, <3>1 DEF LimiterInv, WindowsInv, WindowOK
      <3> QED BY <2>1, <3>2, <3>3 DEF LimiterInv, Spread
    <2> QED BY <2>2, <2>3 DEF LimiterInv, WindowsInv
  <1>6. CASE UNCHANGED vars
    <2>1. CallsInv'
      BY <1>6 DEF vars, CallsInv, LimiterInv
    <2> QED BY <1>0, <1>6, <2>1 DEF vars
  <1> QED BY <1>1, <1>2, <1>3, <1>4, <1>5, <1>6 DEF Next

LEMMA LimiterAlways == Spec => [](TypeOK /\ LimiterInv)
  <1>1. Init => LimiterInv
    BY DEF Init, LimiterInv, CallsInv, WindowsInv, WindowOK, Past, Spread, Idle, NoEntry
  <1> QED BY <1>1, LimiterStep, TypeCorrect, PTL DEF Spec

\* A client is admitted at most twice the limit within any span shorter than the
\* window less the lock wait (fixed_window.go:44-74).
THEOREM BurstsBounded == Spec => []BurstBounded
  <1>1. LimiterInv => BurstBounded
    BY DEF LimiterInv, Spread, BurstBounded
  <1> QED BY <1>1, LimiterAlways, PTL

\* Nobody is refused below the limit: Limit of the client's own admissions lie
\* within the last window and lock wait (fixed_window.go:54-64).
THEOREM RefusalsJustified == Spec => RefusalJustified
  <1> DEFINE Goal ==
          \A c \in Callers :
              call[c].pc = "locking" /\ call'[c].pc = "refused" =>
                  LET l == log[call[c].key]
                  IN  /\ Len(l) >= Limit
                      /\ l[Len(l) - Limit + 1] + Window + Latency > clock
  <1>1. TypeOK /\ LimiterInv /\ [Next]_vars => Goal
    <2> SUFFICES ASSUME TypeOK, LimiterInv, [Next]_vars, NEW c \in Callers,
                        call[c].pc = "locking", call'[c].pc = "refused"
                 PROVE  LET l == log[call[c].key]
                        IN  /\ Len(l) >= Limit
                            /\ l[Len(l) - Limit + 1] + Window + Latency > clock
      OBVIOUS
    <2>1. Refuse(c)
      <3>1. ASSUME NEW d \in Callers, Admit(d) PROVE FALSE
        BY <3>1, Admission DEF TypeOK
      <3>2. ASSUME NEW d \in Callers, Refuse(d) PROVE d = c
        BY <3>2, Refusal DEF TypeOK
      <3>3. ASSUME NEW d \in Callers, NEW k \in Keys, Allow(d, k) PROVE FALSE
        BY <3>3 DEF Allow, TypeOK
      <3>4. ASSUME NEW d \in Callers, Return(d) PROVE FALSE
        BY <3>4 DEF Return, Idle, TypeOK
      <3> QED BY <3>1, <3>2, <3>3, <3>4 DEF Next, Tick, vars
    <2> DEFINE now == call[c].now
    <2>2. PICK k \in Keys : /\ k = call[c].key /\ now \in Nat
                            /\ Current(k, now) \in Entry /\ Current(k, now).count >= Limit
      BY <2>1, Refusal
    <2>3. Limit > 0 /\ clock <= now + Latency
      BY DEF LimiterInv, CallsInv
    <2> HIDE DEF now
    <2>4. entries[k].found /\ ~WindowOver(entries[k], now) /\ entries[k].count >= Limit
      BY <2>2, <2>3, CurrentIsEntry
    <2>5. entries[k].windowStart \in Nat /\ entries[k].count \in Nat
      BY EntryFields DEF TypeOK
    <2>6. entries[k].windowStart + Window > now
      BY <2>2, <2>4, <2>5 DEF WindowOver
    <2>7. WindowOK(entries[k], log[k])
      BY DEF LimiterInv, WindowsInv
    <2>8. entries[k].count = Limit /\ Limit <= Len(log[k])
      BY <2>4, <2>5, <2>7 DEF WindowOK
    <2> DEFINE j == Len(log[k]) - Limit + 1
    <2>9. j \in 1..Len(log[k]) /\ j + Limit > Len(log[k]) /\ log[k][j] \in Nat
      BY <2>3, <2>8 DEF TypeOK
    <2>10. log[k][j] >= entries[k].windowStart
      BY <2>4, <2>7, <2>8, <2>9 DEF WindowOK
    <2> HIDE DEF j
    <2>11. log[k][j] + Window + Latency > clock
      <3>1. log[k][j] \in Nat /\ entries[k].windowStart \in Nat /\ now \in Nat /\ clock \in Nat
        BY <2>2, <2>5, <2>9 DEF TypeOK
      <3>2. clock <= now + Latency
        BY <2>3
      <3> QED BY <2>6, <2>10, <3>1, <3>2
    <2> QED BY <2>2, <2>8, <2>11 DEF j
  <1> QED BY <1>1, LimiterAlways, PTL DEF Spec, RefusalJustified

-----------------------------------------------------------------------------
(* RetryAfter.                                                             *)

Reopens(c) == call[c].now + call[c].retryAfter

LEMMA RetryStep == TypeOK /\ LimiterInv /\ RetryAfterExact /\ [Next]_vars => RetryAfterExact'
  <1> SUFFICES ASSUME TypeOK, LimiterInv, RetryAfterExact, [Next]_vars PROVE RetryAfterExact'
    OBVIOUS
  <1>1. ASSUME NEW c \in Callers, NEW k \in Keys, Allow(c, k) PROVE RetryAfterExact'
    BY <1>1 DEF Allow, RetryAfterExact, TypeOK
  <1>2. ASSUME NEW c \in Callers, Admit(c) PROVE RetryAfterExact'
    <2> DEFINE now == call[c].now
    <2>1. PICK k \in Keys, f \in Entry, x \in Call :
              /\ now \in Nat
              /\ f.found /\ Counted(Current(k, now), f)
              /\ entries' = [entries EXCEPT ![k] = f]
              /\ x.pc = "admitted" /\ call' = [call EXCEPT ![c] = x]
      BY <1>2, Admission
    <2> HIDE DEF now
    <2>2. f.windowStart = entries[k].windowStart \/ ~entries[k].found
          \/ f.windowStart >= entries[k].windowStart + Window
      BY <2>1, CurrentIsEntry DEF Counted, WindowOver
    <2> SUFFICES ASSUME NEW d \in Callers, call'[d].pc = "refused"
                 PROVE  LET e == entries'[call'[d].key]
                            reopens == call'[d].now + call'[d].retryAfter
                        IN  e.found /\ (e.windowStart + Window = reopens
                                        \/ e.windowStart >= reopens)
      BY DEF RetryAfterExact
    <2>3. call'[d] = call[d]
      BY <2>1 DEF TypeOK
    <2>4. call[d].key \in Keys /\ call[d].now \in Nat /\ call[d].retryAfter \in Nat
      BY <2>3, CallFields DEF TypeOK
    <2>5. LET e == entries[call[d].key]
              reopens == call[d].now + call[d].retryAfter
          IN  e.found /\ (e.windowStart + Window = reopens \/ e.windowStart >= reopens)
      BY <2>3 DEF RetryAfterExact
    <2>6. entries[call[d].key].windowStart \in Nat /\ f.windowStart \in Nat
      BY <2>4, EntryFields DEF TypeOK
    <2>7. CASE call[d].key = k
      <3>1. entries'[call[d].key] = f
        BY <2>1, <2>7 DEF TypeOK
      <3> QED BY <2>1, <2>2, <2>3, <2>4, <2>5, <2>6, <2>7, <3>1
    <2>8. CASE call[d].key # k
      <3>1. entries'[call[d].key] = entries[call[d].key]
        BY <2>1, <2>4, <2>8 DEF TypeOK
      <3> QED BY <2>3, <2>5, <3>1
    <2> QED BY <2>7, <2>8
  <1>3. ASSUME NEW c \in Callers, Refuse(c) PROVE RetryAfterExact'
    <2> DEFINE now == call[c].now
    <2>1. PICK k \in Keys, x \in Call :
              /\ now \in Nat /\ Current(k, now) \in Entry /\ Current(k, now).count >= Limit
              /\ UNCHANGED entries
              /\ x.pc = "refused" /\ x.key = k /\ x.now = now
              /\ x.retryAfter = RetryAfter(Current(k, now), now)
              /\ call' = [call EXCEPT ![c] = x]
      BY <1>3, Refusal
    <2>2. Limit > 0
      BY <1>3 DEF Refuse, LimiterInv, CallsInv
    <2> HIDE DEF now
    <2>3. /\ entries[k].found /\ ~WindowOver(entries[k], now)
          /\ Current(k, now) = entries[k] /\ entries[k].windowStart \in Nat
      BY <2>1, <2>2, CurrentIsEntry, EntryFields DEF TypeOK
    <2>4. now + RetryAfter(entries[k], now) = entries[k].windowStart + Window
      BY <2>1, <2>3 DEF WindowOver, RetryAfter
    <2> QED BY <2>1, <2>3, <2>4 DEF RetryAfterExact, TypeOK
  <1>4. ASSUME NEW c \in Callers, Return(c) PROVE RetryAfterExact'
    BY <1>4 DEF Return, Idle, RetryAfterExact, TypeOK
  <1>5. CASE Tick
    BY <1>5 DEF Tick, RetryAfterExact
  <1>6. CASE UNCHANGED vars
    BY <1>6 DEF vars, RetryAfterExact
  <1> QED BY <1>1, <1>2, <1>3, <1>4, <1>5, <1>6 DEF Next

\* Retry-After is the truth: the window that refused a client ends exactly then
\* (fixed_window.go:57-64).
THEOREM RetryAfterIsExact == Spec => []RetryAfterExact
  <1>1. Init => RetryAfterExact
    BY DEF Init, RetryAfterExact, Idle
  <1> QED BY <1>1, RetryStep, LimiterAlways, PTL DEF Spec
=============================================================================
