----------------------------- MODULE RateLimiter ----------------------------
(***************************************************************************)
(* FixedWindowLimiter (internal/ratelimit/fixed_window.go), which limits   *)
(* mailbox registrations and SMTP connections per client address.          *)
(*                                                                         *)
(* Allow reads the clock before it takes the lock, so a caller may decide  *)
(* with a time that is up to Latency old, and calls may decide in another  *)
(* order than they read the clock.  Everything after the lock is one step. *)
(***************************************************************************)
EXTENDS Naturals, Sequences

CONSTANTS Keys,     \* client addresses
          Callers,  \* goroutines that may be in Allow at once
          Limit,    \* admissions per window; 0 disables the limiter
          Window,   \* the window's length; 0 disables the limiter
          Latency,  \* the longest a caller waits for the lock
          MaxClock  \* bound on the clock

ASSUME RateLimiterAssumption ==
    /\ Limit \in Nat
    /\ Window \in Nat
    /\ Latency \in Nat
    /\ MaxClock \in Nat

VARIABLES clock,
          entries,  \* FixedWindowLimiter.entries, never evicted
          call,     \* the call of each caller
          log       \* observer: when each key was admitted

vars == <<clock, entries, call, log>>

NoEntry == [found |-> FALSE, windowStart |-> 0, count |-> 0]
Entry   == [found : {TRUE}, windowStart : Nat, count : Nat]

Idle == [pc |-> "idle"]
Call == {Idle}
    \union [pc : {"locking"}, key : Keys, now : Nat]
    \union [pc : {"admitted"}, key : Keys, now : Nat, remaining : Nat]
    \union [pc : {"refused"}, key : Keys, now : Nat, retryAfter : Nat]

TypeOK ==
    /\ clock \in Nat
    /\ entries \in [Keys -> Entry \union {NoEntry}]
    /\ call \in [Callers -> Call]
    /\ log \in [Keys -> Seq(Nat)]

Init ==
    /\ clock = 0
    /\ entries = [k \in Keys |-> NoEntry]
    /\ call = [c \in Callers |-> Idle]
    /\ log = [k \in Keys |-> <<>>]

-----------------------------------------------------------------------------
Disabled == Limit = 0 \/ Window = 0

\* Variant: the window includes its end.
WindowOverLate(e, now) == ~e.found \/ now > e.windowStart + Window

\* now - windowStart >= Window, without going below zero when now is stale.
WindowOver(e, now) == ~e.found \/ now >= e.windowStart + Window

\* The entry Allow counts in: the stored one, or a new window from now.
Current(k, now) ==
    IF WindowOver(entries[k], now) THEN [found |-> TRUE, windowStart |-> now, count |-> 0]
                                   ELSE entries[k]

\* Window - (now - windowStart); the code's clamp at 0 is what Nat does here.
RetryAfter(e, now) ==
    IF e.windowStart + Window > now THEN (e.windowStart + Window) - now ELSE 0

\* Variant: one admission too many.
RoomForOneMore(e) == e.count <= Limit

Room(e) == e.count < Limit

Allow(c, k) ==
    /\ call[c] = Idle
    /\ ~Disabled
    /\ call' = [call EXCEPT ![c] = [pc |-> "locking", key |-> k, now |-> clock]]
    /\ UNCHANGED <<clock, entries, log>>

Admit(c) ==
    /\ call[c].pc = "locking"
    /\ LET k == call[c].key
           e == Current(k, call[c].now)
       IN  /\ Room(e)
           /\ entries' = [entries EXCEPT ![k] = [e EXCEPT !.count = @ + 1]]
           /\ call' = [call EXCEPT ![c] = [pc |-> "admitted", key |-> k, now |-> call[c].now,
                                           remaining |-> Limit - (e.count + 1)]]
           /\ log' = [log EXCEPT ![k] = Append(@, clock)]
    /\ UNCHANGED clock

\* Variant: a refusal starts the window again.
AfterRefusalRestarted(e) ==
    [k \in Keys |-> IF entries[k] = e THEN [e EXCEPT !.windowStart = clock] ELSE entries[k]]

\* A refusal writes nothing: it neither counts nor moves the window.
AfterRefusal(e) == entries

Refuse(c) ==
    /\ call[c].pc = "locking"
    /\ LET k == call[c].key
           e == Current(k, call[c].now)
       IN  /\ ~Room(e)
           /\ entries' = AfterRefusal(e)
           /\ call' = [call EXCEPT ![c] = [pc |-> "refused", key |-> k, now |-> call[c].now,
                                           retryAfter |-> RetryAfter(e, call[c].now)]]
    /\ UNCHANGED <<clock, log>>

Return(c) ==
    /\ call[c].pc \in {"admitted", "refused"}
    /\ call' = [call EXCEPT ![c] = Idle]
    /\ UNCHANGED <<clock, entries, log>>

Tick ==
    /\ clock < MaxClock
    /\ \A c \in Callers : call[c].pc = "locking" => clock < call[c].now + Latency
    /\ clock' = clock + 1
    /\ UNCHANGED <<entries, call, log>>

Next ==
    \/ \E c \in Callers, k \in Keys : Allow(c, k)
    \/ \E c \in Callers : Admit(c) \/ Refuse(c) \/ Return(c)
    \/ Tick

Spec == Init /\ [][Next]_vars

-----------------------------------------------------------------------------
(* Properties.                                                             *)

(* However its calls line up with the windows, a client is admitted at     *)
(* most twice the limit within any span shorter than the window less the   *)
(* lock wait: 2 * Limit + 1 admissions always reach into a third window.   *)
BurstBounded ==
    \A k \in Keys : \A i \in 1..Len(log[k]) :
        i + 2 * Limit <= Len(log[k]) => log[k][i + 2 * Limit] + Latency >= log[k][i] + Window

(* Nobody is refused below the limit: when a client is refused, Limit of   *)
(* its own admissions lie within the last window and lock wait, so no      *)
(* other client's traffic and no stale clock value can use up its quota.   *)
RefusalJustified ==
    [][\A c \in Callers :
          call[c].pc = "locking" /\ call'[c].pc = "refused" =>
              LET l == log[call[c].key]
              IN  /\ Len(l) >= Limit
                  /\ l[Len(l) - Limit + 1] + Window + Latency > clock]_vars

(* RetryAfter is the truth: the window that refused a client ends exactly  *)
(* then, and nothing that happens meanwhile, further refused tries         *)
(* included, makes the client wait longer.                                 *)
RetryAfterExact ==
    \A c \in Callers :
        call[c].pc = "refused" =>
            LET e == entries[call[c].key]
                reopens == call[c].now + call[c].retryAfter
            IN  e.found /\ (e.windowStart + Window = reopens \/ e.windowStart >= reopens)
=============================================================================
