----------------------------- MODULE SessionLife -----------------------------
(***************************************************************************)
(* What a session store promises, whether it is the sessions table of the  *)
(* mailboxes (internal/repository/sqlite.go) or the map of the admin area  *)
(* (adminSessionStore, internal/web/admin.go): a token is drawn once, is   *)
(* good for one owner while its session is live, and is worth nothing for  *)
(* ever after; logging out ends it.  Sessions may end together, when an    *)
(* inbox goes or the process does.                                         *)
(***************************************************************************)
CONSTANTS Tokens, Owners

VARIABLES life,      \* what has become of each token
          loggedOut  \* tokens whose holder has logged out

vars == <<life, loggedOut>>

New     == [state |-> "new"]
Live(o) == [state |-> "live", owner |-> o]
Ended   == [state |-> "ended"]

TypeOK ==
    /\ life \in [Tokens -> {New, Ended} \union {Live(o) : o \in Owners}]
    /\ loggedOut \subseteq Tokens

Init ==
    /\ life = [t \in Tokens |-> New]
    /\ loggedOut = {}

IsLive(t) == \E o \in Owners : life[t] = Live(o)
With(S, l) == [t \in Tokens |-> IF t \in S THEN l ELSE life[t]]

Begin(t, o) ==
    /\ life[t] = New
    /\ life' = With({t}, Live(o))
    /\ UNCHANGED loggedOut

\* The token was drawn, but the session could not be stored.
Discard(t) ==
    /\ life[t] = New
    /\ life' = With({t}, Ended)
    /\ UNCHANGED loggedOut

End(S) ==
    /\ \A t \in S : IsLive(t)
    /\ life' = With(S, Ended)
    /\ UNCHANGED loggedOut

\* With a token whose session has ended already, too.
LogOut(t) ==
    /\ life[t] # New
    /\ life' = With({t}, Ended)
    /\ loggedOut' = loggedOut \union {t}

Next ==
    \/ \E t \in Tokens : Discard(t) \/ LogOut(t) \/ \E o \in Owners : Begin(t, o)
    \/ \E S \in SUBSET Tokens : End(S)

Spec == Init /\ [][Next]_vars

\* Logging out is final: no request that was under way, no late cookie, no restart
\* and no later login brings the session back.
LogoutFinal == \A t \in loggedOut : life[t] = Ended
=============================================================================
