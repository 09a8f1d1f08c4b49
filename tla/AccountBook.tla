----------------------------- MODULE AccountBook -----------------------------
(***************************************************************************)
(* What registration promises, told from outside (POST /register,          *)
(* internal/web/auth_handlers.go): an address is given to one visitor and  *)
(* to no other for ever after; a visitor who was shown a password has an   *)
(* account from then on; one who was told that the address is taken, that  *)
(* there is no domain or to come back later never gets one.  An error      *)
(* leaves open which.  Requests may fail together, when the process ends.  *)
(***************************************************************************)
CONSTANTS People, Addresses

VARIABLES book,  \* the accounts: a set of [address, owner]
          told   \* what each visitor has been told

bookVars == <<book, told>>

Entry == [address : Addresses, owner : People]
Words == {"nothing", "shown", "refused", "error"}

TypeOK ==
    /\ book \in SUBSET Entry
    /\ told \in [People -> Words]

Init ==
    /\ book = {}
    /\ told = [p \in People |-> "nothing"]

Holds(p) == \E e \in book : e.owner = p
IsFree(a) == \A e \in book : e.address # a

Tell(S, word) ==
    /\ \A p \in S : told[p] = "nothing"
    /\ told' = [p \in People |-> IF p \in S THEN word ELSE told[p]]
    /\ UNCHANGED book

Claim(p, a) ==
    /\ told[p] = "nothing" /\ ~Holds(p) /\ IsFree(a)
    /\ book' = book \union {[address |-> a, owner |-> p]}
    /\ UNCHANGED told

Show(p) == Holds(p) /\ Tell({p}, "shown")

Refuse(p) == ~Holds(p) /\ Tell({p}, "refused")

Fail(S) == Tell(S, "error")

Next ==
    \/ \E p \in People : Show(p) \/ Refuse(p) \/ \E a \in Addresses : Claim(p, a)
    \/ \E S \in SUBSET People : Fail(S)

Spec == Init /\ [][Next]_bookVars
=============================================================================
