----------------------------- MODULE MailStore ------------------------------
(***************************************************************************)
(* What the mail side of the service promises, without sessions,           *)
(* transactions, connections or crashes: a message appears in an inbox     *)
(* whole or not at all, only in an inbox that is there and has the address *)
(* the sender named; a sender is told "accepted" only after its message    *)
(* has appeared; and a message goes only when it is deleted or its inbox   *)
(* expires with everything in it.  SmtpDelivery implements this.           *)
(***************************************************************************)
EXTENDS Naturals

CONSTANTS Addresses,  \* mailbox addresses
          Mails,      \* what senders submit
          To,         \* the address each submission names
          Parts,      \* how many attachments each submission has
          Ids         \* row ids

VARIABLES inboxes,    \* set of [id, address, expires]
          messages,   \* set of [id, inbox, mail, parts]
          delivered,  \* the submissions that have ever been stored
          accepted    \* the submissions whose sender was told so

vars == <<inboxes, messages, delivered, accepted>>

Init ==
    /\ \A i, j \in inboxes : i.id = j.id \/ i.address = j.address => i = j
    /\ messages = {}
    /\ delivered = {}
    /\ accepted = {}

\* A new account: nobody has its address, and its id is nobody's.
Register(a, n) ==
    /\ \A i \in inboxes : i.address # a /\ i.id # n
    /\ inboxes' = inboxes \union {[id |-> n, address |-> a, expires |-> FALSE]}
    /\ UNCHANGED <<messages, delivered, accepted>>

Deliver(m, i, n) ==
    /\ i \in inboxes
    /\ i.address = To[m]
    /\ \A e \in messages : e.id # n
    /\ messages' = messages \union {[id |-> n, inbox |-> i.id, mail |-> m,
                                     parts |-> 1..Parts[m]]}
    /\ delivered' = delivered \union {m}
    /\ UNCHANGED <<inboxes, accepted>>

Accept(m) ==
    /\ m \in delivered
    /\ accepted' = accepted \union {m}
    /\ UNCHANGED <<inboxes, messages, delivered>>

Delete(e) ==
    /\ messages' = messages \ {e}
    /\ UNCHANGED <<inboxes, delivered, accepted>>

\* A set of inboxes that may expire goes with all its messages.
Expire(S) ==
    /\ \A i \in S : i.expires
    /\ inboxes' = inboxes \ S
    /\ messages' = {e \in messages : e.inbox \notin {i.id : i \in S}}
    /\ UNCHANGED <<delivered, accepted>>

Next ==
    \/ \E a \in Addresses, n \in Ids : Register(a, n)
    \/ \E m \in Mails, i \in inboxes, n \in Ids : Deliver(m, i, n)
    \/ \E m \in Mails : Accept(m)
    \/ \E e \in messages : Delete(e)
    \/ \E S \in SUBSET inboxes : Expire(S)

Spec == Init /\ [][Next]_vars
=============================================================================
