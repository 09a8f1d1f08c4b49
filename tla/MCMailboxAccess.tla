-------------------------- MODULE MCMailboxAccess ---------------------------
(* Instances of MailboxAccess for TLC: a browser for each inbox.           *)
EXTENDS MailboxAccess, TLC

CONSTANTS ann, bob, annsBox, bobsBox

MCKnows == {<<ann, annsBox>>, <<bob, bobsBox>>} \intersect (Browsers \X Inboxes)

Interchangeable ==
    Permutations(Requests) \union Permutations(Tokens) \union Permutations(Emails)
=============================================================================
