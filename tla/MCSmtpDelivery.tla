--------------------------- MODULE MCSmtpDelivery ---------------------------
(* Instances of SmtpDelivery for TLC: every submission goes to the same    *)
(* address, and a second address lets another account be created while     *)
(* mail for the first is on its way.                                       *)
EXTENDS SmtpDelivery

CONSTANTS target, plain, rich

MCTo == [m \in Mails |-> target]

\* "rich" has two attachments, "plain" none.
MCParts == [m \in Mails |-> IF m = rich THEN 2 ELSE 0]

MCIds == 1..3

\* The sender of "rich" may try twice, so that one of its copies can be lost
\* on the way back and the other arrive.
MCMaxTries == [m \in Mails |-> IF m = rich THEN 2 ELSE 1]
=============================================================================
