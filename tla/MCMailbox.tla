------------------------------ MODULE MCMailbox ------------------------------
EXTENDS Mailbox

CONSTANTS f1, f2, f3, m1, m2

\* f1 and f2 are two deposits of one message.
MCMessageId == [f \in Tasks |-> IF f = f3 THEN m2 ELSE m1]

MCKind == [f \in Tasks |-> "run"]
=============================================================================
