-------------------------- MODULE MCDistributedNodes --------------------------
EXTENDS DistributedNodes

CONSTANTS n1, x1, x2, x3

\* Nothing configured; one compile server, alone, listed twice, and with a node
\* that answers anything; three of those, and two with one listed twice.
SomeLists == {<<>>, <<n1>>, <<n1, n1>>, <<n1, x1>>, <<x1, x2, x3>>, <<x1, x1, x2>>}
MaxAttempts == 3
AllRequests == Tasks \X (1 .. MaxAttempts)
StrayRequests == {r \in AllRequests : r[1] = 1}
=============================================================================
