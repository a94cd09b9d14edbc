------------------------ MODULE MCRabbitmqDeclareLoop ------------------------
(* Small instances of RabbitmqDeclareLoop for TLC.                         *)
EXTENDS RabbitmqDeclareLoop

CONSTANTS q1, q2, q3, c1, c2, c3, c4

MCQueues == {q1, q2, q3}
MCInitQueues == {q1, q2}
MCLateQueues == {q3}
MCCallers == {c1, c2, c3, c4}
\* Three enqueues (c1 on q1, c4 on q2, c3 for the late actor of q3) and a
\* consume (c2 on q2).
MCCalls == [c \in MCCallers |-> IF c = c2 THEN "consume" ELSE "enqueue"]
MCTarget == [c \in MCCallers |-> CASE c = c1 -> q1 [] c = c2 -> q2 [] c = c3 -> q3 [] c = c4 -> q2]

=============================================================================
