-------------------------- MODULE MCRabbitmqBroker --------------------------
(***************************************************************************)
(* Small instances of RabbitmqBroker for TLC.  One logical queue q1 (and a *)
(* late queue q2 where a run needs one), a plain message m1 and a delayed  *)
(* message m2 on q1, two consumer threads (q1 and q1.DQ) and one or two    *)
(* enqueuing threads.                                                      *)
(***************************************************************************)
EXTENDS RabbitmqBroker, TLC

CONSTANTS t1, t2, c1, c2, c3, admin, q1, q2, m1, m2, m3, nomsg, notimeout

MCThreadsOne == {t1}
MCThreadsTwo == {t1, t2}
\* The enqueuing threads are interchangeable: no definition names one of
\* them, so a safety run may identify states that differ by a swap.
MCThreadSymmetry == Permutations(MCThreadsTwo)
MCQueuesOne == {q1}
MCQueuesTwo == {q1, q2}
MCConsumersNone == {}
MCConsumersOne == {c1, c2}
MCConsumersTwo == {c1, c2, c3}
MCCQueueOne == [c \in MCConsumersOne |-> IF c = c1 THEN <<q1, "Q">> ELSE <<q1, "DQ">>]
MCCQueueNone == [c \in MCConsumersNone |-> <<q1, "Q">>]
MCCQueueTwo == [c \in MCConsumersTwo |->
                  CASE c = c1 -> <<q1, "Q">> [] c = c2 -> <<q1, "DQ">> [] c = c3 -> <<q2, "Q">>]
MCMsgsOne == {m1}
MCMsgsTwo == {m1, m2}
MCMsgsLate == {m1, m3}
MCMsgsDelayLate == {m2, m3}
\* m1 plain on q1, m2 delayed on q1, m3 plain on q2
MCMsgQueue == [m \in Msgs |-> IF m = m3 THEN q2 ELSE q1]

=============================================================================
