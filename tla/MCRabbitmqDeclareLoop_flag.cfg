CONSTANTS
    q1 = q1  q2 = q2  q3 = q3  c1 = c1  c2 = c2  c3 = c3  c4 = c4
    Queues <- MCQueues
    InitQueues <- MCInitQueues
    LateQueues <- MCLateQueues
    Callers <- MCCallers
    Calls <- MCCalls
    Target <- MCTarget
SPECIFICATION Spec
INVARIANT StartupPublishesKept
CHECK_DEADLOCK FALSE
