\* The topology and the operator calls under fair scheduling: q2's actor is
\* declared late, m2 is delayed, publishes are not confirmed, Admin calls
\* join with timeout=1, and one fault may happen.  Checks that every message on
\* the server is eventually run or dead-lettered.
CONSTANTS
    t1 = t1  t2 = t2  c1 = c1  c2 = c2  c3 = c3  admin = admin
    q1 = q1  q2 = q2  m1 = m1  m2 = m2  m3 = m3  nomsg = nomsg  notimeout = notimeout
    Threads <- MCThreadsOne
    Consumers <- MCConsumersTwo
    Admin = admin
    Queues <- MCQueuesTwo
    LateQueues = {q2}
    Msgs <- MCMsgsDelayLate
    NoMsg = nomsg
    MsgQueue <- MCMsgQueue
    Delayed = {m2}
    Orphans = {}
    CQueue <- MCCQueueTwo
    JoinQueue = q1
    ConfirmDelivery = FALSE
    MaxEnqueueAttempts = 2
    MaxFaults = 1
    MinSuccesses = 1
    NoTimeout = notimeout
    JoinTimeoutArg = 1
    AdminCalls = {"join"}
SPECIFICATION FairSpec
PROPERTY QueuedEventuallySettled
CHECK_DEADLOCK FALSE
