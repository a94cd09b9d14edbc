\* join(q1) without a timeout while consumers run on q1 and q1.DQ: a plain
\* and a delayed message, publishes not confirmed, one fault, and the
\* worker may dead-letter a message.  join must end once the consumers
\* have drained q1 and q1.DQ.
CONSTANTS
    t1 = t1  t2 = t2  c1 = c1  c2 = c2  c3 = c3  admin = admin
    q1 = q1  q2 = q2  m1 = m1  m2 = m2  m3 = m3  nomsg = nomsg  notimeout = notimeout
    Threads <- MCThreadsOne
    Consumers <- MCConsumersOne
    Admin = admin
    Queues <- MCQueuesOne
    LateQueues = {}
    Msgs <- MCMsgsTwo
    NoMsg = nomsg
    MsgQueue <- MCMsgQueue
    Delayed = {m2}
    Orphans = {}
    CQueue <- MCCQueueOne
    JoinQueue = q1
    ConfirmDelivery = FALSE
    MaxEnqueueAttempts = 2
    MaxFaults = 1
    MinSuccesses = 2
    NoTimeout = notimeout
    JoinTimeoutArg = notimeout
    AdminCalls = {"join"}
SPECIFICATION FairSpec
PROPERTY JoinReturns
CHECK_DEADLOCK FALSE
