\* join(q1, timeout=0) while no worker consumes q1 and one fault may stop
\* the server: the deadline is falsy and never checked, so join polls the
\* non-empty queue forever although its timeout is 0 ms.
CONSTANTS
    t1 = t1  t2 = t2  c1 = c1  c2 = c2  c3 = c3  admin = admin
    q1 = q1  q2 = q2  m1 = m1  m2 = m2  m3 = m3  nomsg = nomsg  notimeout = notimeout
    Threads <- MCThreadsOne
    Consumers <- MCConsumersNone
    Admin = admin
    Queues <- MCQueuesOne
    LateQueues = {}
    Msgs <- MCMsgsOne
    NoMsg = nomsg
    MsgQueue <- MCMsgQueue
    Delayed = {}
    Orphans = {}
    CQueue <- MCCQueueNone
    JoinQueue = q1
    ConfirmDelivery = TRUE
    MaxEnqueueAttempts = 2
    MaxFaults = 1
    MinSuccesses = 2
    NoTimeout = notimeout
    JoinTimeoutArg = 0
    AdminCalls = {"join"}
SPECIFICATION FairSpec
PROPERTY JoinBounded
CHECK_DEADLOCK FALSE
