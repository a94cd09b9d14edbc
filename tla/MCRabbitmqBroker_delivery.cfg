\* Delivery with publisher confirms and every queue declared at start-up:
\* two enqueuing threads, a plain and a delayed message, two faults.
CONSTANTS
    t1 = t1  t2 = t2  c1 = c1  c2 = c2  c3 = c3  admin = admin
    q1 = q1  q2 = q2  m1 = m1  m2 = m2  m3 = m3  nomsg = nomsg  notimeout = notimeout
    Threads <- MCThreadsTwo
    Consumers <- MCConsumersOne
    Admin = admin
    Queues <- MCQueuesOne
    LateQueues = {}
    Msgs <- MCMsgsTwo
    NoMsg = nomsg
    MsgQueue <- MCMsgQueue
    Delayed = {m2}
    Orphans = {}
    CQueue <- MCCQueueOne
    JoinQueue = q1
    ConfirmDelivery = TRUE
    MaxEnqueueAttempts = 2
    MaxFaults = 2
    MinSuccesses = 2
    NoTimeout = notimeout
    JoinTimeoutArg = notimeout
    AdminCalls = {}
SPECIFICATION Spec
INVARIANT TypeOK EnqueuedNotLost DeliveryInv
SYMMETRY MCThreadSymmetry
CHECK_DEADLOCK FALSE
