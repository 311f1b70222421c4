\* One message, its delivered and its read receipt, two handlers, two workers and
\* two manual retries: handlers that overlap, and answers of the gateway that are
\* written long after the row has moved on.
SPECIFICATION Spec
CONSTANTS
    Message = {1}
    Event = {1, 2}
    IdsOf <- OneMessageIds
    TargetOf <- FirstDelivered
    Webhook = {w1, w2}
    Reconciler = {}
    Worker = {k1, k2}
    Operator = {o1}
    NoMessage = NoMessage
    MaxRetries = 2
    MaxRollbacks = 0
INVARIANT ReceiptLeavesTimestamp
PROPERTIES StatusPath OnlyRetryClears
SYMMETRY TxSymmetry
VIEW WithoutLoop
CHECK_DEADLOCK FALSE
