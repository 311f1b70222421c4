\* Two messages and one receipt that lists both, handled twice: a receipt
\* that is known in part waits for the rest.
SPECIFICATION FairSpec
CONSTANTS
    Message = {1, 2}
    Event = {1}
    IdsOf <- BatchIds
    TargetOf <- FirstDelivered
    Webhook = {w1, w2}
    Reconciler = {r1}
    Worker = {k1}
    Operator = {o1}
    NoMessage = NoMessage
    MaxRetries = 0
    MaxRollbacks = 1
PROPERTY ReceiptSettles
CHECK_DEADLOCK FALSE
