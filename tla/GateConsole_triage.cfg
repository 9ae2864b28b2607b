\* One thread; nothing interferes with the request.
CONSTANTS
    Thread = {t1}
    User = {operator, approver}
    Approver = {approver}
    NoUser = NoUser
    MaxRequests = 3
SPECIFICATION Spec
PROPERTY TriageStartsTransform
CHECK_DEADLOCK FALSE
