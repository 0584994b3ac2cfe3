SPECIFICATION Spec
CONSTANTS
    Callers = {c}
    Receivers = {r}
    Capacity = 1
    MaxIds = 2
    MaxConns = 2
    MaxCalls = 1
INVARIANTS RetriesAreSound NoReplyMissed ReceivedInOrder NoStaleSubscription NoneBlockedAfterClose
