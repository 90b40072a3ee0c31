SPECIFICATION Spec
CONSTANTS Clients = {c1, c2}
 Talkers = {c1}
 MaxSend = 1
INVARIANTS Retried
CHECK_DEADLOCK FALSE
