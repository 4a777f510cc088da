SPECIFICATION Spec
CONSTANTS
 Heights = {12,20}
 Peers = {1,2}

CHECK_DEADLOCK FALSE
INVARIANT ForkIsLastAgreed
