\* Number.MAX_SAFE_INTEGER is 6: the numbers below it are the ordinary amounts, 7 and -7 the
\* first that are not safe.
CONSTANTS
    Undefined = Undefined
    MaxSafe = 6
    Codecs <- MCCodecs
    Peer <- MCPeer
    Depth <- MCDepth
    MessagesOf <- MCMessagesOf

SPECIFICATION Spec

INVARIANTS
    RequestsArrive
    AnswersArrive
    OnlyUnsafeAmountsRaise
    JsonKeepsMessages

\* A call is over once its answer has been read.
CHECK_DEADLOCK FALSE
