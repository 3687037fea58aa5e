SPECIFICATION FairSpec
CONSTANTS
    Configs <- BridgeConfigs
    Servers = {"s1", "s2"}
    Logins <- BridgeLogins
    ServiceCacheSize = 1
    Requests = {"r1"}
    ToolName <- BridgeTools
    Chats <- BridgeChats
    CallLists <- BridgeCalls
    Deltas <- BridgeDeltas
    MaxDeltas = 3
    MaxText = 1
INVARIANTS
    
    CallsReassembled
    StreamHasAnEnd
    OpenIsAccountedFor
PROPERTIES
    Answered
CHECK_DEADLOCK FALSE
