\* Paths of up to nine steps with a depth bound they reach; bodies of two items.
SPECIFICATION Spec
CONSTANTS
    MaxDepth = 6
    Groups = {"message", "item", "bodies", "bridges"}
    RequestsOf <- MCRequestsOf
    SettingsOf <- MCSettingsOf
CHECK_DEADLOCK FALSE
INVARIANTS
    
    
    NoCopyKept
    EchoRestored
