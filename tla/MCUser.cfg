SPECIFICATION Spec
CONSTANT NoCall = NoCall
VIEW View
CHECK_DEADLOCK FALSE
INVARIANTS
    ParentAlive
    FreedOffStack
    CommandsRun
    CallsTraced
    HeapKept
    
PROPERTIES
    
    CallsEnd
