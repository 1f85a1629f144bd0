CONSTANTS
 ReclaimLimit=4
 Reentrant={}
 MaxCallbacks=9
 MaxNesting=1
SPECIFICATION Spec
INVARIANTS HeadersLinked
PROPERTY ImplementsQueue
