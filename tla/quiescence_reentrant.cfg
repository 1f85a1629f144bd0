CONSTANTS
 ReclaimLimit=4
 Reentrant={1}
 MaxCallbacks=8
 MaxNesting=2
SPECIFICATION Spec
INVARIANT RunsOnce
