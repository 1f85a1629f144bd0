CONSTANTS
 x=x
 y=y
 Vars={x,y}
 Bit <- OneBit
 start_size=2
 Objects={1,2,3,4,5,6}
 Trivial={6}
 FirstValue <- HoldsFirst
 KindsThatAllocate={"read_write"}
 MaxCalls=2
 MaxLevel=2
 MaxSteps=3
SPECIFICATION Spec
INVARIANTS MemoryTypeOK NothingIsLeftOver KindIsTheOutermost NothingIsLost ReadsOwnWrites ValidatesTheRest
PROPERTY FailuresUndo
