CONSTANTS
 t1=t1
 t2=t2
 Threads={t1,t2}
 Keys={1,2,3,4,5,6,7,8}
 N=12
 Calls <- ManyCalls
 Prefills <- Trees
 EmplaceMeetsErase=FALSE
 MaxCalls=2
SPECIFICATION Spec
INVARIANTS TreeVerified ElementsStayWhole NodesHaveOneOwner NothingDangles
PROPERTY ImplementsOrderedBag
