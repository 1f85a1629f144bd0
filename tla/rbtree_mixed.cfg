CONSTANTS
 t1=t1
 t2=t2
 Threads={t1,t2}
 Keys={1,2,3,4,5,6,7,8}
 N=12
 Calls <- AnyCalls
 Prefills <- Trees
 EmplaceMeetsErase=TRUE
 MaxCalls=1
SPECIFICATION Spec
INVARIANT TreeVerified
