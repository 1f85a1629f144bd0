CONSTANTS
 t1=t1
 t2=t2
 t3=t3
 Threads={t1,t2,t3}
 MaxEpoch=1
 MaxSections <- OneForTwo
 MaxWaits <- TwoForOne
SPECIFICATION FairSpec
INVARIANTS TypeOK GracePeriod NodesOutliveTheirUse
PROPERTIES WalksAreUndisturbed EverythingEnds
