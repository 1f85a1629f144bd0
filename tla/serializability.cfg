CONSTANTS
 t1=t1
 t2=t2
 t3=t3
 x=x
 y=y
 Threads={t1,t2,t3}
 Vars={x,y}
 AtomicVars={y}
 Nobody=Nobody
 Calls <- CrossingCalls
 MaxTx=1
 MaxOps=2
SPECIFICATION HistSpec
INVARIANTS TypeOK LockOwnership Opacity FreesWhatItReplaces VersionsTellContents StrictlySerializable
PROPERTY ImplementsSnapshotIsolation
