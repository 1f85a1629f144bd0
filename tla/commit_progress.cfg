CONSTANTS
 t1=t1
 t2=t2
 x=x
 y=y
 Threads={t1,t2}
 Vars={x,y}
 AtomicVars={y}
 Nobody=Nobody
 Calls <- AnyCalls
 MaxTx=1
 MaxOps=2
SPECIFICATION FairSpec
PROPERTIES AttemptsEnd LocksAreReleased SoloProgress
