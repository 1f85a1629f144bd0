CONSTANTS
 t1=t1
 t2=t2
 x=x
 y=y
 Threads={t1,t2}
 Vars={x}
 AtomicVars={}
 Nobody=Nobody
 Calls <- BlindWriter
 MaxTx=2
 MaxOps=1
 Delayed={t1}
 Registrars={t2}
SPECIFICATION FairEpochSpec
INVARIANTS EpochTypeOK NoUseAfterFree FreedOnce ChunksInOrder
PROPERTIES GracePeriodsEnd NothingLeaks
