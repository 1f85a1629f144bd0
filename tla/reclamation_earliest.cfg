CONSTANTS
 t1=t1
 t2=t2
 x=x
 y=y
 Threads={t1,t2}
 Vars={x}
 AtomicVars={}
 Nobody=Nobody
 Calls <- AnyAccess
 MaxTx=2
 MaxOps=1
 Delayed={}
 Registrars={t1}
SPECIFICATION EpochSpec
INVARIANT NoUseAfterFree
